CONSTANTS
    maxWriteBytes = 2
    maxStorageSizeBytes = 4
    maxSendSizeBytes = 2
    maxDrainSends = 2
    WriteLens = {1, 2}
    MaxWrites = 4
SPECIFICATION Spec
PROPERTIES SkipsDeleteOnlyOfPurged
