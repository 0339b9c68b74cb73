----------------------------- MODULE MCServices -----------------------------
(* The services of launcher whose properties are invariants, for TLC: the    *)
(* flags, deduplication and shipping of logs, traces, the local server, the  *)
(* files of the database, hardware changes, the workers of a table, and the  *)
(* functions that run from top to bottom.  They share no state here, so a    *)
(* behaviour is one of any: part says which, and the others stay as they     *)
(* begin.                                                                    *)
EXTENDS FlagController, LogDedup, LogShipper, TelemetryExporter, LocalServer,
        DatabaseFiles, HardwareReset, TableWrapper, LauncherProcedures, FlagValues, TLC

VARIABLE part

\* The flag of the parts that are not about one.
IdleFlag == [f |-> DesktopFlags.DesktopEnabled, opts |-> FALSE, stored |-> Nothing, override |-> Nothing,
             wrote |-> Nothing, steps |-> 0]

ServicesInit ==
  /\ part \in {"flags", "values", "dedup", "shipper", "traces", "localserver", "database", "hardware", "table", "procedure"}
  /\ Init /\ LogShipperInit /\ DatabaseFilesInit /\ newWrappedTable
  /\ IF part = "values" THEN FlagInit ELSE flag = IdleFlag
  /\ DedupInit /\ (part = "dedup" \/ dedup.window = 0)
  /\ TelemetryInit /\ (part = "traces" \/ tel.enabled)
  /\ LocalServerInit /\ (part = "localserver" \/ loc.tenantMunemo = NoMunemo)
  /\ HardwareInit /\ (part = "hardware" \/ hw.windows)
  /\ ProceduresInit /\ (part = "procedure" \/ pr.root = "CheckupsOnce")

ServicesNext ==
  /\ UNCHANGED part
  /\ \/ part = "flags" /\ Next /\ UNCHANGED <<flag, dedup, ship, tel, loc, dbf, hw, twVars, pr>>
     \/ part = "values" /\ FlagNext /\ UNCHANGED <<vars, dedup, ship, tel, loc, dbf, hw, twVars, pr>>
     \/ part = "dedup" /\ DedupNext /\ UNCHANGED <<vars, flag, ship, tel, loc, dbf, hw, twVars, pr>>
     \/ part = "shipper" /\ LogShipperNext /\ UNCHANGED <<vars, flag, dedup, tel, loc, dbf, hw, twVars, pr>>
     \/ part = "traces" /\ TelemetryNext /\ UNCHANGED <<vars, flag, dedup, ship, loc, dbf, hw, twVars, pr>>
     \/ part = "localserver" /\ LocalServerNext /\ UNCHANGED <<vars, flag, dedup, ship, tel, dbf, hw, twVars, pr>>
     \/ part = "database" /\ DatabaseFilesNext /\ UNCHANGED <<vars, flag, dedup, ship, tel, loc, hw, twVars, pr>>
     \/ part = "hardware" /\ HardwareNext /\ UNCHANGED <<vars, flag, dedup, ship, tel, loc, dbf, twVars, pr>>
     \/ part = "table" /\ TableWrapperNext /\ UNCHANGED <<vars, flag, dedup, ship, tel, loc, dbf, hw, pr>>
     \/ part = "procedure" /\ ProceduresNext /\ UNCHANGED <<vars, flag, dedup, ship, tel, loc, dbf, hw, twVars>>

ServicesSpec ==
  ServicesInit /\ [][ServicesNext]_<<vars, flag, dedup, ship, tel, loc, dbf, hw, twVars, pr, part>>

-----------------------------------------------------------------------------
\* The constants of the local server.
Challenge(f, m, c, p, path) == [fault |-> f, munemo |-> m, callback |-> c, presence |-> p, path |-> path]
MCRequests ==
  {Challenge("none", NoMunemo, TRUE, TRUE, "/id"), Challenge("none", "m1", TRUE, FALSE, "/acceleratecontrol"),
   Challenge("origin", "m2", TRUE, FALSE, "/id"), Challenge("box", NoMunemo, FALSE, FALSE, "/id")}
Link(by, k, ok, old) == [complete |-> TRUE, signedBy |-> by, key |-> k, verifies |-> ok, expired |-> old]
MCDt4aRequests ==
  {[origin |-> "none", payload |-> TRUE, path |-> "/accelerate",
    chain |-> <<Link("root", "ecdsa", TRUE, FALSE), Link("leaf", "x25519", TRUE, old)>>] : old \in BOOLEAN}
MCPorts == <<1, 2>>

\* Keys and setters of flags are alike.
FlagSymmetry == Permutations(Keys) \cup Permutations(Setters)
=============================================================================
