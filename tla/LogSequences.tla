---------------------------- MODULE LogSequences ----------------------------
(***************************************************************************)
(* What the buffers of logs do with sequences: add up the lengths of logs,  *)
(* and pick logs out.  The recursion is a function of the prefix looked at  *)
(* so far, as in the loops of the code, and what is picked is given as a    *)
(* set, so that lemmas about them hold for every choice of logs             *)
(* (LogSequencesProofs).                                                    *)
(***************************************************************************)
EXTENDS Naturals, Sequences

\* The sum of a sequence of numbers.
SumSeq(s) ==
  LET upTo[i \in 0..Len(s)] == IF i = 0 THEN 0 ELSE upTo[i - 1] + s[i]
  IN upTo[Len(s)]

\* The elements of s that are in T, in their order.
Picked(s, T) ==
  LET upTo[i \in 0..Len(s)] ==
        IF i = 0 THEN <<>>
        ELSE IF s[i] \in T THEN Append(upTo[i - 1], s[i]) ELSE upTo[i - 1]
  IN upTo[Len(s)]
=============================================================================
