----------------------------- MODULE MCShipping -----------------------------
(* The ways logs leave launcher, for TLC: its own logs through the send      *)
(* buffer, those of osquery through the extension's loop, and the enrollment *)
(* that the extension's requests need.  They share no state here, so a       *)
(* behaviour is one of any: part says which, and the others stay as they     *)
(* begin.  Writes of one and two bytes into a buffer of four, sent two bytes *)
(* at a time, make purges, partial sends and a Drain of several sends.       *)
EXTENDS SendBuffer, Enrollment, BufferedLogs

VARIABLE part

ShippingInit ==
  /\ part \in {"buffer", "enrollment", "logs"}
  /\ Init /\ EnrollmentInit /\ BufferedLogsInit
  /\ part = "enrollment" \/ (nodeKey = None /\ secret /\ url = Home)

ShippingNext ==
  /\ UNCHANGED part
  /\ \/ part = "buffer" /\ Next /\ UNCHANGED <<enrollVars, logVars>>
     \/ part = "enrollment" /\ EnrollmentNext /\ UNCHANGED <<vars, logVars>>
     \/ part = "logs" /\ BufferedLogsNext /\ UNCHANGED <<vars, enrollVars>>

\* The fairness of each, for the part that moves.
ShippingFairness ==
  /\ WF_vars(part = "buffer" /\ RunSend) /\ WF_vars(part = "buffer" /\ SendReturns)
  /\ SF_vars(part = "buffer" /\ SendSucceeds)
  /\ WF_vars(part = "buffer" /\ (DrainSend \/ DrainReturns)) /\ WF_vars(part = "buffer" /\ DrainWaits)
  /\ \A t \in Threads : WF_enrollVars(part = "enrollment" /\ Step(t))
  /\ WF_enrollVars(part = "enrollment" /\ Begin(ConfigCaller))
  /\ WF_logVars(part = "logs" /\ LogLoop)

ShippingSpec ==
  ShippingInit /\ [][ShippingNext]_<<vars, enrollVars, logVars, part>> /\ ShippingFairness
=============================================================================
