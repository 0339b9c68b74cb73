----------------------------- MODULE LogShipper -----------------------------
(***************************************************************************)
(* The log shipper, pkg/log/logshipper, around the buffer of SendBuffer:    *)
(* Pings, from the control server's subscriptions, from changed flags and   *)
(* from the goroutine that collects enrollment details, gather what a       *)
(* sender needs and add the device's identifiers to what is buffered; the   *)
(* last of them starts the shipping that Run waits for.                     *)
(***************************************************************************)
EXTENDS Integers, Sequences, LogSequences

CONSTANTS Pingers,       \* goroutines that call Ping
          MaxBytes,      \* the buffer's room: a log takes one, with the identifiers two
          MaxLogs, MaxPings   \* bounds on the logs written and the calls of Ping

VARIABLE ship

Idle == [at |-> "idle", tagged |-> FALSE]

\* known: what a Ping looks for.  writer: a log handler between its middleware and Write.
\* shipped and lost are histories: the logs sent, the numbers of those a send deleted unsent.
LogShipperInit ==
  ship = [known |-> [token |-> FALSE, url |-> FALSE, ids |-> FALSE], tags |-> FALSE,
          pings |-> 0, ping |-> [t \in Pingers |-> "idle"], overlapped |-> FALSE,
          isShippingStarted |-> FALSE, startShippingChan |-> FALSE, run |-> "waiting",
          stopFunc |-> FALSE, stop |-> "no", endpoint |-> FALSE,
          writer |-> Idle, logs |-> 0,
          buffer |-> <<>>, batch |-> <<>>, sending |-> FALSE, logsJustPurged |-> FALSE,
          panicked |-> FALSE, shipped |-> {}, lost |-> {}]

Ready == ship.known.token /\ ship.known.url /\ ship.known.ids

\* The control server, the flags and osquery provide what is missing.
Provide(k) == ~ship.known[k] /\ ship' = [ship EXCEPT !.known[k] = TRUE]

\* A Ping that begins now reads isShippingStarted before another has set it.
Overlaps ==
  Ready /\ ~ship.isShippingStarted /\ \E u \in Pingers : ship.ping[u] # "idle"

\* Ping up to the Load of isShippingStarted: the token, the URL, which is stored in the
\* sender, and the identifiers, which are stored for the loggers.
Ping(t) ==
  /\ ship.ping[t] = "idle" /\ ship.pings < MaxPings
  /\ ship' = [ship EXCEPT
       !.pings = @ + 1, !.endpoint = ship.known.token /\ ship.known.url,
       !.tags = @ \/ Ready, !.overlapped = @ \/ Overlaps,
       !.ping[t] = IF ~Ready THEN "idle"
                   ELSE IF ship.isShippingStarted THEN "swap" ELSE "update"]

Room(l) == IF l.tagged THEN 2 ELSE 1
Total(logs) == SumSeq([i \in DOMAIN logs |-> Room(logs[i])])

\* UpdateData, one critical section of writeMutex: the logs are rewritten from the oldest
\* on; one that does not fit beside all the others any more is dropped.
Rewrite(acc, l) ==
  LET tagged == [n |-> l.n, tagged |-> TRUE, late |-> l.late]
      size == acc.size - Room(l) + Room(tagged)
  IN IF size > MaxBytes THEN [logs |-> acc.logs, size |-> acc.size - Room(l)]
     ELSE [logs |-> Append(acc.logs, tagged), size |-> size]
Rewritten(logs) ==
  LET upTo[i \in 0..Len(logs)] ==
        IF i = 0 THEN [logs |-> <<>>, size |-> Total(logs)]
        ELSE Rewrite(upTo[i - 1], logs[i])
  IN upTo[Len(logs)].logs
UpdateData(t) ==
  /\ ship.ping[t] = "update"
  /\ ship' = [ship EXCEPT !.ping[t] = "swap", !.buffer = Rewritten(@)]

\* Mutant of PingStarts: the swap comes before the buffer is rewritten.
PingStartsEarly(t) ==
  /\ ship.ping[t] \in {"update", "swap"}
  /\ ship' = [ship EXCEPT !.ping[t] = IF @ = "update" THEN @ ELSE "idle", !.isShippingStarted = TRUE,
                          !.startShippingChan = @ \/ ~ship.isShippingStarted]

\* The Swap of isShippingStarted: the first wakes Run.
PingStarts(t) ==
  /\ ship.ping[t] = "swap"
  /\ ship' = [ship EXCEPT !.ping[t] = "idle", !.isShippingStarted = TRUE,
                          !.startShippingChan = @ \/ ~ship.isShippingStarted]

\* Run: waits for the channel, sets stopFunc, and lets the buffer run.
ShipperRuns ==
  \/ /\ ship.run = "waiting" /\ ship.startShippingChan
     /\ ship' = [ship EXCEPT !.run = "starting", !.startShippingChan = FALSE]
  \/ /\ ship.run = "starting"
     /\ ship' = [ship EXCEPT !.run = "shipping", !.stopFunc = TRUE]
  \/ /\ ship.run = "shipping" /\ ship.stop = "cancelled" /\ ~ship.sending
     /\ ship' = [ship EXCEPT !.run = "returned"]

\* Stop: cancels Run if it got that far, and drains.
StopShipper ==
  /\ ship.stop = "no"
  /\ ship' = [ship EXCEPT !.stop = IF ship.stopFunc THEN "cancelled" ELSE "missed"]

\* The slog handler: the middleware adds the identifiers, the JSON handler writes.
HandlerAdds ==
  /\ ship.writer.at = "idle" /\ ship.logs < MaxLogs
  /\ ship' = [ship EXCEPT !.writer = [at |-> "write", tagged |-> ship.tags], !.logs = @ + 1]
HandlerWrites ==
  /\ ship.writer.at = "write"
  /\ LET l == [n |-> ship.logs, tagged |-> ship.writer.tagged,
               late |-> ship.tags /\ ~ship.writer.tagged]
     IN ship' = IF Total(ship.buffer) + Room(l) > MaxBytes
                  THEN [ship EXCEPT !.writer = Idle, !.buffer = <<>>, !.logsJustPurged = TRUE]
                  ELSE [ship EXCEPT !.writer = Idle, !.buffer = Append(@, l)]

Elements(s) == {s[i] : i \in DOMAIN s}

\* sendAndPurge of the Run loop: copy, send, delete as many as were copied, which panics
\* when there are not as many.
SendsBatch ==
  /\ ship.run = "shipping" /\ ~ship.sending /\ ship.buffer # <<>> /\ ship.endpoint
  /\ ship' = [ship EXCEPT !.sending = TRUE, !.batch = ship.buffer]
BatchSent ==
  /\ ship.sending
  /\ LET n == IF ship.logsJustPurged THEN 0 ELSE Len(ship.batch)
         deleted == IF n > Len(ship.buffer) THEN <<>> ELSE SubSeq(ship.buffer, 1, n)
     IN ship' = [ship EXCEPT !.sending = FALSE, !.batch = <<>>, !.logsJustPurged = FALSE,
                   !.buffer = SubSeq(@, Len(deleted) + 1, Len(@)), !.shipped = @ \cup Elements(ship.batch),
                   !.panicked = n > Len(ship.buffer),
                   !.lost = @ \cup ({l.n : l \in Elements(deleted)}
                                     \ {l.n : l \in Elements(ship.batch)})]
SendFailsOnce == ship.sending /\ ship' = [ship EXCEPT !.sending = FALSE, !.batch = <<>>]

LogShipperNext ==
  /\ ~ship.panicked
  /\ \/ \E k \in {"token", "url", "ids"} : Provide(k)
     \/ \E t \in Pingers : Ping(t) \/ UpdateData(t) \/ PingStarts(t)
     \/ ShipperRuns \/ StopShipper \/ HandlerAdds \/ HandlerWrites
     \/ SendsBatch \/ BatchSent \/ SendFailsOnce

LogShipperSpec == LogShipperInit /\ [][LogShipperNext]_ship

(***************************************************************************)
(* "If shipping has not yet started and there are logs in the buffer, the   *)
(* device identifiers are added to the logs in the buffer": the rewriting   *)
(* is over before anything is shipped.  A log shipped by Run carries the    *)
(* identifiers unless its handler had run before they were known, and a     *)
(* send deletes the logs it sent and nothing else.                          *)
(***************************************************************************)
IdentifiedBeforeShipping ==
  ~ship.panicked /\ ship.lost = {} /\ \A l \in ship.shipped : l.tagged \/ l.late

(***************************************************************************)
(* So it is, unless a Ping began while another was between reading          *)
(* isShippingStarted and setting it.                                        *)
(***************************************************************************)
IdentifiedUnlessPingsOverlap == ship.overlapped \/ IdentifiedBeforeShipping
=============================================================================
