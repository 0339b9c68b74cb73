----------------------------- MODULE LocalServer -----------------------------
(***************************************************************************)
(* The local server, ee/localserver: handlers of concurrent requests check  *)
(* a signed challenge, run a command and queue a callback; one worker sends *)
(* the callbacks and enrolls launcher with what comes back; a poller looks  *)
(* for the tenant of an enrollment made elsewhere; presence detection       *)
(* reports through the same queue while the user is being asked.            *)
(***************************************************************************)
EXTENDS Naturals, Sequences, FiniteSets

CONSTANTS Handlers,                  \* goroutines that serve requests
          Requests,                  \* challenges: [fault, munemo, callback, presence, path]
          Dt4aRequests,              \* requests to /v3 and /zta: [origin, payload, chain, path]
          TrustedKeys,               \* key ids a chain may start from
          NoMunemo, Munemos,         \* tenants
          Ports, BusyPorts,          \* PortList as a sequence, the taken ones
          maxDesiredCallbackQueueSize, callbackQueueCapacity,
          MaxRequests, MaxUpdates,   \* bounds on the requests, the status updates
          MaxLocEvents               \* and on everything that is not part of a request

\* Each handler that sends, and presence detection, finds room: the desired size and one
\* callback of every other sender fit in the channel.
ASSUME LocalServerAssumption ==
  /\ IsFiniteSet(Handlers) /\ "presence" \notin Handlers
  /\ maxDesiredCallbackQueueSize \in Nat \ {0} /\ callbackQueueCapacity \in Nat
  /\ maxDesiredCallbackQueueSize + Cardinality(Handlers) <= callbackQueueCapacity

\* callbackQueue is the number of callbacks queued: they are not told apart.
VARIABLE loc

\* Something other than a request happens.
Apart(s) == loc.events < MaxLocEvents /\ loc' = [s EXCEPT !.events = @ + 1]

NoDetection == [at |-> "none", result |-> "none", timedOut |-> FALSE, updates |-> 0]

\* New: the tenant is that of the stored enrollment, if there is one.
LocalServerInit ==
  \E m \in Munemos \cup {NoMunemo} :
    loc = [start |-> "new", port |-> 0, interrupt |-> "no", cancelled |-> FALSE,
           callbackQueue |-> 0, worker |-> "idle", shutdown |-> FALSE,
           tenantMunemo |-> m, enrolled |-> m, got |-> NoMunemo, found |-> NoMunemo,
           poller |-> "wait", urlsMoved |-> FALSE,
           serving |-> [h \in Handlers |-> [at |-> "idle", presence |-> FALSE]],
           presence |-> NoDetection, detector |-> "none", stuck |-> 0,
           accelerated |-> FALSE, hostIdentifier |-> FALSE, ids |-> FALSE,
           requests |-> 0, events |-> 0]

-----------------------------------------------------------------------------
(* Start and Interrupt.                                                    *)

\* startListener: the first port that can be bound.
startListener ==
  LET free == {i \in DOMAIN Ports : Ports[i] \notin BusyPorts}
  IN IF free = {} THEN 0 ELSE Ports[CHOOSE i \in free : \A j \in free : i <= j]

StartServer ==
  /\ loc.start = "new"
  /\ loc' = [loc EXCEPT !.port = startListener, !.cancelled = FALSE,
       !.start = IF startListener = 0 \/ loc.interrupt # "no" THEN "returned" ELSE "serving"]

\* Interrupt, once: no new connections, the goroutines of Start are cancelled ...
InterruptServer ==
  /\ loc.interrupt = "no"
  /\ Apart([loc EXCEPT !.interrupt = "stopped",
                        !.start = IF @ = "serving" THEN "returned" ELSE @,
                        !.cancelled = loc.start # "new"])

\* ... and the callback worker is told.
CloseMiddleware ==
  /\ loc.interrupt = "stopped"
  /\ loc' = [loc EXCEPT !.interrupt = "closed", !.shutdown = TRUE]

\* runAsyncdWorkers: the identifiers are looked up once a day, again when that failed.
runAsyncdWorkers ==
  /\ loc.start # "new" /\ ~loc.cancelled /\ ~loc.ids
  /\ \E found \in BOOLEAN : Apart([loc EXCEPT !.ids = found])
RecalculateInterval == loc.ids /\ Apart([loc EXCEPT !.ids = FALSE])

-----------------------------------------------------------------------------
(* Requests.                                                               *)

extractChallenge(r) == r.fault # "box"
checkMunemo(r) == loc.tenantMunemo = NoMunemo \/ r.munemo \in {NoMunemo, loc.tenantMunemo}
CallbackReq(r) == r.callback /\ r.fault # "callback"
checkOrigin(r) == IF r.fault = "origin" THEN "origin-disallowed" ELSE "none"
checkTimestamp(r) == IF r.fault = "time" THEN "time-out-of-range" ELSE "none"

\* The commands.  acceleratecontrol parses both durations before it sets both overrides.
requestAccelerateControlFunc(r, s) == IF r.fault = "body" THEN s ELSE [s EXCEPT !.accelerated = TRUE]
requestIdHandlerFunc(s) == [s EXCEPT !.hostIdentifier = @ \/ s.enrolled # NoMunemo]
cmdReqToHttpReq(r, s) ==
  IF r.path = "/acceleratecontrol" THEN requestAccelerateControlFunc(r, s)
  ELSE IF r.path = "/id" THEN requestIdHandlerFunc(s)
  ELSE s

\* Wrap: what fails before the callback is known goes unreported, later faults are reported
\* by it; the command runs only without one.
Wrap(h, r) ==
  /\ loc.start = "serving" /\ loc.requests < MaxRequests /\ loc.serving[h].at = "idle"
  /\ LET s == [loc EXCEPT !.requests = @ + 1]
         readable == extractChallenge(r) /\ r.fault \notin {"signature", "json"} /\ checkMunemo(r)
         error == IF checkOrigin(r) # "none" THEN checkOrigin(r) ELSE checkTimestamp(r)
         ran == IF error = "none" THEN cmdReqToHttpReq(r, s) ELSE s
     IN loc' = IF ~readable THEN s
               ELSE IF ~CallbackReq(r) THEN ran
               ELSE [ran EXCEPT !.serving[h] = [at |-> "send", presence |-> r.presence]]

-----------------------------------------------------------------------------
(* sendCallback, by handlers and by presence detection.                     *)

Producers == Handlers \cup {"presence"}
SendAt(p) == IF p = "presence" THEN loc.presence.at ELSE loc.serving[p].at
SendGo(p, s, place) == IF p = "presence" THEN [s EXCEPT !.presence.at = place]
                                         ELSE [s EXCEPT !.serving[p].at = place]

\* Mutant of sendCallback: the oldest callback is not dropped.
sendCallbackKeepsAll(p) ==
  /\ SendAt(p) = "send"
  /\ loc' = SendGo(p, loc, "push")

\* The length is looked at ...
sendCallback(p) ==
  /\ SendAt(p) = "send"
  /\ loc' = SendGo(p, loc, IF loc.callbackQueue >= maxDesiredCallbackQueueSize
                             THEN "drop" ELSE "push")

\* ... the oldest is dropped, if it is still there ...
DropOldest(p) ==
  /\ SendAt(p) = "drop"
  /\ loc' = SendGo(p, [loc EXCEPT !.callbackQueue = IF @ = 0 THEN 0 ELSE @ - 1], "push")

\* ... and the new one queued, which waits for room in the channel.  A handler then starts
\* presence detection, unless one is under way.
PushCallback(p) ==
  /\ SendAt(p) = "push" /\ loc.callbackQueue < callbackQueueCapacity
  /\ LET s == [loc EXCEPT !.callbackQueue = @ + 1]
         served == [s EXCEPT !.serving[p] = [at |-> "idle", presence |-> FALSE]]
         last == loc.presence.result # "none" \/ loc.presence.timedOut
     IN loc' = IF p = "presence" THEN SendGo(p, s, IF last THEN "none" ELSE "select")
               ELSE IF loc.serving[p].presence /\ loc.presence.at = "none"
                 THEN [served EXCEPT !.presence = [NoDetection EXCEPT !.at = "send"],
                                     !.detector = "asking"]
               ELSE served

-----------------------------------------------------------------------------
(* detectPresence: a status update after every tick, and a last one with    *)
(* the result or the timeout.                                               *)

detectPresence ==
  /\ loc.presence.at = "select"
  /\ \/ loc.presence.updates < MaxUpdates
        /\ loc' = [loc EXCEPT !.presence.at = "send", !.presence.updates = @ + 1]
     \/ loc' = [loc EXCEPT !.presence.at = "send", !.presence.timedOut = TRUE,
                           !.detector = "none", !.stuck = @ + 1]
     \/ /\ loc.detector = "done"
        /\ \E result \in {"complete", "error"} :
             loc' = [loc EXCEPT !.presence.at = "send", !.presence.result = result,
                                !.detector = "none"]

\* The user answers or does not; the answer can be handed over only to detectPresence in
\* its select.  After a timeout nobody takes it: its goroutine is stuck.
DetectPresence == loc.detector = "asking" /\ loc' = [loc EXCEPT !.detector = "done"]

-----------------------------------------------------------------------------
(* callbackWorker and the poller for the munemo.                            *)

callbackWorker ==
  /\ loc.worker = "idle"
  /\ loc' = IF loc.shutdown THEN [loc EXCEPT !.worker = "stopped"]
            ELSE [loc EXCEPT !.worker = "sending", !.callbackQueue = @ - 1]

\* No answer, one without a node key, or an enrollment, of which the tenant is stored first;
\* any answer may name the servers of another deployment, which are set before.
CallbackAnswered ==
  /\ loc.worker = "sending"
  /\ \E moved \in BOOLEAN :
       LET s == [loc EXCEPT !.urlsMoved = @ \/ moved] IN
         \/ loc' = [s EXCEPT !.worker = "idle"]
         \/ \E m \in Munemos : ~loc.shutdown
              /\ loc' = [s EXCEPT !.worker = "save", !.tenantMunemo = m, !.got = m]
SaveEnrollment ==
  /\ loc.worker = "save"
  /\ \/ loc' = [loc EXCEPT !.worker = "idle", !.got = NoMunemo, !.enrolled = loc.got]
     \/ loc' = [loc EXCEPT !.worker = "idle", !.got = NoMunemo]

\* The osquery extension enrolls with a secret.
ExtensionEnrolls ==
  /\ loc.enrolled = NoMunemo
  /\ \E m \in Munemos : Apart([loc EXCEPT !.enrolled = m])

getMunemoFromKnapsack ==
  /\ loc.start # "new" /\ ~loc.cancelled
  /\ \/ /\ loc.poller = "wait" /\ loc.tenantMunemo = NoMunemo /\ loc.enrolled # NoMunemo
        /\ loc' = [loc EXCEPT !.poller = "store", !.found = loc.enrolled]
     \/ /\ loc.poller = "store"
        /\ loc' = [loc EXCEPT !.poller = "wait", !.found = NoMunemo, !.tenantMunemo = loc.found]

-----------------------------------------------------------------------------
(* The dt4a endpoints, with a chain of keys each signed by the one before.  *)

originIsAllowlisted(r) == r.origin # "foreign"

ecdsaPubKey(link) == link.key \in {"ecdsa"}
x25519PubKey(link) == link.key = "x25519"
validate(links) ==
  /\ links # <<>>
  /\ \A i \in DOMAIN links : links[i].complete
  /\ links[1].signedBy \in TrustedKeys
  /\ \A i \in DOMAIN links : /\ links[i].verifies /\ ~links[i].expired
                             /\ i < Len(links) => ecdsaPubKey(links[i])
  /\ x25519PubKey(links[Len(links)])

Dt4aCode(r) ==
  IF ~originIsAllowlisted(r) THEN 403
  ELSE IF ~r.payload THEN 400
  ELSE IF ~validate(r.chain) THEN 401
  ELSE IF r.path = "/accelerate" THEN 204 ELSE 200

accelerate(r) ==
  /\ loc.start = "serving" /\ ~loc.accelerated
  /\ Apart([loc EXCEPT !.accelerated = Dt4aCode(r) = 204])

LocalServerNext ==
  \/ StartServer \/ InterruptServer \/ CloseMiddleware \/ runAsyncdWorkers \/ RecalculateInterval
  \/ \E h \in Handlers, r \in Requests : Wrap(h, r)
  \/ \E p \in Producers : sendCallback(p) \/ DropOldest(p) \/ PushCallback(p)
  \/ detectPresence \/ DetectPresence
  \/ (loc.callbackQueue > 0 \/ loc.shutdown) /\ callbackWorker
  \/ CallbackAnswered \/ SaveEnrollment \/ ExtensionEnrolls \/ getMunemoFromKnapsack
  \/ \E r \in Dt4aRequests : accelerate(r)

LocalServerSpec == LocalServerInit /\ [][LocalServerNext]_loc

(***************************************************************************)
(* "we never want to block on sending to the queue": as long as no more     *)
(* handlers send at a time than the channel has room beyond the desired     *)
(* size, no sender waits for room, although each looks at the length,       *)
(* drops and sends in steps of its own, and also after the worker has       *)
(* stopped.                                                                 *)
(***************************************************************************)
CallbacksNeverBlock ==
  \A p \in Producers : SendAt(p) = "push" => loc.callbackQueue < callbackQueueCapacity
=============================================================================
