------------------------------ MODULE Procedures ------------------------------
(***************************************************************************)
(* The meaning of Steps: one function of Code is run, any step that can   *)
(* fail may fail, any condition may hold, a loop has any number of items. *)
(* defer, early return and panic are those of Go.                          *)
(***************************************************************************)
EXTENDS Steps, FiniteSets

CONSTANTS
  Code,        \* name of a function |-> its steps
  Roots,        \* the functions that are run
  Asked,        \* the things and
  AskedTwice    \* the conditions that have to be remembered

ASSUME ProceduresAssumption == Roots \subseteq DOMAIN Code

\* Only what another step asks about is remembered.
ASSUME AskedAssumption ==
  LET P == Code
      steps == UNION {{<<P[f][i], f, i>> : i \in DOMAIN P[f]} : f \in DOMAIN P}
      branches == {s \in steps : s[1].op \in {"if", "unless"}}
      conditions == {b[1].r : b \in branches} \ {""}
  IN  /\ Asked = {s[1].r : s \in {s \in steps : s[1].op \in {"use", "ifset", "ifunset"}}}
      /\ AskedTwice = {c \in conditions : Cardinality({b \in branches : b[1].r = c}) > 1}

VARIABLE pr

Frame(f) == [f |-> f, code |-> Code[f], i |-> 1, defers |-> {}, gives |-> {}, recover |-> FALSE, row |-> FALSE]
Top == pr.stack[Len(pr.stack)]
Now == Top.code[Top.i]
Running == pr.outcome = "" /\ pr.ret = ""
Level == Len(pr.stack)

ProceduresInit ==
  \E f \in Roots :
    pr = [root |-> f, stack |-> <<Frame(f)>>, held |-> {}, leaked |-> {}, ever |-> {}, nils |-> {}, yes |-> {}, no |-> {},
          ret |-> "", outcome |-> "", err |-> FALSE, lost |-> {}, status |-> ""]

Func(d) == d.stack[Len(d.stack)].f
StepsOf(d) == d.stack[Len(d.stack)].code
Place(d) == d.stack[Len(d.stack)].i

\* The loops whose body ends right before step i, and those around the place.
EndingAt(d, i) == {e \in 1 .. (i - 1) : StepsOf(d)[e].op = "each" /\ i = e + StepsOf(d)[e].n + 1}
Around(d) == {e \in 1 .. (Place(d) - 1) : StepsOf(d)[e].op = "each" /\ Place(d) <= e + StepsOf(d)[e].n}

\* Going on at step i; past the last step the function returns.
At(d, i) ==
  LET s == StepsOf(d)
      next == [d EXCEPT !.stack[Len(d.stack)].i = i, !.err = @ /\ i <= Len(s) /\ s[i].op = "iferr"]
  IN  IF i > Len(s) THEN [next EXCEPT !.ret = "ok"] ELSE next

\* A loop whose body ends there may have another item.
Jump(d, i) == {At(d, i)} \cup {At(d, e + 1) : e \in {e \in EndingAt(d, i) : e <= Place(d)}}
Advance(d) == Jump(d, Place(d) + 1)
SkipBody(d) == Jump(d, Place(d) + StepsOf(d)[Place(d)].n + 1)

\* The innermost loop around the place, and the step after it.
Loop(d) == CHOOSE e \in Around(d) : \A o \in Around(d) : o <= e
AfterLoop(d) == Loop(d) + StepsOf(d)[Loop(d)].n + 1

\* What the code does with an error at step st.
OnError(d, st) ==
  CASE st.on = "return" -> {[d EXCEPT !.ret = "err"]}
    [] st.on = "stop" -> {[d EXCEPT !.ret = "ok"]}
    [] st.on = "nothing" -> {[d EXCEPT !.ret = "ok", !.stack[Len(d.stack)].row = FALSE,
                                       !.lost = IF d.stack[Len(d.stack)].row THEN @ \cup {Func(d)} ELSE @]}
    [] st.on = "log" -> Advance([d EXCEPT !.err = TRUE])
    [] st.on = "never" -> {}
    [] st.on = "continue" -> Jump(d, AfterLoop(d))
    [] st.on = "break" -> Jump([d EXCEPT !.stack[Len(d.stack)].i = Loop(d) - 1], AfterLoop(d))

\* A step that can fail.
DoStep ==
  /\ Running /\ Now.op = "do"
  /\ pr' \in Advance([pr EXCEPT !.err = FALSE]) \cup OnError(pr, Now)

\* Opening again what is still open and not deferred loses the first one.
OpenStep ==
  /\ Running /\ Now.op = "open"
  /\ LET d == [pr EXCEPT !.err = FALSE, !.held = @ \cup {Now.r}, !.ever = @ \cup ({Now.r} \cap Asked),
                         !.leaked = IF Now.r \in pr.held \ Top.defers THEN @ \cup {Now.r} ELSE @]
     IN  pr' \in Advance(d) \cup OnError(pr, Now)

CloseStep ==
  /\ Running /\ Now.op \in {"close", "defer", "give", "keep", "recover"}
  /\ pr' \in Advance(CASE Now.op = "close" -> [pr EXCEPT !.held = @ \ {Now.r}]
                       [] Now.op = "defer" -> [pr EXCEPT !.stack[Level].defers = @ \cup {Now.r}]
                       [] Now.op = "give" -> [pr EXCEPT !.stack[Level].gives = @ \cup {Now.r}]
                       [] Now.op = "keep" -> [pr EXCEPT !.held = @ \ {Now.r}]
                       [] Now.op = "recover" -> [pr EXCEPT !.stack[Level].recover = TRUE])

\* A method of nil panics; a check for nil goes around the steps it governs,
\* as the end of an alternative goes around the other one.
UseStep ==
  /\ Running /\ Now.op \in {"use", "ifset", "ifunset", "iferr", "around"}
  /\ LET holds == CASE Now.op = "iferr" -> pr.err
                    [] Now.op = "around" -> FALSE
                    [] Now.op = "ifunset" -> Now.r \notin pr.ever
                    [] Now.op \in {"use", "ifset"} -> Now.r \in pr.ever
     IN  pr' \in IF holds THEN Advance(pr)
                 ELSE IF Now.op = "use" THEN {[pr EXCEPT !.ret = "panic", !.nils = @ \cup {Now.r}]}
                 ELSE SkipBody(pr)

\* A condition has one value throughout; one without a name is read once.
BranchStep ==
  /\ Running /\ Now.op \in {"if", "unless"}
  /\ \E holds \in BOOLEAN :
       /\ Now.r \in pr.yes => holds
       /\ Now.r \in pr.no => ~holds
       /\ LET d == IF holds THEN [pr EXCEPT !.yes = @ \cup ({Now.r} \cap AskedTwice)]
                          ELSE [pr EXCEPT !.no = @ \cup ({Now.r} \cap AskedTwice)]
          IN  pr' \in IF holds = (Now.op = "if") THEN Advance(d) ELSE SkipBody(d)

LoopStep ==
  /\ Running /\ Now.op = "each"
  /\ pr' \in SkipBody(pr) \cup Advance(pr)

NoteStep ==
  /\ Running /\ Now.op \in {"row", "report", "set", "clear"}
  /\ pr' \in Advance(CASE Now.op = "row" -> [pr EXCEPT !.stack[Level].row = TRUE]
                       [] Now.op = "report" -> [pr EXCEPT !.status = Now.r]
                       [] Now.op = "set" -> [pr EXCEPT !.ever = @ \cup ({Now.r} \cap Asked)]
                       [] Now.op = "clear" -> [pr EXCEPT !.ever = @ \ {Now.r}])

CallStep ==
  /\ Running /\ Now.op = "call"
  /\ pr' = [pr EXCEPT !.stack = Append(@, Frame(Now.r))]

EndStep ==
  /\ Running /\ Now.op \in {"end", "next"}
  /\ pr' \in IF Now.op = "end" THEN {[pr EXCEPT !.ret = Now.on]} ELSE OnError(pr, Now)

\* The deferred closes run, a deferred recover makes the panic a return of
\* zero values, and the caller goes on with the result.  A goroutine's panic
\* and result stay with it.  A function's error throws away the rows it made
\* or was given.
Result == IF pr.ret = "panic" /\ Top.recover THEN "ok" ELSE pr.ret

Returns ==
  /\ pr.outcome = "" /\ pr.ret # ""
  /\ LET d == [pr EXCEPT !.held = @ \ Top.defers, !.stack = SubSeq(@, 1, Level - 1),
                         !.lost = IF Top.row /\ Result = "err" THEN @ \cup {Top.f} ELSE @]
         c == [d EXCEPT !.ret = "", !.stack[Level - 1].row = @ \/ (Top.row /\ Result = "ok")]
         call == c.stack[Level - 1].code[c.stack[Level - 1].i]
     IN  pr' \in IF Level = 1 THEN {[d EXCEPT !.outcome = Result, !.held = @ \ Top.gives]}
                 ELSE IF Result = "ok" \/ call.on = "go" THEN Advance([c EXCEPT !.err = FALSE])
                 ELSE IF Result = "panic" THEN {d}
                 ELSE OnError(c, call)

ProceduresNext ==
  DoStep \/ OpenStep \/ CloseStep \/ UseStep \/ BranchStep \/ LoopStep \/ NoteStep \/ CallStep \/ EndStep \/ Returns

ProceduresSpec == ProceduresInit /\ [][ProceduresNext]_pr
=============================================================================
