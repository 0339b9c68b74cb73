-------------------------------- MODULE Steps --------------------------------
(***************************************************************************)
(* The vocabulary in which functions that run from top to bottom are       *)
(* written down: a function is a sequence of steps, one for each statement *)
(* that can fail, open, close or depend on something, in the order of the  *)
(* code.  Procedures gives the steps their meaning.                        *)
(*                                                                         *)
(*   op   what the step does, r the thing (or function, or condition) it   *)
(*   does it with, on what the code does when it fails, n the number of    *)
(*   steps that an If or an Each governs.                                  *)
(***************************************************************************)
EXTENDS Naturals, Sequences

Step(op, r, on, n) == [op |-> op, r |-> r, on |-> on, n |-> n]

\* Something that can fail: the error is returned, logged, takes the loop to
\* its next item, or ends the function without an error, with or without the
\* rows made so far.
Must(what) == Step("do", what, "return", 0)
Try(what) == Step("do", what, "log", 0)
Skip(what) == Step("do", what, "continue", 0)
Quit(what) == Step("do", what, "stop", 0)
Drop(what) == Step("do", what, "nothing", 0)

\* Something that has to be closed again or may be nil afterwards.
Open(r) == Step("open", r, "return", 0)
TryOpen(r) == Step("open", r, "log", 0)
SkipOpen(r) == Step("open", r, "continue", 0)
QuitOpen(r) == Step("open", r, "stop", 0)
Hold(r) == Step("open", r, "never", 0)      \* opening it cannot fail
Close(r) == Step("close", r, "", 0)
Defer(r) == Step("defer", r, "", 0)
Use(r) == Step("use", r, "", 0)

\* r outlives the function: its caller owns it from here on, or the process.
Give(r) == Step("give", r, "", 0)
Keep(r) == Step("keep", r, "", 0)

Call(f) == Step("call", f, "return", 0)
TryCall(f) == Step("call", f, "log", 0)
SkipCall(f) == Step("call", f, "continue", 0)
QuitCall(f) == Step("call", f, "stop", 0)

\* A goroutine, in which a panic is recovered and logged.
Go(f) == Step("call", f, "go", 0)
Recover == Step("recover", "", "", 0)

\* The steps of body are taken if the condition holds or not, if r was set up
\* or not, if the step before them failed, or once for every item of a list.
When(c, body) == <<Step("if", c, "", Len(body))>> \o body
WhenNot(c, body) == <<Step("unless", c, "", Len(body))>> \o body
WhenSet(r, body) == <<Step("ifset", r, "", Len(body))>> \o body
WhenUnset(r, body) == <<Step("ifunset", r, "", Len(body))>> \o body
WhenErr(body) == <<Step("iferr", "", "", Len(body))>> \o body
ForEach(body) == <<Step("each", "", "", Len(body))>> \o body
Either(this, that) == When("", this \o <<Step("around", "", "", Len(that))>>) \o that

\* One of several functions, or none of them.
OneOf(fs) == [i \in 1 .. 3 * Len(fs) |->
                LET k == ((i - 1) \div 3) + 1 IN
                CASE i % 3 = 1 -> Step("if", "", "", 2) [] i % 3 = 2 -> Call(fs[k]) [] i % 3 = 0 -> Step("end", "", "ok", 0)]

Return == <<Step("end", "", "ok", 0)>>
Fail == <<Step("end", "", "err", 0)>>
Continue == <<Step("next", "", "continue", 0)>>
Break == <<Step("next", "", "break", 0)>>

\* A row of a table, or another result that an error would throw away.
Row == Step("row", "", "", 0)

\* The status that a checkup gives itself, and a flag that a loop sets for
\* the code after it (WhenSet).
Report(s) == Step("report", s, "", 0)
Set(r) == Step("set", r, "", 0)
Clear(r) == Step("clear", r, "", 0)

\* A step that is logged, and whose failure is the status of the checkup.
Or(step, s) == <<step>> \o WhenErr(<<Report(s)>> \o Return)
=============================================================================
