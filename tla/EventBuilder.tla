---------------------------- MODULE EventBuilder ----------------------------
(***************************************************************************)
(* The cron expression of an in-memory event while its schedule is being   *)
(* configured: Cron() and its shorthands create and validate one, and the  *)
(* day constraints Monday() to Weekend() append to its weekdays, without   *)
(* another validation.  Every tick of the scheduler then evaluates it.     *)
(***************************************************************************)
EXTENDS Cron

CONSTANTS
    Texts,      \* the expressions users write, as tuples of five parts
    Times,      \* the times at which they are constructed and evaluated
    MaxDays     \* bound on the day constraints of one event

ASSUME EventBuilderAssumption == MaxDays \in Nat /\ Texts \subseteq [Field -> Part]

VARIABLES
    expression, \* _expression of the event
    written,    \* history: the expression the user wrote
    days        \* history: the day constraints, in order

builder == <<expression, written, days>>

\* What the constructor has accepted at some time.
Writable == {e \in Texts : \E t \in Times : Accepted(e, t)}

InitBuilder ==
    /\ expression \in Writable
    /\ written = expression
    /\ days = <<>>

\* Monday(), ..., Sunday()
AppendWeekDay(d) ==
    /\ Len(days) < MaxDays
    /\ expression' = [expression EXCEPT ![WeekDay] = Appended(@, d)]
    /\ days' = Append(days, d)
    /\ UNCHANGED written

NextBuilder == \E d \in 0 .. Sizes[WeekDay] - 1 : AppendWeekDay(d)

-----------------------------------------------------------------------------
\* Expressions that a tick may still find malformed or never get past: a list
\* with a bad entry behind a match, a range with step zero, and a range or a
\* divisor for weekdays with a day appended to it.
Treacherous ==
    \/ \E i \in Field : expression[i].form = "list" /\ Bad \in ToSet(expression[i].vs)
    \/ \E i \in Field : expression[i].form = "steps" /\ expression[i].s = 0
    \/ days # <<>> /\ written[WeekDay].form \in {"span", "steps", "every"}

\* An exception in IsDue ends the process (the timer callback is async void),
\* so what the constructor has accepted must not throw at a later time, nor
\* loop.  Outside the treacherous forms it does not.
AcceptedEvaluates ==
    Treacherous \/ \A t \in Times : IsDue(expression, t) \in {"due", "not"}

\* Day constraints: the event is due on the days that were appended, together
\* with the weekdays of the expression if it names any.
DaysAreUnion ==
    Treacherous \/
    \A d \in 0 .. Sizes[WeekDay] - 1 :
        Eval(expression[WeekDay], WeekDay, d) = "due" <=>
            \/ d \in ToSet(days)
            \/ /\ days = <<>> \/ written[WeekDay] # Star
               /\ Eval(written[WeekDay], WeekDay, d) = "due"

\* DocsV2/docs/Scheduler/README.md: "00 */2 * * *" is "every two hours on the
\* hour".  The times of */n are n apart around the clock whenever n divides
\* the size of the field, and a range is due at both its ends.
EvenlySpaced ==
    \A i \in Field :
        LET p == expression[i]
            On(t) == Eval(p, i, t % Sizes[i]) = "due"
        IN
        /\ (p.form = "every" /\ i \in {1, 2} /\ p.n > 0 /\ Sizes[i] % p.n = 0) =>
               \A t \in 0 .. Sizes[i] - 1 :
                   On(t) <=> On(t + p.n) /\ ~\E u \in 1 .. p.n - 1 : On(t + u)
        /\ (p.form = "span" /\ p.a \in 0 .. p.b /\ p.b < Sizes[i]) => On(p.a) /\ On(p.b)
=============================================================================
