-------------------------------- MODULE Cron --------------------------------
(***************************************************************************)
(* CronExpression, CronExpressionPart and CronExpressionComplexPart: when  *)
(* an expression is due.  A part is a record of the form its text has, a   *)
(* number that does not parse is Bad, and a part is evaluated anew for     *)
(* every time, so that evaluation may also throw or never end.             *)
(***************************************************************************)
EXTENDS Integers, SequencesExt

CONSTANT Sizes   \* 60, 24, 31, 12 and 7: the values of the five fields

ASSUME CronAssumption == Sizes \in [1 .. 5 -> Nat \ {0}]

Field == 1 .. 5
WeekDay == 5

Bad == -1

Star == [form |-> "any"]                                        \* *
Every(n) == [form |-> "every", n |-> n]                        \* */n
Value(v) == [form |-> "value", v |-> v]                        \* v
List(vs) == [form |-> "list", vs |-> vs]                       \* v,w,x
Span(a, b) == [form |-> "span", a |-> a, b |-> b]              \* a-b
Steps(a, b, s) == [form |-> "steps", a |-> a, b |-> b, s |-> s]  \* a-b/s

\* The parts of an expression: mixed entries are neither a range nor a list.
Number == Nat \cup {Bad}
Part ==
    {Star, [form |-> "mixed"]} \cup [form : {"every"}, n : Number]
        \cup [form : {"value"}, v : Number] \cup [form : {"list"}, vs : Seq(Number)]
        \cup [form : {"span"}, a : Number, b : Number]
        \cup [form : {"steps"}, a : Number, b : Number, s : Number]

Due(b) == IF b THEN "due" ELSE "not"

-----------------------------------------------------------------------------
\* Mutant: zero stands for the last value of the field.
CountedFromLast(i, t) == IF t = 0 THEN Sizes[i] - 1 ELSE t

\* In */n the value zero stands for the size of the field.
Counted(i, t) == IF t = 0 THEN Sizes[i] ELSE t

EvalEvery(n, i, t) ==
    IF n \in {Bad, 0} THEN "throws" ELSE Due(Counted(i, t) % n = 0)

\* The entries are parsed one by one until one matches.
EvalList(vs, t) ==
    LET ends == {k \in DOMAIN vs : vs[k] \in {Bad, t}}
    IN  IF ends = {} THEN "not"
        ELSE IF vs[Min(ends)] = t THEN "due" ELSE "throws"

\* Mutant: the last value of a range is left out.
InSpanOpen(a, b, t) == a <= t /\ t < b

InSpan(a, b, t) == a <= t /\ t <= b

\* for (i = a; i <= b; i += s): a step of zero never leaves the first value.
EvalSteps(a, b, s, t) ==
    IF Bad \in {a, b, s} THEN "throws"
    ELSE IF s = 0 /\ a <= b /\ t # a THEN "hangs"
    ELSE Due(InSpan(a, b, t) /\ (t = a \/ (t - a) % s = 0))

\* Part p, as the field i of an expression, at the value t of the field.
Eval(p, i, t) ==
    CASE p.form = "any"   -> "due"
      [] p.form = "every" -> EvalEvery(p.n, i, t)
      [] p.form = "value" -> IF p.v = Bad THEN "throws" ELSE Due(p.v = t)
      [] p.form = "list"  -> EvalList(p.vs, t)
      [] p.form = "span"  -> IF Bad \in {p.a, p.b} THEN "throws"
                             ELSE Due(InSpan(p.a, p.b, t))
      [] p.form = "steps" -> EvalSteps(p.a, p.b, p.s, t)
      [] p.form = "mixed" -> "throws"

\* IsDue: the fields from the minutes on, until one is not due.
IsDue(e, time) ==
    LET undue == {i \in Field : Eval(e[i], i, time[i]) # "due"}
    IN  IF undue = {} THEN "due" ELSE Eval(e[Min(undue)], Min(undue), time[Min(undue)])

\* Mutant: the weekdays are not validated.
GuardedButWeekDay == Field \ {WeekDay}

\* The fields GuardExpressionIsValid evaluates.
Guarded == Field

\* The constructor returns at the given time.
Accepted(e, time) == \A i \in Guarded : Eval(e[i], i, time[i]) \in {"due", "not"}

\* How the constructor ends: a field that is not due does not keep the next
\* one from being evaluated.
Validation(e, time) ==
    LET bad == {i \in Guarded : Eval(e[i], i, time[i]) \notin {"due", "not"}}
    IN  IF Accepted(e, time) THEN "valid" ELSE Eval(e[Min(bad)], Min(bad), time[Min(bad)])

\* For properties: a part that no value of its field makes throw or loop.
WellFormed(p) ==
    \/ p.form = "any"
    \/ p.form = "every" /\ p.n \notin {Bad, 0}
    \/ p.form = "value" /\ p.v # Bad
    \/ p.form = "list" /\ Bad \notin ToSet(p.vs)
    \/ p.form = "span" /\ Bad \notin {p.a, p.b}
    \/ p.form = "steps" /\ Bad \notin {p.a, p.b, p.s} /\ p.s # 0

-----------------------------------------------------------------------------
\* Mutant: a day takes the place of a single weekday.
AppendedInstead(p, d) ==
    CASE p.form \in {"any", "value"} -> Value(d)
      [] p.form = "list"  -> List(Append(p.vs, d))
      [] p.form \in {"span", "steps"} -> [form |-> "mixed"]
      [] p.form = "every" -> Every(Bad)
      [] p.form = "mixed" -> p

\* AppendWeekDay: "," and the day after the text of the part.  A range becomes
\* a mixed entry and the divisor of */n a text that is no number.
Appended(p, d) ==
    CASE p.form = "any"   -> Value(d)
      [] p.form = "value" -> List(<<p.v, d>>)
      [] p.form = "list"  -> List(Append(p.vs, d))
      [] p.form \in {"span", "steps"} -> [form |-> "mixed"]
      [] p.form = "every" -> Every(Bad)
      [] p.form = "mixed" -> p
=============================================================================
