-------------------------- MODULE NextTimes_proofs --------------------------
(***************************************************************************)
(* Proofs about NextTimes, for any calendar, any rules and zones, any      *)
(* horizon of the search, any expressions and any delays.                  *)
(*                                                                         *)
(* The argument for the next time of a schedule: it changes only together  *)
(* with the time of its calculation, so that what the calculation promises *)
(* at that time stays true of it.  The local times of one zone grow with   *)
(* the instants, but for the hour that is repeated in autumn, and there    *)
(* every local time is ambiguous.                                          *)
(*                                                                         *)
(* For an event, BuilderInv keeps the weekdays of the expression apart     *)
(* from those that were written: whatever is not treacherous then consists *)
(* of parts that are evaluated well at any time.  The times of */n need    *)
(* some facts about rests, and the powers of the backoff that they are     *)
(* positive: 2^k is the number of subsets of 1 .. k.                       *)
(***************************************************************************)
EXTENDS NextTimes, FiniteSetTheorems, WellFoundedInduction, TLAPS

\* A set of numbers that is bounded below has a least one.
LEMMA LeastExists ==
    ASSUME NEW low \in Int, NEW S \in SUBSET Int, S # {}, \A x \in S : x >= low
    PROVE  Min(S) \in S /\ \A y \in S : Min(S) <= y
<1> DEFINE R == OpToRel(<, Nat)
           T == {x - low : x \in S}
<1>1. T \subseteq Nat /\ T # {}
    <2>1. \A x \in S : x \in Int /\ x - low \in Nat
        OBVIOUS
    <2>2. \E x : x \in S
        OBVIOUS
    <2>3. QED
        BY <2>1, <2>2
<1>2. PICK m \in T : \A y \in T : ~(<<y, m>> \in R)
    BY <1>1, WFMin, NatLessThanWellFounded
<1>3. \A y \in T : ~(y < m)
    BY <1>1, <1>2 DEF OpToRel
<1>4. PICK x \in S : m = x - low
    BY <1>2
<1>5. \A y \in S : x <= y
    <2>1. SUFFICES ASSUME NEW y \in S
                   PROVE  x <= y
        OBVIOUS
    <2>2. y - low \in T
        OBVIOUS
    <2>3. ~(y - low < m) /\ y \in Int /\ x \in Int
        BY <1>3, <2>2
    <2>4. QED
        BY <1>4, <2>3
<1>6. QED
    BY <1>5 DEF Min

-----------------------------------------------------------------------------
(* Local times. *)

LEMMA Hours == ASSUME CronAssumption PROVE Hour \in Nat \ {0}
BY DEF CronAssumption, Hour

\* What the three kinds of zones make of an instant.
LEMMA LocalTimes ==
    ASSUME CronAssumption, ScheduleTimesAssumption, zone \in Zones, NEW u \in Int
    PROVE  /\ ToLocal(u) \in Int
           /\ zone = "utc" => ToLocal(u) = u
           /\ zone = "spring" => ToLocal(u) = IF u < Change THEN u ELSE u + Hour
           /\ zone = "autumn" => ToLocal(u) = IF u < Change THEN u + Hour ELSE u
           /\ zone \in {"utc", "spring", "autumn"}
<1>1. Hour \in Nat /\ Change \in Nat /\ zone \in {"utc", "spring", "autumn"}
    BY Hours DEF ScheduleTimesAssumption
<1>2. CASE zone = "utc"
    BY <1>1, <1>2 DEF ToLocal, Offset
<1>3. CASE zone = "spring"
    BY <1>1, <1>3 DEF ToLocal, Offset
<1>4. CASE zone = "autumn"
    BY <1>1, <1>4 DEF ToLocal, Offset
<1>5. QED
    BY <1>1, <1>2, <1>3, <1>4

\* ConvertTimeToUtc takes the later of the instants with a local time.
LEMMA Conversion ==
    ASSUME CronAssumption, ScheduleTimesAssumption, zone \in Zones, NEW l \in Nat,
           ToUtc(l) # {}
    PROVE  LET n == Max(ToUtc(l))
           IN  /\ n \in Int /\ ToLocal(n) = l /\ (n = l \/ n = l - Hour)
               /\ n # l => ToLocal(l) # l
<1>1. Hour \in Nat \ {0}
    BY Hours
<1>2. ToUtc(l) \subseteq {l - Hour, l} /\ \A u \in ToUtc(l) : ToLocal(u) = l
    BY DEF ToUtc
<1>3. \E x \in ToUtc(l) : \A y \in ToUtc(l) : x >= y
    BY <1>1, <1>2
<1>4. Max(ToUtc(l)) \in ToUtc(l) /\ \A y \in ToUtc(l) : Max(ToUtc(l)) >= y
    BY <1>3 DEF Max
<1> DEFINE n == Max(ToUtc(l))
<1> HIDE DEF n
<1>5. n \in ToUtc(l) /\ \A y \in ToUtc(l) : n >= y
    BY <1>4 DEF n
<1>6. n \in Int /\ ToLocal(n) = l /\ (n = l \/ n = l - Hour)
    BY <1>1, <1>2, <1>5
<1>7. n # l => ToLocal(l) # l
    <2>1. ASSUME ToLocal(l) = l
          PROVE  n >= l
        BY <1>5, <2>1 DEF ToUtc
    <2>2. QED
        BY <1>1, <1>6, <2>1
<1>8. QED
    BY <1>6, <1>7 DEF n

\* A local time with two instants.
LEMMA TwoInstants ==
    ASSUME CronAssumption, NEW u, NEW m \in Int, ToLocal(u) = m,
           ToLocal(m) = m, ToLocal(m - Hour) = m
    PROVE  Ambiguous(u)
<1>1. Hour \in Nat \ {0}
    BY Hours
<1>2. ToUtc(m) = {m - Hour} \cup {m}
    BY DEF ToUtc
<1>3. m \notin {m - Hour}
    BY <1>1
<1>4. Cardinality({m - Hour} \cup {m}) = 2
    <2>1. IsFiniteSet({m - Hour}) /\ Cardinality({m - Hour}) = 1
        BY FS_Singleton
    <2>2. QED
        BY <1>3, <2>1, FS_AddElement
<1>5. QED
    BY <1>2, <1>4 DEF Ambiguous

\* A local time that comes later than now is converted to a later instant, and
\* the instants in between whose local times do not come in between, too, are
\* those of the hour that is repeated.
LEMMA LocalOrder ==
    ASSUME CronAssumption, ScheduleTimesAssumption, zone \in Zones, now \in Nat,
           NEW l \in Nat, NEW n \in Int, ToLocal(n) = l, n = l \/ n = l - Hour,
           n # l => ToLocal(l) # l, l > ToLocal(now)
    PROVE  /\ n > now
           /\ \A u \in now + 1 .. n - 1 :
                 ToLocal(u) <= ToLocal(now) \/ ToLocal(u) >= l => Ambiguous(u)
<1>1. Hour \in Nat \ {0} /\ Change \in Nat /\ now \in Int
    BY Hours DEF ScheduleTimesAssumption
<1>2. zone \in {"utc", "spring", "autumn"}
    BY DEF ScheduleTimesAssumption
<1>3. n > now
    BY <1>1, <1>2, LocalTimes
<1>4. ASSUME NEW u \in now + 1 .. n - 1,
             ToLocal(u) <= ToLocal(now) \/ ToLocal(u) >= l
      PROVE  Ambiguous(u)
    <2>1. u \in Int /\ now < u /\ u < n
        BY <1>1, <1>4
    <2>2. zone = "autumn"
        BY <1>1, <1>2, <1>4, <2>1, LocalTimes
    <2> DEFINE m == ToLocal(u)
    <2>3. m \in Int /\ m - Hour \in Int
        BY <1>1, <2>1, LocalTimes
    <2>4. m >= Change /\ m - Hour < Change
        BY <1>1, <1>4, <2>1, <2>2, LocalTimes
    <2>5. ToLocal(m) = m /\ ToLocal(m - Hour) = m
        BY <1>1, <2>2, <2>3, <2>4, LocalTimes
    <2> HIDE DEF m
    <2>6. QED
        BY <2>3, <2>5, TwoInstants DEF m
<1>5. QED
    BY <1>3, <1>4

-----------------------------------------------------------------------------
(* Parts of an expression. *)

\* A part that may be evaluated well at one time and not at another.
Moody(p) ==
    \/ p.form = "list" /\ Bad \in ToSet(p.vs)
    \/ p.form = "steps" /\ p.s = 0

LEMMA PartForms ==
    ASSUME NEW p \in Part
    PROVE  /\ p.form \in {"any", "mixed", "every", "value", "list", "span", "steps"}
           /\ p.form = "any" => p = Star
           /\ p.form = "every" => p.n \in Number
           /\ p.form = "value" => p.v \in Number
           /\ p.form = "list" => p.vs \in Seq(Number)
           /\ p.form = "span" => p.a \in Number /\ p.b \in Number
           /\ p.form = "steps" => p.a \in Number /\ p.b \in Number /\ p.s \in Number
BY DEF Part, Star

\* CheckDelineatedArray, of a list of numbers.
LEMMA ListDue ==
    ASSUME NEW vs \in Seq(Number), Bad \notin ToSet(vs), NEW t
    PROVE  EvalList(vs, t) = IF t \in ToSet(vs) THEN "due" ELSE "not"
<1> DEFINE ends == {k \in DOMAIN vs : vs[k] \in {Bad, t}}
<1>1. \A k \in ends : vs[k] = t
    BY DEF ToSet
<1>2. CASE ends = {}
    <2>1. t \notin ToSet(vs)
        BY <1>2 DEF ToSet
    <2>2. QED
        BY <1>2, <2>1 DEF EvalList
<1>3. CASE ends # {}
    <2>1. ends \in SUBSET Int /\ \A k \in ends : k >= 1
        OBVIOUS
    <2>2. Min(ends) \in ends
        <3>1. 1 \in Int /\ ends \in SUBSET Int /\ ends # {} /\ \A k \in ends : k >= 1
            BY <1>3, <2>1
        <3> HIDE DEF ends
        <3>2. QED
            BY <3>1, LeastExists
    <2>3. vs[Min(ends)] = t /\ t \in ToSet(vs)
        BY <1>1, <2>2 DEF ToSet
    <2>4. QED
        BY <1>3, <2>3 DEF EvalList
<1>4. QED
    BY <1>2, <1>3

LEMMA WellFormedEvaluates ==
    ASSUME NEW p \in Part, WellFormed(p), NEW i, NEW t
    PROVE  Eval(p, i, t) \in {"due", "not"}
<1>1. CASE p.form = "list"
    <2>1. Eval(p, i, t) = EvalList(p.vs, t)
        BY <1>1 DEF Eval
    <2>2. p.vs \in Seq(Number) /\ Bad \notin ToSet(p.vs)
        BY <1>1, PartForms DEF WellFormed
    <2>3. QED
        BY <2>1, <2>2, ListDue
<1>2. CASE p.form = "any"
    BY <1>2 DEF Eval
<1>3. CASE p.form = "every"
    BY <1>3 DEF Eval, EvalEvery, Due, WellFormed
<1>4. CASE p.form = "value"
    BY <1>4 DEF Eval, Due, WellFormed
<1>5. CASE p.form = "span"
    BY <1>5 DEF Eval, Due, WellFormed
<1>6. CASE p.form = "steps"
    BY <1>6 DEF Eval, EvalSteps, Due, WellFormed
<1>7. QED
    BY <1>1, <1>2, <1>3, <1>4, <1>5, <1>6 DEF WellFormed

LEMMA EvaluatedForms ==
    ASSUME NEW p \in Part, NEW i, NEW t, Eval(p, i, t) \in {"due", "not"}
    PROVE  WellFormed(p) \/ Moody(p)
<1>1. CASE p.form = "mixed"
    BY <1>1 DEF Eval
<1>2. CASE p.form = "any"
    BY <1>2 DEF WellFormed
<1>3. CASE p.form = "every"
    BY <1>3 DEF Eval, EvalEvery, WellFormed
<1>4. CASE p.form = "value"
    BY <1>4 DEF Eval, WellFormed
<1>5. CASE p.form = "list"
    BY <1>5 DEF WellFormed, Moody
<1>6. CASE p.form = "span"
    BY <1>6 DEF Eval, WellFormed
<1>7. CASE p.form = "steps"
    BY <1>7 DEF Eval, EvalSteps, WellFormed, Moody
<1>8. QED
    BY <1>1, <1>2, <1>3, <1>4, <1>5, <1>6, <1>7, PartForms

\* The ways in which an evaluation may end.
LEMMA Outcomes ==
    ASSUME NEW p \in Part, NEW i, NEW t
    PROVE  /\ Eval(p, i, t) \in {"due", "not", "throws", "hangs"}
           /\ WellFormed(p) => Eval(p, i, t) \in {"due", "not"}
<1>1. Eval(p, i, t) \in {"due", "not", "throws", "hangs"}
    BY PartForms DEF Eval, EvalEvery, EvalList, EvalSteps, Due
<1>2. QED
    BY <1>1, WellFormedEvaluates

LEMMA LeastField ==
    ASSUME NEW S \in SUBSET Field, S # {}
    PROVE  Min(S) \in S /\ Min(S) \in Field
<1>1. 1 \in Int /\ S \in SUBSET Int /\ \A i \in S : i >= 1
    BY DEF Field
<1>2. QED
    BY <1>1, LeastExists

\* IsDue, of a whole expression ...
LEMMA DueOutcomes ==
    ASSUME NEW e \in [Field -> Part], NEW t
    PROVE  /\ IsDue(e, t) \in {"due", "not", "throws", "hangs"}
           /\ (\A i \in Field : WellFormed(e[i])) => IsDue(e, t) \in {"due", "not"}
<1> DEFINE undue == {i \in Field : Eval(e[i], i, t[i]) # "due"}
<1>1. IsDue(e, t) = IF undue = {} THEN "due" ELSE Eval(e[Min(undue)], Min(undue), t[Min(undue)])
    BY DEF IsDue
<1>2. undue # {} => Min(undue) \in Field
    <2>1. undue \in SUBSET Field
        OBVIOUS
    <2> HIDE DEF undue
    <2>2. QED
        BY <2>1, LeastField
<1> HIDE DEF undue
<1>3. CASE undue = {}
    BY <1>1, <1>3
<1>4. CASE undue # {}
    <2> DEFINE m == Min(undue)
    <2>1. m \in Field /\ e[m] \in Part
        BY <1>2, <1>4
    <2>2. IsDue(e, t) = Eval(e[m], m, t[m])
        BY <1>1, <1>4
    <2> HIDE DEF m
    <2>3. QED
        BY <2>1, <2>2, Outcomes
<1>5. QED
    BY <1>3, <1>4

\* ... and the validation in the constructor.
LEMMA ValidationOutcomes ==
    ASSUME NEW e \in [Field -> Part], NEW t
    PROVE  /\ Validation(e, t) \in {"valid", "throws", "hangs"}
           /\ (\A i \in Field : WellFormed(e[i])) => Validation(e, t) = "valid"
<1> DEFINE bad == {i \in Field : Eval(e[i], i, t[i]) \notin {"due", "not"}}
<1>1. /\ Accepted(e, t) <=> bad = {}
      /\ Validation(e, t) = IF Accepted(e, t) THEN "valid"
                            ELSE Eval(e[Min(bad)], Min(bad), t[Min(bad)])
    BY DEF Accepted, Validation, Guarded
<1>2. bad # {} => Min(bad) \in bad
    <2>1. bad \in SUBSET Field
        OBVIOUS
    <2> HIDE DEF bad
    <2>2. QED
        BY <2>1, LeastField
<1>3. CASE bad = {}
    BY <1>1, <1>3
<1>4. CASE bad # {}
    <2> DEFINE m == Min(bad)
    <2>1. m \in Field /\ e[m] \in Part /\ Eval(e[m], m, t[m]) \notin {"due", "not"}
        BY <1>2, <1>4
    <2>2. Validation(e, t) = Eval(e[m], m, t[m])
        BY <1>1, <1>4
    <2> HIDE DEF m
    <2>3. QED
        BY <2>1, <2>2, Outcomes
<1>5. QED
    BY <1>3, <1>4

-----------------------------------------------------------------------------
(* The calculation. *)

\* The expression is due at a local time.
Hits(l) == IsDue(rule.cron, Fields(l)) = "due"

\* What may be left of a well-formed expression's evaluation.
WellFormedRule == \A i \in Field : WellFormed(rule.cron[i])

\* FindNextCronOccurrence finds the first hit behind now, unless there is none
\* or an evaluation before it throws or loops.
LEMMA SearchEnds ==
    ASSUME CronAssumption, ScheduleTimesAssumption, zone \in Zones, now \in Nat,
           rule.cron \in [Field -> Part]
    PROVE  LET l == FindNextCronOccurrence
           IN  \/ /\ l = Null
                  /\ ~\E m \in ToLocal(now) + 1 .. ToLocal(now) + Horizon - 1 : Hits(m)
               \/ l \in {Null, Endless} /\ ~WellFormedRule
               \/ /\ l \in ToLocal(now) + 1 .. ToLocal(now) + Horizon - 1 /\ l \in Nat /\ Hits(l)
                  /\ \A m \in ToLocal(now) + 1 .. l - 1 : ~Hits(m)
<1> DEFINE k == ToLocal(now)
           D(m) == IsDue(rule.cron, Fields(m))
           ends == {m \in k + 1 .. k + Horizon - 1 : D(m) # "not"}
           e == Min(ends)
           l == FindNextCronOccurrence
<1>1. k \in Nat /\ Horizon \in Nat
    <2>1. Hour \in Nat /\ now \in Int
        BY Hours
    <2>2. QED
        BY <2>1, LocalTimes DEF ScheduleTimesAssumption
<1>2. /\ ends = {} => l = Null
      /\ ends # {} /\ D(e) = "due" => l = e
      /\ ends # {} /\ D(e) = "throws" => l = Null
      /\ ends # {} /\ D(e) = "hangs" => l = Endless
    <2>1. l = IF ends = {} THEN Null
              ELSE CASE D(e) = "due" -> e [] D(e) = "throws" -> Null [] D(e) = "hangs" -> Endless
        BY Zenon DEF FindNextCronOccurrence, Candidates
    <2> HIDE DEF l, e, D, ends
    <2>2. QED
        BY <2>1
<1>3. \A m : D(m) \in {"due", "not", "throws", "hangs"}
             /\ (WellFormedRule => D(m) \in {"due", "not"})
    BY DueOutcomes DEF WellFormedRule
<1>4. \A m : Hits(m) <=> D(m) = "due"
    BY DEF Hits
<1> HIDE DEF k, l, e, D
<1>5. CASE ends = {}
    <2>1. \A m \in k + 1 .. k + Horizon - 1 : ~Hits(m)
        BY <1>4, <1>5
    <2>2. QED
        BY <1>2, <1>5, <2>1 DEF k, l
<1>6. CASE ends # {}
    <2>1. k + 1 \in Int /\ ends \in SUBSET Int /\ \A x \in ends : x >= k + 1
        BY <1>1
    <2>2. e \in ends /\ \A y \in ends : e <= y
        <3> HIDE DEF ends
        <3>1. QED
            BY <1>6, <2>1, LeastExists DEF e
    <2>3. e \in k + 1 .. k + Horizon - 1 /\ e \in Nat /\ D(e) # "not"
        BY <1>1, <2>2
    <2>4. ASSUME NEW m \in k + 1 .. e - 1, Hits(m)
          PROVE  FALSE
        <3>1. m \in k + 1 .. k + Horizon - 1 /\ m < e /\ D(m) # "not"
            BY <1>1, <1>4, <2>3, <2>4
        <3>2. m \in ends
            BY <3>1
        <3>3. QED
            BY <1>1, <2>2, <2>3, <3>1, <3>2
    <2>5. CASE D(e) = "due"
        <3>1. l = e /\ Hits(e)
            BY <1>2, <1>4, <1>6, <2>5
        <3>2. QED
            BY <2>3, <2>4, <3>1 DEF k, l
    <2>6. CASE D(e) \in {"throws", "hangs"}
        <3>1. l \in {Null, Endless} /\ ~WellFormedRule
            BY <1>2, <1>3, <1>6, <2>6
        <3>2. QED
            BY <3>1 DEF l
    <2>7. QED
        BY <1>3, <2>3, <2>5, <2>6
<1>7. QED
    BY <1>5, <1>6

\* What CalculateNextExecution promises of a cron expression ...
LEMMA CronTimes ==
    ASSUME CronAssumption, ScheduleTimesAssumption, zone \in Zones, now \in Nat,
           IsCron(rule), rule.cron \in [Field -> Part], NEW ran
    PROVE  LET n == CalculateNextExecution(TRUE, ran)
               k == ToLocal(now)
           IN  /\ n \notin {Null, Endless} =>
                      /\ Occurs(n) /\ n > now
                      /\ \A u \in now + 1 .. n - 1 : Occurs(u) => Ambiguous(u)
               /\ n = Null /\ WellFormedRule =>
                      \/ ~\E m \in k + 1 .. k + Horizon - 1 : Hits(m)
                      \/ \E m \in k + 1 .. k + Horizon - 1 :
                            /\ Hits(m) /\ ToUtc(m) = {}
                            /\ \A j \in k + 1 .. m - 1 : ~Hits(j)
<1> DEFINE n == CalculateNextExecution(TRUE, ran)
           k == ToLocal(now)
           l == FindNextCronOccurrence
           v == Validation(rule.cron, Fields(now))
<1>1. /\ v = "valid" => n = IF l \in {Null, Endless} THEN l ELSE Converted(l)
      /\ v = "throws" => n = Null
      /\ v = "hangs" => n = Endless
    <2>1. n = CASE v = "valid" -> IF l \in {Null, Endless} THEN l ELSE Converted(l)
                [] v = "throws" -> Null [] v = "hangs" -> Endless
        BY DEF CalculateNextExecution, NextOccurrence
    <2> HIDE DEF n, l, v
    <2>2. QED
        BY <2>1
<1>2. v \in {"valid", "throws", "hangs"} /\ (WellFormedRule => v = "valid")
    BY ValidationOutcomes DEF WellFormedRule
<1>3. k \in Int /\ Horizon \in Nat /\ now \in Int /\ Null \notin Int /\ Endless \notin Int
    BY LocalTimes DEF ScheduleTimesAssumption
<1>4. \/ l = Null /\ ~\E m \in k + 1 .. k + Horizon - 1 : Hits(m)
      \/ l \in {Null, Endless} /\ ~WellFormedRule
      \/ /\ l \in k + 1 .. k + Horizon - 1 /\ l \in Nat /\ Hits(l)
         /\ \A m \in k + 1 .. l - 1 : ~Hits(m)
    BY SearchEnds
<1> HIDE DEF n, k, l, v
<1>5. CASE v # "valid"
    BY <1>1, <1>2, <1>5 DEF n
<1>6. CASE v = "valid" /\ l = Null /\ ~\E m \in k + 1 .. k + Horizon - 1 : Hits(m)
    BY <1>1, <1>6 DEF n, k
<1>7. CASE v = "valid" /\ l \in {Null, Endless} /\ ~WellFormedRule
    BY <1>1, <1>7 DEF n
<1>8. ASSUME v = "valid", l \in k + 1 .. k + Horizon - 1, l \in Nat, Hits(l),
             \A m \in k + 1 .. l - 1 : ~Hits(m)
      PROVE  /\ n \notin {Null, Endless} =>
                    /\ Occurs(n) /\ n > now
                    /\ \A u \in now + 1 .. n - 1 : Occurs(u) => Ambiguous(u)
             /\ n = Null => ToUtc(l) = {}
    <2>1. n = Converted(l)
        BY <1>1, <1>3, <1>8
    <2>2. CASE ToUtc(l) = {}
        BY <2>1, <2>2 DEF Converted
    <2>3. CASE ToUtc(l) # {}
        <3>1. n = Max(ToUtc(l))
            BY <2>1, <2>3 DEF Converted
        <3>2. n \in Int /\ ToLocal(n) = l /\ (n = l \/ n = l - Hour) /\ (n # l => ToLocal(l) # l)
            BY <1>8, <2>3, <3>1, Conversion
        <3>3. l > ToLocal(now)
            BY <1>3, <1>8 DEF k
        <3>4. /\ n > now
              /\ \A u \in now + 1 .. n - 1 :
                    ToLocal(u) <= ToLocal(now) \/ ToLocal(u) >= l => Ambiguous(u)
            BY <1>8, <3>2, <3>3, LocalOrder
        <3>5. Occurs(n)
            BY <1>8, <3>2 DEF Occurs, Hits
        <3>6. ASSUME NEW u \in now + 1 .. n - 1, Occurs(u)
              PROVE  Ambiguous(u)
            <4>1. Hits(ToLocal(u))
                BY <3>6 DEF Occurs, Hits
            <4>2. ToLocal(u) \in Int
                BY <1>3, <3>2, <3>6, LocalTimes
            <4>3. ToLocal(u) <= k \/ ToLocal(u) >= l
                BY <1>3, <1>8, <4>1, <4>2
            <4>4. QED
                BY <3>4, <3>6, <4>3 DEF k
        <3>7. n # Null
            BY <1>3, <3>2
        <3>8. QED
            BY <3>4, <3>5, <3>6, <3>7
    <2>4. QED
        BY <2>2, <2>3
<1>9. CASE /\ v = "valid" /\ l \in k + 1 .. k + Horizon - 1 /\ l \in Nat /\ Hits(l)
           /\ \A m \in k + 1 .. l - 1 : ~Hits(m)
    BY <1>8, <1>9 DEF n, k
<1>10. QED
    BY <1>2, <1>4, <1>5, <1>6, <1>7, <1>9

\* ... and of an interval.
LEMMA IntervalTimes ==
    ASSUME ScheduleTimesAssumption, now \in Nat, rule \in Rules, ~IsCron(rule),
           NEW ran \in Nat \cup {Null}
    PROVE  LET n == CalculateNextExecution(TRUE, ran)
           IN  IF rule.interval = Null THEN n = Null
               ELSE n \in Int /\ (ran # Null => n = ran + rule.interval)
<1>1. rule.interval \in Int \cup {Null} /\ Null \notin Int
    BY DEF ScheduleTimesAssumption, IsCron
<1>2. CASE rule.interval = Null
    BY <1>2 DEF CalculateNextExecution
<1>3. CASE rule.interval # Null
    <2> DEFINE b == IntervalBase(ran)
               i == rule.interval
               n == CalculateNextExecution(TRUE, ran)
    <2>1. CalculateNextExecution(TRUE, ran) = IntervalBase(ran) + rule.interval
        BY <1>3 DEF CalculateNextExecution
    <2>2. IntervalBase(ran) \in Nat /\ (ran # Null => IntervalBase(ran) = ran)
        BY DEF IntervalBase
    <2> HIDE DEF b, i, n
    <2>3. n = b + i /\ i \in Int /\ b \in Nat /\ (ran # Null => b = ran)
        BY <1>1, <1>3, <2>1, <2>2 DEF b, i, n
    <2>4. n \in Int /\ (ran # Null => n = ran + i)
        BY <2>3
    <2>5. QED
        BY <1>3, <2>4 DEF n, i
<1>4. QED
    BY <1>2, <1>3

-----------------------------------------------------------------------------
(* The schedule. *)

ScheduleTypes ==
    /\ now \in Nat /\ zone \in Zones /\ rule \in Rules /\ active \in BOOLEAN
    /\ last \in Nat \cup {Null} /\ next # Endless

\* The next time of an interval schedule.
IntervalKept ==
    (active /\ ~IsCron(rule)) =>
        IF rule.interval = Null THEN next = Null
        ELSE next \in Int /\ (last # Null => next = last + rule.interval)

TimesInv == ScheduleTypes /\ IntervalKept /\ NextIsFirstOccurrence /\ ActiveHasNext

\* A calculation renews everything that is promised of the next time.
LEMMA Renewed ==
    ASSUME CronAssumption, ScheduleTimesAssumption, ScheduleTypes,
           NEW on \in BOOLEAN, NEW ran \in Nat \cup {Null}, Recalculate(on, ran),
           UNCHANGED <<now, zone, rule>>, active' = on, last' = ran
    PROVE  TimesInv'
<1> DEFINE n == CalculateNextExecution(on, ran)
<1>1. next' = n /\ computed' = now /\ n # Endless
    BY DEF Recalculate
<1>2. ~on => n = Null
    BY DEF CalculateNextExecution
<1>3. on = TRUE \/ on = FALSE
    OBVIOUS
<1>4. ScheduleTypes'
    BY <1>1 DEF ScheduleTypes
<1>5. IntervalKept'
    <2>1. CASE on = TRUE /\ ~IsCron(rule)
        <3>1. IF rule.interval = Null THEN n = Null
              ELSE n \in Int /\ (ran # Null => n = ran + rule.interval)
            BY <2>1, IntervalTimes DEF ScheduleTypes
        <3>2. QED
            BY <1>1, <3>1 DEF IntervalKept
    <2>2. CASE on = FALSE \/ IsCron(rule)
        BY <2>2 DEF IntervalKept
    <2>3. QED
        BY <1>3, <2>1, <2>2
<1>6. CASE IsCron(rule) /\ on = TRUE
    <2> DEFINE k == ToLocal(now)
    <2>1. /\ n \notin {Null, Endless} =>
                 /\ Occurs(n) /\ n > now
                 /\ \A u \in now + 1 .. n - 1 : Occurs(u) => Ambiguous(u)
          /\ n = Null /\ WellFormedRule =>
                 \/ ~\E m \in k + 1 .. k + Horizon - 1 : Hits(m)
                 \/ \E m \in k + 1 .. k + Horizon - 1 :
                       /\ Hits(m) /\ ToUtc(m) = {}
                       /\ \A j \in k + 1 .. m - 1 : ~Hits(j)
        <3>1. rule.cron \in [Field -> Part]
            BY <1>6 DEF ScheduleTypes, ScheduleTimesAssumption, IsCron
        <3>2. QED
            BY <1>6, <3>1, CronTimes DEF ScheduleTypes
    <2> HIDE DEF n
    <2>2. NextIsFirstOccurrence'
        <3>1. Occurs(next)' <=> Occurs(n)
            BY <1>1 DEF Occurs, ToLocal, Offset
        <3>2. \A u : (Occurs(u)' <=> Occurs(u)) /\ (Ambiguous(u)' <=> Ambiguous(u))
            BY DEF Occurs, Ambiguous, ToUtc, ToLocal, Offset
        <3>3. QED
            BY <1>1, <2>1, <3>1, <3>2 DEF NextIsFirstOccurrence
    <2>3. ActiveHasNext'
        BY <1>1, <1>6, <2>1 DEF ActiveHasNext, WellFormedRule, Hits, ToUtc, ToLocal, Offset
    <2>4. QED
        BY <1>4, <1>5, <2>2, <2>3 DEF TimesInv
<1>7. CASE ~IsCron(rule) \/ on = FALSE
    <2>1. NextIsFirstOccurrence'
        BY <1>1, <1>2, <1>7 DEF NextIsFirstOccurrence
    <2>2. ActiveHasNext'
        <3>1. Null \notin Int
            BY DEF ScheduleTimesAssumption
        <3>2. CASE on = FALSE
            BY <3>2 DEF ActiveHasNext
        <3>3. CASE ~IsCron(rule)
            BY <1>5, <3>1, <3>3 DEF ActiveHasNext, IntervalKept, IsCron
        <3>4. QED
            BY <1>7, <3>2, <3>3
    <2>3. QED
        BY <1>4, <1>5, <2>1, <2>2 DEF TimesInv
<1>8. QED
    BY <1>3, <1>6, <1>7

\* What leaves the row alone, but for its lock, leaves its next time true.
LEMMA Kept ==
    ASSUME TimesInv, now' \in Nat, UNCHANGED <<zone, rule, active, last, next, computed>>
    PROVE  TimesInv'
<1>1. ScheduleTypes' /\ IntervalKept'
    BY DEF TimesInv, ScheduleTypes, IntervalKept
<1>2. NextIsFirstOccurrence'
    BY DEF TimesInv, NextIsFirstOccurrence, Occurs, Ambiguous, ToUtc, ToLocal, Offset
<1>3. ActiveHasNext'
    BY DEF TimesInv, ActiveHasNext, ToUtc, ToLocal, Offset
<1>4. QED
    BY <1>1, <1>2, <1>3 DEF TimesInv

LEMMA TimesInvStep ==
    ASSUME CronAssumption, ScheduleTimesAssumption, TimesInv, [Next]_vars
    PROVE  TimesInv'
<1>1. ScheduleTypes
    BY DEF TimesInv
<1>2. CASE Execute /\ last' = now /\ Recalculate(TRUE, now)
    <2>1. /\ Recalculate(TRUE, now) /\ UNCHANGED <<now, zone, rule>> /\ last' = now
          /\ active' = active /\ active
        BY <1>2 DEF Execute, IsDueNow
    <2>2. active' = TRUE /\ now \in Nat \cup {Null}
        BY <1>1, <2>1 DEF ScheduleTypes
    <2>3. QED
        BY <1>1, <2>1, <2>2, Renewed
<1>3. CASE Sync
    <2>1. /\ Recalculate(active, last) /\ UNCHANGED <<now, zone, rule>> /\ last' = last
          /\ active' = active
        BY <1>3 DEF Sync
    <2>2. active \in BOOLEAN /\ last \in Nat \cup {Null}
        BY <1>1 DEF ScheduleTypes
    <2>3. QED
        BY <1>1, <2>1, <2>2, Renewed
<1>4. ASSUME NEW b \in BOOLEAN, SetJobActive(b)
      PROVE  TimesInv'
    <2>1. /\ Recalculate(b, last) /\ UNCHANGED <<now, zone, rule>> /\ last' = last
          /\ active' = b
        BY <1>4 DEF SetJobActive
    <2>2. last \in Nat \cup {Null}
        BY <1>1 DEF ScheduleTypes
    <2>3. QED
        BY <1>1, <2>1, <2>2, Renewed
<1>5. CASE Tick
    <2>1. now' \in Nat /\ UNCHANGED <<zone, rule, active, last, next, computed>>
        BY <1>1, <1>5 DEF Tick, ScheduleTypes, row
    <2>2. QED
        BY <2>1, Kept
<1>6. CASE \/ Execute /\ UNCHANGED <<last, next, computed>>
           \/ Release \/ UNCHANGED schedule
    <2>1. now' \in Nat /\ UNCHANGED <<zone, rule, active, last, next, computed>>
        BY <1>1, <1>6 DEF Execute, Release, ScheduleTypes, schedule, row
    <2>2. QED
        BY <2>1, Kept
<1>7. Execute => (last' = now /\ Recalculate(TRUE, now)) \/ UNCHANGED <<last, next, computed>>
    BY DEF Execute
<1>8. QED
    BY <1>2, <1>3, <1>4, <1>5, <1>6, <1>7 DEF Next, NextSchedule, vars

LEMMA TimesInvInit ==
    ASSUME CronAssumption, ScheduleTimesAssumption, InitSchedule
    PROVE  TimesInv
<1>1. /\ now = 0 /\ zone \in Zones /\ rule \in Rules /\ active = TRUE /\ last = Null
      /\ next = CalculateNextExecution(TRUE, Null) /\ next # Endless /\ computed = now
    BY DEF InitSchedule
<1>2. ScheduleTypes /\ Null \notin Int
    BY <1>1 DEF ScheduleTypes, ScheduleTimesAssumption
<1>3. CASE IsCron(rule)
    <2> DEFINE k == ToLocal(now)
    <2>1. rule.cron \in [Field -> Part]
        BY <1>1, <1>3 DEF ScheduleTimesAssumption, IsCron
    <2>2. /\ next # Null => /\ Occurs(next) /\ next > now
                            /\ \A u \in now + 1 .. next - 1 : Occurs(u) => Ambiguous(u)
          /\ next = Null /\ WellFormedRule =>
                 \/ ~\E m \in k + 1 .. k + Horizon - 1 : Hits(m)
                 \/ \E m \in k + 1 .. k + Horizon - 1 :
                       /\ Hits(m) /\ ToUtc(m) = {}
                       /\ \A j \in k + 1 .. m - 1 : ~Hits(j)
        BY <1>1, <1>2, <1>3, <2>1, CronTimes DEF ScheduleTypes
    <2>3. NextIsFirstOccurrence
        BY <1>1, <2>2 DEF NextIsFirstOccurrence
    <2>4. ActiveHasNext
        BY <1>1, <1>3, <2>2 DEF ActiveHasNext, WellFormedRule, Hits
    <2>5. QED
        BY <1>2, <1>3, <2>3, <2>4 DEF TimesInv, IntervalKept
<1>4. CASE ~IsCron(rule)
    <2>1. IF rule.interval = Null THEN next = Null ELSE next \in Int
        BY <1>1, <1>2, <1>4, IntervalTimes DEF ScheduleTypes
    <2>2. IntervalKept
        BY <1>1, <2>1 DEF IntervalKept
    <2>3. NextIsFirstOccurrence /\ ActiveHasNext
        BY <1>2, <1>4, <2>1 DEF NextIsFirstOccurrence, ActiveHasNext
    <2>4. QED
        BY <1>2, <2>2, <2>3 DEF TimesInv
<1>5. QED
    BY <1>3, <1>4

\* Whatever instances and users do with the row of a schedule, its next time
\* says what the last calculation found.
THEOREM TimesInvariant == Spec => []TimesInv
<1>1. Init => TimesInv
    BY CronAssumption, ScheduleTimesAssumption, TimesInvInit DEF Init
<1>2. TimesInv /\ [Next]_vars => TimesInv'
    BY CronAssumption, ScheduleTimesAssumption, TimesInvStep
<1>3. QED
    BY <1>1, <1>2, PTL DEF Spec

\* NextExecutionUtc is the first occurrence after its calculation, whatever the
\* expression, the zone and the minute at which its offset changes.
THEOREM NextIsFirst == Spec => []NextIsFirstOccurrence
BY TimesInvariant, PTL DEF TimesInv

\* An active schedule with a well-formed expression loses its next time to an
\* expression without a near occurrence or to the local hour that does not
\* exist, and to nothing else; one with an interval never does.
THEOREM NextIsLostInGapOnly == Spec => []ActiveHasNext
BY TimesInvariant, PTL DEF TimesInv

\* Starting instances never postpone an interval schedule that has run.
THEOREM SyncKeeps == Spec => SyncKeepsInterval
<1>1. ASSUME TimesInv, Sync, ~IsCron(rule), active, last # Null
      PROVE  next' = next
    <2>1. next' = CalculateNextExecution(active, last) /\ active = TRUE
        BY <1>1 DEF Sync, Recalculate, TimesInv, ScheduleTypes
    <2>2. IF rule.interval = Null THEN CalculateNextExecution(TRUE, last) = Null
          ELSE CalculateNextExecution(TRUE, last) = last + rule.interval
        BY <1>1, ScheduleTimesAssumption, IntervalTimes DEF TimesInv, ScheduleTypes
    <2>3. QED
        BY <1>1, <2>1, <2>2 DEF TimesInv, IntervalKept
<1>2. TimesInv /\ [Next]_vars =>
          [(Sync /\ ~IsCron(rule) /\ active /\ last # Null) => next' = next]_schedule
    BY <1>1
<1>3. QED
    BY <1>2, TimesInvariant, PTL DEF Spec, SyncKeepsInterval

-----------------------------------------------------------------------------
(* The expression of an event. *)

LEMMA Numbers == Field = {1, 2, 3, 4, 5} /\ WeekDay = 5 /\ Bad = -1 /\ Number = Nat \cup {-1}
BY DEF Field, WeekDay, Bad, Number

\* What the day constraints make of the weekdays the user wrote.
WeekDays ==
    LET w == written[WeekDay]
        x == expression[WeekDay]
    IN  \/ days = <<>> /\ x = w
        \/ days # <<>> /\ w.form \in {"span", "steps", "every"}
        \/ days # <<>> /\ w.form = "any" /\ x.form = "value" /\ {x.v} = ToSet(days)
        \/ days # <<>> /\ w.form = "any" /\ x.form = "list" /\ ToSet(x.vs) = ToSet(days)
        \/ /\ days # <<>> /\ w.form = "value" /\ x.form = "list"
           /\ ToSet(x.vs) = {w.v} \cup ToSet(days)
        \/ /\ days # <<>> /\ w.form = "list" /\ x.form = "list"
           /\ ToSet(x.vs) = ToSet(w.vs) \cup ToSet(days)

BuilderInv ==
    /\ expression \in [Field -> Part] /\ written \in [Field -> Part] /\ days \in Seq(Nat)
    /\ \A i \in Field : WellFormed(written[i]) \/ Moody(written[i])
    /\ \A i \in Field \ {WeekDay} : expression[i] = written[i]
    /\ WeekDays

LEMMA AppendToSet ==
    ASSUME NEW S, NEW s \in Seq(S), NEW x \in S
    PROVE  /\ Append(s, x) \in Seq(S) /\ Append(s, x) # <<>>
           /\ ToSet(Append(s, x)) = ToSet(s) \cup {x}
<1> DEFINE r == Append(s, x)
<1>1. /\ r \in Seq(S) /\ Len(s) \in Nat /\ Len(r) = Len(s) + 1 /\ DOMAIN s = 1 .. Len(s)
      /\ DOMAIN r = 1 .. Len(s) + 1
      /\ r[Len(s) + 1] = x /\ \A i \in 1 .. Len(s) : r[i] = s[i]
    OBVIOUS
<1> HIDE DEF r
<1>2. \A i \in 1 .. Len(s) + 1 : i \in 1 .. Len(s) \/ i = Len(s) + 1
    BY <1>1
<1>3. 1 .. Len(s) \subseteq 1 .. Len(s) + 1 /\ Len(s) + 1 \in 1 .. Len(s) + 1
    BY <1>1
<1>4. ToSet(r) = ToSet(s) \cup {x}
    BY <1>1, <1>2, <1>3 DEF ToSet
<1>5. r # <<>>
    BY <1>1
<1>6. QED
    BY <1>1, <1>4, <1>5 DEF r

\* AppendWeekDay keeps the weekdays apart from what was written.
LEMMA AppendKeeps ==
    ASSUME BuilderInv, NEW d \in Nat, AppendWeekDay(d)
    PROVE  BuilderInv'
<1> DEFINE w == written[WeekDay]
           x == expression[WeekDay]
           y == expression'[WeekDay]
<1>1. /\ w \in Part /\ x \in Part /\ days \in Seq(Nat) /\ d \in Number /\ written' = written
      /\ expression' = [expression EXCEPT ![WeekDay] = Appended(x, d)]
      /\ days' = Append(days, d) /\ expression \in [Field -> Part]
      /\ WellFormed(w) \/ Moody(w)
    BY Numbers DEF BuilderInv, AppendWeekDay
<1>2. days' \in Seq(Nat) /\ days' # <<>> /\ ToSet(days') = ToSet(days) \cup {d}
    BY <1>1, AppendToSet
<1>3. y = Appended(x, d)
    BY <1>1, Numbers
<1> HIDE DEF w, x, y
<1>4. /\ x.form = "any" => y.form = "value" /\ y.v = d /\ y \in Part
      /\ x.form = "value" => y.form = "list" /\ ToSet(y.vs) = {x.v, d} /\ y \in Part
      /\ x.form = "list" => y.form = "list" /\ ToSet(y.vs) = ToSet(x.vs) \cup {d} /\ y \in Part
      /\ x.form \in {"span", "steps", "every", "mixed"} => y \in Part
    <2>1. CASE x.form = "any"
        BY <1>1, <1>3, <2>1 DEF Appended, Value, Part
    <2>2. CASE x.form = "value"
        <3>1. y = [form |-> "list", vs |-> <<x.v, d>>] /\ x.v \in Number
            BY <1>1, <1>3, <2>2, PartForms DEF Appended, List
        <3>2. <<x.v, d>> \in Seq(Number) /\ ToSet(<<x.v, d>>) = {x.v, d}
            BY <1>1, <3>1 DEF ToSet
        <3>3. QED
            BY <2>2, <3>1, <3>2 DEF Part
    <2>3. CASE x.form = "list"
        <3>1. y = [form |-> "list", vs |-> Append(x.vs, d)] /\ x.vs \in Seq(Number)
            BY <1>1, <1>3, <2>3, PartForms DEF Appended, List
        <3>2. Append(x.vs, d) \in Seq(Number) /\ ToSet(Append(x.vs, d)) = ToSet(x.vs) \cup {d}
            BY <1>1, <3>1, AppendToSet
        <3>3. QED
            BY <2>3, <3>1, <3>2 DEF Part
    <2>4. CASE x.form \in {"span", "steps", "mixed"}
        BY <1>1, <1>3, <2>4 DEF Appended, Part
    <2>5. CASE x.form = "every"
        BY <1>1, <1>3, <2>5, Numbers DEF Appended, Every, Part
    <2>6. QED
        BY <1>1, <2>1, <2>2, <2>3, <2>4, <2>5, PartForms
<1>5. y \in Part
    BY <1>1, <1>4, PartForms
<1>6. expression' \in [Field -> Part] /\ \A i \in Field \ {WeekDay} : expression'[i] = expression[i]
    <2>1. expression'[WeekDay] = y /\ expression' = [expression EXCEPT ![WeekDay] = y]
        BY <1>1, <1>3 DEF y
    <2>2. QED
        BY <1>1, <1>5, <2>1
<1>7. w.form # "mixed"
    BY <1>1 DEF WellFormed, Moody
<1>8. \/ days = <<>> /\ x = w
      \/ days # <<>> /\ w.form \in {"span", "steps", "every"}
      \/ days # <<>> /\ w.form = "any" /\ x.form = "value" /\ {x.v} = ToSet(days)
      \/ days # <<>> /\ w.form = "any" /\ x.form = "list" /\ ToSet(x.vs) = ToSet(days)
      \/ days # <<>> /\ w.form = "value" /\ x.form = "list" /\ ToSet(x.vs) = {w.v} \cup ToSet(days)
      \/ days # <<>> /\ w.form = "list" /\ x.form = "list" /\ ToSet(x.vs) = ToSet(w.vs) \cup ToSet(days)
    BY DEF BuilderInv, WeekDays, w, x
<1>9. WeekDays'
    <2>1. \/ w.form \in {"span", "steps", "every"}
          \/ w.form = "any" /\ y.form = "value" /\ {y.v} = ToSet(days')
          \/ w.form = "any" /\ y.form = "list" /\ ToSet(y.vs) = ToSet(days')
          \/ w.form = "value" /\ y.form = "list" /\ ToSet(y.vs) = {w.v} \cup ToSet(days')
          \/ w.form = "list" /\ y.form = "list" /\ ToSet(y.vs) = ToSet(w.vs) \cup ToSet(days')
        <3>1. ToSet(<<>>) = {}
            BY DEF ToSet
        <3>2. CASE days = <<>> /\ x = w
            BY <1>1, <1>2, <1>4, <1>7, <3>1, <3>2, PartForms
        <3>3. CASE days # <<>>
            BY <1>2, <1>4, <1>8, <3>3
        <3>4. QED
            BY <1>8, <3>2, <3>3
    <2>2. written'[WeekDay] = w
        BY <1>1 DEF w
    <2>3. QED
        BY <1>2, <2>1, <2>2 DEF WeekDays, y
<1>10. QED
    BY <1>1, <1>2, <1>6, <1>9 DEF BuilderInv

LEMMA BuilderInvInit ==
    ASSUME EventBuilderAssumption, InitBuilder
    PROVE  BuilderInv
<1>1. /\ expression \in [Field -> Part] /\ written = expression /\ days = <<>>
      /\ \E t \in Times : Accepted(expression, t)
    BY DEF InitBuilder, Writable, EventBuilderAssumption
<1>2. PICK t \in Times : Accepted(expression, t)
    BY <1>1
<1>3. \A i \in Field : expression[i] \in Part /\ Eval(expression[i], i, t[i]) \in {"due", "not"}
    BY <1>1, <1>2 DEF Accepted, Guarded
<1>4. \A i \in Field : WellFormed(expression[i]) \/ Moody(expression[i])
    BY <1>3, EvaluatedForms
<1>5. WeekDays
    BY <1>1 DEF WeekDays
<1>6. days \in Seq(Nat)
    BY <1>1
<1>7. QED
    BY <1>1, <1>4, <1>5, <1>6 DEF BuilderInv

LEMMA BuilderInvStep ==
    ASSUME CronAssumption, BuilderInv, [Next]_vars
    PROVE  BuilderInv'
<1>1. CASE NextBuilder
    <2>1. PICK d \in 0 .. Sizes[WeekDay] - 1 : AppendWeekDay(d)
        BY <1>1 DEF NextBuilder
    <2>2. d \in Nat
        BY <2>1 DEF CronAssumption, WeekDay
    <2>3. QED
        BY <2>1, <2>2, AppendKeeps
<1>2. CASE UNCHANGED builder
    <2>1. expression' = expression /\ written' = written /\ days' = days
        BY <1>2 DEF builder
    <2>2. WeekDays'
        BY <2>1 DEF BuilderInv, WeekDays
    <2>3. \A i \in Field : WellFormed(written'[i]) \/ Moody(written'[i])
        BY <2>1 DEF BuilderInv
    <2>4. QED
        BY <2>1, <2>2, <2>3 DEF BuilderInv
<1>3. QED
    BY <1>1, <1>2 DEF Next, vars

\* The day constraints change the weekdays of an expression and nothing else,
\* and the weekdays become those that were written and those appended.
THEOREM BuilderInvariant == Spec => []BuilderInv
<1>1. Init => BuilderInv
    BY EventBuilderAssumption, BuilderInvInit DEF Init
<1>2. BuilderInv /\ [Next]_vars => BuilderInv'
    BY CronAssumption, BuilderInvStep
<1>3. QED
    BY <1>1, <1>2, PTL DEF Spec

LEMMA ToSetTyped ==
    ASSUME NEW S, NEW s \in Seq(S)
    PROVE  ToSet(s) \subseteq S
BY DEF ToSet

LEMMA AllWellFormed ==
    ASSUME BuilderInv, ~Treacherous, NEW i \in Field
    PROVE  expression[i] \in Part /\ WellFormed(expression[i])
<1> DEFINE w == written[WeekDay]
           x == expression[WeekDay]
<1>1. expression[i] \in Part /\ WeekDay \in Field /\ w \in Part /\ x \in Part
    BY DEF BuilderInv, Field, WeekDay
<1>2. /\ expression[i].form = "list" => Bad \notin ToSet(expression[i].vs)
      /\ expression[i].form = "steps" => expression[i].s # 0
    BY DEF Treacherous
<1>3. ~Moody(expression[i])
    BY <1>2 DEF Moody
<1>4. CASE i # WeekDay \/ days = <<>>
    <2>1. expression[i] = written[i]
        BY <1>4 DEF BuilderInv, WeekDays
    <2>2. QED
        BY <1>1, <1>3, <2>1 DEF BuilderInv
<1>5. CASE i = WeekDay /\ days # <<>>
    <2>1. ToSet(days) \subseteq Nat /\ Bad \notin Nat
        BY ToSetTyped DEF BuilderInv, Bad
    <2>2. w.form \notin {"span", "steps", "every"}
        BY <1>5 DEF Treacherous
    <2>3. x.form = "list" \/ (x.form = "value" /\ {x.v} = ToSet(days))
        BY <1>5, <2>2 DEF BuilderInv, WeekDays
    <2>4. x.form = "value" => x.v # Bad
        BY <2>1, <2>3
    <2>5. QED
        BY <1>1, <1>2, <1>5, <2>3, <2>4 DEF WellFormed
<1>6. QED
    BY <1>4, <1>5

\* What the constructor has accepted neither throws nor loops at a later tick,
\* outside the forms that the constructor cannot judge.
THEOREM TicksEvaluate == Spec => []AcceptedEvaluates
<1>1. BuilderInv => AcceptedEvaluates
    <2>1. SUFFICES ASSUME BuilderInv, ~Treacherous, NEW t \in Times
                   PROVE  IsDue(expression, t) \in {"due", "not"}
        BY DEF AcceptedEvaluates
    <2> DEFINE undue == {i \in Field : Eval(expression[i], i, t[i]) # "due"}
    <2>2. \A i \in Field : Eval(expression[i], i, t[i]) \in {"due", "not"}
        BY <2>1, AllWellFormed, WellFormedEvaluates
    <2>3. CASE undue = {}
        BY <2>3 DEF IsDue
    <2>4. CASE undue # {}
        <3>1. 1 \in Int /\ undue \in SUBSET Int /\ undue # {} /\ \A i \in undue : i >= 1
            BY <2>4 DEF Field
        <3>2. undue \subseteq Field
            OBVIOUS
        <3>3. IsDue(expression, t) = Eval(expression[Min(undue)], Min(undue), t[Min(undue)])
            BY <2>4 DEF IsDue
        <3> HIDE DEF undue
        <3>4. Min(undue) \in Field
            BY <3>1, <3>2, LeastExists
        <3>5. QED
            BY <2>2, <3>3, <3>4
    <2>5. QED
        BY <2>3, <2>4
<1>2. QED
    BY <1>1, BuilderInvariant, PTL

\* The four forms, as Eval sees them.
LEMMA Evaluations ==
    ASSUME NEW p \in Part, WellFormed(p), NEW i, NEW t
    PROVE  /\ p.form = "any" => Eval(p, i, t) = "due"
           /\ p.form = "value" => (Eval(p, i, t) = "due" <=> p.v = t)
           /\ p.form = "list" => (Eval(p, i, t) = "due" <=> t \in ToSet(p.vs))
<1>1. p.form = "list" => (Eval(p, i, t) = "due" <=> t \in ToSet(p.vs))
    <2>1. SUFFICES ASSUME p.form = "list"
                   PROVE  Eval(p, i, t) = "due" <=> t \in ToSet(p.vs)
        OBVIOUS
    <2>2. Eval(p, i, t) = EvalList(p.vs, t)
        BY <2>1 DEF Eval
    <2>3. p.vs \in Seq(Number) /\ Bad \notin ToSet(p.vs)
        BY <2>1, PartForms DEF WellFormed
    <2>4. QED
        BY <2>2, <2>3, ListDue
<1>2. p.form = "any" => Eval(p, i, t) = "due"
    BY DEF Eval
<1>3. p.form = "value" => (Eval(p, i, t) = "due" <=> p.v = t)
    BY DEF Eval, Due, WellFormed
<1>4. QED
    BY <1>1, <1>2, <1>3

\* An event with day constraints is due on the days that were appended, and on
\* the weekdays of its expression if that names any.
THEOREM DaysUnited == Spec => []DaysAreUnion
<1> DEFINE w == written[WeekDay]
           x == expression[WeekDay]
<1>1. BuilderInv => DaysAreUnion
    <2>1. SUFFICES ASSUME BuilderInv, ~Treacherous, NEW d \in 0 .. Sizes[WeekDay] - 1
                   PROVE  Eval(x, WeekDay, d) = "due" <=>
                              \/ d \in ToSet(days)
                              \/ /\ days = <<>> \/ w # Star
                                 /\ Eval(w, WeekDay, d) = "due"
        BY DEF DaysAreUnion
    <2>2. x \in Part /\ WellFormed(x) /\ w \in Part /\ (WellFormed(w) \/ Moody(w)) /\ WeekDays
        BY <2>1, AllWellFormed DEF BuilderInv, Field, WeekDay
    <2>3. CASE days = <<>>
        <3>1. x = w
            BY <2>2, <2>3 DEF WeekDays
        <3>2. d \notin ToSet(days)
            BY <2>3 DEF ToSet
        <3>3. QED
            BY <2>3, <3>1, <3>2
    <2>4. CASE days # <<>>
        <3>1. w.form \notin {"span", "steps", "every"}
            BY <2>1, <2>4 DEF Treacherous
        <3>2. \/ w.form = "any" /\ x.form = "value" /\ {x.v} = ToSet(days)
              \/ w.form = "any" /\ x.form = "list" /\ ToSet(x.vs) = ToSet(days)
              \/ w.form = "value" /\ x.form = "list" /\ ToSet(x.vs) = {w.v} \cup ToSet(days)
              \/ w.form = "list" /\ x.form = "list" /\ ToSet(x.vs) = ToSet(w.vs) \cup ToSet(days)
            BY <2>2, <2>4, <3>1 DEF WeekDays
        <3> HIDE DEF w, x
        <3>3. CASE w.form = "any"
            <4>1. w = Star
                BY <2>2, <3>3, PartForms
            <4>2. Eval(x, WeekDay, d) = "due" <=> d \in ToSet(days)
                BY <2>2, <3>2, <3>3, Evaluations
            <4>3. QED
                BY <2>4, <4>1, <4>2
        <3>4. CASE w.form = "value" \/ w.form = "list"
            <4>1. w # Star
                BY <3>4 DEF Star
            <4>2. x.form = "list" /\ Bad \notin ToSet(x.vs)
                BY <2>2, <3>2, <3>4 DEF WellFormed
            <4>3. WellFormed(w)
                BY <2>2, <3>2, <3>4, <4>2 DEF WellFormed, Moody
            <4>4. w.form = "value" => (Eval(w, WeekDay, d) = "due" <=> w.v = d)
                BY <2>2, <4>3, Evaluations
            <4>5. w.form = "list" => (Eval(w, WeekDay, d) = "due" <=> d \in ToSet(w.vs))
                BY <2>2, <4>3, Evaluations
            <4>6. Eval(x, WeekDay, d) = "due" <=> d \in ToSet(x.vs)
                BY <2>2, <4>2, Evaluations
            <4>7. QED
                BY <3>2, <3>4, <4>1, <4>4, <4>5, <4>6
        <3>5. QED
            BY <3>2, <3>3, <3>4
    <2>5. QED
        BY <2>3, <2>4
<1>2. QED
    BY <1>1, BuilderInvariant, PTL

-----------------------------------------------------------------------------
(* The times of an expression around the clock. *)

\* Every number is a multiple of n and a rest.
LEMMA DivMod ==
    ASSUME NEW n \in Nat \ {0}, NEW a \in Int
    PROVE  (a % n) \in 0 .. n - 1 /\ \E q \in Int : a = q * n + (a % n)
<1>1. (a % n) \in 0 .. n - 1
    OBVIOUS
<1>2. (a \div n) \in Int /\ a = (a \div n) * n + (a % n)
    OBVIOUS
<1>3. QED
    BY <1>1, <1>2

\* A number has one rest.
LEMMA ModUnique ==
    ASSUME NEW n \in Nat \ {0}, NEW q \in Int, NEW r \in 0 .. n - 1
    PROVE  (q * n + r) % n = r
<1> DEFINE a == q * n + r
           m == a % n
<1>1. a \in Int
    OBVIOUS
<1>2. PICK p \in Int : a = p * n + m
    <2> HIDE DEF a
    <2>1. QED
        BY <1>1, DivMod
<1>3. m \in 0 .. n - 1
    BY <1>1
<1> HIDE DEF m
<1>4. \A k \in Int : k >= 1 => k * n >= n
    OBVIOUS
<1>5. \A k \in Int : k <= -1 => k * n <= 0 - n
    OBVIOUS
<1>6. (p - q) * n = r - m
    BY <1>2, <1>3
<1>7. p - q \in Int /\ ~(p - q >= 1) /\ ~(p - q <= -1)
    BY <1>3, <1>4, <1>5, <1>6
<1>8. p = q
    BY <1>7
<1>9. QED
    BY <1>2, <1>3, <1>8 DEF m

\* A period of n that divides the size of a field goes on around the clock.
LEMMA AroundTheClock ==
    ASSUME NEW n \in Nat \ {0}, NEW S \in Nat \ {0}, S % n = 0, NEW t \in Int
    PROVE  (t % S) % n = t % n
<1> DEFINE u == t % S
           m == u % n
<1>1. u \in 0 .. S - 1 /\ \E q \in Int : t = q * S + u
    BY DivMod, Zenon
<1>2. PICK c \in Int : S = c * n
    BY DivMod
<1> HIDE DEF u
<1>3. PICK q \in Int : t = q * S + u
    BY <1>1
<1>4. m \in 0 .. n - 1 /\ \E d \in Int : u = d * n + m
    <2>1. u \in Int
        BY <1>1
    <2>2. QED
        BY <2>1, DivMod
<1>5. PICK d \in Int : u = d * n + m
    BY <1>4
<1> HIDE DEF m
<1>6. q * c + d \in Int /\ t = (q * c + d) * n + m
    <2>1. t = q * (c * n) + (d * n + m)
        BY <1>2, <1>3, <1>5
    <2>2. q * (c * n) = (q * c) * n /\ (q * c + d) * n = (q * c) * n + d * n
        OBVIOUS
    <2>3. q * c \in Int /\ (q * c) * n \in Int /\ d * n \in Int /\ m \in Int
        BY <1>4
    <2>4. QED
        BY <2>1, <2>2, <2>3
<1>7. t % n = m
    <2> DEFINE k == q * c + d
    <2>1. k \in Int /\ t = k * n + m
        BY <1>6
    <2> HIDE DEF k
    <2>2. QED
        BY <2>1, <1>4, ModUnique
<1>8. QED
    BY <1>7 DEF m, u

\* From one multiple of n to the next.
LEMMA NextMultiple ==
    ASSUME NEW n \in Nat \ {0}, NEW t \in Int
    PROVE  /\ (t + n) % n = t % n
           /\ t % n = 0 => \A u \in 1 .. n - 1 : (t + u) % n # 0
<1> DEFINE m == t % n
<1>1. PICK q \in Int : t = q * n + m
    BY DivMod
<1>2. m \in 0 .. n - 1
    BY DivMod
<1> HIDE DEF m
<1>3. (t + n) % n = m
    <2>1. q + 1 \in Int /\ t + n = (q + 1) * n + m
        BY <1>1, <1>2
    <2>2. QED
        BY <1>2, <2>1, ModUnique
<1>4. ASSUME m = 0, NEW u \in 1 .. n - 1
      PROVE  (t + u) % n # 0
    <2>1. t + u = q * n + u /\ u \in 0 .. n - 1 /\ u # 0
        BY <1>1, <1>4
    <2>2. QED
        BY <2>1, ModUnique
<1>5. QED
    BY <1>3, <1>4 DEF m

\* The values at which */n is due, for an n that divides the size of the field.
LEMMA EveryDue ==
    ASSUME CronAssumption, NEW i \in Field, NEW p, p.form = "every", p.n \in Nat \ {0},
           Sizes[i] % p.n = 0, NEW t \in Int
    PROVE  Eval(p, i, t % Sizes[i]) = "due" <=> t % p.n = 0
<1> DEFINE S == Sizes[i]
           n == p.n
           u == t % S
<1>1. S \in Nat \ {0} /\ n \in Nat \ {0} /\ n \notin {Bad, 0} /\ S % n = 0
    BY Numbers DEF CronAssumption, Field
<1>2. u % n = t % n
    BY <1>1, AroundTheClock
<1>3. 0 % n = 0
    BY <1>1
<1>4. Eval(p, i, u) = EvalEvery(n, i, u)
    BY DEF Eval
<1> HIDE DEF S, n, u
<1>5. EvalEvery(n, i, u) = "due" <=> Counted(i, u) % n = 0
    BY <1>1 DEF EvalEvery, Due
<1>6. Counted(i, u) % n = 0 <=> u % n = 0
    BY <1>1, <1>3 DEF Counted, S
<1>7. QED
    BY <1>2, <1>4, <1>5, <1>6 DEF n, u, S

\* The times of */n are n apart around the clock, and a range is due at both
\* its ends.
THEOREM EvenTimes == Spec => []EvenlySpaced
<1>1. BuilderInv => EvenlySpaced
    <2> SUFFICES ASSUME BuilderInv, NEW i \in Field
                 PROVE  LET p == expression[i]
                            On(t) == Eval(p, i, t % Sizes[i]) = "due"
                        IN
                        /\ p.form = "every" /\ i \in {1, 2} /\ p.n > 0 /\ Sizes[i] % p.n = 0 =>
                               \A t \in 0 .. Sizes[i] - 1 :
                                   On(t) <=> On(t + p.n) /\ ~\E u \in 1 .. p.n - 1 : On(t + u)
                        /\ p.form = "span" /\ p.a \in 0 .. p.b /\ p.b < Sizes[i] =>
                               On(p.a) /\ On(p.b)
        BY DEF EvenlySpaced
    <2> DEFINE p == expression[i]
               n == p.n
               On(t) == Eval(p, i, t % Sizes[i]) = "due"
    <2>1. p \in Part /\ Sizes[i] \in Nat \ {0}
        BY CronAssumption DEF BuilderInv, CronAssumption, Field
    <2>2. ASSUME p.form = "every", n > 0, Sizes[i] % n = 0, NEW t \in 0 .. Sizes[i] - 1
          PROVE  On(t) <=> On(t + n) /\ ~\E u \in 1 .. n - 1 : On(t + u)
        <3>1. n \in Nat \ {0} /\ t \in Int
            BY <2>1, <2>2, PartForms, Numbers
        <3>2. \A v \in Int : On(v) <=> v % n = 0
            BY <2>2, <3>1, EveryDue, CronAssumption
        <3> HIDE DEF p, n, On
        <3>3. t + n \in Int /\ \A u \in 1 .. n - 1 : t + u \in Int
            BY <3>1
        <3>4. (t + n) % n = t % n /\ (t % n = 0 => \A u \in 1 .. n - 1 : (t + u) % n # 0)
            BY <3>1, NextMultiple
        <3>5. (On(t) <=> t % n = 0) /\ (On(t + n) <=> (t + n) % n = 0)
            BY <3>1, <3>2, <3>3
        <3>6. \A u \in 1 .. n - 1 : On(t + u) <=> (t + u) % n = 0
            BY <3>2, <3>3
        <3>7. QED
            BY <3>4, <3>5, <3>6
    <2>3. ASSUME p.form = "span", p.a \in 0 .. p.b, p.b < Sizes[i]
          PROVE  On(p.a) /\ On(p.b)
        <3>1. p.a \in Number /\ p.b \in Number
            BY <2>1, <2>3, PartForms
        <3>2. p.a \in Nat /\ p.b \in Nat /\ p.a <= p.b /\ Bad \notin {p.a, p.b}
            BY <2>3, <3>1, Numbers
        <3>3. p.a % Sizes[i] = p.a /\ p.b % Sizes[i] = p.b
            BY <2>1, <2>3, <3>2
        <3>4. \A t : Eval(p, i, t) = Due(InSpan(p.a, p.b, t))
            BY <2>3, <3>2 DEF Eval
        <3>5. QED
            BY <3>2, <3>3, <3>4 DEF Due, InSpan
    <2>4. QED
        BY <2>2, <2>3
<1>2. QED
    BY <1>1, BuilderInvariant, PTL

-----------------------------------------------------------------------------
(* The retries of a job. *)

LEMMA PowerOfTwo ==
    ASSUME NEW k \in Nat
    PROVE  2 ^ k \in Nat \ {0}
<1>1. IsFiniteSet(1 .. k) /\ Cardinality(1 .. k) = k
    BY FS_Interval
<1>2. IsFiniteSet(SUBSET (1 .. k)) /\ Cardinality(SUBSET (1 .. k)) = 2 ^ k
    BY <1>1, FS_SUBSET
<1>3. Cardinality(SUBSET (1 .. k)) \in Nat /\ Cardinality(SUBSET (1 .. k)) # 0
    BY <1>2, FS_CardinalityType, FS_EmptySet
<1>4. QED
    BY <1>2, <1>3

RetriesInv ==
    /\ retryDelay \in BaseDelays /\ attempts \in Nat
    /\ BackoffBounded

\* A tenth of a number, rounded towards zero.
LEMMA Tenths ==
    ASSUME NEW x \in Int
    PROVE  /\ Tenth(x) \in Int
           /\ x >= 0 => Tenth(x) >= 0 /\ 10 * Tenth(x) <= x /\ x < 10 * Tenth(x) + 10
           /\ x < 0 => Tenth(x) <= 0 /\ x <= 10 * Tenth(x) /\ 10 * Tenth(x) - 10 < x
<1>1. \A y \in Nat : /\ y \div 10 \in Nat
                     /\ 10 * (y \div 10) <= y /\ y < 10 * (y \div 10) + 10
    OBVIOUS
<1>2. CASE x >= 0
    BY <1>1, <1>2 DEF Tenth
<1>3. CASE x < 0
    <2> DEFINE q == (-x) \div 10
    <2>1. q \in Nat /\ 10 * q <= -x /\ -x < 10 * q + 10
        BY <1>1, <1>3
    <2>2. Tenth(x) = -q
        BY <1>3 DEF Tenth
    <2> HIDE DEF q
    <2>3. QED
        BY <1>3, <2>1, <2>2
<1>4. QED
    BY <1>2, <1>3

\* What the casts to long leave of a number.
LEMMA Casts ==
    ASSUME RetriesAssumption, NEW x \in Int, NEW d \in Cast(x)
    PROVE  /\ d \in Int /\ d >= -MaxLong - 1 /\ d <= MaxLong
           /\ d = x \/ (x > MaxLong /\ d = MaxLong) \/ d = -MaxLong - 1
           /\ d = x \/ x > MaxLong \/ x < -MaxLong - 1
<1>1. MaxLong \in Nat
    BY DEF RetriesAssumption
<1>2. CASE x \in -MaxLong - 1 .. MaxLong
    BY <1>1, <1>2 DEF Cast
<1>3. CASE x > MaxLong
    BY <1>1, <1>3 DEF Cast
<1>4. CASE x < -MaxLong - 1
    BY <1>1, <1>4 DEF Cast
<1>5. QED
    BY <1>1, <1>2, <1>3, <1>4

LEMMA RetriesInvStep ==
    ASSUME RetriesAssumption, RetriesInv, JobFails
    PROVE  RetriesInv'
<1> DEFINE n == attempts'
           e == Exponential(n, retryDelay)
           g == IF e < MaxDelay THEN e ELSE MaxDelay
<1>1. /\ retryDelay' = retryDelay /\ retryDelay \in BaseDelays /\ n \in Nat \ {0}
      /\ delay' \in CalculateNextRetry(n, retryDelay)
    BY DEF JobFails, RetriesInv
<1>2. e \in Int
    <2>0. retryDelay \in -MaxLong - 1 .. MaxLong /\ MaxLong \in Nat
        BY <1>1 DEF RetriesAssumption
    <2> HIDE DEF n, e
    <2>1. retryDelay \in Int /\ n - 1 \in Nat
        BY <1>1, <2>0
    <2> USE DEF e
    <2>2. 2 ^ (n - 1) \in Nat \ {0}
        BY <2>1, PowerOfTwo
    <2> DEFINE k == 2 ^ (n - 1)
    <2>3. e = retryDelay * k /\ k \in Int
        BY <2>2 DEF Exponential
    <2> HIDE DEF k, e
    <2>4. QED
        BY <2>1, <2>3
<1>3. /\ MaxDelay \in Nat /\ MaxLong \in Nat /\ UtcNow \in Nat /\ Throws \notin Int
      /\ 11 * MaxDelay <= 10 * MaxLong /\ 10 * UtcNow < 9 * MaxLong
    BY DEF RetriesAssumption
<1> HIDE DEF n, e
<1>4a. PICK d \in Cast(e), j \in 9 .. 11 :
           \E y \in Cast(Tenth(Capped(d) * j)) : delay' = IF y < -UtcNow THEN Throws ELSE y
    BY <1>1 DEF CalculateNextRetry, CalculateDelay, e
<1>4. PICK y \in Cast(Tenth(Capped(d) * j)) : delay' = IF y < -UtcNow THEN Throws ELSE y
    BY <1>4a
<1> DEFINE c == Capped(d)
           z == c * j
           t == Tenth(z)
<1>5. /\ d \in Int /\ d >= -MaxLong - 1 /\ d <= MaxLong
      /\ d = e \/ (e > MaxLong /\ d = MaxLong) \/ d = -MaxLong - 1
      /\ d = e \/ e > MaxLong \/ e < -MaxLong - 1
    BY <1>2, Casts
<1>6. c \in Int /\ (d > MaxDelay => c = MaxDelay) /\ (d <= MaxDelay => c = d)
    BY <1>3, <1>5 DEF Capped
<1> HIDE DEF c
<1>7. z \in Int /\ (c >= 0 => 9 * c <= z /\ z <= 11 * c) /\ (c < 0 => 11 * c <= z /\ z <= 9 * c)
    BY <1>6
<1> HIDE DEF z
<1>8. /\ t \in Int
      /\ z >= 0 => t >= 0 /\ 10 * t <= z /\ z < 10 * t + 10
      /\ z < 0 => t <= 0 /\ z <= 10 * t /\ 10 * t - 10 < z
    BY <1>7, Tenths
<1> HIDE DEF t
<1>9. /\ y \in Int /\ y >= -MaxLong - 1 /\ y <= MaxLong
      /\ y = t \/ (t > MaxLong /\ y = MaxLong) \/ y = -MaxLong - 1
      /\ y = t \/ t > MaxLong \/ t < -MaxLong - 1
    BY <1>8, Casts DEF t, z, c
<1>10. g \in Int /\ (e > MaxDelay => g = MaxDelay) /\ (e <= MaxDelay => g = e)
    BY <1>2, <1>3
<1> HIDE DEF g
<1>11. CASE c >= 0
    <2>1. t >= 0 /\ t <= MaxLong /\ y = t /\ c = g
        BY <1>2, <1>3, <1>5, <1>6, <1>7, <1>8, <1>9, <1>10, <1>11
    <2>2. delay' = t /\ g >= 0 /\ 10 * t <= 11 * g /\ 10 * t > 9 * g - 10
        BY <1>3, <1>4, <1>6, <1>7, <1>8, <1>10, <1>11, <2>1
    <2>3. delay' # Throws
        BY <1>3, <1>8, <2>2
    <2>4. BackoffBounded'
        BY <1>1, <1>10, <2>2, <2>3 DEF BackoffBounded, e, g, n
    <2>5. QED
        BY <1>1, <2>4 DEF RetriesInv, n
<1>12. CASE c < 0 /\ d # e
    <2>1. d = -MaxLong - 1 /\ c = d /\ (e > MaxLong \/ e < -MaxLong - 1)
        BY <1>3, <1>5, <1>6, <1>12
    <2>2. t < -UtcNow
        BY <1>3, <1>7, <1>8, <1>12, <2>1
    <2>3. y < -UtcNow
        BY <1>3, <1>8, <1>9, <2>2
    <2>4. delay' = Throws
        BY <1>4, <2>3
    <2>5. e > MaxLong \/ 11 * e < -10 * UtcNow
        BY <1>2, <1>3, <2>1
    <2>6. BackoffBounded'
        BY <1>1, <2>4, <2>5 DEF BackoffBounded, e, n
    <2>7. QED
        BY <1>1, <2>6 DEF RetriesInv, n
<1>13. CASE c < 0 /\ d = e
    <2>1. c = e /\ g = e /\ e < 0
        BY <1>2, <1>3, <1>6, <1>10, <1>13
    <2>2. z < 0 /\ t <= 0 /\ 11 * e <= 10 * t /\ 10 * t < 9 * e + 10
        BY <1>2, <1>7, <1>8, <1>13, <2>1
    <2>3. CASE y < -UtcNow
        <3>1. t < -UtcNow
            BY <1>3, <1>8, <1>9, <2>2, <2>3
        <3>2. 11 * e < -10 * UtcNow
            BY <1>2, <1>3, <1>8, <2>2, <3>1
        <3>3. delay' = Throws
            BY <1>4, <2>3
        <3>4. BackoffBounded'
            BY <1>1, <3>2, <3>3 DEF BackoffBounded, e, n
        <3>5. QED
            BY <1>1, <3>4 DEF RetriesInv, n
    <2>4. CASE ~(y < -UtcNow)
        <3>1. y = t
            BY <1>3, <1>8, <1>9, <2>2, <2>4
        <3>2. delay' = t /\ delay' # Throws
            BY <1>3, <1>4, <1>8, <2>4, <3>1
        <3>3. BackoffBounded'
            BY <1>1, <1>10, <2>1, <2>2, <3>2 DEF BackoffBounded, e, g, n
        <3>4. QED
            BY <1>1, <3>3 DEF RetriesInv, n
    <2>5. QED
        BY <2>3, <2>4
<1>14. QED
    BY <1>6, <1>11, <1>12, <1>13

\* For any base delay the delay of a retry stays within 10% of the capped
\* power, and there is no next retry only where no date can tell it.
THEOREM RetriesBackOff == Spec => []BackoffBounded
<1>1. Init => RetriesInv
    BY DEF Init, InitRetries, RetriesInv, BackoffBounded
<1>2. RetriesInv /\ [Next]_vars => RetriesInv'
    <2>1. ASSUME RetriesInv, UNCHANGED retries
          PROVE  RetriesInv'
        <3>1. retryDelay' = retryDelay /\ attempts' = attempts /\ delay' = delay
            BY <2>1 DEF retries
        <3>2. BackoffBounded'
            BY <2>1, <3>1 DEF RetriesInv, BackoffBounded
        <3>3. QED
            BY <2>1, <3>1, <3>2 DEF RetriesInv
    <2>2. QED
        BY <2>1, RetriesAssumption, RetriesInvStep DEF Next, vars
<1>3. QED
    BY <1>1, <1>2, PTL DEF Spec, RetriesInv
=============================================================================
