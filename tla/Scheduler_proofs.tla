-------------------------- MODULE Scheduler_proofs --------------------------
(***************************************************************************)
(* Proofs about Scheduler, for any set of events and any finite number of  *)
(* callbacks of the timer, each of them behind by any number of ticks.     *)
(*                                                                         *)
(* The argument: a second that previousTick is past was put into the ticks *)
(* of a callback, which gives one up only after it has collected its due   *)
(* events; and an execution that has not outlived its lock holds it, alone, *)
(* from TryGetLock to Release.                                             *)
(***************************************************************************)
EXTENDS Scheduler, FiniteSetTheorems, TLAPS

CallbackType == [phase : Phase, now : 0 .. MaxTime, ticks : Seq(0 .. MaxTime), first : BOOLEAN]

\* The types of TypeOK, and those of the parts it leaves out.
TypesInv ==
    /\ clock \in 0 .. MaxTime /\ previous \in 0 .. MaxTime
    /\ firstTick \in BOOLEAN /\ firsts \in Nat
    /\ tasks \subseteq Event /\ bare \subseteq tasks /\ unset \subseteq Chained
    /\ locked \subseteq Exclusive /\ overdue \subseteq locked /\ overran \subseteq Exclusive
    /\ callback \in [Callback -> CallbackType]
    /\ at \in [Callback -> [Event -> Step]]
    /\ host \in {"up", "stopping", "stopped", "dead"}

\* Callbacks inside RunAtAsync.
Inside == {c \in Callback :
              callback[c].phase \in {"entered", "collecting", "running", "faulted"}}

ActiveCounts == active = Cardinality(Inside)

\* How far the callbacks are: with their ticks, and with the events of the
\* first of them.
ProgressInv ==
    /\ \A c \in Callback : In(c, "idle") \/ In(c, "fired") <=> callback[c].ticks = <<>>
    /\ \A c \in Callback : In(c, "running") => Head(callback[c].ticks) \in ran
    /\ \A c \in Callback, e \in Event :
          at[c][e] # "none" => (In(c, "running") \/ In(c, "faulted")) /\ e \notin bare

Ticks(c) == {callback[c].ticks[i] : i \in DOMAIN callback[c].ticks}

Holds(c, e) == at[c][e] \in {"locked", "ended"}

\* e is invoked by c under its lock.
Locks(c, e) == Invoke(c, e) /\ Prevents(e)

\* An execution younger than 24 hours holds its lock, alone.
LocksInv ==
    /\ overdue \subseteq overran
    /\ \A e \in Exclusive \ overran : \A c \in Callback :
          Holds(c, e) => e \in locked /\ \A d \in Callback : Holds(d, e) => c = d

SchedulerInv ==
    /\ TypesInv /\ ActiveCounts /\ ProgressInv /\ LocksInv
    /\ TicksAccounted /\ OneFirstTick

-----------------------------------------------------------------------------
(* Ticks. *)

\* GetTicksBetweenPreviousAndNext, and the tick after them, leave out no
\* second between the previous tick and this one.
LEMMA TicksBetween ==
    ASSUME NEW max \in Nat, NEW p \in 0 .. max, NEW n \in 0 .. max
    PROVE  LET ts == Append(Missed(p, n), n)
           IN  /\ ts \in Seq(0 .. max) /\ ts # <<>>
               /\ \A t \in p + 1 .. n : t \in {ts[i] : i \in DOMAIN ts}
<1> DEFINE k == IF n > p + 1 THEN n - p - 1 ELSE 0
           m == [i \in 1 .. k |-> p + i]
           ts == Append(m, n)
<1>1. k \in Nat /\ \A i \in 1 .. k : p + i \in 0 .. max
    OBVIOUS
<1>2. \A t \in p + 1 .. n : t = n \/ t - p \in 1 .. k
    OBVIOUS
<1> HIDE DEF k
<1>3. m \in Seq(0 .. max) /\ Len(m) = k /\ \A i \in 1 .. k : m[i] = p + i
    BY <1>1
<1> HIDE DEF m
<1>4. /\ ts \in Seq(0 .. max) /\ ts # <<>> /\ DOMAIN ts = 1 .. k + 1 /\ ts[k + 1] = n
      /\ \A i \in 1 .. k : ts[i] = p + i
    <2>1. ts \in Seq(0 .. max) /\ Len(ts) = k + 1
        BY <1>1, <1>3
    <2>2. ts[k + 1] = n
        BY <1>1, <1>3
    <2>3. \A i \in 1 .. k : ts[i] = m[i]
        BY <1>1, <1>3
    <2> HIDE DEF ts
    <2>4. ts # <<>> /\ DOMAIN ts = 1 .. k + 1
        BY <1>1, <2>1
    <2>5. QED
        BY <1>3, <2>1, <2>2, <2>3, <2>4
<1> HIDE DEF ts
<1>5. ASSUME NEW t \in p + 1 .. n
      PROVE  t \in {ts[i] : i \in DOMAIN ts}
    <2>1. CASE t = n
        BY <1>1, <1>4, <2>1
    <2>2. CASE t - p \in 1 .. k
        <3>1. t - p \in DOMAIN ts /\ ts[t - p] = p + (t - p) /\ p + (t - p) = t
            BY <1>1, <1>4, <2>2
        <3>2. QED
            BY <3>1
    <2>3. QED
        BY <1>2, <2>1, <2>2
<1>6. QED
    BY <1>4, <1>5 DEF ts, m, k, Missed

\* A callback gives up the first of its ticks only.
LEMMA TailTicks ==
    ASSUME NEW S, NEW s \in Seq(S), s # <<>>
    PROVE  /\ Head(s) \in S /\ Tail(s) \in Seq(S) /\ Len(s) \in Nat \ {0}
           /\ Len(s) # 1 => Tail(s) # <<>>
           /\ \A i \in DOMAIN s :
                 \/ s[i] = Head(s)
                 \/ Len(s) # 1 /\ s[i] \in {Tail(s)[j] : j \in DOMAIN Tail(s)}
<1> DEFINE r == Tail(s)
<1>1. /\ Head(s) \in S /\ r \in Seq(S) /\ Len(s) \in Nat \ {0}
      /\ DOMAIN s = 1 .. Len(s) /\ Len(r) = Len(s) - 1 /\ DOMAIN r = 1 .. Len(s) - 1
      /\ Head(s) = s[1]
      /\ \A j \in 1 .. Len(s) - 1 : r[j] = s[j + 1]
    OBVIOUS
<1> HIDE DEF r
<1>2. ASSUME NEW i \in DOMAIN s, i # 1
      PROVE  Len(s) # 1 /\ s[i] \in {r[j] : j \in DOMAIN r}
    <2>1. i - 1 \in 1 .. Len(s) - 1 /\ (i - 1) + 1 = i /\ Len(s) # 1
        BY <1>1, <1>2
    <2>2. r[i - 1] = s[i]
        BY <1>1, <2>1
    <2>3. QED
        BY <1>1, <2>1, <2>2
<1>3. Len(s) # 1 => r # <<>>
    BY <1>1
<1>4. QED
    BY <1>1, <1>2, <1>3 DEF r

-----------------------------------------------------------------------------
(* What the steps do to the callbacks. *)

\* Callback c goes on in phase p with the ticks ts, and the others are left alone.
GoesOn(c, p, ts) ==
    /\ callback' \in [Callback -> CallbackType]
    /\ callback'[c].phase = p /\ callback'[c].ticks = ts
    /\ \A d \in Callback \ {c} : callback'[d] = callback[d]

LEMMA Phases ==
    /\ Phase = {"idle", "fired", "ticking", "entered", "collecting", "running", "faulted"}
    /\ Step = {"none", "due", "invoked", "locked", "ended"}
BY DEF Phase, Step

LEMMA GoesOnWith ==
    ASSUME TypesInv, NEW c \in Callback, NEW x \in CallbackType,
           callback' = [callback EXCEPT ![c] = x]
    PROVE  GoesOn(c, x.phase, x.ticks)
BY DEF TypesInv, GoesOn

LEMMA TimerFiresMoves ==
    ASSUME TypesInv, NEW c \in Callback, TimerFires(c)
    PROVE  GoesOn(c, "fired", callback[c].ticks)
<1> DEFINE x == [callback[c] EXCEPT !.phase = "fired", !.now = clock]
<1>1. x \in CallbackType /\ x.phase = "fired" /\ x.ticks = callback[c].ticks
    BY Phases DEF TypesInv, CallbackType
<1>2. callback' = [callback EXCEPT ![c] = x]
    BY DEF TimerFires
<1> HIDE DEF x
<1>3. QED
    BY <1>1, <1>2, GoesOnWith

LEMMA TakeTicksMoves ==
    ASSUME SchedulerAssumption, TypesInv, NEW c \in Callback, TakeTicks(c)
    PROVE  LET ts == Append(Missed(previous, callback[c].now), callback[c].now)
           IN  /\ GoesOn(c, "ticking", ts) /\ ts # <<>>
               /\ \A t \in previous + 1 .. callback[c].now : t \in {ts[i] : i \in DOMAIN ts}
<1> DEFINE n == callback[c].now
           ts == Append(Missed(previous, n), n)
           x == [callback[c] EXCEPT !.phase = "ticking", !.now = 0, !.ticks = ts]
<1>1. MaxTime \in Nat /\ previous \in 0 .. MaxTime /\ n \in 0 .. MaxTime
    BY DEF SchedulerAssumption, TypesInv, CallbackType
<1>2. /\ ts \in Seq(0 .. MaxTime) /\ ts # <<>>
      /\ \A t \in previous + 1 .. n : t \in {ts[i] : i \in DOMAIN ts}
    BY <1>1, TicksBetween
<1>3. callback' = [callback EXCEPT ![c] = x]
    BY DEF TakeTicks
<1>4. 0 \in 0 .. MaxTime
    BY <1>1
<1> HIDE DEF ts
<1>5. x \in CallbackType /\ x.phase = "ticking" /\ x.ticks = ts
    BY <1>2, <1>4, Phases DEF TypesInv, CallbackType
<1> HIDE DEF x
<1>6. GoesOn(c, "ticking", ts)
    BY <1>3, <1>5, GoesOnWith
<1>7. QED
    BY <1>2, <1>6 DEF ts

LEMMA RunAtMoves ==
    ASSUME TypesInv, NEW c \in Callback, RunAt(c)
    PROVE  \/ GoesOn(c, "entered", callback[c].ticks)
           \/ GoesOn(c, "collecting", callback[c].ticks)
<1> DEFINE p == IF firstTick THEN "entered" ELSE "collecting"
           x == [callback[c] EXCEPT !.phase = p]
<1>1. p \in Phase /\ p \in {"entered", "collecting"}
    BY Phases
<1>2. callback' = [callback EXCEPT ![c] = x]
    BY DEF RunAt
<1> HIDE DEF p
<1>3. x \in CallbackType /\ x.phase = p /\ x.ticks = callback[c].ticks
    BY <1>1 DEF TypesInv, CallbackType
<1> HIDE DEF x
<1>4. GoesOn(c, p, callback[c].ticks)
    BY <1>2, <1>3, GoesOnWith
<1>5. QED
    BY <1>1, <1>4

LEMMA TakeFirstMoves ==
    ASSUME TypesInv, NEW c \in Callback, TakeFirst(c)
    PROVE  GoesOn(c, "collecting", callback[c].ticks)
<1> DEFINE x == [callback[c] EXCEPT !.phase = "collecting", !.first = firstTick]
<1>1. x \in CallbackType /\ x.phase = "collecting" /\ x.ticks = callback[c].ticks
    BY Phases DEF TypesInv, CallbackType
<1>2. callback' = [callback EXCEPT ![c] = x]
    BY DEF TakeFirst, FirstRead
<1> HIDE DEF x
<1>3. QED
    BY <1>1, <1>2, GoesOnWith

\* The due events are those of the first tick; an event without an expression
\* is not among them.
LEMMA CollectMoves ==
    ASSUME TypesInv, NEW c \in Callback, Collect(c)
    PROVE  \/ GoesOn(c, "faulted", callback[c].ticks) /\ at' = at /\ ran' = ran
           \/ /\ GoesOn(c, "running", callback[c].ticks)
              /\ ran' = ran \cup {Head(callback[c].ticks)}
              /\ \E E \in SUBSET (Event \ bare) :
                    at' = [at EXCEPT ![c] = [e \in Event |->
                                                IF e \in E THEN "due" ELSE "none"]]
<1> DEFINE t == Head(callback[c].ticks)
<1>1. CASE \E e \in bare : Considered(e, t)
    <2> DEFINE x == [callback[c] EXCEPT !.phase = "faulted"]
    <2>1. x \in CallbackType /\ x.phase = "faulted" /\ x.ticks = callback[c].ticks
        BY Phases DEF TypesInv, CallbackType
    <2>2. callback' = [callback EXCEPT ![c] = x] /\ at' = at /\ ran' = ran
        BY <1>1 DEF Collect
    <2> HIDE DEF x
    <2>3. QED
        BY <2>1, <2>2, GoesOnWith
<1>2. CASE ~\E e \in bare : Considered(e, t)
    <2> DEFINE x == [callback[c] EXCEPT !.phase = "running", !.first = FALSE]
               E == Due(t, callback[c].first)
    <2>1. x \in CallbackType /\ x.phase = "running" /\ x.ticks = callback[c].ticks
        BY Phases DEF TypesInv, CallbackType
    <2>2. /\ callback' = [callback EXCEPT ![c] = x] /\ ran' = ran \cup {t}
          /\ at' = [at EXCEPT ![c] = [e \in Event |-> IF e \in E THEN "due" ELSE "none"]]
        BY <1>2 DEF Collect
    <2>3. E \subseteq Event \ bare
        BY <1>2 DEF Due, IsDue, TypesInv
    <2> HIDE DEF x, E
    <2>4. QED
        BY <2>1, <2>2, <2>3, GoesOnWith
<1>3. QED
    BY <1>1, <1>2

LEMMA EndRunAtMoves ==
    ASSUME SchedulerAssumption, TypesInv, ProgressInv, NEW c \in Callback, EndRunAt(c)
    PROVE  LET ts == callback[c].ticks
           IN  \/ Len(ts) = 1 /\ GoesOn(c, "idle", <<>>)
               \/ Len(ts) # 1 /\ Tail(ts) # <<>> /\ GoesOn(c, "ticking", Tail(ts))
<1> DEFINE ts == callback[c].ticks
           x == [callback[c] EXCEPT !.phase = "ticking", !.ticks = Tail(ts)]
<1>1. ts \in Seq(0 .. MaxTime) /\ ts # <<>>
    BY DEF TypesInv, CallbackType, ProgressInv, EndRunAt, In
<1>2. callback' = [callback EXCEPT ![c] = IF Len(ts) = 1 THEN NoCallback ELSE x]
    BY DEF EndRunAt
<1>3. Tail(ts) \in Seq(0 .. MaxTime) /\ (Len(ts) # 1 => Tail(ts) # <<>>)
    BY <1>1, TailTicks
<1>4. x \in CallbackType /\ x.phase = "ticking" /\ x.ticks = Tail(ts)
    BY <1>3, Phases DEF TypesInv, CallbackType
<1>5. 0 \in 0 .. MaxTime /\ <<>> \in Seq(0 .. MaxTime)
    BY DEF SchedulerAssumption
<1>6. NoCallback \in CallbackType /\ NoCallback.phase = "idle" /\ NoCallback.ticks = <<>>
    BY <1>5, Phases DEF NoCallback, CallbackType
<1> HIDE DEF x, ts
<1>7. CASE Len(ts) = 1
    BY <1>2, <1>6, <1>7, GoesOnWith DEF ts
<1>8. CASE Len(ts) # 1
    BY <1>2, <1>3, <1>4, <1>8, GoesOnWith DEF ts
<1>9. QED
    BY <1>7, <1>8

LEMMA EscapesMoves ==
    ASSUME TypesInv, NEW c \in Callback, NEW e \in Event, Escapes(c, e)
    PROVE  GoesOn(c, "faulted", callback[c].ticks)
<1> DEFINE x == [callback[c] EXCEPT !.phase = "faulted"]
<1>1. x \in CallbackType /\ x.phase = "faulted" /\ x.ticks = callback[c].ticks
    BY Phases DEF TypesInv, CallbackType
<1>2. callback' = [callback EXCEPT ![c] = x]
    BY DEF Escapes
<1> HIDE DEF x
<1>3. QED
    BY <1>1, <1>2, GoesOnWith

\* Every step, as far as the callbacks and their counters go.
LEMMA CallbacksMove ==
    ASSUME SchedulerAssumption, TypesInv, ProgressInv, [Next]_vars
    PROVE  \/ UNCHANGED <<callback, active, previous, firstTick, firsts, ran>>
           \/ \E c \in Callback :
                 \/ TimerFires(c) \/ TakeTicks(c) \/ RunAt(c) \/ TakeFirst(c) \/ Collect(c)
                 \/ EndRunAt(c)
                 \/ /\ \E e \in Event : EventStep(c, e) /\ Escapes(c, e) /\ at[c][e] # "none"
                    /\ UNCHANGED <<active, previous, firstTick, firsts, ran>>
<1>1. ASSUME NEW c \in Callback, NEW e \in Event, EventStep(c, e)
      PROVE  /\ UNCHANGED <<active, previous, firstTick, firsts, ran>> /\ at[c][e] # "none"
             /\ callback' = callback \/ Escapes(c, e)
    <2>1. UNCHANGED <<active, previous, firstTick, firsts, ran>>
        BY <1>1 DEF EventStep, Invoke, Skip, EndInvoke, Release, timing, counters
    <2>2. at[c][e] # "none"
        BY <1>1 DEF EventStep, Invoke, Skip, EndInvoke, Release
    <2>3. callback' = callback \/ Escapes(c, e)
        BY <1>1 DEF EventStep, Invoke, Skip, EndInvoke, Release, Goes
    <2>4. QED
        BY <2>1, <2>2, <2>3
<1>2. ASSUME NEW e \in Event, CallerStep(e) \/ LockExpires(e)
      PROVE  UNCHANGED <<callback, active, previous, firstTick, firsts, ran>>
    BY <1>2 DEF CallerStep, Schedule, Configure, Modify, TryUnschedule, LockExpires, timing, counters
<1>3. ASSUME \/ \E c \in Callback : Die(c)
             \/ ClockTicks \/ Stop \/ StopReturns \/ UNCHANGED vars
      PROVE  UNCHANGED <<callback, active, previous, firstTick, firsts, ran>>
    BY <1>3 DEF Die, ClockTicks, Stop, StopReturns, timing, counters, vars
<1>4. QED
    BY <1>1, <1>2, <1>3 DEF Next, CallbackStep

LEMMA SetStepSets ==
    ASSUME TypesInv, NEW c \in Callback, NEW e \in Event, NEW s \in Step, SetStep(c, e, s)
    PROVE  /\ at' \in [Callback -> [Event -> Step]] /\ at'[c][e] = s
           /\ \A d \in Callback, x \in Event : d # c \/ x # e => at'[d][x] = at[d][x]
BY DEF SetStep, TypesInv

\* A step of an event moves it on, or ends it, perhaps with others of its worker.
LEMMA EventMoves ==
    ASSUME TypesInv, NEW c \in Callback, NEW e \in Event, EventStep(c, e)
    PROVE  /\ at' \in [Callback -> [Event -> Step]]
           /\ \A d \in Callback, x \in Event :
                 \/ at'[d][x] = at[d][x] \/ at'[d][x] = "none"
                 \/ /\ d = c /\ x = e /\ at[d][x] # "none"
                    /\ at'[d][x] = "invoked" \/ Locks(c, e) \/ Holds(d, x)
<1>1. at \in [Callback -> [Event -> Step]]
    BY DEF TypesInv
<1>2. CASE Goes(c, e)
    BY <1>2, SetStepSets, Phases DEF Goes
<1>3. CASE Escapes(c, e)
    <2> DEFINE f == [x \in Event |-> IF WorkerOf[x] = WorkerOf[e] THEN "none" ELSE at[c][x]]
    <2>1. at' = [at EXCEPT ![c] = f]
        BY <1>3 DEF Escapes
    <2>2. f \in [Event -> Step] /\ \A x \in Event : f[x] = at[c][x] \/ f[x] = "none"
        BY <1>1, Phases
    <2> HIDE DEF f
    <2>3. QED
        BY <1>1, <2>1, <2>2
<1>4. CASE Invoke(c, e)
    <2>1. at[c][e] = "due"
        BY <1>4 DEF Invoke
    <2>2. CASE SetStep(c, e, "locked") /\ Prevents(e)
        BY <1>4, <2>1, <2>2, SetStepSets, Phases DEF Locks
    <2>3. CASE SetStep(c, e, "invoked")
        BY <2>1, <2>3, SetStepSets, Phases
    <2>4. QED
        BY <1>4, <2>2, <2>3 DEF Invoke
<1>5. CASE EndInvoke(c, e) /\ SetStep(c, e, "ended")
    <2>1. at[c][e] \in {"invoked", "locked"}
        BY <1>5 DEF EndInvoke
    <2>2. CASE at[c][e] = "invoked" /\ (Goes(c, e) \/ Escapes(c, e))
        BY <1>2, <1>3, <2>2
    <2>3. CASE at[c][e] = "locked"
        BY <1>5, <2>3, SetStepSets, Phases DEF Holds
    <2>4. QED
        BY <1>5, <2>2, <2>3 DEF EndInvoke
<1>6. QED
    BY <1>2, <1>3, <1>4, <1>5 DEF EventStep, Skip, EndInvoke, Release

\* Executions begin with a tick that collects them or with Invoke.
LEMMA ExecutionsMove ==
    ASSUME TypesInv, ProgressInv, [Next]_vars
    PROVE  /\ at' \in [Callback -> [Event -> Step]]
           /\ \A c \in Callback, e \in Event :
                 /\ at'[c][e] # "none" => \/ at[c][e] # "none"
                                          \/ Collect(c) /\ In(c, "running")' /\ e \notin bare
                 /\ at'[c][e] \in {"locked", "ended"} => Holds(c, e) \/ Locks(c, e)
<1>1. at \in [Callback -> [Event -> Step]]
    BY DEF TypesInv
<1>2. CASE at' = at
    BY <1>1, <1>2 DEF Holds
<1>3. ASSUME NEW c \in Callback, Collect(c), at' # at
      PROVE  /\ at' \in [Callback -> [Event -> Step]]
             /\ \A d \in Callback, e \in Event :
                   \/ at'[d][e] = at[d][e]
                   \/ at'[d][e] \notin {"locked", "ended"} /\ (at'[d][e] # "none" =>
                         d = c /\ In(c, "running")' /\ e \notin bare)
    <2>1. PICK E \in SUBSET (Event \ bare) :
             at' = [at EXCEPT ![c] = [e \in Event |-> IF e \in E THEN "due" ELSE "none"]]
        BY <1>3, CollectMoves
    <2>2. In(c, "running")'
        BY <1>3, CollectMoves DEF GoesOn, In
    <2> DEFINE f == [e \in Event |-> IF e \in E THEN "due" ELSE "none"]
    <2>3. f \in [Event -> Step] /\ \A e \in Event : f[e] = "none" \/ (f[e] = "due" /\ e \notin bare)
        <3>1. E \subseteq Event \ bare
            BY <2>1
        <3>2. f \in [Event -> {"none", "due"}]
            OBVIOUS
        <3>3. \A e \in Event : f[e] = "none" \/ e \in E
            OBVIOUS
        <3> HIDE DEF f
        <3>4. QED
            BY <3>1, <3>2, <3>3, Phases
    <2> HIDE DEF f
    <2>4. at' = [at EXCEPT ![c] = f]
        BY <2>1 DEF f
    <2>5. /\ at' \in [Callback -> [Event -> Step]]
          /\ \A e \in Event : at'[c][e] = f[e]
          /\ \A d \in Callback, e \in Event : d # c => at'[d][e] = at[d][e]
        BY <1>1, <2>3, <2>4
    <2>6. QED
        BY <2>2, <2>3, <2>5
<1>4. ASSUME NEW c \in Callback, NEW e \in Event, EventStep(c, e)
      PROVE  /\ at' \in [Callback -> [Event -> Step]]
             /\ \A d \in Callback, x \in Event :
                   /\ at'[d][x] # "none" => at[d][x] # "none"
                   /\ at'[d][x] \in {"locked", "ended"} => Holds(d, x) \/ Locks(d, x)
    BY <1>4, EventMoves DEF Holds
<1>5. CASE \E c \in Callback : Collect(c)
    BY <1>2, <1>3, <1>5 DEF Holds
<1>6. CASE \E c \in Callback, e \in Event : EventStep(c, e)
    BY <1>4, <1>6
<1>7. ASSUME NEW c \in Callback, \/ TimerFires(c) \/ TakeTicks(c) \/ RunAt(c) \/ TakeFirst(c)
                                 \/ EndRunAt(c) \/ Die(c)
      PROVE  at' = at
    BY <1>7 DEF TimerFires, TakeTicks, RunAt, TakeFirst, EndRunAt, Die
<1>8. ASSUME NEW e \in Event, CallerStep(e) \/ LockExpires(e)
      PROVE  at' = at
    BY <1>8 DEF CallerStep, Schedule, Configure, Modify, TryUnschedule, LockExpires
<1>9. ASSUME ClockTicks \/ Stop \/ StopReturns \/ UNCHANGED vars
      PROVE  at' = at
    BY <1>9 DEF ClockTicks, Stop, StopReturns, vars
<1>10. QED
    BY <1>2, <1>5, <1>6, <1>7, <1>8, <1>9 DEF Next, CallbackStep

-----------------------------------------------------------------------------
(* The parts of the invariant. *)

\* Only events of Exclusive come to prevent overlapping.
LEMMA PreventsExclusive ==
    ASSUME NEW e, Prevents(e)
    PROVE  e \in Exclusive
BY DEF Prevents, Chained

LEMMA TypesInvStep ==
    ASSUME SchedulerAssumption, TypesInv, ProgressInv, [Next]_vars
    PROVE  TypesInv'
<1>1. at' \in [Callback -> [Event -> Step]]
    BY ExecutionsMove
<1>2. callback' \in [Callback -> CallbackType]
    <2>1. callback \in [Callback -> CallbackType]
        BY DEF TypesInv
    <2>2. ASSUME NEW c \in Callback,
                 \/ TimerFires(c) \/ TakeTicks(c) \/ RunAt(c) \/ TakeFirst(c) \/ Collect(c)
                 \/ EndRunAt(c) \/ \E e \in Event : Escapes(c, e)
          PROVE  \E p, ts : GoesOn(c, p, ts)
        BY <2>2, TimerFiresMoves, TakeTicksMoves, RunAtMoves, TakeFirstMoves, CollectMoves,
           EndRunAtMoves, EscapesMoves
    <2>3. QED
        BY <2>1, <2>2, CallbacksMove DEF GoesOn
<1>3. /\ previous' \in 0 .. MaxTime /\ firstTick' \in BOOLEAN /\ firsts' \in Nat
    <2>1. /\ previous \in 0 .. MaxTime /\ firstTick \in BOOLEAN /\ firsts \in Nat
          /\ \A c \in Callback : callback[c].now \in 0 .. MaxTime
        BY DEF TypesInv, CallbackType
    <2>2. ASSUME NEW c \in Callback, TakeTicks(c)
          PROVE  previous' = callback[c].now /\ firstTick' = firstTick /\ firsts' = firsts
        BY <2>2 DEF TakeTicks, counters
    <2>3. ASSUME NEW c \in Callback, TakeFirst(c)
          PROVE  previous' = previous /\ firstTick' = FALSE /\ firsts' \in Nat
        BY <2>1, <2>3 DEF TakeFirst, timing, FirstRead
    <2>4. ASSUME NEW c \in Callback, TimerFires(c) \/ RunAt(c) \/ Collect(c) \/ EndRunAt(c)
          PROVE  previous' = previous /\ firstTick' = firstTick /\ firsts' = firsts
        BY <2>4 DEF TimerFires, RunAt, Collect, EndRunAt, timing, counters
    <2>5. QED
        BY <2>1, <2>2, <2>3, <2>4, CallbacksMove
<1>4. clock' \in 0 .. MaxTime /\ host' \in {"up", "stopping", "stopped", "dead"}
    <2>1. /\ clock \in 0 .. MaxTime /\ host \in {"up", "stopping", "stopped", "dead"}
          /\ MaxTime \in Nat
        BY DEF TypesInv, SchedulerAssumption
    <2>2. ASSUME NEW c \in Callback, CallbackStep(c) \/ TimerFires(c)
          PROVE  clock' = clock /\ host' \in {host, "dead"}
        BY <2>2 DEF CallbackStep, TimerFires, TakeTicks, RunAt, TakeFirst, Collect, EndRunAt,
                    Die, timing
    <2>3. ASSUME NEW c \in Callback, NEW e \in Event, EventStep(c, e)
          PROVE  clock' = clock /\ host' = host
        BY <2>3 DEF EventStep, Invoke, Skip, EndInvoke, Release, timing
    <2>4. ASSUME NEW e \in Event, CallerStep(e) \/ LockExpires(e)
          PROVE  clock' = clock /\ host' = host
        BY <2>4 DEF CallerStep, Schedule, Configure, Modify, TryUnschedule, LockExpires, timing
    <2>5. QED
        BY <2>1, <2>2, <2>3, <2>4 DEF Next, ClockTicks, Stop, StopReturns, timing, vars
<1>5. tasks' \subseteq Event /\ bare' \subseteq tasks'
    <2>1. /\ tasks \subseteq Event /\ bare \subseteq tasks
          /\ \A c \in Callback, e \in Event : at[c][e] # "none" => e \notin bare
        BY DEF TypesInv, ProgressInv
    <2>2. ASSUME NEW c \in Callback, NEW e \in Event, EventStep(c, e)
          PROVE  tasks' \in {tasks, tasks \ {e}} /\ bare' = bare /\ e \notin bare
        <3>1. at[c][e] # "none" /\ bare' = bare
            BY <2>2 DEF EventStep, Invoke, Skip, EndInvoke, Release, events
        <3>2. tasks' \in {tasks, tasks \ {e}}
            BY <2>2 DEF EventStep, Invoke, Skip, EndInvoke, Release, events
        <3>3. QED
            BY <2>1, <3>1, <3>2
    <2>3. ASSUME NEW e \in Event, CallerStep(e)
          PROVE  tasks' \subseteq Event /\ bare' \subseteq tasks'
        BY <2>1, <2>3 DEF CallerStep, Schedule, Configure, Modify, TryUnschedule
    <2>4. ASSUME NEW c \in Callback, CallbackStep(c) \/ TimerFires(c)
          PROVE  tasks' = tasks /\ bare' = bare
        BY <2>4 DEF CallbackStep, TimerFires, TakeTicks, RunAt, TakeFirst, Collect, EndRunAt,
                    Die, events
    <2>5. ASSUME \/ \E e \in Event : LockExpires(e)
                 \/ ClockTicks \/ Stop \/ StopReturns \/ UNCHANGED vars
          PROVE  tasks' = tasks /\ bare' = bare
        BY <2>5 DEF LockExpires, ClockTicks, Stop, StopReturns, events, vars
    <2>6. QED
        BY <2>1, <2>2, <2>3, <2>4, <2>5 DEF Next
<1>6. locked' \subseteq Exclusive /\ overdue' \subseteq locked' /\ overran' \subseteq Exclusive
    <2>1. locked \subseteq Exclusive /\ overdue \subseteq locked /\ overran \subseteq Exclusive
        BY DEF TypesInv
    <2>2. ASSUME NEW c \in Callback, NEW e \in Event, EventStep(c, e)
          PROVE  <1>6
        <3>1. CASE Invoke(c, e)
            BY <2>1, <3>1, PreventsExclusive DEF Invoke
        <3>2. CASE Skip(c, e) \/ EndInvoke(c, e)
            BY <2>1, <3>2 DEF Skip, EndInvoke, LockedKept, mutex
        <3>3. CASE Release(c, e)
            BY <2>1, <3>3 DEF Release
        <3>4. QED
            BY <2>2, <3>1, <3>2, <3>3 DEF EventStep
    <2>3. ASSUME NEW e \in Event, LockExpires(e)
          PROVE  <1>6
        BY <2>1, <2>3 DEF LockExpires
    <2>4. ASSUME \/ \E c \in Callback : CallbackStep(c) \/ TimerFires(c)
                 \/ \E e \in Event : CallerStep(e)
                 \/ ClockTicks \/ Stop \/ StopReturns \/ UNCHANGED vars
          PROVE  UNCHANGED <<locked, overdue, overran>>
        BY <2>4 DEF CallbackStep, TimerFires, TakeTicks, RunAt, TakeFirst, Collect, EndRunAt,
                    Die, CallerStep, Schedule, Configure, Modify, TryUnschedule, ClockTicks,
                    Stop, StopReturns, mutex, vars
    <2>5. QED
        BY <2>1, <2>2, <2>3, <2>4 DEF Next
<1>7. unset' \subseteq Chained
    <2>1. unset \subseteq Chained
        BY DEF TypesInv
    <2>2. ASSUME NEW e \in Event, CallerStep(e)
          PROVE  unset' \subseteq Chained
        BY <2>1, <2>2 DEF CallerStep, Schedule, Configure, Modify, TryUnschedule
    <2>3. ASSUME NEW c \in Callback, NEW e \in Event, EventStep(c, e)
          PROVE  UNCHANGED unset
        BY <2>3 DEF EventStep, Invoke, Skip, EndInvoke, Release, events
    <2>4. ASSUME \/ \E c \in Callback : CallbackStep(c) \/ TimerFires(c)
                 \/ \E e \in Event : LockExpires(e)
                 \/ ClockTicks \/ Stop \/ StopReturns \/ UNCHANGED vars
          PROVE  UNCHANGED unset
        BY <2>4 DEF CallbackStep, TimerFires, TakeTicks, RunAt, TakeFirst, Collect, EndRunAt,
                    Die, LockExpires, ClockTicks, Stop, StopReturns, events, vars
    <2>5. QED
        BY <2>1, <2>2, <2>3, <2>4 DEF Next
<1>8. QED
    BY <1>1, <1>2, <1>3, <1>4, <1>5, <1>6, <1>7 DEF TypesInv

\* A callback is counted while it is inside RunAtAsync.
LEMMA ActiveStep ==
    ASSUME SchedulerAssumption, TypesInv, ProgressInv, ActiveCounts, [Next]_vars
    PROVE  ActiveCounts'
<1>1. IsFiniteSet(Inside) /\ active = Cardinality(Inside) /\ Inside \subseteq Callback
    BY FS_Subset DEF SchedulerAssumption, ActiveCounts, Inside
<1>2. ASSUME NEW c \in Callback, NEW p, NEW ts, GoesOn(c, p, ts)
      PROVE  Inside' = IF p \in {"entered", "collecting", "running", "faulted"}
                       THEN Inside \cup {c} ELSE Inside \ {c}
    BY <1>2 DEF GoesOn, Inside
<1>3. ASSUME NEW c \in Callback, RunAt(c)
      PROVE  ActiveCounts'
    <2>1. Inside' = Inside \cup {c} /\ active' = active + 1 /\ c \notin Inside
        BY <1>2, <1>3, RunAtMoves DEF RunAt, Inside, In
    <2>2. QED
        BY <1>1, <2>1, FS_AddElement DEF ActiveCounts
<1>4. ASSUME NEW c \in Callback, EndRunAt(c)
      PROVE  ActiveCounts'
    <2>1. Inside' = Inside \ {c} /\ active' = active - 1 /\ c \in Inside
        BY <1>2, <1>4, EndRunAtMoves DEF EndRunAt, ActiveAfter, Inside, In
    <2>2. QED
        BY <1>1, <2>1, FS_RemoveElement DEF ActiveCounts
<1>5. ASSUME NEW c \in Callback, TimerFires(c) \/ TakeTicks(c)
      PROVE  Inside' = Inside /\ active' = active
    <2>1. c \notin Inside /\ active' = active
        BY <1>5 DEF TimerFires, TakeTicks, Inside, In, counters
    <2>2. Inside' = Inside \ {c}
        BY <1>2, <1>5, TimerFiresMoves, TakeTicksMoves
    <2>3. QED
        BY <2>1, <2>2
<1>6. ASSUME NEW c \in Callback, TakeFirst(c) \/ Collect(c)
      PROVE  Inside' = Inside /\ active' = active
    <2>1. c \in Inside /\ active' = active
        BY <1>6 DEF TakeFirst, Collect, Inside, In, counters
    <2>2. Inside' = Inside \cup {c}
        BY <1>2, <1>6, TakeFirstMoves, CollectMoves
    <2>3. QED
        BY <2>1, <2>2
<1>7. ASSUME NEW c \in Callback, NEW e \in Event, Escapes(c, e), at[c][e] # "none"
      PROVE  Inside' = Inside
    <2>1. c \in Inside
        BY <1>7 DEF ProgressInv, Inside, In
    <2>2. Inside' = Inside \cup {c}
        BY <1>2, <1>7, EscapesMoves
    <2>3. QED
        BY <2>1, <2>2
<1>8. ASSUME callback' = callback
      PROVE  Inside' = Inside
    BY <1>8 DEF Inside
<1>9. ASSUME Inside' = Inside, active' = active
      PROVE  ActiveCounts'
    BY <1>1, <1>9 DEF ActiveCounts
<1>10. QED
    BY <1>3, <1>4, <1>5, <1>6, <1>7, <1>8, <1>9, CallbacksMove

\* Ticks are taken together, and given up one by one, after their collection.
LEMMA ProgressStep ==
    ASSUME SchedulerAssumption, TypesInv, ProgressInv, [Next]_vars
    PROVE  ProgressInv'
<1>1. ASSUME NEW c \in Callback
      PROVE  (In(c, "idle") \/ In(c, "fired") <=> callback[c].ticks = <<>>)'
    <2>1. In(c, "idle") \/ In(c, "fired") <=> callback[c].ticks = <<>>
        BY DEF ProgressInv
    <2>2. CASE callback'[c] = callback[c]
        BY <2>1, <2>2 DEF In
    <2>3. ASSUME NEW p, NEW ts, GoesOn(c, p, ts), p \in {"idle", "fired"} <=> ts = <<>>
          PROVE  (In(c, "idle") \/ In(c, "fired") <=> callback[c].ticks = <<>>)'
        BY <2>3 DEF GoesOn, In
    <2>4. CASE TimerFires(c)
        BY <2>1, <2>3, <2>4, TimerFiresMoves DEF TimerFires
    <2>5. CASE TakeTicks(c)
        BY <2>3, <2>5, TakeTicksMoves
    <2>6. CASE RunAt(c)
        BY <2>1, <2>3, <2>6, RunAtMoves DEF RunAt, In
    <2>7. CASE TakeFirst(c)
        BY <2>1, <2>3, <2>7, TakeFirstMoves DEF TakeFirst, In
    <2>8. CASE Collect(c)
        BY <2>1, <2>3, <2>8, CollectMoves DEF Collect, In
    <2>9. CASE EndRunAt(c)
        BY <2>3, <2>9, EndRunAtMoves
    <2>10. ASSUME NEW e \in Event, Escapes(c, e), at[c][e] # "none"
           PROVE  (In(c, "idle") \/ In(c, "fired") <=> callback[c].ticks = <<>>)'
        <3>1. callback[c].ticks # <<>>
            BY <2>1, <2>10 DEF ProgressInv, In
        <3>2. QED
            BY <2>3, <2>10, <3>1, EscapesMoves
    <2>11. ASSUME NEW d \in Callback \ {c},
                  \/ TimerFires(d) \/ TakeTicks(d) \/ RunAt(d) \/ TakeFirst(d) \/ Collect(d)
                  \/ EndRunAt(d) \/ \E e \in Event : Escapes(d, e)
           PROVE  callback'[c] = callback[c]
        BY <2>11, TimerFiresMoves, TakeTicksMoves, RunAtMoves, TakeFirstMoves, CollectMoves,
           EndRunAtMoves, EscapesMoves DEF GoesOn
    <2>12. QED
        BY <2>2, <2>4, <2>5, <2>6, <2>7, <2>8, <2>9, <2>10, <2>11, CallbacksMove
<1>2. ran \subseteq ran'
    <2>1. ASSUME NEW c \in Callback, Collect(c)
          PROVE  ran \subseteq ran'
        BY <2>1, CollectMoves
    <2>2. ASSUME NEW c \in Callback, TimerFires(c) \/ TakeTicks(c) \/ RunAt(c) \/ TakeFirst(c)
                                     \/ EndRunAt(c)
          PROVE  ran' = ran
        BY <2>2 DEF TimerFires, TakeTicks, RunAt, TakeFirst, EndRunAt
    <2>3. QED
        BY <2>1, <2>2, CallbacksMove
<1>3. ASSUME NEW c \in Callback, In(c, "running")'
      PROVE  Head(callback'[c].ticks) \in ran'
    <2>1. CASE callback'[c] = callback[c]
        BY <1>2, <1>3, <2>1 DEF ProgressInv, In
    <2>2. CASE callback'[c] # callback[c]
        <3>1. ASSUME NEW d \in Callback,
                     \/ TimerFires(d) \/ TakeTicks(d) \/ RunAt(d) \/ TakeFirst(d)
                     \/ EndRunAt(d) \/ \E e \in Event : Escapes(d, e)
              PROVE  FALSE
            BY <1>3, <2>2, <3>1, TimerFiresMoves, TakeTicksMoves, RunAtMoves, TakeFirstMoves,
               EndRunAtMoves, EscapesMoves DEF GoesOn, In
        <3>2. PICK d \in Callback : Collect(d)
            BY <2>2, <3>1, CallbacksMove
        <3>3. QED
            BY <1>3, <2>2, <3>2, CollectMoves DEF GoesOn, In
    <2>3. QED
        BY <2>1, <2>2
<1>4. ASSUME NEW c \in Callback, NEW e \in Event, at'[c][e] # "none"
      PROVE  (In(c, "running") \/ In(c, "faulted"))' /\ e \notin bare'
    <2>1. \/ at[c][e] # "none" /\ (In(c, "running") \/ In(c, "faulted")) /\ e \notin bare
          \/ Collect(c) /\ In(c, "running")' /\ e \notin bare
        BY <1>4, ExecutionsMove DEF ProgressInv
    <2>2. ASSUME at[c][e] # "none", In(c, "running") \/ In(c, "faulted")
          PROVE  (In(c, "running") \/ In(c, "faulted"))'
        <3>1. CASE callback'[c] = callback[c]
            BY <2>2, <3>1 DEF In
        <3>2. ~EndRunAt(c)
            BY <2>2 DEF EndRunAt, Doing
        <3>3. ~TimerFires(c) /\ ~TakeTicks(c) /\ ~RunAt(c) /\ ~TakeFirst(c)
            BY <2>2 DEF TimerFires, TakeTicks, RunAt, TakeFirst, In
        <3>4. ASSUME NEW x \in Event, Escapes(c, x)
              PROVE  In(c, "faulted")'
            BY <3>4, EscapesMoves DEF GoesOn, In
        <3>5. CASE Collect(c)
            BY <3>5, CollectMoves DEF GoesOn, In
        <3>6. ASSUME NEW d \in Callback \ {c},
                     \/ TimerFires(d) \/ TakeTicks(d) \/ RunAt(d) \/ TakeFirst(d)
                     \/ Collect(d) \/ EndRunAt(d) \/ \E x \in Event : Escapes(d, x)
              PROVE  callback'[c] = callback[c]
            BY <3>6, TimerFiresMoves, TakeTicksMoves, RunAtMoves, TakeFirstMoves,
               CollectMoves, EndRunAtMoves, EscapesMoves DEF GoesOn
        <3>7. QED
            BY <3>1, <3>2, <3>3, <3>4, <3>5, <3>6, CallbacksMove
    <2>3. e \notin bare'
        <3>1. ASSUME NEW x \in Event, Schedule(x)
              PROVE  bare' = bare \cup {x} /\ x # e
            BY <1>4, <3>1 DEF Schedule
        <3>2. ASSUME NEW x \in Event, Configure(x) \/ Modify(x) \/ TryUnschedule(x) \/ LockExpires(x)
              PROVE  bare' \subseteq bare
            BY <3>2 DEF Configure, Modify, TryUnschedule, LockExpires, events
        <3>3. ASSUME NEW d \in Callback, NEW x \in Event, EventStep(d, x)
              PROVE  bare' = bare
            BY <3>3 DEF EventStep, Invoke, Skip, EndInvoke, Release, events
        <3>4. ASSUME \/ \E d \in Callback : CallbackStep(d) \/ TimerFires(d)
                     \/ ClockTicks \/ Stop \/ StopReturns \/ UNCHANGED vars
              PROVE  bare' = bare
            BY <3>4 DEF CallbackStep, TimerFires, TakeTicks, RunAt, TakeFirst, Collect,
                        EndRunAt, Die, ClockTicks, Stop, StopReturns, events, vars
        <3>5. QED
            BY <2>1, <3>1, <3>2, <3>3, <3>4 DEF Next, CallerStep
    <2>4. QED
        BY <2>1, <2>2, <2>3
<1>5. QED
    BY <1>1, <1>3, <1>4 DEF ProgressInv

\* What becomes of the locks.
LEMMA LocksMove ==
    ASSUME [Next]_vars
    PROVE  \/ UNCHANGED mutex
           \/ \E c \in Callback, e \in Event : Invoke(c, e) \/ Release(c, e)
           \/ \E e \in Event : LockExpires(e)
<1>1. ASSUME NEW c \in Callback, NEW e \in Event, Skip(c, e) \/ EndInvoke(c, e)
      PROVE  UNCHANGED mutex
    BY <1>1 DEF Skip, EndInvoke, LockedKept, mutex
<1>2. ASSUME \/ \E c \in Callback : CallbackStep(c) \/ TimerFires(c)
             \/ \E e \in Event : CallerStep(e)
             \/ ClockTicks \/ Stop \/ StopReturns \/ UNCHANGED vars
      PROVE  UNCHANGED mutex
    BY <1>2 DEF CallbackStep, TimerFires, TakeTicks, RunAt, TakeFirst, Collect, EndRunAt,
                Die, CallerStep, Schedule, Configure, Modify, TryUnschedule, ClockTicks, Stop,
                StopReturns, vars
<1>3. QED
    BY <1>1, <1>2 DEF Next, EventStep

\* TryGetLock gives a lock to one execution, and Release takes it from that
\* one, unless it has outlived the lock.
LEMMA LocksStep ==
    ASSUME SchedulerAssumption, TypesInv, ProgressInv, LocksInv, [Next]_vars
    PROVE  LocksInv'
<1>1. /\ Exclusive \subseteq Event /\ at \in [Callback -> [Event -> Step]]
      /\ overdue \subseteq overran
    BY DEF SchedulerAssumption, TypesInv, LocksInv
<1>2. overdue' \subseteq overran' /\ overran \subseteq overran'
    <2>1. ASSUME NEW c \in Callback, NEW e \in Event, Invoke(c, e) \/ Release(c, e)
          PROVE  overdue' \subseteq overdue /\ overran' = overran
        BY <2>1 DEF Invoke, Release
    <2>2. ASSUME NEW e \in Event, LockExpires(e)
          PROVE  overdue' = overdue \cup {e} /\ overran' = overran \cup {e}
        BY <2>2 DEF LockExpires
    <2>3. QED
        BY <1>1, <2>1, <2>2, LocksMove DEF mutex
<1>3. ASSUME NEW e \in Exclusive, e \notin overran',
             NEW c \in Callback, at'[c][e] \in {"locked", "ended"},
             NEW d \in Callback, at'[d][e] \in {"locked", "ended"}
      PROVE  e \in locked' /\ c = d
    <2>1. e \in Event /\ e \notin overran /\ e \notin overdue
        BY <1>1, <1>2, <1>3
    <2>2. \A a, b \in Callback : Holds(a, e) /\ Holds(b, e) => e \in locked /\ a = b
        BY <1>3, <2>1 DEF LocksInv
    <2>3. CASE \E a \in Callback : Locks(a, e)
        <3>1. PICK a \in Callback : Locks(a, e)
            BY <2>3
        <3>2. e \notin locked /\ e \in locked'
            BY <1>3, <2>1, <3>1 DEF Locks, Invoke, LockFree
        <3>3. ~Holds(c, e) /\ ~Holds(d, e)
            BY <2>2, <3>2
        <3>4. \A b \in Callback : b # a => at'[b][e] = at[b][e]
            BY <1>1, <2>1, <3>1 DEF Locks, Invoke, SetStep
        <3>5. c = a /\ d = a
            BY <1>3, <3>3, <3>4 DEF Holds
        <3>6. QED
            BY <3>2, <3>5
    <2>4. CASE ~\E a \in Callback : Locks(a, e)
        <3>1. Holds(c, e) /\ Holds(d, e)
            BY <1>3, <2>1, <2>4, ExecutionsMove
        <3>2. c = d /\ e \in locked
            BY <2>2, <3>1
        <3>3. ASSUME NEW a \in Callback, Release(a, e)
              PROVE  FALSE
            <4>1. at[a][e] = "ended"
                BY <3>3 DEF Release
            <4>2. a = c
                BY <2>2, <3>1, <4>1 DEF Holds
            <4>3. CASE Goes(a, e)
                <5>1. at'[a][e] = "none"
                    BY <2>1, <4>3, SetStepSets, Phases DEF Goes
                <5>2. QED
                    BY <1>3, <4>2, <5>1
            <4>4. CASE Escapes(a, e)
                <5>1. at'[a][e] = "none"
                    BY <1>1, <2>1, <4>4 DEF Escapes
                <5>2. QED
                    BY <1>3, <4>2, <5>1
            <4>5. QED
                BY <3>3, <4>3, <4>4 DEF Release
        <3>4. e \in locked'
            <4>1. ASSUME NEW a \in Callback, NEW x \in Event, Invoke(a, x)
                  PROVE  locked \subseteq locked'
                BY <4>1 DEF Invoke
            <4>2. ASSUME NEW a \in Callback, NEW x \in Event, Release(a, x)
                  PROVE  locked' = locked \ {x} /\ x # e
                BY <3>3, <4>2 DEF Release
            <4>3. ASSUME NEW x \in Event, LockExpires(x)
                  PROVE  locked' = locked
                BY <4>3 DEF LockExpires
            <4>4. QED
                BY <3>2, <4>1, <4>2, <4>3, LocksMove DEF mutex
        <3>5. QED
            BY <3>2, <3>4
    <2>5. QED
        BY <2>3, <2>4
<1>4. QED
    BY <1>2, <1>3 DEF LocksInv, Holds

\* EnsureContinuousSecondTicks.
LEMMA TicksStep ==
    ASSUME SchedulerAssumption, TypesInv, ProgressInv, TicksAccounted, [Next]_vars
    PROVE  TicksAccounted'
<1>1. /\ previous \in Nat /\ \A t \in 1 .. previous : t \in ran \/ \E c \in Callback : t \in Ticks(c)
      /\ \A c \in Callback : callback[c].ticks \in Seq(0 .. MaxTime)
    BY DEF TypesInv, CallbackType, SchedulerAssumption, TicksAccounted, Ticks
<1>2. SUFFICES ASSUME NEW t \in 1 .. previous'
               PROVE  t \in ran' \/ \E c \in Callback : t \in Ticks(c)'
    BY DEF TicksAccounted, Ticks
<1>3. ASSUME NEW c \in Callback, NEW p, GoesOn(c, p, callback[c].ticks)
      PROVE  \A d \in Callback : Ticks(d)' = Ticks(d)
    BY <1>3 DEF GoesOn, Ticks
<1>4. ASSUME \A d \in Callback : Ticks(d)' = Ticks(d), previous' = previous, ran \subseteq ran'
      PROVE  t \in ran' \/ \E c \in Callback : t \in Ticks(c)'
    BY <1>1, <1>4
<1>5. ASSUME NEW c \in Callback, TakeTicks(c)
      PROVE  t \in ran' \/ \E d \in Callback : t \in Ticks(d)'
    <2> DEFINE n == callback[c].now
               ts == Append(Missed(previous, n), n)
    <2>1. /\ GoesOn(c, "ticking", ts)
          /\ \A s \in previous + 1 .. n : s \in {ts[i] : i \in DOMAIN ts}
        BY <1>5, TakeTicksMoves
    <2>2. previous' = n /\ ran' = ran /\ callback[c].ticks = <<>> /\ n \in Nat
        <3>1. previous' = n /\ ran' = ran /\ In(c, "fired")
            BY <1>5 DEF TakeTicks
        <3>2. n \in 0 .. MaxTime
            BY DEF TypesInv, CallbackType
        <3>3. QED
            BY <3>1, <3>2 DEF ProgressInv, SchedulerAssumption
    <2> HIDE DEF ts, n
    <2>3. /\ Ticks(c)' = {ts[i] : i \in DOMAIN ts} /\ Ticks(c) = {}
          /\ \A d \in Callback \ {c} : Ticks(d)' = Ticks(d)
        BY <2>1, <2>2 DEF GoesOn, Ticks
    <2>4. CASE t \in previous + 1 .. n
        BY <2>1, <2>3, <2>4
    <2>5. CASE t \in 1 .. previous
        BY <1>1, <2>2, <2>3, <2>5
    <2>6. t \in previous + 1 .. n \/ t \in 1 .. previous
        BY <1>1, <2>2
    <2>7. QED
        BY <2>4, <2>5, <2>6
<1>6. ASSUME NEW c \in Callback, EndRunAt(c)
      PROVE  t \in ran' \/ \E d \in Callback : t \in Ticks(d)'
    <2> DEFINE ts == callback[c].ticks
               h == Head(ts)
               r == Tail(ts)
               Others == {r[j] : j \in DOMAIN r}
    <2>1. /\ previous' = previous /\ ran' = ran /\ ts # <<>> /\ h \in ran
        BY <1>6 DEF EndRunAt, ProgressInv, In, timing
    <2>2. Ticks(c) = {ts[i] : i \in DOMAIN ts} /\ ts \in Seq(0 .. MaxTime)
        BY <1>1 DEF Ticks
    <2>3. /\ previous' = previous /\ ran' = ran /\ h \in ran
          /\ \A s \in Ticks(c) : s = h \/ (Len(ts) # 1 /\ s \in Others)
        <3> HIDE DEF ts
        <3>1. \A i \in DOMAIN ts : ts[i] = h \/ (Len(ts) # 1 /\ ts[i] \in Others)
            BY <2>1, <2>2, TailTicks
        <3> HIDE DEF h, Others
        <3>2. QED
            BY <2>1, <2>2, <3>1
    <2>4. Len(ts) = 1 \/ Ticks(c)' = Others
        <3>1. Len(ts) = 1 \/ GoesOn(c, "ticking", r)
            BY <1>6, EndRunAtMoves
        <3> HIDE DEF r, ts
        <3>2. QED
            BY <3>1 DEF GoesOn, Ticks
    <2>5. \A d \in Callback \ {c} : Ticks(d)' = Ticks(d)
        BY <1>6, EndRunAtMoves DEF GoesOn, Ticks
    <2> HIDE DEF ts, h, r, Others
    <2>6. t \in ran \/ \E d \in Callback : t \in Ticks(d)
        BY <1>1, <2>3
    <2>7. ASSUME t \in Ticks(c)
          PROVE  t \in ran' \/ t \in Ticks(c)'
        BY <2>3, <2>4, <2>7
    <2>8. QED
        BY <2>3, <2>5, <2>6, <2>7
<1>7. ASSUME NEW c \in Callback, TimerFires(c) \/ RunAt(c) \/ TakeFirst(c)
      PROVE  (\A d \in Callback : Ticks(d)' = Ticks(d)) /\ previous' = previous /\ ran' = ran
    <2>1. previous' = previous /\ ran' = ran
        BY <1>7 DEF TimerFires, RunAt, TakeFirst, timing
    <2>2. QED
        BY <1>3, <1>7, <2>1, TimerFiresMoves, RunAtMoves, TakeFirstMoves
<1>8. ASSUME NEW c \in Callback, Collect(c)
      PROVE  (\A d \in Callback : Ticks(d)' = Ticks(d)) /\ previous' = previous /\ ran \subseteq ran'
    <2>1. previous' = previous
        BY <1>8 DEF Collect, timing
    <2>2. ran \subseteq ran'
        BY <1>8, CollectMoves
    <2>3. QED
        BY <1>3, <1>8, <2>1, <2>2, CollectMoves
<1>9. ASSUME NEW c \in Callback, NEW e \in Event, Escapes(c, e)
      PROVE  \A d \in Callback : Ticks(d)' = Ticks(d)
    BY <1>3, <1>9, EscapesMoves
<1>10. ASSUME callback' = callback
       PROVE  \A d \in Callback : Ticks(d)' = Ticks(d)
    BY <1>10 DEF Ticks
<1>11. QED
    BY <1>4, <1>5, <1>6, <1>7, <1>8, <1>9, <1>10, CallbacksMove

\* RunAtAsync reads _isFirstTick again inside its lock.
LEMMA FirstStep ==
    ASSUME SchedulerAssumption, TypesInv, ProgressInv, OneFirstTick, [Next]_vars
    PROVE  OneFirstTick'
<1>1. ASSUME NEW c \in Callback, TakeFirst(c)
      PROVE  OneFirstTick'
    BY <1>1 DEF TakeFirst, FirstRead, OneFirstTick
<1>2. ASSUME NEW c \in Callback, \/ TimerFires(c) \/ TakeTicks(c) \/ RunAt(c) \/ Collect(c)
                                 \/ EndRunAt(c)
      PROVE  firstTick' = firstTick /\ firsts' = firsts
    BY <1>2 DEF TimerFires, TakeTicks, RunAt, Collect, EndRunAt, counters
<1>3. QED
    BY <1>1, <1>2, CallbacksMove DEF OneFirstTick

-----------------------------------------------------------------------------
(* The theorems. *)

LEMMA SchedulerInvInit ==
    ASSUME SchedulerAssumption, Init
    PROVE  SchedulerInv
<1>1. 0 \in 0 .. MaxTime /\ <<>> \in Seq(0 .. MaxTime)
    BY DEF SchedulerAssumption
<1>2. NoCallback \in CallbackType /\ NoCallback.phase = "idle" /\ NoCallback.ticks = <<>>
    BY <1>1, Phases DEF NoCallback, CallbackType
<1>3. \A c \in Callback : callback[c] = NoCallback /\ \A e \in Event : at[c][e] = "none"
    BY DEF Init
<1>4. TypesInv
    BY <1>1, <1>2, Phases DEF Init, TypesInv
<1>5. ActiveCounts
    <2>1. Inside = {}
        BY <1>2, <1>3 DEF Inside
    <2>2. QED
        BY <2>1, FS_EmptySet DEF Init, ActiveCounts
<1>6. ProgressInv
    BY <1>2, <1>3 DEF ProgressInv, In
<1>7. LocksInv
    <2>1. overdue = {} /\ overran = {}
        BY DEF Init
    <2>2. \A e \in Exclusive : e \in Event
        BY DEF SchedulerAssumption
    <2>3. QED
        BY <1>3, <2>1, <2>2 DEF LocksInv, Holds
<1>8. TicksAccounted /\ OneFirstTick
    BY DEF Init, TicksAccounted, OneFirstTick
<1>9. QED
    BY <1>4, <1>5, <1>6, <1>7, <1>8 DEF SchedulerInv

\* The invariant holds in every state: how far the callbacks are with their
\* ticks and with the events of them, and who holds the locks.
THEOREM SchedulerInvariant == Spec => []SchedulerInv
<1>1. Init => SchedulerInv
    BY SchedulerAssumption, SchedulerInvInit
<1>2. SchedulerInv /\ [Next]_vars => SchedulerInv'
    BY SchedulerAssumption, TypesInvStep, ActiveStep, ProgressStep, LocksStep, TicksStep,
       FirstStep DEF SchedulerInv
<1>3. QED
    BY <1>1, <1>2, PTL DEF Spec

\* Every variable has its type, and _schedulerIterationsActiveCount, which
\* StopAsync waits for, is the number of callbacks inside RunAtAsync.
THEOREM TypeCorrect == Spec => []TypeOK
<1>1. ASSUME SchedulerInv
      PROVE  TypeOK
    <2>1. TypesInv /\ active = Cardinality(Inside)
        BY <1>1 DEF SchedulerInv, ActiveCounts
    <2>2. \A c \in Callback : callback[c].phase \in Phase /\ callback[c].ticks \in Seq(0 .. MaxTime)
        BY <2>1 DEF TypesInv, CallbackType
    <2>3. QED
        BY <2>1, <2>2 DEF TypesInv, Inside, TypeOK
<1>2. QED
    BY <1>1, SchedulerInvariant, PTL

\* EnsureContinuousSecondTicks: whatever the order in which callbacks reach the
\* tick lock, and however far behind, each second that previousTick is past is
\* run or will be.
THEOREM NoTickLost == Spec => []TicksAccounted
BY SchedulerInvariant, PTL DEF SchedulerInv

\* However many callbacks find _isFirstTick set, one tick is the first.
THEOREM FirstTickOnce == Spec => []OneFirstTick
BY SchedulerInvariant, PTL DEF SchedulerInv

\* PreventOverlapping, for executions younger than 24 hours, beside callbacks
\* that catch up, events that are scheduled and unscheduled while the host
\* runs, and listeners that throw.
THEOREM OverlapPrevented == Spec => []NoOverlap
<1>1. ASSUME SchedulerInv
      PROVE  NoOverlap
    BY <1>1 DEF SchedulerInv, LocksInv, NoOverlap, Holds
<1>2. QED
    BY <1>1, SchedulerInvariant, PTL
=============================================================================
