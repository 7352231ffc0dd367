----------------------------- MODULE Scheduler -----------------------------
(***************************************************************************)
(* The in-memory scheduler of Coravel: the timer callbacks of              *)
(* SchedulerHost, the ticks that EnsureContinuousSecondTicks makes up for, *)
(* the workers of Scheduler and the locks of InMemoryMutex.  The timer     *)
(* does not wait for its callbacks, so several of them, each behind by     *)
(* several ticks, may run the scheduler at the same time.                  *)
(*                                                                         *)
(* Time is counted in seconds since the host was constructed, at second    *)
(* StartSecond of a minute.                                                *)
(***************************************************************************)
EXTENDS Naturals, Sequences, FiniteSets

CONSTANTS
    Event,        \* scheduled events
    WorkerOf,     \* WorkerOf[e]: the worker an event is assigned to
    Interval,     \* Interval[e]: its _secondsInterval, 0 when it has none
    Matches,      \* Matches[e]: the minutes its cron expression allows
    Exclusive,    \* events with PreventOverlapping, each with a key of its own
    Once,         \* events with Once
    AtStart,      \* events with RunOnceAtStart
    AtRuntime,    \* events scheduled while the host runs
    Callback,     \* callbacks of the timer in progress: their number bounds them
    Throwing,     \* may a listener or the error handler throw?
    StartSecond,  \* second of the minute at time 0
    MaxTime       \* bound on the clock

ASSUME SchedulerAssumption ==
    /\ Exclusive \subseteq Event /\ Once \subseteq Event
    /\ AtStart \subseteq Event /\ AtRuntime \subseteq Event
    /\ Interval \in [Event -> 0 .. 59] /\ Matches \in [Event -> SUBSET Nat]
    /\ DOMAIN WorkerOf = Event /\ Throwing \in BOOLEAN
    /\ IsFiniteSet(Callback) /\ StartSecond \in 0 .. 59 /\ MaxTime \in Nat

VARIABLES
    clock,      \* DateTime.UtcNow
    previous,   \* previousTick
    firstTick,  \* _isFirstTick
    active,     \* _schedulerIterationsActiveCount
    tasks,      \* _tasks
    bare,       \* those of tasks whose interval is not assigned yet
    unset,      \* the modifiers that the chain of calls has not come to yet
    locked,     \* keys that are locked in the mutex
    overdue,    \* those of them whose ExpiresAt is past
    callback,   \* callback[c]: RunSchedulerPerSecondAsync in progress
    at,         \* at[c][e]: how far the tick that c runs is with e
    host,       \* "up", "stopping", "stopped", or "dead" after an unhandled exception
    ran,        \* history: seconds whose due events were collected
    firsts,     \* history: how often a tick counted as the first one
    overran     \* history: keys whose lock expired under an execution

timing == <<clock, previous>>
counters == <<firstTick, active, firsts>>
events == <<tasks, bare, unset>>
mutex == <<locked, overdue, overran>>
vars == <<timing, counters, events, mutex, callback, at, host, ran>>

-----------------------------------------------------------------------------
SecondOf(t) == (StartSecond + t) % 60
MinuteOf(t) == (StartSecond + t) \div 60

\* IsSecondsDue: at second 0 only intervals that divide a minute are due.
IsSecondsDue(e, t) ==
    IF SecondOf(t) = 0 THEN 60 % Interval[e] = 0 ELSE SecondOf(t) % Interval[e] = 0

\* Events without a seconds interval are looked at on the minute only.
IsCronBased(e) == Interval[e] = 0 \/ e \in bare
Considered(e, t) == IsCronBased(e) => SecondOf(t) = 0

IsDue(e, t) ==
    /\ Considered(e, t)
    /\ Interval[e] > 0 => IsSecondsDue(e, t)
    /\ MinuteOf(t) \in Matches[e]

\* The modifiers that calls chained to the interval give to the events.
Chained == ({"PreventOverlapping"} \X Exclusive) \cup ({"Once"} \X Once)
           \cup ({"RunOnceAtStart"} \X AtStart)

Prevents(e) == <<"PreventOverlapping", e>> \in Chained \ unset
RunsOnce(e) == <<"Once", e>> \in Chained \ unset
RunsAtStart(e) == <<"RunOnceAtStart", e>> \in Chained \ unset

Due(t, first) ==
    {e \in tasks : IsDue(e, t) \/ (first /\ e \notin bare /\ RunsAtStart(e))}

\* GetTicksBetweenPreviousAndNext.
\* Mutant: the loop starts one second late.
MissedButOne(p, n) == [i \in 1 .. (IF n > p + 2 THEN n - p - 2 ELSE 0) |-> p + 1 + i]

Missed(p, n) == [i \in 1 .. (IF n > p + 1 THEN n - p - 1 ELSE 0) |-> p + i]

Phase == {"idle", "fired", "ticking", "entered", "collecting", "running", "faulted"}
Step == {"none", "due", "invoked", "locked", "ended"}
NoCallback == [phase |-> "idle", now |-> 0, ticks |-> <<>>, first |-> FALSE]

In(c, p) == callback[c].phase = p
Doing(c, s) == {e \in Event : at[c][e] = s}
SetStep(c, e, s) == at' = [at EXCEPT ![c][e] = s]

Init ==
    /\ clock = 0 /\ previous = 0
    /\ firstTick = TRUE /\ active = 0 /\ firsts = 0
    /\ tasks = Event \ AtRuntime /\ bare = {} /\ unset = {}
    /\ locked = {} /\ overdue = {} /\ overran = {}
    /\ callback = [c \in Callback |-> NoCallback]
    /\ at = [c \in Callback |-> [e \in Event |-> "none"]]
    /\ host = "up" /\ ran = {}

-----------------------------------------------------------------------------
(* The application. *)

\* (Nobody reads the clock once the host is stopping.)
ClockTicks ==
    /\ clock < MaxTime /\ host = "up"
    /\ clock' = clock + 1
    /\ UNCHANGED <<previous, counters, events, mutex, callback, at, host, ran>>

\* Schedule<T>() registers the event; the interval method that the caller
\* chains to it assigns its expression, and further calls its modifiers, while
\* the ticks go on.
Schedule(e) ==
    /\ e \in AtRuntime /\ e \notin tasks /\ \A c \in Callback : at[c][e] = "none"
    /\ tasks' = tasks \cup {e} /\ bare' = bare \cup {e}
    /\ unset' = unset \cup {m \in Chained : m[2] = e}
    /\ UNCHANGED <<timing, counters, mutex, callback, at, host, ran>>

Configure(e) ==
    /\ e \in bare
    /\ bare' = bare \ {e}
    /\ UNCHANGED <<timing, counters, tasks, unset, mutex, callback, at, host, ran>>

Modify(e) ==
    /\ e \notin bare
    /\ \E m \in unset : m[2] = e /\ unset' = unset \ {m}
    /\ UNCHANGED <<timing, counters, tasks, bare, mutex, callback, at, host, ran>>

TryUnschedule(e) ==
    /\ e \in tasks \ bare
    /\ tasks' = tasks \ {e}
    /\ UNCHANGED <<timing, counters, bare, unset, mutex, callback, at, host, ran>>

-----------------------------------------------------------------------------
(* RunSchedulerPerSecondAsync. *)

\* _schedulerEnabled and DateTime.UtcNow are read before the tick lock.
TimerFires(c) ==
    /\ In(c, "idle") /\ host = "up"
    /\ callback' = [callback EXCEPT ![c].phase = "fired", ![c].now = clock]
    /\ UNCHANGED <<timing, counters, events, mutex, at, host, ran>>

TakeTicks(c) ==
    /\ In(c, "fired")
    /\ callback' = [callback EXCEPT
           ![c].phase = "ticking", ![c].now = 0,
           ![c].ticks = Append(Missed(previous, callback[c].now), callback[c].now)]
    /\ previous' = callback[c].now
    /\ UNCHANGED <<clock, counters, events, mutex, at, host, ran>>

\* RunAtAsync reads _isFirstTick outside the lock ...
RunAt(c) ==
    /\ In(c, "ticking")
    /\ active' = active + 1
    /\ callback' = [callback EXCEPT ![c].phase = IF firstTick THEN "entered" ELSE "collecting"]
    /\ UNCHANGED <<timing, firstTick, firsts, events, mutex, at, host, ran>>

\* Mutant: the tick that finds _isFirstTick set outside the lock is the first.
FirstSeen == TRUE

\* ... and again inside it.
FirstRead == firstTick

TakeFirst(c) ==
    /\ In(c, "entered")
    /\ firstTick' = FALSE
    /\ firsts' = IF FirstRead THEN firsts + 1 ELSE firsts
    /\ callback' = [callback EXCEPT ![c].phase = "collecting", ![c].first = FirstRead]
    /\ UNCHANGED <<timing, active, events, mutex, at, host, ran>>

\* RunWorkersAt.  An event without an expression throws in IsDue.
Collect(c) ==
    LET t == Head(callback[c].ticks) IN
    /\ In(c, "collecting")
    /\ IF \E e \in bare : Considered(e, t)
       THEN /\ callback' = [callback EXCEPT ![c].phase = "faulted"]
            /\ UNCHANGED <<at, ran>>
       ELSE /\ callback' = [callback EXCEPT ![c].phase = "running", ![c].first = FALSE]
            /\ at' = [at EXCEPT ![c] = [e \in Event |->
                          IF e \in Due(t, callback[c].first) THEN "due" ELSE "none"]]
            /\ ran' = ran \cup {t}
    /\ UNCHANGED <<timing, counters, events, mutex, host>>

\* Mutant: no decrement while the callback has more ticks to make up for.
ActiveInCatchUp(c) == IF Len(callback[c].ticks) > 1 THEN active ELSE active - 1

\* The decrement at the end of RunAtAsync.
ActiveAfter(c) == active - 1

EndRunAt(c) ==
    /\ In(c, "running") /\ Doing(c, "none") = Event
    /\ active' = ActiveAfter(c)
    /\ LET ticks == callback[c].ticks IN
       callback' = [callback EXCEPT ![c] =
           IF Len(ticks) = 1 THEN NoCallback
           ELSE [@ EXCEPT !.phase = "ticking", !.ticks = Tail(ticks)]]
    /\ UNCHANGED <<timing, firstTick, firsts, events, mutex, at, host, ran>>

\* The callback is an async void method: its exception ends the process.
Die(c) ==
    /\ In(c, "faulted") /\ Doing(c, "none") = Event
    /\ host' = "dead"
    /\ UNCHANGED <<timing, counters, events, mutex, callback, at, ran>>

-----------------------------------------------------------------------------
(* InvokeEvent.  A worker invokes its due events one after the other. *)

Busy(c, w) == \E e \in Event : WorkerOf[e] = w /\ at[c][e] \in {"invoked", "locked", "ended"}

\* InMemoryMutex.TryGetLock.
LockFree(e) == e \notin locked \/ e \in overdue

Invoke(c, e) ==
    /\ at[c][e] = "due" /\ ~Busy(c, WorkerOf[e])
    /\ \/ /\ Prevents(e) /\ LockFree(e)
          /\ SetStep(c, e, "locked")
          /\ locked' = locked \cup {e} /\ overdue' = overdue \ {e}
       \/ /\ ~Prevents(e)
          /\ SetStep(c, e, "invoked")
          /\ UNCHANGED <<locked, overdue>>
    /\ UNCHANGED <<timing, counters, events, overran, callback, host, ran>>

\* InvokeEvent is through with e: the worker goes on to its next event, or a
\* listener of ScheduledEventEnded or Failed, or the error handler, throws out
\* of the catch block and the worker is over.
Goes(c, e) == SetStep(c, e, "none") /\ UNCHANGED callback

Escapes(c, e) ==
    /\ Throwing
    /\ at' = [at EXCEPT ![c] = [x \in Event |->
                  IF WorkerOf[x] = WorkerOf[e] THEN "none" ELSE at[c][x]]]
    /\ callback' = [callback EXCEPT ![c].phase = "faulted"]

\* Mutant: the finally block releases also a lock that was not taken.
LockedReleased(e) == locked \ {e}

LockedKept(e) == locked

\* An event whose lock is taken is ignored, and so is one whose
\* ScheduledEventStarted makes a listener throw.
Skip(c, e) ==
    /\ at[c][e] = "due" /\ ~Busy(c, WorkerOf[e])
    /\ Throwing \/ (Prevents(e) /\ ~LockFree(e))
    /\ Goes(c, e) \/ Escapes(c, e)
    /\ locked' = LockedKept(e)
    /\ UNCHANGED <<timing, counters, events, overdue, overran, host, ran>>

\* InvokeScheduledEvent returns because its predicate fails, throws, or has
\* run the task and unschedules an event that runs once.
EndInvoke(c, e) ==
    /\ \/ at[c][e] = "locked" /\ SetStep(c, e, "ended") /\ UNCHANGED callback
       \/ at[c][e] = "invoked" /\ (Goes(c, e) \/ Escapes(c, e))
    /\ tasks' \in {tasks, IF RunsOnce(e) THEN tasks \ {e} ELSE tasks}
    /\ UNCHANGED <<timing, counters, bare, unset, mutex, host, ran>>

\* InMemoryMutex.Release does not look who holds the lock.
Release(c, e) ==
    /\ at[c][e] = "ended"
    /\ locked' = locked \ {e} /\ overdue' = overdue \ {e}
    /\ Goes(c, e) \/ Escapes(c, e)
    /\ UNCHANGED <<timing, counters, events, overran, host, ran>>

\* 24 hours pass while the execution that took the lock goes on.
LockExpires(e) ==
    /\ e \in locked \ overdue
    /\ overdue' = overdue \cup {e} /\ overran' = overran \cup {e}
    /\ UNCHANGED <<timing, counters, events, locked, callback, at, host, ran>>

-----------------------------------------------------------------------------
(* StopAsync. *)

Stop ==
    /\ host = "up"
    /\ host' = "stopping"
    /\ UNCHANGED <<timing, counters, events, mutex, callback, at, ran>>

\* IsRunning is false.
StopReturns ==
    /\ host = "stopping" /\ active = 0
    /\ host' = "stopped"
    /\ UNCHANGED <<timing, counters, events, mutex, callback, at, ran>>

-----------------------------------------------------------------------------
EventStep(c, e) == Invoke(c, e) \/ Skip(c, e) \/ EndInvoke(c, e) \/ Release(c, e)

CallbackStep(c) ==
    \/ TakeTicks(c) \/ RunAt(c) \/ TakeFirst(c) \/ Collect(c) \/ EndRunAt(c) \/ Die(c)

CallerStep(e) == Schedule(e) \/ Configure(e) \/ Modify(e) \/ TryUnschedule(e)

Next ==
    /\ host # "dead"
    /\ \/ \E c \in Callback : \/ TimerFires(c) \/ CallbackStep(c)
                              \/ \E e \in Event : EventStep(c, e)
       \/ \E e \in Event : CallerStep(e) \/ LockExpires(e)
       \/ ClockTicks \/ Stop \/ StopReturns

Spec == Init /\ [][Next]_vars

\* The thread pool runs the callbacks of the timer, and tasks end.
Fairness ==
    /\ WF_vars(host # "dead" /\ StopReturns)
    /\ \A c \in Callback :
           WF_vars(host # "dead" /\ (CallbackStep(c) \/ \E e \in Event : EventStep(c, e)))

FairSpec == Spec /\ Fairness

-----------------------------------------------------------------------------
\* Every variable has its type, and _schedulerIterationsActiveCount counts
\* the callbacks inside RunAtAsync.
TypeOK ==
    /\ clock \in 0 .. MaxTime /\ previous \in 0 .. MaxTime
    /\ firstTick \in BOOLEAN /\ firsts \in Nat
    /\ tasks \subseteq Event /\ bare \subseteq tasks /\ unset \subseteq Chained
    /\ locked \subseteq Exclusive /\ overdue \subseteq locked /\ overran \subseteq Exclusive
    /\ \A c \in Callback : /\ callback[c].phase \in Phase
                           /\ callback[c].ticks \in Seq(0 .. MaxTime)
    /\ at \in [Callback -> [Event -> Step]]
    /\ host \in {"up", "stopping", "stopped", "dead"}
    /\ active = Cardinality({c \in Callback :
                   callback[c].phase \in {"entered", "collecting", "running", "faulted"}})

\* EnsureContinuousSecondTicks: callbacks that overtake each other on their way
\* to the tick lock leave out no second that the scheduler is past.
TicksAccounted ==
    \A t \in 1 .. previous :
        \/ t \in ran
        \/ \E c \in Callback : t \in {callback[c].ticks[i] : i \in DOMAIN callback[c].ticks}

\* RunAtAsync: however many callbacks find _isFirstTick set, exactly one of
\* them runs the events of RunOnceAtStart.
OneFirstTick == firsts = IF firstTick THEN 0 ELSE 1

\* PreventOverlapping: while the execution that holds the lock is younger than
\* 24 hours, two callbacks never run the same event at the same time.  (An
\* event scheduled at run time may run before PreventOverlapping() is called;
\* such an execution takes no lock.)
NoOverlap ==
    \A e \in Exclusive \ overran :
        \A c, d \in Callback : at[c][e] = "locked" /\ at[d][e] = "locked" => c = d

\* StopAsync comes to an end, unless the process dies of an exception.
StopEnds == host = "stopping" ~> host \in {"stopped", "dead"}
=============================================================================
