---------------------------- MODULE ScheduleTimes ----------------------------
(***************************************************************************)
(* NextExecutionUtc of one persistent schedule: ScheduleSyncService        *)
(* computes it when an instance starts, PersistentScheduler when the       *)
(* schedule is activated and PersistentSchedulerHost when it is executed.  *)
(* Cron expressions are read in the local time of the schedule's zone,     *)
(* whose offset changes once: in spring an hour of local times does not    *)
(* exist, in autumn one exists twice.                                      *)
(*                                                                         *)
(* Time is counted in minutes of UTC.  The calendar is scaled down by      *)
(* Sizes; months and years do not pass.                                    *)
(***************************************************************************)
EXTENDS Cron

CONSTANTS
    Rules,    \* cron expressions and intervals a schedule may have
    Zones,    \* kinds of zones: "utc", "spring" and "autumn"
    Change,   \* the minute at which the offset changes
    Horizon,  \* how far FindNextCronOccurrence looks ahead: a year
    MaxTime,  \* bound on the clock
    Null,     \* no time, no interval
    Endless   \* the calculation never returns

ASSUME ScheduleTimesAssumption ==
    /\ Zones \subseteq {"utc", "spring", "autumn"}
    /\ Change \in Nat /\ Horizon \in Nat /\ MaxTime \in Nat
    /\ Null \notin Int /\ Endless \notin Int /\ Null # Endless
    /\ \A r \in Rules : IF "cron" \in DOMAIN r THEN r.cron \in [Field -> Part]
                       ELSE r.interval \in Int \cup {Null}

VARIABLES
    now,       \* DateTime.UtcNow
    zone,      \* TimeZoneId
    rule,      \* CronExpression or IntervalSeconds, or neither
    active,    \* IsActive
    locked,    \* InstanceLockId # null
    last,      \* LastExecutionUtc
    next,      \* NextExecutionUtc
    computed   \* history: when next was computed

row == <<zone, rule, active, locked, last, next, computed>>
schedule == <<now, row>>

ByCron(e) == [cron |-> e]
ByInterval(n) == [interval |-> n]
IsCron(r) == "cron" \in DOMAIN r

-----------------------------------------------------------------------------
(* TimeZoneInfo and the calendar. *)

Hour == Sizes[1]
Day == Sizes[1] * Sizes[2]

\* UTC plus an hour in summer.
Offset(u) ==
    CASE zone = "utc"    -> 0
      [] zone = "spring" -> IF u < Change THEN 0 ELSE Hour
      [] zone = "autumn" -> IF u < Change THEN Hour ELSE 0

ToLocal(u) == u + Offset(u)

\* The UTC times of a local time: none in the gap, two in the overlap.
ToUtc(l) == {u \in {l - Hour, l} : ToLocal(u) = l}

Fields(l) == <<l % Hour, (l \div Hour) % Sizes[2], 1 + ((l \div Day) % Sizes[3]),
               1, (l \div Day) % Sizes[5]>>

-----------------------------------------------------------------------------
\* Mutants: the search starts with the current minute, or one too late.
CandidatesFromNow(l) == l .. l + Horizon - 1
CandidatesFromSecond(l) == l + 2 .. l + Horizon - 1

\* The minutes FindNextCronOccurrence tries.
Candidates(l) == l + 1 .. l + Horizon - 1

\* The search ends with the first local time after now that is not found undue:
\* with an exception, which CalculateNextExecution turns into null, or never,
\* if the expression is not due but malformed there.
FindNextCronOccurrence ==
    LET ends == {l \in Candidates(ToLocal(now)) : IsDue(rule.cron, Fields(l)) # "not"}
        Found(l) == CASE IsDue(rule.cron, Fields(l)) = "due"    -> l
                      [] IsDue(rule.cron, Fields(l)) = "throws" -> Null
                      [] IsDue(rule.cron, Fields(l)) = "hangs"  -> Endless
    IN  IF ends = {} THEN Null ELSE Found(Min(ends))

\* Mutant: an ambiguous local time is refused, too.
ConvertedStrictly(l) == IF Cardinality(ToUtc(l)) # 1 THEN Null ELSE Max(ToUtc(l))

\* ConvertTimeToUtc throws in the gap, and the exception is caught; in the
\* overlap it assumes standard time, the later of the two.
Converted(l) == IF ToUtc(l) = {} THEN Null ELSE Max(ToUtc(l))

\* Mutant: an interval starts with the time of the calculation.
IntervalBaseNow(ran) == now

\* LastExecutionUtc ?? now
IntervalBase(ran) == IF ran = Null THEN now ELSE ran

\* The expression is validated at the time of UTC, and searched in local time.
NextOccurrence ==
    CASE Validation(rule.cron, Fields(now)) = "valid"  ->
             LET l == FindNextCronOccurrence IN IF l \in {Null, Endless} THEN l ELSE Converted(l)
      [] Validation(rule.cron, Fields(now)) = "throws" -> Null
      [] Validation(rule.cron, Fields(now)) = "hangs"  -> Endless

CalculateNextExecution(on, ran) ==
    IF ~on THEN Null
    ELSE IF IsCron(rule) THEN NextOccurrence
    ELSE IF rule.interval = Null THEN Null
    ELSE IntervalBase(ran) + rule.interval

\* A calculation that never returns saves nothing.
Recalculate(on, ran) ==
    /\ CalculateNextExecution(on, ran) # Endless
    /\ next' = CalculateNextExecution(on, ran)
    /\ computed' = now

-----------------------------------------------------------------------------
\* The first synchronisation creates the row.
InitSchedule ==
    /\ now = 0
    /\ zone \in Zones
    /\ rule \in Rules
    /\ active = TRUE /\ locked = FALSE
    /\ last = Null
    /\ next = CalculateNextExecution(TRUE, Null) /\ next # Endless
    /\ computed = 0

Tick ==
    /\ now < MaxTime
    /\ now' = now + 1
    /\ UNCHANGED row

IsDueNow == active /\ next # Null /\ next <= now

\* ExecuteScheduledJobAsync, under the lock if PreventOverlapping is set.  The
\* calculation comes before the save, and the job after it.
Execute ==
    /\ IsDueNow /\ ~locked
    /\ locked' \in BOOLEAN
    /\ \/ last' = now /\ Recalculate(TRUE, now)
       \/ CalculateNextExecution(TRUE, now) = Endless /\ UNCHANGED <<last, next, computed>>
    /\ UNCHANGED <<now, zone, rule, active>>

\* The execution ends and releases its lock, or the lock expires.
Release ==
    /\ locked
    /\ locked' = FALSE
    /\ UNCHANGED <<now, zone, rule, active, last, next, computed>>

\* Another instance starts.
Sync ==
    /\ ~locked
    /\ Recalculate(active, last)
    /\ UNCHANGED <<now, zone, rule, active, locked, last>>

\* SetJobActiveAsync
SetJobActive(b) ==
    /\ active' = b
    /\ Recalculate(b, last)
    /\ UNCHANGED <<now, zone, rule, locked, last>>

NextSchedule == Tick \/ Execute \/ Release \/ Sync \/ \E b \in BOOLEAN : SetJobActive(b)

-----------------------------------------------------------------------------
(* What the next time has to be, told by the instants of UTC. *)

Occurs(u) == IsDue(rule.cron, Fields(ToLocal(u))) = "due"
Ambiguous(u) == Cardinality(ToUtc(ToLocal(u))) = 2

\* NextExecutionUtc is an occurrence of the expression, and none lies between
\* its calculation and it, but for those in the hour that occurs twice: they
\* are taken to be in standard time.
NextIsFirstOccurrence ==
    (IsCron(rule) /\ next # Null) =>
        /\ Occurs(next) /\ next > computed
        /\ \A u \in computed + 1 .. next - 1 : Occurs(u) => Ambiguous(u)

\* An active schedule has a next time, or it will not be executed again until
\* an instance is started.  With an interval it always has one.  A well-formed
\* expression is left without one by two things only: no occurrence within a
\* year, and a first occurrence in the local hour that does not exist.  (The
\* others lose it with the first evaluation that throws.)
ActiveHasNext ==
    (active /\ next = Null) =>
        LET l == ToLocal(computed)
            Hits(m) == IsDue(rule.cron, Fields(m)) = "due"
        IN  IF ~IsCron(rule) THEN rule.interval = Null
            ELSE (\A i \in Field : WellFormed(rule.cron[i])) =>
                 \/ ~\E m \in l + 1 .. l + Horizon - 1 : Hits(m)
                 \/ \E m \in l + 1 .. l + Horizon - 1 :
                        Hits(m) /\ ToUtc(m) = {} /\ \A k \in l + 1 .. m - 1 : ~Hits(k)

\* Starting instances never postpone an interval schedule that has run: its
\* next time stays one interval after its last execution.
SyncKeepsInterval ==
    [][(Sync /\ ~IsCron(rule) /\ active /\ last # Null) => next' = next]_schedule

-----------------------------------------------------------------------------
\* IPersistentScheduler.cs, EveryMinute: "Schedule to run every minute."  As
\* long as such a schedule is active there is a minute at which it runs next.
EveryMinuteGoesOn ==
    (active /\ IsCron(rule)) =>
        (rule.cron = [i \in Field |-> Star] => next # Null)
=============================================================================
