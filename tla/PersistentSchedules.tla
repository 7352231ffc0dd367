------------------------- MODULE PersistentSchedules -------------------------
(***************************************************************************)
(* The persistent scheduler of Coravel.Persistence: the schedule table and *)
(* its history, the scheduler host of every instance, which polls for due  *)
(* schedules and runs them (PersistentSchedulerHost), the lock that keeps  *)
(* executions of one schedule apart (DatabaseMutex), the synchronisation   *)
(* at startup (ScheduleSyncService), SetJobActiveAsync and the recovery of *)
(* dead executions and expired locks (StaleJobRecoveryHost).               *)
(*                                                                         *)
(* Schedules and history entries are rows of one database and one save may *)
(* write both, so "rows" holds both.  The synchronisation writes schedules *)
(* without Version++, so here a save is modelled column by column.         *)
(*                                                                         *)
(* Time is kept as what the queries compare: which schedules' next time    *)
(* has come, which locks have expired and which heartbeats are too old.    *)
(***************************************************************************)
EXTENDS DbContext, FiniteSets

CONSTANTS
    Host,             \* processes; InstanceId is drawn anew by each
    NoHost,           \* a null InstanceLockId
    Client,           \* callers of SetJobActiveAsync
    Schedule,         \* schedules registered in the code of every instance
    Cron,             \* those with a cron expression; the rest has an interval
    Run,              \* ids of history entries
    MaxClaimRetries,  \* attempts of one TryGetLockAsync
    Environment       \* setups, one at a time: what may go wrong, what may overlap

\* May an execution outlive DefaultLockTimeout, or miss StaleJobTimeout while it
\* lives?  May a database call throw or lose its answer?  How many graceful
\* shutdowns, crashes and calls of SetJobActiveAsync may there be, and up to
\* which version do heartbeats write a history entry?  Which schedules are
\* without PreventOverlapping, and for which ones may CalculateNextExecution find
\* no time: their expression is malformed, its next occurrence lies in a local
\* hour that does not exist or more than a year ahead, or they have no interval?
Faults == [lateLocks : BOOLEAN, lateHeartbeats : BOOLEAN, dbErrors : BOOLEAN,
           stops : Nat, crashes : Nat, toggles : Nat, beats : Nat,
           overlap : SUBSET Schedule, timeless : SUBSET Schedule]

ASSUME PersistentSchedulesAssumption ==
    /\ Cron \subseteq Schedule
    /\ Schedule \cap Run = {} /\ NoHost \notin Host
    /\ MaxClaimRetries \in Nat \ {0}
    /\ Environment \subseteq Faults

VARIABLES
    host,     \* host[h]: "syncing", "up", "stopping" or "down"
    todo,     \* todo[h]: the schedules the synchronisation of h has not looked up
              \* yet, then the due ones its poll has read and not handled
    locking,  \* locking[h]: the schedule whose lock h tries to get, if any
    tries,    \* tries[h]: conflicts of the TryGetLockAsync in progress at h
    exec,     \* exec[e]: the execution with history id e
    due,      \* schedules whose next time has come
    expired,  \* schedules whose LockedUntilUtc has passed
    stale,    \* Running history entries whose LastHeartbeatUtc is too old
    faults    \* what may still go wrong, and which schedules are special

poll == <<todo, locking, tries>>
time == <<due, expired, stale>>
vars == <<rows, snap, host, poll, exec, time, faults>>

-----------------------------------------------------------------------------
Actor == ({"sync", "poll", "recover"} \X Host) \cup ({"exec", "beat"} \X Run)
            \cup ({"admin"} \X Client)

\* CoravelScheduledJob.  "next" is NextExecutionUtc, "none" when it is null;
\* "ran" is LastExecutionUtc # null, and the lock is held iff owner # NoHost.
ScheduleRow == [active : BOOLEAN, next : {"none", "set"}, ran : BOOLEAN,
                owner : Host \cup {NoHost}, version : Nat]

\* What CalculateNextExecution may return for an active schedule: the time that
\* was loaded, "set", or another one, "again"; null for some.
Times(s) == {"set", "again"} \cup {t \in {"none"} : s \in faults.timeless}

CalculateNextExecution(active, t) == IF active THEN t ELSE "none"

\* CoravelScheduledJobHistory.
RunRow == [status : {"Running", "Completed", "Failed"}, version : Nat]

\* An execution is about to save its history entry ("starting"), runs Invoke()
\* ("running"), has read the entry to settle it ("settling"), is to release
\* the lock ("ended") or has read the schedule to do so ("releasing").
Phase == {"starting", "running", "settling", "ended", "releasing"}
Unused == [phase |-> "unused"]
Over == [phase |-> "over"]
Execution == [phase : Phase, job : Schedule, host : Host, ok : BOOLEAN]

\* The schedules with PreventOverlapping.
Exclusive == Schedule \ faults.overlap

Live(e) == exec[e] \notin {Unused, Over}
Opened(a) == snap[a] # Nothing
Stored == DOMAIN rows \cap Schedule

ActorsOf(h) ==
    {<<"sync", h>>, <<"poll", h>>, <<"recover", h>>}
        \cup {<<k, e>> : k \in {"exec", "beat"}, e \in {r \in Run : Live(r) /\ exec[r].host = h}}

Init ==
    /\ rows = Nothing
    /\ snap = [a \in Actor |-> Nothing]
    /\ host = [h \in Host |-> "syncing"]
    /\ todo = [h \in Host |-> Schedule]
    /\ locking = [h \in Host |-> {}]
    /\ tries = [h \in Host |-> 0]
    /\ exec = [e \in Run |-> Unused]
    /\ due = {} /\ expired = {} /\ stale = {}
    /\ faults \in Environment

-----------------------------------------------------------------------------
\* The columns of cur that differ between old and new take their new values:
\* what SaveChangesAsync puts into its UPDATE statement.
Merged(cur, old, new) ==
    [f \in DOMAIN cur |->
       IF new[f] = old[f] THEN cur[f]
       ELSE IF f = "next" /\ new[f] = "again" THEN "set"
       ELSE new[f]]

\* Save of the context of a, whose tracked rows are edited to those of edited,
\* that also adds the rows of New, none of which may be in the table yet.
SaveRows(a, edited, New) ==
    /\ Unchanged(a)
    /\ DOMAIN New \cap DOMAIN rows = {}
    /\ rows' = [id \in DOMAIN rows \cup DOMAIN New |->
                  IF id \in DOMAIN New THEN New[id]
                  ELSE IF Tracks(a, id) THEN Merged(rows[id], snap[a][id], edited[id])
                  ELSE rows[id]]

\* The same for every tracked row.
SaveColumns(a, Edit(_), New) ==
    SaveRows(a, [id \in DOMAIN snap[a] |-> Edit(snap[a][id])], New)

\* The set due after CalculateNextExecution for the schedules in S: the next
\* cron occurrence and the first interval lie ahead, later intervals count
\* from LastExecutionUtc, which stays.
DueAfter(S) == due \ {s \in S : s \in Cron \/ ~rows[s].ran}

-----------------------------------------------------------------------------
(* SyncSchedulesAsync, when an instance starts. *)

NewSchedule(t) ==
    [active |-> TRUE, next |-> IF t = "none" THEN "none" ELSE "set",
     ran |-> FALSE, owner |-> NoHost, version |-> 0]

\* NextExecutionUtc of an unlocked schedule is calculated again; no Version++.
Synced(r, t) ==
    IF r.owner = NoHost THEN [r EXCEPT !.next = CalculateNextExecution(r.active, t)] ELSE r

\* One schedule after the other is looked up.
SyncRead(h) ==
    /\ host[h] = "syncing"
    /\ \E s \in todo[h] :
           /\ todo' = [todo EXCEPT ![h] = @ \ {s}]
           /\ LoadAlso(<<"sync", h>>, {s} \cap Stored)
    /\ UNCHANGED <<rows, host, locking, tries, exec, time, faults>>

\* The schedules looked up and not found; the query of the others has thrown.
ToCreate(h) == Schedule \ (todo[h] \cup DOMAIN snap[<<"sync", h>>])

LookedUp(h) == host[h] = "syncing" /\ (todo[h] = {} \/ faults.dbErrors)

\* The scheduler loop begins.
Begin(h) ==
    /\ host' = [host EXCEPT ![h] = "up"]
    /\ todo' = [todo EXCEPT ![h] = {}]
    /\ Dispose({<<"sync", h>>})
    /\ UNCHANGED <<locking, tries, exec, expired, stale, faults>>

\* All of them in one save.
SyncSave(h) ==
    LET old == snap[<<"sync", h>>] IN
    /\ LookedUp(h)
    /\ \E t \in [Schedule -> {"none", "set", "again"}] :
           /\ \A s \in Schedule : t[s] \in Times(s)
           /\ SaveRows(<<"sync", h>>, [s \in DOMAIN old |-> Synced(old[s], t[s])],
                                      [s \in ToCreate(h) |-> NewSchedule(t[s])])
           /\ due' = DueAfter({s \in DOMAIN old : old[s].owner = NoHost /\ t[s] # "none"})
    /\ Begin(h)

\* A conflict, or a schedule that another instance has just created: nothing
\* is saved, not even the new schedules, and the loop begins all the same.
SyncThrows(h) ==
    /\ LookedUp(h)
    /\ ~Unchanged(<<"sync", h>>) \/ ToCreate(h) \cap Stored # {} \/ faults.dbErrors
    /\ Begin(h)
    /\ UNCHANGED <<rows, due>>

-----------------------------------------------------------------------------
(* SetJobActiveAsync. *)

AdminRead(c, s) ==
    /\ ~Opened(<<"admin", c>>) /\ s \in Stored
    /\ faults.toggles > 0
    /\ Load(<<"admin", c>>, {s})
    /\ faults' = [faults EXCEPT !.toggles = @ - 1]
    /\ UNCHANGED <<rows, host, poll, exec, time>>

\* Mutant: Version++ is missing.
ToggledUnversioned(b, t, r) ==
    [r EXCEPT !.active = b, !.next = CalculateNextExecution(b, t)]

Toggled(b, t, r) ==
    [r EXCEPT !.active = b, !.next = CalculateNextExecution(b, t), !.version = @ + 1]

AdminSave(c) ==
    /\ Opened(<<"admin", c>>)
    /\ \E b \in BOOLEAN, s \in DOMAIN snap[<<"admin", c>>] : \E t \in Times(s) :
           LET Toggle(r) == Toggled(b, t, r) IN
           /\ SaveColumns(<<"admin", c>>, Toggle, Nothing)
           /\ due' = IF b /\ t # "none" THEN DueAfter({s}) ELSE due
    /\ Dispose({<<"admin", c>>})
    /\ UNCHANGED <<host, poll, exec, expired, stale, faults>>

AdminThrows(c) ==
    /\ Opened(<<"admin", c>>)
    /\ ~Unchanged(<<"admin", c>>) \/ faults.dbErrors
    /\ Dispose({<<"admin", c>>})
    /\ UNCHANGED <<rows, host, poll, exec, time, faults>>

-----------------------------------------------------------------------------
(* ProcessDueSchedulesAsync and TryGetLockAsync. *)

DueSchedules == {s \in Stored : rows[s].active /\ rows[s].next # "none" /\ s \in due}

\* The due schedules are read once; the loop then works on these copies.
PollRead(h) ==
    /\ host[h] = "up" /\ todo[h] = {} /\ locking[h] = {}
    /\ DueSchedules # {}
    /\ todo' = [todo EXCEPT ![h] = DueSchedules]
    /\ UNCHANGED <<store, host, locking, tries, exec, time, faults>>

\* ExecuteScheduledJobAsync is started and not awaited.
Launch(h, s) ==
    \E e \in Run :
        /\ exec[e] = Unused
        /\ exec' = [exec EXCEPT ![e] =
               [phase |-> "starting", job |-> s, host |-> h, ok |-> FALSE]]

\* The next schedule of the list, due or not by now.
PollNext(h) ==
    /\ host[h] = "up" /\ locking[h] = {}
    /\ \E s \in todo[h] :
           /\ todo' = [todo EXCEPT ![h] = @ \ {s}]
           /\ IF s \in Exclusive
              THEN locking' = [locking EXCEPT ![h] = {s}] /\ UNCHANGED exec
              ELSE Launch(h, s) /\ UNCHANGED locking
    /\ UNCHANGED <<store, host, tries, time, faults>>

\* TryGetLockAsync is over at h.
LockingOver(h) ==
    /\ locking' = [locking EXCEPT ![h] = {}]
    /\ tries' = [tries EXCEPT ![h] = 0]

Lockable(s) == rows[s].owner = NoHost \/ s \in expired

LockRead(h) ==
    /\ locking[h] # {} /\ ~Opened(<<"poll", h>>)
    /\ \A s \in locking[h] : Lockable(s)
    /\ \E e \in Run : exec[e] = Unused
    /\ Load(<<"poll", h>>, locking[h])
    /\ UNCHANGED <<rows, host, poll, exec, time, faults>>

LockTaken(h) ==
    /\ locking[h] # {} /\ ~Opened(<<"poll", h>>)
    /\ \E s \in locking[h] : ~Lockable(s)
    /\ LockingOver(h)
    /\ UNCHANGED <<store, host, todo, exec, time, faults>>

Locked(h, r) == [r EXCEPT !.owner = h, !.version = @ + 1]

LockSave(h) ==
    LET Lock(r) == Locked(h, r) IN
    /\ Opened(<<"poll", h>>)
    /\ SaveColumns(<<"poll", h>>, Lock, Nothing)
    /\ expired' = expired \ locking[h]
    /\ \E s \in locking[h] : Launch(h, s)
    /\ LockingOver(h)
    /\ Dispose({<<"poll", h>>})
    /\ UNCHANGED <<host, todo, due, stale, faults>>

\* Mutant: the retry loop has no end.
AgainAlways(n) == TRUE

\* After n conflicts and one more there is another attempt.
Again(n) == n + 1 < MaxClaimRetries

\* Another writer was first.
LockConflict(h) ==
    /\ Opened(<<"poll", h>>) /\ ~Unchanged(<<"poll", h>>)
    /\ Dispose({<<"poll", h>>})
    /\ IF Again(tries[h])
       THEN tries' = [tries EXCEPT ![h] = @ + 1] /\ UNCHANGED locking
       ELSE LockingOver(h)
    /\ UNCHANGED <<rows, host, todo, exec, time, faults>>

\* Any other exception: false, although the lock may be saved.
LockThrows(h) ==
    LET Lock(r) == Locked(h, r) IN
    /\ faults.dbErrors /\ Opened(<<"poll", h>>)
    /\ \/ UNCHANGED <<rows, expired>>
       \/ SaveColumns(<<"poll", h>>, Lock, Nothing) /\ expired' = expired \ locking[h]
    /\ LockingOver(h)
    /\ Dispose({<<"poll", h>>})
    /\ UNCHANGED <<host, todo, exec, due, stale, faults>>

-----------------------------------------------------------------------------
(* ExecuteScheduledJobAsync. *)

In(e, p) == Live(e) /\ exec[e].phase = p
Up(e) == host[exec[e].host] = "up"
Invoking(e) == In(e, "running") \/ In(e, "settling")

\* The outer finally block is reached: there is a lock to release or nothing
\* left to do.
Ended(e) == IF exec[e].job \in Exclusive THEN [exec[e] EXCEPT !.phase = "ended"] ELSE Over

StartRead(e) ==
    /\ In(e, "starting") /\ Up(e) /\ ~Opened(<<"exec", e>>)
    /\ Load(<<"exec", e>>, {exec[e].job})
    /\ UNCHANGED <<rows, host, poll, exec, time, faults>>

Started(t, r) ==
    [r EXCEPT !.next = CalculateNextExecution(r.active, t), !.ran = TRUE, !.version = @ + 1]

NewRun == [status |-> "Running", version |-> 0]

\* The history entry and the times of the schedule, in one save.
SaveStart(e) ==
    /\ Opened(<<"exec", e>>)
    /\ \E t \in Times(exec[e].job) :
           LET Start(r) == Started(t, r) IN
           /\ SaveColumns(<<"exec", e>>, Start, [r \in {e} |-> NewRun])
           /\ due' = IF t = "none" THEN due ELSE due \ {exec[e].job}

\* Invoke() begins.
StartSave(e) ==
    /\ In(e, "starting") /\ SaveStart(e)
    /\ exec' = [exec EXCEPT ![e].phase = "running"]
    /\ Dispose({<<"exec", e>>})
    /\ UNCHANGED <<host, poll, expired, stale, faults>>

\* A conflict, an error or the shutdown: this occurrence is not executed now,
\* or never if the error hides a save that took effect.
StartThrows(e) ==
    /\ In(e, "starting")
    /\ \/ /\ ~Up(e) \/ faults.dbErrors \/ (Opened(<<"exec", e>>) /\ ~Unchanged(<<"exec", e>>))
          /\ UNCHANGED <<rows, due>>
       \/ faults.dbErrors /\ SaveStart(e)
    /\ exec' = [exec EXCEPT ![e] = Ended(e)]
    /\ Dispose({<<"exec", e>>})
    /\ UNCHANGED <<host, poll, expired, stale, faults>>

\* Invoke() returns, throws or times out, and UpdateHistoryAsync reads the
\* entry, by its id only.
SettleRead(e) ==
    /\ In(e, "running") /\ Up(e)
    /\ Load(<<"exec", e>>, {e})
    /\ \E b \in BOOLEAN :
           exec' = [exec EXCEPT ![e].phase = "settling", ![e].ok = b]
    /\ UNCHANGED <<rows, host, poll, time, faults>>

Settled(b, r) == [r EXCEPT !.status = IF b THEN "Completed" ELSE "Failed",
                           !.version = @ + 1]

\* The execution reaches its finally blocks: the heartbeat is over, too.
Finish(e) ==
    /\ exec' = [exec EXCEPT ![e] = Ended(e)]
    /\ Dispose({<<"exec", e>>, <<"beat", e>>})

SettleSave(e) ==
    LET Settle(r) == Settled(exec[e].ok, r) IN
    /\ In(e, "settling")
    /\ SaveColumns(<<"exec", e>>, Settle, Nothing)
    /\ Finish(e)
    /\ UNCHANGED <<host, poll, time, faults>>

\* UpdateHistoryAsync swallows its exceptions: the entry stays Running.
SettleThrows(e) ==
    /\ In(e, "settling")
    /\ ~Unchanged(<<"exec", e>>) \/ faults.dbErrors \/ ~Up(e)
    /\ Finish(e)
    /\ UNCHANGED <<rows, host, poll, time, faults>>

\* Invoke() ends during the shutdown: the entry stays Running.
Interrupted(e) ==
    /\ In(e, "running") /\ ~Up(e)
    /\ Finish(e)
    /\ UNCHANGED <<rows, host, poll, time, faults>>

BeatRead(e) ==
    /\ Invoking(e) /\ Up(e) /\ ~Opened(<<"beat", e>>)
    /\ rows[e].status = "Running" /\ rows[e].version < faults.beats
    /\ Load(<<"beat", e>>, {e})
    /\ UNCHANGED <<rows, host, poll, exec, time, faults>>

Beaten(r) == [r EXCEPT !.version = @ + 1]

BeatSave(e) ==
    /\ Opened(<<"beat", e>>)
    /\ SaveColumns(<<"beat", e>>, Beaten, Nothing)
    /\ stale' = stale \ {e}
    /\ Dispose({<<"beat", e>>})
    /\ UNCHANGED <<host, poll, exec, due, expired, faults>>

BeatThrows(e) ==
    /\ Opened(<<"beat", e>>)
    /\ ~Unchanged(<<"beat", e>>) \/ faults.dbErrors \/ ~Up(e)
    /\ Dispose({<<"beat", e>>})
    /\ UNCHANGED <<rows, host, poll, exec, time, faults>>

-----------------------------------------------------------------------------
(* ReleaseLockAsync: the lock of the instance, not of the execution. *)

OwnLock(h, s) == rows[s].owner = h

ReleaseRead(e) ==
    /\ In(e, "ended") /\ OwnLock(exec[e].host, exec[e].job)
    /\ Load(<<"exec", e>>, {exec[e].job})
    /\ exec' = [exec EXCEPT ![e].phase = "releasing"]
    /\ UNCHANGED <<rows, host, poll, time, faults>>

\* The lock is not this instance's any more.
ReleaseNothing(e) ==
    /\ In(e, "ended") /\ ~OwnLock(exec[e].host, exec[e].job)
    /\ exec' = [exec EXCEPT ![e] = Over]
    /\ UNCHANGED <<store, host, poll, time, faults>>

\* Mutant: Version++ is missing.
UnlockedUnversioned(r) == [r EXCEPT !.owner = NoHost]

Unlocked(r) == [r EXCEPT !.owner = NoHost, !.version = @ + 1]

ReleaseSave(e) ==
    /\ In(e, "releasing")
    /\ SaveColumns(<<"exec", e>>, Unlocked, Nothing)
    /\ expired' = expired \ {exec[e].job}
    /\ exec' = [exec EXCEPT ![e] = Over]
    /\ Dispose({<<"exec", e>>})
    /\ UNCHANGED <<host, poll, due, stale, faults>>

\* Ignored: the lock stays as it is.
ReleaseThrows(e) ==
    /\ In(e, "releasing")
    /\ ~Unchanged(<<"exec", e>>) \/ faults.dbErrors
    /\ exec' = [exec EXCEPT ![e] = Over]
    /\ Dispose({<<"exec", e>>})
    /\ UNCHANGED <<rows, host, poll, time, faults>>

-----------------------------------------------------------------------------
(* RecoverStaleScheduledJobsAsync. *)

\* Mutant: Running entries, stale or not.
RunningRuns == {e \in DOMAIN rows \cap Run : rows[e].status = "Running"}

StaleRuns == {e \in DOMAIN rows \cap Run : rows[e].status = "Running" /\ e \in stale}

\* Mutant: all locks.
AllLocks == {s \in Stored : rows[s].owner # NoHost}

StaleLocks == {s \in Stored : rows[s].owner # NoHost /\ s \in expired}

RecoverRead(h) ==
    /\ host[h] = "up" /\ ~Opened(<<"recover", h>>)
    /\ StaleRuns \cup StaleLocks # {}
    /\ Load(<<"recover", h>>, StaleRuns \cup StaleLocks)
    /\ UNCHANGED <<rows, host, poll, exec, time, faults>>

\* Entries fail and locks are released.
Recovered(r) == IF "status" \in DOMAIN r THEN Settled(FALSE, r) ELSE Unlocked(r)

RecoverSave(h) ==
    /\ Opened(<<"recover", h>>)
    /\ SaveColumns(<<"recover", h>>, Recovered, Nothing)
    /\ expired' = expired \ DOMAIN snap[<<"recover", h>>]
    /\ Dispose({<<"recover", h>>})
    /\ UNCHANGED <<host, poll, exec, due, stale, faults>>

RecoverThrows(h) ==
    /\ Opened(<<"recover", h>>)
    /\ ~Unchanged(<<"recover", h>>) \/ faults.dbErrors \/ host[h] # "up"
    /\ Dispose({<<"recover", h>>})
    /\ UNCHANGED <<rows, host, poll, exec, time, faults>>

-----------------------------------------------------------------------------
(* Instances stop and crash; time passes. *)

\* The stopping token is cancelled: the list of the poll is dropped, a
\* TryGetLockAsync in progress goes on, a synchronisation is abandoned.
Stop(h) ==
    /\ host[h] \in {"syncing", "up"} /\ faults.stops > 0
    /\ host' = [host EXCEPT ![h] = "stopping"]
    /\ todo' = [todo EXCEPT ![h] = {}]
    /\ Dispose({<<"sync", h>>})
    /\ faults' = [faults EXCEPT !.stops = @ - 1]
    /\ UNCHANGED <<rows, locking, tries, exec, time>>

Gone(h) ==
    /\ host' = [host EXCEPT ![h] = "down"]
    /\ todo' = [todo EXCEPT ![h] = {}]
    /\ LockingOver(h)
    /\ exec' = [e \in Run |-> IF Live(e) /\ exec[e].host = h THEN Over ELSE exec[e]]
    /\ Dispose(ActorsOf(h))
    /\ UNCHANGED <<rows, time>>

\* The host waits for its loop, not for the executions it has started.
Exit(h) ==
    /\ host[h] = "stopping"
    /\ Gone(h)
    /\ UNCHANGED faults

Crash(h) ==
    /\ host[h] \in {"syncing", "up"} /\ faults.crashes > 0
    /\ Gone(h)
    /\ faults' = [faults EXCEPT !.crashes = @ - 1]

NextTimeComes(s) ==
    /\ s \in Stored /\ s \notin due
    /\ due' = due \cup {s}
    /\ UNCHANGED <<store, host, poll, exec, expired, stale, faults>>

\* An execution that relies on the lock of s.
Holds(e, s) == Live(e) /\ exec[e].job = s /\ s \in Exclusive

\* Mutant: a lock is taken without a limit.
LockNeverExpires(s) == FALSE

LockExpires(s) ==
    /\ s \in Stored /\ s \notin expired /\ rows[s].owner # NoHost
    /\ faults.lateLocks \/ ~\E e \in Run : Holds(e, s) /\ exec[e].host = rows[s].owner
    /\ expired' = expired \cup {s}
    /\ UNCHANGED <<store, host, poll, exec, due, stale, faults>>

Beating(e) == Invoking(e) /\ Up(e)

\* Mutant: LastHeartbeatUtc is null until the first heartbeat.
BeatenHeartbeatExpires(e) ==
    /\ e \in DOMAIN rows /\ e \notin stale /\ rows[e].status = "Running"
    /\ rows[e].version > 0 /\ (faults.lateHeartbeats \/ ~Beating(e))
    /\ stale' = stale \cup {e}
    /\ UNCHANGED <<store, host, poll, exec, due, expired, faults>>

HeartbeatExpires(e) ==
    /\ e \in DOMAIN rows /\ e \notin stale /\ rows[e].status = "Running"
    /\ faults.lateHeartbeats \/ ~Beating(e)
    /\ stale' = stale \cup {e}
    /\ UNCHANGED <<store, host, poll, exec, due, expired, faults>>

-----------------------------------------------------------------------------
SyncStep(h) == SyncRead(h) \/ SyncSave(h) \/ SyncThrows(h)

AdminStep(c) == (\E s \in Schedule : AdminRead(c, s)) \/ AdminSave(c) \/ AdminThrows(c)

PollStep(h) ==
    \/ PollRead(h) \/ PollNext(h) \/ LockRead(h) \/ LockTaken(h)
    \/ LockSave(h) \/ LockConflict(h) \/ LockThrows(h)

ExecStep(e) ==
    \/ StartRead(e) \/ StartSave(e) \/ StartThrows(e)
    \/ SettleRead(e) \/ SettleSave(e) \/ SettleThrows(e) \/ Interrupted(e)
    \/ ReleaseRead(e) \/ ReleaseNothing(e) \/ ReleaseSave(e) \/ ReleaseThrows(e)

BeatStep(e) == BeatRead(e) \/ BeatSave(e) \/ BeatThrows(e)

RecoverStep(h) == RecoverRead(h) \/ RecoverSave(h) \/ RecoverThrows(h)

HostStep(h) == Stop(h) \/ Exit(h) \/ Crash(h)

Next ==
    \/ \E h \in Host : SyncStep(h) \/ PollStep(h) \/ RecoverStep(h) \/ HostStep(h)
    \/ \E c \in Client : AdminStep(c)
    \/ \E e \in Run : ExecStep(e) \/ BeatStep(e) \/ HeartbeatExpires(e)
    \/ \E s \in Schedule : NextTimeComes(s) \/ LockExpires(s)

Spec == Init /\ [][Next]_vars

-----------------------------------------------------------------------------
(* Fairness: loops go on, Invoke() ends, database calls are answered, stopped *)
(* processes exit, new ones are started, locks and heartbeats of the dead     *)
(* expire.  Nothing is assumed of administrators or of the next times.        *)
Fairness ==
    /\ \A h \in Host : /\ WF_vars(SyncStep(h))
                       /\ WF_vars(PollStep(h))
                       /\ WF_vars(RecoverStep(h))
                       /\ WF_vars(Exit(h))
    /\ \A e \in Run : /\ WF_vars(ExecStep(e))
                      /\ WF_vars(BeatSave(e) \/ BeatThrows(e))
                      /\ WF_vars(HeartbeatExpires(e) /\ ~Beating(e))
    /\ \A s \in Schedule :
           WF_vars(LockExpires(s) /\ ~\E e \in Run : Holds(e, s))

FairSpec == Spec /\ Fairness

-----------------------------------------------------------------------------
\* Every variable has its type; contexts hold stored rows, and an execution
\* that has started has its history entry.
TypeOK ==
    /\ DOMAIN rows \subseteq Schedule \cup Run
    /\ \A s \in Stored : rows[s] \in ScheduleRow
    /\ \A e \in DOMAIN rows \cap Run : rows[e] \in RunRow
    /\ DOMAIN snap = Actor
    /\ \A a \in Actor : DOMAIN snap[a] \subseteq DOMAIN rows
    /\ host \in [Host -> {"syncing", "up", "stopping", "down"}]
    /\ todo \in [Host -> SUBSET Schedule] /\ locking \in [Host -> SUBSET Exclusive]
    /\ tries \in [Host -> 0 .. MaxClaimRetries - 1]
    /\ exec \in [Run -> {Unused, Over} \cup Execution]
    /\ \A e \in Run : Invoking(e) => e \in DOMAIN rows
    /\ due \subseteq Schedule /\ expired \subseteq Schedule /\ stale \subseteq Run
    /\ faults \in Faults

\* What the Version of a schedule protects although the synchronisation writes
\* rows without Version++: a context whose rows still carry the Version it
\* loaded knows who holds the lock and whether the schedule is active.
ContextsKnowLockAndActivity ==
    \A a \in Actor : \A s \in DOMAIN snap[a] \cap Schedule :
        snap[a][s].version = rows[s].version =>
            /\ snap[a][s].owner = rows[s].owner
            /\ snap[a][s].active = rows[s].active

\* A deactivated schedule has no NextExecutionUtc, and an active one has: no
\* execution or synchronisation in flight sets it again or takes it away, as
\* long as CalculateNextExecution finds a time.
TimedIffActive ==
    \A s \in Stored \ faults.timeless : rows[s].next = IF rows[s].active THEN "set" ELSE "none"

\* A history entry that is settled stays as it is as long as heartbeats are
\* in time: the execution and the recovery never both settle it.
SettledIsFinal ==
    [][\A e \in DOMAIN rows \cap Run :
           (rows[e].status # "Running" /\ ~faults.lateHeartbeats)
              => rows'[e].status = rows[e].status]_rows

\* PreventOverlapping: while no execution outlives DefaultLockTimeout, at most
\* one Invoke() of an exclusive schedule is in progress, on all instances.
NoOverlap ==
    \A d, e \in Run :
        (/\ d # e /\ Invoking(d) /\ Invoking(e) /\ exec[d].job = exec[e].job
         /\ ~faults.lateLocks) => exec[d].job \notin Exclusive

\* Neither a crash nor a lost release keeps a due schedule from running for
\* ever (until the bounded ids of history entries are used up).
DueIsExecuted ==
    \A s \in Schedule :
        s \in DueSchedules ~> s \notin DueSchedules \/ \A e \in Run : exec[e] # Unused

\* Every history entry is settled, by its execution or by the recovery.
EveryRunSettles ==
    \A e \in Run :
        e \in DOMAIN rows ~> (e \in DOMAIN rows /\ rows[e].status # "Running")

=============================================================================
