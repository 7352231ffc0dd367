--------------------------- MODULE PersistentJobs ---------------------------
(***************************************************************************)
(* The persistent job queue of Coravel.Persistence: the job table, the     *)
(* clients that enqueue and cancel jobs (PersistentQueue), the job host of *)
(* every application instance that claims, runs and settles jobs           *)
(* (PersistentJobHost, JobClaimService) and the stale-job recovery of      *)
(* every instance (StaleJobRecoveryHost).  Every database access is a read *)
(* step and a later write step, so all interleavings between instances,    *)
(* heartbeats, recovery and clients are explored.                          *)
(*                                                                         *)
(* Time is kept as what the queries compare: whether a heartbeat is older  *)
(* than StaleJobTimeout, whether NextRetryAtUtc lies in the future and     *)
(* whether a row is younger than the idempotency window of 24 hours.       *)
(***************************************************************************)
EXTENDS DbContext, FiniteSets

CONSTANTS
    Host,             \* application instances
    Slot,             \* the permits of one instance's concurrency limiter
    Client,           \* callers of IPersistentQueue
    Job,              \* job ids
    Key, NoKey,       \* idempotency keys, and a job without one
    NoHost,           \* a null InstanceId
    Priority,         \* priorities in use
    MaxAttempts,      \* MaxRetries + 1
    MaxClaimRetries,  \* attempts of one ClaimNextJobAsync
    Environment,      \* what may go wrong: one of these at a time
    MaxVersion        \* bound on the versions heartbeats produce

\* May a live instance miss StaleJobTimeout?  May a database call throw or lose
\* its answer?  How many graceful shutdowns and crashes may there be?
Faults == [lateHeartbeats : BOOLEAN, dbErrors : BOOLEAN, stops : Nat, crashes : Nat]

ASSUME PersistentJobsAssumption ==
    /\ MaxAttempts \in Nat \ {0}
    /\ MaxClaimRetries \in Nat \ {0}
    /\ Environment \subseteq Faults /\ MaxVersion \in Nat
    /\ Priority \subseteq Nat
    /\ NoKey \notin Key /\ NoHost \notin Host

VARIABLES
    host,      \* host[h]: "up", "stopping" (stopping token cancelled) or "down"
    tries,     \* tries[h]: conflicts of the claim in progress at h
    exec,      \* exec[w]: the execution that holds permit w
    enqueuing, \* enqueuing[c]: the key c has checked and not yet inserted
    stale,     \* Running jobs whose LastHeartbeatUtc is too old
    waiting,   \* jobs whose NextRetryAtUtc is in the future
    recent,    \* jobs with a key created in the last 24 hours
    faults     \* what may still go wrong

vars == <<rows, snap, host, tries, exec, enqueuing, stale, waiting, recent, faults>>
time == <<stale, waiting, recent>>

-----------------------------------------------------------------------------
Worker == Host \X Slot

\* Every activity that opens database contexts of its own.
Actor == ({"claim", "recover"} \X Host) \cup ({"work", "beat"} \X Worker)
            \cup ({"client"} \X Client)

Status == {"Pending", "Running", "Completed", "Failed", "Cancelled"}
Terminal == {"Completed", "Failed", "Cancelled"}

\* CoravelJobHistory.  "completed" is CompletedAtUtc # null and "created"
\* the rank of CreatedAtUtc.
Row == [status : Status, attempts : Nat, owner : Host \cup {NoHost},
        completed : BOOLEAN, key : Key \cup {NoKey}, priority : Priority,
        created : Nat, version : Nat]

\* An execution is waiting for Invoke() ("running"), has read the row to
\* complete it ("completing"), has caught an exception ("threw") or has read
\* the row to fail it ("failing").  "ok": Invoke() returned without throwing.
Phase == {"running", "completing", "threw", "failing"}
Idle == [phase |-> "idle"]
Execution == [phase : Phase, job : Job, attempt : Nat, ok : BOOLEAN]

Busy(w) == exec[w] # Idle
Up(w) == host[w[1]] = "up"
Opened(a) == snap[a] # Nothing

WorkerActors(w) == {<<"work", w>>, <<"beat", w>>}
ActorsOf(h) == {<<"claim", h>>, <<"recover", h>>}
                 \cup UNION {WorkerActors(<<h, s>>) : s \in Slot}

Init ==
    /\ rows = Nothing
    /\ snap = [a \in Actor |-> Nothing]
    /\ host = [h \in Host |-> "up"]
    /\ tries = [h \in Host |-> 0]
    /\ exec = [w \in Worker |-> Idle]
    /\ enqueuing = [c \in Client |-> {}]
    /\ stale = {} /\ waiting = {} /\ recent = {}
    /\ faults \in Environment

-----------------------------------------------------------------------------
(* PersistentQueue: clients. *)

\* Mutant: only a queued job blocks, not one that runs or has run.
BlocksWhilePending(j, k) ==
    rows[j].key = k /\ rows[j].status = "Pending" /\ j \in recent

\* A row that makes EnqueueJobAsync return its id instead of inserting.
Blocks(j, k) ==
    /\ rows[j].key = k
    /\ rows[j].status \notin {"Failed", "Cancelled"}
    /\ j \in recent

\* EnqueueJobAsync up to the idempotency query; a job without a key skips it.
EnqueueCheck(c, k) ==
    /\ enqueuing[c] = {} /\ ~Opened(<<"client", c>>)
    /\ k # NoKey => ~\E j \in DOMAIN rows : Blocks(j, k)
    /\ enqueuing' = [enqueuing EXCEPT ![c] = {k}]
    /\ UNCHANGED <<rows, snap, host, tries, exec, time, faults>>

NewJob(k, p) ==
    [status |-> "Pending", attempts |-> 0, owner |-> NoHost, completed |-> FALSE,
     key |-> k, priority |-> p, created |-> Cardinality(DOMAIN rows), version |-> 0]

\* The rest of EnqueueJobAsync: add a row under a new Guid and save.
EnqueueInsert(c) ==
    /\ \E k \in enqueuing[c], p \in Priority, j \in Job :
           /\ Insert(j, NewJob(k, p))
           /\ recent' = IF k = NoKey THEN recent ELSE recent \cup {j}
    /\ enqueuing' = [enqueuing EXCEPT ![c] = {}]
    /\ UNCHANGED <<snap, host, tries, exec, stale, waiting, faults>>

\* Mutant: CancelJobAsync finds the job by its id only.
CancellableAlways(j) == TRUE

Cancellable(j) == rows[j].status = "Pending"

CancelRead(c, j) ==
    /\ enqueuing[c] = {} /\ ~Opened(<<"client", c>>)
    /\ j \in DOMAIN rows /\ Cancellable(j)
    /\ Load(<<"client", c>>, {j})
    /\ UNCHANGED <<rows, host, tries, exec, enqueuing, time, faults>>

\* Mutant: Version++ is missing.
CancelledUnversioned(r) == [r EXCEPT !.status = "Cancelled", !.completed = TRUE]

Cancelled(r) == [r EXCEPT !.status = "Cancelled", !.completed = TRUE,
                          !.version = @ + 1]

CancelSave(c) ==
    /\ Opened(<<"client", c>>)
    /\ Save(<<"client", c>>, Cancelled)
    /\ Dispose({<<"client", c>>})
    /\ UNCHANGED <<host, tries, exec, enqueuing, time, faults>>

\* The conflict or the database error reaches the caller of CancelJobAsync.
CancelThrows(c) ==
    /\ Opened(<<"client", c>>)
    /\ ~Unchanged(<<"client", c>>) \/ faults.dbErrors
    /\ Dispose({<<"client", c>>})
    /\ UNCHANGED <<rows, host, tries, exec, enqueuing, time, faults>>

-----------------------------------------------------------------------------
(* ProcessAvailableJobsAsync and ClaimNextJobAsync. *)

Available == {j \in DOMAIN rows : rows[j].status = "Pending" /\ j \notin waiting}

\* OrderBy(Priority).ThenBy(CreatedAtUtc)
Before(j, k) ==
    \/ rows[j].priority < rows[k].priority
    \/ rows[j].priority = rows[k].priority /\ rows[j].created <= rows[k].created

HasPermit(h) == \E s \in Slot : ~Busy(<<h, s>>)

ClaimRead(h) ==
    /\ host[h] = "up" /\ HasPermit(h) /\ ~Opened(<<"claim", h>>)
    /\ \E j \in Available :
           /\ \A k \in Available : Before(j, k)
           /\ Load(<<"claim", h>>, {j})
    /\ UNCHANGED <<rows, host, tries, exec, enqueuing, time, faults>>

\* A retry of the claim finds no row: null, and the retry count is forgotten.
ClaimNothing(h) ==
    /\ host[h] = "up" /\ ~Opened(<<"claim", h>>)
    /\ tries[h] > 0 /\ Available = {}
    /\ tries' = [tries EXCEPT ![h] = 0]
    /\ UNCHANGED <<store, host, exec, enqueuing, time, faults>>

Claimed(h, r) == [r EXCEPT !.status = "Running", !.owner = h,
                           !.attempts = @ + 1, !.version = @ + 1]

\* The claim is saved.  ProcessJobAsync takes a permit and starts the job at
\* once, unless the stopping token was cancelled meanwhile: then the job stays
\* Running with nobody executing it.
ClaimSave(h) ==
    LET Claim(r) == Claimed(h, r) IN
    /\ host[h] # "down" /\ Opened(<<"claim", h>>)
    /\ Save(<<"claim", h>>, Claim)
    /\ Dispose({<<"claim", h>>})
    /\ tries' = [tries EXCEPT ![h] = 0]
    /\ \E j \in DOMAIN snap[<<"claim", h>>] :
           /\ stale' = stale \ {j}
           /\ IF host[h] = "up"
              THEN \E s \in Slot :
                     /\ ~Busy(<<h, s>>)
                     /\ exec' = [exec EXCEPT ![<<h, s>>] =
                            [phase |-> "running", job |-> j, ok |-> FALSE,
                             attempt |-> snap[<<"claim", h>>][j].attempts + 1]]
              ELSE UNCHANGED exec
    /\ UNCHANGED <<host, enqueuing, waiting, recent, faults>>

\* Mutant: the retry loop has no end.
NextTryUnbounded(n) == n + 1

\* Conflicts counted after one more; the last one ends the loop with null.
NextTry(n) == (n + 1) % MaxClaimRetries

\* Another actor wrote the row first, or the call failed without effect.
ClaimConflict(h) ==
    /\ host[h] # "down" /\ Opened(<<"claim", h>>)
    /\ ~Unchanged(<<"claim", h>>) \/ faults.dbErrors \/ host[h] = "stopping"
    /\ Dispose({<<"claim", h>>})
    /\ tries' = [tries EXCEPT ![h] = NextTry(@)]
    /\ UNCHANGED <<rows, host, exec, enqueuing, time, faults>>

\* The claim is stored and its answer lost: the loop goes on to another job,
\* and this one stays Running with nobody executing it.
ClaimLost(h) ==
    LET Claim(r) == Claimed(h, r) IN
    /\ host[h] # "down" /\ Opened(<<"claim", h>>)
    /\ faults.dbErrors
    /\ Save(<<"claim", h>>, Claim)
    /\ Dispose({<<"claim", h>>})
    /\ tries' = [tries EXCEPT ![h] = NextTry(@)]
    /\ \E j \in DOMAIN snap[<<"claim", h>>] : stale' = stale \ {j}
    /\ UNCHANGED <<host, exec, enqueuing, waiting, recent, faults>>

-----------------------------------------------------------------------------
(* ProcessJobAsync. *)

\* The permit is released and the heartbeat of the execution is over.
Release(w) ==
    /\ exec' = [exec EXCEPT ![w] = Idle]
    /\ Dispose(WorkerActors(w))

\* Invoke() returns and CompleteJobAsync reads the row, by its id only.
CompleteRead(w) ==
    /\ Busy(w) /\ Up(w) /\ exec[w].phase = "running"
    /\ Load(<<"work", w>>, {exec[w].job})
    /\ exec' = [exec EXCEPT ![w].phase = "completing", ![w].ok = TRUE]
    /\ UNCHANGED <<rows, host, tries, enqueuing, time, faults>>

\* Mutant: Version++ is missing.
CompletedUnversioned(r) == [r EXCEPT !.status = "Completed", !.completed = TRUE]

Completed(r) == [r EXCEPT !.status = "Completed", !.completed = TRUE,
                          !.version = @ + 1]

CompleteSave(w) ==
    /\ Busy(w) /\ exec[w].phase = "completing"
    /\ Save(<<"work", w>>, Completed)
    /\ Release(w)
    /\ UNCHANGED <<host, tries, enqueuing, time, faults>>

\* SaveChangesAsync throws: the row was written meanwhile, by this execution's
\* own heartbeat for instance, or the call failed, with or without effect.
\* The generic catch of ProcessJobAsync takes it for a failure of the job.
CompleteThrows(w) ==
    /\ Busy(w) /\ Up(w) /\ exec[w].phase = "completing"
    /\ \/ (~Unchanged(<<"work", w>>) \/ faults.dbErrors) /\ UNCHANGED rows
       \/ faults.dbErrors /\ Save(<<"work", w>>, Completed)
    /\ exec' = [exec EXCEPT ![w].phase = "threw"]
    /\ Dispose({<<"work", w>>})
    /\ UNCHANGED <<host, tries, enqueuing, time, faults>>

\* Invoke() throws, or its timeout cancels it.
JobThrows(w) ==
    /\ Busy(w) /\ Up(w) /\ exec[w].phase = "running"
    /\ exec' = [exec EXCEPT ![w].phase = "threw"]
    /\ UNCHANGED <<store, host, tries, enqueuing, time, faults>>

\* FailJobAsync reads the row, by its id only.
FailRead(w) ==
    /\ Busy(w) /\ Up(w) /\ exec[w].phase = "threw"
    /\ Load(<<"work", w>>, {exec[w].job})
    /\ exec' = [exec EXCEPT ![w].phase = "failing"]
    /\ UNCHANGED <<rows, host, tries, enqueuing, time, faults>>

\* Mutant: one attempt too many.
RetryOnceMore(r) ==
    IF r.attempts <= MaxAttempts
    THEN [r EXCEPT !.status = "Pending", !.owner = NoHost, !.version = @ + 1]
    ELSE [r EXCEPT !.status = "Failed", !.completed = TRUE, !.version = @ + 1]

\* Mutant: one attempt too few.
RetryOnceLess(r) ==
    IF r.attempts + 1 < MaxAttempts
    THEN [r EXCEPT !.status = "Pending", !.owner = NoHost, !.version = @ + 1]
    ELSE [r EXCEPT !.status = "Failed", !.completed = TRUE, !.version = @ + 1]

\* Mutant: InstanceId is not reset.
RetryKeepsOwner(r) ==
    IF r.attempts < MaxAttempts
    THEN [r EXCEPT !.status = "Pending", !.version = @ + 1]
    ELSE [r EXCEPT !.status = "Failed", !.completed = TRUE, !.version = @ + 1]

\* Back to Pending while attempts remain, Failed otherwise.
RetryOrFail(r) ==
    IF r.attempts < MaxAttempts
    THEN [r EXCEPT !.status = "Pending", !.owner = NoHost, !.version = @ + 1]
    ELSE [r EXCEPT !.status = "Failed", !.completed = TRUE, !.version = @ + 1]

\* The jobs in the context of a that RetryOrFail makes Pending.
Requeued(a) == {j \in DOMAIN snap[a] : snap[a][j].attempts < MaxAttempts}

FailSave(w) ==
    /\ Busy(w) /\ exec[w].phase = "failing"
    /\ Save(<<"work", w>>, RetryOrFail)
    /\ waiting' = waiting \cup Requeued(<<"work", w>>)
    /\ Release(w)
    /\ UNCHANGED <<host, tries, enqueuing, stale, recent, faults>>

\* FailJobAsync throws out of the catch block: nobody observes the exception
\* and the row stays as it is.
FailThrows(w) ==
    /\ Busy(w) /\ exec[w].phase = "failing"
    /\ ~Unchanged(<<"work", w>>) \/ faults.dbErrors
    /\ Release(w)
    /\ UNCHANGED <<rows, host, tries, enqueuing, time, faults>>

\* During shutdown Invoke() ends or a database call observes the cancelled
\* stopping token: the row is left Running, even when Invoke() has succeeded.
Interrupted(w) ==
    /\ Busy(w) /\ host[w[1]] = "stopping"
    /\ Release(w)
    /\ UNCHANGED <<rows, host, tries, enqueuing, time, faults>>

\* UpdateHeartbeatAsync: any Running row with the job's id, whoever owns it.
BeatRead(w) ==
    /\ Busy(w) /\ Up(w) /\ ~Opened(<<"beat", w>>)
    /\ rows[exec[w].job].status = "Running"
    /\ rows[exec[w].job].version < MaxVersion
    /\ Load(<<"beat", w>>, {exec[w].job})
    /\ UNCHANGED <<rows, host, tries, exec, enqueuing, time, faults>>

Beaten(r) == [r EXCEPT !.version = @ + 1]

BeatSave(w) ==
    /\ Opened(<<"beat", w>>)
    /\ Save(<<"beat", w>>, Beaten)
    /\ stale' = stale \ {exec[w].job}
    /\ Dispose({<<"beat", w>>})
    /\ UNCHANGED <<host, tries, exec, enqueuing, waiting, recent, faults>>

BeatConflict(w) ==
    /\ Opened(<<"beat", w>>)
    /\ ~Unchanged(<<"beat", w>>) \/ faults.dbErrors \/ ~Up(w)
    /\ Dispose({<<"beat", w>>})
    /\ UNCHANGED <<rows, host, tries, exec, enqueuing, time, faults>>

-----------------------------------------------------------------------------
(* RecoverStaleJobsAsync: all stale rows in one context and one save. *)

\* Mutants: the query forgets the heartbeat, the status, or the exhausted jobs.
RunningJobs == {j \in DOMAIN rows : rows[j].status = "Running"}
SilentJobs == {j \in DOMAIN rows : j \in stale}
RetriableJobs == {j \in DOMAIN rows : /\ rows[j].status = "Running" /\ j \in stale
                                      /\ rows[j].attempts < MaxAttempts}

StaleJobs == {j \in DOMAIN rows : rows[j].status = "Running" /\ j \in stale}

RecoverRead(h) ==
    /\ host[h] = "up" /\ ~Opened(<<"recover", h>>)
    /\ StaleJobs # {}
    /\ Load(<<"recover", h>>, StaleJobs)
    /\ UNCHANGED <<rows, host, tries, exec, enqueuing, time, faults>>

RecoverSave(h) ==
    /\ Opened(<<"recover", h>>)
    /\ Save(<<"recover", h>>, RetryOrFail)
    /\ waiting' = waiting \ Requeued(<<"recover", h>>)
    /\ Dispose({<<"recover", h>>})
    /\ UNCHANGED <<host, tries, exec, enqueuing, stale, recent, faults>>

\* One conflict rolls the whole batch back.
RecoverThrows(h) ==
    /\ Opened(<<"recover", h>>)
    /\ ~Unchanged(<<"recover", h>>) \/ faults.dbErrors \/ host[h] = "stopping"
    /\ Dispose({<<"recover", h>>})
    /\ UNCHANGED <<rows, host, tries, exec, enqueuing, time, faults>>

-----------------------------------------------------------------------------
(* Instances stop, crash and start again; time passes. *)

Stop(h) ==
    /\ host[h] = "up" /\ faults.stops > 0
    /\ host' = [host EXCEPT ![h] = "stopping"]
    /\ faults' = [faults EXCEPT !.stops = @ - 1]
    /\ UNCHANGED <<store, tries, exec, enqueuing, time>>

\* The process is gone: its executions and its contexts with it.
Gone(h) ==
    /\ host' = [host EXCEPT ![h] = "down"]
    /\ tries' = [tries EXCEPT ![h] = 0]
    /\ exec' = [w \in Worker |-> IF w[1] = h THEN Idle ELSE exec[w]]
    /\ Dispose(ActorsOf(h))
    /\ UNCHANGED <<rows, enqueuing, time>>

\* ExecuteAsync is over.  A stop during the polling delay skips the wait for
\* the running jobs and a stop elsewhere waits at most 30 s a permit, so
\* executions may still be running.
Exit(h) ==
    /\ host[h] = "stopping"
    /\ Gone(h)
    /\ UNCHANGED faults

Crash(h) ==
    /\ host[h] = "up" /\ faults.crashes > 0
    /\ Gone(h)
    /\ faults' = [faults EXCEPT !.crashes = @ - 1]

Restart(h) ==
    /\ host[h] = "down"
    /\ host' = [host EXCEPT ![h] = "up"]
    /\ UNCHANGED <<store, tries, exec, enqueuing, time, faults>>

\* An execution whose heartbeat loop is alive: the loop ends with the
\* stopping token, before the job itself does.
Beating(w, j) == Busy(w) /\ Up(w) /\ exec[w].job = j

HeartbeatExpires(j) ==
    /\ j \in DOMAIN rows /\ j \notin stale /\ rows[j].status = "Running"
    /\ faults.lateHeartbeats \/ ~\E w \in Worker : Beating(w, j)
    /\ stale' = stale \cup {j}
    /\ UNCHANGED <<store, host, tries, exec, enqueuing, waiting, recent, faults>>

RetryBecomesDue(j) ==
    /\ j \in waiting
    /\ waiting' = waiting \ {j}
    /\ UNCHANGED <<store, host, tries, exec, enqueuing, stale, recent, faults>>

WindowPasses(j) ==
    /\ j \in recent
    /\ recent' = recent \ {j}
    /\ UNCHANGED <<store, host, tries, exec, enqueuing, stale, waiting, faults>>

-----------------------------------------------------------------------------
ClientStep(c) ==
    \/ \E k \in Key \cup {NoKey} : EnqueueCheck(c, k)
    \/ EnqueueInsert(c)
    \/ \E j \in Job : CancelRead(c, j)
    \/ CancelSave(c) \/ CancelThrows(c)

ClaimStep(h) ==
    ClaimRead(h) \/ ClaimNothing(h) \/ ClaimSave(h) \/ ClaimConflict(h) \/ ClaimLost(h)

WorkerStep(w) ==
    \/ CompleteRead(w) \/ CompleteSave(w) \/ CompleteThrows(w)
    \/ JobThrows(w) \/ FailRead(w) \/ FailSave(w) \/ FailThrows(w)
    \/ Interrupted(w)

BeatStep(w) == BeatRead(w) \/ BeatSave(w) \/ BeatConflict(w)

RecoverStep(h) == RecoverRead(h) \/ RecoverSave(h) \/ RecoverThrows(h)

HostStep(h) == Stop(h) \/ Exit(h) \/ Crash(h) \/ Restart(h)

TimeStep(j) == HeartbeatExpires(j) \/ RetryBecomesDue(j) \/ WindowPasses(j)

Next ==
    \/ \E c \in Client : ClientStep(c)
    \/ \E h \in Host : ClaimStep(h) \/ RecoverStep(h) \/ HostStep(h)
    \/ \E w \in Worker : WorkerStep(w) \/ BeatStep(w)
    \/ \E j \in Job : TimeStep(j)

Spec == Init /\ [][Next]_vars

-----------------------------------------------------------------------------
(* Fairness: every loop of a live instance keeps going, jobs end, database   *)
(* calls are answered, stopped processes exit and are started again, and     *)
(* time passes.  Clients owe nothing beyond the insert they have begun.      *)
Fairness ==
    /\ \A h \in Host : /\ WF_vars(ClaimStep(h))
                       /\ WF_vars(RecoverStep(h))
                       /\ WF_vars(Exit(h))
                       /\ WF_vars(Restart(h))
    /\ \A w \in Worker : /\ WF_vars(WorkerStep(w))
                         /\ WF_vars(BeatSave(w) \/ BeatConflict(w))
    /\ \A j \in Job : /\ WF_vars(RetryBecomesDue(j))
                      /\ WF_vars(HeartbeatExpires(j)
                                     /\ ~\E w \in Worker : Beating(w, j))

FairSpec == Spec /\ Fairness

-----------------------------------------------------------------------------
StoreTypeOK ==
    /\ DOMAIN rows \subseteq Job /\ IsFiniteSet(DOMAIN rows)
    /\ \A j \in DOMAIN rows : rows[j] \in Row
    /\ DOMAIN snap = Actor
    /\ \A a \in Actor : /\ DOMAIN snap[a] \subseteq DOMAIN rows
                        /\ \A j \in DOMAIN snap[a] : snap[a][j] \in Row

ExecTypeOK ==
    /\ exec \in [Worker -> {Idle} \cup Execution]
    /\ \A w \in Worker : Busy(w) => exec[w].job \in DOMAIN rows

\* Every variable has its type; contexts and executions hold stored rows only.
TypeOK ==
    /\ StoreTypeOK
    /\ ExecTypeOK
    /\ host \in [Host -> {"up", "stopping", "down"}]
    /\ tries \in [Host -> 0 .. MaxClaimRetries - 1]
    /\ enqueuing \in [Client -> SUBSET (Key \cup {NoKey})]
    /\ stale \subseteq Job /\ waiting \subseteq Job /\ recent \subseteq Job
    /\ faults \in Faults

\* A job is never started more than MaxRetries + 1 times, whoever recovers,
\* fails or re-claims it, and a job back in the queue still has an attempt.
AttemptsBounded ==
    \A j \in DOMAIN rows :
        /\ rows[j].attempts <= MaxAttempts
        /\ rows[j].status = "Pending" => rows[j].attempts < MaxAttempts

\* JobStatus.Failed, "after exhausting all retry attempts": late failures and
\* recoveries of earlier attempts never fail a job that has attempts left.
FailedIsExhausted ==
    \A j \in DOMAIN rows : rows[j].status = "Failed" => rows[j].attempts = MaxAttempts

\* A claim is exclusive: no two executions anywhere run the same attempt of
\* the same job, and none runs an attempt the table has not counted.
OneExecutionPerAttempt ==
    \A v, w \in Worker :
        Busy(v) => /\ exec[v].attempt <= rows[exec[v].job].attempts
                   /\ (v # w /\ Busy(w) /\ exec[v].job = exec[w].job)
                          => exec[v].attempt # exec[w].attempt

\* CoravelJobHistory.InstanceId: a Running row names the instance that runs
\* its current attempt, and a Pending row names none.
OwnerRunsCurrentAttempt ==
    \A j \in DOMAIN rows :
        /\ rows[j].status = "Running" => rows[j].owner \in Host
        /\ rows[j].status = "Pending" => rows[j].owner = NoHost
        /\ \A w \in Worker :
               (/\ Busy(w) /\ exec[w].job = j /\ exec[w].attempt = rows[j].attempts
                /\ rows[j].status = "Running") => rows[j].owner = w[1]

\* With prompt heartbeats the instances that are not shutting down never run
\* one job twice at a time, whatever crashes: recovery hands over dead jobs
\* only.  (A job that ignores its cancellation has no heartbeat any more while
\* its instance shuts down, and may be handed over while it still runs.)
ExclusiveExecution ==
    \A v, w \in Worker :
        (/\ v # w /\ Busy(v) /\ Busy(w) /\ Up(v) /\ Up(w)
         /\ ~faults.lateHeartbeats) => exec[v].job # exec[w].job

\* CompleteJobAsync has saved job j and the database has reported an error all
\* the same: the execution takes its own success for a failure.
Misreported(j) ==
    /\ faults.dbErrors /\ rows[j].status = "Completed"
    /\ \E w \in Worker : /\ Busy(w) /\ exec[w].phase = "failing" /\ exec[w].ok
                         /\ exec[w].job = j /\ exec[w].attempt = rows[j].attempts

\* With prompt heartbeats a settled job stays settled, through crashes and
\* shutdowns alike: no late Complete, Fail or recovery revives it, but for the
\* execution that has completed it without knowing.
TerminalIsFinal ==
    [][\A j \in DOMAIN rows :
           (rows[j].status \in Terminal /\ ~faults.lateHeartbeats)
              => rows'[j].status = rows[j].status \/ Misreported(j)]_rows

\* With prompt heartbeats and no database errors the queue keeps the promise
\* of JobLifecycle: it moves the jobs as if one careful process did.  In any
\* other environment nothing is promised of any job.
Promised ==
    IF faults.lateHeartbeats \/ faults.dbErrors THEN {} ELSE DOMAIN rows

statusBar == [j \in Job |-> IF j \in Promised THEN rows[j].status ELSE "None"]
attemptsBar == [j \in Job |-> IF j \in Promised THEN rows[j].attempts ELSE 0]

Lifecycle == INSTANCE JobLifecycle WITH status <- statusBar, attempts <- attemptsBar

ImplementsLifecycle == Lifecycle!Spec

\* The idempotency query does its job for a caller who enqueues one job after
\* the other: of two active jobs with the same key, the older has left the
\* window of 24 hours.
OneActiveJobPerKeyInWindow ==
    \A i, j \in DOMAIN rows :
        (/\ i # j /\ rows[i].key = rows[j].key /\ rows[i].key # NoKey
         /\ {rows[i].status, rows[j].status} \cap {"Failed", "Cancelled"} = {})
           => i \notin recent \/ j \notin recent

\* The queue survives restarts: every job that is enqueued is settled.
EveryJobSettles ==
    \A j \in Job :
        (j \in DOMAIN rows) ~> (j \in DOMAIN rows /\ rows[j].status \in Terminal)

-----------------------------------------------------------------------------
(* What the documentation says and the code does not do. *)

\* IPersistentQueue.cs, IdempotencyKey: "If set, only one job with this key
\* can be pending/running at a time."
OneActiveJobPerKey ==
    \A i, j \in DOMAIN rows :
        (/\ i # j /\ rows[i].key = rows[j].key /\ rows[i].key # NoKey
         /\ rows[i].status \in {"Pending", "Running"})
           => rows[j].status \notin {"Pending", "Running"}

\* JobStatus.cs, Failed: "Job failed after exhausting all retry attempts."
\* A job whose last Invoke() returned normally has not failed.
SucceededIsNotFailed ==
    [][\A w \in Worker :
           (/\ Busy(w) /\ exec[w].ok /\ exec[w].attempt = rows[exec[w].job].attempts
            /\ rows[exec[w].job].status = "Running")
              => rows'[exec[w].job].status # "Failed"]_rows
=============================================================================
