------------------------ MODULE JobLifecycle_proofs ------------------------
(***************************************************************************)
(* Proofs that PersistentJobs keeps the promises it makes while heartbeats *)
(* are in time: executions exclude each other, settled jobs stay settled,  *)
(* and the queue implements JobLifecycle.                                  *)
(*                                                                         *)
(* CompleteJobAsync, FailJobAsync and the recovery find a row by its id,   *)
(* so none of this follows from the check of Version alone.  The argument: *)
(* an execution of an instance that is up has a heartbeat, so its job is   *)
(* not stale and nobody takes it away (Current); and whoever saves a row   *)
(* from a context that is still up to date knows what it loaded            *)
(* (ContextsTell, WorkTells).                                              *)
(***************************************************************************)
EXTENDS PersistentJobs_proofs

\* The row of the execution at w is Completed, and the database has reported
\* the save that did it as an error.
Hidden(w) ==
    /\ rows[exec[w].job].status = "Completed" /\ faults.dbErrors
    /\ exec[w].ok /\ exec[w].phase \in {"threw", "failing"}

\* The execution at w runs the current attempt of its job.
Current(w) ==
    /\ exec[w].attempt = rows[exec[w].job].attempts
    /\ \/ rows[exec[w].job].status = "Running" /\ exec[w].job \notin stale
       \/ Hidden(w)

\* What the context tells of the row that the execution at w has loaded.
WorkTells(w) ==
    \A j \in DOMAIN snap[<<"work", w>>] :
        /\ snap[<<"work", w>>][j].attempts = exec[w].attempt
        /\ \/ snap[<<"work", w>>][j].status = "Running"
           \/ /\ snap[<<"work", w>>][j].status = "Completed"
              /\ faults.dbErrors /\ exec[w].ok /\ exec[w].phase = "failing"

\* Callers load Pending rows, the recovery loads Running rows, which are stale
\* as long as nobody has written them.
ContextsTell ==
    /\ \A c \in Client : \A j \in DOMAIN snap[<<"client", c>>] :
          snap[<<"client", c>>][j].status = "Pending"
    /\ \A h \in Host : \A j \in DOMAIN snap[<<"recover", h>>] :
          /\ snap[<<"recover", h>>][j].status = "Running"
          /\ snap[<<"recover", h>>][j].version = rows[j].version => j \in stale

\* An execution has its contexts to itself.
ExecutionsTell ==
    /\ \A w \in Worker : Opened(<<"beat", w>>) =>
          Busy(w) /\ DOMAIN snap[<<"beat", w>>] = {exec[w].job}
    /\ \A w \in Worker : \A j \in DOMAIN snap[<<"work", w>>] :
          Busy(w) /\ exec[w].phase \in {"completing", "failing"} /\ j = exec[w].job
    /\ \A w \in Worker : Busy(w) =>
          /\ exec[w].phase = "completing" => exec[w].ok
          /\ host[w[1]] # "down"

\* With heartbeats in time, instances that are up execute current attempts.
PromptExecutions ==
    ~faults.lateHeartbeats =>
        \A w \in Worker : /\ Busy(w) /\ Up(w) => Current(w)
                          /\ WorkTells(w)

\* The inductive invariant.
PromptInv ==
    /\ StoreInv /\ AttemptsInv /\ OneExecutionPerAttempt
    /\ ContextsTell /\ ExecutionsTell /\ PromptExecutions

-----------------------------------------------------------------------------
(* What one step does to a context, a row, an execution and an instance. *)

\* The context of actor a is opened.
Loads(a) ==
    \/ \E c \in Client, j \in Job : a = <<"client", c>> /\ CancelRead(c, j)
    \/ \E h \in Host : a = <<"claim", h>> /\ ClaimRead(h)
    \/ \E h \in Host : a = <<"recover", h>> /\ RecoverRead(h)
    \/ \E w \in Worker : a = <<"work", w>> /\ (CompleteRead(w) \/ FailRead(w))
    \/ \E w \in Worker : a = <<"beat", w>> /\ BeatRead(w)

\* Actor a may save the row j, which its context tracks up to date.
MayWrite(a, j) == a \in Actor /\ Unchanged(a) /\ j \in DOMAIN snap[a]

\* Somebody edits the stored row j.
Written(j) ==
    \/ \E c \in Client : /\ MayWrite(<<"client", c>>, j)
                         /\ rows'[j] = Cancelled(rows[j])
    \/ \E h \in Host : /\ MayWrite(<<"claim", h>>, j)
                       /\ rows'[j] = Claimed(h, rows[j])
    \/ \E h \in Host : /\ MayWrite(<<"recover", h>>, j)
                       /\ rows'[j] = RetryOrFail(rows[j])
    \/ \E w \in Worker : /\ MayWrite(<<"work", w>>, j)
                         /\ CompleteSave(w) \/ CompleteThrows(w)
                         /\ rows'[j] = Completed(rows[j])
    \/ \E w \in Worker : /\ MayWrite(<<"work", w>>, j) /\ FailSave(w)
                         /\ rows'[j] = RetryOrFail(rows[j])
    \/ \E w \in Worker : /\ MayWrite(<<"beat", w>>, j)
                         /\ rows'[j] = Beaten(rows[j])

\* The execution at w begins: h has claimed job j.
Starts(h, w, j) ==
    /\ host[h] = "up" /\ host' = host /\ w[1] = h /\ ~Busy(w) /\ j \in DOMAIN rows
    /\ rows'[j] = Claimed(h, rows[j])
    /\ j \notin stale'
    /\ exec'[w] = [phase |-> "running", job |-> j, ok |-> FALSE,
                   attempt |-> rows[j].attempts + 1]

\* The execution at w ends, and its contexts with it.
Ends(w) ==
    /\ exec'[w] = Idle
    /\ snap'[<<"work", w>>] = Nothing /\ snap'[<<"beat", w>>] = Nothing

\* A context is left alone, disposed of or opened by its own actor.
LEMMA WhoLoads ==
    ASSUME StoreInv, [Next]_vars, NEW a \in Actor
    PROVE  snap'[a] = snap[a] \/ snap'[a] = Nothing \/ Loads(a)
<1>1. a \in DOMAIN snap /\ DOMAIN snap = Actor
    BY DEF StoreInv, TypeOK, StoreTypeOK
<1>2. ASSUME NEW A, Dispose(A)
      PROVE  snap'[a] = snap[a] \/ snap'[a] = Nothing
    BY <1>1, <1>2 DEF Dispose
<1>3. ASSUME NEW b \in Actor, NEW ids, Load(b, ids)
      PROVE  snap'[a] = snap[a] \/ a = b
    BY <1>1, <1>3 DEF Load
<1>4. ASSUME NEW c \in Client, ClientStep(c)
      PROVE  snap'[a] = snap[a] \/ snap'[a] = Nothing \/ Loads(a)
    <2>1. ASSUME NEW j \in Job, CancelRead(c, j)
          PROVE  snap'[a] = snap[a] \/ Loads(a)
        BY <1>3, <2>1, Actors DEF CancelRead, Loads
    <2>2. QED
        BY <1>2, <1>4, <2>1
           DEF ClientStep, EnqueueCheck, EnqueueInsert, CancelSave, CancelThrows
<1>5. ASSUME NEW h \in Host, ClaimStep(h)
      PROVE  snap'[a] = snap[a] \/ snap'[a] = Nothing \/ Loads(a)
    <2>1. CASE ClaimRead(h)
        BY <1>3, <2>1, Actors DEF ClaimRead, Loads
    <2>2. CASE ~ClaimRead(h)
        BY <1>2, <1>5, <2>2
           DEF ClaimStep, ClaimNothing, ClaimSave, ClaimConflict, ClaimLost, store
    <2>3. QED
        BY <2>1, <2>2
<1>6. ASSUME NEW h \in Host, RecoverStep(h)
      PROVE  snap'[a] = snap[a] \/ snap'[a] = Nothing \/ Loads(a)
    <2>1. CASE RecoverRead(h)
        BY <1>3, <2>1, Actors DEF RecoverRead, Loads
    <2>2. CASE ~RecoverRead(h)
        BY <1>2, <1>6, <2>2 DEF RecoverStep, RecoverSave, RecoverThrows
    <2>3. QED
        BY <2>1, <2>2
<1>7. ASSUME NEW h \in Host, HostStep(h)
      PROVE  snap'[a] = snap[a] \/ snap'[a] = Nothing
    BY <1>2, <1>7 DEF HostStep, Stop, Exit, Crash, Restart, Gone, store
<1>8. ASSUME NEW w \in Worker, WorkerStep(w)
      PROVE  snap'[a] = snap[a] \/ snap'[a] = Nothing \/ Loads(a)
    <2>1. CASE CompleteRead(w) \/ FailRead(w)
        <3>1. Load(<<"work", w>>, {exec[w].job})
            BY <2>1 DEF CompleteRead, FailRead
        <3>2. QED
            BY <1>3, <2>1, <3>1, Actors DEF Loads
    <2>2. CASE ~(CompleteRead(w) \/ FailRead(w))
        BY <1>2, <1>8, <2>2
           DEF WorkerStep, CompleteSave, CompleteThrows, JobThrows, FailSave, FailThrows,
               Interrupted, Release, store
    <2>3. QED
        BY <2>1, <2>2
<1>9. ASSUME NEW w \in Worker, BeatStep(w)
      PROVE  snap'[a] = snap[a] \/ snap'[a] = Nothing \/ Loads(a)
    <2>1. CASE BeatRead(w)
        BY <1>3, <2>1, Actors DEF BeatRead, Loads
    <2>2. CASE ~BeatRead(w)
        BY <1>2, <1>9, <2>2 DEF BeatStep, BeatSave, BeatConflict
    <2>3. QED
        BY <2>1, <2>2
<1>10. ASSUME NEW j \in Job, TimeStep(j)
       PROVE  snap'[a] = snap[a]
    BY <1>10 DEF TimeStep, HeartbeatExpires, RetryBecomesDue, WindowPasses, store
<1>11. QED
    BY <1>4, <1>5, <1>6, <1>7, <1>8, <1>9, <1>10 DEF Next, vars

\* A stored row is left alone or written by somebody whose context is up to
\* date.
LEMMA WhoWrites ==
    ASSUME StoreInv, [Next]_vars, NEW j \in DOMAIN rows
    PROVE  rows'[j] = rows[j] \/ Written(j)
<1> USE DEF StoreInv, TypeOK
<1>1. CASE UNCHANGED rows
    BY <1>1
<1>2. ASSUME NEW a \in Actor, Unchanged(a), j \in DOMAIN snap[a]
      PROVE  snap[a][j] = rows[j] /\ MayWrite(a, j)
    BY <1>2, CheckedContext DEF MayWrite
<1>3. ASSUME NEW c \in Client, ClientStep(c)
      PROVE  rows'[j] = rows[j] \/ Written(j)
    <2>1. CASE EnqueueInsert(c)
        BY <2>1 DEF EnqueueInsert, Insert
    <2>2. CASE CancelSave(c)
        BY <1>2, <2>2, Actors DEF CancelSave, Save, Tracks, Written
    <2>3. QED
        BY <1>1, <1>3, <2>1, <2>2 DEF ClientStep, EnqueueCheck, CancelRead, CancelThrows
<1>4. ASSUME NEW h \in Host, ClaimStep(h)
      PROVE  rows'[j] = rows[j] \/ Written(j)
    <2>1. CASE ClaimSave(h) \/ ClaimLost(h)
        <3>1. /\ Unchanged(<<"claim", h>>)
              /\ rows' = [i \in DOMAIN rows |->
                            IF Tracks(<<"claim", h>>, i)
                            THEN Claimed(h, snap[<<"claim", h>>][i]) ELSE rows[i]]
            BY <2>1 DEF ClaimSave, ClaimLost, Save
        <3>2. QED
            BY <1>2, <3>1, Actors DEF Tracks, Written
    <2>2. QED
        BY <1>1, <1>4, <2>1 DEF ClaimStep, ClaimRead, ClaimNothing, ClaimConflict, store
<1>5. ASSUME NEW h \in Host, RecoverStep(h)
      PROVE  rows'[j] = rows[j] \/ Written(j)
    <2>1. CASE RecoverSave(h)
        BY <1>2, <2>1, Actors DEF RecoverSave, Save, Tracks, Written
    <2>2. QED
        BY <1>1, <1>5, <2>1 DEF RecoverStep, RecoverRead, RecoverThrows
<1>6. ASSUME NEW h \in Host, HostStep(h)
      PROVE  UNCHANGED rows
    BY <1>6 DEF HostStep, Stop, Exit, Crash, Restart, Gone, store
<1>7. ASSUME NEW w \in Worker, WorkerStep(w)
      PROVE  rows'[j] = rows[j] \/ Written(j)
    <2>1. CASE CompleteSave(w) \/ CompleteThrows(w)
        <3>1. UNCHANGED rows \/ Save(<<"work", w>>, Completed)
            BY <2>1 DEF CompleteSave, CompleteThrows
        <3>2. QED
            BY <1>1, <1>2, <2>1, <3>1, Actors DEF Save, Tracks, Written
    <2>2. CASE FailSave(w)
        <3>1. Save(<<"work", w>>, RetryOrFail)
            BY <2>2 DEF FailSave
        <3>2. QED
            BY <1>2, <2>2, <3>1, Actors DEF Save, Tracks, Written
    <2>3. QED
        BY <1>1, <1>7, <2>1, <2>2
           DEF WorkerStep, CompleteRead, JobThrows, FailRead, FailThrows, Interrupted, store
<1>8. ASSUME NEW w \in Worker, BeatStep(w)
      PROVE  rows'[j] = rows[j] \/ Written(j)
    <2>1. CASE BeatSave(w)
        BY <1>2, <2>1, Actors DEF BeatSave, Save, Tracks, Written
    <2>2. QED
        BY <1>1, <1>8, <2>1 DEF BeatStep, BeatRead, BeatConflict
<1>9. ASSUME NEW i \in Job, TimeStep(i)
      PROVE  UNCHANGED rows
    BY <1>9 DEF TimeStep, HeartbeatExpires, RetryBecomesDue, WindowPasses, store
<1>10. QED
    BY <1>1, <1>3, <1>4, <1>5, <1>6, <1>7, <1>8, <1>9 DEF Next, vars

\* An execution is left alone, ends, takes a step of its own or begins.
LEMMA WhoRuns ==
    ASSUME StoreInv, [Next]_vars, NEW w \in Worker
    PROVE  \/ exec'[w] = exec[w]
           \/ Ends(w)
           \/ CompleteRead(w) \/ CompleteThrows(w) \/ JobThrows(w) \/ FailRead(w)
           \/ \E h \in Host, j \in Job : Starts(h, w, j)
<1>1. /\ exec \in [Worker -> {Idle} \cup Execution]
      /\ <<"work", w>> \in DOMAIN snap /\ <<"beat", w>> \in DOMAIN snap
    BY Actors DEF StoreInv, TypeOK, ExecTypeOK, StoreTypeOK
<1>2. CASE UNCHANGED exec
    BY <1>2
<1>3. ASSUME NEW v \in Worker, Release(v)
      PROVE  exec'[w] = exec[w] \/ Ends(w)
    BY <1>1, <1>3 DEF Release, Dispose, WorkerActors, Ends
<1>4. ASSUME NEW h \in Host, Gone(h)
      PROVE  exec'[w] = exec[w] \/ Ends(w)
    <2>1. CASE w[1] # h
        BY <1>4, <2>1 DEF Gone
    <2>2. CASE w[1] = h
        <3>1. PICK s \in Slot : w = <<h, s>>
            BY <2>2 DEF Worker
        <3>2. <<"work", w>> \in ActorsOf(h) /\ <<"beat", w>> \in ActorsOf(h)
            BY <3>1 DEF ActorsOf, WorkerActors
        <3>3. QED
            BY <1>1, <1>4, <2>2, <3>2 DEF Gone, Dispose, Ends
    <2>3. QED
        BY <2>1, <2>2
<1>5. ASSUME NEW v \in Worker, WorkerStep(v)
      PROVE  \/ exec'[w] = exec[w] \/ Ends(w)
             \/ CompleteRead(w) \/ CompleteThrows(w) \/ JobThrows(w) \/ FailRead(w)
    <2>1. CASE CompleteSave(v) \/ FailSave(v) \/ FailThrows(v) \/ Interrupted(v)
        BY <1>3, <2>1 DEF CompleteSave, FailSave, FailThrows, Interrupted
    <2>2. ASSUME NEW e, exec' = [exec EXCEPT ![v] = e]
          PROVE  exec'[w] = exec[w] \/ v = w
        BY <1>1, <2>2
    <2>3. CASE CompleteRead(v)
        <3>1. exec' = [exec EXCEPT ![v] =
                          [exec[v] EXCEPT !.phase = "completing", !.ok = TRUE]]
            BY <1>1, <2>3 DEF CompleteRead
        <3>2. QED
            BY <2>2, <2>3, <3>1
    <2>4. CASE CompleteThrows(v) \/ JobThrows(v) \/ FailRead(v)
        <3>1. \E q : exec' = [exec EXCEPT ![v] = [exec[v] EXCEPT !.phase = q]]
            BY <2>4 DEF CompleteThrows, JobThrows, FailRead
        <3>2. QED
            BY <2>2, <2>4, <3>1
    <2>5. QED
        BY <1>5, <2>1, <2>3, <2>4 DEF WorkerStep
<1>6. ASSUME NEW h \in Host, ClaimSave(h)
      PROVE  exec'[w] = exec[w] \/ \E j \in Job : Starts(h, w, j)
    <2> DEFINE a == <<"claim", h>>
    <2>1. a \in Actor /\ Unchanged(a) /\ host' = host
        BY <1>6, Actors DEF ClaimSave, Save
    <2>2. rows' = [j \in DOMAIN rows |->
                     IF Tracks(a, j) THEN Claimed(h, snap[a][j]) ELSE rows[j]]
        BY <1>6 DEF ClaimSave, Save
    <2>3. PICK j \in DOMAIN snap[a] :
             /\ stale' = stale \ {j}
             /\ IF host[h] = "up"
                THEN \E s \in Slot :
                       /\ ~Busy(<<h, s>>)
                       /\ exec' = [exec EXCEPT ![<<h, s>>] =
                              [phase |-> "running", job |-> j, ok |-> FALSE,
                               attempt |-> snap[a][j].attempts + 1]]
                ELSE UNCHANGED exec
        BY <1>6 DEF ClaimSave
    <2>4. j \in DOMAIN rows /\ snap[a][j] = rows[j] /\ j \in Job
        BY <2>1, CheckedContext DEF StoreInv, TypeOK, StoreTypeOK
    <2>5. rows'[j] = Claimed(h, rows[j])
        BY <2>2, <2>4 DEF Tracks
    <2>6. ASSUME NEW s \in Slot, host[h] = "up", ~Busy(<<h, s>>), w = <<h, s>>,
                 exec' = [exec EXCEPT ![<<h, s>>] =
                        [phase |-> "running", job |-> j, ok |-> FALSE,
                         attempt |-> snap[a][j].attempts + 1]]
          PROVE  Starts(h, w, j)
        BY <1>1, <2>1, <2>3, <2>4, <2>5, <2>6 DEF Starts
    <2>7. ASSUME NEW s \in Slot, w # <<h, s>>,
                 exec' = [exec EXCEPT ![<<h, s>>] =
                        [phase |-> "running", job |-> j, ok |-> FALSE,
                         attempt |-> snap[a][j].attempts + 1]]
          PROVE  exec'[w] = exec[w]
        BY <1>1, <2>7
    <2>8. QED
        BY <2>3, <2>4, <2>6, <2>7
<1>7. QED
    BY <1>2, <1>4, <1>5, <1>6
       DEF Next, ClientStep, EnqueueCheck, EnqueueInsert, CancelRead, CancelSave,
           CancelThrows, ClaimStep, ClaimRead, ClaimNothing, ClaimConflict,
           ClaimLost, RecoverStep,
           RecoverRead, RecoverSave, RecoverThrows, HostStep, Stop, Exit, Crash, Restart,
           BeatStep, BeatRead, BeatSave, BeatConflict, TimeStep, HeartbeatExpires,
           RetryBecomesDue, WindowPasses, vars, store

\* Only the clock makes a job stale, and whoever ends that writes its row.
LEMMA WhoIsStale ==
    ASSUME StoreInv, ExecutionsTell, [Next]_vars
    PROVE  /\ \A j \in stale' \ stale : HeartbeatExpires(j)
           /\ \A j \in stale \ stale' :
                 j \in DOMAIN rows => rows'[j].version = rows[j].version + 1
<1>1. CASE UNCHANGED stale
    BY <1>1
<1>2. ASSUME NEW a \in Actor, Unchanged(a), NEW j \in DOMAIN snap[a]
      PROVE  /\ j \in DOMAIN rows /\ rows[j] \in Row /\ snap[a][j] = rows[j]
    BY <1>2, CheckedContext DEF StoreInv, TypeOK, StoreTypeOK
<1>3. ASSUME NEW h \in Host, ClaimSave(h) \/ ClaimLost(h)
      PROVE  /\ stale' \subseteq stale
             /\ \A j \in stale \ stale' : rows'[j].version = rows[j].version + 1
    <2> DEFINE a == <<"claim", h>>
    <2>1. a \in Actor /\ Unchanged(a)
        BY <1>3, Actors DEF ClaimSave, ClaimLost, Save
    <2>2. rows' = [j \in DOMAIN rows |->
                     IF Tracks(a, j) THEN Claimed(h, snap[a][j]) ELSE rows[j]]
        BY <1>3 DEF ClaimSave, ClaimLost, Save
    <2>3. PICK j \in DOMAIN snap[a] : stale' = stale \ {j}
        BY <1>3 DEF ClaimSave, ClaimLost
    <2>4. rows'[j] = Claimed(h, rows[j]) /\ rows[j] \in Row
        BY <1>2, <2>1, <2>2 DEF Tracks
    <2>5. rows'[j].version = rows[j].version + 1
        BY <2>4 DEF Claimed, Row
    <2>6. QED
        BY <2>3, <2>5
<1>4. ASSUME NEW w \in Worker, BeatSave(w)
      PROVE  /\ stale' \subseteq stale
             /\ \A j \in stale \ stale' : rows'[j].version = rows[j].version + 1
    <2> DEFINE a == <<"beat", w>>
               j == exec[w].job
    <2>1. a \in Actor /\ Unchanged(a) /\ j \in DOMAIN snap[a] /\ stale' = stale \ {j}
        BY <1>4, Actors DEF BeatSave, Save, ExecutionsTell
    <2>2. rows'[j] = Beaten(rows[j]) /\ rows[j] \in Row
        BY <1>2, <1>4, <2>1 DEF BeatSave, Save, Tracks
    <2>3. rows'[j].version = rows[j].version + 1
        BY <2>2 DEF Beaten, Row
    <2>4. QED
        BY <2>1, <2>3
<1>5. ASSUME NEW j \in Job, HeartbeatExpires(j)
      PROVE  stale' = stale \cup {j}
    BY <1>5 DEF HeartbeatExpires
<1>6. QED
    BY <1>1, <1>3, <1>4, <1>5
       DEF Next, ClientStep, EnqueueCheck, EnqueueInsert, CancelRead, CancelSave,
           CancelThrows, ClaimStep, ClaimRead, ClaimNothing, ClaimConflict, RecoverStep,
           RecoverRead, RecoverSave, RecoverThrows, HostStep, Stop, Exit, Crash, Restart,
           Gone, WorkerStep, CompleteRead, CompleteSave, CompleteThrows, JobThrows,
           FailRead, FailSave, FailThrows, Interrupted, BeatStep, BeatRead, BeatConflict,
           TimeStep, RetryBecomesDue, WindowPasses, vars, time

\* A host that goes down takes its executions with it; no other step of a host
\* touches one.
LEMMA WhoIsUp ==
    ASSUME StoreInv, [Next]_vars, NEW h \in Host
    PROVE  \/ host'[h] = host[h]
           \/ host[h] = "up" /\ host'[h] = "stopping"
           \/ host[h] = "down" /\ exec' = exec
           \/ \A w \in Worker : w[1] = h => exec'[w] = Idle
<1>1. host \in [Host -> {"up", "stopping", "down"}]
    BY DEF StoreInv, TypeOK
<1>2. CASE UNCHANGED host
    BY <1>2
<1>3. ASSUME NEW g \in Host, HostStep(g)
      PROVE  \/ host'[h] = host[h]
             \/ host[h] = "up" /\ host'[h] = "stopping"
             \/ host[h] = "down" /\ exec' = exec
             \/ \A w \in Worker : w[1] = h => exec'[w] = Idle
    BY <1>1, <1>3 DEF HostStep, Stop, Exit, Crash, Restart, Gone
<1>4. QED
    BY <1>2, <1>3
       DEF Next, ClientStep, EnqueueCheck, EnqueueInsert, CancelRead, CancelSave,
           CancelThrows, ClaimStep, ClaimRead, ClaimNothing, ClaimSave, ClaimConflict,
           ClaimLost,
           RecoverStep, RecoverRead, RecoverSave, RecoverThrows, WorkerStep, CompleteRead,
           CompleteSave, CompleteThrows, JobThrows, FailRead, FailSave, FailThrows,
           Interrupted, BeatStep, BeatRead, BeatSave, BeatConflict, TimeStep,
           HeartbeatExpires, RetryBecomesDue, WindowPasses, vars

\* The environment decides once whether heartbeats may be late and whether the
\* database may report errors.
LEMMA FaultsStay ==
    ASSUME StoreInv, [Next]_vars
    PROVE  /\ faults'.lateHeartbeats = faults.lateHeartbeats
           /\ faults'.dbErrors = faults.dbErrors
<1>1. faults \in Faults
    BY DEF StoreInv, TypeOK
<1>2. CASE UNCHANGED faults
    BY <1>2
<1>3. ASSUME NEW g \in Host, HostStep(g)
      PROVE  /\ faults'.lateHeartbeats = faults.lateHeartbeats
             /\ faults'.dbErrors = faults.dbErrors
    BY <1>1, <1>3 DEF HostStep, Stop, Exit, Crash, Restart, Faults
<1>4. QED
    BY <1>2, <1>3
       DEF Next, ClientStep, EnqueueCheck, EnqueueInsert, CancelRead, CancelSave,
           CancelThrows, ClaimStep, ClaimRead, ClaimNothing, ClaimSave, ClaimConflict,
           ClaimLost,
           RecoverStep, RecoverRead, RecoverSave, RecoverThrows, WorkerStep, CompleteRead,
           CompleteSave, CompleteThrows, JobThrows, FailRead, FailSave, FailThrows,
           Interrupted, BeatStep, BeatRead, BeatSave, BeatConflict, TimeStep,
           HeartbeatExpires, RetryBecomesDue, WindowPasses, vars

-----------------------------------------------------------------------------
LEMMA ContextsTellStep ==
    ASSUME StoreInv, ContextsTell, ExecutionsTell, [Next]_vars
    PROVE  ContextsTell'
<1>1. DOMAIN snap = Actor
    BY DEF StoreInv, TypeOK, StoreTypeOK
<1>2. ASSUME NEW a \in Actor, NEW ids, Load(a, ids)
      PROVE  snap'[a] = [j \in ids |-> rows[j]]
    BY <1>1, <1>2 DEF Load, Loaded
<1>3. ASSUME NEW c \in Client, NEW j \in DOMAIN snap'[<<"client", c>>]
      PROVE  snap'[<<"client", c>>][j].status = "Pending"
    <2> DEFINE a == <<"client", c>>
    <2>1. a \in Actor
        BY Actors
    <2>2. CASE snap'[a] = snap[a]
        BY <2>2, <1>3 DEF ContextsTell
    <2>3. CASE snap'[a] = Nothing
        BY <2>3, <1>3 DEF Nothing
    <2>4. CASE Loads(a)
        <3>1. PICK i \in Job : CancelRead(c, i)
            BY <2>4 DEF Loads
        <3>2. snap'[a] = [k \in {i} |-> rows[k]]
            BY <1>2, <2>1, <3>1 DEF CancelRead
        <3>3. QED
            BY <1>3, <3>1, <3>2 DEF CancelRead, Cancellable
    <2>5. QED
        BY <2>1, <2>2, <2>3, <2>4, WhoLoads
<1>4. ASSUME NEW h \in Host, NEW j \in DOMAIN snap'[<<"recover", h>>]
      PROVE  /\ snap'[<<"recover", h>>][j].status = "Running"
             /\ snap'[<<"recover", h>>][j].version = rows'[j].version => j \in stale'
    <2> DEFINE a == <<"recover", h>>
    <2>1. a \in Actor
        BY Actors
    <2>2. CASE snap'[a] = snap[a]
        <3>1. /\ j \in DOMAIN snap[a] /\ snap[a][j].status = "Running"
              /\ snap[a][j].version = rows[j].version => j \in stale
            BY <1>4, <2>2 DEF ContextsTell
        <3>2. /\ j \in DOMAIN rows /\ rows[j] \in Row /\ snap[a][j] \in Row
              /\ snap[a][j].version <= rows[j].version
            BY <1>1, <2>1, <3>1 DEF StoreInv, NoLostUpdate, TypeOK, StoreTypeOK
        <3>3. rows[j].version \in Nat /\ snap[a][j].version \in Nat
            BY <3>2 DEF Row
        <3>4. rows'[j] # rows[j] => rows'[j].version = rows[j].version + 1
            BY <3>2, StorePreserved DEF VersionedStep
        <3>5. j \in stale \ stale' => rows'[j].version = rows[j].version + 1
            BY <3>2, WhoIsStale
        <3>6. QED
            BY <2>2, <3>1, <3>2, <3>3, <3>4, <3>5
    <2>3. CASE snap'[a] = Nothing
        BY <2>3, <1>4 DEF Nothing
    <2>4. CASE Loads(a)
        <3>1. RecoverRead(h)
            BY <2>4 DEF Loads
        <3>2. snap'[a] = [k \in StaleJobs |-> rows[k]] /\ stale' = stale
            BY <1>2, <2>1, <3>1 DEF RecoverRead, time
        <3>3. QED
            BY <1>4, <3>2 DEF StaleJobs
    <2>5. QED
        BY <2>1, <2>2, <2>3, <2>4, WhoLoads
<1>5. QED
    BY <1>3, <1>4 DEF ContextsTell

\* The execution at w goes on from phase p to phase q; its instance is up.
Advances(w, p, q) ==
    /\ Busy(w) /\ Up(w) /\ exec[w].phase = p /\ exec'[w] # Idle /\ exec'[w].phase = q
    /\ exec'[w].job = exec[w].job /\ exec'[w].attempt = exec[w].attempt
    /\ host' = host /\ stale' = stale
    /\ snap'[<<"beat", w>>] = snap[<<"beat", w>>]

LEMMA OwnSteps ==
    ASSUME StoreInv, NEW w \in Worker
    PROVE  /\ CompleteRead(w) =>
                 /\ Advances(w, "running", "completing") /\ exec'[w].ok /\ rows' = rows
                 /\ snap'[<<"work", w>>] = [j \in {exec[w].job} |-> rows[j]]
           /\ CompleteThrows(w) =>
                 /\ Advances(w, "completing", "threw") /\ exec'[w].ok = exec[w].ok
                 /\ snap'[<<"work", w>>] = Nothing
           /\ JobThrows(w) =>
                 /\ Advances(w, "running", "threw") /\ exec'[w].ok = exec[w].ok
                 /\ rows' = rows /\ snap' = snap
           /\ FailRead(w) =>
                 /\ Advances(w, "threw", "failing") /\ exec'[w].ok = exec[w].ok
                 /\ rows' = rows
                 /\ snap'[<<"work", w>>] = [j \in {exec[w].job} |-> rows[j]]
<1>1. /\ exec \in [Worker -> {Idle} \cup Execution]
      /\ <<"work", w>> \in DOMAIN snap /\ <<"beat", w>> \in DOMAIN snap
    BY Actors DEF StoreInv, TypeOK, ExecTypeOK, StoreTypeOK
<1>2. <<"work", w>> # <<"beat", w>>
    OBVIOUS
<1>3. ASSUME NEW ids, Load(<<"work", w>>, ids)
      PROVE  /\ snap'[<<"work", w>>] = [j \in ids |-> rows[j]]
             /\ snap'[<<"beat", w>>] = snap[<<"beat", w>>]
    BY <1>1, <1>2, <1>3 DEF Load, Loaded
<1>4. ASSUME Busy(w), NEW q \in Phase
      PROVE  /\ [exec[w] EXCEPT !.phase = q] # Idle
             /\ [exec[w] EXCEPT !.phase = q].phase = q
             /\ [exec[w] EXCEPT !.phase = q].job = exec[w].job
             /\ [exec[w] EXCEPT !.phase = q].attempt = exec[w].attempt
             /\ [exec[w] EXCEPT !.phase = q].ok = exec[w].ok
    <2>1. exec[w] \in Execution
        BY <1>1, <1>4 DEF Busy
    <2>2. \A e \in Execution : [e EXCEPT !.phase = q] # Idle
        <3> TAKE e \in Execution
        <3>1. [e EXCEPT !.phase = q].phase = q
            BY DEF Execution
        <3>2. q # "idle" /\ Idle.phase = "idle"
            BY DEF Phase, Idle
        <3>3. QED
            BY <3>1, <3>2
    <2>3. QED
        BY <2>1, <2>2 DEF Execution
<1>5. ASSUME CompleteRead(w)
      PROVE  /\ Advances(w, "running", "completing") /\ exec'[w].ok /\ rows' = rows
             /\ snap'[<<"work", w>>] = [j \in {exec[w].job} |-> rows[j]]
    <2>1. exec[w] \in Execution /\ Busy(w)
        BY <1>1, <1>5 DEF CompleteRead, Busy
    <2>2. exec' = [exec EXCEPT ![w] = [exec[w] EXCEPT !.phase = "completing", !.ok = TRUE]]
        BY <1>1, <1>5 DEF CompleteRead
    <2>3. exec'[w] = [exec[w] EXCEPT !.phase = "completing", !.ok = TRUE]
        BY <1>1, <2>2
    <2>4. /\ exec'[w].phase = "completing" /\ exec'[w].ok
          /\ exec'[w].job = exec[w].job /\ exec'[w].attempt = exec[w].attempt
        BY <2>1, <2>3 DEF Execution
    <2>5. exec'[w] # Idle
        BY <2>4 DEF Idle
    <2>6. QED
        BY <1>3, <1>5, <2>4, <2>5 DEF CompleteRead, Advances, time
<1>6. ASSUME CompleteThrows(w)
      PROVE  /\ Advances(w, "completing", "threw") /\ exec'[w].ok = exec[w].ok
             /\ snap'[<<"work", w>>] = Nothing
    <2>1. exec'[w] = [exec[w] EXCEPT !.phase = "threw"] /\ Busy(w)
        BY <1>1, <1>6 DEF CompleteThrows
    <2>2. Dispose({<<"work", w>>})
        BY <1>6 DEF CompleteThrows
    <2>3. snap'[<<"work", w>>] = Nothing /\ snap'[<<"beat", w>>] = snap[<<"beat", w>>]
        BY <1>1, <1>2, <2>2 DEF Dispose
    <2>4. QED
        BY <1>4, <1>6, <2>1, <2>3 DEF CompleteThrows, Advances, time, Phase
<1>7. ASSUME JobThrows(w)
      PROVE  /\ Advances(w, "running", "threw") /\ exec'[w].ok = exec[w].ok
             /\ rows' = rows /\ snap' = snap
    <2>1. exec'[w] = [exec[w] EXCEPT !.phase = "threw"] /\ Busy(w)
        BY <1>1, <1>7 DEF JobThrows
    <2>2. QED
        BY <1>4, <1>7, <2>1 DEF JobThrows, Advances, time, Phase, store
<1>8. ASSUME FailRead(w)
      PROVE  /\ Advances(w, "threw", "failing") /\ exec'[w].ok = exec[w].ok
             /\ rows' = rows
             /\ snap'[<<"work", w>>] = [j \in {exec[w].job} |-> rows[j]]
    <2>1. exec'[w] = [exec[w] EXCEPT !.phase = "failing"] /\ Busy(w)
        BY <1>1, <1>8 DEF FailRead
    <2>2. QED
        BY <1>3, <1>4, <1>8, <2>1 DEF FailRead, Advances, time, Phase
<1>9. QED
    BY <1>5, <1>6, <1>7, <1>8

LEMMA ExecutionsTellStep ==
    ASSUME StoreInv, ExecutionsTell, [Next]_vars
    PROVE  ExecutionsTell'
<1> SUFFICES ASSUME NEW w \in Worker
             PROVE  /\ Opened(<<"beat", w>>)' =>
                          Busy(w)' /\ DOMAIN snap'[<<"beat", w>>] = {exec'[w].job}
                    /\ \A j \in DOMAIN snap'[<<"work", w>>] :
                          /\ Busy(w)' /\ exec'[w].phase \in {"completing", "failing"}
                          /\ j = exec'[w].job
                    /\ Busy(w)' => /\ exec'[w].phase = "completing" => exec'[w].ok
                                   /\ host'[w[1]] # "down"
    BY DEF ExecutionsTell
<1> DEFINE work == <<"work", w>>
           beat == <<"beat", w>>
<1>1. work \in Actor /\ beat \in Actor /\ DOMAIN snap = Actor /\ w[1] \in Host
    BY Actors DEF Worker, StoreInv, TypeOK, StoreTypeOK
<1>2. /\ Opened(beat) => Busy(w) /\ DOMAIN snap[beat] = {exec[w].job}
      /\ \A j \in DOMAIN snap[work] :
            Busy(w) /\ exec[w].phase \in {"completing", "failing"} /\ j = exec[w].job
      /\ Busy(w) => (exec[w].phase = "completing" => exec[w].ok) /\ host[w[1]] # "down"
    BY DEF ExecutionsTell
<1>3. DOMAIN Nothing = {}
    BY DEF Nothing
<1>4. CASE Ends(w)
    BY <1>3, <1>4 DEF Ends, Busy, Opened
<1>5. CASE CompleteRead(w) \/ CompleteThrows(w) \/ JobThrows(w) \/ FailRead(w)
    <2>1. /\ Busy(w) /\ Busy(w)' /\ exec'[w].job = exec[w].job
          /\ snap'[beat] = snap[beat] /\ host' = host
        BY <1>5, OwnSteps DEF Advances, Busy
    <2>2. CASE CompleteRead(w)
        <3>1. /\ exec'[w].phase = "completing" /\ exec'[w].ok
              /\ DOMAIN snap'[work] = {exec'[w].job}
            BY <2>1, <2>2, OwnSteps DEF Advances
        <3>2. QED
            BY <1>2, <2>1, <3>1 DEF Opened
    <2>3. CASE CompleteThrows(w)
        BY <1>2, <1>3, <2>1, <2>3, OwnSteps DEF Advances, Opened
    <2>4. CASE JobThrows(w)
        BY <1>2, <2>1, <2>4, OwnSteps DEF Advances, Opened
    <2>5. CASE FailRead(w)
        <3>1. exec'[w].phase = "failing" /\ DOMAIN snap'[work] = {exec'[w].job}
            BY <2>1, <2>5, OwnSteps DEF Advances
        <3>2. QED
            BY <1>2, <2>1, <3>1 DEF Opened
    <2>6. QED
        BY <1>5, <2>2, <2>3, <2>4, <2>5
<1>6. snap'[work] = snap[work] \/ snap'[work] = Nothing \/ CompleteRead(w) \/ FailRead(w)
    BY <1>1, WhoLoads DEF Loads
<1>7. snap'[beat] = snap[beat] \/ snap'[beat] = Nothing \/ BeatRead(w)
    BY <1>1, WhoLoads DEF Loads
<1>8. ASSUME NEW h \in Host, NEW j \in Job, Starts(h, w, j)
      PROVE  /\ ~Opened(beat)' /\ DOMAIN snap'[work] = {}
             /\ exec'[w].phase = "running" /\ host'[w[1]] # "down"
    <2>1. ~Busy(w) /\ host[w[1]] = "up" /\ host' = host
        BY <1>8 DEF Starts
    <2>2. ~BeatRead(w) /\ ~CompleteRead(w) /\ ~FailRead(w)
        BY <2>1 DEF BeatRead, CompleteRead, FailRead
    <2>3. exec'[w].phase = "running"
        BY <1>8 DEF Starts
    <2>4. ~Opened(beat)' /\ DOMAIN snap'[work] = {}
        BY <1>2, <1>3, <1>6, <1>7, <2>1, <2>2 DEF Opened
    <2>5. QED
        BY <2>1, <2>3, <2>4
<1>9. CASE exec'[w] = exec[w] /\ ~(CompleteRead(w) \/ FailRead(w))
    <2>1. BeatRead(w) => Busy(w) /\ DOMAIN snap'[beat] = {exec[w].job}
        BY <1>1 DEF BeatRead, Load, Loaded
    <2>2. Busy(w)' => host'[w[1]] # "down"
        <3>1. Busy(w)' => Busy(w)
            BY <1>9 DEF Busy
        <3>2. QED
            BY <1>1, <1>2, <1>9, <3>1, WhoIsUp DEF Busy
    <2>3. QED
        BY <1>2, <1>3, <1>6, <1>7, <1>9, <2>1, <2>2 DEF Opened, Busy
<1>10. QED
    <2>1. ASSUME NEW h \in Host, NEW j \in Job, Starts(h, w, j)
          PROVE  exec'[w].phase # "completing"
        BY <1>8, <2>1
    <2>2. QED
        BY <1>4, <1>5, <1>8, <1>9, <2>1, WhoRuns

\* With heartbeats in time nobody but the execution itself, and heartbeats,
\* writes the row of a current execution.
LEMMA OthersSpare ==
    ASSUME StoreInv, OneExecutionPerAttempt, ContextsTell, ExecutionsTell,
           PromptExecutions, ~faults.lateHeartbeats, [Next]_vars,
           NEW w \in Worker, Busy(w), Current(w)
    PROVE  \/ rows'[exec[w].job] = rows[exec[w].job]
           \/ rows'[exec[w].job] = Beaten(rows[exec[w].job])
           \/ CompleteSave(w) \/ FailSave(w)
           \/ /\ CompleteThrows(w)
              /\ rows'[exec[w].job] = Completed(rows[exec[w].job])
<1> DEFINE j == exec[w].job
<1>1. j \in DOMAIN rows
    BY DEF StoreInv, TypeOK, ExecTypeOK
<1>2. \/ rows[j].status = "Running" /\ j \notin stale
      \/ rows[j].status = "Completed"
    BY DEF Current, Hidden
<1>3. ASSUME NEW a \in Actor, MayWrite(a, j)
      PROVE  snap[a][j] = rows[j]
    BY <1>3, CheckedContext DEF MayWrite, StoreInv, TypeOK
<1>4. ASSUME NEW c \in Client, MayWrite(<<"client", c>>, j)
      PROVE  FALSE
    BY <1>2, <1>3, <1>4, Actors DEF ContextsTell, MayWrite
<1>5. ASSUME NEW h \in Host, MayWrite(<<"claim", h>>, j)
      PROVE  FALSE
    BY <1>2, <1>3, <1>5, Actors DEF ClaimsArePending, StoreInv, MayWrite
<1>6. ASSUME NEW h \in Host, MayWrite(<<"recover", h>>, j)
      PROVE  FALSE
    BY <1>2, <1>3, <1>6, Actors DEF ContextsTell, MayWrite
<1>7. ASSUME NEW v \in Worker, MayWrite(<<"work", v>>, j)
      PROVE  v = w
    <2>1. snap[<<"work", v>>][j] = rows[j] /\ j \in DOMAIN snap[<<"work", v>>]
        BY <1>3, <1>7, Actors DEF MayWrite
    <2>2. exec[v].attempt = rows[j].attempts
        BY <2>1 DEF PromptExecutions, WorkTells
    <2>3. Busy(v) /\ exec[v].job = j
        BY <2>1 DEF ExecutionsTell
    <2>4. exec[v].attempt = exec[w].attempt
        BY <2>2 DEF Current
    <2>5. QED
        BY <2>3, <2>4 DEF OneExecutionPerAttempt
<1>8. QED
    BY <1>1, <1>4, <1>5, <1>6, <1>7, WhoWrites DEF Written

\* The row that w has loaded is the one of the attempt it executes.
LEMMA WorkTellsStep ==
    ASSUME StoreInv, ExecutionsTell, PromptExecutions, ~faults.lateHeartbeats,
           [Next]_vars, NEW w \in Worker
    PROVE  WorkTells(w)'
<1> DEFINE work == <<"work", w>>
<1> SUFFICES ASSUME NEW j \in DOMAIN snap'[work]
             PROVE  /\ snap'[work][j].attempts = exec'[w].attempt
                    /\ \/ snap'[work][j].status = "Running"
                       \/ /\ snap'[work][j].status = "Completed"
                          /\ faults.dbErrors /\ exec'[w].ok /\ exec'[w].phase = "failing"
    BY FaultsStay DEF WorkTells
<1>1. ExecutionsTell'
    BY ExecutionsTellStep
<1>2. /\ Busy(w)' /\ exec'[w].phase \in {"completing", "failing"}
      /\ j = exec'[w].job /\ snap'[work] # Nothing
    BY <1>1 DEF ExecutionsTell, Nothing
<1>3. ~Ends(w)
    BY <1>2 DEF Ends
<1>4. ~CompleteThrows(w) /\ ~JobThrows(w)
    BY <1>2, OwnSteps DEF Advances
<1>5. \A h \in Host, i \in Job : ~Starts(h, w, i)
    BY <1>2 DEF Starts
<1>6. CASE CompleteRead(w) \/ FailRead(w)
    <2>1. /\ Busy(w) /\ Up(w) /\ snap'[work][j] = rows[j] /\ j = exec[w].job
          /\ exec'[w].attempt = exec[w].attempt
        BY <1>2, <1>6, OwnSteps DEF Advances
    <2>2. Current(w)
        BY <2>1 DEF PromptExecutions
    <2>3. CASE CompleteRead(w)
        BY <2>1, <2>2, <2>3, OwnSteps DEF Current, Hidden, Advances
    <2>4. CASE FailRead(w)
        <3>1. exec'[w].phase = "failing" /\ exec'[w].ok = exec[w].ok
            BY <2>4, OwnSteps DEF Advances
        <3>2. QED
            BY <2>1, <2>2, <3>1 DEF Current, Hidden
    <2>5. QED
        BY <1>6, <2>3, <2>4
<1>7. CASE exec'[w] = exec[w] /\ ~(CompleteRead(w) \/ FailRead(w))
    <2>1. snap'[work] = snap[work]
        BY <1>2, <1>7, Actors, WhoLoads DEF Loads
    <2>2. WorkTells(w)
        BY DEF PromptExecutions
    <2>3. QED
        BY <1>7, <2>1, <2>2 DEF WorkTells
<1>8. QED
    BY <1>3, <1>4, <1>5, <1>6, <1>7, WhoRuns

LEMMA CurrentStep ==
    ASSUME PromptInv, ~faults.lateHeartbeats, [Next]_vars,
           NEW w \in Worker, Busy(w)', Up(w)'
    PROVE  Current(w)'
<1> USE DEF PromptInv
<1> DEFINE j == exec[w].job
<1>1. faults'.dbErrors = faults.dbErrors
    BY FaultsStay
<1>2. ASSUME Busy(w), Up(w)
      PROVE  /\ Current(w) /\ j \in DOMAIN rows /\ rows[j] \in Row
             /\ \/ rows'[j] = rows[j] \/ rows'[j] = Beaten(rows[j])
                \/ CompleteSave(w) \/ FailSave(w)
                \/ CompleteThrows(w) /\ rows'[j] = Completed(rows[j])
    <2>1. Current(w)
        BY <1>2 DEF PromptExecutions
    <2>2. j \in DOMAIN rows /\ rows[j] \in Row
        BY <1>2 DEF StoreInv, TypeOK, ExecTypeOK, StoreTypeOK
    <2>3. QED
        BY <1>2, <2>1, <2>2, OthersSpare
<1>3. \A r \in Row : Beaten(r).status = r.status /\ Beaten(r).attempts = r.attempts
    BY DEF Beaten, Row
<1>4. \A r \in Row : Completed(r).status = "Completed" /\ Completed(r).attempts = r.attempts
    BY DEF Completed, Row
<1>5. exec'[w] # Idle
    BY DEF Busy
<1>6. ~CompleteSave(w) /\ ~FailSave(w) /\ ~Ends(w)
    <2>1. exec \in [Worker -> {Idle} \cup Execution]
        BY DEF StoreInv, TypeOK, ExecTypeOK
    <2>2. Release(w) => exec'[w] = Idle
        BY <2>1 DEF Release
    <2>3. QED
        BY <1>5, <2>2 DEF CompleteSave, FailSave, Ends
<1>7. CASE exec'[w] = exec[w] /\ ~CompleteThrows(w)
    <2>1. Busy(w) /\ w[1] \in Host
        BY <1>5, <1>7 DEF Busy, Worker
    <2>2. Up(w)
        BY <1>5, <2>1, WhoIsUp DEF ExecutionsTell, Up
    <2>3. rows'[j] = rows[j] \/ rows'[j] = Beaten(rows[j])
        BY <1>2, <1>6, <1>7, <2>1, <2>2
    <2>4. rows'[j].status = rows[j].status /\ rows'[j].attempts = rows[j].attempts
        BY <1>2, <1>3, <2>1, <2>2, <2>3
    <2>5. j \notin stale => j \notin stale'
        <3>1. Beating(w, j)
            BY <2>1, <2>2 DEF Beating
        <3>2. ~HeartbeatExpires(j)
            BY <3>1 DEF HeartbeatExpires
        <3>3. QED
            BY <3>2, WhoIsStale
    <2>6. QED
        BY <1>1, <1>2, <1>7, <2>1, <2>2, <2>4, <2>5 DEF Current, Hidden
<1>8. CASE CompleteRead(w) \/ JobThrows(w)
    <2>1. /\ Busy(w) /\ Up(w) /\ exec[w].phase = "running"
          /\ rows' = rows /\ stale' = stale
          /\ exec'[w].job = j /\ exec'[w].attempt = exec[w].attempt
        BY <1>8, OwnSteps DEF Advances
    <2>2. rows[j].status = "Running" /\ j \notin stale /\ exec[w].attempt = rows[j].attempts
        BY <1>2, <2>1 DEF Current, Hidden
    <2>3. QED
        BY <2>1, <2>2 DEF Current
<1>9. CASE CompleteThrows(w)
    <2>1. /\ Busy(w) /\ Up(w) /\ exec[w].phase = "completing" /\ stale' = stale
          /\ exec'[w].job = j /\ exec'[w].attempt = exec[w].attempt
          /\ exec'[w].phase = "threw" /\ exec'[w].ok = exec[w].ok
        BY <1>9, OwnSteps DEF Advances
    <2>2. rows[j].status = "Running" /\ j \notin stale /\ exec[w].attempt = rows[j].attempts
        BY <1>2, <2>1 DEF Current, Hidden
    <2>3. CASE rows'[j] = rows[j] \/ rows'[j] = Beaten(rows[j])
        BY <1>2, <1>3, <2>1, <2>2, <2>3 DEF Current
    <2>4. CASE rows' # rows /\ rows'[j] = Completed(rows[j])
        <3>1. faults.dbErrors /\ exec[w].ok
            BY <1>9, <2>1, <2>4 DEF CompleteThrows, ExecutionsTell
        <3>2. rows'[j].status = "Completed" /\ rows'[j].attempts = rows[j].attempts
            BY <1>2, <1>4, <2>1, <2>4
        <3>3. QED
            BY <1>1, <2>1, <2>2, <3>1, <3>2 DEF Current, Hidden
    <2>5. QED
        BY <1>2, <1>6, <2>1, <2>3, <2>4
<1>10. CASE FailRead(w)
    <2>1. /\ Busy(w) /\ Up(w) /\ rows' = rows /\ stale' = stale
          /\ exec'[w].job = j /\ exec'[w].attempt = exec[w].attempt
          /\ exec'[w].phase = "failing" /\ exec'[w].ok = exec[w].ok
        BY <1>10, OwnSteps DEF Advances
    <2>2. QED
        BY <1>1, <1>2, <2>1 DEF Current, Hidden
<1>11. ASSUME NEW h \in Host, NEW i \in Job, Starts(h, w, i)
       PROVE  Current(w)'
    <2>1. i \in DOMAIN rows /\ rows[i] \in Row
        BY <1>11 DEF Starts, StoreInv, TypeOK, StoreTypeOK
    <2>2. rows'[i].status = "Running" /\ rows'[i].attempts = rows[i].attempts + 1
        BY <1>11, <2>1 DEF Starts, Claimed, Row
    <2>3. QED
        BY <1>11, <2>2 DEF Starts, Current
<1>12. QED
    BY <1>6, <1>7, <1>8, <1>9, <1>10, <1>11, WhoRuns

LEMMA PromptInvInit ==
    ASSUME PersistentJobsAssumption, Init
    PROVE  PromptInv
<1>1. StoreInv
    BY StoreInvInit
<1>2. DOMAIN rows = {} /\ \A a \in Actor : snap[a] = Nothing /\ DOMAIN snap[a] = {}
    BY DEF Init, Nothing
<1>3. \A w \in Worker : ~Busy(w)
    BY DEF Init, Busy
<1>4. AttemptsInv /\ OneExecutionPerAttempt
    BY <1>2, <1>3 DEF AttemptsInv, AttemptsBounded, FailedIsExhausted, OneExecutionPerAttempt
<1>5. ContextsTell /\ ExecutionsTell /\ PromptExecutions
    BY <1>2, <1>3, Actors
       DEF ContextsTell, ExecutionsTell, Opened, PromptExecutions, WorkTells
<1>6. QED
    BY <1>1, <1>4, <1>5 DEF PromptInv

LEMMA PromptInvStep ==
    ASSUME PersistentJobsAssumption, PromptInv, [Next]_vars
    PROVE  PromptInv'
<1>1. StoreInv' /\ AttemptsInv' /\ OneExecutionPerAttempt'
    BY StoreInvStep, AttemptsStep, OneExecutionStep DEF PromptInv
<1>2. ContextsTell' /\ ExecutionsTell'
    BY ContextsTellStep, ExecutionsTellStep DEF PromptInv
<1>3. PromptExecutions'
    <2> SUFFICES ASSUME ~faults.lateHeartbeats', NEW w \in Worker
                 PROVE  (Busy(w)' /\ Up(w)' => Current(w)') /\ WorkTells(w)'
        BY DEF PromptExecutions
    <2>1. ~faults.lateHeartbeats
        BY FaultsStay DEF PromptInv
    <2>2. QED
        BY <2>1, CurrentStep, WorkTellsStep DEF PromptInv
<1>4. QED
    BY <1>1, <1>2, <1>3 DEF PromptInv

\* With heartbeats in time, the executions of instances that are up run current
\* attempts, and contexts that are up to date tell the truth about their rows.
THEOREM PromptCorrect == Spec => []PromptInv
<1>1. Init => PromptInv
    BY PromptInvInit, PersistentJobsAssumption
<1>2. PromptInv /\ [Next]_vars => PromptInv'
    BY PromptInvStep, PersistentJobsAssumption
<1>3. QED
    BY <1>1, <1>2, PTL DEF Spec

\* With heartbeats in time no job runs twice at once on instances that are not
\* shutting down, whatever crashes and is recovered.
THEOREM ExclusiveCorrect == Spec => []ExclusiveExecution
<1>1. PromptInv => ExclusiveExecution
    BY DEF PromptInv, PromptExecutions, Current, OneExecutionPerAttempt, ExclusiveExecution
<1>2. QED
    BY <1>1, PromptCorrect, PTL

-----------------------------------------------------------------------------
(* What becomes of jobs. *)

\* With heartbeats in time a row is moved only by somebody who may move it.
LEMMA Fates ==
    ASSUME PromptInv, [Next]_vars, ~faults.lateHeartbeats, NEW j \in DOMAIN rows
    PROVE  \/ rows'[j] = rows[j]
           \/ rows'[j] = Beaten(rows[j])
           \/ rows[j].status = "Pending" /\ rows'[j] = Cancelled(rows[j])
           \/ rows[j].status = "Pending" /\ \E h \in Host : rows'[j] = Claimed(h, rows[j])
           \/ rows[j].status = "Running" /\ rows'[j] = Completed(rows[j])
           \/ rows[j].status = "Running" /\ rows'[j] = RetryOrFail(rows[j])
           \/ Misreported(j)
<1> USE DEF PromptInv
<1>1. ASSUME NEW a \in Actor, MayWrite(a, j)
      PROVE  snap[a][j] = rows[j] /\ j \in DOMAIN snap[a]
    BY <1>1, CheckedContext DEF MayWrite, StoreInv, TypeOK
<1>2. ASSUME NEW c \in Client, MayWrite(<<"client", c>>, j)
      PROVE  rows[j].status = "Pending"
    BY <1>1, <1>2, Actors DEF ContextsTell
<1>3. ASSUME NEW h \in Host, MayWrite(<<"claim", h>>, j)
      PROVE  rows[j].status = "Pending"
    BY <1>1, <1>3, Actors DEF ClaimsArePending, StoreInv
<1>4. ASSUME NEW h \in Host, MayWrite(<<"recover", h>>, j)
      PROVE  rows[j].status = "Running"
    BY <1>1, <1>4, Actors DEF ContextsTell
<1>5. ASSUME NEW w \in Worker, MayWrite(<<"work", w>>, j)
      PROVE  /\ Busy(w) /\ exec[w].job = j /\ exec[w].attempt = rows[j].attempts
             /\ \/ rows[j].status = "Running"
                \/ /\ rows[j].status = "Completed"
                   /\ faults.dbErrors /\ exec[w].ok /\ exec[w].phase = "failing"
    <2>1. snap[<<"work", w>>][j] = rows[j] /\ j \in DOMAIN snap[<<"work", w>>]
        BY <1>1, <1>5, Actors
    <2>2. Busy(w) /\ exec[w].job = j
        BY <2>1 DEF ExecutionsTell
    <2>3. WorkTells(w)
        BY DEF PromptExecutions
    <2>4. QED
        BY <2>1, <2>2, <2>3 DEF WorkTells
<1>6. ASSUME NEW w \in Worker, MayWrite(<<"work", w>>, j)
      PROVE  rows[j].status = "Running" \/ Misreported(j)
    BY <1>5, <1>6 DEF Misreported
<1>7. QED
    BY <1>2, <1>3, <1>4, <1>6, WhoWrites DEF Written

\* With heartbeats in time a settled job stays settled, unless the database
\* reported the save that completed it as an error.
THEOREM SettledStaysSettled == Spec => TerminalIsFinal
<1>1. ASSUME PromptInv, [Next]_vars
      PROVE  [\A j \in DOMAIN rows :
                (rows[j].status \in Terminal /\ ~faults.lateHeartbeats)
                   => rows'[j].status = rows[j].status \/ Misreported(j)]_rows
    <2> SUFFICES ASSUME NEW j \in DOMAIN rows, rows[j].status \in Terminal,
                        ~faults.lateHeartbeats, ~Misreported(j)
                 PROVE  rows'[j].status = rows[j].status
        OBVIOUS
    <2>1. rows[j] \in Row
        BY <1>1 DEF PromptInv, StoreInv, TypeOK, StoreTypeOK
    <2>2. rows'[j] = rows[j] \/ rows'[j] = Beaten(rows[j])
        BY <1>1, Fates DEF Terminal
    <2>3. QED
        BY <2>1, <2>2 DEF Beaten, Row
<1>2. QED
    BY <1>1, PromptCorrect, PTL DEF Spec, TerminalIsFinal

\* In an environment with promises, every job moves as JobLifecycle allows.
LEMMA JobMoves ==
    ASSUME PersistentJobsAssumption, PromptInv, [Next]_vars,
           ~faults.lateHeartbeats, ~faults.dbErrors, NEW j \in DOMAIN rows
    PROVE  LET s == rows[j].status  t == rows'[j].status
               m == rows[j].attempts  n == rows'[j].attempts
           IN  \/ s = t /\ n = m
               \/ s = "Pending" /\ t = "Cancelled" /\ n = m
               \/ s = "Pending" /\ t = "Running" /\ m < MaxAttempts /\ n = m + 1
               \/ s = "Running" /\ t = "Completed" /\ n = m
               \/ s = "Running" /\ t = "Pending" /\ n = m /\ m < MaxAttempts
               \/ s = "Running" /\ t = "Failed" /\ n = m /\ m = MaxAttempts
<1>1. rows[j] \in Row
    BY DEF PromptInv, StoreInv, TypeOK, StoreTypeOK
<1>2. /\ rows[j].attempts \in Nat /\ MaxAttempts \in Nat
      /\ rows[j].attempts <= MaxAttempts
      /\ rows[j].status = "Pending" => rows[j].attempts < MaxAttempts
    BY <1>1 DEF PromptInv, AttemptsInv, AttemptsBounded, PersistentJobsAssumption, Row
<1>3. ~Misreported(j)
    BY DEF Misreported
<1>4. CASE rows'[j] = rows[j]
    BY <1>4
<1>5. CASE rows'[j] = Beaten(rows[j])
    BY <1>1, <1>5 DEF Beaten, Row
<1>6. CASE rows[j].status = "Pending" /\ rows'[j] = Cancelled(rows[j])
    BY <1>1, <1>6 DEF Cancelled, Row
<1>7. ASSUME rows[j].status = "Pending", NEW h \in Host, rows'[j] = Claimed(h, rows[j])
      PROVE  rows'[j].status = "Running" /\ rows'[j].attempts = rows[j].attempts + 1
    BY <1>1, <1>7 DEF Claimed, Row
<1>8. CASE rows[j].status = "Running" /\ rows'[j] = Completed(rows[j])
    BY <1>1, <1>8 DEF Completed, Row
<1>9. CASE rows[j].status = "Running" /\ rows'[j] = RetryOrFail(rows[j])
    <2>1. CASE rows[j].attempts < MaxAttempts
        BY <1>1, <1>9, <2>1 DEF RetryOrFail, Row
    <2>2. CASE ~(rows[j].attempts < MaxAttempts)
        <3>1. rows'[j].status = "Failed" /\ rows'[j].attempts = rows[j].attempts
            BY <1>1, <1>9, <2>2 DEF RetryOrFail, Row
        <3>2. rows[j].attempts = MaxAttempts
            BY <1>2, <2>2
        <3>3. QED
            BY <1>9, <3>1, <3>2
    <2>3. QED
        BY <2>1, <2>2
<1>10. QED
    BY <1>2, <1>3, <1>4, <1>5, <1>6, <1>7, <1>8, <1>9, Fates

\* With heartbeats in time and no database errors the queue implements
\* JobLifecycle.
THEOREM RefinesLifecycle == Spec => ImplementsLifecycle
<1>1. Init => Lifecycle!Init
    BY DEF Init, Nothing, Promised, statusBar, attemptsBar, Lifecycle!Init
<1>2. ASSUME PromptInv, PromptInv', [Next]_vars
      PROVE  Lifecycle!Next
    <2>1. \A j \in DOMAIN rows' : rows'[j].status \in Status /\ rows'[j].attempts \in Nat
        BY <1>2 DEF PromptInv, StoreInv, TypeOK, StoreTypeOK, Row
    <2>2. statusBar' \in [Job -> Lifecycle!State]
        BY <2>1 DEF statusBar, Promised, Status, Lifecycle!State
    <2>3. attemptsBar' \in [Job -> Nat]
        BY <2>1 DEF attemptsBar, Promised
    <2>4. ASSUME NEW j \in Job
          PROVE  \/ Lifecycle!Stays(j) \/ Lifecycle!Enqueue(j) \/ Lifecycle!Start(j)
                 \/ Lifecycle!Complete(j) \/ Lifecycle!Retry(j) \/ Lifecycle!Fail(j)
                 \/ Lifecycle!Cancel(j)
        <3>1. CASE faults.lateHeartbeats \/ faults.dbErrors
            <4>1. Promised = {} /\ Promised' = {}
                BY <1>2, <3>1, FaultsStay DEF Promised, PromptInv
            <4>2. QED
                BY <4>1 DEF statusBar, attemptsBar, Lifecycle!Stays
        <3>2. CASE ~(faults.lateHeartbeats \/ faults.dbErrors)
            <4>1. Promised = DOMAIN rows /\ Promised' = DOMAIN rows'
                BY <1>2, <3>2, FaultsStay DEF Promised, PromptInv
            <4>2. RowsStep
                BY <1>2, RowSteps DEF PromptInv
            <4>3. CASE j \in DOMAIN rows
                <5>1. /\ statusBar[j] = rows[j].status /\ statusBar'[j] = rows'[j].status
                      /\ attemptsBar[j] = rows[j].attempts
                      /\ attemptsBar'[j] = rows'[j].attempts
                    BY <4>1, <4>2, <4>3 DEF statusBar, attemptsBar, RowsStep
                <5>2. QED
                    BY <1>2, <3>2, <4>3, <5>1, JobMoves, PersistentJobsAssumption
                       DEF Lifecycle!Stays, Lifecycle!Start, Lifecycle!Complete,
                           Lifecycle!Retry, Lifecycle!Fail, Lifecycle!Cancel,
                           Lifecycle!Moves
            <4>4. CASE j \notin DOMAIN rows /\ j \in DOMAIN rows'
                <5>1. rows'[j].status = "Pending" /\ rows'[j].attempts = 0
                    BY <4>2, <4>4 DEF RowsStep, NewJob
                <5>2. QED
                    BY <4>1, <4>4, <5>1
                       DEF statusBar, attemptsBar, Lifecycle!Enqueue, Lifecycle!Moves
            <4>5. CASE j \notin DOMAIN rows /\ j \notin DOMAIN rows'
                BY <4>1, <4>5 DEF statusBar, attemptsBar, Lifecycle!Stays
            <4>6. QED
                BY <4>3, <4>4, <4>5
        <3>3. QED
            BY <3>1, <3>2
    <2>5. QED
        BY <2>2, <2>3, <2>4 DEF Lifecycle!Next
<1>3. PromptInv /\ PromptInv' /\ [Next]_vars => [Lifecycle!Next]_<<statusBar, attemptsBar>>
    BY <1>2
<1>4. QED
    BY <1>1, <1>3, PromptCorrect, PTL DEF Spec, ImplementsLifecycle, Lifecycle!Spec

-----------------------------------------------------------------------------
(* Idempotency keys. *)

\* No row blocks the key that a caller is about to insert.
KeysAreFree ==
    \A c \in Client : \A k \in enqueuing[c] : \A j \in DOMAIN rows :
        k # NoKey => ~Blocks(j, k)

\* With heartbeats in time.
KeysInv ==
    ~faults.lateHeartbeats => KeysAreFree /\ OneActiveJobPerKeyInWindow

\* A stored row keeps its key, and once Failed or Cancelled stays that.
LEMMA KeysStay ==
    ASSUME PromptInv, [Next]_vars, ~faults.lateHeartbeats, NEW j \in DOMAIN rows
    PROVE  /\ j \in DOMAIN rows' /\ rows'[j].key = rows[j].key
           /\ rows[j].status \in {"Failed", "Cancelled"} =>
                 rows'[j].status \in {"Failed", "Cancelled"}
<1>1. rows[j] \in Row
    BY DEF PromptInv, StoreInv, TypeOK, StoreTypeOK
<1>2. j \in DOMAIN rows' /\ (rows'[j] = rows[j] \/ RowEdit(rows[j], rows'[j]))
    BY RowSteps DEF RowsStep, PromptInv
<1>3. rows'[j].key = rows[j].key
    <2>1. \A h \in Host : Claimed(h, rows[j]).key = rows[j].key
        BY <1>1 DEF Claimed, Row
    <2>2. RetryOrFail(rows[j]).key = rows[j].key
        BY <1>1 DEF RetryOrFail, Row
    <2>3. /\ Cancelled(rows[j]).key = rows[j].key /\ Completed(rows[j]).key = rows[j].key
          /\ Beaten(rows[j]).key = rows[j].key
        BY <1>1 DEF Cancelled, Completed, Beaten, Row
    <2>4. QED
        BY <1>2, <2>1, <2>2, <2>3 DEF RowEdit
<1>4. Beaten(rows[j]).status = rows[j].status
    BY <1>1 DEF Beaten, Row
<1>5. QED
    BY <1>2, <1>3, <1>4, Fates DEF Misreported

LEMMA KeysStep ==
    ASSUME \A c, d \in Client : c = d, PromptInv, KeysInv, [Next]_vars
    PROVE  KeysInv'
<1> SUFFICES ASSUME ~faults.lateHeartbeats
             PROVE  KeysAreFree' /\ OneActiveJobPerKeyInWindow'
    BY FaultsStay DEF KeysInv, PromptInv
<1>1. KeysAreFree /\ OneActiveJobPerKeyInWindow
    BY DEF KeysInv
<1>2. \A j \in DOMAIN rows :
         /\ j \in DOMAIN rows' /\ rows'[j].key = rows[j].key
         /\ rows[j].status \in {"Failed", "Cancelled"} =>
               rows'[j].status \in {"Failed", "Cancelled"}
    BY KeysStay
<1>3. enqueuing \in [Client -> SUBSET (Key \cup {NoKey})]
    BY DEF PromptInv, StoreInv, TypeOK
<1>4. ASSUME NEW c \in Client, EnqueueInsert(c)
      PROVE  KeysAreFree' /\ OneActiveJobPerKeyInWindow'
    <2>1. PICK k \in enqueuing[c], p \in Priority, j \in Job :
             /\ Insert(j, NewJob(k, p))
             /\ recent' = IF k = NoKey THEN recent ELSE recent \cup {j}
        BY <1>4 DEF EnqueueInsert
    <2>2. /\ DOMAIN rows' = DOMAIN rows \cup {j} /\ j \notin DOMAIN rows
          /\ rows'[j].key = k
          /\ \A i \in DOMAIN rows : rows'[i] = rows[i]
        BY <2>1 DEF Insert, NewJob
    <2>3. \A d \in Client : enqueuing'[d] = {}
        BY <1>3, <1>4 DEF EnqueueInsert
    <2>4. KeysAreFree'
        BY <2>3 DEF KeysAreFree
    <2>5. ASSUME NEW i \in DOMAIN rows, k # NoKey, rows'[i].key = k,
                 rows'[i].status \notin {"Failed", "Cancelled"}
          PROVE  i \notin recent'
        <3>1. i \notin recent
            BY <1>1, <2>2, <2>5 DEF KeysAreFree, Blocks
        <3>2. QED
            BY <2>1, <2>2, <3>1
    <2>6. ASSUME NEW i \in DOMAIN rows', NEW l \in DOMAIN rows', i # l,
                 rows'[i].key = rows'[l].key, rows'[i].key # NoKey,
                 rows'[i].status \notin {"Failed", "Cancelled"},
                 rows'[l].status \notin {"Failed", "Cancelled"}
          PROVE  i \notin recent' \/ l \notin recent'
        <3>1. CASE i = j \/ l = j
            BY <2>2, <2>5, <2>6, <3>1
        <3>2. CASE i # j /\ l # j
            <4>1. /\ i \in DOMAIN rows /\ l \in DOMAIN rows
                  /\ rows'[i] = rows[i] /\ rows'[l] = rows[l]
                BY <2>2, <2>6, <3>2
            <4>2. i \notin recent \/ l \notin recent
                BY <1>1, <2>6, <4>1 DEF OneActiveJobPerKeyInWindow
            <4>3. QED
                BY <2>1, <3>2, <4>2
        <3>3. QED
            BY <3>1, <3>2
    <2>7. QED
        BY <2>4, <2>6 DEF OneActiveJobPerKeyInWindow
<1>5. ASSUME DOMAIN rows' = DOMAIN rows, recent' \subseteq recent
      PROVE  /\ OneActiveJobPerKeyInWindow'
             /\ \A k : \A j \in DOMAIN rows' : Blocks(j, k)' => Blocks(j, k)
    BY <1>1, <1>2, <1>5 DEF OneActiveJobPerKeyInWindow, Blocks
<1>6. ASSUME \A c \in Client : ~EnqueueInsert(c)
      PROVE  DOMAIN rows' = DOMAIN rows /\ recent' \subseteq recent
    <2>1. ASSUME NEW h \in Host, ClaimSave(h) \/ ClaimLost(h)
          PROVE  DOMAIN rows' = DOMAIN rows /\ recent' \subseteq recent
        BY <2>1 DEF ClaimSave, ClaimLost, Save
    <2>2. ASSUME NEW w \in Worker, WorkerStep(w)
          PROVE  DOMAIN rows' = DOMAIN rows /\ recent' \subseteq recent
        BY <2>2
           DEF WorkerStep, CompleteRead, CompleteSave, CompleteThrows, JobThrows,
               FailRead, FailSave, FailThrows, Interrupted, Save, store, time
    <2>3. ASSUME NEW w \in Worker, BeatStep(w)
          PROVE  DOMAIN rows' = DOMAIN rows /\ recent' \subseteq recent
        BY <2>3 DEF BeatStep, BeatRead, BeatSave, BeatConflict, Save, time
    <2>4. ASSUME NEW h \in Host, RecoverStep(h) \/ HostStep(h)
          PROVE  DOMAIN rows' = DOMAIN rows /\ recent' \subseteq recent
        BY <2>4
           DEF RecoverStep, RecoverRead, RecoverSave, RecoverThrows, HostStep, Stop,
               Exit, Crash, Restart, Gone, Save, store, time
    <2>5. ASSUME NEW c \in Client, ClientStep(c)
          PROVE  DOMAIN rows' = DOMAIN rows /\ recent' \subseteq recent
        BY <1>6, <2>5
           DEF ClientStep, EnqueueCheck, CancelRead, CancelSave, CancelThrows, Save, time
    <2>6. ASSUME NEW j \in Job, TimeStep(j)
          PROVE  DOMAIN rows' = DOMAIN rows /\ recent' \subseteq recent
        BY <2>6 DEF TimeStep, HeartbeatExpires, RetryBecomesDue, WindowPasses, store
    <2>7. ASSUME NEW h \in Host, ClaimStep(h)
          PROVE  DOMAIN rows' = DOMAIN rows /\ recent' \subseteq recent
        BY <2>1, <2>7 DEF ClaimStep, ClaimRead, ClaimNothing, ClaimConflict, store, time
    <2>8. QED
        BY <2>2, <2>3, <2>4, <2>5, <2>6, <2>7 DEF Next, vars
<1>7. ASSUME NEW c \in Client, NEW k \in Key \cup {NoKey}, EnqueueCheck(c, k)
      PROVE  KeysAreFree'
    BY <1>3, <1>7 DEF EnqueueCheck, KeysAreFree, Blocks, time
<1>8. ASSUME \A c \in Client : ~EnqueueInsert(c),
             \A c \in Client, k \in Key \cup {NoKey} : ~EnqueueCheck(c, k)
      PROVE  enqueuing' = enqueuing
    BY <1>8
       DEF Next, ClientStep, CancelRead, CancelSave, CancelThrows, ClaimStep, ClaimRead,
           ClaimNothing, ClaimSave, ClaimConflict,
           ClaimLost, RecoverStep, RecoverRead, RecoverSave,
           RecoverThrows, HostStep, Stop, Exit, Crash, Restart, Gone, WorkerStep,
           CompleteRead, CompleteSave, CompleteThrows, JobThrows, FailRead, FailSave,
           FailThrows, Interrupted, BeatStep, BeatRead, BeatSave, BeatConflict, TimeStep,
           HeartbeatExpires, RetryBecomesDue, WindowPasses, vars
<1>9. CASE \A c \in Client : ~EnqueueInsert(c)
    <2>1. /\ OneActiveJobPerKeyInWindow'
          /\ \A k : \A j \in DOMAIN rows' : Blocks(j, k)' => Blocks(j, k)
        BY <1>5, <1>6, <1>9
    <2>2. enqueuing' = enqueuing => KeysAreFree'
        BY <1>1, <1>6, <1>9, <2>1 DEF KeysAreFree
    <2>3. QED
        BY <1>7, <1>8, <1>9, <2>1, <2>2
<1>10. QED
    BY <1>4, <1>9

\* With one caller and heartbeats in time, of two active jobs with the same
\* key one has left the idempotency window.
THEOREM KeysExclusive ==
    ASSUME \A c, d \in Client : c = d
    PROVE  Spec => [](~faults.lateHeartbeats => OneActiveJobPerKeyInWindow)
<1>1. Init => KeysInv
    BY DEF Init, Nothing, KeysInv, KeysAreFree, OneActiveJobPerKeyInWindow
<1>2. PromptInv /\ KeysInv /\ [Next]_vars => KeysInv'
    BY KeysStep
<1>3. KeysInv => (~faults.lateHeartbeats => OneActiveJobPerKeyInWindow)
    BY DEF KeysInv
<1>4. QED
    BY <1>1, <1>2, <1>3, PromptCorrect, PTL DEF Spec
=============================================================================
