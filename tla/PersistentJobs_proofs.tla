----------------------- MODULE PersistentJobs_proofs -----------------------
(***************************************************************************)
(* Proofs about PersistentJobs, for any number of instances, permits,      *)
(* clients, jobs and attempts, with late heartbeats, database errors,      *)
(* shutdowns and crashes.                                                  *)
(*                                                                         *)
(* The argument: because every write increments Version, a context that    *)
(* passes the concurrency check holds exactly the stored rows              *)
(* (NoLostUpdate).  So every step changes a stored row by one of five      *)
(* edits of that very row (RowSteps), and what is left to show about rows  *)
(* is a statement about these edits.                                       *)
(***************************************************************************)
EXTENDS PersistentJobs, DbContext_proofs, FiniteSetTheorems

\* The context of a claim holds rows that were Pending when it was loaded.
ClaimsArePending ==
    \A h \in Host : \A j \in DOMAIN snap[<<"claim", h>>] :
        snap[<<"claim", h>>][j].status = "Pending"

\* What the stores and contexts satisfy in every reachable state.
StoreInv == TypeOK /\ NoLostUpdate /\ ClaimsArePending

\* The edits that writers apply to a stored row r.
RowEdit(r, s) ==
    \/ s = Cancelled(r)
    \/ r.status = "Pending" /\ \E h \in Host : s = Claimed(h, r)
    \/ s = Completed(r)
    \/ s = RetryOrFail(r)
    \/ s = Beaten(r)

\* A step edits stored rows and adds new ones, never removes one.
RowsStep ==
    /\ DOMAIN rows' \subseteq Job /\ IsFiniteSet(DOMAIN rows')
    /\ \A j \in DOMAIN rows :
          /\ j \in DOMAIN rows'
          /\ rows'[j] = rows[j] \/ RowEdit(rows[j], rows'[j])
    /\ \A j \in DOMAIN rows' \ DOMAIN rows :
          \E k \in Key \cup {NoKey}, p \in Priority : rows'[j] = NewJob(k, p)

-----------------------------------------------------------------------------
LEMMA FieldsTyped ==
    ASSUME NEW r \in Row
    PROVE  /\ \A v \in Status : [r EXCEPT !.status = v] \in Row
           /\ \A v \in BOOLEAN : [r EXCEPT !.completed = v] \in Row
           /\ \A v \in Host \cup {NoHost} : [r EXCEPT !.owner = v] \in Row
           /\ \A v \in Nat : [r EXCEPT !.attempts = v] \in Row
           /\ \A v \in Nat : [r EXCEPT !.version = v] \in Row
BY DEF Row

\* The edits keep the type of a row.
LEMMA EditsInRow ==
    ASSUME NEW r \in Row, NEW s, RowEdit(r, s)
    PROVE  s \in Row
<1>1. r.version + 1 \in Nat /\ r.attempts + 1 \in Nat
    BY DEF Row
<1>2. \A q \in {"Cancelled", "Completed", "Failed"} :
         [r EXCEPT !.status = q, !.completed = TRUE] \in Row
    <2> TAKE q \in {"Cancelled", "Completed", "Failed"}
    <2>1. [r EXCEPT !.status = q] \in Row
        BY FieldsTyped DEF Status
    <2>2. QED
        BY <2>1, FieldsTyped
<1>3. CASE s = Cancelled(r)
    BY <1>1, <1>2, <1>3, FieldsTyped DEF Cancelled
<1>4. ASSUME NEW h \in Host, s = Claimed(h, r)
      PROVE  s \in Row
    <2>1. [r EXCEPT !.status = "Running"] \in Row
        BY FieldsTyped DEF Status
    <2>2. [r EXCEPT !.status = "Running", !.owner = h] \in Row
        BY <2>1, FieldsTyped
    <2>3. [r EXCEPT !.status = "Running", !.owner = h,
                    !.attempts = r.attempts + 1] \in Row
        BY <1>1, <2>2, FieldsTyped
    <2>4. QED
        BY <1>1, <1>4, <2>3, FieldsTyped DEF Claimed
<1>5. CASE s = Completed(r)
    BY <1>1, <1>2, <1>5, FieldsTyped DEF Completed
<1>6. CASE s = RetryOrFail(r)
    <2>1. [r EXCEPT !.status = "Pending"] \in Row
        BY FieldsTyped DEF Status
    <2>2. [r EXCEPT !.status = "Pending", !.owner = NoHost] \in Row
        BY <2>1, FieldsTyped
    <2>3. QED
        BY <1>1, <1>2, <1>6, <2>2, FieldsTyped DEF RetryOrFail
<1>7. CASE s = Beaten(r)
    BY <1>1, <1>7, FieldsTyped DEF Beaten
<1>8. QED
    BY <1>3, <1>4, <1>5, <1>6, <1>7 DEF RowEdit

\* The edits increment Version and never lower the attempts.
LEMMA EditsCount ==
    ASSUME NEW r \in Row, NEW s, RowEdit(r, s)
    PROVE  s.version = r.version + 1 /\ s.attempts >= r.attempts
<1>1. r.attempts \in Nat
    BY DEF Row
<1>2. CASE s = Cancelled(r)
    BY <1>1, <1>2 DEF Cancelled, Row
<1>2a. CASE s = Completed(r)
    BY <1>1, <1>2a DEF Completed, Row
<1>3. ASSUME NEW h \in Host, s = Claimed(h, r)
      PROVE  s.version = r.version + 1 /\ s.attempts >= r.attempts
    BY <1>1, <1>3 DEF Claimed, Row
<1>4. CASE s = RetryOrFail(r)
    <2>1. CASE r.attempts < MaxAttempts
        BY <1>1, <1>4, <2>1 DEF RetryOrFail, Row
    <2>2. CASE ~(r.attempts < MaxAttempts)
        BY <1>1, <1>4, <2>2 DEF RetryOrFail, Row
    <2>3. QED
        BY <2>1, <2>2
<1>5. CASE s = Beaten(r)
    BY <1>1, <1>5 DEF Beaten, Row
<1>6. QED
    BY <1>2, <1>2a, <1>3, <1>4, <1>5 DEF RowEdit

\* A context that passes the concurrency check holds the stored rows.
LEMMA CheckedContext ==
    ASSUME StoreTypeOK, NoLostUpdate, NEW a \in Actor, Unchanged(a),
           NEW j \in DOMAIN snap[a]
    PROVE  j \in DOMAIN rows /\ snap[a][j] = rows[j]
BY DEF StoreTypeOK, NoLostUpdate, Unchanged

LEMMA Actors ==
    /\ \A h \in Host : <<"claim", h>> \in Actor /\ <<"recover", h>> \in Actor
    /\ \A w \in Worker : <<"work", w>> \in Actor /\ <<"beat", w>> \in Actor
    /\ \A c \in Client : <<"client", c>> \in Actor
BY DEF Actor

\* Only the claim of h has the name <<"claim", h>>.
LEMMA ClaimActors ==
    ASSUME NEW h \in Host
    PROVE  /\ \A g : <<"recover", g>> # <<"claim", h>>
           /\ \A w : <<"work", w>> # <<"claim", h>> /\ <<"beat", w>> # <<"claim", h>>
           /\ \A c : <<"client", c>> # <<"claim", h>>
OBVIOUS

-----------------------------------------------------------------------------
\* Every step edits rows as RowsStep says.
LEMMA RowSteps ==
    ASSUME StoreInv, [Next]_vars
    PROVE  RowsStep
<1> USE DEF StoreInv, TypeOK
<1>0. DOMAIN rows \subseteq Job /\ IsFiniteSet(DOMAIN rows)
    BY DEF StoreTypeOK
<1>1. CASE UNCHANGED rows
    BY <1>0, <1>1 DEF RowsStep
<1>2. ASSUME NEW c \in Client, EnqueueInsert(c)
      PROVE  RowsStep
    <2>1. PICK k \in enqueuing[c], p \in Priority, j \in Job : Insert(j, NewJob(k, p))
        BY <1>2 DEF EnqueueInsert
    <2>2. k \in Key \cup {NoKey}
        OBVIOUS
    <2>3. /\ DOMAIN rows' = DOMAIN rows \cup {j}
          /\ rows'[j] = NewJob(k, p)
          /\ \A i \in DOMAIN rows : rows'[i] = rows[i]
        BY <2>1 DEF Insert
    <2>4. DOMAIN rows' \subseteq Job /\ IsFiniteSet(DOMAIN rows')
        BY <1>0, <2>3, FS_AddElement
    <2>5. QED
        BY <2>2, <2>3, <2>4 DEF RowsStep
<1>3. ASSUME NEW c \in Client, CancelSave(c)
      PROVE  RowsStep
    BY <1>0, <1>3, Actors, CheckedContext DEF CancelSave, Save, Tracks, RowsStep, RowEdit
<1>4. ASSUME NEW h \in Host, ClaimSave(h) \/ ClaimLost(h)
      PROVE  RowsStep
    <2>1. Unchanged(<<"claim", h>>) /\ <<"claim", h>> \in Actor
        BY <1>4, Actors DEF ClaimSave, ClaimLost, Save
    <2>2. rows' = [j \in DOMAIN rows |->
                     IF Tracks(<<"claim", h>>, j)
                     THEN Claimed(h, snap[<<"claim", h>>][j]) ELSE rows[j]]
        BY <1>4 DEF ClaimSave, ClaimLost, Save
    <2>3. ASSUME NEW j \in DOMAIN rows, j \in DOMAIN snap[<<"claim", h>>]
          PROVE  rows[j].status = "Pending" /\ rows'[j] = Claimed(h, rows[j])
        <3>1. snap[<<"claim", h>>][j] = rows[j]
            BY <2>1, <2>3, CheckedContext
        <3>2. snap[<<"claim", h>>][j].status = "Pending"
            BY <2>3 DEF ClaimsArePending
        <3>3. QED
            BY <2>2, <2>3, <3>1, <3>2 DEF Tracks
    <2>4. ASSUME NEW j \in DOMAIN rows, j \notin DOMAIN snap[<<"claim", h>>]
          PROVE  rows'[j] = rows[j]
        BY <2>2, <2>4 DEF Tracks
    <2>5. QED
        BY <1>0, <2>2, <2>3, <2>4 DEF RowsStep, RowEdit
<1>5. ASSUME NEW w \in Worker, CompleteSave(w) \/ CompleteThrows(w)
      PROVE  RowsStep
    <2>1. UNCHANGED rows \/ Save(<<"work", w>>, Completed)
        BY <1>5 DEF CompleteSave, CompleteThrows
    <2>2. ASSUME Save(<<"work", w>>, Completed)
          PROVE  RowsStep
        BY <1>0, <2>2, Actors, CheckedContext DEF Save, Tracks, RowsStep, RowEdit
    <2>3. QED
        BY <2>1, <2>2, <1>1
<1>6. ASSUME NEW w \in Worker, FailSave(w)
      PROVE  RowsStep
    BY <1>0, <1>6, Actors, CheckedContext DEF FailSave, Save, Tracks, RowsStep, RowEdit
<1>7. ASSUME NEW w \in Worker, BeatSave(w)
      PROVE  RowsStep
    BY <1>0, <1>7, Actors, CheckedContext DEF BeatSave, Save, Tracks, RowsStep, RowEdit
<1>8. ASSUME NEW h \in Host, RecoverSave(h)
      PROVE  RowsStep
    BY <1>0, <1>8, Actors, CheckedContext DEF RecoverSave, Save, Tracks, RowsStep, RowEdit
<1>9. ASSUME NEW c \in Client, ClientStep(c)
      PROVE  RowsStep
    BY <1>9, <1>1, <1>2, <1>3 DEF ClientStep, EnqueueCheck, CancelRead, CancelThrows
<1>10. ASSUME NEW h \in Host, ClaimStep(h) \/ RecoverStep(h) \/ HostStep(h)
       PROVE  RowsStep
    BY <1>10, <1>1, <1>4, <1>8
       DEF ClaimStep, ClaimRead, ClaimNothing, ClaimConflict, RecoverStep,
           RecoverRead, RecoverThrows, HostStep, Stop, Exit, Crash, Restart, Gone, store
<1>11. ASSUME NEW w \in Worker, WorkerStep(w) \/ BeatStep(w)
       PROVE  RowsStep
    BY <1>11, <1>1, <1>5, <1>6, <1>7
       DEF WorkerStep, CompleteRead, JobThrows, FailRead, FailThrows, Interrupted,
           BeatStep, BeatRead, BeatConflict, store
<1>12. ASSUME NEW j \in Job, TimeStep(j)
       PROVE  RowsStep
    BY <1>12, <1>1 DEF TimeStep, HeartbeatExpires, RetryBecomesDue, WindowPasses, store
<1>13. QED
    BY <1>1, <1>9, <1>10, <1>11, <1>12 DEF Next, vars

-----------------------------------------------------------------------------
\* Every step leaves, disposes of or freshly loads each context.
LEMMA ContextSteps ==
    ASSUME StoreInv, [Next]_vars
    PROVE  ContextStep
<1>1. CASE UNCHANGED snap
    BY <1>1 DEF ContextStep
<1>2. ASSUME NEW c \in Client, ClientStep(c)
      PROVE  ContextStep
    <2>1. ASSUME NEW j \in Job, CancelRead(c, j)
          PROVE  ContextStep
        BY <2>1, LoadStep DEF CancelRead
    <2>2. CASE CancelSave(c) \/ CancelThrows(c)
        BY <2>2, DisposeStep DEF CancelSave, CancelThrows
    <2>3. QED
        BY <1>1, <1>2, <2>1, <2>2 DEF ClientStep, EnqueueCheck, EnqueueInsert
<1>3. ASSUME NEW h \in Host, ClaimStep(h)
      PROVE  ContextStep
    <2>1. CASE ClaimRead(h)
        BY <2>1, LoadStep DEF ClaimRead, Available
    <2>2. CASE ClaimSave(h) \/ ClaimConflict(h) \/ ClaimLost(h)
        BY <2>2, DisposeStep DEF ClaimSave, ClaimConflict, ClaimLost
    <2>3. QED
        BY <1>1, <1>3, <2>1, <2>2 DEF ClaimStep, ClaimNothing, store
<1>4. ASSUME NEW h \in Host, RecoverStep(h)
      PROVE  ContextStep
    <2>1. CASE RecoverRead(h)
        BY <2>1, LoadStep DEF RecoverRead, StaleJobs
    <2>2. CASE RecoverSave(h) \/ RecoverThrows(h)
        BY <2>2, DisposeStep DEF RecoverSave, RecoverThrows
    <2>3. QED
        BY <1>4, <2>1, <2>2 DEF RecoverStep
<1>5. ASSUME NEW h \in Host, HostStep(h)
      PROVE  ContextStep
    BY <1>1, <1>5, DisposeStep
       DEF HostStep, Stop, Exit, Crash, Restart, Gone, store
<1>6. ASSUME NEW w \in Worker, WorkerStep(w)
      PROVE  ContextStep
    <2>1. CASE CompleteRead(w) \/ FailRead(w)
        <3>1. exec[w].job \in DOMAIN rows
            BY <2>1 DEF CompleteRead, FailRead, StoreInv, TypeOK, ExecTypeOK
        <3>2. QED
            BY <2>1, <3>1, LoadStep DEF CompleteRead, FailRead
    <2>2. CASE CompleteSave(w) \/ CompleteThrows(w) \/ FailSave(w)
                  \/ FailThrows(w) \/ Interrupted(w)
        BY <2>2, DisposeStep
           DEF CompleteSave, CompleteThrows, FailSave, FailThrows, Interrupted, Release
    <2>3. QED
        BY <1>1, <1>6, <2>1, <2>2 DEF WorkerStep, JobThrows, store
<1>7. ASSUME NEW w \in Worker, BeatStep(w)
      PROVE  ContextStep
    <2>1. CASE BeatRead(w)
        <3>1. exec[w].job \in DOMAIN rows
            BY <2>1 DEF BeatRead, StoreInv, TypeOK, ExecTypeOK
        <3>2. QED
            BY <2>1, <3>1, LoadStep DEF BeatRead
    <2>2. CASE BeatSave(w) \/ BeatConflict(w)
        BY <2>2, DisposeStep DEF BeatSave, BeatConflict
    <2>3. QED
        BY <1>7, <2>1, <2>2 DEF BeatStep
<1>8. ASSUME NEW j \in Job, TimeStep(j)
      PROVE  ContextStep
    BY <1>1, <1>8 DEF TimeStep, HeartbeatExpires, RetryBecomesDue, WindowPasses, store
<1>9. QED
    BY <1>1, <1>2, <1>3, <1>4, <1>5, <1>6, <1>7, <1>8 DEF Next, vars

\* The table and the contexts keep their types, and locking stays sound.
LEMMA StorePreserved ==
    ASSUME StoreInv, [Next]_vars
    PROVE  StoreTypeOK' /\ NoLostUpdate' /\ VersionedStep
<1>1. RowsStep /\ ContextStep
    BY RowSteps, ContextSteps
<1>2. ASSUME NEW j \in DOMAIN rows
      PROVE  /\ j \in DOMAIN rows' /\ rows'[j] \in Row
             /\ rows'[j] # rows[j] => rows'[j].version = rows[j].version + 1
    <2>1. rows[j] \in Row
        BY DEF StoreInv, TypeOK, StoreTypeOK
    <2>2. QED
        BY <1>1, <2>1, EditsInRow, EditsCount DEF RowsStep
<1>3. ASSUME NEW j \in DOMAIN rows' \ DOMAIN rows
      PROVE  rows'[j] \in Row
    <2>1. PICK k \in Key \cup {NoKey}, p \in Priority : rows'[j] = NewJob(k, p)
        BY <1>1, <1>3 DEF RowsStep
    <2>2. Cardinality(DOMAIN rows) \in Nat
        BY FS_CardinalityType DEF StoreInv, TypeOK, StoreTypeOK
    <2>3. QED
        BY <2>1, <2>2 DEF NewJob, Row, Status
<1>4. \A j \in DOMAIN rows' : rows'[j] \in Row
    BY <1>2, <1>3
<1>5. VersionedStep
    BY <1>2 DEF VersionedStep
<1>6. NoLostUpdate'
    <2>1. NatVersions /\ SnapVersions
        BY DEF NatVersions, SnapVersions, StoreInv, TypeOK, StoreTypeOK, Row
    <2>2. NatVersions'
        BY <1>4 DEF NatVersions, Row
    <2>3. QED
        BY <1>1, <1>5, <2>1, <2>2, NoLostUpdateStep DEF StoreInv
<1>7. ASSUME NEW a \in Actor
      PROVE  /\ DOMAIN snap'[a] \subseteq DOMAIN rows'
             /\ \A j \in DOMAIN snap'[a] : snap'[a][j] \in Row
    <2>1. a \in DOMAIN snap
        BY DEF StoreInv, TypeOK, StoreTypeOK
    <2>2. CASE snap'[a] = snap[a]
        BY <1>2, <2>2 DEF StoreInv, TypeOK, StoreTypeOK
    <2>3. CASE DOMAIN snap'[a] = {}
        BY <2>3
    <2>4. CASE \A j \in DOMAIN snap'[a] : j \in DOMAIN rows' /\ snap'[a][j] = rows'[j]
        BY <1>4, <2>4
    <2>5. QED
        BY <1>1, <2>1, <2>2, <2>3, <2>4 DEF ContextStep
<1>8. DOMAIN snap' = Actor
    BY <1>1 DEF ContextStep, StoreInv, TypeOK, StoreTypeOK
<1>9. DOMAIN rows' \subseteq Job /\ IsFiniteSet(DOMAIN rows')
    BY <1>1 DEF RowsStep
<1>10. QED
    BY <1>4, <1>5, <1>6, <1>7, <1>8, <1>9 DEF StoreTypeOK

-----------------------------------------------------------------------------
\* A claim's context is loaded with Pending rows only.
LEMMA ClaimsPreserved ==
    ASSUME StoreInv, [Next]_vars
    PROVE  ClaimsArePending'
<1> SUFFICES ASSUME NEW h \in Host, NEW j \in DOMAIN snap'[<<"claim", h>>]
             PROVE  snap'[<<"claim", h>>][j].status = "Pending"
    BY DEF ClaimsArePending
<1> DEFINE a == <<"claim", h>>
<1>1. a \in DOMAIN snap
    BY Actors DEF StoreInv, TypeOK, StoreTypeOK
<1>2. CASE snap'[a] = snap[a]
    BY <1>2 DEF StoreInv, ClaimsArePending
<1>3. CASE DOMAIN snap'[a] = {}
    BY <1>3
<1>4. ASSUME NEW b \in DOMAIN snap, NEW ids, Load(b, ids), b # a
      PROVE  snap'[a] = snap[a]
    BY <1>1, <1>4 DEF Load
<1>5. ASSUME NEW A, Dispose(A)
      PROVE  snap'[a] = snap[a] \/ DOMAIN snap'[a] = {}
    <2>1. snap'[a] = IF a \in A THEN Nothing ELSE snap[a]
        BY <1>1, <1>5 DEF Dispose
    <2>2. QED
        BY <2>1 DEF Nothing
<1>6. ASSUME NEW g \in Host, ClaimRead(g)
      PROVE  snap'[a][j].status = "Pending"
    <2>1. PICK i \in Available : Load(<<"claim", g>>, {i})
        BY <1>6 DEF ClaimRead
    <2>2. CASE g = h
        <3>1. snap'[a] = [k \in {i} |-> rows[k]]
            BY <1>1, <2>1, <2>2 DEF Load, Loaded
        <3>2. QED
            BY <2>1, <3>1 DEF Available
    <2>3. CASE g # h
        <3>1. <<"claim", g>> # a /\ <<"claim", g>> \in DOMAIN snap
            BY <2>3, Actors DEF StoreInv, TypeOK, StoreTypeOK
        <3>2. QED
            BY <1>2, <1>4, <2>1, <3>1
    <2>4. QED
        BY <2>2, <2>3
<1>7. ASSUME NEW b \in Actor, NEW ids, Load(b, ids), b # a
      PROVE  snap'[a] = snap[a]
    BY <1>4, <1>7 DEF StoreInv, TypeOK, StoreTypeOK
<1>8. \/ snap'[a] = snap[a]
      \/ DOMAIN snap'[a] = {}
      \/ \E g \in Host : ClaimRead(g)
    <2>1. CASE UNCHANGED vars
        BY <2>1 DEF vars
    <2>2. ASSUME NEW c \in Client, ClientStep(c)
          PROVE  snap'[a] = snap[a] \/ DOMAIN snap'[a] = {}
        BY <1>5, <1>7, <2>2, Actors, ClaimActors
           DEF ClientStep, EnqueueCheck, EnqueueInsert, CancelRead, CancelSave,
               CancelThrows
    <2>3. ASSUME NEW g \in Host, ClaimStep(g), ~ClaimRead(g)
          PROVE  snap'[a] = snap[a] \/ DOMAIN snap'[a] = {}
        BY <1>5, <2>3
           DEF ClaimStep, ClaimNothing, ClaimSave, ClaimConflict, ClaimLost, store
    <2>4. ASSUME NEW g \in Host, RecoverStep(g) \/ HostStep(g)
          PROVE  snap'[a] = snap[a] \/ DOMAIN snap'[a] = {}
        BY <1>5, <1>7, <2>4, Actors, ClaimActors
           DEF RecoverStep, RecoverRead, RecoverSave, RecoverThrows, HostStep, Stop,
               Exit, Crash, Restart, Gone, store
    <2>5. ASSUME NEW w \in Worker, WorkerStep(w)
          PROVE  snap'[a] = snap[a] \/ DOMAIN snap'[a] = {}
        BY <1>5, <1>7, <2>5, Actors, ClaimActors
           DEF WorkerStep, CompleteRead, CompleteSave, CompleteThrows, JobThrows,
               FailRead, FailSave, FailThrows, Interrupted, Release, store
    <2>6. ASSUME NEW w \in Worker, BeatStep(w)
          PROVE  snap'[a] = snap[a] \/ DOMAIN snap'[a] = {}
        BY <1>5, <1>7, <2>6, Actors, ClaimActors
           DEF BeatStep, BeatRead, BeatSave, BeatConflict
    <2>7. ASSUME NEW i \in Job, TimeStep(i)
          PROVE  snap'[a] = snap[a]
        BY <2>7 DEF TimeStep, HeartbeatExpires, RetryBecomesDue, WindowPasses, store
    <2>8. QED
        BY <2>1, <2>2, <2>3, <2>4, <2>5, <2>6, <2>7 DEF Next
<1>9. QED
    BY <1>2, <1>3, <1>6, <1>8

\* Executions keep their type: they hold jobs that are stored, and stay so.
LEMMA ExecPreserved ==
    ASSUME StoreInv, [Next]_vars
    PROVE  ExecTypeOK'
<1>1. \A j \in DOMAIN rows : j \in DOMAIN rows'
    BY RowSteps DEF RowsStep
<1>2. ExecTypeOK
    BY DEF StoreInv, TypeOK
<1>3. CASE UNCHANGED exec
    BY <1>1, <1>2, <1>3 DEF ExecTypeOK, Busy
<1>4. ASSUME NEW w \in Worker, Release(w)
      PROVE  ExecTypeOK'
    BY <1>1, <1>2, <1>4 DEF ExecTypeOK, Busy, Release
<1>5. ASSUME NEW h \in Host, Gone(h)
      PROVE  ExecTypeOK'
    BY <1>1, <1>2, <1>5 DEF ExecTypeOK, Busy, Gone
<1>6. ASSUME NEW w \in Worker, Busy(w), NEW e \in Execution,
             e.job = exec[w].job, exec' = [exec EXCEPT ![w] = e]
      PROVE  ExecTypeOK'
    <2>1. exec[w].job \in DOMAIN rows
        BY <1>2, <1>6 DEF ExecTypeOK
    <2>2. exec'[w] = e /\ \A v \in Worker \ {w} : exec'[v] = exec[v]
        BY <1>2, <1>6 DEF ExecTypeOK
    <2>3. exec' \in [Worker -> {Idle} \cup Execution]
        BY <1>2, <1>6, <2>2 DEF ExecTypeOK
    <2>4. QED
        BY <1>1, <1>2, <1>6, <2>1, <2>2, <2>3 DEF ExecTypeOK, Busy
<1>7. ASSUME NEW h \in Host, ClaimSave(h)
      PROVE  ExecTypeOK'
    <2>1. PICK j \in DOMAIN snap[<<"claim", h>>] :
             IF host[h] = "up"
             THEN \E s \in Slot :
                    exec' = [exec EXCEPT ![<<h, s>>] =
                        [phase |-> "running", job |-> j, ok |-> FALSE,
                         attempt |-> snap[<<"claim", h>>][j].attempts + 1]]
             ELSE UNCHANGED exec
        BY <1>7 DEF ClaimSave
    <2>2. /\ j \in DOMAIN rows /\ j \in Job
          /\ snap[<<"claim", h>>][j].attempts + 1 \in Nat
        <3>1. j \in DOMAIN rows /\ j \in Job /\ snap[<<"claim", h>>][j] \in Row
            BY Actors DEF StoreInv, TypeOK, StoreTypeOK
        <3>2. QED
            BY <3>1 DEF Row
    <2>3. CASE UNCHANGED exec
        BY <1>3, <2>3
    <2>4. ASSUME NEW s \in Slot,
                 exec' = [exec EXCEPT ![<<h, s>>] =
                        [phase |-> "running", job |-> j, ok |-> FALSE,
                         attempt |-> snap[<<"claim", h>>][j].attempts + 1]]
          PROVE  ExecTypeOK'
        <3> DEFINE w == <<h, s>>
        <3>1. w \in Worker
            BY DEF Worker
        <3>2. exec'[w] \in Execution /\ exec'[w].job = j
            BY <1>2, <2>2, <2>4, <3>1 DEF Execution, Phase, ExecTypeOK
        <3>3. \A v \in Worker \ {w} : exec'[v] = exec[v]
            BY <1>2, <2>4 DEF ExecTypeOK
        <3>4. exec' \in [Worker -> {Idle} \cup Execution]
            BY <1>2, <2>4, <3>1, <3>2, <3>3 DEF ExecTypeOK
        <3>5. QED
            BY <1>1, <1>2, <2>2, <3>2, <3>3, <3>4 DEF ExecTypeOK, Busy
    <2>5. QED
        BY <2>1, <2>3, <2>4
<1>8. ASSUME NEW w \in Worker, WorkerStep(w)
      PROVE  ExecTypeOK'
    <2>1. CASE CompleteSave(w) \/ FailSave(w) \/ FailThrows(w) \/ Interrupted(w)
        BY <1>4, <2>1 DEF CompleteSave, FailSave, FailThrows, Interrupted
    <2>2. CASE CompleteRead(w) \/ CompleteThrows(w) \/ JobThrows(w) \/ FailRead(w)
        <3>1. Busy(w) /\ exec[w] \in Execution
            BY <1>2, <2>2 DEF CompleteRead, CompleteThrows, JobThrows, FailRead,
                              ExecTypeOK, Busy
        <3>2. \A q \in Phase, ok \in BOOLEAN :
                 /\ [exec[w] EXCEPT !.phase = q] \in Execution
                 /\ [exec[w] EXCEPT !.phase = q].job = exec[w].job
                 /\ [exec[w] EXCEPT !.phase = q, !.ok = ok] \in Execution
                 /\ [exec[w] EXCEPT !.phase = q, !.ok = ok].job = exec[w].job
            BY <3>1 DEF Execution
        <3>3. CASE CompleteRead(w)
            <4>1. exec' = [exec EXCEPT ![w] =
                              [exec[w] EXCEPT !.phase = "completing", !.ok = TRUE]]
                BY <1>2, <3>1, <3>3 DEF CompleteRead, ExecTypeOK
            <4>2. QED
                BY <1>6, <3>1, <3>2, <4>1 DEF Phase
        <3>4. CASE CompleteThrows(w) \/ JobThrows(w)
            <4>1. exec' = [exec EXCEPT ![w] = [exec[w] EXCEPT !.phase = "threw"]]
                BY <3>4 DEF CompleteThrows, JobThrows
            <4>2. QED
                BY <1>6, <3>1, <3>2, <4>1 DEF Phase
        <3>5. CASE FailRead(w)
            <4>1. exec' = [exec EXCEPT ![w] = [exec[w] EXCEPT !.phase = "failing"]]
                BY <3>5 DEF FailRead
            <4>2. QED
                BY <1>6, <3>1, <3>2, <4>1 DEF Phase
        <3>6. QED
            BY <2>2, <3>3, <3>4, <3>5
    <2>3. QED
        BY <1>8, <2>1, <2>2 DEF WorkerStep
<1>9. QED
    BY <1>3, <1>5, <1>7, <1>8
       DEF Next, ClientStep, EnqueueCheck, EnqueueInsert, CancelRead, CancelSave,
           CancelThrows, ClaimStep, ClaimRead, ClaimNothing, ClaimConflict,
           ClaimLost, RecoverStep,
           RecoverRead, RecoverSave, RecoverThrows, HostStep, Stop, Exit, Crash, Restart,
           BeatStep, BeatRead, BeatSave, BeatConflict, TimeStep, HeartbeatExpires,
           RetryBecomesDue, WindowPasses, vars, store

\* The remaining variables keep their types.
LEMMA RestPreserved ==
    ASSUME StoreInv, [Next]_vars, PersistentJobsAssumption
    PROVE  /\ (host \in [Host -> {"up", "stopping", "down"}])'
           /\ (tries \in [Host -> 0 .. MaxClaimRetries - 1])'
           /\ (enqueuing \in [Client -> SUBSET (Key \cup {NoKey})])'
           /\ (stale \subseteq Job /\ waiting \subseteq Job /\ recent \subseteq Job)'
           /\ (faults \in Faults)'
<1> DEFINE Rest == /\ host \in [Host -> {"up", "stopping", "down"}]
                   /\ tries \in [Host -> 0 .. MaxClaimRetries - 1]
                   /\ enqueuing \in [Client -> SUBSET (Key \cup {NoKey})]
                   /\ stale \subseteq Job /\ waiting \subseteq Job /\ recent \subseteq Job
                   /\ faults \in Faults
<1>1. Rest
    BY DEF StoreInv, TypeOK
<1>2. \A a \in Actor : Requeued(a) \subseteq Job
    BY DEF Requeued, StoreInv, TypeOK, StoreTypeOK
<1>3. \A n \in 0 .. MaxClaimRetries - 1 : NextTry(n) \in 0 .. MaxClaimRetries - 1
    BY DEF NextTry, PersistentJobsAssumption
<1>4. 0 \in 0 .. MaxClaimRetries - 1
    BY DEF PersistentJobsAssumption
<1>5. ASSUME NEW c \in Client, ClientStep(c)
      PROVE  Rest'
    <2>1. ASSUME NEW k \in Key \cup {NoKey}, EnqueueCheck(c, k)
          PROVE  Rest'
        BY <1>1, <2>1 DEF EnqueueCheck, time
    <2>2. CASE EnqueueInsert(c)
        <3>1. recent' \subseteq Job
            BY <1>1, <2>2 DEF EnqueueInsert
        <3>2. enqueuing' \in [Client -> SUBSET (Key \cup {NoKey})]
            BY <1>1, <2>2 DEF EnqueueInsert
        <3>3. QED
            BY <1>1, <2>2, <3>1, <3>2 DEF EnqueueInsert
    <2>3. QED
        BY <1>1, <1>5, <2>1, <2>2 DEF ClientStep, CancelRead, CancelSave, CancelThrows, time
<1>6. ASSUME NEW h \in Host, ClaimStep(h)
      PROVE  Rest'
    <2>1. CASE ClaimConflict(h) \/ ClaimLost(h)
        <3>1. tries' \in [Host -> 0 .. MaxClaimRetries - 1]
            BY <1>1, <1>3, <2>1 DEF ClaimConflict, ClaimLost
        <3>2. QED
            BY <1>1, <2>1, <3>1 DEF ClaimConflict, ClaimLost, time
    <2>2. CASE ClaimSave(h) \/ ClaimNothing(h)
        <3>1. tries' \in [Host -> 0 .. MaxClaimRetries - 1]
            BY <1>1, <1>4, <2>2 DEF ClaimSave, ClaimNothing
        <3>2. QED
            BY <1>1, <2>2, <3>1 DEF ClaimSave, ClaimNothing, time
    <2>3. QED
        BY <1>1, <1>6, <2>1, <2>2 DEF ClaimStep, ClaimRead, time
<1>7. ASSUME NEW h \in Host, RecoverStep(h)
      PROVE  Rest'
    BY <1>1, <1>7 DEF RecoverStep, RecoverRead, RecoverSave, RecoverThrows, time
<1>8. ASSUME NEW h \in Host, HostStep(h)
      PROVE  Rest'
    <2>1. faults' \in Faults
        BY <1>1, <1>8 DEF HostStep, Stop, Exit, Crash, Restart, Faults
    <2>2. QED
        BY <1>1, <1>4, <1>8, <2>1 DEF HostStep, Stop, Exit, Crash, Restart, Gone, time
<1>9. ASSUME NEW w \in Worker, WorkerStep(w)
      PROVE  Rest'
    <2>1. CASE FailSave(w)
        BY <1>1, <1>2, <2>1, Actors DEF FailSave
    <2>2. CASE ~FailSave(w)
        BY <1>1, <1>9, <2>2
           DEF WorkerStep, CompleteRead, CompleteSave, CompleteThrows, JobThrows,
               FailRead, FailThrows, Interrupted, time
    <2>3. QED
        BY <2>1, <2>2
<1>10. ASSUME NEW w \in Worker, BeatStep(w)
       PROVE  Rest'
    BY <1>1, <1>10 DEF BeatStep, BeatRead, BeatSave, BeatConflict, time
<1>11. ASSUME NEW j \in Job, TimeStep(j)
       PROVE  Rest'
    BY <1>1, <1>11 DEF TimeStep, HeartbeatExpires, RetryBecomesDue, WindowPasses
<1>12. CASE UNCHANGED vars
    BY <1>1, <1>12 DEF vars
<1>13. Rest'
    BY <1>5, <1>6, <1>7, <1>8, <1>9, <1>10, <1>11, <1>12 DEF Next
<1>14. QED
    BY <1>13

-----------------------------------------------------------------------------
LEMMA StoreInvInit ==
    ASSUME PersistentJobsAssumption, Init
    PROVE  StoreInv
<1>1. DOMAIN rows = {} /\ \A a \in Actor : DOMAIN snap[a] = {}
    BY DEF Init, Nothing
<1>2. StoreTypeOK
    BY <1>1, FS_EmptySet DEF StoreTypeOK, Init
<1>3. ExecTypeOK
    BY DEF ExecTypeOK, Init, Busy
<1>4. NoLostUpdate /\ ClaimsArePending
    BY <1>1, Actors DEF NoLostUpdate, ClaimsArePending, Init
<1>5. QED
    BY <1>2, <1>3, <1>4 DEF StoreInv, TypeOK, Init, PersistentJobsAssumption

LEMMA StoreInvStep ==
    ASSUME PersistentJobsAssumption, StoreInv, [Next]_vars
    PROVE  StoreInv'
BY StorePreserved, ClaimsPreserved, ExecPreserved, RestPreserved DEF StoreInv, TypeOK

\* Every reachable state is well typed, each context of a claim holds Pending
\* rows, and optimistic locking is sound: a save that passes the concurrency
\* check overwrites nothing it has not read.
THEOREM StoreCorrect == Spec => []StoreInv
<1>1. Init => StoreInv
    BY StoreInvInit, PersistentJobsAssumption
<1>2. StoreInv /\ [Next]_vars => StoreInv'
    BY StoreInvStep, PersistentJobsAssumption
<1>3. QED
    BY <1>1, <1>2, PTL DEF Spec

\* Type correctness of the job queue.
THEOREM TypeCorrect == Spec => []TypeOK
<1>1. StoreInv => TypeOK
    BY DEF StoreInv
<1>2. QED
    BY <1>1, StoreCorrect, PTL

\* Soundness of optimistic locking on the job table.
THEOREM LockingSound == Spec => []NoLostUpdate
<1>1. StoreInv => NoLostUpdate
    BY DEF StoreInv
<1>2. QED
    BY <1>1, StoreCorrect, PTL

\* No writer forgets Version++ and no row is deleted.
THEOREM WritesVersioned == Spec => EveryWriteIsVersioned
<1>1. StoreInv /\ [Next]_vars
         => [\A id \in DOMAIN rows :
               /\ id \in DOMAIN rows'
               /\ rows'[id] # rows[id] => rows'[id].version = rows[id].version + 1]_rows
    BY StorePreserved DEF VersionedStep
<1>2. QED
    BY <1>1, StoreCorrect, PTL DEF Spec, EveryWriteIsVersioned

-----------------------------------------------------------------------------
(* Attempts. *)

AttemptsInv == AttemptsBounded /\ FailedIsExhausted

\* An edit of a row within its attempts leaves it within its attempts.
LEMMA EditsWithinAttempts ==
    ASSUME PersistentJobsAssumption, NEW r \in Row, NEW s, RowEdit(r, s),
           r.attempts <= MaxAttempts,
           r.status = "Pending" => r.attempts < MaxAttempts,
           r.status = "Failed" => r.attempts = MaxAttempts
    PROVE  /\ s.attempts <= MaxAttempts
           /\ s.status = "Pending" => s.attempts < MaxAttempts
           /\ s.status = "Failed" => s.attempts = MaxAttempts
<1>1. r.attempts \in Nat /\ MaxAttempts \in Nat
    BY DEF Row, PersistentJobsAssumption
<1>2. CASE s = Cancelled(r)
    BY <1>1, <1>2 DEF Cancelled, Row
<1>3. ASSUME r.status = "Pending", NEW h \in Host, s = Claimed(h, r)
      PROVE  s.attempts = r.attempts + 1 /\ s.status = "Running"
    BY <1>1, <1>3 DEF Claimed, Row
<1>4. CASE s = Completed(r)
    BY <1>1, <1>4 DEF Completed, Row
<1>5. CASE s = RetryOrFail(r)
    <2>1. CASE r.attempts < MaxAttempts
        BY <1>1, <1>5, <2>1 DEF RetryOrFail, Row
    <2>2. CASE ~(r.attempts < MaxAttempts)
        BY <1>1, <1>5, <2>2 DEF RetryOrFail, Row
    <2>3. QED
        BY <2>1, <2>2
<1>6. CASE s = Beaten(r)
    BY <1>1, <1>6 DEF Beaten, Row
<1>7. QED
    BY <1>1, <1>2, <1>3, <1>4, <1>5, <1>6 DEF RowEdit

LEMMA AttemptsStep ==
    ASSUME PersistentJobsAssumption, StoreInv, AttemptsInv, [Next]_vars
    PROVE  AttemptsInv'
<1>1. RowsStep
    BY RowSteps
<1>2. ASSUME NEW j \in DOMAIN rows'
      PROVE  /\ rows'[j].attempts <= MaxAttempts
             /\ rows'[j].status = "Pending" => rows'[j].attempts < MaxAttempts
             /\ rows'[j].status = "Failed" => rows'[j].attempts = MaxAttempts
    <2>1. CASE j \in DOMAIN rows
        <3>1. rows[j] \in Row
            BY <2>1 DEF StoreInv, TypeOK, StoreTypeOK
        <3>2. /\ rows[j].attempts <= MaxAttempts
              /\ rows[j].status = "Pending" => rows[j].attempts < MaxAttempts
              /\ rows[j].status = "Failed" => rows[j].attempts = MaxAttempts
            BY <2>1 DEF AttemptsInv, AttemptsBounded, FailedIsExhausted
        <3>3. CASE rows'[j] = rows[j]
            BY <3>2, <3>3
        <3>4. CASE RowEdit(rows[j], rows'[j])
            BY <3>1, <3>2, <3>4, EditsWithinAttempts
        <3>5. QED
            BY <1>1, <2>1, <3>3, <3>4 DEF RowsStep
    <2>2. CASE j \notin DOMAIN rows
        <3>1. PICK k \in Key \cup {NoKey}, p \in Priority : rows'[j] = NewJob(k, p)
            BY <1>1, <2>2 DEF RowsStep
        <3>2. QED
            BY <3>1 DEF NewJob, PersistentJobsAssumption
    <2>3. QED
        BY <2>1, <2>2
<1>3. QED
    BY <1>2 DEF AttemptsInv, AttemptsBounded, FailedIsExhausted

\* No job is started more often than MaxRetries + 1 times.
THEOREM AttemptsCorrect == Spec => []AttemptsBounded
<1>1. Init => AttemptsInv
    BY DEF Init, Nothing, AttemptsInv, AttemptsBounded, FailedIsExhausted
<1>2. StoreInv /\ AttemptsInv /\ [Next]_vars => AttemptsInv'
    BY AttemptsStep, PersistentJobsAssumption
<1>3. AttemptsInv => AttemptsBounded
    BY DEF AttemptsInv
<1>4. QED
    BY <1>1, <1>2, <1>3, StoreCorrect, PTL DEF Spec

\* A job is Failed only after its last attempt.
THEOREM FailedCorrect == Spec => []FailedIsExhausted
<1>1. Init => AttemptsInv
    BY DEF Init, Nothing, AttemptsInv, AttemptsBounded, FailedIsExhausted
<1>2. StoreInv /\ AttemptsInv /\ [Next]_vars => AttemptsInv'
    BY AttemptsStep, PersistentJobsAssumption
<1>3. AttemptsInv => FailedIsExhausted
    BY DEF AttemptsInv
<1>4. QED
    BY <1>1, <1>2, <1>3, StoreCorrect, PTL DEF Spec

-----------------------------------------------------------------------------
(* Executions. *)

\* An execution ends, or goes on with the job and the attempt it has.
GoesOn(w) ==
    \/ exec'[w] = Idle
    \/ /\ Busy(w) /\ exec'[w].job = exec[w].job
       /\ exec'[w].attempt = exec[w].attempt

\* The execution at w is new: it runs the attempt that h has just claimed.
Begins(h, w) ==
    /\ w[1] = h
    /\ exec'[w].job \in DOMAIN rows
    /\ rows'[exec'[w].job] = Claimed(h, rows[exec'[w].job])
    /\ exec'[w].attempt = rows'[exec'[w].job].attempts

\* Every execution goes on, except for at most one that begins.
ExecStep ==
    \/ \A w \in Worker : GoesOn(w)
    \/ \E h \in Host, w \in Worker :
          Begins(h, w) /\ \A v \in Worker \ {w} : GoesOn(v)

LEMMA ExecSteps ==
    ASSUME StoreInv, [Next]_vars
    PROVE  ExecStep
<1>1. exec \in [Worker -> {Idle} \cup Execution]
    BY DEF StoreInv, TypeOK, ExecTypeOK
<1>2. CASE UNCHANGED exec
    BY <1>2 DEF ExecStep, GoesOn, Busy
<1>3. ASSUME NEW w \in Worker, Release(w)
      PROVE  ExecStep
    BY <1>1, <1>3 DEF Release, ExecStep, GoesOn, Busy
<1>4. ASSUME NEW h \in Host, Gone(h)
      PROVE  ExecStep
    BY <1>4 DEF Gone, ExecStep, GoesOn, Busy
<1>5. ASSUME NEW w \in Worker, NEW e,
             Busy(w), e.job = exec[w].job, e.attempt = exec[w].attempt,
             exec' = [exec EXCEPT ![w] = e]
      PROVE  ExecStep
    <2>1. exec'[w] = e /\ \A v \in Worker \ {w} : exec'[v] = exec[v]
        BY <1>1, <1>5
    <2>2. QED
        BY <1>5, <2>1 DEF ExecStep, GoesOn, Busy
<1>6. ASSUME NEW w \in Worker, WorkerStep(w)
      PROVE  ExecStep
    <2>1. CASE CompleteSave(w) \/ FailSave(w) \/ FailThrows(w) \/ Interrupted(w)
        BY <1>3, <2>1 DEF CompleteSave, FailSave, FailThrows, Interrupted
    <2>2. CASE CompleteRead(w) \/ CompleteThrows(w) \/ JobThrows(w) \/ FailRead(w)
        <3>1. Busy(w) /\ exec[w] \in Execution
            BY <1>1, <2>2 DEF CompleteRead, CompleteThrows, JobThrows, FailRead, Busy
        <3>2. \A q, ok :
                 /\ [exec[w] EXCEPT !.phase = q].job = exec[w].job
                 /\ [exec[w] EXCEPT !.phase = q].attempt = exec[w].attempt
                 /\ [exec[w] EXCEPT !.phase = q, !.ok = ok].job = exec[w].job
                 /\ [exec[w] EXCEPT !.phase = q, !.ok = ok].attempt = exec[w].attempt
            BY <3>1 DEF Execution
        <3>3. CASE CompleteRead(w)
            <4>1. exec' = [exec EXCEPT ![w] =
                              [exec[w] EXCEPT !.phase = "completing", !.ok = TRUE]]
                BY <1>1, <3>1, <3>3 DEF CompleteRead
            <4>2. QED
                BY <1>5, <3>1, <3>2, <4>1
        <3>4. CASE CompleteThrows(w) \/ JobThrows(w)
            <4>1. exec' = [exec EXCEPT ![w] = [exec[w] EXCEPT !.phase = "threw"]]
                BY <3>4 DEF CompleteThrows, JobThrows
            <4>2. QED
                BY <1>5, <3>1, <3>2, <4>1
        <3>5. CASE FailRead(w)
            <4>1. exec' = [exec EXCEPT ![w] = [exec[w] EXCEPT !.phase = "failing"]]
                BY <3>5 DEF FailRead
            <4>2. QED
                BY <1>5, <3>1, <3>2, <4>1
        <3>6. QED
            BY <2>2, <3>3, <3>4, <3>5
    <2>3. QED
        BY <1>6, <2>1, <2>2 DEF WorkerStep
<1>7. ASSUME NEW h \in Host, ClaimSave(h)
      PROVE  ExecStep
    <2> DEFINE a == <<"claim", h>>
    <2>1. a \in Actor /\ Unchanged(a)
        BY <1>7, Actors DEF ClaimSave, Save
    <2>2. rows' = [j \in DOMAIN rows |->
                     IF Tracks(a, j) THEN Claimed(h, snap[a][j]) ELSE rows[j]]
        BY <1>7 DEF ClaimSave, Save
    <2>3. PICK j \in DOMAIN snap[a] :
             IF host[h] = "up"
             THEN \E s \in Slot :
                    exec' = [exec EXCEPT ![<<h, s>>] =
                        [phase |-> "running", job |-> j, ok |-> FALSE,
                         attempt |-> snap[a][j].attempts + 1]]
             ELSE UNCHANGED exec
        BY <1>7 DEF ClaimSave
    <2>4. j \in DOMAIN rows /\ snap[a][j] = rows[j] /\ rows[j] \in Row
        BY <2>1, CheckedContext DEF StoreInv, TypeOK, StoreTypeOK
    <2>5. rows'[j] = Claimed(h, rows[j])
        BY <2>2, <2>4 DEF Tracks
    <2>6. rows'[j].attempts = rows[j].attempts + 1
        BY <2>4, <2>5 DEF Claimed, Row
    <2>7. ASSUME NEW s \in Slot,
                 exec' = [exec EXCEPT ![<<h, s>>] =
                        [phase |-> "running", job |-> j, ok |-> FALSE,
                         attempt |-> snap[a][j].attempts + 1]]
          PROVE  ExecStep
        <3> DEFINE w == <<h, s>>
        <3>1. w \in Worker /\ w[1] = h
            BY DEF Worker
        <3>2. exec'[w].job = j /\ exec'[w].attempt = rows[j].attempts + 1
            BY <1>1, <2>4, <2>7, <3>1
        <3>3. \A v \in Worker \ {w} : exec'[v] = exec[v]
            BY <1>1, <2>7
        <3>4. Begins(h, w)
            BY <2>4, <2>5, <2>6, <3>1, <3>2 DEF Begins
        <3>5. \A v \in Worker \ {w} : GoesOn(v)
            BY <3>3 DEF GoesOn, Busy
        <3>6. QED
            BY <3>1, <3>4, <3>5 DEF ExecStep
    <2>8. QED
        BY <1>2, <2>3, <2>7
<1>8. QED
    BY <1>2, <1>4, <1>6, <1>7
       DEF Next, ClientStep, EnqueueCheck, EnqueueInsert, CancelRead, CancelSave,
           CancelThrows, ClaimStep, ClaimRead, ClaimNothing, ClaimConflict,
           ClaimLost, RecoverStep,
           RecoverRead, RecoverSave, RecoverThrows, HostStep, Stop, Exit, Crash, Restart,
           BeatStep, BeatRead, BeatSave, BeatConflict, TimeStep, HeartbeatExpires,
           RetryBecomesDue, WindowPasses, vars, store

\* Rows never lose an attempt.
LEMMA AttemptsGrow ==
    ASSUME StoreInv, [Next]_vars, NEW j \in DOMAIN rows
    PROVE  /\ j \in DOMAIN rows'
           /\ rows[j].attempts \in Nat /\ rows'[j].attempts \in Nat
           /\ rows'[j].attempts >= rows[j].attempts
<1>1. RowsStep
    BY RowSteps
<1>2. rows[j] \in Row
    BY DEF StoreInv, TypeOK, StoreTypeOK
<1>3. rows[j].attempts \in Nat
    BY <1>2 DEF Row
<1>4. CASE rows'[j] = rows[j]
    BY <1>1, <1>3, <1>4 DEF RowsStep
<1>5. CASE RowEdit(rows[j], rows'[j])
    <2>1. rows'[j] \in Row /\ rows'[j].attempts >= rows[j].attempts
        BY <1>2, <1>5, EditsInRow, EditsCount
    <2>2. QED
        BY <1>1, <1>3, <2>1 DEF Row, RowsStep
<1>6. QED
    BY <1>1, <1>4, <1>5 DEF RowsStep

LEMMA OneExecutionStep ==
    ASSUME StoreInv, OneExecutionPerAttempt, [Next]_vars
    PROVE  OneExecutionPerAttempt'
<1>1. ExecStep
    BY ExecSteps
<1>2. ASSUME NEW w \in Worker, Busy(w)
      PROVE  /\ exec[w].attempt \in Nat /\ exec[w].job \in DOMAIN rows
             /\ exec[w].attempt <= rows[exec[w].job].attempts
    BY <1>2 DEF StoreInv, TypeOK, ExecTypeOK, Execution, Busy, OneExecutionPerAttempt
<1>3. ASSUME NEW w \in Worker, Busy(w)', GoesOn(w)
      PROVE  /\ Busy(w) /\ exec'[w].job = exec[w].job
             /\ exec'[w].attempt = exec[w].attempt
             /\ exec'[w].attempt \in Nat
             /\ exec'[w].attempt <= rows'[exec'[w].job].attempts
    <2>1. Busy(w) /\ exec'[w].job = exec[w].job /\ exec'[w].attempt = exec[w].attempt
        BY <1>3 DEF GoesOn, Busy
    <2>2. QED
        BY <1>2, <2>1, AttemptsGrow
<1>4. CASE \A w \in Worker : GoesOn(w)
    BY <1>3, <1>4 DEF OneExecutionPerAttempt
<1>5. ASSUME NEW h \in Host, NEW w \in Worker, Begins(h, w),
             \A v \in Worker \ {w} : GoesOn(v)
      PROVE  OneExecutionPerAttempt'
    <2> DEFINE j == exec'[w].job
    <2>1. j \in DOMAIN rows /\ rows[j] \in Row
        BY <1>5 DEF Begins, StoreInv, TypeOK, StoreTypeOK
    <2>2. /\ rows[j].attempts \in Nat
          /\ rows'[j].attempts = rows[j].attempts + 1
        BY <1>5, <2>1 DEF Begins, Claimed, Row
    <2>3. exec'[w].attempt = rows[j].attempts + 1
        BY <1>5, <2>2 DEF Begins
    <2>4. ASSUME NEW v \in Worker \ {w}, Busy(v)'
          PROVE  /\ exec'[v].attempt \in Nat
                 /\ exec'[v].attempt <= rows'[exec'[v].job].attempts
                 /\ exec'[v].job = j => exec'[v].attempt # exec'[w].attempt
        <3>1. /\ Busy(v) /\ exec'[v].job = exec[v].job
              /\ exec'[v].attempt = exec[v].attempt
              /\ exec'[v].attempt \in Nat
              /\ exec'[v].attempt <= rows'[exec'[v].job].attempts
            BY <1>3, <1>5, <2>4
        <3>2. exec[v].attempt <= rows[exec[v].job].attempts
            BY <1>2, <3>1
        <3>3. QED
            BY <2>2, <2>3, <3>1, <3>2
    <2>5. ASSUME NEW u \in Worker \ {w}, NEW v \in Worker \ {w}, u # v,
                 Busy(u)', Busy(v)', exec'[u].job = exec'[v].job
          PROVE  exec'[u].attempt # exec'[v].attempt
        BY <1>3, <1>5, <2>5 DEF OneExecutionPerAttempt
    <2>6. exec'[w].attempt <= rows'[j].attempts
        BY <2>2, <2>3
    <2>7. QED
        BY <2>4, <2>5, <2>6 DEF OneExecutionPerAttempt
<1>6. QED
    BY <1>1, <1>4, <1>5 DEF ExecStep

\* A claim is exclusive: no attempt of a job is ever executed twice, on any
\* instance, by whatever interleaving of claims, recoveries and late saves.
THEOREM ClaimsExclusive == Spec => []OneExecutionPerAttempt
<1>1. Init => OneExecutionPerAttempt
    BY DEF Init, OneExecutionPerAttempt, Busy
<1>2. StoreInv /\ OneExecutionPerAttempt /\ [Next]_vars => OneExecutionPerAttempt'
    BY OneExecutionStep
<1>3. QED
    BY <1>1, <1>2, StoreCorrect, PTL DEF Spec

-----------------------------------------------------------------------------
(* Owners. *)

RowOwned(r) ==
    /\ r.status = "Running" => r.owner \in Host
    /\ r.status = "Pending" => r.owner = NoHost

\* An edit names the owner of a Running row, clears that of a Pending one and
\* leaves a Running row with its owner unless it counts a new attempt.
LEMMA EditsOwned ==
    ASSUME NEW r \in Row, NEW s, RowEdit(r, s), RowOwned(r)
    PROVE  /\ RowOwned(s)
           /\ (s.status = "Running" /\ s.attempts = r.attempts)
                 => r.status = "Running" /\ s.owner = r.owner
<1>1. r.attempts \in Nat
    BY DEF Row
<1>2. CASE s = Cancelled(r)
    BY <1>2 DEF Cancelled, Row, RowOwned
<1>3. ASSUME NEW h \in Host, s = Claimed(h, r)
      PROVE  RowOwned(s) /\ s.attempts # r.attempts
    BY <1>1, <1>3 DEF Claimed, Row, RowOwned
<1>4. CASE s = Completed(r)
    BY <1>4 DEF Completed, Row, RowOwned
<1>5. CASE s = RetryOrFail(r)
    <2>1. CASE r.attempts < MaxAttempts
        BY <1>5, <2>1 DEF RetryOrFail, Row, RowOwned
    <2>2. CASE ~(r.attempts < MaxAttempts)
        BY <1>5, <2>2 DEF RetryOrFail, Row, RowOwned
    <2>3. QED
        BY <2>1, <2>2
<1>6. CASE s = Beaten(r)
    BY <1>6 DEF Beaten, Row, RowOwned
<1>7. QED
    BY <1>2, <1>3, <1>4, <1>5, <1>6 DEF RowEdit

LEMMA OwnerStep ==
    ASSUME StoreInv, OneExecutionPerAttempt, OwnerRunsCurrentAttempt, [Next]_vars
    PROVE  OwnerRunsCurrentAttempt'
<1>1. RowsStep /\ ExecStep
    BY RowSteps, ExecSteps
<1>2. ASSUME NEW j \in DOMAIN rows
      PROVE  /\ rows[j] \in Row /\ RowOwned(rows[j]) /\ RowOwned(rows'[j])
             /\ (rows'[j].status = "Running" /\ rows'[j].attempts = rows[j].attempts)
                   => rows[j].status = "Running" /\ rows'[j].owner = rows[j].owner
    <2>1. rows[j] \in Row /\ RowOwned(rows[j])
        BY DEF StoreInv, TypeOK, StoreTypeOK, OwnerRunsCurrentAttempt, RowOwned
    <2>2. rows'[j] = rows[j] \/ RowEdit(rows[j], rows'[j])
        BY <1>1 DEF RowsStep
    <2>3. QED
        BY <2>1, <2>2, EditsOwned
<1>3. ASSUME NEW j \in DOMAIN rows'
      PROVE  RowOwned(rows'[j])
    <2>1. CASE j \in DOMAIN rows
        BY <1>2, <2>1
    <2>2. CASE j \notin DOMAIN rows
        <3>1. PICK k \in Key \cup {NoKey}, p \in Priority : rows'[j] = NewJob(k, p)
            BY <1>1, <2>2 DEF RowsStep
        <3>2. QED
            BY <3>1 DEF NewJob, RowOwned
    <2>3. QED
        BY <2>1, <2>2
<1>4. ASSUME NEW j \in DOMAIN rows', NEW w \in Worker, Busy(w)', GoesOn(w),
             exec'[w].job = j, exec'[w].attempt = rows'[j].attempts,
             rows'[j].status = "Running"
      PROVE  rows'[j].owner = w[1]
    <2>1. Busy(w) /\ exec[w].job = j /\ exec[w].attempt = rows'[j].attempts
        BY <1>4 DEF GoesOn, Busy
    <2>2. j \in DOMAIN rows /\ exec[w].attempt \in Nat
        BY <2>1 DEF StoreInv, TypeOK, ExecTypeOK, Execution, Busy
    <2>3. exec[w].attempt <= rows[j].attempts
        BY <2>1 DEF OneExecutionPerAttempt
    <2>4. rows'[j].attempts = rows[j].attempts
        BY <2>1, <2>2, <2>3, AttemptsGrow
    <2>5. rows[j].status = "Running" /\ rows'[j].owner = rows[j].owner
        BY <1>2, <1>4, <2>2, <2>4
    <2>6. rows[j].owner = w[1]
        BY <2>1, <2>2, <2>4, <2>5 DEF OwnerRunsCurrentAttempt
    <2>7. QED
        BY <2>5, <2>6
<1>5. ASSUME NEW h \in Host, NEW w \in Worker, Begins(h, w)
      PROVE  rows'[exec'[w].job].owner = w[1]
    <2>1. exec'[w].job \in DOMAIN rows /\ rows[exec'[w].job] \in Row
        BY <1>5 DEF Begins, StoreInv, TypeOK, StoreTypeOK
    <2>2. QED
        BY <1>5, <2>1 DEF Begins, Claimed, Row
<1>6. ASSUME NEW j \in DOMAIN rows', NEW w \in Worker, Busy(w)',
             exec'[w].job = j, exec'[w].attempt = rows'[j].attempts,
             rows'[j].status = "Running"
      PROVE  rows'[j].owner = w[1]
    BY <1>1, <1>4, <1>5, <1>6 DEF ExecStep
<1>7. QED
    BY <1>3, <1>6 DEF OwnerRunsCurrentAttempt, RowOwned

\* InstanceId of a Running job names the instance that executes its current
\* attempt.
THEOREM OwnersCorrect == Spec => []OwnerRunsCurrentAttempt
<1>1. Init => OneExecutionPerAttempt /\ OwnerRunsCurrentAttempt
    BY DEF Init, Nothing, OneExecutionPerAttempt, OwnerRunsCurrentAttempt, Busy
<1>2. StoreInv /\ OneExecutionPerAttempt /\ OwnerRunsCurrentAttempt /\ [Next]_vars
         => OneExecutionPerAttempt' /\ OwnerRunsCurrentAttempt'
    BY OneExecutionStep, OwnerStep
<1>3. QED
    BY <1>1, <1>2, StoreCorrect, PTL DEF Spec
=============================================================================
