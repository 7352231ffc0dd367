--------------------- MODULE PersistentSchedules_proofs ---------------------
(***************************************************************************)
(* Proofs about PersistentSchedules, for any number of instances, callers  *)
(* and schedules, with late locks and heartbeats, database errors,         *)
(* shutdowns and crashes.                                                  *)
(*                                                                         *)
(* The argument: SaveChangesAsync writes the changed columns only, so a    *)
(* save that passes the check of Version is judged by what Version tells   *)
(* of the other columns.  The synchronisation does not increment it, yet   *)
(* writes NextExecutionUtc only; owner and activity are protected, and a   *)
(* next time follows from the activity where one is found (Timed).  Locks and entries change  *)
(* hands only when they have expired, and whoever saves that from a        *)
(* context that is up to date knows that they still have (ContextsTell).   *)
(***************************************************************************)
EXTENDS PersistentSchedules, TLAPS

\* A schedule whose next time is always found is timed if and only if it is
\* active.
Timed(id, r) ==
    id \in faults.timeless \/ r.next = IF r.active THEN "set" ELSE "none"

\* Contexts hold typed rows of schedules, timed as they were stored, and of
\* history entries.
ContextTypes ==
    \A a \in Actor : \A id \in DOMAIN snap[a] :
        /\ id \in Schedule => snap[a][id] \in ScheduleRow /\ Timed(id, snap[a][id])
        /\ id \in Run => snap[a][id] \in RunRow

\* What the Version tells of the row a context has loaded.
VersionsTell ==
    \A a \in Actor : \A id \in DOMAIN snap[a] :
        /\ snap[a][id].version <= rows[id].version
        /\ snap[a][id].version = rows[id].version =>
              /\ id \in Run => snap[a][id] = rows[id]
              /\ id \in Schedule => /\ snap[a][id].owner = rows[id].owner
                                    /\ snap[a][id].active = rows[id].active

\* Polls and executions are about stored schedules.
JobsStored ==
    /\ \A h \in Host : /\ host[h] = "syncing" \/ todo[h] \subseteq DOMAIN rows
                       /\ locking[h] \subseteq DOMAIN rows
    /\ \A e \in Run : Live(e) => exec[e].job \in DOMAIN rows
    /\ stale \subseteq DOMAIN rows

\* Which rows the contexts track.
ContextsTrack ==
    /\ \A h \in Host : DOMAIN snap[<<"sync", h>>] \subseteq Schedule
    /\ \A c \in Client : /\ DOMAIN snap[<<"admin", c>>] \subseteq Schedule
                         /\ \A s, u \in DOMAIN snap[<<"admin", c>>] : s = u
    /\ \A h \in Host : Opened(<<"poll", h>>) =>
          locking[h] # {} /\ DOMAIN snap[<<"poll", h>>] = locking[h]
    /\ \A e \in Run : Opened(<<"beat", e>>) =>
          Invoking(e) /\ DOMAIN snap[<<"beat", e>>] = {e}
    /\ \A e \in Run : Opened(<<"exec", e>>) =>
          \/ In(e, "starting") /\ DOMAIN snap[<<"exec", e>>] = {exec[e].job}
          \/ In(e, "settling") \/ In(e, "releasing")
    /\ \A e \in Run : In(e, "settling") => DOMAIN snap[<<"exec", e>>] = {e}
    /\ \A e \in Run : In(e, "releasing") => DOMAIN snap[<<"exec", e>>] = {exec[e].job}

\* What contexts that are up to date tell of locks and heartbeats: the lock was
\* free or still has expired, the entry is Running and still stale.
ContextsTell ==
    /\ \A h \in Host : \A s \in DOMAIN snap[<<"poll", h>>] :
          \/ snap[<<"poll", h>>][s].owner = NoHost
          \/ snap[<<"poll", h>>][s].version = rows[s].version => s \in expired
    /\ \A h \in Host : \A id \in DOMAIN snap[<<"recover", h>>] :
          /\ id \in Schedule /\ snap[<<"recover", h>>][id].version = rows[id].version =>
                id \in expired
          /\ id \in Run =>
                /\ snap[<<"recover", h>>][id].status = "Running"
                /\ snap[<<"recover", h>>][id].version = rows[id].version => id \in stale

\* Locks are taken and schedules executed on instances that have been up.
HostsServe ==
    /\ \A h \in Host : locking[h] # {} => host[h] \in {"up", "stopping"}
    /\ \A e \in Run : Live(e) => host[exec[e].host] \in {"up", "stopping"}

StoreInv ==
    /\ TypeOK /\ ContextTypes /\ VersionsTell /\ JobsStored /\ ContextsTrack
    /\ HostsServe
    /\ \A s \in Stored : Timed(s, rows[s])

\* While no execution outlives its lock, it holds it alone.
HoldersInv ==
    ~faults.lateLocks =>
        /\ \A e \in Run, s \in Schedule :
              Holds(e, s) => rows[s].owner = exec[e].host /\ s \notin expired
        /\ \A d, e \in Run, s \in Schedule : Holds(d, s) /\ Holds(e, s) => d = e

\* While heartbeats are in time, the entry of a live execution is Running and
\* so is the one it has loaded to settle it.
EntriesInv ==
    ~faults.lateHeartbeats =>
        /\ \A e \in Run : Beating(e) => rows[e].status = "Running" /\ e \notin stale
        /\ \A e \in Run : In(e, "settling") =>
              \A id \in DOMAIN snap[<<"exec", e>>] : snap[<<"exec", e>>][id].status = "Running"

-----------------------------------------------------------------------------
(* What a save makes of one row. *)

\* Column by column.
LEMMA MergedSchedule ==
    ASSUME NEW cur \in ScheduleRow, NEW old, NEW new,
           new.active \in BOOLEAN, new.next \in {"none", "set", "again"},
           new.ran \in BOOLEAN, new.owner \in Host \cup {NoHost}, new.version \in Nat,
           new.next = "again" => old.next # "again"
    PROVE  /\ Merged(cur, old, new) \in ScheduleRow
           /\ Merged(cur, old, new).active =
                 IF new.active = old.active THEN cur.active ELSE new.active
           /\ Merged(cur, old, new).next =
                 IF new.next = old.next THEN cur.next
                 ELSE IF new.next = "again" THEN "set" ELSE new.next
           /\ Merged(cur, old, new).owner =
                 IF new.owner = old.owner THEN cur.owner ELSE new.owner
           /\ Merged(cur, old, new).version =
                 IF new.version = old.version THEN cur.version ELSE new.version
<1> DEFINE m == Merged(cur, old, new)
<1>1. DOMAIN cur = {"active", "next", "ran", "owner", "version"}
    BY DEF ScheduleRow
<1>2. /\ m = [f \in {"active", "next", "ran", "owner", "version"} |-> m[f]]
      /\ m.active = IF new.active = old.active THEN cur.active ELSE new.active
      /\ m.next = IF new.next = old.next THEN cur.next
                  ELSE IF new.next = "again" THEN "set" ELSE new.next
      /\ m.owner = IF new.owner = old.owner THEN cur.owner ELSE new.owner
      /\ m.version = IF new.version = old.version THEN cur.version ELSE new.version
      /\ m.ran = IF new.ran = old.ran THEN cur.ran ELSE new.ran
    BY <1>1 DEF Merged
<1>3. /\ m.active \in BOOLEAN /\ m.next \in {"none", "set"} /\ m.ran \in BOOLEAN
      /\ m.owner \in Host \cup {NoHost} /\ m.version \in Nat
    BY <1>2 DEF ScheduleRow
<1>4. m \in ScheduleRow
    BY <1>2, <1>3 DEF ScheduleRow
<1>5. QED
    BY <1>2, <1>4

\* What a context that is up to date knows of the stored row.
Agree(id, cur, old) ==
    /\ cur \in ScheduleRow /\ old \in ScheduleRow /\ Timed(id, cur) /\ Timed(id, old)
    /\ cur.version = old.version /\ cur.owner = old.owner /\ cur.active = old.active

\* A write of schedule id, from r to s, that gives it the next Version and the
\* owner o.
Versioned(id, r, s, o) ==
    s \in ScheduleRow /\ Timed(id, s) /\ s.version = r.version + 1 /\ s.owner = o

\* A row gets a next time if and only if it is active afterwards, as long as one
\* is found.
LEMMA MergedTimed ==
    ASSUME NEW id, NEW t \in Times(id), NEW cur, NEW old, Agree(id, cur, old),
           NEW new, NEW m,
           new.active \in BOOLEAN, new.next = CalculateNextExecution(new.active, t),
           m.active = IF new.active = old.active THEN cur.active ELSE new.active,
           m.next = IF new.next = old.next THEN cur.next
                    ELSE IF new.next = "again" THEN "set" ELSE new.next
    PROVE  Timed(id, m)
<1>1. CASE id \in faults.timeless
    BY <1>1 DEF Timed
<1>2. CASE id \notin faults.timeless
    <2>1. t \in {"set", "again"}
        BY <1>2 DEF Times
    <2>2. /\ old.next = IF old.active THEN "set" ELSE "none"
          /\ cur.next = IF cur.active THEN "set" ELSE "none"
          /\ cur.active = old.active /\ old.active \in BOOLEAN
        BY <1>2 DEF Agree, Timed, ScheduleRow
    <2>3. m.active = new.active
        BY <2>2
    <2>4. CASE new.active = TRUE
        <3>1. new.next = t
            BY <2>4 DEF CalculateNextExecution
        <3>2. m.next = "set"
            BY <2>1, <2>2, <3>1
        <3>3. QED
            BY <2>3, <2>4, <3>2 DEF Timed
    <2>5. CASE new.active = FALSE
        <3>1. new.next = "none"
            BY <2>5 DEF CalculateNextExecution
        <3>2. m.next = "none"
            BY <2>2, <3>1
        <3>3. QED
            BY <2>3, <2>5, <3>2 DEF Timed
    <2>6. QED
        BY <2>4, <2>5
<1>3. QED
    BY <1>1, <1>2

LEMMA TimesType ==
    ASSUME NEW id, NEW t \in Times(id), NEW b \in BOOLEAN
    PROVE  CalculateNextExecution(b, t) \in {"none", "set", "again"}
BY DEF Times, CalculateNextExecution

\* The synchronisation leaves a stored schedule as it is, as far as other
\* contexts can tell.
LEMMA SyncedRow ==
    ASSUME NEW id, NEW t \in Times(id), NEW cur, NEW old, Agree(id, cur, old)
    PROVE  LET s == Merged(cur, old, Synced(old, t))
           IN  /\ s \in ScheduleRow /\ Timed(id, s) /\ s.version = cur.version
               /\ s.owner = cur.owner /\ s.active = cur.active
<1>1. cur \in ScheduleRow /\ old \in ScheduleRow /\ Timed(id, cur) /\ Timed(id, old)
    BY DEF Agree
<1>2. CASE old.owner = NoHost
    <2> DEFINE new == [old EXCEPT !.next = CalculateNextExecution(old.active, t)]
               m == Merged(cur, old, new)
    <2>1. Synced(old, t) = new
        BY <1>2 DEF Synced
    <2>2. /\ new.active = old.active /\ new.ran = old.ran /\ new.owner = old.owner
          /\ new.version = old.version
          /\ new.next = CalculateNextExecution(old.active, t)
        BY <1>1 DEF ScheduleRow
    <2>3. /\ new.active \in BOOLEAN /\ new.ran \in BOOLEAN
          /\ new.owner \in Host \cup {NoHost}
          /\ new.version \in Nat /\ old.next # "again"
        BY <1>1, <2>2 DEF ScheduleRow
    <2>4. new.next \in {"none", "set", "again"}
        BY <2>2, <2>3, TimesType
    <2> HIDE DEF new
    <2>5. /\ m \in ScheduleRow
          /\ m.active = IF new.active = old.active THEN cur.active ELSE new.active
          /\ m.next = IF new.next = old.next THEN cur.next
                      ELSE IF new.next = "again" THEN "set" ELSE new.next
          /\ m.owner = IF new.owner = old.owner THEN cur.owner ELSE new.owner
          /\ m.version = IF new.version = old.version THEN cur.version ELSE new.version
        BY <1>1, <2>3, <2>4, MergedSchedule
    <2> HIDE DEF m
    <2>6. Timed(id, m)
        BY <2>2, <2>3, <2>5, MergedTimed
    <2>7. m.version = cur.version /\ m.owner = cur.owner /\ m.active = cur.active
        BY <2>2, <2>5
    <2>8. QED
        BY <2>1, <2>5, <2>6, <2>7 DEF m
<1>3. CASE old.owner # NoHost
    <2>1. Synced(old, t) = old
        BY <1>3 DEF Synced
    <2>2. /\ old.active \in BOOLEAN /\ old.next \in {"none", "set", "again"}
          /\ old.ran \in BOOLEAN /\ old.owner \in Host \cup {NoHost}
          /\ old.version \in Nat /\ old.next # "again"
        BY <1>1 DEF ScheduleRow
    <2>3. QED
        BY <1>1, <2>1, <2>2, MergedSchedule DEF Agree, Timed
<1>4. QED
    BY <1>2, <1>3

\* A save that increments Version and calculates the next time.
LEMMA RecalculatedRow ==
    ASSUME NEW id, NEW t \in Times(id), NEW cur, NEW old, Agree(id, cur, old), NEW new,
           new.active \in BOOLEAN, new.next = CalculateNextExecution(new.active, t),
           new.ran \in BOOLEAN, new.owner = old.owner, new.version = old.version + 1
    PROVE  Versioned(id, cur, Merged(cur, old, new), cur.owner)
<1>1. cur \in ScheduleRow /\ old \in ScheduleRow
    BY DEF Agree
<1>2. new.next \in {"none", "set", "again"}
    BY TimesType
<1>3. /\ new.owner \in Host \cup {NoHost} /\ new.version \in Nat
      /\ new.version # old.version /\ old.next # "again"
    BY <1>1 DEF ScheduleRow
<1> DEFINE m == Merged(cur, old, new)
<1>4. /\ m \in ScheduleRow
      /\ m.active = IF new.active = old.active THEN cur.active ELSE new.active
      /\ m.next = IF new.next = old.next THEN cur.next
                  ELSE IF new.next = "again" THEN "set" ELSE new.next
      /\ m.owner = IF new.owner = old.owner THEN cur.owner ELSE new.owner
      /\ m.version = IF new.version = old.version THEN cur.version ELSE new.version
    BY <1>1, <1>2, <1>3, MergedSchedule
<1> HIDE DEF m
<1>5. Timed(id, m)
    BY <1>4, MergedTimed
<1>6. m.owner = cur.owner /\ m.version = cur.version + 1
    BY <1>3, <1>4 DEF Agree
<1>7. QED
    BY <1>4, <1>5, <1>6 DEF Versioned, m

LEMMA ToggledRow ==
    ASSUME NEW id, NEW t \in Times(id), NEW cur, NEW old, Agree(id, cur, old),
           NEW b \in BOOLEAN
    PROVE  Versioned(id, cur, Merged(cur, old, Toggled(b, t, old)), cur.owner)
<1>1. old \in ScheduleRow
    BY DEF Agree
<1> DEFINE new == Toggled(b, t, old)
<1>2. /\ new.active = b /\ new.ran = old.ran /\ new.owner = old.owner
      /\ new.version = old.version + 1 /\ new.next = CalculateNextExecution(b, t)
    BY <1>1 DEF ScheduleRow, Toggled
<1>3. old.ran \in BOOLEAN
    BY <1>1 DEF ScheduleRow
<1> HIDE DEF new
<1>4. Versioned(id, cur, Merged(cur, old, new), cur.owner)
    BY <1>2, <1>3, RecalculatedRow
<1>5. QED
    BY <1>4 DEF new

LEMMA StartedRow ==
    ASSUME NEW id, NEW t \in Times(id), NEW cur, NEW old, Agree(id, cur, old)
    PROVE  Versioned(id, cur, Merged(cur, old, Started(t, old)), cur.owner)
<1>1. old \in ScheduleRow
    BY DEF Agree
<1> DEFINE new == Started(t, old)
<1>2. /\ new.active = old.active /\ new.ran = TRUE /\ new.owner = old.owner
      /\ new.version = old.version + 1 /\ new.next = CalculateNextExecution(old.active, t)
    BY <1>1 DEF ScheduleRow, Started
<1>3. old.active \in BOOLEAN
    BY <1>1 DEF ScheduleRow
<1> HIDE DEF new
<1>4. new.active \in BOOLEAN /\ new.ran \in BOOLEAN
    BY <1>2, <1>3
<1>5. Versioned(id, cur, Merged(cur, old, new), cur.owner)
    BY <1>2, <1>4, RecalculatedRow
<1>6. QED
    BY <1>5 DEF new

\* Both Locked and Unlocked.
LEMMA OwnedRow ==
    ASSUME NEW id, NEW cur, NEW old, Agree(id, cur, old), NEW o \in Host \cup {NoHost}
    PROVE  Versioned(id, cur, Merged(cur, old,
                        [old EXCEPT !.owner = o, !.version = @ + 1]), o)
<1>1. cur \in ScheduleRow /\ old \in ScheduleRow /\ Timed(id, cur) /\ Timed(id, old)
    BY DEF Agree
<1> DEFINE new == [old EXCEPT !.owner = o, !.version = @ + 1]
<1>2. /\ new.active = old.active /\ new.ran = old.ran /\ new.owner = o
      /\ new.version = old.version + 1 /\ new.next = old.next
    BY <1>1 DEF ScheduleRow
<1> HIDE DEF new
<1>3. /\ new.active \in BOOLEAN /\ new.next \in {"none", "set", "again"}
      /\ new.ran \in BOOLEAN /\ new.owner \in Host \cup {NoHost}
      /\ new.version \in Nat /\ (new.next = "again" => old.next # "again")
      /\ new.version # old.version
    BY <1>1, <1>2 DEF ScheduleRow
<1>4. Versioned(id, cur, Merged(cur, old, new), o)
    BY <1>1, <1>2, <1>3, MergedSchedule DEF Agree, Timed, Versioned
<1>5. QED
    BY <1>4 DEF new

LEMMA UnlockedRow ==
    ASSUME NEW id, NEW cur, NEW old, Agree(id, cur, old)
    PROVE  Versioned(id, cur, Merged(cur, old, Unlocked(old)), NoHost)
<1>1. NoHost \in Host \cup {NoHost}
    OBVIOUS
<1>2. Versioned(id, cur, Merged(cur, old,
                       [old EXCEPT !.owner = NoHost, !.version = @ + 1]), NoHost)
    BY <1>1, OwnedRow
<1>3. QED
    BY <1>2 DEF Unlocked

\* The entry of a context that is up to date is the stored one.
LEMMA EntryEdits ==
    ASSUME NEW r \in RunRow
    PROVE  /\ \A b \in BOOLEAN :
                 LET s == Merged(r, r, Settled(b, r))
                 IN  s \in RunRow /\ s.version = r.version + 1
           /\ LET s == Merged(r, r, Beaten(r))
              IN  s \in RunRow /\ s.version = r.version + 1 /\ s.status = r.status
<1>1. DOMAIN r = {"status", "version"} /\ r.version \in Nat
      /\ r.status \in {"Running", "Completed", "Failed"}
    BY DEF RunRow
<1>2. ASSUME NEW new, new.version = r.version + 1,
             new.status \in {"Running", "Completed", "Failed"}
      PROVE  /\ Merged(r, r, new) \in RunRow
             /\ Merged(r, r, new).version = r.version + 1
             /\ Merged(r, r, new).status = new.status
    <2> DEFINE m == Merged(r, r, new)
    <2>1. /\ m = [f \in {"status", "version"} |-> m[f]]
          /\ m.version = r.version + 1 /\ m.status = new.status
        BY <1>1, <1>2 DEF Merged
    <2>2. m \in RunRow
        BY <1>1, <1>2, <2>1 DEF RunRow
    <2>3. QED
        BY <2>1, <2>2
<1>3. ASSUME NEW b \in BOOLEAN
      PROVE  /\ Settled(b, r).version = r.version + 1
             /\ Settled(b, r).status \in {"Running", "Completed", "Failed"}
    BY DEF Settled, RunRow
<1>4. Beaten(r).version = r.version + 1 /\ Beaten(r).status = r.status
    BY DEF Beaten, RunRow
<1>5. QED
    BY <1>1, <1>2, <1>3, <1>4

-----------------------------------------------------------------------------
(* What one step does to a context and to a row. *)

LEMMA Actors ==
    /\ \A h \in Host : /\ <<"sync", h>> \in Actor /\ <<"poll", h>> \in Actor
                       /\ <<"recover", h>> \in Actor
    /\ \A e \in Run : <<"exec", e>> \in Actor /\ <<"beat", e>> \in Actor
    /\ \A c \in Client : <<"admin", c>> \in Actor
BY DEF Actor

\* The context of actor a is opened.
Loads(a) ==
    \/ \E h \in Host : a = <<"sync", h>> /\ SyncRead(h)
    \/ \E c \in Client, s \in Schedule : a = <<"admin", c>> /\ AdminRead(c, s)
    \/ \E h \in Host : a = <<"poll", h>> /\ LockRead(h)
    \/ \E e \in Run : a = <<"exec", e>> /\ (StartRead(e) \/ SettleRead(e) \/ ReleaseRead(e))
    \/ \E e \in Run : a = <<"beat", e>> /\ BeatRead(e)
    \/ \E h \in Host : a = <<"recover", h>> /\ RecoverRead(h)

\* A context is left alone, disposed of or opened by its own actor.
LEMMA WhoLoads ==
    ASSUME TypeOK, [Next]_vars, NEW a \in Actor
    PROVE  snap'[a] = snap[a] \/ snap'[a] = Nothing \/ Loads(a)
<1>1. a \in DOMAIN snap /\ DOMAIN snap = Actor
    BY DEF TypeOK
<1>2. ASSUME NEW A, Dispose(A)
      PROVE  snap'[a] = snap[a] \/ snap'[a] = Nothing
    BY <1>1, <1>2 DEF Dispose
<1>3. ASSUME NEW b \in Actor, NEW ids, Load(b, ids)
      PROVE  snap'[a] = snap[a] \/ a = b
    BY <1>1, <1>3 DEF Load
<1>4. ASSUME NEW h \in Host, SyncStep(h) \/ HostStep(h)
      PROVE  snap'[a] = snap[a] \/ snap'[a] = Nothing \/ Loads(a)
    <2>1. CASE SyncRead(h)
        <3>1. a = <<"sync", h>> \/ snap'[a] = snap[a]
            BY <1>1, <2>1, Actors DEF SyncRead, LoadAlso
        <3>2. QED
            BY <2>1, <3>1 DEF Loads
    <2>2. CASE ~SyncRead(h)
        BY <1>2, <1>4, <2>2
           DEF SyncStep, SyncSave, SyncThrows, Begin, HostStep, Stop, Exit, Crash, Gone
    <2>3. QED
        BY <2>1, <2>2
<1>5. ASSUME NEW c \in Client, AdminStep(c)
      PROVE  snap'[a] = snap[a] \/ snap'[a] = Nothing \/ Loads(a)
    <2>1. ASSUME NEW s \in Schedule, AdminRead(c, s)
          PROVE  snap'[a] = snap[a] \/ Loads(a)
        BY <1>3, <2>1, Actors DEF AdminRead, Loads
    <2>2. QED
        BY <1>2, <1>5, <2>1 DEF AdminStep, AdminSave, AdminThrows
<1>6. ASSUME NEW h \in Host, PollStep(h)
      PROVE  snap'[a] = snap[a] \/ snap'[a] = Nothing \/ Loads(a)
    <2>1. CASE LockRead(h)
        BY <1>3, <2>1, Actors DEF LockRead, Loads
    <2>2. CASE ~LockRead(h)
        BY <1>2, <1>6, <2>2
           DEF PollStep, PollRead, PollNext, LockTaken, LockSave, LockConflict,
               LockThrows, store
    <2>3. QED
        BY <2>1, <2>2
<1>7. ASSUME NEW e \in Run, ExecStep(e)
      PROVE  snap'[a] = snap[a] \/ snap'[a] = Nothing \/ Loads(a)
    <2>1. CASE StartRead(e) \/ SettleRead(e) \/ ReleaseRead(e)
        <3>1. \E ids : Load(<<"exec", e>>, ids)
            BY <2>1 DEF StartRead, SettleRead, ReleaseRead
        <3>2. QED
            BY <1>3, <2>1, <3>1, Actors DEF Loads
    <2>2. CASE ~(StartRead(e) \/ SettleRead(e) \/ ReleaseRead(e))
        BY <1>2, <1>7, <2>2
           DEF ExecStep, StartSave, StartThrows, SettleSave, SettleThrows, Interrupted,
               Finish, ReleaseNothing, ReleaseSave, ReleaseThrows, store
    <2>3. QED
        BY <2>1, <2>2
<1>8. ASSUME NEW e \in Run, BeatStep(e)
      PROVE  snap'[a] = snap[a] \/ snap'[a] = Nothing \/ Loads(a)
    <2>1. CASE BeatRead(e)
        BY <1>3, <2>1, Actors DEF BeatRead, Loads
    <2>2. CASE ~BeatRead(e)
        BY <1>2, <1>8, <2>2 DEF BeatStep, BeatSave, BeatThrows
    <2>3. QED
        BY <2>1, <2>2
<1>9. ASSUME NEW h \in Host, RecoverStep(h)
      PROVE  snap'[a] = snap[a] \/ snap'[a] = Nothing \/ Loads(a)
    <2>1. CASE RecoverRead(h)
        BY <1>3, <2>1, Actors DEF RecoverRead, Loads
    <2>2. CASE ~RecoverRead(h)
        BY <1>2, <1>9, <2>2 DEF RecoverStep, RecoverSave, RecoverThrows
    <2>3. QED
        BY <2>1, <2>2
<1>10. QED
    BY <1>4, <1>5, <1>6, <1>7, <1>8, <1>9
       DEF Next, vars, HeartbeatExpires, NextTimeComes, LockExpires, store

\* Actor a may save the row id, which its context tracks up to date.
MayWrite(a, id) == a \in Actor /\ Unchanged(a) /\ id \in DOMAIN snap[a]

LEMMA UpToDate ==
    ASSUME PersistentSchedulesAssumption, StoreInv, NEW a, NEW id, MayWrite(a, id)
    PROVE  /\ id \in DOMAIN rows
           /\ id \in Schedule => Agree(id, rows[id], snap[a][id])
           /\ id \in Run => snap[a][id] = rows[id] /\ rows[id] \in RunRow
BY DEF MayWrite, Unchanged, StoreInv, TypeOK, Stored, ContextTypes, VersionsTell, Agree

\* The stored schedule s is written.
ScheduleWritten(s) ==
    \/ /\ rows'[s] \in ScheduleRow /\ Timed(s, rows'[s]) /\ rows'[s].version = rows[s].version
       /\ rows'[s].owner = rows[s].owner /\ rows'[s].active = rows[s].active
    \/ Versioned(s, rows[s], rows'[s], rows[s].owner)
    \/ \E h \in Host : /\ MayWrite(<<"poll", h>>, s) /\ (LockSave(h) \/ LockThrows(h))
                       /\ Versioned(s, rows[s], rows'[s], h)
    \/ \E e \in Run : /\ MayWrite(<<"exec", e>>, s) /\ ReleaseSave(e)
                      /\ Versioned(s, rows[s], rows'[s], NoHost)
    \/ \E h \in Host : /\ MayWrite(<<"recover", h>>, s) /\ RecoverSave(h)
                       /\ Versioned(s, rows[s], rows'[s], NoHost)

\* The stored entry e is written.
EntryWritten(e) ==
    /\ rows'[e] \in RunRow /\ rows'[e].version = rows[e].version + 1
    /\ \/ rows'[e].status = rows[e].status
       \/ SettleSave(e) /\ MayWrite(<<"exec", e>>, e)
       \/ \E h \in Host : MayWrite(<<"recover", h>>, e) /\ RecoverSave(h)

\* A stored row that a save tracks takes its columns, and the others stay.
RowSaved(a, id, r) ==
    /\ id \notin DOMAIN snap[a] => rows'[id] = rows[id]
    /\ id \in DOMAIN snap[a] =>
          MayWrite(a, id) /\ rows'[id] = Merged(rows[id], snap[a][id], r)

LEMMA SavedRow ==
    ASSUME NEW id \in DOMAIN rows, NEW a \in Actor, NEW edited, NEW New,
           SaveRows(a, edited, New)
    PROVE  RowSaved(a, id, edited[id])
BY DEF SaveRows, RowSaved, MayWrite, Tracks

LEMMA RowsSaved ==
    ASSUME StoreInv, NEW id \in DOMAIN rows
    PROVE  /\ \A h \in Host : SyncSave(h) /\ id \in Schedule => \E t \in Times(id) :
                 RowSaved(<<"sync", h>>, id, Synced(snap[<<"sync", h>>][id], t))
           /\ \A h \in Host : SyncSave(h) => \E r : RowSaved(<<"sync", h>>, id, r)
           /\ \A c \in Client : AdminSave(c) => \E b \in BOOLEAN, t \in Times(id) :
                 RowSaved(<<"admin", c>>, id, Toggled(b, t, snap[<<"admin", c>>][id]))
           /\ \A h \in Host : LockSave(h) \/ LockThrows(h) =>
                 \/ rows' = rows
                 \/ RowSaved(<<"poll", h>>, id, Locked(h, snap[<<"poll", h>>][id]))
           /\ \A e \in Run : StartSave(e) \/ StartThrows(e) =>
                 \/ rows' = rows
                 \/ \E t \in Times(id) :
                       RowSaved(<<"exec", e>>, id, Started(t, snap[<<"exec", e>>][id]))
           /\ \A e \in Run : SettleSave(e) =>
                 RowSaved(<<"exec", e>>, id, Settled(exec[e].ok, snap[<<"exec", e>>][id]))
           /\ \A e \in Run : ReleaseSave(e) =>
                 RowSaved(<<"exec", e>>, id, Unlocked(snap[<<"exec", e>>][id]))
           /\ \A e \in Run : BeatSave(e) =>
                 RowSaved(<<"beat", e>>, id, Beaten(snap[<<"beat", e>>][id]))
           /\ \A h \in Host : RecoverSave(h) =>
                 RowSaved(<<"recover", h>>, id, Recovered(snap[<<"recover", h>>][id]))
<1> DEFINE sync(h) == snap[<<"sync", h>>]
           admin(c) == snap[<<"admin", c>>]
<1>1. ASSUME NEW h \in Host, SyncSave(h)
      PROVE  /\ id \in Schedule => \E t \in Times(id) :
                    RowSaved(<<"sync", h>>, id, Synced(sync(h)[id], t))
             /\ \E r : RowSaved(<<"sync", h>>, id, r)
    <2>1. PICK t \in [Schedule -> {"none", "set", "again"}] :
             /\ \A s \in Schedule : t[s] \in Times(s)
             /\ \E New : SaveRows(<<"sync", h>>,
                                [s \in DOMAIN sync(h) |-> Synced(sync(h)[s], t[s])], New)
        BY <1>1 DEF SyncSave
    <2> DEFINE edited == [s \in DOMAIN sync(h) |-> Synced(sync(h)[s], t[s])]
    <2>2. RowSaved(<<"sync", h>>, id, edited[id])
        BY <2>1, Actors, SavedRow
    <2>3. RowSaved(<<"sync", h>>, id, Synced(sync(h)[id], t[id]))
        BY <2>2 DEF RowSaved
    <2>4. QED
        BY <2>1, <2>3
<1>2. ASSUME NEW c \in Client, AdminSave(c)
      PROVE  \E b \in BOOLEAN, t \in Times(id) :
                RowSaved(<<"admin", c>>, id, Toggled(b, t, admin(c)[id]))
    <2>1. PICK b \in BOOLEAN, s \in DOMAIN admin(c) : \E t \in Times(s) :
             SaveRows(<<"admin", c>>,
                      [i \in DOMAIN admin(c) |-> Toggled(b, t, admin(c)[i])], Nothing)
        BY <1>2 DEF AdminSave, SaveColumns
    <2>2. PICK t \in Times(s) :
             SaveRows(<<"admin", c>>,
                      [i \in DOMAIN admin(c) |-> Toggled(b, t, admin(c)[i])], Nothing)
        BY <2>1
    <2> DEFINE edited == [i \in DOMAIN admin(c) |-> Toggled(b, t, admin(c)[i])]
    <2>3. RowSaved(<<"admin", c>>, id, edited[id])
        BY <2>2, Actors, SavedRow
    <2>4. CASE id \in DOMAIN admin(c)
        <3>1. id = s
            BY <2>4 DEF StoreInv, ContextsTrack
        <3>2. QED
            BY <2>3, <2>4, <3>1
    <2>5. CASE id \notin DOMAIN admin(c)
        <3>1. "set" \in Times(id)
            BY DEF Times
        <3>2. QED
            BY <2>3, <2>5, <3>1 DEF RowSaved
    <2>6. QED
        BY <2>4, <2>5
<1>3. ASSUME NEW h \in Host, LockSave(h) \/ LockThrows(h)
      PROVE  \/ rows' = rows
             \/ RowSaved(<<"poll", h>>, id, Locked(h, snap[<<"poll", h>>][id]))
    <2> DEFINE edited == [i \in DOMAIN snap[<<"poll", h>>] |->
                            Locked(h, snap[<<"poll", h>>][i])]
    <2>1. rows' = rows \/ SaveRows(<<"poll", h>>, edited, Nothing)
        BY <1>3 DEF LockSave, LockThrows, SaveColumns
    <2>2. rows' = rows \/ RowSaved(<<"poll", h>>, id, edited[id])
        BY <2>1, Actors, SavedRow
    <2>3. QED
        BY <2>2 DEF RowSaved
<1>4. ASSUME NEW e \in Run, StartSave(e) \/ StartThrows(e)
      PROVE  \/ rows' = rows
             \/ \E t \in Times(id) :
                   RowSaved(<<"exec", e>>, id, Started(t, snap[<<"exec", e>>][id]))
    <2> DEFINE edited(t) == [i \in DOMAIN snap[<<"exec", e>>] |->
                               Started(t, snap[<<"exec", e>>][i])]
    <2>1. CASE rows' = rows
        BY <2>1
    <2>2. CASE rows' # rows
        <3>1. SaveStart(e) /\ In(e, "starting")
            BY <1>4, <2>2 DEF StartSave, StartThrows
        <3>2. PICK t \in Times(exec[e].job) :
                 SaveRows(<<"exec", e>>, edited(t), [r \in {e} |-> NewRun])
            BY <3>1 DEF SaveStart, SaveColumns
        <3>3. RowSaved(<<"exec", e>>, id, edited(t)[id])
            BY <3>2, Actors, SavedRow
        <3>4. DOMAIN snap[<<"exec", e>>] = {exec[e].job}
            BY <3>1 DEF SaveStart, StoreInv, ContextsTrack, In
        <3>5. CASE id = exec[e].job
            BY <3>3, <3>4, <3>5
        <3>6. CASE id # exec[e].job
            <4>1. "set" \in Times(id)
                BY DEF Times
            <4>2. QED
                BY <3>3, <3>4, <3>6, <4>1 DEF RowSaved
        <3>7. QED
            BY <3>5, <3>6
    <2>3. QED
        BY <2>1, <2>2
<1>5. ASSUME NEW e \in Run, SettleSave(e)
      PROVE  RowSaved(<<"exec", e>>, id, Settled(exec[e].ok, snap[<<"exec", e>>][id]))
    <2> DEFINE edited == [i \in DOMAIN snap[<<"exec", e>>] |->
                            Settled(exec[e].ok, snap[<<"exec", e>>][i])]
    <2>1. SaveRows(<<"exec", e>>, edited, Nothing)
        BY <1>5 DEF SettleSave, SaveColumns
    <2>2. RowSaved(<<"exec", e>>, id, edited[id])
        BY <2>1, Actors, SavedRow
    <2>3. QED
        BY <2>2 DEF RowSaved
<1>6. ASSUME NEW e \in Run, ReleaseSave(e)
      PROVE  RowSaved(<<"exec", e>>, id, Unlocked(snap[<<"exec", e>>][id]))
    <2> DEFINE edited == [i \in DOMAIN snap[<<"exec", e>>] |-> Unlocked(snap[<<"exec", e>>][i])]
    <2>1. RowSaved(<<"exec", e>>, id, edited[id])
        BY <1>6, Actors, SavedRow DEF ReleaseSave, SaveColumns
    <2>2. QED
        BY <2>1 DEF RowSaved
<1>7. ASSUME NEW e \in Run, BeatSave(e)
      PROVE  RowSaved(<<"beat", e>>, id, Beaten(snap[<<"beat", e>>][id]))
    <2> DEFINE edited == [i \in DOMAIN snap[<<"beat", e>>] |-> Beaten(snap[<<"beat", e>>][i])]
    <2>1. RowSaved(<<"beat", e>>, id, edited[id])
        BY <1>7, Actors, SavedRow DEF BeatSave, SaveColumns
    <2>2. QED
        BY <2>1 DEF RowSaved
<1>8. ASSUME NEW h \in Host, RecoverSave(h)
      PROVE  RowSaved(<<"recover", h>>, id, Recovered(snap[<<"recover", h>>][id]))
    <2> DEFINE edited == [i \in DOMAIN snap[<<"recover", h>>] |->
                            Recovered(snap[<<"recover", h>>][i])]
    <2>1. RowSaved(<<"recover", h>>, id, edited[id])
        BY <1>8, Actors, SavedRow DEF RecoverSave, SaveColumns
    <2>2. QED
        BY <2>1 DEF RowSaved
<1>9. QED
    BY <1>1, <1>2, <1>3, <1>4, <1>5, <1>6, <1>7, <1>8

\* Some rows are saved.
SavesRows ==
    \/ \E h \in Host : SyncSave(h) \/ LockSave(h) \/ LockThrows(h) \/ RecoverSave(h)
    \/ \E c \in Client : AdminSave(c)
    \/ \E e \in Run : \/ StartSave(e) \/ StartThrows(e) \/ SettleSave(e)
                      \/ ReleaseSave(e) \/ BeatSave(e)

LEMMA RowsStay ==
    ASSUME [Next]_vars
    PROVE  rows' = rows \/ SavesRows
<1>1. ASSUME NEW h \in Host, SyncStep(h) \/ PollStep(h) \/ RecoverStep(h) \/ HostStep(h)
      PROVE  rows' = rows \/ SavesRows
    BY <1>1 DEF SavesRows, SyncStep, SyncRead, SyncThrows, PollStep, PollRead, PollNext,
                LockRead, LockTaken, LockConflict, RecoverStep, RecoverRead, RecoverThrows,
                HostStep, Stop, Exit, Crash, Gone, store
<1>2. ASSUME NEW c \in Client, AdminStep(c)
      PROVE  rows' = rows \/ SavesRows
    BY <1>2 DEF SavesRows, AdminStep, AdminRead, AdminThrows
<1>3. ASSUME NEW e \in Run, ExecStep(e) \/ BeatStep(e) \/ HeartbeatExpires(e)
      PROVE  rows' = rows \/ SavesRows
    BY <1>3 DEF SavesRows, ExecStep, StartRead, SettleRead, SettleThrows, Interrupted,
                ReleaseRead, ReleaseNothing, ReleaseThrows, BeatStep, BeatRead,
                BeatThrows, HeartbeatExpires, store
<1>4. ASSUME NEW s \in Schedule, NextTimeComes(s) \/ LockExpires(s)
      PROVE  rows' = rows
    BY <1>4 DEF NextTimeComes, LockExpires, store
<1>5. QED
    BY <1>1, <1>2, <1>3, <1>4 DEF Next, vars

\* Whoever writes a schedule.
LEMMA WhoWritesSchedules ==
    ASSUME PersistentSchedulesAssumption, StoreInv, [Next]_vars, NEW s \in Stored
    PROVE  rows'[s] = rows[s] \/ ScheduleWritten(s)
<1>1. s \in DOMAIN rows /\ s \in Schedule /\ s \notin Run
    BY DEF Stored, PersistentSchedulesAssumption
<1>2. ASSUME NEW a, NEW r, RowSaved(a, s, r), rows'[s] # rows[s]
      PROVE  /\ MayWrite(a, s) /\ Agree(s, rows[s], snap[a][s])
             /\ rows'[s] = Merged(rows[s], snap[a][s], r)
    BY <1>1, <1>2, UpToDate DEF RowSaved
<1>3. ASSUME NEW h \in Host, SyncSave(h), rows'[s] # rows[s]
      PROVE  ScheduleWritten(s)
    <2>1. PICK t \in Times(s) :
             RowSaved(<<"sync", h>>, s, Synced(snap[<<"sync", h>>][s], t))
        BY <1>1, <1>3, RowsSaved
    <2>2. QED
        BY <1>2, <1>3, <2>1, SyncedRow DEF ScheduleWritten
<1>4. ASSUME NEW c \in Client, AdminSave(c), rows'[s] # rows[s]
      PROVE  ScheduleWritten(s)
    <2>1. PICK b \in BOOLEAN, t \in Times(s) :
             RowSaved(<<"admin", c>>, s, Toggled(b, t, snap[<<"admin", c>>][s]))
        BY <1>1, <1>4, RowsSaved
    <2>2. QED
        BY <1>2, <1>4, <2>1, ToggledRow DEF ScheduleWritten
<1>5. ASSUME NEW h \in Host, LockSave(h) \/ LockThrows(h), rows'[s] # rows[s]
      PROVE  ScheduleWritten(s)
    <2>1. RowSaved(<<"poll", h>>, s, Locked(h, snap[<<"poll", h>>][s]))
        BY <1>1, <1>5, RowsSaved
    <2> DEFINE old == snap[<<"poll", h>>][s]
    <2>2. /\ MayWrite(<<"poll", h>>, s) /\ Agree(s, rows[s], old)
          /\ rows'[s] = Merged(rows[s], old, [old EXCEPT !.owner = h, !.version = @ + 1])
        BY <1>2, <1>5, <2>1 DEF Locked
    <2> HIDE DEF old
    <2>3. Versioned(s, rows[s], rows'[s], h)
        BY <2>2, OwnedRow
    <2>4. QED
        BY <1>5, <2>2, <2>3 DEF ScheduleWritten
<1>6. ASSUME NEW e \in Run, StartSave(e) \/ StartThrows(e), rows'[s] # rows[s]
      PROVE  ScheduleWritten(s)
    <2>1. PICK t \in Times(s) :
             RowSaved(<<"exec", e>>, s, Started(t, snap[<<"exec", e>>][s]))
        BY <1>1, <1>6, RowsSaved
    <2>2. /\ Agree(s, rows[s], snap[<<"exec", e>>][s])
          /\ rows'[s] = Merged(rows[s], snap[<<"exec", e>>][s],
                               Started(t, snap[<<"exec", e>>][s]))
        BY <1>2, <1>6, <2>1
    <2>3. Versioned(s, rows[s], rows'[s], rows[s].owner)
        BY <2>2, StartedRow
    <2>4. QED
        BY <2>3 DEF ScheduleWritten
<1>7. ASSUME NEW e \in Run, ReleaseSave(e), rows'[s] # rows[s]
      PROVE  ScheduleWritten(s)
    <2>1. RowSaved(<<"exec", e>>, s, Unlocked(snap[<<"exec", e>>][s]))
        BY <1>1, <1>7, RowsSaved
    <2>2. /\ MayWrite(<<"exec", e>>, s) /\ Agree(s, rows[s], snap[<<"exec", e>>][s])
          /\ rows'[s] = Merged(rows[s], snap[<<"exec", e>>][s],
                               Unlocked(snap[<<"exec", e>>][s]))
        BY <1>2, <1>7, <2>1
    <2>3. Versioned(s, rows[s], rows'[s], NoHost)
        BY <2>2, UnlockedRow
    <2>4. QED
        BY <1>7, <2>2, <2>3 DEF ScheduleWritten
<1>8. ASSUME NEW e \in Run, SettleSave(e)
      PROVE  rows'[s] = rows[s]
    <2>1. DOMAIN snap[<<"exec", e>>] = {e}
        BY <1>8 DEF SettleSave, StoreInv, ContextsTrack
    <2>2. QED
        BY <1>1, <1>8, <2>1, RowsSaved DEF RowSaved
<1>9. ASSUME NEW e \in Run, BeatSave(e)
      PROVE  rows'[s] = rows[s]
    <2>1. DOMAIN snap[<<"beat", e>>] = {e}
        BY <1>9 DEF BeatSave, StoreInv, ContextsTrack
    <2>2. QED
        BY <1>1, <1>9, <2>1, RowsSaved DEF RowSaved
<1>10. ASSUME NEW h \in Host, RecoverSave(h), rows'[s] # rows[s]
       PROVE  ScheduleWritten(s)
    <2>1. RowSaved(<<"recover", h>>, s, Recovered(snap[<<"recover", h>>][s]))
        BY <1>1, <1>10, RowsSaved
    <2> DEFINE old == snap[<<"recover", h>>][s]
    <2>2. /\ MayWrite(<<"recover", h>>, s) /\ Agree(s, rows[s], old)
          /\ rows'[s] = Merged(rows[s], old, Recovered(old))
        BY <1>2, <1>10, <2>1
    <2> HIDE DEF old
    <2>3. Recovered(old) = Unlocked(old)
        BY <2>2 DEF Agree, ScheduleRow, Recovered
    <2>4. Versioned(s, rows[s], rows'[s], NoHost)
        BY <2>2, <2>3, UnlockedRow
    <2>5. QED
        BY <1>10, <2>2, <2>4 DEF ScheduleWritten
<1>11. QED
    BY <1>3, <1>4, <1>5, <1>6, <1>7, <1>8, <1>9, <1>10, RowsStay DEF SavesRows

\* Whoever writes a history entry.
LEMMA WhoWritesEntries ==
    ASSUME PersistentSchedulesAssumption, StoreInv, [Next]_vars,
           NEW e \in DOMAIN rows \cap Run
    PROVE  rows'[e] = rows[e] \/ EntryWritten(e)
<1>1. e \in DOMAIN rows /\ e \in Run /\ e \notin Schedule
    BY DEF PersistentSchedulesAssumption
<1>2. ASSUME NEW a, NEW r, RowSaved(a, e, r), rows'[e] # rows[e]
      PROVE  /\ e \in DOMAIN snap[a] /\ MayWrite(a, e) /\ snap[a][e] = rows[e]
             /\ rows[e] \in RunRow /\ rows'[e] = Merged(rows[e], rows[e], r)
    BY <1>1, <1>2, UpToDate DEF RowSaved
<1> USE DEF StoreInv
<1>3. ASSUME NEW h \in Host, SyncSave(h)
      PROVE  rows'[e] = rows[e]
    BY <1>1, <1>3, RowsSaved DEF RowSaved, ContextsTrack
<1>4. ASSUME NEW c \in Client, AdminSave(c)
      PROVE  rows'[e] = rows[e]
    BY <1>1, <1>4, RowsSaved DEF RowSaved, ContextsTrack
<1>5. ASSUME NEW h \in Host, LockSave(h) \/ LockThrows(h)
      PROVE  rows'[e] = rows[e]
    <2>1. DOMAIN snap[<<"poll", h>>] \subseteq Schedule
        BY <1>5 DEF LockSave, LockThrows, ContextsTrack, TypeOK, Exclusive
    <2>2. QED
        BY <1>1, <1>5, <2>1, RowsSaved DEF RowSaved
<1>6. ASSUME NEW r \in Run, StartSave(r) \/ StartThrows(r) \/ ReleaseSave(r)
      PROVE  rows'[e] = rows[e]
    <2>1. In(r, "starting") \/ In(r, "releasing")
        BY <1>6 DEF StartSave, StartThrows, ReleaseSave
    <2>2. exec[r].job \in Schedule
        BY <2>1 DEF TypeOK, Execution, In, Live
    <2>3. DOMAIN snap[<<"exec", r>>] \subseteq Schedule
        BY <2>1, <2>2 DEF ContextsTrack, In, Opened, Nothing
    <2>4. QED
        BY <1>1, <1>6, <2>3, RowsSaved DEF RowSaved
<1>7. ASSUME NEW r \in Run, SettleSave(r), rows'[e] # rows[e]
      PROVE  EntryWritten(e)
    <2>1. RowSaved(<<"exec", r>>, e, Settled(exec[r].ok, snap[<<"exec", r>>][e]))
        BY <1>1, <1>7, RowsSaved
    <2>2. /\ e \in DOMAIN snap[<<"exec", r>>] /\ MayWrite(<<"exec", r>>, e)
          /\ rows[e] \in RunRow
          /\ rows'[e] = Merged(rows[e], rows[e], Settled(exec[r].ok, rows[e]))
        BY <1>2, <1>7, <2>1
    <2>3. r = e
        BY <1>7, <2>2 DEF SettleSave, ContextsTrack
    <2>4. exec[r].ok \in BOOLEAN
        BY <1>7 DEF SettleSave, In, Live, TypeOK, Execution
    <2>5. QED
        BY <1>7, <2>2, <2>3, <2>4, EntryEdits DEF EntryWritten
<1>8. ASSUME NEW r \in Run, BeatSave(r), rows'[e] # rows[e]
      PROVE  EntryWritten(e)
    <2>1. RowSaved(<<"beat", r>>, e, Beaten(snap[<<"beat", r>>][e]))
        BY <1>1, <1>8, RowsSaved
    <2>2. QED
        BY <1>2, <1>8, <2>1, EntryEdits DEF EntryWritten
<1>9. ASSUME NEW h \in Host, RecoverSave(h), rows'[e] # rows[e]
      PROVE  EntryWritten(e)
    <2>1. RowSaved(<<"recover", h>>, e, Recovered(snap[<<"recover", h>>][e]))
        BY <1>1, <1>9, RowsSaved
    <2>2. /\ MayWrite(<<"recover", h>>, e) /\ rows[e] \in RunRow
          /\ rows'[e] = Merged(rows[e], rows[e], Recovered(rows[e]))
        BY <1>2, <1>9, <2>1
    <2>3. Recovered(rows[e]) = Settled(FALSE, rows[e])
        BY <2>2 DEF RunRow, Recovered
    <2>4. QED
        BY <1>9, <2>2, <2>3, EntryEdits DEF EntryWritten
<1>10. QED
    BY <1>3, <1>4, <1>5, <1>6, <1>7, <1>8, <1>9, RowsStay DEF SavesRows

\* Rows are never deleted; new ones are written by the synchronisation and by
\* executions that start.
LEMMA NewRows ==
    ASSUME PersistentSchedulesAssumption, StoreInv, [Next]_vars
    PROVE  /\ DOMAIN rows \subseteq DOMAIN rows'
           /\ \A id \in DOMAIN rows' \ DOMAIN rows :
                 \/ id \in Schedule /\ \E t \in Times(id) : rows'[id] = NewSchedule(t)
                 \/ id \in Run /\ rows'[id] = NewRun /\ (StartSave(id) \/ StartThrows(id))
<1> DEFINE Added(id) ==
              \/ id \in Schedule /\ \E t \in Times(id) : rows'[id] = NewSchedule(t)
              \/ id \in Run /\ rows'[id] = NewRun /\ (StartSave(id) \/ StartThrows(id))
           Goal == /\ DOMAIN rows \subseteq DOMAIN rows'
                   /\ \A id \in DOMAIN rows' \ DOMAIN rows : Added(id)
<1>1. DOMAIN Nothing = {}
    BY DEF Nothing
<1>2. ASSUME DOMAIN rows' = DOMAIN rows
      PROVE  Goal
    BY <1>2
<1>3. ASSUME NEW h \in Host, SyncSave(h)
      PROVE  Goal
    <2>1. PICK t \in [Schedule -> {"none", "set", "again"}] :
             /\ \A s \in Schedule : t[s] \in Times(s)
             /\ \E edited : SaveRows(<<"sync", h>>, edited,
                                   [s \in ToCreate(h) |-> NewSchedule(t[s])])
        BY <1>3 DEF SyncSave
    <2>2. ToCreate(h) \subseteq Schedule
        BY DEF ToCreate
    <2>3. QED
        BY <2>1, <2>2 DEF SaveRows
<1>4. ASSUME NEW c \in Client, AdminSave(c)
      PROVE  Goal
    <2>1. DOMAIN rows' = DOMAIN rows \cup DOMAIN Nothing
        BY <1>4 DEF AdminSave, SaveColumns, SaveRows
    <2>2. QED
        BY <1>1, <1>2, <2>1
<1>5. ASSUME NEW h \in Host, LockSave(h) \/ LockThrows(h) \/ RecoverSave(h)
      PROVE  Goal
    <2>1. DOMAIN rows' = DOMAIN rows \/ DOMAIN rows' = DOMAIN rows \cup DOMAIN Nothing
        BY <1>5 DEF LockSave, LockThrows, RecoverSave, SaveColumns, SaveRows
    <2>2. QED
        BY <1>1, <1>2, <2>1
<1>6. ASSUME NEW e \in Run, SettleSave(e) \/ ReleaseSave(e) \/ BeatSave(e)
      PROVE  Goal
    <2>1. DOMAIN rows' = DOMAIN rows \cup DOMAIN Nothing
        BY <1>6 DEF SettleSave, ReleaseSave, BeatSave, SaveColumns, SaveRows
    <2>2. QED
        BY <1>1, <1>2, <2>1
<1>7. ASSUME NEW e \in Run, StartSave(e) \/ StartThrows(e)
      PROVE  Goal
    <2>1. \/ rows' = rows
          \/ \E edited : SaveRows(<<"exec", e>>, edited, [r \in {e} |-> NewRun])
        BY <1>7 DEF StartSave, StartThrows, SaveStart, SaveColumns
    <2>2. CASE rows' # rows
        BY <1>7, <2>1, <2>2 DEF SaveRows
    <2>3. QED
        BY <1>2, <2>2
<1>8. QED
    BY <1>2, <1>3, <1>4, <1>5, <1>6, <1>7, RowsStay DEF SavesRows

\* A context is opened with stored rows as they are.
LEMMA LoadedContext ==
    ASSUME StoreInv, NEW a \in Actor, Loads(a)
    PROVE  /\ rows' = rows
           /\ DOMAIN snap'[a] \subseteq DOMAIN rows
           /\ \A id \in DOMAIN snap'[a] :
                 \/ snap'[a][id] = rows[id]
                 \/ /\ \E h \in Host : a = <<"sync", h>>
                    /\ id \in DOMAIN snap[a] /\ snap'[a][id] = snap[a][id]
<1> USE DEF StoreInv
<1>1. DOMAIN snap = Actor
    BY DEF TypeOK
<1>2. ASSUME NEW ids, ids \subseteq DOMAIN rows, Load(a, ids), rows' = rows
      PROVE  /\ rows' = rows
             /\ DOMAIN snap'[a] \subseteq DOMAIN rows
             /\ \A id \in DOMAIN snap'[a] : snap'[a][id] = rows[id]
    BY <1>1, <1>2 DEF Load, Loaded
<1>3. ASSUME NEW h \in Host, a = <<"sync", h>>, SyncRead(h)
      PROVE  /\ rows' = rows
             /\ DOMAIN snap'[a] \subseteq DOMAIN rows
             /\ \A id \in DOMAIN snap'[a] :
                   \/ snap'[a][id] = rows[id]
                   \/ id \in DOMAIN snap[a] /\ snap'[a][id] = snap[a][id]
    <2>1. PICK ids : LoadAlso(a, ids) /\ ids \subseteq DOMAIN rows /\ rows' = rows
        BY <1>3 DEF SyncRead, Stored
    <2>2. snap'[a] = [id \in DOMAIN snap[a] \cup ids |->
                        IF id \in DOMAIN snap[a] THEN snap[a][id] ELSE rows[id]]
        BY <1>1, <2>1 DEF LoadAlso
    <2>3. DOMAIN snap[a] \subseteq DOMAIN rows
        BY DEF TypeOK
    <2>4. QED
        BY <2>1, <2>2, <2>3
<1>4. ASSUME NEW c \in Client, NEW s \in Schedule, a = <<"admin", c>>, AdminRead(c, s)
      PROVE  rows' = rows /\ \E ids : ids \subseteq DOMAIN rows /\ Load(a, ids)
    <2>1. {s} \subseteq DOMAIN rows
        BY <1>4 DEF AdminRead, Stored
    <2>2. QED
        BY <1>4, <2>1 DEF AdminRead
<1>5. ASSUME NEW h \in Host, a = <<"poll", h>>, LockRead(h)
      PROVE  rows' = rows /\ \E ids : ids \subseteq DOMAIN rows /\ Load(a, ids)
    <2>1. locking[h] \subseteq DOMAIN rows
        BY DEF JobsStored
    <2>2. QED
        BY <1>5, <2>1 DEF LockRead
<1>6. ASSUME NEW e \in Run, a = <<"exec", e>>,
             StartRead(e) \/ SettleRead(e) \/ ReleaseRead(e)
      PROVE  rows' = rows /\ \E ids : ids \subseteq DOMAIN rows /\ Load(a, ids)
    <2>1. CASE StartRead(e) \/ ReleaseRead(e)
        <3>1. {exec[e].job} \subseteq DOMAIN rows
            BY <2>1 DEF StartRead, ReleaseRead, In, JobsStored
        <3>2. QED
            BY <1>6, <2>1, <3>1 DEF StartRead, ReleaseRead
    <2>2. CASE SettleRead(e)
        <3>1. {e} \subseteq DOMAIN rows
            BY <2>2 DEF SettleRead, Invoking, TypeOK
        <3>2. QED
            BY <1>6, <2>2, <3>1 DEF SettleRead
    <2>3. QED
        BY <1>6, <2>1, <2>2
<1>7. ASSUME NEW e \in Run, a = <<"beat", e>>, BeatRead(e)
      PROVE  rows' = rows /\ \E ids : ids \subseteq DOMAIN rows /\ Load(a, ids)
    <2>1. {e} \subseteq DOMAIN rows
        BY <1>7 DEF BeatRead, TypeOK
    <2>2. QED
        BY <1>7, <2>1 DEF BeatRead
<1>8. ASSUME NEW h \in Host, a = <<"recover", h>>, RecoverRead(h)
      PROVE  rows' = rows /\ \E ids : ids \subseteq DOMAIN rows /\ Load(a, ids)
    <2>1. StaleRuns \cup StaleLocks \subseteq DOMAIN rows
        BY DEF StaleRuns, StaleLocks, Stored
    <2>2. QED
        BY <1>8, <2>1 DEF RecoverRead
<1>9. \/ \E h \in Host : a = <<"sync", h>> /\ SyncRead(h)
      \/ rows' = rows /\ \E ids : ids \subseteq DOMAIN rows /\ Load(a, ids)
    BY <1>4, <1>5, <1>6, <1>7, <1>8 DEF Loads
<1>10. QED
    BY <1>2, <1>3, <1>9

\* A Version never falls, and as long as it stays, so does what it protects.
LEMMA VersionsRise ==
    ASSUME PersistentSchedulesAssumption, StoreInv, [Next]_vars, NEW id \in DOMAIN rows
    PROVE  /\ rows[id].version \in Nat /\ rows'[id].version \in Nat
           /\ rows[id].version <= rows'[id].version
           /\ rows'[id].version = rows[id].version =>
                 /\ id \in Run => rows'[id] = rows[id]
                 /\ id \in Schedule => /\ rows'[id].owner = rows[id].owner
                                       /\ rows'[id].active = rows[id].active
           /\ id \in Schedule => rows'[id] \in ScheduleRow /\ Timed(id, rows'[id])
           /\ id \in Run => rows'[id] \in RunRow
<1>1. CASE id \in Schedule
    <2>1. /\ id \in Stored /\ id \notin Run /\ rows[id] \in ScheduleRow /\ Timed(id, rows[id])
          /\ rows[id].version \in Nat
        BY <1>1 DEF Stored, PersistentSchedulesAssumption, StoreInv, TypeOK, ScheduleRow
    <2>2. rows'[id] = rows[id] \/ ScheduleWritten(id)
        BY <2>1, WhoWritesSchedules
    <2>3. CASE rows'[id].version = rows[id].version + 1
              /\ rows'[id] \in ScheduleRow /\ Timed(id, rows'[id])
        BY <1>1, <2>1, <2>3
    <2>4. CASE /\ rows'[id] \in ScheduleRow /\ Timed(id, rows'[id])
               /\ rows'[id].version = rows[id].version
               /\ rows'[id].owner = rows[id].owner /\ rows'[id].active = rows[id].active
        BY <1>1, <2>1, <2>4
    <2>5. CASE rows'[id] = rows[id]
        BY <2>1, <2>4, <2>5
    <2>6. QED
        BY <2>2, <2>3, <2>4, <2>5 DEF ScheduleWritten, Versioned
<1>2. CASE id \in Run
    <2>1. id \notin Schedule /\ rows[id] \in RunRow /\ rows[id].version \in Nat
        BY <1>2 DEF PersistentSchedulesAssumption, StoreInv, TypeOK, RunRow
    <2>2. rows'[id] = rows[id] \/ EntryWritten(id)
        BY <1>2, WhoWritesEntries
    <2>3. CASE rows'[id].version = rows[id].version + 1 /\ rows'[id] \in RunRow
        BY <1>2, <2>1, <2>3
    <2>4. QED
        BY <1>2, <2>1, <2>2, <2>3 DEF EntryWritten
<1>3. QED
    BY <1>1, <1>2 DEF StoreInv, TypeOK

\* What may go wrong is used up; which schedules are special stays.
LEMMA FaultsStay ==
    ASSUME TypeOK, [Next]_vars
    PROVE  /\ faults' \in Faults
           /\ faults'.lateLocks = faults.lateLocks
           /\ faults'.lateHeartbeats = faults.lateHeartbeats
           /\ faults'.timeless = faults.timeless
           /\ Exclusive' = Exclusive
<1>1. faults \in Faults
    BY DEF TypeOK
<1>2. /\ faults.stops \in Nat /\ faults.crashes \in Nat /\ faults.toggles \in Nat
    BY <1>1 DEF Faults
<1>3. ASSUME faults' = faults
      PROVE  /\ faults' \in Faults /\ faults'.lateLocks = faults.lateLocks
             /\ faults'.lateHeartbeats = faults.lateHeartbeats
             /\ faults'.overlap = faults.overlap /\ faults'.timeless = faults.timeless
    BY <1>1, <1>3
<1>4. ASSUME NEW n \in Nat,
             \/ faults' = [faults EXCEPT !.stops = n]
             \/ faults' = [faults EXCEPT !.crashes = n]
             \/ faults' = [faults EXCEPT !.toggles = n]
      PROVE  /\ faults' \in Faults /\ faults'.lateLocks = faults.lateLocks
             /\ faults'.lateHeartbeats = faults.lateHeartbeats
             /\ faults'.overlap = faults.overlap /\ faults'.timeless = faults.timeless
    BY <1>1, <1>4 DEF Faults
<1>5. ASSUME NEW h \in Host, HostStep(h)
      PROVE  \/ faults' = faults
             \/ \E n \in Nat : \/ faults' = [faults EXCEPT !.stops = n]
                               \/ faults' = [faults EXCEPT !.crashes = n]
    <2>1. CASE Stop(h)
        <3>1. faults.stops - 1 \in Nat /\ faults' = [faults EXCEPT !.stops = faults.stops - 1]
            BY <1>2, <2>1 DEF Stop
        <3>2. QED
            BY <3>1
    <2>2. CASE Crash(h)
        <3>1. /\ faults.crashes - 1 \in Nat
              /\ faults' = [faults EXCEPT !.crashes = faults.crashes - 1]
            BY <1>2, <2>2 DEF Crash
        <3>2. QED
            BY <3>1
    <2>3. QED
        BY <1>5, <2>1, <2>2 DEF HostStep, Exit
<1>6. ASSUME NEW c \in Client, NEW s \in Schedule, AdminRead(c, s)
      PROVE  \E n \in Nat : faults' = [faults EXCEPT !.toggles = n]
    <2>1. /\ faults.toggles - 1 \in Nat
          /\ faults' = [faults EXCEPT !.toggles = faults.toggles - 1]
        BY <1>2, <1>6 DEF AdminRead
    <2>2. QED
        BY <2>1
<1>7. ASSUME NEW h \in Host, SyncStep(h) \/ PollStep(h) \/ RecoverStep(h)
      PROVE  faults' = faults
    BY <1>7 DEF SyncStep, SyncRead, SyncSave, SyncThrows, Begin, PollStep, PollRead, PollNext,
                LockRead, LockTaken, LockSave, LockConflict, LockThrows, RecoverStep,
                RecoverRead, RecoverSave, RecoverThrows
<1>8. ASSUME NEW e \in Run, ExecStep(e) \/ BeatStep(e) \/ HeartbeatExpires(e)
      PROVE  faults' = faults
    BY <1>8 DEF ExecStep, StartRead, StartSave, StartThrows, SettleRead, SettleSave,
                SettleThrows, Interrupted, ReleaseRead, ReleaseNothing, ReleaseSave,
                ReleaseThrows, BeatStep, BeatRead, BeatSave, BeatThrows, HeartbeatExpires
<1>9. ASSUME NEW s \in Schedule, NextTimeComes(s) \/ LockExpires(s)
      PROVE  faults' = faults
    BY <1>9 DEF NextTimeComes, LockExpires
<1>10. ASSUME NEW c \in Client, AdminSave(c) \/ AdminThrows(c)
       PROVE  faults' = faults
    BY <1>10 DEF AdminSave, AdminThrows
<1>11. \/ faults' = faults
       \/ \E n \in Nat : \/ faults' = [faults EXCEPT !.stops = n]
                         \/ faults' = [faults EXCEPT !.crashes = n]
                         \/ faults' = [faults EXCEPT !.toggles = n]
    BY <1>5, <1>6, <1>7, <1>8, <1>9, <1>10 DEF Next, AdminStep, vars
<1>12. /\ faults' \in Faults /\ faults'.lateLocks = faults.lateLocks
       /\ faults'.lateHeartbeats = faults.lateHeartbeats
       /\ faults'.overlap = faults.overlap /\ faults'.timeless = faults.timeless
    BY <1>3, <1>4, <1>11
<1>13. QED
    BY <1>12 DEF Exclusive

-----------------------------------------------------------------------------
(* The invariant of the store is inductive: rows and contexts. *)

\* Contexts in the next state are those of before, empty or hold stored rows.
LEMMA WhatContextsHold ==
    ASSUME StoreInv, [Next]_vars, NEW a \in Actor, NEW id \in DOMAIN snap'[a]
    PROVE  /\ id \in DOMAIN rows
           /\ \/ id \in DOMAIN snap[a] /\ snap'[a][id] = snap[a][id]
              \/ Loads(a) /\ rows' = rows /\ snap'[a][id] = rows[id]
<1>1. snap'[a] # Nothing
    BY DEF Nothing
<1>2. CASE snap'[a] = snap[a]
    BY <1>2 DEF StoreInv, TypeOK
<1>3. CASE Loads(a)
    BY <1>3, LoadedContext
<1>4. QED
    BY <1>1, <1>2, <1>3, WhoLoads DEF StoreInv

LEMMA ContextTypesStep ==
    ASSUME PersistentSchedulesAssumption, StoreInv, [Next]_vars
    PROVE  ContextTypes'
<1> SUFFICES ASSUME NEW a \in Actor, NEW id \in DOMAIN snap'[a]
             PROVE  /\ id \in Schedule => snap'[a][id] \in ScheduleRow /\ Timed(id, snap[a][id])'
                    /\ id \in Run => snap'[a][id] \in RunRow
    BY DEF ContextTypes
<1>1. /\ id \in Schedule => rows[id] \in ScheduleRow /\ Timed(id, rows[id])
      /\ id \in Run => rows[id] \in RunRow
    BY WhatContextsHold DEF StoreInv, TypeOK, Stored
<1>2. /\ id \in Schedule => snap'[a][id] \in ScheduleRow /\ Timed(id, snap'[a][id])
      /\ id \in Run => snap'[a][id] \in RunRow
    BY <1>1, WhatContextsHold DEF StoreInv, ContextTypes
<1>3. Timed(id, snap[a][id])' <=> Timed(id, snap'[a][id])
    BY FaultsStay DEF Timed, StoreInv
<1>4. QED
    BY <1>2, <1>3

LEMMA VersionsTellStep ==
    ASSUME PersistentSchedulesAssumption, StoreInv, [Next]_vars
    PROVE  VersionsTell'
<1> SUFFICES ASSUME NEW a \in Actor, NEW id \in DOMAIN snap'[a]
             PROVE  /\ snap'[a][id].version <= rows'[id].version
                    /\ snap'[a][id].version = rows'[id].version =>
                          /\ id \in Run => snap'[a][id] = rows'[id]
                          /\ id \in Schedule => /\ snap'[a][id].owner = rows'[id].owner
                                                /\ snap'[a][id].active = rows'[id].active
    BY DEF VersionsTell
<1>1. id \in DOMAIN rows
    BY WhatContextsHold
<1>2. CASE Loads(a) /\ rows' = rows /\ snap'[a][id] = rows[id]
    <2>1. rows[id].version \in Nat
        BY <1>1, VersionsRise
    <2>2. QED
        BY <1>2, <2>1
<1>3. CASE id \in DOMAIN snap[a] /\ snap'[a][id] = snap[a][id]
    <2> DEFINE v == snap[a][id].version
    <2>1. /\ v <= rows[id].version
          /\ v = rows[id].version =>
                /\ id \in Run => snap[a][id] = rows[id]
                /\ id \in Schedule => /\ snap[a][id].owner = rows[id].owner
                                      /\ snap[a][id].active = rows[id].active
        BY <1>3 DEF StoreInv, VersionsTell
    <2>2. v \in Nat
        BY <1>1, <1>3 DEF StoreInv, TypeOK, ContextTypes, ScheduleRow, RunRow
    <2>3. /\ rows[id].version \in Nat /\ rows'[id].version \in Nat
          /\ rows[id].version <= rows'[id].version
        BY <1>1, VersionsRise
    <2> HIDE DEF v
    <2>4. v <= rows'[id].version
        BY <2>1, <2>2, <2>3
    <2>5. ASSUME v = rows'[id].version
          PROVE  v = rows[id].version /\ rows'[id].version = rows[id].version
        BY <2>1, <2>2, <2>3, <2>5
    <2>6. ASSUME v = rows'[id].version
          PROVE  /\ id \in Run => snap[a][id] = rows'[id]
                 /\ id \in Schedule => /\ snap[a][id].owner = rows'[id].owner
                                       /\ snap[a][id].active = rows'[id].active
        BY <1>1, <2>1, <2>5, <2>6, VersionsRise
    <2>7. QED
        BY <1>3, <2>4, <2>6 DEF v
<1>4. QED
    BY <1>2, <1>3, WhatContextsHold

\* A context that has been kept and is up to date was so before, and its row
\* has not been written.
LEMMA StillUpToDate ==
    ASSUME PersistentSchedulesAssumption, StoreInv, [Next]_vars,
           NEW a \in Actor, NEW id \in DOMAIN snap[a],
           snap[a][id].version = rows'[id].version
    PROVE  /\ id \in DOMAIN rows
           /\ snap[a][id].version = rows[id].version /\ rows'[id].version = rows[id].version
<1>1. id \in DOMAIN rows
    BY DEF StoreInv, TypeOK
<1>2. snap[a][id].version \in Nat /\ snap[a][id].version <= rows[id].version
    BY <1>1 DEF StoreInv, TypeOK, ContextTypes, VersionsTell, ScheduleRow, RunRow
<1>3. /\ rows[id].version \in Nat /\ rows'[id].version \in Nat
      /\ rows[id].version <= rows'[id].version
    BY <1>1, VersionsRise
<1>4. QED
    BY <1>1, <1>2, <1>3

\* The typing of rows and contexts.
LEMMA RowTypesStep ==
    ASSUME PersistentSchedulesAssumption, StoreInv, [Next]_vars
    PROVE  /\ DOMAIN rows' \subseteq Schedule \cup Run
           /\ \A s \in DOMAIN rows' \cap Schedule : rows'[s] \in ScheduleRow /\ Timed(s, rows'[s])
           /\ \A e \in DOMAIN rows' \cap Run : rows'[e] \in RunRow
           /\ DOMAIN snap' = Actor
           /\ \A a \in Actor : DOMAIN snap'[a] \subseteq DOMAIN rows'
<1>1. /\ \A id, t : t \in Times(id) =>
            NewSchedule(t) \in ScheduleRow /\ Timed(id, NewSchedule(t))
      /\ NewRun \in RunRow
    BY DEF NewSchedule, ScheduleRow, Timed, Times, NewRun, RunRow
<1>2. /\ DOMAIN rows' \subseteq Schedule \cup Run
      /\ \A s \in DOMAIN rows' \cap Schedule : rows'[s] \in ScheduleRow /\ Timed(s, rows'[s])
      /\ \A e \in DOMAIN rows' \cap Run : rows'[e] \in RunRow
    BY <1>1, NewRows, VersionsRise DEF StoreInv, TypeOK, PersistentSchedulesAssumption
<1>3. \A a \in Actor : DOMAIN snap'[a] \subseteq DOMAIN rows'
    BY NewRows, WhatContextsHold
<1>4. DOMAIN snap = Actor
    BY DEF StoreInv, TypeOK
<1>5. ASSUME NEW A, Dispose(A)
      PROVE  DOMAIN snap' = Actor
    BY <1>4, <1>5 DEF Dispose
<1>6. ASSUME NEW a, NEW ids, Load(a, ids) \/ LoadAlso(a, ids)
      PROVE  DOMAIN snap' = Actor
    BY <1>4, <1>6 DEF Load, LoadAlso
<1>7. ASSUME NEW h \in Host, SyncStep(h) \/ PollStep(h) \/ RecoverStep(h) \/ HostStep(h)
      PROVE  DOMAIN snap' = Actor
    BY <1>4, <1>5, <1>6, <1>7
       DEF SyncStep, SyncRead, SyncSave, SyncThrows, Begin, PollStep, PollRead, PollNext,
           LockRead, LockTaken, LockSave, LockConflict, LockThrows, RecoverStep,
           RecoverRead, RecoverSave, RecoverThrows, HostStep, Stop, Exit, Crash, Gone,
           store
<1>8. ASSUME NEW c \in Client, AdminStep(c)
      PROVE  DOMAIN snap' = Actor
    BY <1>5, <1>6, <1>8 DEF AdminStep, AdminRead, AdminSave, AdminThrows
<1>9. ASSUME NEW e \in Run, ExecStep(e) \/ BeatStep(e)
      PROVE  DOMAIN snap' = Actor
    BY <1>4, <1>5, <1>6, <1>9
       DEF ExecStep, StartRead, StartSave, StartThrows, SettleRead, SettleSave,
           SettleThrows, Interrupted, Finish, ReleaseRead, ReleaseNothing, ReleaseSave,
           ReleaseThrows, BeatStep, BeatRead, BeatSave, BeatThrows, store
<1>10. DOMAIN snap' = Actor
    BY <1>4, <1>7, <1>8, <1>9
       DEF Next, vars, HeartbeatExpires, NextTimeComes, LockExpires, store
<1>11. QED
    BY <1>2, <1>3, <1>10

-----------------------------------------------------------------------------
(* What one step does to an execution. *)

\* Execution e goes on in phase p.
GoesOn(e, p) ==
    /\ Live(e) /\ exec'[e] \in Execution /\ exec'[e].phase = p
    /\ exec'[e].job = exec[e].job /\ exec'[e].host = exec[e].host

\* The contexts of e are disposed of.
Disposed(e) == snap'[<<"exec", e>>] = Nothing /\ snap'[<<"beat", e>>] = Nothing

\* Execution e is over.
IsOver(e) == Live(e) /\ exec'[e] = Over /\ Disposed(e)

\* Instance h begins to execute s, with its lock if it is exclusive.
Begins(e, h, s) ==
    /\ exec[e] = Unused
    /\ exec' = [exec EXCEPT ![e] =
           [phase |-> "starting", job |-> s, host |-> h, ok |-> FALSE]]
    /\ \/ LockSave(h) /\ s \in locking[h]
       \/ PollNext(h) /\ s \in todo[h] /\ s \notin Exclusive

\* A step of execution e itself.
OwnStep(e) ==
    \/ StartSave(e) /\ GoesOn(e, "running") /\ snap'[<<"exec", e>>] = Nothing
    \/ exec[e].job \in Exclusive /\ ~In(e, "ended") /\ GoesOn(e, "ended") /\ Disposed(e)
    \/ SettleRead(e) /\ GoesOn(e, "settling")
    \/ ReleaseRead(e) /\ GoesOn(e, "releasing")

LEMMA Phases ==
    ASSUME TypeOK, NEW e \in Run, Live(e)
    PROVE  /\ exec[e] \in Execution /\ e \in DOMAIN exec
           /\ exec[e].phase \in Phase /\ exec[e].job \in Schedule /\ exec[e].host \in Host
           /\ \A p \in Phase : LET x == [exec[e] EXCEPT !.phase = p] IN
                 /\ x \in Execution /\ x.phase = p /\ x.job = exec[e].job
                 /\ x.host = exec[e].host /\ x \notin {Unused, Over}
<1>1. exec[e] \in Execution /\ e \in DOMAIN exec
    BY DEF TypeOK, Live
<1>2. \A x \in Execution : DOMAIN x = {"phase", "job", "host", "ok"}
    BY DEF Execution
<1>3. DOMAIN Unused = {"phase"} /\ DOMAIN Over = {"phase"}
    BY DEF Unused, Over
<1>4. ASSUME NEW p \in Phase
      PROVE  LET x == [exec[e] EXCEPT !.phase = p] IN
                /\ x \in Execution /\ x.phase = p /\ x.job = exec[e].job
                /\ x.host = exec[e].host
    BY <1>1 DEF Execution
<1>5. ASSUME NEW x \in Execution
      PROVE  x \notin {Unused, Over}
    <2>1. "job" \in DOMAIN x /\ "job" \notin DOMAIN Unused /\ "job" \notin DOMAIN Over
        BY <1>2, <1>3
    <2>2. QED
        BY <2>1
<1>6. exec[e].phase \in Phase /\ exec[e].job \in Schedule /\ exec[e].host \in Host
    BY <1>1 DEF Execution
<1>7. QED
    BY <1>1, <1>4, <1>5, <1>6

\* The phase a step of e itself leads to.
LEMMA Advance ==
    ASSUME TypeOK, NEW e \in Run, Live(e), NEW p \in Phase,
           exec' = [exec EXCEPT ![e].phase = p]
    PROVE  GoesOn(e, p)
BY Phases DEF GoesOn

LEMMA EndedOrOver ==
    ASSUME TypeOK, NEW e \in Run, Live(e), ~In(e, "ended"), Disposed(e),
           exec' = [exec EXCEPT ![e] = Ended(e)]
    PROVE  IsOver(e) \/ OwnStep(e)
<1>1. e \in DOMAIN exec /\ "ended" \in Phase
    BY Phases DEF Phase
<1>2. CASE exec[e].job \in Exclusive
    <2>1. exec' = [exec EXCEPT ![e].phase = "ended"]
        BY <1>2 DEF Ended
    <2>2. QED
        BY <1>1, <1>2, <2>1, Advance DEF OwnStep
<1>3. CASE exec[e].job \notin Exclusive
    BY <1>1, <1>3 DEF Ended, IsOver
<1>4. QED
    BY <1>2, <1>3

LEMMA ReadSteps ==
    ASSUME TypeOK, NEW e \in Run
    PROVE  /\ SettleRead(e) => GoesOn(e, "settling")
           /\ ReleaseRead(e) => GoesOn(e, "releasing")
<1>1. Phase = {"starting", "running", "settling", "ended", "releasing"}
    BY DEF Phase
<1>2. ASSUME SettleRead(e)
      PROVE  GoesOn(e, "settling")
    <2>1. PICK b \in BOOLEAN :
             exec' = [exec EXCEPT ![e] = [exec[e] EXCEPT !.phase = "settling", !.ok = b]]
        BY <1>2 DEF SettleRead
    <2>2. Live(e) /\ exec[e] \in Execution /\ e \in DOMAIN exec
        BY <1>2, Phases DEF SettleRead, In
    <2> DEFINE x == [exec[e] EXCEPT !.phase = "settling", !.ok = b]
    <2>3. /\ x \in Execution /\ x.phase = "settling" /\ x.job = exec[e].job
          /\ x.host = exec[e].host
        BY <1>1, <2>2 DEF Execution
    <2>4. exec'[e] = x
        BY <2>1, <2>2
    <2> HIDE DEF x
    <2>5. QED
        BY <2>2, <2>3, <2>4 DEF GoesOn
<1>3. ASSUME ReleaseRead(e)
      PROVE  GoesOn(e, "releasing")
    BY <1>1, <1>3, Advance DEF ReleaseRead, In
<1>4. QED
    BY <1>2, <1>3

\* A step of an execution spares the others.
LEMMA ExecSteps ==
    ASSUME StoreInv, NEW e \in Run, ExecStep(e)
    PROVE  /\ exec' = exec \/ IsOver(e) \/ OwnStep(e)
           /\ \A d \in Run \ {e} : exec'[d] = exec[d]
           /\ \A d \in Run \ {e} : /\ snap'[<<"exec", d>>] = snap[<<"exec", d>>]
                                   /\ snap'[<<"beat", d>>] = snap[<<"beat", d>>]
<1> USE DEF StoreInv
<1>1. /\ exec \in [Run -> {Unused, Over} \cup Execution] /\ DOMAIN snap = Actor
      /\ TypeOK
    BY DEF TypeOK
<1>2. ASSUME NEW x, exec' = [exec EXCEPT ![e] = x]
      PROVE  \A d \in Run \ {e} : exec'[d] = exec[d]
    BY <1>1, <1>2
<1>3. ASSUME NEW A, A \subseteq {<<"exec", e>>, <<"beat", e>>}, Dispose(A)
      PROVE  /\ \A d \in Run \ {e} : /\ snap'[<<"exec", d>>] = snap[<<"exec", d>>]
                                     /\ snap'[<<"beat", d>>] = snap[<<"beat", d>>]
             /\ <<"exec", e>> \in A => snap'[<<"exec", e>>] = Nothing
             /\ <<"beat", e>> \in A => snap'[<<"beat", e>>] = Nothing
             /\ <<"beat", e>> \notin A => snap'[<<"beat", e>>] = snap[<<"beat", e>>]
    BY <1>1, <1>3, Actors DEF Dispose
<1>4. ASSUME NEW ids, Load(<<"exec", e>>, ids)
      PROVE  \A d \in Run \ {e} : /\ snap'[<<"exec", d>>] = snap[<<"exec", d>>]
                                  /\ snap'[<<"beat", d>>] = snap[<<"beat", d>>]
    BY <1>1, <1>4, Actors DEF Load
<1>5. Phase = {"starting", "running", "settling", "ended", "releasing"}
    BY DEF Phase
<1>6. CASE StartRead(e)
    BY <1>4, <1>6 DEF StartRead
<1>7. CASE StartSave(e)
    <2>1. Live(e) /\ exec' = [exec EXCEPT ![e].phase = "running"] /\ Dispose({<<"exec", e>>})
        BY <1>7 DEF StartSave, In
    <2>2. GoesOn(e, "running")
        BY <1>1, <1>5, <2>1, Advance
    <2>3. QED
        BY <1>2, <1>3, <1>7, <2>1, <2>2 DEF OwnStep
<1>8. CASE StartThrows(e)
    <2>1. /\ In(e, "starting") /\ Live(e) /\ ~In(e, "ended")
          /\ exec' = [exec EXCEPT ![e] = Ended(e)]
          /\ Dispose({<<"exec", e>>})
        BY <1>8 DEF StartThrows, In
    <2>2. snap[<<"beat", e>>] = Nothing
        BY <2>1 DEF ContextsTrack, Opened, Invoking, In
    <2>3. Disposed(e)
        BY <1>3, <2>1, <2>2 DEF Disposed
    <2>4. QED
        BY <1>1, <1>2, <1>3, <2>1, <2>3, EndedOrOver
<1>9. CASE SettleRead(e)
    <2>1. /\ \E ids : Load(<<"exec", e>>, ids)
          /\ \E x : exec' = [exec EXCEPT ![e] = x]
        BY <1>9 DEF SettleRead
    <2>2. QED
        BY <1>2, <1>4, <1>9, <2>1, ReadSteps DEF OwnStep
<1>10. CASE SettleSave(e) \/ SettleThrows(e) \/ Interrupted(e)
    <2>1. /\ Live(e) /\ ~In(e, "ended") /\ exec' = [exec EXCEPT ![e] = Ended(e)]
          /\ Dispose({<<"exec", e>>, <<"beat", e>>})
        BY <1>10 DEF SettleSave, SettleThrows, Interrupted, Finish, In
    <2>2. Disposed(e)
        BY <1>3, <2>1 DEF Disposed
    <2>3. QED
        BY <1>1, <1>2, <1>3, <2>1, <2>2, EndedOrOver
<1>11. CASE ReleaseRead(e)
    <2>1. /\ exec' = [exec EXCEPT ![e].phase = "releasing"]
          /\ \E ids : Load(<<"exec", e>>, ids)
        BY <1>11 DEF ReleaseRead
    <2>2. QED
        BY <1>2, <1>4, <1>11, <2>1, ReadSteps DEF OwnStep
<1>12. CASE ReleaseNothing(e)
    <2>1. In(e, "ended") /\ exec' = [exec EXCEPT ![e] = Over] /\ snap' = snap
        BY <1>12 DEF ReleaseNothing, store
    <2>2. snap[<<"exec", e>>] = Nothing /\ snap[<<"beat", e>>] = Nothing
        BY <2>1 DEF ContextsTrack, Opened, Invoking, In
    <2>3. QED
        BY <1>1, <1>2, <2>1, <2>2 DEF IsOver, Disposed, In
<1>13. CASE ReleaseSave(e) \/ ReleaseThrows(e)
    <2>1. /\ In(e, "releasing") /\ exec' = [exec EXCEPT ![e] = Over]
          /\ Dispose({<<"exec", e>>})
        BY <1>13 DEF ReleaseSave, ReleaseThrows
    <2>2. snap[<<"beat", e>>] = Nothing
        BY <2>1 DEF ContextsTrack, Opened, Invoking, In
    <2>3. Disposed(e)
        BY <1>3, <2>1, <2>2 DEF Disposed
    <2>4. QED
        BY <1>1, <1>2, <1>3, <2>1, <2>3 DEF IsOver, In
<1>14. QED
    BY <1>6, <1>7, <1>8, <1>9, <1>10, <1>11, <1>12, <1>13 DEF ExecStep

\* When an instance is gone, so are its executions and their contexts.
LEMMA GoneExecutions ==
    ASSUME StoreInv, NEW h \in Host, Gone(h), NEW e \in Run
    PROVE  \/ Live(e) /\ exec[e].host = h /\ IsOver(e)
           \/ exec'[e] = exec[e] /\ ~(Live(e) /\ exec[e].host = h)
<1>1. DOMAIN snap = Actor
    BY DEF StoreInv, TypeOK
<1>2. CASE Live(e) /\ exec[e].host = h
    <2>1. <<"exec", e>> \in ActorsOf(h) /\ <<"beat", e>> \in ActorsOf(h)
        BY <1>2 DEF ActorsOf
    <2>2. Disposed(e)
        BY <1>1, <2>1, Actors DEF Gone, Dispose, Disposed
    <2>3. QED
        BY <1>2, <2>2 DEF Gone, IsOver
<1>3. CASE ~(Live(e) /\ exec[e].host = h)
    BY <1>3 DEF Gone
<1>4. QED
    BY <1>2, <1>3

\* An execution is left alone, is over, takes a step of its own or begins.
LEMMA WhoRuns ==
    ASSUME StoreInv, [Next]_vars, NEW e \in Run
    PROVE  \/ exec'[e] = exec[e]
           \/ IsOver(e)
           \/ OwnStep(e)
           \/ \E h \in Host, s \in Schedule : Begins(e, h, s)
<1> DEFINE Goal == \/ exec'[e] = exec[e] \/ IsOver(e) \/ OwnStep(e)
                   \/ \E h \in Host, s \in Schedule : Begins(e, h, s)
<1> USE DEF StoreInv
<1>1. exec \in [Run -> {Unused, Over} \cup Execution] /\ locking \in [Host -> SUBSET Exclusive]
      /\ todo \in [Host -> SUBSET Schedule]
    BY DEF TypeOK
<1>2. CASE exec' = exec
    BY <1>2
<1>3. ASSUME NEW h \in Host, NEW s \in Schedule, Launch(h, s),
             \/ LockSave(h) /\ s \in locking[h]
             \/ PollNext(h) /\ s \in todo[h] /\ s \notin Exclusive
      PROVE  Goal
    <2>1. PICK d \in Run : Begins(d, h, s)
        BY <1>3 DEF Launch, Begins
    <2>2. CASE d = e
        BY <2>1, <2>2
    <2>3. CASE d # e
        BY <1>1, <2>1, <2>3 DEF Begins
    <2>4. QED
        BY <2>2, <2>3
<1>4. ASSUME NEW h \in Host, LockSave(h)
      PROVE  Goal
    <2>1. PICK s \in locking[h] : Launch(h, s)
        BY <1>4 DEF LockSave
    <2>2. s \in Schedule
        BY <1>1 DEF Exclusive
    <2>3. QED
        BY <1>3, <1>4, <2>1, <2>2
<1>5. ASSUME NEW h \in Host, PollNext(h)
      PROVE  Goal
    <2>1. PICK s \in todo[h] : \/ UNCHANGED exec
                               \/ s \notin Exclusive /\ Launch(h, s)
        BY <1>5 DEF PollNext
    <2>2. s \in Schedule
        BY <1>1
    <2>3. QED
        BY <1>2, <1>3, <1>5, <2>1, <2>2
<1>6. ASSUME NEW h \in Host, SyncStep(h) \/ PollStep(h) \/ RecoverStep(h) \/ Stop(h)
      PROVE  Goal
    BY <1>2, <1>4, <1>5, <1>6
       DEF SyncStep, SyncRead, SyncSave, SyncThrows, Begin, PollStep, PollRead, LockRead,
           LockTaken, LockConflict, LockThrows, RecoverStep, RecoverRead, RecoverSave,
           RecoverThrows, Stop
<1>7. ASSUME NEW h \in Host, Exit(h) \/ Crash(h)
      PROVE  Goal
    BY <1>7, GoneExecutions DEF Exit, Crash
<1>8. ASSUME NEW c \in Client, AdminStep(c)
      PROVE  Goal
    BY <1>2, <1>8 DEF AdminStep, AdminRead, AdminSave, AdminThrows
<1>9. ASSUME NEW d \in Run, ExecStep(d)
      PROVE  Goal
    BY <1>2, <1>9, ExecSteps
<1>10. ASSUME NEW d \in Run, BeatStep(d) \/ HeartbeatExpires(d)
       PROVE  Goal
    BY <1>2, <1>10 DEF BeatStep, BeatRead, BeatSave, BeatThrows, HeartbeatExpires
<1>11. ASSUME NEW s \in Schedule, NextTimeComes(s) \/ LockExpires(s)
       PROVE  Goal
    BY <1>2, <1>11 DEF NextTimeComes, LockExpires
<1>12. QED
    BY <1>2, <1>6, <1>7, <1>8, <1>9, <1>10, <1>11 DEF Next, HostStep, vars

\* What an execution that goes on or begins is like.
LEMMA Beginning ==
    ASSUME StoreInv, NEW e \in Run, NEW h \in Host, NEW s \in Schedule, Begins(e, h, s)
    PROVE  /\ exec'[e] \in Execution /\ exec'[e].phase = "starting"
           /\ exec'[e].job = s /\ exec'[e].host = h
           /\ \A d \in Run \ {e} : exec'[d] = exec[d]
<1>1. exec'[e] = [phase |-> "starting", job |-> s, host |-> h, ok |-> FALSE]
      /\ \A d \in Run \ {e} : exec'[d] = exec[d]
    BY DEF StoreInv, TypeOK, Begins
<1>2. QED
    BY <1>1 DEF Execution, Phase

\* A live execution in the next state: the same as before, a step on, or new.
LEMMA LiveNext ==
    ASSUME StoreInv, [Next]_vars, NEW e \in Run, Live(e)'
    PROVE  /\ exec'[e] \in Execution
           /\ \/ Live(e) /\ exec'[e] = exec[e]
              \/ OwnStep(e) /\ Live(e) /\ exec'[e].job = exec[e].job
                            /\ exec'[e].host = exec[e].host
              \/ \E h \in Host, s \in Schedule :
                    Begins(e, h, s) /\ exec'[e].job = s /\ exec'[e].host = h
<1>1. ~IsOver(e)
    BY DEF IsOver, Live
<1>2. CASE exec'[e] = exec[e]
    <2>1. Live(e)
        BY <1>2 DEF Live
    <2>2. QED
        BY <1>2, <2>1, Phases DEF StoreInv
<1>3. CASE OwnStep(e)
    BY <1>3 DEF OwnStep, GoesOn
<1>4. ASSUME NEW h \in Host, NEW s \in Schedule, Begins(e, h, s)
      PROVE  exec'[e] \in Execution /\ exec'[e].job = s /\ exec'[e].host = h
    BY <1>4, Beginning
<1>5. QED
    BY <1>1, <1>2, <1>3, <1>4, WhoRuns

-----------------------------------------------------------------------------
(* What one step does to the instances, their polls and the times. *)

\* Instances serve until they are gone, and do not come back.
LEMMA HostsMove ==
    ASSUME TypeOK, [Next]_vars
    PROVE  /\ host' \in [Host -> {"syncing", "up", "stopping", "down"}]
           /\ \A h \in Host :
                 /\ host'[h] = "up" /\ host[h] = "stopping" => FALSE
                 /\ host[h] \in {"up", "stopping"} =>
                       host'[h] \in {"up", "stopping"} \/ Gone(h)
<1>1. host \in [Host -> {"syncing", "up", "stopping", "down"}]
    BY DEF TypeOK
<1>2. CASE host' = host
    BY <1>1, <1>2
<1>3. ASSUME NEW h \in Host, SyncStep(h)
      PROVE  host' = host \/ (host[h] = "syncing" /\ host' = [host EXCEPT ![h] = "up"])
    BY <1>3 DEF SyncStep, SyncRead, SyncSave, SyncThrows, Begin, LookedUp
<1>4. ASSUME NEW h \in Host, HostStep(h)
      PROVE  \/ host[h] \in {"syncing", "up"} /\ host' = [host EXCEPT ![h] = "stopping"]
             \/ Gone(h) /\ host' = [host EXCEPT ![h] = "down"]
    BY <1>4 DEF HostStep, Stop, Exit, Crash, Gone
<1>5. ASSUME NEW h \in Host, PollStep(h) \/ RecoverStep(h)
      PROVE  host' = host
    BY <1>5 DEF PollStep, PollRead, PollNext, LockRead, LockTaken, LockSave,
                LockConflict, LockThrows, RecoverStep, RecoverRead, RecoverSave,
                RecoverThrows
<1>6. ASSUME NEW e \in Run, ExecStep(e) \/ BeatStep(e) \/ HeartbeatExpires(e)
      PROVE  host' = host
    BY <1>6 DEF ExecStep, StartRead, StartSave, StartThrows, SettleRead, SettleSave,
                SettleThrows, Interrupted, ReleaseRead, ReleaseNothing, ReleaseSave,
                ReleaseThrows, BeatStep, BeatRead, BeatSave, BeatThrows, HeartbeatExpires
<1>7. ASSUME NEW c \in Client, AdminStep(c)
      PROVE  host' = host
    BY <1>7 DEF AdminStep, AdminRead, AdminSave, AdminThrows
<1>8. ASSUME NEW s \in Schedule, NextTimeComes(s) \/ LockExpires(s)
      PROVE  host' = host
    BY <1>8 DEF NextTimeComes, LockExpires
<1>9. CASE \E h \in Host : SyncStep(h)
    <2>1. PICK h \in Host : SyncStep(h)
        BY <1>9
    <2>2. CASE host' = host
        BY <1>2, <2>2
    <2>3. CASE host[h] = "syncing" /\ host' = [host EXCEPT ![h] = "up"]
        BY <1>1, <2>3
    <2>4. QED
        BY <1>3, <2>1, <2>2, <2>3
<1>10. CASE \E h \in Host : HostStep(h)
    <2>1. PICK h \in Host : HostStep(h)
        BY <1>10
    <2>2. CASE host[h] \in {"syncing", "up"} /\ host' = [host EXCEPT ![h] = "stopping"]
        BY <1>1, <2>2
    <2>3. CASE Gone(h) /\ host' = [host EXCEPT ![h] = "down"]
        BY <1>1, <2>3
    <2>4. QED
        BY <1>4, <2>1, <2>2, <2>3
<1>11. QED
    BY <1>2, <1>5, <1>6, <1>7, <1>8, <1>9, <1>10 DEF Next, vars

\* The list and the lock of the poll of h have their types, and the lock is
\* left alone, given up or the next of the list.
PollMoves(h) ==
    /\ todo' \in [Host -> SUBSET Schedule]
    /\ locking' \in [Host -> SUBSET Exclusive]
    /\ tries' \in [Host -> 0 .. MaxClaimRetries - 1]
    /\ todo'[h] \subseteq todo[h] \cup Stored
    /\ \/ locking'[h] = locking[h]
       \/ locking'[h] = {} /\ snap'[<<"poll", h>>] = Nothing
       \/ /\ locking[h] = {} /\ host[h] = "up" /\ host' = host /\ snap' = snap
          /\ locking'[h] \subseteq todo[h]

LEMMA PollsMove ==
    ASSUME PersistentSchedulesAssumption, StoreInv, [Next]_vars, NEW h \in Host
    PROVE  PollMoves(h)
<1>1. /\ todo \in [Host -> SUBSET Schedule] /\ locking \in [Host -> SUBSET Exclusive]
      /\ tries \in [Host -> 0 .. MaxClaimRetries - 1] /\ DOMAIN snap = Actor
      /\ MaxClaimRetries \in Nat \ {0}
    BY DEF StoreInv, TypeOK, PersistentSchedulesAssumption
<1>2. CASE UNCHANGED poll
    BY <1>1, <1>2 DEF PollMoves, poll
<1>3. ASSUME NEW g \in Host, locking' = [locking EXCEPT ![g] = {}],
             tries' = [tries EXCEPT ![g] = 0], snap'[<<"poll", g>>] = Nothing,
             todo' \in [Host -> SUBSET Schedule], todo'[h] \subseteq todo[h]
      PROVE  PollMoves(h)
    BY <1>1, <1>3 DEF PollMoves
<1>4. ASSUME NEW g \in Host, Dispose({<<"poll", g>>})
      PROVE  snap'[<<"poll", g>>] = Nothing
    BY <1>1, <1>4, Actors DEF Dispose
<1>5. ASSUME NEW g \in Host, PollStep(g)
      PROVE  PollMoves(h)
    <2>1. CASE PollRead(g)
        <3>1. DueSchedules \subseteq Stored /\ Stored \subseteq Schedule
            BY DEF DueSchedules, Stored
        <3>2. QED
            BY <1>1, <2>1, <3>1 DEF PollRead, PollMoves
    <2>2. CASE PollNext(g)
        <3>1. PICK s \in todo[g] :
                 /\ todo' = [todo EXCEPT ![g] = @ \ {s}]
                 /\ \/ s \in Exclusive /\ locking' = [locking EXCEPT ![g] = {s}]
                    \/ locking' = locking
            BY <2>2 DEF PollNext
        <3>2. /\ host[g] = "up" /\ locking[g] = {} /\ host' = host /\ snap' = snap
              /\ tries' = tries
            BY <2>2 DEF PollNext, store
        <3>3. locking' \in [Host -> SUBSET Exclusive]
            BY <1>1, <3>1
        <3>4. todo' \in [Host -> SUBSET Schedule] /\ todo'[h] \subseteq todo[h]
            BY <1>1, <3>1
        <3>5. \/ locking'[h] = locking[h]
              \/ locking[h] = {} /\ host[h] = "up" /\ locking'[h] \subseteq todo[h]
            BY <1>1, <3>1, <3>2
        <3>6. QED
            BY <1>1, <3>2, <3>3, <3>4, <3>5 DEF PollMoves
    <2>3. CASE LockRead(g)
        BY <1>2, <2>3 DEF LockRead
    <2>4. CASE LockTaken(g)
        BY <1>1, <1>3, <2>4 DEF LockTaken, LockingOver, Opened, store
    <2>5. CASE LockSave(g) \/ LockThrows(g)
        BY <1>1, <1>3, <1>4, <2>5 DEF LockSave, LockThrows, LockingOver
    <2>6. CASE LockConflict(g)
        <3>1. CASE Again(tries[g])
            <4>1. tries' = [tries EXCEPT ![g] = @ + 1] /\ locking' = locking /\ todo' = todo
                BY <2>6, <3>1 DEF LockConflict
            <4>2. tries[g] + 1 \in 0 .. MaxClaimRetries - 1
                BY <1>1, <3>1 DEF Again
            <4>3. QED
                BY <1>1, <4>1, <4>2 DEF PollMoves
        <3>2. CASE ~Again(tries[g])
            BY <1>1, <1>3, <1>4, <2>6, <3>2 DEF LockConflict, LockingOver
        <3>3. QED
            BY <3>1, <3>2
    <2>7. QED
        BY <1>5, <2>1, <2>2, <2>3, <2>4, <2>5, <2>6 DEF PollStep
<1>6. ASSUME NEW g \in Host, Exit(g) \/ Crash(g)
      PROVE  PollMoves(h)
    <2>1. Gone(g)
        BY <1>6 DEF Exit, Crash
    <2>2. snap'[<<"poll", g>>] = Nothing
        <3>1. <<"poll", g>> \in ActorsOf(g)
            BY DEF ActorsOf
        <3>2. QED
            BY <1>1, <2>1, <3>1, Actors DEF Gone, Dispose
    <2>3. todo' = [todo EXCEPT ![g] = {}]
        BY <2>1 DEF Gone
    <2>4. todo' \in [Host -> SUBSET Schedule] /\ todo'[h] \subseteq todo[h]
        BY <1>1, <2>3
    <2>5. locking' = [locking EXCEPT ![g] = {}] /\ tries' = [tries EXCEPT ![g] = 0]
        BY <2>1 DEF Gone, LockingOver
    <2>6. QED
        BY <1>3, <2>2, <2>4, <2>5
<1>7. ASSUME NEW g \in Host, Stop(g)
      PROVE  PollMoves(h)
    BY <1>1, <1>7 DEF Stop, PollMoves
<1>8. ASSUME NEW g \in Host, RecoverStep(g)
      PROVE  UNCHANGED poll
    BY <1>8 DEF RecoverStep, RecoverRead, RecoverSave, RecoverThrows
<1>9. ASSUME NEW g \in Host, SyncStep(g)
       PROVE  PollMoves(h)
    <2>1. /\ locking' = locking /\ tries' = tries
          /\ \E S \in SUBSET todo[g] : todo' = [todo EXCEPT ![g] = S]
        <3>1. CASE SyncRead(g)
            <4>1. PICK s \in todo[g] : todo' = [todo EXCEPT ![g] = @ \ {s}]
                BY <3>1 DEF SyncRead
            <4>2. todo' = [todo EXCEPT ![g] = todo[g] \ {s}]
                BY <4>1
            <4>3. QED
                BY <3>1, <4>2 DEF SyncRead
        <3>2. CASE Begin(g)
            BY <3>2 DEF Begin
        <3>3. QED
            BY <1>9, <3>1, <3>2 DEF SyncStep, SyncSave, SyncThrows
    <2>2. QED
        BY <1>1, <2>1 DEF PollMoves
<1>10. ASSUME NEW e \in Run, ExecStep(e) \/ BeatStep(e) \/ HeartbeatExpires(e)
      PROVE  UNCHANGED poll
    BY <1>10 DEF ExecStep, StartRead, StartSave, StartThrows, SettleRead, SettleSave,
                SettleThrows, Interrupted, ReleaseRead, ReleaseNothing, ReleaseSave,
                ReleaseThrows, BeatStep, BeatRead, BeatSave, BeatThrows, HeartbeatExpires
<1>11. ASSUME NEW c \in Client, AdminStep(c)
       PROVE  UNCHANGED poll
    BY <1>11 DEF AdminStep, AdminRead, AdminSave, AdminThrows
<1>12. ASSUME NEW s \in Schedule, NextTimeComes(s) \/ LockExpires(s)
       PROVE  UNCHANGED poll
    BY <1>12 DEF NextTimeComes, LockExpires
<1>13. QED
    BY <1>2, <1>5, <1>6, <1>7, <1>8, <1>9, <1>10, <1>11, <1>12 DEF Next, HostStep, vars

\* An instance that has synchronised starts with an empty list.
LEMMA SyncEnds ==
    ASSUME TypeOK, [Next]_vars, NEW h \in Host, host[h] = "syncing"
    PROVE  host'[h] = "syncing" \/ todo'[h] = {}
<1>1. DOMAIN todo = Host /\ DOMAIN host = Host
    BY DEF TypeOK
<1>2. CASE host' = host
    BY <1>2
<1>3. ASSUME NEW g \in Host, Begin(g) \/ Stop(g) \/ Gone(g)
      PROVE  host'[h] = "syncing" \/ todo'[h] = {}
    BY <1>1, <1>3 DEF Begin, Stop, Gone
<1>4. ASSUME NEW g \in Host, SyncStep(g) \/ HostStep(g)
      PROVE  host'[h] = "syncing" \/ todo'[h] = {}
    BY <1>2, <1>3, <1>4 DEF SyncStep, SyncRead, SyncSave, SyncThrows, HostStep, Exit, Crash
<1>5. ASSUME NEW g \in Host, PollStep(g) \/ RecoverStep(g)
      PROVE  host' = host
    BY <1>5 DEF PollStep, PollRead, PollNext, LockRead, LockTaken, LockSave,
                LockConflict, LockThrows, RecoverStep, RecoverRead, RecoverSave,
                RecoverThrows
<1>6. ASSUME NEW e \in Run, ExecStep(e) \/ BeatStep(e) \/ HeartbeatExpires(e)
      PROVE  host' = host
    BY <1>6 DEF ExecStep, StartRead, StartSave, StartThrows, SettleRead, SettleSave,
                SettleThrows, Interrupted, ReleaseRead, ReleaseNothing, ReleaseSave,
                ReleaseThrows, BeatStep, BeatRead, BeatSave, BeatThrows, HeartbeatExpires
<1>7. ASSUME NEW c \in Client, AdminStep(c)
      PROVE  host' = host
    BY <1>7 DEF AdminStep, AdminRead, AdminSave, AdminThrows
<1>8. ASSUME NEW s \in Schedule, NextTimeComes(s) \/ LockExpires(s)
      PROVE  host' = host
    BY <1>8 DEF NextTimeComes, LockExpires
<1>9. QED
    BY <1>2, <1>4, <1>5, <1>6, <1>7, <1>8 DEF Next, vars

\* Saves that concern the lock of s give it the next Version, and a lock is
\* not expired any more only when it is taken, released or recovered.
LEMMA LocksSaved ==
    ASSUME PersistentSchedulesAssumption, StoreInv, NEW s \in Stored
    PROVE  /\ \A h \in Host : LockSave(h) /\ s \in locking[h] =>
                 MayWrite(<<"poll", h>>, s) /\ Versioned(s, rows[s], rows'[s], h)
           /\ \A h \in Host : LockThrows(h) /\ s \in locking[h] =>
                 \/ expired' = expired
                 \/ MayWrite(<<"poll", h>>, s) /\ Versioned(s, rows[s], rows'[s], h)
           /\ \A e \in Run : ReleaseSave(e) /\ s = exec[e].job =>
                 Versioned(s, rows[s], rows'[s], NoHost)
           /\ \A h \in Host : RecoverSave(h) /\ s \in DOMAIN snap[<<"recover", h>>] =>
                 Versioned(s, rows[s], rows'[s], NoHost)
<1>1. s \in DOMAIN rows /\ s \in Schedule /\ DOMAIN Nothing = {}
    BY DEF Stored, Nothing
<1>2. ASSUME NEW a, NEW r, RowSaved(a, s, r), s \in DOMAIN snap[a]
      PROVE  /\ MayWrite(a, s) /\ Agree(s, rows[s], snap[a][s])
             /\ rows'[s] = Merged(rows[s], snap[a][s], r)
    BY <1>1, <1>2, UpToDate DEF RowSaved
<1>3. ASSUME NEW h \in Host, s \in locking[h], Opened(<<"poll", h>>),
             RowSaved(<<"poll", h>>, s, Locked(h, snap[<<"poll", h>>][s]))
      PROVE  MayWrite(<<"poll", h>>, s) /\ Versioned(s, rows[s], rows'[s], h)
    <2>1. s \in DOMAIN snap[<<"poll", h>>]
        BY <1>3 DEF StoreInv, ContextsTrack
    <2> DEFINE old == snap[<<"poll", h>>][s]
    <2>2. /\ MayWrite(<<"poll", h>>, s) /\ Agree(s, rows[s], old)
          /\ rows'[s] = Merged(rows[s], old, [old EXCEPT !.owner = h, !.version = @ + 1])
        BY <1>2, <1>3, <2>1 DEF Locked
    <2> HIDE DEF old
    <2>3. QED
        BY <2>2, OwnedRow
<1>4. ASSUME NEW a \in Actor, NEW h \in Host, a = <<"poll", h>>,
             LET Lock(r) == Locked(h, r) IN SaveColumns(a, Lock, Nothing)
      PROVE  RowSaved(a, s, Locked(h, snap[a][s]))
    BY <1>1, <1>4 DEF SaveColumns, SaveRows, RowSaved, MayWrite, Tracks
<1>5. ASSUME NEW h \in Host, LockSave(h), s \in locking[h]
      PROVE  MayWrite(<<"poll", h>>, s) /\ Versioned(s, rows[s], rows'[s], h)
    BY <1>3, <1>4, <1>5, Actors DEF LockSave
<1>6. ASSUME NEW h \in Host, LockThrows(h), s \in locking[h], expired' # expired
      PROVE  MayWrite(<<"poll", h>>, s) /\ Versioned(s, rows[s], rows'[s], h)
    BY <1>3, <1>4, <1>6, Actors DEF LockThrows
<1>7. ASSUME NEW e \in Run, ReleaseSave(e), s = exec[e].job
      PROVE  Versioned(s, rows[s], rows'[s], NoHost)
    <2>1. DOMAIN snap[<<"exec", e>>] = {s}
        BY <1>7 DEF ReleaseSave, StoreInv, ContextsTrack
    <2>2. RowSaved(<<"exec", e>>, s, Unlocked(snap[<<"exec", e>>][s]))
        BY <1>1, <1>7, RowsSaved
    <2>3. QED
        BY <1>2, <2>1, <2>2, UnlockedRow
<1>8. ASSUME NEW h \in Host, RecoverSave(h), s \in DOMAIN snap[<<"recover", h>>]
      PROVE  Versioned(s, rows[s], rows'[s], NoHost)
    <2> DEFINE old == snap[<<"recover", h>>][s]
    <2>1. RowSaved(<<"recover", h>>, s, Recovered(old))
        BY <1>1, <1>8, RowsSaved
    <2>2. Agree(s, rows[s], old) /\ rows'[s] = Merged(rows[s], old, Recovered(old))
        BY <1>2, <1>8, <2>1
    <2> HIDE DEF old
    <2>3. Recovered(old) = Unlocked(old)
        BY <2>2 DEF Agree, ScheduleRow, Recovered
    <2>4. QED
        BY <2>2, <2>3, UnlockedRow
<1>9. QED
    BY <1>5, <1>6, <1>7, <1>8

\* A lock expires only by the lapse of time, and is not expired any more only
\* with a new Version.
LEMMA ExpiredMoves ==
    ASSUME PersistentSchedulesAssumption, StoreInv, [Next]_vars
    PROVE  /\ expired' \subseteq Schedule
           /\ \A s \in expired' \ expired : LockExpires(s)
           /\ \A s \in (expired \ expired') \cap Stored : rows'[s].version = rows[s].version + 1
<1> DEFINE Goal == /\ expired' \subseteq Schedule
                   /\ \A s \in expired' \ expired : LockExpires(s)
                   /\ \A s \in (expired \ expired') \cap Stored :
                         rows'[s].version = rows[s].version + 1
<1>1. expired \subseteq Schedule
    BY DEF StoreInv, TypeOK
<1>2. CASE expired' = expired
    BY <1>1, <1>2
<1>3. ASSUME NEW S, expired' = expired \ S,
             \A s \in S \cap Stored : rows'[s].version = rows[s].version + 1
      PROVE  Goal
    BY <1>1, <1>3
<1>4. ASSUME NEW h \in Host, LockSave(h)
      PROVE  Goal
    BY <1>3, <1>4, LocksSaved DEF LockSave, Versioned
<1>5. ASSUME NEW h \in Host, LockThrows(h)
      PROVE  Goal
    <2>1. expired' = expired \/ expired' = expired \ locking[h]
        BY <1>5 DEF LockThrows
    <2>2. QED
        BY <1>2, <1>3, <1>5, <2>1, LocksSaved DEF Versioned
<1>6. ASSUME NEW e \in Run, ReleaseSave(e)
      PROVE  Goal
    <2>1. expired' = expired \ {exec[e].job}
        BY <1>6 DEF ReleaseSave
    <2>2. \A s \in {exec[e].job} \cap Stored : rows'[s].version = rows[s].version + 1
        BY <1>6, LocksSaved DEF Versioned
    <2>3. QED
        BY <1>3, <2>1, <2>2
<1>7. ASSUME NEW h \in Host, RecoverSave(h)
      PROVE  Goal
    <2>1. expired' = expired \ DOMAIN snap[<<"recover", h>>]
        BY <1>7 DEF RecoverSave
    <2>2. \A s \in DOMAIN snap[<<"recover", h>>] \cap Stored :
             rows'[s].version = rows[s].version + 1
        BY <1>7, LocksSaved DEF Versioned
    <2>3. QED
        BY <1>3, <2>1, <2>2
<1>8. ASSUME NEW s \in Schedule, LockExpires(s)
      PROVE  Goal
    <2>1. expired' = expired \cup {s}
        BY <1>8 DEF LockExpires
    <2>2. QED
        BY <1>1, <1>8, <2>1
<1>9. ASSUME NEW h \in Host, SyncStep(h) \/ HostStep(h)
      PROVE  expired' = expired
    BY <1>9 DEF SyncStep, SyncRead, SyncSave, SyncThrows, Begin, HostStep, Stop, Exit, Crash,
                Gone, time
<1>10. ASSUME NEW h \in Host, PollStep(h) \/ RecoverStep(h),
              ~LockSave(h), ~LockThrows(h), ~RecoverSave(h)
       PROVE  expired' = expired
    BY <1>10 DEF PollStep, PollRead, PollNext, LockRead, LockTaken, LockConflict,
                 RecoverStep, RecoverRead, RecoverThrows, time
<1>11. ASSUME NEW e \in Run, ExecStep(e) \/ BeatStep(e) \/ HeartbeatExpires(e),
              ~ReleaseSave(e)
       PROVE  expired' = expired
    BY <1>11 DEF ExecStep, StartRead, StartSave, StartThrows, SettleRead, SettleSave,
                 SettleThrows, Interrupted, ReleaseRead, ReleaseNothing, ReleaseThrows,
                 BeatStep, BeatRead, BeatSave, BeatThrows, HeartbeatExpires, time
<1>12. ASSUME NEW c \in Client, AdminStep(c)
       PROVE  expired' = expired
    BY <1>12 DEF AdminStep, AdminRead, AdminSave, AdminThrows, time
<1>13. ASSUME NEW s \in Schedule, NextTimeComes(s)
       PROVE  expired' = expired
    BY <1>13 DEF NextTimeComes
<1>14. QED
    BY <1>2, <1>4, <1>5, <1>6, <1>7, <1>8, <1>9, <1>10, <1>11, <1>12, <1>13
       DEF Next, vars, time

\* So it is with the heartbeats of history entries.
LEMMA StaleMoves ==
    ASSUME PersistentSchedulesAssumption, StoreInv, [Next]_vars
    PROVE  /\ stale' \subseteq Run \cap DOMAIN rows
           /\ \A e \in stale' \ stale : HeartbeatExpires(e)
           /\ \A e \in stale \ stale' : rows'[e].version = rows[e].version + 1
<1> DEFINE Goal == /\ stale' \subseteq Run \cap DOMAIN rows
                   /\ \A e \in stale' \ stale : HeartbeatExpires(e)
                   /\ \A e \in stale \ stale' : rows'[e].version = rows[e].version + 1
<1>1. stale \subseteq Run /\ stale \subseteq DOMAIN rows
    BY DEF StoreInv, TypeOK, JobsStored
<1>2. CASE stale' = stale
    BY <1>1, <1>2
<1>3. ASSUME NEW e \in Run, BeatSave(e)
      PROVE  Goal
    <2>1. DOMAIN snap[<<"beat", e>>] = {e} /\ stale' = stale \ {e}
        BY <1>3 DEF BeatSave, StoreInv, ContextsTrack
    <2>2. e \in DOMAIN rows
        BY <2>1, Actors DEF StoreInv, TypeOK
    <2>3. RowSaved(<<"beat", e>>, e, Beaten(snap[<<"beat", e>>][e]))
        BY <1>3, <2>2, RowsSaved
    <2>4. /\ MayWrite(<<"beat", e>>, e)
          /\ rows'[e] = Merged(rows[e], snap[<<"beat", e>>][e], Beaten(snap[<<"beat", e>>][e]))
        BY <2>1, <2>3 DEF RowSaved
    <2>5. snap[<<"beat", e>>][e] = rows[e] /\ rows[e] \in RunRow
        BY <2>4, UpToDate
    <2>6. rows'[e].version = rows[e].version + 1
        BY <2>4, <2>5, EntryEdits
    <2>7. QED
        BY <1>1, <2>1, <2>6
<1>4. ASSUME NEW e \in Run, HeartbeatExpires(e)
      PROVE  Goal
    <2>1. e \in DOMAIN rows /\ stale' = stale \cup {e}
        BY <1>4 DEF HeartbeatExpires
    <2>2. QED
        BY <1>1, <1>4, <2>1
<1>5. ASSUME NEW h \in Host, SyncStep(h) \/ PollStep(h) \/ RecoverStep(h) \/ HostStep(h)
      PROVE  stale' = stale
    BY <1>5 DEF SyncStep, SyncRead, SyncSave, SyncThrows, Begin, PollStep, PollRead, PollNext,
                LockRead, LockTaken, LockSave, LockConflict, LockThrows, RecoverStep,
                RecoverRead, RecoverSave, RecoverThrows, HostStep, Stop, Exit, Crash,
                Gone, time
<1>6. ASSUME NEW e \in Run, ExecStep(e) \/ BeatStep(e), ~BeatSave(e)
      PROVE  stale' = stale
    BY <1>6 DEF ExecStep, StartRead, StartSave, StartThrows, SettleRead, SettleSave,
                SettleThrows, Interrupted, ReleaseRead, ReleaseNothing, ReleaseSave,
                ReleaseThrows, BeatStep, BeatRead, BeatThrows, time
<1>7. ASSUME NEW c \in Client, AdminStep(c)
      PROVE  stale' = stale
    BY <1>7 DEF AdminStep, AdminRead, AdminSave, AdminThrows, time
<1>8. ASSUME NEW s \in Schedule, NextTimeComes(s) \/ LockExpires(s)
      PROVE  stale' = stale
    BY <1>8 DEF NextTimeComes, LockExpires
<1>9. QED
    BY <1>2, <1>3, <1>4, <1>5, <1>6, <1>7, <1>8 DEF Next, vars, time

-----------------------------------------------------------------------------
(* The invariant of the store is inductive: executions and their contexts. *)

\* Which rows the contexts load.
LEMMA LoadedIds ==
    ASSUME StoreInv
    PROVE  /\ \A h \in Host : Loads(<<"sync", h>>) =>
                 DOMAIN snap'[<<"sync", h>>] \subseteq DOMAIN snap[<<"sync", h>>] \cup Stored
           /\ \A c \in Client :
                 Loads(<<"admin", c>>) =>
                    \E s \in Schedule : DOMAIN snap'[<<"admin", c>>] = {s}
           /\ \A h \in Host : Loads(<<"poll", h>>) =>
                 LockRead(h) /\ DOMAIN snap'[<<"poll", h>>] = locking[h]
           /\ \A e \in Run : Loads(<<"exec", e>>) =>
                 \/ StartRead(e) /\ DOMAIN snap'[<<"exec", e>>] = {exec[e].job}
                 \/ SettleRead(e) /\ DOMAIN snap'[<<"exec", e>>] = {e}
                 \/ ReleaseRead(e) /\ DOMAIN snap'[<<"exec", e>>] = {exec[e].job}
           /\ \A e \in Run : Loads(<<"beat", e>>) =>
                 BeatRead(e) /\ DOMAIN snap'[<<"beat", e>>] = {e}
           /\ \A h \in Host : Loads(<<"recover", h>>) =>
                 RecoverRead(h) /\ DOMAIN snap'[<<"recover", h>>] = StaleRuns \cup StaleLocks
<1>1. DOMAIN snap = Actor
    BY DEF StoreInv, TypeOK
<1>2. ASSUME NEW a \in Actor, NEW ids, Load(a, ids)
      PROVE  DOMAIN snap'[a] = ids
    BY <1>1, <1>2 DEF Load, Loaded
<1>3. ASSUME NEW h \in Host, Loads(<<"sync", h>>)
      PROVE  DOMAIN snap'[<<"sync", h>>] \subseteq DOMAIN snap[<<"sync", h>>] \cup Stored
    <2> DEFINE a == <<"sync", h>>
    <2>1. SyncRead(h) /\ a \in DOMAIN snap
        BY <1>1, <1>3, Actors DEF Loads
    <2>2. PICK s \in todo[h] : LoadAlso(a, {s} \cap Stored)
        BY <2>1 DEF SyncRead
    <2>3. DOMAIN snap'[a] = DOMAIN snap[a] \cup ({s} \cap Stored)
        BY <2>1, <2>2 DEF LoadAlso
    <2>4. QED
        BY <2>3
<1>4. ASSUME NEW c \in Client, Loads(<<"admin", c>>)
      PROVE  \E s \in Schedule : DOMAIN snap'[<<"admin", c>>] = {s}
    <2>1. PICK s \in Schedule : AdminRead(c, s)
        BY <1>4 DEF Loads
    <2>2. QED
        BY <1>2, <2>1, Actors DEF AdminRead
<1>5. ASSUME NEW h \in Host, Loads(<<"poll", h>>)
      PROVE  LockRead(h) /\ DOMAIN snap'[<<"poll", h>>] = locking[h]
    BY <1>2, <1>5, Actors DEF Loads, LockRead
<1>6. ASSUME NEW e \in Run, Loads(<<"exec", e>>)
      PROVE  \/ StartRead(e) /\ DOMAIN snap'[<<"exec", e>>] = {exec[e].job}
             \/ SettleRead(e) /\ DOMAIN snap'[<<"exec", e>>] = {e}
             \/ ReleaseRead(e) /\ DOMAIN snap'[<<"exec", e>>] = {exec[e].job}
    BY <1>2, <1>6, Actors DEF Loads, StartRead, SettleRead, ReleaseRead
<1>7. ASSUME NEW e \in Run, Loads(<<"beat", e>>)
      PROVE  BeatRead(e) /\ DOMAIN snap'[<<"beat", e>>] = {e}
    BY <1>2, <1>7, Actors DEF Loads, BeatRead
<1>8. ASSUME NEW h \in Host, Loads(<<"recover", h>>)
      PROVE  RecoverRead(h) /\ DOMAIN snap'[<<"recover", h>>] = StaleRuns \cup StaleLocks
    BY <1>2, <1>8, Actors DEF Loads, RecoverRead
<1>9. QED
    BY <1>3, <1>4, <1>5, <1>6, <1>7, <1>8

\* The context of an execution lives as long as its phase.
LEMMA ContextKept ==
    ASSUME StoreInv, [Next]_vars, NEW e \in Run, Live(e), exec'[e] = exec[e]
    PROVE  snap'[<<"exec", e>>] = snap[<<"exec", e>>] \/ StartRead(e)
<1> DEFINE a == <<"exec", e>>
<1>1. DOMAIN snap = Actor /\ a \in Actor /\ TypeOK
    BY Actors DEF StoreInv, TypeOK
<1>2. CASE snap' = snap
    BY <1>2
<1>3. ASSUME NEW A, a \notin A, Dispose(A)
      PROVE  snap'[a] = snap[a]
    BY <1>1, <1>3 DEF Dispose
<1>4. ASSUME NEW b, a # b, NEW ids, Load(b, ids) \/ LoadAlso(b, ids)
      PROVE  snap'[a] = snap[a]
    BY <1>1, <1>4 DEF Load, LoadAlso
<1>5. ASSUME NEW h \in Host, Exit(h) \/ Crash(h)
      PROVE  snap'[a] = snap[a]
    <2>1. Gone(h)
        BY <1>5 DEF Exit, Crash
    <2>2. ~(Live(e) /\ exec[e].host = h)
        BY <2>1, GoneExecutions DEF IsOver, Live
    <2>3. a \notin ActorsOf(h)
        BY <2>2 DEF ActorsOf
    <2>4. QED
        BY <1>3, <2>1, <2>3 DEF Gone
<1>6. ASSUME NEW h \in Host, SyncStep(h) \/ PollStep(h) \/ RecoverStep(h) \/ Stop(h)
      PROVE  snap'[a] = snap[a]
    <2>1. a \notin {<<"sync", h>>} /\ a \notin {<<"poll", h>>} /\ a \notin {<<"recover", h>>}
        OBVIOUS
    <2>2. QED
        BY <1>2, <1>3, <1>4, <1>6, <2>1
           DEF SyncStep, SyncRead, SyncSave, SyncThrows, Begin, PollStep, PollRead, PollNext,
               LockRead, LockTaken, LockSave, LockConflict, LockThrows, RecoverStep,
               RecoverRead, RecoverSave, RecoverThrows, Stop, store
<1>7. ASSUME NEW c \in Client, AdminStep(c)
      PROVE  snap'[a] = snap[a]
    <2>1. a \notin {<<"admin", c>>}
        OBVIOUS
    <2>2. QED
        BY <1>3, <1>4, <1>7, <2>1 DEF AdminStep, AdminRead, AdminSave, AdminThrows
<1>8. ASSUME NEW d \in Run, BeatStep(d)
      PROVE  snap'[a] = snap[a]
    <2>1. a \notin {<<"beat", d>>}
        OBVIOUS
    <2>2. QED
        BY <1>3, <1>4, <1>8, <2>1 DEF BeatStep, BeatRead, BeatSave, BeatThrows
<1>9. ASSUME NEW d \in Run, d # e, ExecStep(d)
      PROVE  snap'[a] = snap[a]
    BY <1>9, ExecSteps
<1>10. ASSUME ExecStep(e)
       PROVE  snap'[a] = snap[a] \/ StartRead(e)
    <2>1. ~(StartSave(e) \/ SettleRead(e) \/ ReleaseRead(e))
        <3>1. ASSUME NEW p, In(e, p), NEW q, p # q
              PROVE  ~GoesOn(e, q)
            BY <3>1 DEF In, GoesOn
        <3>2. ASSUME SettleRead(e)
              PROVE  FALSE
            <4>1. In(e, "running") /\ GoesOn(e, "settling")
                BY <1>1, <3>2, ReadSteps DEF SettleRead
            <4>2. QED
                BY <3>1, <4>1
        <3>3. ASSUME ReleaseRead(e)
              PROVE  FALSE
            <4>1. In(e, "ended") /\ GoesOn(e, "releasing")
                BY <1>1, <3>3, ReadSteps DEF ReleaseRead
            <4>2. QED
                BY <3>1, <4>1
        <3>4. ASSUME StartSave(e)
              PROVE  FALSE
            <4>1. In(e, "starting") /\ exec' = [exec EXCEPT ![e].phase = "running"]
                BY <3>4 DEF StartSave
            <4>2. GoesOn(e, "running")
                BY <1>1, <4>1, Advance DEF Phase
            <4>3. QED
                BY <3>1, <4>1, <4>2
        <3>5. QED
            BY <3>2, <3>3, <3>4
    <2>2. ~IsOver(e)
        BY DEF IsOver, Live
    <2>3. ~OwnStep(e)
        BY <2>1 DEF OwnStep, GoesOn, In
    <2>4. exec' = exec
        BY <1>10, <2>2, <2>3, ExecSteps
    <2>5. ~StartThrows(e) /\ ~SettleSave(e) /\ ~SettleThrows(e) /\ ~Interrupted(e)
        <3>1. In(e, "ended") \/ exec' # [exec EXCEPT ![e] = Ended(e)]
            <4>1. ASSUME exec' = [exec EXCEPT ![e] = Ended(e)], ~In(e, "ended")
                  PROVE  FALSE
                <5>1. exec[e] = Ended(e)
                    BY <1>1, <2>4, <4>1, Phases
                <5>2. exec[e].job \in Exclusive
                    BY <5>1 DEF Ended, Live
                <5>3. [exec[e] EXCEPT !.phase = "ended"].phase = "ended"
                    BY <1>1, Phases DEF Phase
                <5>4. QED
                    BY <4>1, <5>1, <5>2, <5>3 DEF Ended, In
            <4>2. QED
                BY <4>1
        <3>2. QED
            BY <3>1 DEF StartThrows, SettleSave, SettleThrows, Interrupted, Finish, In
    <2>6. ~ReleaseNothing(e) /\ ~ReleaseSave(e) /\ ~ReleaseThrows(e)
        <3>1. exec' # [exec EXCEPT ![e] = Over]
            BY <1>1, <2>4, Phases DEF Live
        <3>2. QED
            BY <3>1 DEF ReleaseNothing, ReleaseSave, ReleaseThrows
    <2>7. QED
        BY <1>10, <2>1, <2>5, <2>6 DEF ExecStep
<1>11. QED
    BY <1>2, <1>5, <1>6, <1>7, <1>8, <1>9, <1>10
       DEF Next, HostStep, vars, HeartbeatExpires, NextTimeComes, LockExpires, store

LEMMA DueMoves ==
    ASSUME TypeOK, [Next]_vars
    PROVE  due' \subseteq Schedule
<1>1. due \subseteq Schedule
    BY DEF TypeOK
<1>2. \A S : DueAfter(S) \subseteq Schedule
    BY <1>1 DEF DueAfter
<1>3. ASSUME NEW h \in Host, SyncStep(h) \/ PollStep(h) \/ RecoverStep(h) \/ HostStep(h)
      PROVE  due' \subseteq Schedule
    BY <1>1, <1>2, <1>3
       DEF SyncStep, SyncRead, SyncSave, SyncThrows, Begin, PollStep, PollRead, PollNext,
           LockRead, LockTaken, LockSave, LockConflict, LockThrows, RecoverStep,
           RecoverRead, RecoverSave, RecoverThrows, HostStep, Stop, Exit, Crash, Gone, time
<1>4. ASSUME NEW c \in Client, AdminStep(c)
      PROVE  due' \subseteq Schedule
    BY <1>1, <1>2, <1>4 DEF AdminStep, AdminRead, AdminSave, AdminThrows, time
<1>5. ASSUME NEW e \in Run, ExecStep(e) \/ BeatStep(e) \/ HeartbeatExpires(e)
      PROVE  due' \subseteq Schedule
    BY <1>1, <1>5
       DEF ExecStep, StartRead, StartSave, StartThrows, SaveStart, SettleRead, SettleSave,
           SettleThrows, Interrupted, ReleaseRead, ReleaseNothing, ReleaseSave,
           ReleaseThrows, BeatStep, BeatRead, BeatSave, BeatThrows, HeartbeatExpires, time
<1>6. ASSUME NEW s \in Schedule, NextTimeComes(s) \/ LockExpires(s)
      PROVE  due' \subseteq Schedule
    BY <1>1, <1>6 DEF NextTimeComes, LockExpires
<1>7. QED
    BY <1>1, <1>3, <1>4, <1>5, <1>6 DEF Next, vars, time

LEMMA JobsStoredStep ==
    ASSUME PersistentSchedulesAssumption, StoreInv, [Next]_vars
    PROVE  JobsStored'
<1> USE DEF StoreInv
<1>1. DOMAIN rows \subseteq DOMAIN rows'
    BY NewRows
<1>2. ASSUME NEW h \in Host
      PROVE  /\ host'[h] = "syncing" \/ todo'[h] \subseteq DOMAIN rows'
             /\ locking'[h] \subseteq DOMAIN rows'
    <2>1. host'[h] = "syncing" \/ todo'[h] \subseteq DOMAIN rows'
        <3>1. CASE host[h] = "syncing"
            BY <3>1, SyncEnds
        <3>2. CASE host[h] # "syncing"
            BY <1>1, <3>2, PollsMove DEF PollMoves, JobsStored, Stored
        <3>3. QED
            BY <3>1, <3>2
    <2>2. locking'[h] \subseteq DOMAIN rows'
        BY <1>1, PollsMove DEF PollMoves, JobsStored
    <2>3. QED
        BY <2>1, <2>2
<1>3. ASSUME NEW e \in Run, Live(e)'
      PROVE  exec'[e].job \in DOMAIN rows'
    <2>1. CASE Live(e) /\ exec'[e].job = exec[e].job
        BY <1>1, <2>1 DEF JobsStored
    <2>2. ASSUME NEW h \in Host, NEW s \in Schedule, Begins(e, h, s), exec'[e].job = s
          PROVE  exec'[e].job \in DOMAIN rows'
        BY <1>1, <2>2 DEF Begins, JobsStored, PollNext
    <2>3. QED
        BY <1>3, <2>1, <2>2, LiveNext
<1>4. stale' \subseteq DOMAIN rows'
    BY <1>1, StaleMoves
<1>5. QED
    BY <1>2, <1>3, <1>4 DEF JobsStored

LEMMA HostsServeStep ==
    ASSUME PersistentSchedulesAssumption, StoreInv, [Next]_vars
    PROVE  HostsServe'
<1> USE DEF StoreInv
<1>1. locking \in [Host -> SUBSET Exclusive]
    BY DEF TypeOK
<1>2. ASSUME NEW h \in Host, locking'[h] # {}
      PROVE  host'[h] \in {"up", "stopping"}
    <2>1. ~Gone(h)
        BY <1>1, <1>2 DEF Gone, LockingOver
    <2>2. CASE locking'[h] = locking[h]
        BY <1>2, <2>1, <2>2, HostsMove DEF HostsServe
    <2>3. CASE host[h] = "up" /\ host' = host
        BY <2>3
    <2>4. QED
        BY <1>2, <2>2, <2>3, PollsMove DEF PollMoves
<1>3. ASSUME NEW e \in Run, Live(e)'
      PROVE  host'[exec'[e].host] \in {"up", "stopping"}
    <2>1. CASE Live(e) /\ exec'[e].host = exec[e].host
        <3>1. exec[e].host \in Host /\ host[exec[e].host] \in {"up", "stopping"}
            BY <2>1, Phases DEF HostsServe
        <3>2. ~Gone(exec[e].host)
            BY <1>3, <2>1, <3>1, GoneExecutions DEF IsOver, Live
        <3>3. QED
            BY <2>1, <3>1, <3>2, HostsMove
    <2>2. ASSUME NEW h \in Host, NEW s \in Schedule, Begins(e, h, s), exec'[e].host = h
          PROVE  host'[exec'[e].host] \in {"up", "stopping"}
        <3>1. host' = host /\ host[h] \in {"up", "stopping"}
            BY <2>2 DEF Begins, LockSave, PollNext, HostsServe
        <3>2. QED
            BY <2>2, <3>1
    <2>3. QED
        BY <1>3, <2>1, <2>2, LiveNext
<1>4. QED
    BY <1>2, <1>3 DEF HostsServe

LEMMA TypeOKStep ==
    ASSUME PersistentSchedulesAssumption, StoreInv, [Next]_vars
    PROVE  TypeOK'
<1> USE DEF StoreInv
<1>1. ASSUME NEW e \in Run
      PROVE  exec'[e] \in {Unused, Over} \cup Execution
    BY LiveNext DEF Live
<1>2. exec' \in [Run -> {Unused, Over} \cup Execution]
    <2>1. exec \in [Run -> {Unused, Over} \cup Execution]
        BY DEF TypeOK
    <2>2. ASSUME NEW h \in Host, PollStep(h) \/ SyncStep(h) \/ RecoverStep(h) \/ HostStep(h)
          PROVE  exec' = [e \in Run |-> exec'[e]]
        BY <2>1, <2>2
           DEF SyncStep, SyncRead, SyncSave, SyncThrows, Begin, PollStep, PollRead, PollNext,
               Launch, LockRead, LockTaken, LockSave, LockConflict, LockThrows,
               RecoverStep, RecoverRead, RecoverSave, RecoverThrows, HostStep, Stop,
               Exit, Crash, Gone
    <2>3. ASSUME NEW c \in Client, AdminStep(c)
          PROVE  exec' = [e \in Run |-> exec'[e]]
        BY <2>1, <2>3 DEF AdminStep, AdminRead, AdminSave, AdminThrows
    <2>4. ASSUME NEW e \in Run, ExecStep(e) \/ BeatStep(e) \/ HeartbeatExpires(e)
          PROVE  exec' = [r \in Run |-> exec'[r]]
        BY <2>1, <2>4
           DEF ExecStep, StartRead, StartSave, StartThrows, SettleRead, SettleSave,
               SettleThrows, Interrupted, Finish, ReleaseRead, ReleaseNothing,
               ReleaseSave, ReleaseThrows, BeatStep, BeatRead, BeatSave, BeatThrows,
               HeartbeatExpires
    <2>5. ASSUME NEW s \in Schedule, NextTimeComes(s) \/ LockExpires(s)
          PROVE  exec' = [e \in Run |-> exec'[e]]
        BY <2>1, <2>5 DEF NextTimeComes, LockExpires
    <2>6. exec' = [e \in Run |-> exec'[e]]
        BY <2>1, <2>2, <2>3, <2>4, <2>5 DEF Next, vars
    <2>7. QED
        BY <1>1, <2>6
<1>3. ASSUME NEW e \in Run, Invoking(e)'
      PROVE  e \in DOMAIN rows'
    <2>1. DOMAIN rows \subseteq DOMAIN rows'
        BY NewRows
    <2>2. Live(e)' /\ exec'[e].phase \in {"running", "settling"}
        BY <1>3 DEF Invoking, In
    <2>3. CASE Live(e) /\ exec'[e] = exec[e]
        BY <2>1, <2>2, <2>3 DEF TypeOK, Invoking, In
    <2>4. CASE StartSave(e)
        BY <2>4 DEF StartSave, SaveStart, SaveColumns, SaveRows
    <2>5. CASE SettleRead(e)
        BY <2>1, <2>5 DEF SettleRead, TypeOK, Invoking
    <2>6. ASSUME NEW h \in Host, NEW s \in Schedule, Begins(e, h, s)
          PROVE  FALSE
        BY <2>2, <2>6, Beginning
    <2>7. QED
        BY <2>2, <2>3, <2>4, <2>5, <2>6, LiveNext DEF OwnStep, GoesOn
<1>4. /\ todo' \in [Host -> SUBSET Schedule] /\ locking' \in [Host -> SUBSET Exclusive']
      /\ tries' \in [Host -> 0 .. MaxClaimRetries - 1]
    <2>1. CASE Host = {}
        <3>1. todo' = todo /\ locking' = locking /\ tries' = tries
            <4>1. ASSUME NEW e \in Run, ExecStep(e) \/ BeatStep(e) \/ HeartbeatExpires(e)
                  PROVE  UNCHANGED poll
                BY <4>1
                   DEF ExecStep, StartRead, StartSave, StartThrows, SettleRead, SettleSave,
                       SettleThrows, Interrupted, ReleaseRead, ReleaseNothing,
                       ReleaseSave, ReleaseThrows, BeatStep, BeatRead, BeatSave,
                       BeatThrows, HeartbeatExpires
            <4>2. ASSUME NEW c \in Client, AdminStep(c)
                  PROVE  UNCHANGED poll
                BY <4>2 DEF AdminStep, AdminRead, AdminSave, AdminThrows
            <4>3. QED
                BY <2>1, <4>1, <4>2 DEF Next, vars, poll, NextTimeComes, LockExpires
        <3>2. QED
            BY <3>1, FaultsStay DEF TypeOK
    <2>2. CASE Host # {}
        BY <2>2, PollsMove, FaultsStay DEF PollMoves
    <2>3. QED
        BY <2>1, <2>2
<1>5. QED
    BY <1>2, <1>3, <1>4, RowTypesStep, HostsMove, DueMoves, ExpiredMoves, StaleMoves,
       FaultsStay DEF TypeOK, Stored

\* The contexts of an execution and of its heartbeat track what they are for.
LEMMA ExecContextsStep ==
    ASSUME PersistentSchedulesAssumption, StoreInv, [Next]_vars, NEW e \in Run
    PROVE  /\ Opened(<<"exec", e>>)' =>
                 \/ In(e, "starting")' /\ DOMAIN snap'[<<"exec", e>>] = {exec'[e].job}
                 \/ In(e, "settling")' \/ In(e, "releasing")'
           /\ In(e, "settling")' => DOMAIN snap'[<<"exec", e>>] = {e}
           /\ In(e, "releasing")' => DOMAIN snap'[<<"exec", e>>] = {exec'[e].job}
           /\ Opened(<<"beat", e>>)' => Invoking(e)' /\ DOMAIN snap'[<<"beat", e>>] = {e}
<1> DEFINE a == <<"exec", e>>
           b == <<"beat", e>>
           Goal ==
              /\ Opened(a)' =>
                    \/ In(e, "starting")' /\ DOMAIN snap'[a] = {exec'[e].job}
                    \/ In(e, "settling")' \/ In(e, "releasing")'
              /\ In(e, "settling")' => DOMAIN snap'[a] = {e}
              /\ In(e, "releasing")' => DOMAIN snap'[a] = {exec'[e].job}
              /\ Opened(b)' => Invoking(e)' /\ DOMAIN snap'[b] = {e}
<1> USE DEF StoreInv
<1>1. a \in Actor /\ b \in Actor
    BY Actors
<1>2. ASSUME ~Live(e)', snap'[a] = Nothing, snap'[b] = Nothing
      PROVE  Goal
    BY <1>2 DEF Opened, In, Live
<1>3. ASSUME NEW p, GoesOn(e, p)
      PROVE  Live(e)' /\ exec'[e].phase = p
    <2>1. exec'[e] \in Execution /\ exec'[e].phase = p
        BY <1>3 DEF GoesOn
    <2>2. exec'[e] # Unused /\ exec'[e] # Over
        <3>1. DOMAIN exec'[e] = {"phase", "job", "host", "ok"}
            BY <2>1 DEF Execution
        <3>2. DOMAIN Unused = {"phase"} /\ DOMAIN Over = {"phase"}
            BY DEF Unused, Over
        <3>3. "job" \in DOMAIN exec'[e] /\ "job" \notin DOMAIN Unused /\ "job" \notin DOMAIN Over
            BY <3>1, <3>2
        <3>4. QED
            BY <3>3
    <2>3. QED
        BY <2>1, <2>2 DEF Live
<1>4. CASE ~Live(e) /\ exec'[e] = exec[e]
    <2>1. snap[a] = Nothing /\ snap[b] = Nothing
        BY <1>4 DEF ContextsTrack, Opened, Invoking, In
    <2>2. ~Loads(a) /\ ~Loads(b)
        BY <1>4, LoadedIds DEF StartRead, SettleRead, ReleaseRead, BeatRead, Invoking, In
    <2>3. snap'[a] = Nothing /\ snap'[b] = Nothing
        BY <1>1, <2>1, <2>2, WhoLoads
    <2>4. QED
        BY <1>2, <1>4, <2>3 DEF Live
<1>5. CASE Live(e) /\ exec'[e] = exec[e]
    <2>1. /\ \A p : In(e, p)' <=> In(e, p)
          /\ Invoking(e)' <=> Invoking(e)
        BY <1>5 DEF In, Live, Invoking
    <2>2. ~SettleRead(e) /\ ~ReleaseRead(e)
        <3>1. ASSUME SettleRead(e)
              PROVE  FALSE
            BY <1>5, <3>1, ReadSteps DEF GoesOn, SettleRead, In
        <3>2. ASSUME ReleaseRead(e)
              PROVE  FALSE
            BY <1>5, <3>2, ReadSteps DEF GoesOn, ReleaseRead, In
        <3>3. QED
            BY <3>1, <3>2
    <2>3. Opened(b)' => Invoking(e)' /\ DOMAIN snap'[b] = {e}
        BY <1>1, <2>1, WhoLoads, LoadedIds DEF Opened, ContextsTrack, BeatRead
    <2>4. CASE snap'[a] = snap[a]
        <3>1. Opened(a)' <=> Opened(a)
            BY <2>4 DEF Opened
        <3>2. QED
            BY <1>5, <2>1, <2>3, <2>4, <3>1 DEF ContextsTrack
    <2>5. CASE StartRead(e)
        <3>1. Loads(a)
            BY <2>5 DEF Loads
        <3>2. In(e, "starting")' /\ DOMAIN snap'[a] = {exec'[e].job}
            BY <1>5, <2>1, <2>2, <2>5, <3>1, LoadedIds DEF StartRead
        <3>3. ~In(e, "settling")' /\ ~In(e, "releasing")'
            BY <3>2 DEF In
        <3>4. QED
            BY <2>3, <3>2, <3>3
    <2>6. QED
        BY <1>5, <2>4, <2>5, ContextKept
<1>6. CASE IsOver(e)
    BY <1>2, <1>6 DEF IsOver, Disposed, Live
<1>7. CASE exec[e].job \in Exclusive /\ ~In(e, "ended") /\ GoesOn(e, "ended") /\ Disposed(e)
    <2>1. ~Opened(a)' /\ ~Opened(b)'
        BY <1>7 DEF Disposed, Opened
    <2>2. ~In(e, "settling")' /\ ~In(e, "releasing")'
        BY <1>7, <1>3 DEF In
    <2>3. QED
        BY <2>1, <2>2
<1>8. CASE StartSave(e) /\ GoesOn(e, "running") /\ snap'[a] = Nothing
    <2>1. ~Opened(a)' /\ ~In(e, "settling")' /\ ~In(e, "releasing")'
        BY <1>3, <1>8 DEF Opened, In
    <2>2. snap[b] = Nothing
        BY <1>8 DEF StartSave, ContextsTrack, Opened, Invoking, In
    <2>3. ~Loads(b)
        BY <1>8, LoadedIds DEF StartSave, BeatRead, Invoking, In
    <2>4. ~Opened(b)'
        BY <1>1, <2>2, <2>3, WhoLoads DEF Opened
    <2>5. QED
        BY <2>1, <2>4
<1>9. CASE SettleRead(e) /\ GoesOn(e, "settling")
    <2>1. In(e, "settling")' /\ Invoking(e)' /\ ~In(e, "releasing")' /\ ~In(e, "starting")'
        BY <1>3, <1>9 DEF In, Invoking
    <2>2. Loads(a)
        BY <1>9 DEF Loads
    <2>3. DOMAIN snap'[a] = {e}
        BY <1>9, <2>2, LoadedIds DEF SettleRead, StartRead, ReleaseRead, In
    <2>4. Opened(b)' => DOMAIN snap'[b] = {e}
        BY <1>1, WhoLoads, LoadedIds DEF Opened, ContextsTrack
    <2>5. QED
        BY <2>1, <2>3, <2>4
<1>10. CASE ReleaseRead(e) /\ GoesOn(e, "releasing")
    <2>1. In(e, "releasing")' /\ ~In(e, "settling")' /\ ~In(e, "starting")'
        BY <1>3, <1>10 DEF In
    <2>2. Loads(a)
        BY <1>10 DEF Loads
    <2>3. DOMAIN snap'[a] = {exec'[e].job}
        BY <1>10, <2>2, LoadedIds DEF SettleRead, StartRead, ReleaseRead, In, GoesOn
    <2>4. ~Opened(b)'
        <3>1. ~Invoking(e)
            BY <1>10 DEF ReleaseRead, Invoking, In
        <3>2. snap[b] = Nothing /\ ~Loads(b)
            BY <3>1, LoadedIds DEF ContextsTrack, Opened, BeatRead
        <3>3. QED
            BY <1>1, <3>2, WhoLoads DEF Opened
    <2>5. QED
        BY <2>1, <2>3, <2>4
<1>11. ASSUME NEW h \in Host, NEW s \in Schedule, Begins(e, h, s)
       PROVE  Goal
    <2>1. ~Live(e)
        BY <1>11 DEF Begins, Live
    <2>2. snap[a] = Nothing /\ snap[b] = Nothing
        BY <2>1 DEF ContextsTrack, Opened, Invoking, In
    <2>3. ~Loads(a) /\ ~Loads(b)
        BY <2>1, LoadedIds DEF StartRead, SettleRead, ReleaseRead, BeatRead, Invoking, In
    <2>4. ~Opened(a)' /\ ~Opened(b)'
        BY <1>1, <2>2, <2>3, WhoLoads DEF Opened
    <2>5. ~In(e, "settling")' /\ ~In(e, "releasing")'
        BY <1>11, Beginning DEF In
    <2>6. QED
        BY <2>4, <2>5
<1>12. QED
    BY <1>4, <1>5, <1>6, <1>7, <1>8, <1>9, <1>10, <1>11, WhoRuns DEF OwnStep

LEMMA ContextsTrackStep ==
    ASSUME PersistentSchedulesAssumption, StoreInv, [Next]_vars
    PROVE  ContextsTrack'
<1> USE DEF StoreInv
<1>1. ASSUME NEW h \in Host
      PROVE  DOMAIN snap'[<<"sync", h>>] \subseteq Schedule
    <2> DEFINE a == <<"sync", h>>
    <2>1. DOMAIN Nothing = {} /\ Stored \subseteq Schedule
        BY DEF Nothing, Stored
    <2>2. DOMAIN snap[a] \subseteq Schedule
        BY DEF ContextsTrack
    <2>3. \/ snap'[a] = snap[a] \/ snap'[a] = Nothing
          \/ DOMAIN snap'[a] \subseteq DOMAIN snap[a] \cup Stored
        BY Actors, WhoLoads, LoadedIds
    <2>4. QED
        BY <2>1, <2>2, <2>3
<1>2. ASSUME NEW c \in Client
      PROVE  /\ DOMAIN snap'[<<"admin", c>>] \subseteq Schedule
             /\ \A s, u \in DOMAIN snap'[<<"admin", c>>] : s = u
    <2> DEFINE a == <<"admin", c>>
    <2>1. DOMAIN Nothing = {} /\ a \in Actor
        BY Actors DEF Nothing
    <2>2. \/ snap'[a] = snap[a] \/ snap'[a] = Nothing
          \/ \E s \in Schedule : DOMAIN snap'[a] = {s}
        BY <2>1, WhoLoads, LoadedIds
    <2>3. DOMAIN snap[a] \subseteq Schedule /\ \A s, u \in DOMAIN snap[a] : s = u
        BY DEF ContextsTrack
    <2> HIDE DEF a
    <2>4. /\ DOMAIN snap'[a] \subseteq Schedule
          /\ \A s, u \in DOMAIN snap'[a] : s = u
        BY <2>1, <2>2, <2>3
    <2>5. QED
        BY <2>4 DEF a
<1>3. ASSUME NEW h \in Host, Opened(<<"poll", h>>)'
      PROVE  locking'[h] # {} /\ DOMAIN snap'[<<"poll", h>>] = locking'[h]
    <2> DEFINE a == <<"poll", h>>
    <2>1. snap'[a] # Nothing /\ a \in Actor
        BY <1>3, Actors DEF Opened
    <2>2. CASE Loads(a)
        BY <2>2, LoadedIds DEF LockRead, poll
    <2>3. CASE snap'[a] = snap[a]
        <3>1. locking[h] # {} /\ DOMAIN snap[a] = locking[h]
            BY <2>1, <2>3 DEF ContextsTrack, Opened
        <3>2. QED
            BY <2>1, <2>3, <3>1, PollsMove DEF PollMoves
    <2>4. QED
        BY <2>1, <2>2, <2>3, WhoLoads
<1>4. QED
    BY <1>1, <1>2, <1>3, ExecContextsStep DEF ContextsTrack

\* Initially there are no rows, contexts or executions.
LEMMA StoreInvInit ==
    ASSUME PersistentSchedulesAssumption, Init
    PROVE  StoreInv
<1> USE DEF Init
<1>1. DOMAIN Nothing = {}
    BY DEF Nothing
<1>2. \A a \in Actor : snap[a] = Nothing /\ ~Opened(a)
    BY DEF Opened
<1>3. \A e \in Run : exec[e] = Unused /\ ~Live(e)
    BY DEF Live
<1>4. \A e \in Run : ~Invoking(e) /\ \A p : ~In(e, p)
    BY <1>3 DEF Invoking, In
<1>5. TypeOK
    <2>1. /\ tries \in [Host -> 0 .. MaxClaimRetries - 1]
          /\ faults \in Faults
        BY DEF PersistentSchedulesAssumption
    <2>2. QED
        BY <1>1, <1>2, <1>4, <2>1 DEF TypeOK, Stored
<1>6. ContextTypes /\ VersionsTell
    BY <1>1, <1>2 DEF ContextTypes, VersionsTell
<1>7. ContextsTrack
    BY <1>1, <1>2, <1>4, Actors DEF ContextsTrack
<1>8. JobsStored /\ HostsServe
    BY <1>3 DEF JobsStored, HostsServe
<1>9. QED
    BY <1>1, <1>5, <1>6, <1>7, <1>8 DEF StoreInv, Stored

LEMMA StoreInvStep ==
    ASSUME PersistentSchedulesAssumption, StoreInv, [Next]_vars
    PROVE  StoreInv'
<1>1. (\A s \in Stored : Timed(s, rows[s]))'
    BY RowTypesStep, FaultsStay DEF Stored, StoreInv, Timed
<1>2. QED
    BY <1>1, TypeOKStep, ContextTypesStep, VersionsTellStep, JobsStoredStep,
       ContextsTrackStep, HostsServeStep DEF StoreInv

-----------------------------------------------------------------------------
(* Locks and entries change hands only when they have expired. *)

LEMMA ContextsTellStep ==
    ASSUME PersistentSchedulesAssumption, StoreInv, ContextsTell, [Next]_vars
    PROVE  ContextsTell'
<1>1. ASSUME NEW h \in Host, NEW s \in DOMAIN snap'[<<"poll", h>>]
      PROVE  \/ snap'[<<"poll", h>>][s].owner = NoHost
             \/ snap'[<<"poll", h>>][s].version = rows'[s].version => s \in expired'
    <2> DEFINE a == <<"poll", h>>
    <2>1. a \in Actor
        BY Actors
    <2>2. CASE Loads(a) /\ rows' = rows /\ snap'[a][s] = rows[s]
        <3>1. LockRead(h) /\ s \in locking[h]
            BY <2>2, LoadedIds
        <3>2. Lockable(s) /\ expired' = expired
            BY <3>1 DEF LockRead, time
        <3>3. QED
            BY <2>2, <3>2 DEF Lockable
    <2>3. CASE s \in DOMAIN snap[a] /\ snap'[a][s] = snap[a][s]
        <3>1. \/ snap[a][s].owner = NoHost
              \/ snap[a][s].version = rows[s].version => s \in expired
            BY <2>3 DEF ContextsTell
        <3>2. ASSUME snap[a][s].version = rows'[s].version, s \in expired
              PROVE  s \in expired'
            <4>1. /\ s \in DOMAIN rows /\ rows'[s].version = rows[s].version
                  /\ rows[s].version \in Nat
                BY <2>1, <2>3, <3>2, StillUpToDate, VersionsRise
            <4>2. s \in Stored
                BY <3>2, <4>1 DEF StoreInv, TypeOK, Stored
            <4>3. QED
                BY <3>2, <4>1, <4>2, ExpiredMoves
        <3>3. QED
            BY <2>1, <2>3, <3>1, <3>2, StillUpToDate
    <2>4. QED
        BY <2>1, <2>2, <2>3, WhatContextsHold
<1>2. ASSUME NEW h \in Host, NEW id \in DOMAIN snap'[<<"recover", h>>]
      PROVE  /\ id \in Schedule /\ snap'[<<"recover", h>>][id].version = rows'[id].version =>
                   id \in expired'
             /\ id \in Run =>
                   /\ snap'[<<"recover", h>>][id].status = "Running"
                   /\ snap'[<<"recover", h>>][id].version = rows'[id].version => id \in stale'
    <2> DEFINE a == <<"recover", h>>
    <2>1. a \in Actor
        BY Actors
    <2>2. CASE Loads(a) /\ rows' = rows /\ snap'[a][id] = rows[id]
        <3>1. RecoverRead(h) /\ id \in StaleRuns \cup StaleLocks
            BY <2>2, LoadedIds
        <3>2. expired' = expired /\ stale' = stale
            BY <3>1 DEF RecoverRead, time
        <3>3. Schedule \cap Run = {}
            BY DEF PersistentSchedulesAssumption
        <3>4. QED
            BY <2>2, <3>1, <3>2, <3>3 DEF StaleRuns, StaleLocks, Stored
    <2>3. CASE id \in DOMAIN snap[a] /\ snap'[a][id] = snap[a][id]
        <3>1. /\ id \in Schedule /\ snap[a][id].version = rows[id].version => id \in expired
              /\ id \in Run => /\ snap[a][id].status = "Running"
                               /\ snap[a][id].version = rows[id].version => id \in stale
            BY <2>3 DEF ContextsTell
        <3>2. ASSUME snap[a][id].version = rows'[id].version
              PROVE  /\ id \in Schedule => id \in expired'
                     /\ id \in Run => id \in stale'
            <4>1. /\ id \in DOMAIN rows /\ snap[a][id].version = rows[id].version
                  /\ rows'[id].version = rows[id].version /\ rows[id].version \in Nat
                BY <2>1, <2>3, <3>2, StillUpToDate, VersionsRise
            <4>2. ASSUME id \in Schedule
                  PROVE  id \in expired'
                <5>1. id \in Stored /\ id \in expired
                    BY <3>1, <4>1, <4>2 DEF Stored
                <5>2. QED
                    BY <4>1, <5>1, ExpiredMoves
            <4>3. ASSUME id \in Run
                  PROVE  id \in stale'
                <5>1. id \in stale
                    BY <3>1, <4>1, <4>3
                <5>2. QED
                    BY <4>1, <5>1, StaleMoves
            <4>4. QED
                BY <4>2, <4>3
        <3>3. QED
            BY <2>3, <3>1, <3>2
    <2>4. QED
        BY <2>1, <2>2, <2>3, WhatContextsHold
<1>3. QED
    BY <1>1, <1>2 DEF ContextsTell

\* A lock that TryGetLockAsync is about to take has no holder.
LEMMA LockIsFree ==
    ASSUME PersistentSchedulesAssumption, StoreInv, ContextsTell, HoldersInv,
           ~faults.lateLocks, NEW h \in Host, NEW s \in Schedule,
           MayWrite(<<"poll", h>>, s), NEW e \in Run
    PROVE  ~Holds(e, s)
<1> DEFINE a == <<"poll", h>>
<1>1. SUFFICES ASSUME Holds(e, s)
               PROVE  FALSE
    OBVIOUS
<1>2. rows[s].owner = exec[e].host /\ s \notin expired
    BY <1>1 DEF HoldersInv
<1>3. exec[e].host \in Host /\ NoHost \notin Host
    BY <1>1, Phases DEF Holds, StoreInv, PersistentSchedulesAssumption
<1>4. Agree(s, rows[s], snap[a][s])
    BY UpToDate
<1>5. snap[a][s].owner # NoHost
    BY <1>2, <1>3, <1>4 DEF Agree
<1>6. s \in expired
    BY <1>4, <1>5 DEF ContextsTell, MayWrite, Agree
<1>7. QED
    BY <1>2, <1>6

\* The lock of a live holder stays its instance's and does not expire.
LEMMA HolderKeeps ==
    ASSUME PersistentSchedulesAssumption, StoreInv, ContextsTell, HoldersInv,
           ~faults.lateLocks, [Next]_vars, NEW e \in Run, NEW s \in Schedule,
           Holds(e, s), ~IsOver(e)
    PROVE  rows'[s].owner = exec[e].host /\ s \notin expired'
<1>1. /\ rows[s].owner = exec[e].host /\ s \notin expired
      /\ \A d \in Run : Holds(d, s) => d = e
    BY DEF HoldersInv
<1>2. /\ exec[e].job = s /\ Live(e) /\ s \in Exclusive
    BY DEF Holds
<1>3. s \in Stored
    BY <1>2 DEF StoreInv, JobsStored, Stored
<1>4. s \notin expired'
    <2>1. ~LockExpires(s)
        BY <1>1 DEF LockExpires
    <2>2. QED
        BY <1>1, <2>1, ExpiredMoves
<1>5. rows'[s].owner = rows[s].owner
    <2>1. ASSUME NEW h \in Host, MayWrite(<<"poll", h>>, s)
          PROVE  FALSE
        BY <2>1, LockIsFree
    <2>2. ASSUME NEW d \in Run, MayWrite(<<"exec", d>>, s), ReleaseSave(d)
          PROVE  FALSE
        <3>1. In(d, "releasing") /\ exec' = [exec EXCEPT ![d] = Over] /\ Live(d)
            BY <2>2 DEF ReleaseSave, In
        <3>2. exec[d].job = s
            BY <2>2, <3>1 DEF MayWrite, StoreInv, ContextsTrack
        <3>3. d = e
            BY <1>1, <1>2, <3>1, <3>2 DEF Holds
        <3>4. IsOver(e) \/ OwnStep(e) \/ exec' = exec
            BY <2>2, <3>3, ExecSteps DEF ExecStep
        <3>5. exec'[e] = Over
            BY <3>1, <3>3, Phases DEF StoreInv
        <3>6. exec[e] # Over /\ Over \notin Execution
            <4>1. DOMAIN Over = {"phase"}
                BY DEF Over
            <4>2. \A x \in Execution : DOMAIN x = {"phase", "job", "host", "ok"}
                BY DEF Execution
            <4>3. "job" \notin DOMAIN Over /\ \A x \in Execution : "job" \in DOMAIN x
                BY <4>1, <4>2
            <4>4. QED
                BY <1>2, <4>3 DEF Live
        <3>7. ~OwnStep(e)
            BY <3>5, <3>6 DEF OwnStep, GoesOn
        <3>8. QED
            BY <3>4, <3>5, <3>6, <3>7
    <2>3. ASSUME NEW h \in Host, MayWrite(<<"recover", h>>, s)
          PROVE  FALSE
        <3>1. Agree(s, rows[s], snap[<<"recover", h>>][s])
            BY <2>3, UpToDate
        <3>2. s \in expired
            BY <2>3, <3>1 DEF ContextsTell, MayWrite, Agree
        <3>3. QED
            BY <1>1, <3>2
    <2>4. QED
        BY <1>3, <2>1, <2>2, <2>3, WhoWritesSchedules DEF ScheduleWritten, Versioned
<1>6. QED
    BY <1>1, <1>4, <1>5

LEMMA HoldersInvStep ==
    ASSUME PersistentSchedulesAssumption, StoreInv, ContextsTell, HoldersInv, [Next]_vars
    PROVE  HoldersInv'
<1> SUFFICES ASSUME ~faults.lateLocks
             PROVE  /\ \A e \in Run, s \in Schedule :
                          Holds(e, s)' => rows'[s].owner = exec'[e].host /\ s \notin expired'
                    /\ \A d, e \in Run, s \in Schedule : Holds(d, s)' /\ Holds(e, s)' => d = e
    BY FaultsStay DEF HoldersInv, StoreInv
<1>1. Exclusive' = Exclusive
    BY FaultsStay DEF StoreInv
<1>2. ASSUME NEW e \in Run, NEW s \in Schedule, Holds(e, s)'
      PROVE  \/ Holds(e, s) /\ ~IsOver(e) /\ exec'[e].host = exec[e].host
             \/ \E h \in Host : /\ Begins(e, h, s) /\ exec'[e].host = h
                                /\ LockSave(h) /\ s \in locking[h]
    <2>1. Live(e)' /\ exec'[e].job = s /\ s \in Exclusive
        BY <1>1, <1>2 DEF Holds
    <2>2. ~IsOver(e)
        BY <2>1 DEF IsOver, Live
    <2>3. CASE Live(e) /\ exec'[e].job = exec[e].job /\ exec'[e].host = exec[e].host
        BY <2>1, <2>2, <2>3 DEF Holds
    <2>4. ASSUME NEW h \in Host, NEW t \in Schedule, Begins(e, h, t),
                 exec'[e].job = t, exec'[e].host = h
          PROVE  Begins(e, h, s) /\ exec'[e].host = h /\ LockSave(h) /\ s \in locking[h]
        BY <2>1, <2>4 DEF Begins
    <2>5. QED
        BY <2>1, <2>3, <2>4, LiveNext
<1>3. ASSUME NEW h \in Host, NEW s \in Schedule, LockSave(h), s \in locking[h]
      PROVE  /\ rows'[s].owner = h /\ s \notin expired'
             /\ \A e \in Run : ~Holds(e, s)
    <2>1. s \in Stored
        BY <1>3 DEF StoreInv, JobsStored, Stored
    <2>2. MayWrite(<<"poll", h>>, s) /\ Versioned(s, rows[s], rows'[s], h)
        BY <1>3, <2>1, LocksSaved
    <2>3. \A e \in Run : ~Holds(e, s)
        BY <2>2, LockIsFree
    <2>4. s \notin expired'
        BY <1>3 DEF LockSave
    <2>5. QED
        BY <2>2, <2>3, <2>4 DEF Versioned
<1>4. ASSUME NEW e \in Run, NEW s \in Schedule, Holds(e, s)'
      PROVE  rows'[s].owner = exec'[e].host /\ s \notin expired'
    BY <1>2, <1>3, <1>4, HolderKeeps
<1>5. ASSUME NEW d \in Run, NEW e \in Run, NEW s \in Schedule, Holds(d, s)', Holds(e, s)'
      PROVE  d = e
    <2>1. CASE Holds(d, s) /\ Holds(e, s)
        BY <2>1 DEF HoldersInv
    <2>2. ASSUME NEW h \in Host, Begins(e, h, s), LockSave(h), s \in locking[h]
          PROVE  d = e
        <3>1. ~Holds(d, s)
            BY <1>3, <2>2
        <3>2. PICK g \in Host : Begins(d, g, s)
            BY <1>2, <1>5, <3>1
        <3>3. Live(d)' /\ ~Live(d)
            BY <1>5, <3>2 DEF Begins, Holds, Live
        <3>4. QED
            BY <2>2, <3>3, Beginning DEF Live
    <2>3. ASSUME NEW h \in Host, Begins(d, h, s), LockSave(h), s \in locking[h]
          PROVE  d = e
        <3>1. ~Holds(e, s)
            BY <1>3, <2>3
        <3>2. PICK g \in Host : Begins(e, g, s)
            BY <1>2, <1>5, <3>1
        <3>3. Live(e)' /\ ~Live(e)
            BY <1>5, <3>2 DEF Begins, Holds, Live
        <3>4. QED
            BY <2>3, <3>3, Beginning DEF Live
    <2>4. QED
        BY <1>2, <1>5, <2>1, <2>2, <2>3
<1>6. QED
    BY <1>4, <1>5

\* The recovery fails an entry only after its heartbeats have stopped.
LEMMA BeatingIsSpared ==
    ASSUME PersistentSchedulesAssumption, StoreInv, ContextsTell, EntriesInv,
           ~faults.lateHeartbeats, [Next]_vars, NEW e \in Run, Beating(e), ~SettleSave(e)
    PROVE  rows'[e].status = "Running" /\ e \notin stale'
<1>1. rows[e].status = "Running" /\ e \notin stale
    BY DEF EntriesInv
<1>2. e \in DOMAIN rows \cap Run
    BY DEF Beating, StoreInv, TypeOK
<1>3. ASSUME NEW h \in Host, MayWrite(<<"recover", h>>, e)
      PROVE  FALSE
    <2>1. snap[<<"recover", h>>][e] = rows[e]
        BY <1>3, UpToDate
    <2>2. e \in stale
        BY <1>3, <2>1 DEF ContextsTell, MayWrite
    <2>3. QED
        BY <1>1, <2>2
<1>4. rows'[e].status = rows[e].status
    BY <1>2, <1>3, WhoWritesEntries DEF EntryWritten
<1>5. ~HeartbeatExpires(e)
    BY DEF HeartbeatExpires
<1>6. QED
    BY <1>1, <1>4, <1>5, StaleMoves

LEMMA EntriesInvStep ==
    ASSUME PersistentSchedulesAssumption, StoreInv, ContextsTell, EntriesInv, [Next]_vars
    PROVE  EntriesInv'
<1> SUFFICES ASSUME ~faults.lateHeartbeats
             PROVE  /\ \A e \in Run : Beating(e)' =>
                          rows'[e].status = "Running" /\ e \notin stale'
                    /\ \A e \in Run : In(e, "settling")' =>
                          \A id \in DOMAIN snap'[<<"exec", e>>] :
                             snap'[<<"exec", e>>][id].status = "Running"
    BY FaultsStay DEF EntriesInv, StoreInv
<1> USE DEF StoreInv
<1>1. ASSUME NEW e \in Run, Live(e), exec'[e].host = exec[e].host, Up(e)'
      PROVE  Up(e)
    <2>1. exec[e].host \in Host /\ host[exec[e].host] \in {"up", "stopping"}
        BY <1>1, Phases DEF HostsServe
    <2>2. QED
        BY <1>1, <2>1, HostsMove DEF Up
<1>2. ASSUME NEW e \in Run, Beating(e)'
      PROVE  rows'[e].status = "Running" /\ e \notin stale'
    <2>1. Invoking(e)' /\ Up(e)' /\ Live(e)' /\ exec'[e].phase \in {"running", "settling"}
        BY <1>2 DEF Beating, Invoking, In
    <2>2. CASE Live(e) /\ exec'[e] = exec[e]
        <3>1. Beating(e)
            BY <1>1, <2>1, <2>2 DEF Beating, Invoking, In
        <3>2. ~SettleSave(e)
            <4>1. ASSUME SettleSave(e)
                  PROVE  FALSE
                <5>1. exec' = [exec EXCEPT ![e] = Ended(e)] /\ In(e, "settling")
                    BY <4>1 DEF SettleSave, Finish
                <5>2. exec'[e] = Ended(e)
                    BY <2>2, <5>1, Phases
                <5>3. exec[e].job \in Exclusive
                    BY <2>1, <5>2 DEF Ended, Live
                <5>4. [exec[e] EXCEPT !.phase = "ended"].phase = "ended"
                    BY <2>2, Phases DEF Phase
                <5>5. QED
                    BY <2>1, <5>2, <5>3, <5>4 DEF Ended
            <4>2. QED
                BY <4>1
        <3>3. QED
            BY <3>1, <3>2, BeatingIsSpared
    <2>3. CASE StartSave(e)
        <3>1. e \notin DOMAIN rows /\ rows'[e] = NewRun
            BY <2>3 DEF StartSave, SaveStart, SaveColumns, SaveRows
        <3>2. e \notin stale /\ stale' = stale
            BY <2>3, <3>1 DEF StartSave, JobsStored
        <3>3. QED
            BY <3>1, <3>2 DEF NewRun
    <2>4. CASE SettleRead(e)
        <3>1. Beating(e)
            BY <2>4 DEF SettleRead, Beating, Invoking
        <3>2. rows' = rows /\ stale' = stale
            BY <2>4 DEF SettleRead, time
        <3>3. QED
            BY <3>1, <3>2 DEF EntriesInv
    <2>5. ASSUME NEW h \in Host, NEW s \in Schedule, Begins(e, h, s)
          PROVE  FALSE
        BY <2>1, <2>5, Beginning
    <2>6. QED
        BY <2>1, <2>2, <2>3, <2>4, <2>5, LiveNext DEF OwnStep, GoesOn
<1>3. ASSUME NEW e \in Run, In(e, "settling")', NEW id \in DOMAIN snap'[<<"exec", e>>]
      PROVE  snap'[<<"exec", e>>][id].status = "Running"
    <2> DEFINE a == <<"exec", e>>
    <2>1. a \in Actor /\ Live(e)' /\ exec'[e].phase = "settling"
        BY <1>3, Actors DEF In
    <2>2. CASE SettleRead(e)
        <3>1. Loads(a) /\ Beating(e)
            BY <2>2 DEF Loads, SettleRead, Beating, Invoking
        <3>2. snap'[a][id] = rows[id]
            BY <2>1, <3>1, LoadedContext
        <3>3. DOMAIN snap'[a] = {e}
            BY <1>3, ExecContextsStep
        <3>4. QED
            BY <3>1, <3>2, <3>3 DEF EntriesInv
    <2>3. CASE Live(e) /\ exec'[e] = exec[e]
        <3>1. In(e, "settling") /\ ~StartRead(e)
            BY <2>1, <2>3 DEF In, StartRead
        <3>2. snap'[a] = snap[a]
            BY <2>3, <3>1, ContextKept
        <3>3. QED
            BY <3>1, <3>2 DEF EntriesInv
    <2>4. ASSUME NEW h \in Host, NEW s \in Schedule, Begins(e, h, s)
          PROVE  FALSE
        BY <2>1, <2>4, Beginning
    <2>5. QED
        BY <2>1, <2>2, <2>3, <2>4, LiveNext DEF OwnStep, GoesOn
<1>4. QED
    BY <1>2, <1>3

-----------------------------------------------------------------------------
(* The theorems. *)

SchedulesInv == StoreInv /\ ContextsTell /\ HoldersInv /\ EntriesInv

\* The inductive invariant: what is stored is typed and timed as far as a next
\* time is found, contexts that
\* are up to date know who holds a lock and whether it has expired, and
\* holders and beating executions are left in peace.
THEOREM SchedulesInvariant == Spec => []SchedulesInv
<1> USE PersistentSchedulesAssumption
<1>1. Init => SchedulesInv
    <2> SUFFICES ASSUME Init
                 PROVE  SchedulesInv
        OBVIOUS
    <2>1. \A a \in Actor : DOMAIN snap[a] = {}
        BY DEF Init, Nothing
    <2>2. \A e \in Run : ~Live(e)
        BY DEF Init, Live
    <2>3. ContextsTell /\ HoldersInv /\ EntriesInv
        BY <2>1, <2>2, Actors
           DEF ContextsTell, HoldersInv, Holds, EntriesInv, Beating, Invoking, In
    <2>4. QED
        BY <2>3, StoreInvInit DEF SchedulesInv
<1>2. SchedulesInv /\ [Next]_vars => SchedulesInv'
    BY StoreInvStep, ContextsTellStep, HoldersInvStep, EntriesInvStep DEF SchedulesInv
<1>3. QED
    BY <1>1, <1>2, PTL DEF Spec

\* Every variable of the persistent scheduler keeps its type, contexts hold
\* stored rows, and an execution that has started has its history entry.
THEOREM TypeCorrect == Spec => []TypeOK
<1>1. SchedulesInv => TypeOK
    BY DEF SchedulesInv, StoreInv
<1>2. QED
    BY <1>1, SchedulesInvariant, PTL

\* Although SyncSchedulesAsync writes rows without Version++, a context that
\* passes the check of Version knows who holds the lock and whether the
\* schedule is active.
THEOREM VersionProtects == Spec => []ContextsKnowLockAndActivity
<1>1. SchedulesInv => ContextsKnowLockAndActivity
    BY DEF SchedulesInv, StoreInv, VersionsTell, ContextsKnowLockAndActivity
<1>2. QED
    BY <1>1, SchedulesInvariant, PTL

\* No execution or synchronisation in flight gives a deactivated schedule a next
\* time again or takes an active one's away, unless CalculateNextExecution may
\* find none for it.
THEOREM TimesFollowActivity == Spec => []TimedIffActive
<1>1. SchedulesInv => TimedIffActive
    BY DEF SchedulesInv, StoreInv, Timed, TimedIffActive
<1>2. QED
    BY <1>1, SchedulesInvariant, PTL

\* PreventOverlapping on any number of instances: while no execution outlives
\* DefaultLockTimeout, at most one Invoke() of a schedule is in progress,
\* whatever crashes, errors and recoveries there are.
THEOREM OverlapPrevented == Spec => []NoOverlap
<1>1. SchedulesInv => NoOverlap
    <2> SUFFICES ASSUME SchedulesInv, NEW d \in Run, NEW e \in Run, d # e,
                        Invoking(d), Invoking(e), exec[d].job = exec[e].job,
                        ~faults.lateLocks, exec[d].job \in Exclusive
                 PROVE  FALSE
        BY DEF NoOverlap
    <2>1. exec[d].job \in Schedule
        BY DEF Exclusive
    <2>2. Holds(d, exec[d].job) /\ Holds(e, exec[d].job)
        BY DEF Holds, Invoking, In
    <2>3. QED
        BY <2>1, <2>2 DEF SchedulesInv, HoldersInv
<1>2. QED
    BY <1>1, SchedulesInvariant, PTL

\* While heartbeats are in time, UpdateHistoryAsync and the recovery never
\* both settle a history entry.
THEOREM SettledOnce == Spec => SettledIsFinal
<1> USE PersistentSchedulesAssumption
<1> DEFINE Final == \A e \in DOMAIN rows \cap Run :
                       (rows[e].status # "Running" /\ ~faults.lateHeartbeats)
                          => rows'[e].status = rows[e].status
<1>1. SchedulesInv /\ [Next]_vars => Final
    <2> SUFFICES ASSUME SchedulesInv, [Next]_vars, NEW e \in DOMAIN rows \cap Run,
                        rows[e].status # "Running", ~faults.lateHeartbeats
                 PROVE  rows'[e].status = rows[e].status
        OBVIOUS
    <2> USE DEF SchedulesInv
    <2>1. ASSUME SettleSave(e), MayWrite(<<"exec", e>>, e)
          PROVE  FALSE
        <3>1. snap[<<"exec", e>>][e] = rows[e]
            BY <2>1, UpToDate
        <3>2. snap[<<"exec", e>>][e].status = "Running"
            BY <2>1 DEF SettleSave, MayWrite, EntriesInv
        <3>3. QED
            BY <3>1, <3>2
    <2>2. ASSUME NEW h \in Host, MayWrite(<<"recover", h>>, e)
          PROVE  FALSE
        <3>1. snap[<<"recover", h>>][e] = rows[e]
            BY <2>2, UpToDate
        <3>2. QED
            BY <2>2, <3>1 DEF ContextsTell, MayWrite
    <2>3. QED
        BY <2>1, <2>2, WhoWritesEntries DEF EntryWritten
<1>2. QED
    <2>1. SchedulesInv /\ [Next]_vars => [Final]_rows
        BY <1>1
    <2>2. QED
        BY <2>1, SchedulesInvariant, PTL DEF Spec, SettledIsFinal
=============================================================================
