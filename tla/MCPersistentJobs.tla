-------------------------- MODULE MCPersistentJobs --------------------------
(* Instances of PersistentJobs for TLC. *)
EXTENDS PersistentJobs, TLC

NoFaults == [lateHeartbeats |-> FALSE, dbErrors |-> FALSE, stops |-> 0, crashes |-> 0]

\* Everything may go wrong; or not the heartbeats of the living; or not the
\* database either, only processes.
RaceEnvironments ==
    {[lateHeartbeats |-> late, dbErrors |-> late \/ db, stops |-> 1, crashes |-> 1] :
        late, db \in BOOLEAN}

CrashEnvironment == {[NoFaults EXCEPT !.crashes = 1]}
CalmEnvironment == {NoFaults}

\* Instances and permits are interchangeable: no action orders them.
HostSymmetry == Permutations(Host) \cup Permutations(Slot)

\* So are the clients and the ids of jobs that have yet to be drawn.
FullSymmetry == HostSymmetry \cup Permutations(Client) \cup Permutations(Job)

\* What the actions can tell apart: not the Version of a row, only whether a
\* context is still up to date, and nothing of a context that is not.
Unversioned(r) == [r EXCEPT !.version = 0]

Context(a) ==
    IF Unchanged(a) THEN DOMAIN snap[a] ELSE "outdated"

JobsView ==
    <<[j \in DOMAIN rows |-> Unversioned(rows[j])], [a \in Actor |-> Context(a)],
      host, tries, exec, enqueuing, stale, waiting, recent, faults>>
=============================================================================
