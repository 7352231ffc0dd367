----------------------- MODULE MCPersistentSchedules -----------------------
(* Instances of PersistentSchedules for TLC. *)
EXTENDS PersistentSchedules, TLC

NoFaults ==
    [lateLocks |-> FALSE, lateHeartbeats |-> FALSE, dbErrors |-> FALSE,
     stops |-> 0, crashes |-> 0, toggles |-> 0, beats |-> 0, overlap |-> {},
     timeless |-> {}]

\* Executions outlive their locks while an administrator toggles the schedule;
\* or database calls fail and an instance stops, with heartbeats; or the schedule
\* is toggled and its next occurrence may not be found.
RaceEnvironments ==
    {[NoFaults EXCEPT !.lateLocks = TRUE, !.toggles = 1],
     [NoFaults EXCEPT !.dbErrors = TRUE, !.stops = 1, !.beats = 50],
     [NoFaults EXCEPT !.toggles = 1, !.timeless = Schedule]}

\* An instance crashes; executions of the schedules may overlap or not.
CrashEnvironments ==
    {[NoFaults EXCEPT !.crashes = 1, !.overlap = S] : S \in {{}, Schedule}}

\* Processes and the ids of history entries that are yet to be drawn are
\* interchangeable.
ScheduleSymmetry == Permutations(Host) \cup Permutations(Run)

\* What the actions can tell apart: not the Version of a row, only whether a
\* context is still up to date and what it holds then.
Unversioned(r) == [r EXCEPT !.version = 0]

Context(a) ==
    IF Unchanged(a) THEN [id \in DOMAIN snap[a] |-> Unversioned(snap[a][id])]
    ELSE "outdated"

SchedulesView ==
    <<[id \in DOMAIN rows |-> Unversioned(rows[id])], [a \in Actor |-> Context(a)],
      host, todo, locking, tries, exec, due, expired, stale, faults>>
=============================================================================
