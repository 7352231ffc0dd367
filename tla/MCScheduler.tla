---------------------------- MODULE MCScheduler ----------------------------
(***************************************************************************)
(* An instance of Scheduler for TLC: an exclusive job every second that    *)
(* is scheduled at run time, and a job that runs at the start and once, at *)
(* the next minute.  The clock crosses a minute.                           *)
(***************************************************************************)
EXTENDS Scheduler, TLC

CONSTANTS beat, late

Jobs == {beat, late}
WorkerNames == (beat :> "a") @@ (late :> "a")
Seconds == (beat :> 1) @@ (late :> 0)
Minutes == (beat :> {0, 1}) @@ (late :> {1})
=============================================================================
