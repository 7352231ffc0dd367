------------------------------ MODULE NextTimes ------------------------------
(***************************************************************************)
(* The three calculations that decide when something runs next, side by    *)
(* side: they share no state, and "subject" names the one that moves.      *)
(***************************************************************************)
EXTENDS ScheduleTimes, EventBuilder, Retries

VARIABLE subject

vars == <<schedule, builder, retries, subject>>

Init ==
    /\ InitSchedule /\ InitBuilder /\ InitRetries
    /\ subject \in {"schedule", "builder", "retries"}
    /\ subject # "schedule" => rule = (CHOOSE r \in Rules : TRUE) /\ zone = "utc"
    /\ subject # "builder" => expression = CHOOSE e \in Writable : TRUE
    /\ subject # "retries" => retryDelay = CHOOSE d \in BaseDelays : TRUE

Next ==
    /\ UNCHANGED subject
    /\ \/ subject = "schedule" /\ NextSchedule /\ UNCHANGED <<builder, retries>>
       \/ subject = "builder" /\ NextBuilder /\ UNCHANGED <<schedule, retries>>
       \/ subject = "retries" /\ JobFails /\ UNCHANGED <<schedule, builder>>

Spec == Init /\ [][Next]_vars
=============================================================================
