----------------------------- MODULE TaskQueue -----------------------------
(***************************************************************************)
(* The in-memory queue of Coravel (Queue) and its hosted service           *)
(* (QueuingHost).  Callers enqueue tasks; a timer signals the consuming    *)
(* loop, which takes all waiting tasks and runs them side by side; StopAsync *)
(* cancels the tokens of cancellable tasks and consumes the queue once     *)
(* more, beside the loop, before it waits for whatever still runs.         *)
(***************************************************************************)
EXTENDS Naturals, Sequences, SequencesExt

CONSTANTS
    Task,         \* ids of tasks
    Cancellable,  \* those queued by QueueCancellableInvocable
    Null,         \* what a failing TryDequeue returns
    MaxSignals    \* bound on the signals of the timer that are counted

ASSUME TaskQueueAssumption ==
    Cancellable \subseteq Task /\ Null \notin Task /\ MaxSignals \in Nat \ {0}

VARIABLES
    queue,      \* _tasks
    state,      \* state[t]: how far task t is
    tokens,     \* the keys of _tokens
    cancelled,  \* tasks whose token is cancelled
    disposed,   \* tasks whose token source is disposed
    consuming,  \* _queueIsConsuming
    consumer,   \* consumer[c]: the ConsumeQueueAsync in progress for c
    signals,    \* _signal
    loop,       \* the loop of QueuingHost
    stop,       \* StopAsync
    accepted,   \* tasks queued, and tokens registered, when StopAsync began
    throwing    \* does a listener or the error handler ever throw?

tasks == <<queue, state>>
cts == <<tokens, cancelled, disposed>>
service == <<signals, loop, stop, accepted, throwing>>
vars == <<tasks, cts, consuming, consumer, service>>

-----------------------------------------------------------------------------
\* The loop and StopAsync each run ConsumeQueueAsync.
Consumer == {"loop", "stop"}

\* "new" -> "waiting" -> "taken" -> "running" -> "done" or "failed".
TaskState == {"new", "waiting", "taken", "running", "done", "failed"}
Finished(t) == state[t] \in {"done", "failed"}

Phase == {"idle", "entering", "started", "peeking", "taking", "running", "cleaning"}
NotConsuming == [phase |-> "idle", batch |-> <<>>, seen |-> Null]

In(c, p) == consumer[c].phase = p
Batch(c) == ToSet(consumer[c].batch)
Move(c, p) == consumer' = [consumer EXCEPT ![c].phase = p]

Init ==
    /\ queue = <<>> /\ state = [t \in Task |-> "new"]
    /\ tokens = {} /\ cancelled = {} /\ disposed = {}
    /\ consuming = 0 /\ consumer = [c \in Consumer |-> NotConsuming]
    /\ signals = 1 /\ loop = "waiting"
    /\ stop = [phase |-> "no", visited |-> {}, at |-> Null]
    /\ accepted = [tasks |-> {}, tokens |-> {}]
    /\ throwing \in BOOLEAN

-----------------------------------------------------------------------------
(* Callers. *)

Enqueue(t) ==
    /\ state[t] = "new"
    /\ queue' = Append(queue, t)
    /\ state' = [state EXCEPT ![t] = "waiting"]
    /\ UNCHANGED <<cts, consuming, consumer, service>>

\* QueueCancellableInvocable registers the token of a task it has enqueued:
\* the task may have run by then.
Register(t) ==
    /\ t \in Cancellable /\ state[t] # "new" /\ t \notin tokens \cup disposed
    /\ tokens' = tokens \cup {t}
    /\ UNCHANGED <<tasks, cancelled, disposed, consuming, consumer, service>>

\* The caller cancels the source that QueueCancellableInvocable has returned.
CallerCancels(t) ==
    /\ t \in tokens \ cancelled
    /\ cancelled' = cancelled \cup {t}
    /\ UNCHANGED <<tasks, tokens, disposed, consuming, consumer, service>>

-----------------------------------------------------------------------------
(* ConsumeQueueAsync. *)

\* Interlocked.Increment, then QueueConsumationStarted is broadcast.
Enter(c) ==
    /\ In(c, "entering")
    /\ consuming' = consuming + 1
    /\ Move(c, "started")
    /\ UNCHANGED <<tasks, cts, service>>

StartDequeuing(c) ==
    /\ In(c, "started")
    /\ Move(c, "peeking")
    /\ UNCHANGED <<tasks, cts, consuming, service>>

\* DequeueAllTasks: TryPeek says whether there is a task, TryDequeue takes one
\* if it is still there.
Peek(c) ==
    /\ In(c, "peeking")
    /\ consumer' = [consumer EXCEPT
           ![c].phase = IF queue = <<>> THEN "running" ELSE "taking",
           ![c].seen = IF queue = <<>> THEN Null ELSE Head(queue)]
    /\ UNCHANGED <<tasks, cts, consuming, service>>

\* Mutant: the peeked task is taken for the dequeued one.
TakenPeeked(c) == consumer[c].seen

Taken(c) == IF queue = <<>> THEN Null ELSE Head(queue)

Take(c) ==
    /\ In(c, "taking")
    /\ queue' = IF queue = <<>> THEN queue ELSE Tail(queue)
    /\ state' = [t \in Task |-> IF t = Taken(c) THEN "taken" ELSE state[t]]
    /\ consumer' = [consumer EXCEPT ![c].phase = "peeking", ![c].seen = Null,
                                    ![c].batch = Append(@, Taken(c))]
    /\ UNCHANGED <<cts, consuming, service>>

\* The first task of the batch that is not invoked yet, if there is one.
NextTaken(c) ==
    LET batch == consumer[c].batch
        Untouched(i) == batch[i] # Null /\ state[batch[i]] = "taken"
    IN  {batch[i] : i \in {j \in DOMAIN batch :
                            Untouched(j) /\ \A k \in 1 .. j - 1 : ~Untouched(k)}}

\* InvokeTask, one task after the other up to its first await.
StartTask(c) ==
    /\ In(c, "running")
    /\ \E t \in NextTaken(c) : state' = [state EXCEPT ![t] = "running"]
    /\ UNCHANGED <<queue, cts, consuming, consumer, service>>

EndTask(c) ==
    /\ In(c, "running")
    /\ \E t \in Batch(c) \ {Null}, s \in {"done", "failed"} :
           /\ state[t] = "running"
           /\ state' = [state EXCEPT ![t] = s]
    /\ UNCHANGED <<queue, cts, consuming, consumer, service>>

AllEnded(c) == In(c, "running") /\ \A t \in Batch(c) \ {Null} : Finished(t)

\* Mutant: InvokeTask lets the exception of its task through.
FaultsWithTask(c) == Null \in Batch(c) \/ \E t \in Batch(c) \ {Null} : state[t] = "failed"

\* InvokeTask of a null task throws out of its catch block, where
\* DequeuedTaskFailed dereferences it.
Faults(c) == Null \in Batch(c)

\* Mutant: every token is cleaned.
CleanedAll(c) == tokens

\* CleanTokens.
Cleaned(c) == tokens \cap Batch(c)

CleanTokens(c) ==
    /\ AllEnded(c) /\ ~Faults(c)
    /\ tokens' = tokens \ Cleaned(c)
    /\ disposed' = disposed \cup Cleaned(c)
    /\ Move(c, "cleaning")
    /\ UNCHANGED <<tasks, cancelled, consuming, service>>

\* Mutant: the decrement is not in a finally block.
AfterThrowUndecremented == consuming

\* The finally block of ConsumeQueueAsync after an exception.
AfterThrow == consuming - 1

\* The loop goes on; StopAsync goes on to wait.
Leave(c) ==
    /\ In(c, "cleaning")
    /\ consuming' = consuming - 1
    /\ consumer' = [consumer EXCEPT ![c] = NotConsuming]
    /\ IF c = "loop" THEN loop' = "waiting" /\ UNCHANGED stop
                     ELSE stop' = [stop EXCEPT !.phase = "waiting"] /\ UNCHANGED loop
    /\ UNCHANGED <<tasks, cts, signals, accepted, throwing>>

\* A faulted task, a listener of the queue's events or the error handler makes
\* ConsumeQueueAsync throw: the loop is over for good, StopAsync throws.
Throw(c) ==
    /\ \/ AllEnded(c) /\ (Faults(c) \/ throwing)
       \/ throwing /\ (In(c, "started") \/ In(c, "cleaning"))
    /\ consuming' = AfterThrow
    /\ consumer' = [consumer EXCEPT ![c] = NotConsuming]
    /\ IF c = "loop" THEN loop' = "over" /\ UNCHANGED stop
                     ELSE stop' = [stop EXCEPT !.phase = "threw"] /\ UNCHANGED loop
    /\ UNCHANGED <<tasks, cts, signals, accepted, throwing>>

-----------------------------------------------------------------------------
(* QueuingHost. *)

Stopping == stop.phase # "no"

Tick ==
    /\ ~Stopping /\ signals < MaxSignals
    /\ signals' = signals + 1
    /\ UNCHANGED <<tasks, cts, consuming, consumer, loop, stop, accepted, throwing>>

LoopWakes ==
    /\ loop = "waiting" /\ ~Stopping /\ signals > 0
    /\ signals' = signals - 1
    /\ loop' = "consuming"
    /\ Move("loop", "entering")
    /\ UNCHANGED <<tasks, cts, consuming, stop, accepted, throwing>>

\* The while condition or WaitAsync observes the shutdown token.
LoopEnds ==
    /\ loop = "waiting" /\ Stopping
    /\ loop' = "over"
    /\ UNCHANGED <<tasks, cts, consuming, consumer, signals, stop, accepted, throwing>>

StopBegins ==
    /\ ~Stopping
    /\ stop' = [stop EXCEPT !.phase = "cancelling"]
    /\ accepted' = [tasks |-> {t \in Task : state[t] # "new"},
                    tokens |-> {t \in Cancellable : t \in tokens \cup disposed}]
    /\ UNCHANGED <<tasks, cts, consuming, consumer, signals, loop, throwing>>

\* CancelAllTokens reads the next entry of the dictionary, ...
StopVisits ==
    /\ stop.phase = "cancelling" /\ stop.at = Null
    /\ \E t \in tokens \ stop.visited :
           stop' = [stop EXCEPT !.at = t, !.visited = @ \cup {t}]
    /\ UNCHANGED <<tasks, cts, consuming, consumer, signals, loop, accepted, throwing>>

\* ... and cancels its token unless it is cancelled.  Cancel() throws when the
\* loop has disposed of the source meanwhile.
StopCancels ==
    /\ stop.phase = "cancelling" /\ stop.at # Null
    /\ IF stop.at \in disposed \ cancelled
       THEN /\ stop' = [stop EXCEPT !.phase = "threw", !.at = Null]
            /\ UNCHANGED cancelled
       ELSE /\ stop' = [stop EXCEPT !.at = Null]
            /\ cancelled' = cancelled \cup {stop.at}
    /\ UNCHANGED <<tasks, tokens, disposed, consuming, consumer, signals, loop, accepted,
                   throwing>>

\* The enumeration is over: it has shown every entry there was from the start
\* to the end, and perhaps some of those added meanwhile.
StopConsumes ==
    /\ stop.phase = "cancelling" /\ stop.at = Null
    /\ tokens \cap accepted.tokens \subseteq stop.visited
    /\ stop' = [stop EXCEPT !.phase = "consuming"]
    /\ Move("stop", "entering")
    /\ UNCHANGED <<tasks, cts, consuming, signals, loop, accepted, throwing>>

\* Mutant: StopAsync warns of a running consumption and does not wait for it.
StopReturnsAtOnce ==
    /\ stop.phase = "waiting"
    /\ stop' = [stop EXCEPT !.phase = "returned"]
    /\ UNCHANGED <<tasks, cts, consuming, consumer, signals, loop, accepted, throwing>>

\* IsRunning is false.
StopReturns ==
    /\ stop.phase = "waiting" /\ consuming = 0
    /\ stop' = [stop EXCEPT !.phase = "returned"]
    /\ UNCHANGED <<tasks, cts, consuming, consumer, signals, loop, accepted, throwing>>

-----------------------------------------------------------------------------
CallerStep(t) == Enqueue(t) \/ Register(t) \/ CallerCancels(t)

ConsumeStep(c) ==
    \/ Enter(c) \/ StartDequeuing(c) \/ Peek(c) \/ Take(c) \/ StartTask(c)
    \/ EndTask(c) \/ CleanTokens(c) \/ Leave(c) \/ Throw(c)

HostStep ==
    \/ LoopWakes \/ LoopEnds \/ StopVisits \/ StopCancels \/ StopConsumes \/ StopReturns

Next ==
    \/ \E t \in Task : CallerStep(t)
    \/ \E c \in Consumer : ConsumeStep(c)
    \/ HostStep \/ Tick \/ StopBegins

Spec == Init /\ [][Next]_vars

\* The timer fires, threads are scheduled and tasks end.
Fairness ==
    /\ WF_vars(Tick) /\ WF_vars(LoopWakes \/ LoopEnds)
    /\ WF_vars(StopVisits \/ StopCancels \/ StopConsumes \/ StopReturns)
    /\ \A c \in Consumer : WF_vars(ConsumeStep(c))

FairSpec == Spec /\ Fairness

-----------------------------------------------------------------------------
\* Every variable has its type, and _queueIsConsuming counts the consumptions
\* between their increment and their finally block.
TypeOK ==
    /\ queue \in Seq(Task) /\ state \in [Task -> TaskState]
    /\ tokens \subseteq Cancellable /\ disposed \subseteq Cancellable
    /\ cancelled \subseteq Cancellable
    /\ \A c \in Consumer : /\ consumer[c].phase \in Phase
                           /\ Batch(c) \subseteq Task \cup {Null}
    /\ consuming = Cardinality({c \in Consumer : ~In(c, "idle") /\ ~In(c, "entering")})
    /\ signals \in 0 .. MaxSignals /\ loop \in {"waiting", "consuming", "over"}
    /\ stop.phase \in {"no", "cancelling", "consuming", "waiting", "returned", "threw"}

\* How often t stands in a sequence.
Count(t, s) == Cardinality({i \in DOMAIN s : s[i] = t})

\* Two consumptions side by side never take the same task, and none is lost
\* between the queue and the batch of a consumption.
EachTaskInOnePlace ==
    \A t \in Task :
        LET places == Count(t, queue) + Count(t, consumer["loop"].batch)
                          + Count(t, consumer["stop"].batch) IN
        /\ places <= 1
        /\ state[t] = "waiting" => Count(t, queue) = 1
        /\ state[t] \in {"taken", "running"} => Count(t, queue) = 0 /\ places = 1

\* When StopAsync returns, every task queued before the shutdown has been
\* processed, whichever of the two consumptions took it.
ReturnedStopProcessedAll ==
    stop.phase = "returned" => \A t \in accepted.tasks : Finished(t)

\* CancelAllTokens: when StopAsync goes on to consume the queue, no token that
\* was registered before the shutdown is left uncancelled but those of tasks
\* that are finished.
ShutdownCancels ==
    stop.phase \in {"consuming", "waiting", "returned"} =>
        \A t \in accepted.tokens : t \in cancelled \/ Finished(t)

\* While listeners and the error handler do not throw, every task that waits
\* is processed, unless the host shuts down.
EveryTaskIsProcessed ==
    \A t \in Task :
        (state[t] = "waiting" /\ ~throwing) ~> (Finished(t) \/ Stopping)

\* StopAsync comes to an end: it never waits for a consumption that is gone.
StopEnds == Stopping ~> stop.phase \in {"returned", "threw"}

-----------------------------------------------------------------------------
\* README.md, "When your application goes down it won't allow the application
\* to shutdown until all items are processed", with handlers that behave.
ShutdownProcessesAll ==
    (~throwing /\ stop.phase \in {"returned", "threw"})
        => \A t \in accepted.tasks : Finished(t)
=============================================================================
