-------------------------- MODULE TaskQueue_proofs --------------------------
(***************************************************************************)
(* Proofs about TaskQueue, for any set of tasks and with listeners that    *)
(* throw or not.                                                           *)
(*                                                                         *)
(* The argument: a task that waits stands in the queue, once, and          *)
(* TryDequeue moves it into the batch of one consumption, which goes away  *)
(* only when its tasks are finished.  StopAsync has seen the queue empty   *)
(* after the last task it answers for was queued, and waits until no       *)
(* consumption holds a batch; and it has visited every token it answers    *)
(* for that the loop has not disposed of, which the loop does after the    *)
(* task only.                                                              *)
(***************************************************************************)
EXTENDS TaskQueue, FiniteSetTheorems, TLAPS

\* The types of TypeOK, and those of the parts it leaves out.
TypesInv ==
    /\ queue \in Seq(Task) /\ state \in [Task -> TaskState]
    /\ tokens \subseteq Cancellable /\ disposed \subseteq Cancellable
    /\ cancelled \subseteq Cancellable
    /\ consumer \in [Consumer -> [phase : Phase, batch : Seq(Task \cup {Null}),
                                  seen : Task \cup {Null}]]
    /\ signals \in 0 .. MaxSignals /\ loop \in {"waiting", "consuming", "over"}
    /\ stop \in [phase : {"no", "cancelling", "consuming", "waiting", "returned", "threw"},
                 visited : SUBSET Cancellable, at : Cancellable \cup {Null}]
    /\ accepted \in [tasks : SUBSET Task, tokens : SUBSET Cancellable]

\* Between its increment and its finally block.
Counted(c) == IF In(c, "idle") \/ In(c, "entering") THEN 0 ELSE 1

\* How consumptions, the loop and StopAsync go together.
PhasesInv ==
    /\ consuming = Counted("loop") + Counted("stop")
    /\ In("stop", "idle") <=> stop.phase # "consuming"
    /\ In("loop", "idle") <=> loop # "consuming"
    /\ \A c \in Consumer :
          /\ consumer[c].phase \in {"idle", "entering", "started"} => consumer[c].batch = <<>>
          /\ In(c, "cleaning") => \A t \in Batch(c) \ {Null} : Finished(t)

\* No task stands twice in s.
Distinct(s) == \A i, j \in DOMAIN s : s[i] = s[j] /\ s[i] # Null => i = j

\* Where the tasks are.
PlacesInv ==
    /\ Distinct(queue)
    /\ \A t \in Task : state[t] = "waiting" <=> t \in ToSet(queue)
    /\ \A c \in Consumer : Distinct(consumer[c].batch)
    /\ \A c \in Consumer : \A t \in Batch(c) \ {Null} : state[t] \notin {"new", "waiting"}
    /\ Batch("loop") \cap Batch("stop") \subseteq {Null}
    /\ \A t \in Task : state[t] \in {"taken", "running"} => \E c \in Consumer : t \in Batch(c)

\* What StopAsync has seen to.
ShutdownInv ==
    /\ \A t \in disposed : Finished(t)
    /\ \A t \in accepted.tasks : state[t] # "new"
    /\ accepted.tokens \subseteq tokens \cup disposed
    /\ stop.phase = "no" => accepted.tasks = {} /\ stop.visited = {} /\ stop.at = Null
    /\ stop.phase = "cancelling" => stop.visited \subseteq cancelled \cup {stop.at}
    /\ (\/ In("stop", "running") \/ In("stop", "cleaning")
        \/ stop.phase \in {"waiting", "returned"}) =>
          \A t \in accepted.tasks : state[t] # "waiting"

QueueInv ==
    /\ TypesInv /\ PhasesInv /\ PlacesInv /\ ShutdownInv
    /\ ReturnedStopProcessedAll /\ ShutdownCancels

-----------------------------------------------------------------------------
(* Sequences. *)

LEMMA AppendDistinct ==
    ASSUME NEW S, NEW s \in Seq(S), NEW x \in S, Distinct(s), x = Null \/ x \notin ToSet(s)
    PROVE  /\ Append(s, x) \in Seq(S) /\ Distinct(Append(s, x))
           /\ ToSet(Append(s, x)) = ToSet(s) \cup {x}
<1> DEFINE r == Append(s, x)
<1>1. /\ r \in Seq(S) /\ Len(s) \in Nat /\ DOMAIN s = 1 .. Len(s)
      /\ DOMAIN r = 1 .. Len(s) + 1
      /\ r[Len(s) + 1] = x /\ \A i \in 1 .. Len(s) : r[i] = s[i]
    OBVIOUS
<1> HIDE DEF r
<1>2. \A i \in 1 .. Len(s) + 1 : i \in 1 .. Len(s) \/ i = Len(s) + 1
    BY <1>1
<1>3. 1 .. Len(s) \subseteq 1 .. Len(s) + 1 /\ Len(s) + 1 \in 1 .. Len(s) + 1
    BY <1>1
<1>4. ToSet(r) = ToSet(s) \cup {x}
    BY <1>1, <1>2, <1>3 DEF ToSet
<1>5. Distinct(r)
    BY <1>1, <1>2 DEF Distinct, ToSet
<1>6. QED
    BY <1>1, <1>4, <1>5 DEF r

LEMMA TailDistinct ==
    ASSUME NEW S, NEW s \in Seq(S), Null \notin S, s # <<>>, Distinct(s)
    PROVE  /\ Tail(s) \in Seq(S) /\ Distinct(Tail(s)) /\ Head(s) \in S
           /\ ToSet(Tail(s)) = ToSet(s) \ {Head(s)} /\ Head(s) \in ToSet(s)
<1> DEFINE r == Tail(s)
           h == Head(s)
<1>1. /\ Len(s) \in Nat \ {0} /\ DOMAIN s = 1 .. Len(s) /\ \A i \in DOMAIN s : s[i] \in S
      /\ r \in Seq(S) /\ DOMAIN r = 1 .. Len(s) - 1 /\ h = s[1]
      /\ \A i \in 1 .. Len(s) - 1 : r[i] = s[i + 1]
    OBVIOUS
<1> HIDE DEF r, h
<1>2. 1 \in DOMAIN s /\ h \in S
    BY <1>1
<1>3. Distinct(r)
    <2>1. ASSUME NEW i \in DOMAIN r, NEW j \in DOMAIN r, r[i] = r[j], r[i] # Null
          PROVE  i = j
        <3>1. i + 1 \in DOMAIN s /\ j + 1 \in DOMAIN s /\ s[i + 1] = s[j + 1]
              /\ s[i + 1] # Null
            BY <1>1, <2>1
        <3>2. i + 1 = j + 1
            BY <3>1 DEF Distinct
        <3>3. QED
            BY <1>1, <2>1, <3>2
    <2>2. QED
        BY <2>1 DEF Distinct
<1>4. ASSUME NEW x
      PROVE  x \in ToSet(r) <=> x \in ToSet(s) \ {h}
    <2>1. ASSUME NEW i \in DOMAIN r, x = r[i]
          PROVE  x \in ToSet(s) \ {h}
        <3>1. i + 1 \in DOMAIN s /\ i + 1 # 1 /\ x = s[i + 1] /\ x # Null
            BY <1>1, <2>1
        <3>2. x # h
            BY <1>1, <1>2, <3>1 DEF Distinct
        <3>3. QED
            BY <3>1, <3>2 DEF ToSet
    <2>2. ASSUME NEW i \in DOMAIN s, x = s[i], x # h
          PROVE  x \in ToSet(r)
        <3>1. i - 1 \in DOMAIN r /\ (i - 1) + 1 = i
            BY <1>1, <2>2
        <3>2. r[i - 1] = x
            BY <1>1, <2>2, <3>1
        <3>3. QED
            BY <3>1, <3>2 DEF ToSet
    <2>3. QED
        BY <2>1, <2>2 DEF ToSet
<1>5. h \in ToSet(s)
    BY <1>1, <1>2 DEF ToSet
<1>6. QED
    BY <1>1, <1>2, <1>3, <1>4, <1>5 DEF r, h

\* How often a task stands in a sequence that holds it at most once.
LEMMA DistinctCount ==
    ASSUME NEW s, Distinct(s), NEW t, t # Null
    PROVE  Count(t, s) = IF t \in ToSet(s) THEN 1 ELSE 0
<1>1. CASE t \in ToSet(s)
    <2>1. PICK i \in DOMAIN s : s[i] = t
        BY <1>1 DEF ToSet
    <2>2. {j \in DOMAIN s : s[j] = t} = {i}
        BY <2>1 DEF Distinct
    <2>3. QED
        BY <1>1, <2>2, FS_Singleton DEF Count
<1>2. CASE t \notin ToSet(s)
    <2>1. {j \in DOMAIN s : s[j] = t} = {}
        BY <1>2 DEF ToSet
    <2>2. QED
        BY <1>2, <2>1, FS_EmptySet DEF Count
<1>3. QED
    BY <1>1, <1>2

-----------------------------------------------------------------------------
(* What the steps do to the consumptions. *)

ConsumerType == [phase : Phase, batch : Seq(Task \cup {Null}), seen : Task \cup {Null}]

\* Consumption c goes on in phase p with the batch b, and the other is left alone.
GoesOn(c, p, b) ==
    /\ consumer' \in [Consumer -> ConsumerType]
    /\ consumer'[c].phase = p /\ consumer'[c].batch = b
    /\ \A d \in Consumer \ {c} : consumer'[d] = consumer[d]

LEMMA Consumers ==
    /\ Consumer = {"loop", "stop"} /\ "loop" # "stop"
    /\ Phase = {"idle", "entering", "started", "peeking", "taking", "running", "cleaning"}
    /\ TaskState = {"new", "waiting", "taken", "running", "done", "failed"}
BY DEF Consumer, Phase, TaskState

LEMMA Moves ==
    ASSUME TypesInv, NEW c \in Consumer, NEW p \in Phase, Move(c, p)
    PROVE  GoesOn(c, p, consumer[c].batch)
<1>1. consumer \in [Consumer -> ConsumerType]
    BY DEF TypesInv, ConsumerType
<1> DEFINE x == [consumer[c] EXCEPT !.phase = p]
<1>2. x \in ConsumerType /\ x.phase = p /\ x.batch = consumer[c].batch
    BY <1>1 DEF ConsumerType
<1>3. consumer' = [consumer EXCEPT ![c] = x]
    BY DEF Move
<1> HIDE DEF x
<1>4. QED
    BY <1>1, <1>2, <1>3 DEF GoesOn

LEMMA Stops ==
    ASSUME TypesInv, NEW c \in Consumer, consumer' = [consumer EXCEPT ![c] = NotConsuming]
    PROVE  GoesOn(c, "idle", <<>>)
<1>1. consumer \in [Consumer -> ConsumerType]
    BY DEF TypesInv, ConsumerType
<1>2. NotConsuming \in ConsumerType /\ NotConsuming.phase = "idle" /\ NotConsuming.batch = <<>>
    BY DEF NotConsuming, ConsumerType, Phase
<1>3. QED
    BY <1>1, <1>2 DEF GoesOn

LEMMA Peeks ==
    ASSUME TypesInv, NEW c \in Consumer, Peek(c)
    PROVE  /\ queue = <<>> => GoesOn(c, "running", consumer[c].batch)
           /\ queue # <<>> => GoesOn(c, "taking", consumer[c].batch)
<1>1. consumer \in [Consumer -> ConsumerType] /\ queue \in Seq(Task)
    BY DEF TypesInv, ConsumerType
<1> DEFINE p == IF queue = <<>> THEN "running" ELSE "taking"
           n == IF queue = <<>> THEN Null ELSE Head(queue)
           x == [consumer[c] EXCEPT !.phase = p, !.seen = n]
<1>2. p \in Phase /\ n \in Task \cup {Null}
    BY <1>1 DEF Phase
<1> HIDE DEF p, n
<1>3. x \in ConsumerType /\ x.phase = p /\ x.batch = consumer[c].batch
    BY <1>1, <1>2 DEF ConsumerType
<1>4. consumer' = [consumer EXCEPT ![c] = x]
    BY DEF Peek, p, n
<1> HIDE DEF x
<1>5. GoesOn(c, p, consumer[c].batch)
    BY <1>1, <1>3, <1>4 DEF GoesOn
<1>6. QED
    BY <1>5 DEF p

LEMMA Takes ==
    ASSUME TypesInv, NEW c \in Consumer, Take(c)
    PROVE  /\ Taken(c) \in Task \cup {Null}
           /\ GoesOn(c, "peeking", Append(consumer[c].batch, Taken(c)))
<1>1. consumer \in [Consumer -> ConsumerType] /\ queue \in Seq(Task)
    BY DEF TypesInv, ConsumerType
<1>2. Taken(c) \in Task \cup {Null}
    BY <1>1 DEF Taken
<1> DEFINE b == Append(consumer[c].batch, Taken(c))
           x == [consumer[c] EXCEPT !.phase = "peeking", !.seen = Null, !.batch = b]
<1>3. b \in Seq(Task \cup {Null})
    BY <1>1, <1>2 DEF ConsumerType
<1>4. consumer' = [consumer EXCEPT ![c] = x]
    BY DEF Take
<1> HIDE DEF b
<1>5. x \in ConsumerType /\ x.phase = "peeking" /\ x.batch = b
    BY <1>1, <1>3 DEF ConsumerType, Phase
<1> HIDE DEF x
<1>6. GoesOn(c, "peeking", b)
    BY <1>1, <1>4, <1>5 DEF GoesOn
<1>7. QED
    BY <1>2, <1>6 DEF b

\* Tasks are enqueued, taken, started and ended, one at a time.
LEMMA StatesMove ==
    ASSUME TypesInv, [Next]_vars
    PROVE  /\ state' \in [Task -> TaskState]
           /\ \A t \in Task :
                 \/ state'[t] = state[t]
                 \/ Enqueue(t)
                 \/ \E c \in Consumer : \/ Take(c) /\ t = Taken(c) /\ state'[t] = "taken"
                                        \/ /\ state[t] = "taken" /\ state'[t] = "running"
                                           /\ queue' = queue /\ consumer' = consumer
                                        \/ /\ state[t] = "running" /\ Finished(t)'
                                           /\ queue' = queue /\ consumer' = consumer
<1>1. state \in [Task -> TaskState]
    BY DEF TypesInv
<1>2. CASE state' = state
    BY <1>1, <1>2
<1>3. ASSUME NEW t \in Task, Enqueue(t)
      PROVE  state' = [state EXCEPT ![t] = "waiting"]
    BY <1>3 DEF Enqueue
<1>4. CASE \E t \in Task : Enqueue(t)
    BY <1>1, <1>3, <1>4, Consumers
<1>5. ASSUME NEW c \in Consumer, Take(c)
      PROVE  state' = [t \in Task |-> IF t = Taken(c) THEN "taken" ELSE state[t]]
    BY <1>5 DEF Take
<1>6. CASE \E c \in Consumer : Take(c)
    BY <1>1, <1>5, <1>6, Consumers
<1>7. ASSUME NEW c \in Consumer, StartTask(c)
      PROVE  \E t \in Task : /\ state[t] = "taken" /\ queue' = queue /\ consumer' = consumer
                             /\ state' = [state EXCEPT ![t] = "running"]
    <2>1. consumer[c].batch \in Seq(Task \cup {Null})
        BY DEF TypesInv
    <2>2. \A t \in NextTaken(c) : t \in Task /\ state[t] = "taken"
        BY <2>1 DEF NextTaken
    <2>3. QED
        BY <1>7, <2>2 DEF StartTask
<1>8. ASSUME NEW c \in Consumer, EndTask(c)
      PROVE  \E t \in Task, s \in {"done", "failed"} :
                /\ state[t] = "running" /\ queue' = queue /\ consumer' = consumer
                /\ state' = [state EXCEPT ![t] = s]
    <2>1. Batch(c) \ {Null} \subseteq Task
        BY DEF TypesInv, Batch, ToSet
    <2>2. QED
        BY <1>8, <2>1 DEF EndTask
<1>9. CASE \E c \in Consumer : StartTask(c)
    BY <1>1, <1>7, <1>9, Consumers
<1>10. CASE \E c \in Consumer : EndTask(c)
    BY <1>1, <1>8, <1>10, Consumers DEF Finished
<1>11. QED
    BY <1>2, <1>4, <1>6, <1>9, <1>10
       DEF Next, CallerStep, Register, CallerCancels, ConsumeStep, Enter, StartDequeuing,
           Peek, CleanTokens, Leave, Throw, HostStep, LoopWakes, LoopEnds, StopVisits,
           StopCancels, StopConsumes, StopReturns, Tick, StopBegins, tasks, vars

\* Consumptions are left alone, or one of them takes a step.
LEMMA ConsumersMove ==
    ASSUME TypesInv, [Next]_vars
    PROVE  \/ /\ consumer' = consumer /\ consuming' = consuming
              /\ loop' # loop => loop = "waiting" /\ loop' = "over"
              /\ stop'.phase # stop.phase =>
                    stop.phase # "consuming" /\ stop'.phase # "consuming"
           \/ \E c \in Consumer :
                 \/ Enter(c) /\ GoesOn(c, "started", consumer[c].batch)
                 \/ StartDequeuing(c) /\ GoesOn(c, "peeking", consumer[c].batch)
                 \/ Peek(c) /\ queue = <<>> /\ GoesOn(c, "running", consumer[c].batch)
                 \/ Peek(c) /\ queue # <<>> /\ GoesOn(c, "taking", consumer[c].batch)
                 \/ Take(c) /\ GoesOn(c, "peeking", Append(consumer[c].batch, Taken(c)))
                 \/ CleanTokens(c) /\ GoesOn(c, "cleaning", consumer[c].batch)
                 \/ Leave(c) /\ GoesOn(c, "idle", <<>>)
                 \/ Throw(c) /\ GoesOn(c, "idle", <<>>)
           \/ LoopWakes /\ GoesOn("loop", "entering", consumer["loop"].batch)
           \/ StopConsumes /\ GoesOn("stop", "entering", consumer["stop"].batch)
<1>1. ASSUME NEW c \in Consumer, Enter(c)
      PROVE  GoesOn(c, "started", consumer[c].batch)
    BY <1>1, Moves, Consumers DEF Enter
<1>2. ASSUME NEW c \in Consumer, StartDequeuing(c)
      PROVE  GoesOn(c, "peeking", consumer[c].batch)
    BY <1>2, Moves, Consumers DEF StartDequeuing
<1>3. ASSUME NEW c \in Consumer, CleanTokens(c)
      PROVE  GoesOn(c, "cleaning", consumer[c].batch)
    BY <1>3, Moves, Consumers DEF CleanTokens
<1>4. ASSUME NEW c \in Consumer, Leave(c) \/ Throw(c)
      PROVE  GoesOn(c, "idle", <<>>)
    BY <1>4, Stops DEF Leave, Throw
<1>5. ASSUME LoopWakes
      PROVE  GoesOn("loop", "entering", consumer["loop"].batch)
    BY <1>5, Moves, Consumers DEF LoopWakes
<1>6. ASSUME StopConsumes
      PROVE  GoesOn("stop", "entering", consumer["stop"].batch)
    BY <1>6, Moves, Consumers DEF StopConsumes
<1>7. ASSUME NEW c \in Consumer, StartTask(c) \/ EndTask(c)
      PROVE  consumer' = consumer /\ UNCHANGED <<consuming, loop, stop>>
    BY <1>7 DEF StartTask, EndTask, service
<1>8. ASSUME NEW t \in Task, CallerStep(t)
      PROVE  consumer' = consumer /\ UNCHANGED <<consuming, loop, stop>>
    BY <1>8 DEF CallerStep, Enqueue, Register, CallerCancels, service
<1>9. ASSUME LoopEnds \/ StopVisits \/ StopCancels \/ StopReturns \/ Tick \/ StopBegins
      PROVE  /\ consumer' = consumer /\ consuming' = consuming
             /\ loop' # loop => loop = "waiting" /\ loop' = "over"
             /\ stop'.phase # stop.phase =>
                   stop.phase # "consuming" /\ stop'.phase # "consuming"
    BY <1>9 DEF LoopEnds, StopVisits, StopCancels, StopReturns, Tick, StopBegins, Stopping,
                TypesInv
<1>10. QED
    BY <1>1, <1>2, <1>3, <1>4, <1>5, <1>6, <1>7, <1>8, <1>9, Peeks, Takes
       DEF Next, ConsumeStep, HostStep, service, vars

LEMMA TypesInvStep ==
    ASSUME TaskQueueAssumption, TypesInv, [Next]_vars
    PROVE  TypesInv'
<1>1. state' \in [Task -> TaskState]
    BY StatesMove
<1>2. consumer' \in [Consumer -> ConsumerType]
    BY ConsumersMove DEF GoesOn, TypesInv, ConsumerType
<1>3. queue' \in Seq(Task)
    <2>1. queue \in Seq(Task)
        BY DEF TypesInv
    <2>2. ASSUME NEW t \in Task, Enqueue(t)
          PROVE  queue' \in Seq(Task)
        BY <2>1, <2>2 DEF Enqueue
    <2>3. ASSUME NEW c \in Consumer, Take(c)
          PROVE  queue' \in Seq(Task)
        BY <2>1, <2>3 DEF Take
    <2>4. QED
        BY <2>1, <2>2, <2>3
           DEF Next, CallerStep, Register, CallerCancels, ConsumeStep, Enter,
               StartDequeuing, Peek, StartTask, EndTask, CleanTokens, Leave, Throw,
               HostStep, LoopWakes, LoopEnds, StopVisits, StopCancels, StopConsumes,
               StopReturns, Tick, StopBegins, tasks, vars
<1>4. /\ tokens' \subseteq Cancellable /\ disposed' \subseteq Cancellable
      /\ cancelled' \subseteq Cancellable
    <2>1. /\ tokens \subseteq Cancellable /\ disposed \subseteq Cancellable
          /\ cancelled \subseteq Cancellable /\ stop.at \in Cancellable \cup {Null}
        BY DEF TypesInv
    <2>2. ASSUME NEW t \in Task, CallerStep(t)
          PROVE  /\ tokens' \subseteq Cancellable /\ disposed' \subseteq Cancellable
                 /\ cancelled' \subseteq Cancellable
        BY <2>1, <2>2 DEF CallerStep, Enqueue, Register, CallerCancels, cts
    <2>3. ASSUME NEW c \in Consumer, CleanTokens(c)
          PROVE  /\ tokens' \subseteq Cancellable /\ disposed' \subseteq Cancellable
                 /\ cancelled' \subseteq Cancellable
        BY <2>1, <2>3 DEF CleanTokens, Cleaned
    <2>4. CASE StopCancels
        BY <2>1, <2>4 DEF StopCancels
    <2>5. QED
        BY <2>1, <2>2, <2>3, <2>4
           DEF Next, ConsumeStep, Enter, StartDequeuing, Peek, Take, StartTask, EndTask,
               Leave, Throw, HostStep, LoopWakes, LoopEnds, StopVisits, StopConsumes,
               StopReturns, Tick, StopBegins, cts, vars
<1>5. signals' \in 0 .. MaxSignals /\ loop' \in {"waiting", "consuming", "over"}
    <2>1. signals \in 0 .. MaxSignals /\ loop \in {"waiting", "consuming", "over"}
          /\ MaxSignals \in Nat
        BY DEF TypesInv, TaskQueueAssumption
    <2>2. CASE Tick
        BY <2>1, <2>2 DEF Tick
    <2>3. CASE LoopWakes \/ LoopEnds
        BY <2>1, <2>3 DEF LoopWakes, LoopEnds
    <2>4. ASSUME NEW c \in Consumer, Leave(c) \/ Throw(c)
          PROVE  signals' = signals /\ loop' \in {loop, "waiting", "over"}
        BY <2>4 DEF Leave, Throw
    <2>5. QED
        BY <2>1, <2>2, <2>3, <2>4
           DEF Next, CallerStep, Enqueue, Register, CallerCancels, ConsumeStep, Enter,
               StartDequeuing, Peek, Take, StartTask, EndTask, CleanTokens, HostStep,
               StopVisits, StopCancels, StopConsumes, StopReturns, StopBegins, service,
               vars
<1>6. /\ stop' \in [phase : {"no", "cancelling", "consuming", "waiting", "returned", "threw"},
                    visited : SUBSET Cancellable, at : Cancellable \cup {Null}]
      /\ accepted' \in [tasks : SUBSET Task, tokens : SUBSET Cancellable]
    <2>1. /\ stop \in [phase : {"no", "cancelling", "consuming", "waiting", "returned",
                                "threw"},
                       visited : SUBSET Cancellable, at : Cancellable \cup {Null}]
          /\ accepted \in [tasks : SUBSET Task, tokens : SUBSET Cancellable]
          /\ tokens \subseteq Cancellable
        BY DEF TypesInv
    <2>2. ASSUME NEW c \in Consumer, Leave(c) \/ Throw(c)
          PROVE  /\ stop' = stop \/ stop' = [stop EXCEPT !.phase = "waiting"]
                                 \/ stop' = [stop EXCEPT !.phase = "threw"]
                 /\ accepted' = accepted
        BY <2>2 DEF Leave, Throw
    <2>3. CASE StopBegins \/ StopConsumes \/ StopReturns
        BY <2>1, <2>3 DEF StopBegins, StopConsumes, StopReturns
    <2>4. CASE StopVisits
        <3>1. PICK t \in tokens \ stop.visited :
                 stop' = [stop EXCEPT !.at = t, !.visited = @ \cup {t}]
            BY <2>4 DEF StopVisits
        <3>2. t \in Cancellable /\ stop.visited \cup {t} \in SUBSET Cancellable
            BY <2>1, <3>1
        <3>3. accepted' = accepted
            BY <2>4 DEF StopVisits
        <3>4. QED
            BY <2>1, <3>1, <3>2, <3>3
    <2>5. CASE StopCancels
        BY <2>1, <2>5 DEF StopCancels
    <2>6. CASE \E c \in Consumer : Leave(c) \/ Throw(c)
        BY <2>1, <2>2, <2>6
    <2>7. QED
        BY <2>1, <2>3, <2>4, <2>5, <2>6
           DEF Next, CallerStep, Enqueue, Register, CallerCancels, ConsumeStep, Enter,
               StartDequeuing, Peek, Take, StartTask, EndTask, CleanTokens, HostStep,
               LoopWakes, LoopEnds, Tick, service, vars
<1>7. QED
    BY <1>1, <1>2, <1>3, <1>4, <1>5, <1>6 DEF TypesInv, ConsumerType

\* A task that has ended has ended for good.
LEMMA FinishedStays ==
    ASSUME TaskQueueAssumption, TypesInv, PlacesInv, [Next]_vars, NEW t \in Task, Finished(t)
    PROVE  Finished(t)'
<1>1. ASSUME Enqueue(t)
      PROVE  FALSE
    BY <1>1 DEF Enqueue, Finished
<1>2. ASSUME NEW c \in Consumer, t = Taken(c)
      PROVE  FALSE
    <2>1. queue \in Seq(Task) /\ Distinct(queue) /\ Null \notin Task
        BY DEF TypesInv, PlacesInv, TaskQueueAssumption
    <2>2. t \in ToSet(queue)
        BY <1>2, <2>1, TailDistinct DEF Taken
    <2>3. QED
        BY <2>2 DEF PlacesInv, Finished
<1>3. QED
    BY <1>1, <1>2, StatesMove DEF Finished

LEMMA PhasesInvStep ==
    ASSUME TaskQueueAssumption, TypesInv, PlacesInv, PhasesInv, [Next]_vars
    PROVE  PhasesInv'
<1>1. /\ consuming = Counted("loop") + Counted("stop")
      /\ In("stop", "idle") <=> stop.phase # "consuming"
      /\ In("loop", "idle") <=> loop # "consuming"
      /\ \A c \in Consumer :
            consumer[c].phase \in {"idle", "entering", "started"} => consumer[c].batch = <<>>
    BY DEF PhasesInv
<1>2. \A c \in Consumer : Counted(c) \in {0, 1}
    BY DEF Counted
<1>3. Counted("loop") \in {0, 1} /\ Counted("stop") \in {0, 1}
    BY <1>2, Consumers
<1>4. /\ consuming' = Counted("loop")' + Counted("stop")'
      /\ (In("stop", "idle") <=> stop.phase # "consuming")'
      /\ (In("loop", "idle") <=> loop # "consuming")'
      /\ \A c \in Consumer : consumer'[c].phase \in {"idle", "entering", "started"} =>
            consumer'[c].batch = <<>>
    <2>1. CASE /\ consumer' = consumer /\ consuming' = consuming
               /\ loop' # loop => loop = "waiting" /\ loop' = "over"
               /\ stop'.phase # stop.phase =>
                     stop.phase # "consuming" /\ stop'.phase # "consuming"
        BY <1>1, <2>1 DEF Counted, In
    <2>2. ASSUME NEW c \in Consumer, Enter(c), GoesOn(c, "started", consumer[c].batch)
          PROVE  <1>4!1 /\ <1>4!2 /\ <1>4!3 /\ <1>4!4
        <3>1. consuming' = consuming + 1 /\ In(c, "entering") /\ UNCHANGED <<loop, stop>>
            BY <2>2 DEF Enter, service
        <3>2. QED
            BY <1>1, <1>3, <2>2, <3>1, Consumers DEF GoesOn, Counted, In
    <2>3. ASSUME NEW c \in Consumer, NEW p \in {"peeking", "taking", "running", "cleaning"},
                 NEW b, GoesOn(c, p, b), UNCHANGED <<consuming, loop, stop>>,
                 ~In(c, "idle"), ~In(c, "entering")
          PROVE  <1>4!1 /\ <1>4!2 /\ <1>4!3 /\ <1>4!4
        BY <1>1, <1>3, <2>3, Consumers DEF GoesOn, Counted, In
    <2>4. ASSUME NEW c \in Consumer, StartDequeuing(c) \/ Peek(c) \/ Take(c) \/ CleanTokens(c)
          PROVE  UNCHANGED <<consuming, loop, stop>> /\ ~In(c, "idle") /\ ~In(c, "entering")
        BY <2>4 DEF StartDequeuing, Peek, Take, CleanTokens, AllEnded, In, service
    <2>5. ASSUME NEW c \in Consumer, Leave(c) \/ Throw(c), GoesOn(c, "idle", <<>>)
          PROVE  <1>4!1 /\ <1>4!2 /\ <1>4!3 /\ <1>4!4
        <3>1. /\ consuming' = consuming - 1 /\ ~In(c, "idle") /\ ~In(c, "entering")
            BY <2>5 DEF Leave, Throw, AfterThrow, AllEnded, In
        <3>2. /\ c = "loop" => loop' # "consuming" /\ stop' = stop
              /\ c = "stop" => stop'.phase # "consuming" /\ loop' = loop
            BY <2>5, Consumers DEF Leave, Throw, TypesInv
        <3>3. QED
            BY <1>1, <1>3, <2>5, <3>1, <3>2, Consumers DEF GoesOn, Counted, In
    <2>6. ASSUME LoopWakes, GoesOn("loop", "entering", consumer["loop"].batch)
          PROVE  <1>4!1 /\ <1>4!2 /\ <1>4!3 /\ <1>4!4
        <3>1. /\ UNCHANGED <<consuming, stop>> /\ loop = "waiting" /\ loop' = "consuming"
            BY <2>6 DEF LoopWakes
        <3>2. QED
            BY <1>1, <1>3, <2>6, <3>1, Consumers DEF GoesOn, Counted, In
    <2>7. ASSUME StopConsumes, GoesOn("stop", "entering", consumer["stop"].batch)
          PROVE  <1>4!1 /\ <1>4!2 /\ <1>4!3 /\ <1>4!4
        <3>1. /\ UNCHANGED <<consuming, loop>> /\ stop.phase = "cancelling"
              /\ stop'.phase = "consuming"
            BY <2>7 DEF StopConsumes, TypesInv
        <3>2. QED
            BY <1>1, <1>3, <2>7, <3>1, Consumers DEF GoesOn, Counted, In
    <2>8. QED
        BY <2>1, <2>2, <2>3, <2>4, <2>5, <2>6, <2>7, ConsumersMove
<1>5. ASSUME NEW c \in Consumer, In(c, "cleaning")', NEW t \in Batch(c)' \ {Null}
      PROVE  Finished(t)'
    <2>1. consumer[c].batch \in Seq(Task \cup {Null})
        BY DEF TypesInv
    <2>2. Batch(c)' = Batch(c) /\ (In(c, "cleaning") \/ CleanTokens(c))
        BY <1>5, ConsumersMove, Consumers DEF GoesOn, In, Batch
    <2>3. Finished(t)
        BY <1>5, <2>2 DEF PhasesInv, CleanTokens, AllEnded
    <2>4. t \in Task
        <3>1. Batch(c) \subseteq Task \cup {Null}
            BY <2>1 DEF Batch, ToSet
        <3>2. QED
            BY <1>5, <2>2, <3>1
    <2>5. QED
        BY <2>3, <2>4, FinishedStays
<1>6. QED
    BY <1>4, <1>5 DEF PhasesInv

\* The tasks of a batch.
LEMMA Batches ==
    ASSUME TypesInv, NEW c \in Consumer
    PROVE  consumer[c].batch \in Seq(Task \cup {Null}) /\ Batch(c) \subseteq Task \cup {Null}
BY DEF TypesInv, Batch, ToSet

\* What becomes of the queue.
LEMMA QueueMoves ==
    ASSUME [Next]_vars
    PROVE  \/ queue' = queue
           \/ \E t \in Task : Enqueue(t)
           \/ \E c \in Consumer : Take(c) /\ queue # <<>>
<1>1. ASSUME NEW c \in Consumer, Take(c), queue = <<>>
      PROVE  queue' = queue
    BY <1>1 DEF Take
<1>2. QED
    BY <1>1
       DEF Next, CallerStep, Register, CallerCancels, ConsumeStep, Enter, StartDequeuing,
           Peek, StartTask, EndTask, CleanTokens, Leave, Throw, HostStep, LoopWakes,
           LoopEnds, StopVisits, StopCancels, StopConsumes, StopReturns, Tick, StopBegins,
           tasks, vars

\* TryDequeue: the first task goes from the queue into the batch, if there is one.
LEMMA TakePlaces ==
    ASSUME TaskQueueAssumption, TypesInv, PhasesInv, PlacesInv, NEW c \in Consumer, Take(c)
    PROVE  PlacesInv'
<1> DEFINE x == Taken(c)
           b == consumer[c].batch
<1>1. /\ Null \notin Task /\ queue \in Seq(Task) /\ state \in [Task -> TaskState]
      /\ Distinct(queue) /\ Distinct(b)
      /\ \A t \in Task : state[t] = "waiting" <=> t \in ToSet(queue)
      /\ b \in Seq(Task \cup {Null})
    BY DEF TypesInv, PlacesInv, TaskQueueAssumption
<1>2. /\ queue' = IF queue = <<>> THEN queue ELSE Tail(queue)
      /\ \A t \in Task : state'[t] = IF t = x THEN "taken" ELSE state[t]
    BY DEF Take
<1>3. /\ x \in Task \cup {Null} /\ (x # Null => state[x] = "waiting")
      /\ Distinct(queue') /\ \A t : t \in ToSet(queue') <=> t \in ToSet(queue) /\ t # x
    <2>1. CASE queue = <<>>
        BY <1>1, <1>2, <2>1 DEF Taken, ToSet
    <2>2. CASE queue # <<>>
        BY <1>1, <1>2, <2>2, TailDistinct DEF Taken
    <2>3. QED
        BY <2>1, <2>2
<1>4. GoesOn(c, "peeking", Append(b, x))
    BY Takes
<1>5. x # Null => \A d \in Consumer : x \notin Batch(d)
    BY <1>3 DEF PlacesInv
<1>6. /\ Distinct(consumer'[c].batch) /\ Batch(c)' = Batch(c) \cup {x}
    <2>1. x = Null \/ x \notin ToSet(b)
        BY <1>5 DEF Batch
    <2>2. Distinct(Append(b, x)) /\ ToSet(Append(b, x)) = ToSet(b) \cup {x}
        BY <1>1, <1>3, <2>1, AppendDistinct
    <2>3. QED
        BY <1>4, <2>2 DEF GoesOn, Batch
<1>7. \A d \in Consumer \ {c} : consumer'[d] = consumer[d] /\ Batch(d)' = Batch(d)
    BY <1>4 DEF GoesOn, Batch
<1> HIDE DEF x, b
<1>8. \A t \in Task : (state'[t] = "waiting") <=> t \in ToSet(queue')
    BY <1>1, <1>2, <1>3
<1>9. \A d \in Consumer : Distinct(consumer'[d].batch)
    BY <1>6, <1>7 DEF PlacesInv
<1>10. ASSUME NEW d \in Consumer, NEW t \in Batch(d)' \ {Null}
       PROVE  state'[t] \notin {"new", "waiting"}
    <2>1. Batch(d)' \subseteq Batch(d) \cup {x}
        BY <1>6, <1>7
    <2>2. t \in Task /\ (t = x \/ state[t] \notin {"new", "waiting"})
        BY <1>3, <1>10, <2>1, Batches DEF PlacesInv
    <2>3. QED
        BY <1>2, <2>2
<1>11. Batch("loop")' \cap Batch("stop")' \subseteq {Null}
    <2>1. Batch("loop") \cap Batch("stop") \subseteq {Null}
        BY DEF PlacesInv
    <2>2. CASE c = "loop"
        BY <1>5, <1>6, <1>7, <2>1, <2>2, Consumers
    <2>3. CASE c = "stop"
        BY <1>5, <1>6, <1>7, <2>1, <2>3, Consumers
    <2>4. QED
        BY <2>2, <2>3, Consumers
<1>12. ASSUME NEW t \in Task, state'[t] \in {"taken", "running"}
       PROVE  \E d \in Consumer : t \in Batch(d)'
    <2>1. CASE t = x
        BY <1>6, <2>1
    <2>2. CASE t # x
        <3>1. PICK d \in Consumer : t \in Batch(d)
            BY <1>2, <1>12, <2>2 DEF PlacesInv
        <3>2. t \in Batch(d)'
            BY <1>6, <1>7, <3>1
        <3>3. QED
            BY <3>2
    <2>3. QED
        BY <2>1, <2>2
<1>13. QED
    BY <1>3, <1>8, <1>9, <1>10, <1>11, <1>12 DEF PlacesInv

LEMMA EnqueuePlaces ==
    ASSUME TaskQueueAssumption, TypesInv, PlacesInv, NEW t \in Task, Enqueue(t)
    PROVE  PlacesInv'
<1>1. /\ queue' = Append(queue, t) /\ state[t] = "new" /\ consumer' = consumer
      /\ state' = [state EXCEPT ![t] = "waiting"] /\ state \in [Task -> TaskState]
      /\ queue \in Seq(Task) /\ Distinct(queue)
      /\ \A u \in Task : state[u] = "waiting" <=> u \in ToSet(queue)
    BY DEF Enqueue, TypesInv, PlacesInv
<1>2. Distinct(queue') /\ ToSet(queue') = ToSet(queue) \cup {t}
    BY <1>1, AppendDistinct
<1>3. \A u \in Task : state'[u] = IF u = t THEN "waiting" ELSE state[u]
    BY <1>1
<1>4. \A u \in Task : state'[u] = "waiting" <=> u \in ToSet(queue')
    BY <1>1, <1>2, <1>3
<1>5. \A c \in Consumer : Batch(c)' = Batch(c)
    BY <1>1 DEF Batch
<1>6. \A c \in Consumer : \A u \in Batch(c) \ {Null} : state'[u] \notin {"new", "waiting"}
    BY <1>1, <1>3, Batches DEF PlacesInv
<1>7. \A u \in Task : state'[u] \in {"taken", "running"} => \E c \in Consumer : u \in Batch(c)
    BY <1>3 DEF PlacesInv
<1>8. Batch("loop")' \cap Batch("stop")' \subseteq {Null}
    BY <1>5, Consumers DEF PlacesInv
<1>9. \A c \in Consumer : Distinct(consumer'[c].batch)
    BY <1>1 DEF PlacesInv
<1>10. QED
    BY <1>2, <1>4, <1>5, <1>6, <1>7, <1>8, <1>9 DEF PlacesInv

\* Every other step leaves the tasks where they are, but for the batch of a
\* consumption that is over, whose tasks are finished.
LEMMA OthersPlace ==
    ASSUME TaskQueueAssumption, TypesInv, PhasesInv, PlacesInv, [Next]_vars,
           \A t \in Task : ~Enqueue(t), \A c \in Consumer : ~Take(c)
    PROVE  PlacesInv'
<1>1. queue' = queue
    BY QueueMoves
<1>2. \A t \in Task : \/ state'[t] = state[t]
                      \/ state[t] = "taken" /\ state'[t] = "running"
                      \/ state[t] = "running" /\ state'[t] \in {"done", "failed"}
    BY StatesMove DEF Finished
<1>3. ASSUME NEW c \in Consumer
      PROVE  \/ consumer'[c].batch = consumer[c].batch
             \/ consumer'[c].batch = <<>> /\ \A t \in Batch(c) \ {Null} : Finished(t)
    <2>1. ASSUME Leave(c) \/ Throw(c)
          PROVE  \A t \in Batch(c) \ {Null} : Finished(t)
        <3>1. CASE In(c, "started")
            <4>1. consumer[c].batch = <<>>
                BY <3>1 DEF PhasesInv, In
            <4>2. QED
                BY <4>1 DEF Batch, ToSet
        <3>2. CASE In(c, "cleaning") \/ AllEnded(c)
            BY <3>2 DEF PhasesInv, AllEnded
        <3>3. QED
            BY <2>1, <3>1, <3>2 DEF Leave, Throw
    <2>2. QED
        BY <2>1, ConsumersMove, Consumers DEF GoesOn
<1>4. \A c \in Consumer : Batch(c)' \subseteq Batch(c) /\ Distinct(consumer'[c].batch)
    <2>1. Distinct(<<>>) /\ ToSet(<<>>) = {}
        BY DEF Distinct, ToSet
    <2>2. \A c \in Consumer : Distinct(consumer[c].batch)
        BY DEF PlacesInv
    <2>3. QED
        BY <1>3, <2>1, <2>2 DEF Batch
<1>5. \A t \in Task : state'[t] = "waiting" <=> t \in ToSet(queue')
    BY <1>1, <1>2 DEF PlacesInv
<1>6. \A c \in Consumer : \A t \in Batch(c)' \ {Null} : state'[t] \notin {"new", "waiting"}
    BY <1>2, <1>4, Batches DEF PlacesInv
<1>7. ASSUME NEW t \in Task, state'[t] \in {"taken", "running"}
      PROVE  \E c \in Consumer : t \in Batch(c)'
    <2>1. state[t] \in {"taken", "running"} /\ t # Null
        BY <1>2, <1>7 DEF TaskQueueAssumption
    <2>2. PICK c \in Consumer : t \in Batch(c)
        BY <2>1 DEF PlacesInv
    <2>3. ~Finished(t)
        BY <2>1 DEF Finished
    <2>4. consumer'[c].batch = consumer[c].batch
        BY <1>3, <2>1, <2>2, <2>3
    <2>5. t \in Batch(c)'
        BY <2>2, <2>4 DEF Batch
    <2>6. QED
        BY <2>5
<1>8. Batch("loop")' \cap Batch("stop")' \subseteq {Null}
    BY <1>4, Consumers DEF PlacesInv
<1>9. Distinct(queue)'
    BY <1>1 DEF PlacesInv
<1>10. QED
    BY <1>4, <1>5, <1>6, <1>7, <1>8, <1>9 DEF PlacesInv

LEMMA PlacesInvStep ==
    ASSUME TaskQueueAssumption, TypesInv, PhasesInv, PlacesInv, [Next]_vars
    PROVE  PlacesInv'
BY EnqueuePlaces, TakePlaces, OthersPlace

-----------------------------------------------------------------------------
(* The shutdown. *)

\* A task that is not new any more never is again, and only Enqueue makes one wait.
LEMMA StatesAdvance ==
    ASSUME TypesInv, [Next]_vars, NEW t \in Task, state[t] # "new"
    PROVE  state'[t] # "new" /\ (state'[t] = "waiting" => state[t] = "waiting")
<1>1. ~Enqueue(t)
    BY DEF Enqueue
<1>2. QED
    BY <1>1, StatesMove DEF Finished

\* What becomes of the tokens, and of what StopAsync has noted.
LEMMA TokensMove ==
    ASSUME [Next]_vars
    PROVE  /\ tokens \cup disposed \subseteq tokens' \cup disposed'
           /\ cancelled \subseteq cancelled'
           /\ accepted' = accepted \/ StopBegins
           /\ \A t \in disposed' \ disposed : \E c \in Consumer : CleanTokens(c) /\ t \in Batch(c)
<1>1. ASSUME NEW c \in Consumer, CleanTokens(c)
      PROVE  /\ tokens \cup disposed \subseteq tokens' \cup disposed'
             /\ cancelled' = cancelled /\ accepted' = accepted
             /\ disposed' \subseteq disposed \cup Batch(c)
    BY <1>1 DEF CleanTokens, Cleaned, service
<1>2. ASSUME NEW t \in Task, CallerStep(t)
      PROVE  /\ tokens \subseteq tokens' /\ disposed' = disposed
             /\ cancelled \subseteq cancelled' /\ accepted' = accepted
    BY <1>2 DEF CallerStep, Enqueue, Register, CallerCancels, cts, service
<1>3. ASSUME StopCancels
      PROVE  UNCHANGED <<tokens, disposed, accepted>> /\ cancelled \subseteq cancelled'
    BY <1>3 DEF StopCancels
<1>4. ASSUME NEW c \in Consumer, \/ Enter(c) \/ StartDequeuing(c) \/ Peek(c) \/ Take(c)
                                 \/ StartTask(c) \/ EndTask(c) \/ Leave(c) \/ Throw(c)
      PROVE  UNCHANGED <<tokens, disposed, cancelled, accepted>>
    BY <1>4 DEF Enter, StartDequeuing, Peek, Take, StartTask, EndTask, Leave, Throw, cts,
                service
<1>5. ASSUME \/ LoopWakes \/ LoopEnds \/ StopVisits \/ StopConsumes \/ StopReturns \/ Tick
             \/ UNCHANGED vars
      PROVE  UNCHANGED <<tokens, disposed, cancelled, accepted>>
    BY <1>5 DEF LoopWakes, LoopEnds, StopVisits, StopConsumes, StopReturns, Tick, cts,
                service, vars
<1>6. ASSUME StopBegins
      PROVE  UNCHANGED <<tokens, disposed, cancelled>>
    BY <1>6 DEF StopBegins, cts
<1>7. QED
    BY <1>1, <1>2, <1>3, <1>4, <1>5, <1>6 DEF Next, ConsumeStep, HostStep

\* What becomes of StopAsync.
LEMMA StopMoves ==
    ASSUME TypesInv, PhasesInv, [Next]_vars
    PROVE  \/ stop' = stop
           \/ /\ StopBegins /\ stop.phase = "no" /\ stop'.phase = "cancelling"
              /\ stop'.visited = stop.visited /\ stop'.at = stop.at
           \/ /\ StopVisits /\ stop.phase = "cancelling" /\ stop'.phase = "cancelling"
              /\ stop.at = Null /\ stop'.visited = stop.visited \cup {stop'.at}
           \/ /\ StopCancels /\ stop.phase = "cancelling"
              /\ \/ stop'.phase = "threw"
                 \/ /\ stop'.phase = "cancelling" /\ stop'.at = Null
                    /\ stop'.visited = stop.visited /\ stop.at \in cancelled'
           \/ StopConsumes /\ stop.phase = "cancelling" /\ stop'.phase = "consuming"
           \/ Leave("stop") /\ stop.phase = "consuming" /\ stop'.phase = "waiting"
           \/ Throw("stop") /\ stop.phase = "consuming" /\ stop'.phase = "threw"
           \/ StopReturns /\ stop.phase = "waiting" /\ stop'.phase = "returned"
<1>1. stop \in [phase : {"no", "cancelling", "consuming", "waiting", "returned", "threw"},
                visited : SUBSET Cancellable, at : Cancellable \cup {Null}]
    BY DEF TypesInv
<1>2. ASSUME NEW c \in Consumer, Leave(c) \/ Throw(c), stop' # stop
      PROVE  \/ Leave("stop") /\ stop.phase = "consuming" /\ stop'.phase = "waiting"
             \/ Throw("stop") /\ stop.phase = "consuming" /\ stop'.phase = "threw"
    <2>1. c = "stop"
        BY <1>2, Consumers DEF Leave, Throw
    <2>2. stop.phase = "consuming"
        BY <1>2, <2>1 DEF Leave, Throw, AllEnded, In, PhasesInv
    <2>3. \/ Leave("stop") /\ stop'.phase = "waiting"
          \/ Throw("stop") /\ stop'.phase = "threw"
        BY <1>1, <1>2, <2>1, Consumers DEF Leave, Throw
    <2>4. QED
        BY <2>2, <2>3
<1>3. ASSUME StopBegins
      PROVE  /\ stop.phase = "no" /\ stop'.phase = "cancelling"
             /\ stop'.visited = stop.visited /\ stop'.at = stop.at
    BY <1>1, <1>3 DEF StopBegins, Stopping
<1>4. ASSUME StopVisits
      PROVE  /\ stop.phase = "cancelling" /\ stop'.phase = "cancelling"
             /\ stop.at = Null /\ stop'.visited = stop.visited \cup {stop'.at}
    BY <1>1, <1>4 DEF StopVisits
<1>5. ASSUME StopCancels
      PROVE  /\ stop.phase = "cancelling"
             /\ \/ stop'.phase = "threw"
                \/ /\ stop'.phase = "cancelling" /\ stop'.at = Null
                   /\ stop'.visited = stop.visited /\ stop.at \in cancelled'
    BY <1>1, <1>5 DEF StopCancels
<1>6. ASSUME StopConsumes
      PROVE  stop.phase = "cancelling" /\ stop'.phase = "consuming"
    BY <1>1, <1>6 DEF StopConsumes
<1>7. ASSUME StopReturns
      PROVE  stop.phase = "waiting" /\ stop'.phase = "returned"
    BY <1>1, <1>7 DEF StopReturns
<1>8. ASSUME NEW c \in Consumer, \/ Enter(c) \/ StartDequeuing(c) \/ Peek(c) \/ Take(c)
                                 \/ StartTask(c) \/ EndTask(c) \/ CleanTokens(c)
      PROVE  stop' = stop
    BY <1>8 DEF Enter, StartDequeuing, Peek, Take, StartTask, EndTask, CleanTokens, service
<1>9. ASSUME \/ \E t \in Task : CallerStep(t)
             \/ LoopWakes \/ LoopEnds \/ Tick \/ UNCHANGED vars
      PROVE  stop' = stop
    BY <1>9 DEF CallerStep, Enqueue, Register, CallerCancels, LoopWakes, LoopEnds, Tick,
                service, vars
<1>10. QED
    BY <1>2, <1>3, <1>4, <1>5, <1>6, <1>7, <1>8, <1>9 DEF Next, ConsumeStep, HostStep

\* When StopAsync has seen the queue empty, no task it answers for waits.
LEMMA StopHasSeen ==
    ASSUME TaskQueueAssumption, TypesInv, PhasesInv, PlacesInv, ShutdownInv, [Next]_vars,
           \/ In("stop", "running")' \/ In("stop", "cleaning")'
           \/ stop'.phase \in {"waiting", "returned"},
           NEW t \in accepted'.tasks
    PROVE  state'[t] # "waiting"
<1> DEFINE Seen == \/ In("stop", "running") \/ In("stop", "cleaning")
                   \/ stop.phase \in {"waiting", "returned"}
<1>1. "stop" \in Consumer
    BY Consumers
<1>2. accepted.tasks \subseteq Task
    BY DEF TypesInv
<1>3. CASE Seen
    <2>1. stop.phase # "no"
        BY <1>3 DEF In, PhasesInv
    <2>2. accepted' = accepted
        BY <2>1, TokensMove DEF StopBegins, Stopping
    <2>3. t \in Task /\ state[t] # "new" /\ state[t] # "waiting"
        BY <1>2, <1>3, <2>2 DEF ShutdownInv
    <2>4. QED
        BY <2>3, StatesAdvance
<1>4. CASE ~Seen
    <2>1. stop'.phase \notin {"waiting", "returned"}
        BY <1>4, StopMoves DEF Leave, In
    <2>2. In("stop", "running")' \/ In("stop", "cleaning")'
        BY <2>1
    <2>3. Peek("stop") /\ queue = <<>>
        <3>1. ~CleanTokens("stop")
            BY <1>4 DEF CleanTokens, AllEnded
        <3>2. QED
            BY <1>1, <1>4, <2>2, <3>1, ConsumersMove, Consumers DEF GoesOn, In
    <2>4. state' = state /\ accepted' = accepted
        BY <2>3 DEF Peek, tasks, service
    <2>5. t \in Task /\ ToSet(queue) = {}
        BY <1>2, <2>3, <2>4 DEF ToSet
    <2>6. QED
        BY <2>4, <2>5 DEF PlacesInv
<1>5. QED
    BY <1>3, <1>4

LEMMA ShutdownInvStep ==
    ASSUME TaskQueueAssumption, TypesInv, PhasesInv, PlacesInv, ShutdownInv, [Next]_vars
    PROVE  ShutdownInv'
<1>1. /\ Cancellable \subseteq Task /\ Null \notin Task
      /\ disposed \subseteq Cancellable /\ accepted.tasks \subseteq Task
      /\ stop.visited \subseteq Cancellable /\ disposed' \subseteq Cancellable
    BY TypesInvStep DEF TaskQueueAssumption, TypesInv
<1>2. ASSUME NEW t \in disposed'
      PROVE  Finished(t)'
    <2>1. CASE t \in disposed
        BY <1>1, <2>1, FinishedStays DEF ShutdownInv
    <2>2. CASE t \notin disposed
        <3>1. PICK c \in Consumer : CleanTokens(c) /\ t \in Batch(c)
            BY <1>2, <2>2, TokensMove
        <3>2. Finished(t)
            BY <1>1, <1>2, <3>1 DEF CleanTokens, AllEnded
        <3>3. QED
            BY <1>1, <1>2, <3>2, FinishedStays
    <2>3. QED
        BY <2>1, <2>2
<1>3. /\ \A t \in accepted'.tasks : state'[t] # "new"
      /\ accepted'.tokens \subseteq tokens' \cup disposed'
    <2>1. CASE StopBegins
        BY <2>1 DEF StopBegins, tasks, cts
    <2>2. CASE accepted' = accepted
        BY <1>1, <2>2, StatesAdvance, TokensMove DEF ShutdownInv
    <2>3. QED
        BY <2>1, <2>2, TokensMove
<1>4. stop'.phase = "no" => accepted'.tasks = {} /\ stop'.visited = {} /\ stop'.at = Null
    <2>1. ASSUME stop'.phase = "no"
          PROVE  stop' = stop /\ accepted' = accepted
        <3>1. ~StopBegins
            BY <2>1 DEF StopBegins, TypesInv
        <3>2. QED
            BY <2>1, <3>1, StopMoves, TokensMove
    <2>2. QED
        BY <2>1 DEF ShutdownInv
<1>5. ASSUME stop'.phase = "cancelling"
      PROVE  stop'.visited \subseteq cancelled' \cup {stop'.at}
    <2>1. cancelled \subseteq cancelled'
        BY TokensMove
    <2>2. /\ stop.phase = "cancelling" => stop.visited \subseteq cancelled \cup {stop.at}
          /\ stop.phase = "no" => stop.visited = {}
        BY DEF ShutdownInv
    <2>3. QED
        BY <1>1, <1>5, <2>1, <2>2, StopMoves
<1>6. QED
    BY <1>2, <1>3, <1>4, <1>5, StopHasSeen DEF ShutdownInv

LEMMA ReturnedStep ==
    ASSUME TaskQueueAssumption, TypesInv, PhasesInv, PlacesInv, ShutdownInv,
           ReturnedStopProcessedAll, [Next]_vars
    PROVE  ReturnedStopProcessedAll'
<1>1. accepted.tasks \subseteq Task
    BY DEF TypesInv
<1>2. CASE stop.phase = "returned"
    <2>1. accepted' = accepted
        BY <1>2, TokensMove DEF StopBegins, Stopping
    <2>2. QED
        BY <1>1, <1>2, <2>1, FinishedStays DEF ReturnedStopProcessedAll
<1>3. CASE StopReturns
    <2>1. /\ consuming = 0 /\ stop.phase = "waiting" /\ state' = state
          /\ accepted' = accepted
        BY <1>3 DEF StopReturns, tasks
    <2>2. ASSUME NEW c \in Consumer
          PROVE  Batch(c) = {}
        <3>1. Counted(c) = 0
            BY <2>1, Consumers DEF PhasesInv, Counted
        <3>2. consumer[c].batch = <<>>
            BY <3>1 DEF PhasesInv, Counted, In
        <3>3. QED
            BY <3>2 DEF Batch, ToSet
    <2>3. \A t \in accepted.tasks : state[t] \notin {"new", "waiting", "taken", "running"}
        BY <1>1, <2>1, <2>2 DEF PlacesInv, ShutdownInv
    <2>4. \A t \in accepted.tasks : state[t] \in {"done", "failed"}
        BY <1>1, <2>3, Consumers DEF TypesInv
    <2>5. QED
        BY <2>1, <2>4 DEF ReturnedStopProcessedAll, Finished
<1>4. CASE stop.phase # "returned" /\ ~StopReturns
    BY <1>4, StopMoves DEF ReturnedStopProcessedAll
<1>5. QED
    BY <1>2, <1>3, <1>4

LEMMA CancelsStep ==
    ASSUME TaskQueueAssumption, TypesInv, PhasesInv, PlacesInv, ShutdownInv,
           ShutdownCancels, [Next]_vars
    PROVE  ShutdownCancels'
<1>1. /\ accepted.tokens \subseteq Task /\ cancelled \subseteq cancelled'
      /\ stop.visited \subseteq Task /\ Null \notin Task
    BY TokensMove DEF TypesInv, TaskQueueAssumption
<1>2. CASE StopConsumes
    <2>1. /\ stop.phase = "cancelling" /\ stop.at = Null /\ accepted' = accepted
          /\ tokens \cap accepted.tokens \subseteq stop.visited
        BY <1>2 DEF StopConsumes
    <2>2. stop.visited \subseteq cancelled
        BY <1>1, <2>1 DEF ShutdownInv
    <2>3. \A t \in accepted.tokens : t \in cancelled \/ Finished(t)
        BY <2>1, <2>2 DEF ShutdownInv
    <2>4. QED
        BY <1>1, <2>1, <2>3, FinishedStays DEF ShutdownCancels
<1>3. CASE stop.phase \in {"consuming", "waiting", "returned"}
    <2>1. accepted' = accepted
        BY <1>3, TokensMove DEF StopBegins, Stopping
    <2>2. QED
        BY <1>1, <1>3, <2>1, FinishedStays DEF ShutdownCancels
<1>4. CASE ~StopConsumes /\ stop.phase \notin {"consuming", "waiting", "returned"}
    BY <1>4, StopMoves DEF ShutdownCancels
<1>5. QED
    BY <1>2, <1>3, <1>4

-----------------------------------------------------------------------------
(* The theorems. *)

LEMMA QueueInvInit ==
    ASSUME TaskQueueAssumption, Init
    PROVE  QueueInv
<1>1. consumer = [c \in Consumer |-> NotConsuming] /\ NotConsuming \in ConsumerType
      /\ NotConsuming.phase = "idle" /\ NotConsuming.batch = <<>>
    BY DEF Init, NotConsuming, ConsumerType, Phase
<1>2. \A c \in Consumer : In(c, "idle") /\ consumer[c].batch = <<>> /\ Batch(c) = {}
    BY <1>1 DEF In, Batch, ToSet
<1>3. TypesInv
    BY <1>1, Consumers DEF Init, TypesInv, ConsumerType, TaskQueueAssumption
<1>4. PhasesInv
    BY <1>1, <1>2, Consumers DEF Init, PhasesInv, Counted, In
<1>5. PlacesInv
    <2>1. Distinct(<<>>) /\ ToSet(<<>>) = {}
        BY DEF Distinct, ToSet
    <2>2. QED
        BY <1>2, <2>1, Consumers DEF Init, PlacesInv
<1>6. ShutdownInv
    BY <1>2, Consumers DEF Init, ShutdownInv, In
<1>7. ReturnedStopProcessedAll /\ ShutdownCancels
    BY DEF Init, ReturnedStopProcessedAll, ShutdownCancels
<1>8. QED
    BY <1>3, <1>4, <1>5, <1>6, <1>7 DEF QueueInv

\* The invariant holds in every state: where each task is, that the two
\* consumptions never share one, and what StopAsync has seen to.
THEOREM QueueInvariant == Spec => []QueueInv
<1>1. Init => QueueInv
    BY TaskQueueAssumption, QueueInvInit
<1>2. QueueInv /\ [Next]_vars => QueueInv'
    BY TaskQueueAssumption, TypesInvStep, PhasesInvStep, PlacesInvStep, ShutdownInvStep,
       ReturnedStep, CancelsStep DEF QueueInv
<1>3. QED
    BY <1>1, <1>2, PTL DEF Spec

\* Every variable has its type, and _queueIsConsuming is the number of
\* consumptions between their increment and their finally block: an exception
\* of a task, a listener or the error handler never leaves it behind.
THEOREM TypeCorrect == Spec => []TypeOK
<1>1. ASSUME QueueInv
      PROVE  TypeOK
    <2> DEFINE C == {c \in Consumer : ~In(c, "idle") /\ ~In(c, "entering")}
    <2>1. consuming = Counted("loop") + Counted("stop") /\ TypesInv
        BY <1>1 DEF QueueInv, PhasesInv
    <2>2. Cardinality({}) = 0 /\ Cardinality({"loop"}) = 1 /\ Cardinality({"stop"}) = 1
          /\ Cardinality({"loop", "stop"}) = 2
        <3>1. /\ IsFiniteSet({"loop"}) /\ Cardinality({"loop"}) = 1
              /\ Cardinality({"stop"}) = 1 /\ Cardinality({}) = 0
            BY FS_EmptySet, FS_Singleton
        <3>2. Cardinality({"loop"} \cup {"stop"}) = Cardinality({"loop"}) + 1
            BY <3>1, FS_AddElement
        <3>3. {"loop"} \cup {"stop"} = {"loop", "stop"}
            OBVIOUS
        <3>4. QED
            BY <3>1, <3>2, <3>3
    <2>3. consuming = Cardinality(C)
        <3>1. CASE Counted("loop") = 0 /\ Counted("stop") = 0
            <4>1. C = {}
                BY <3>1, Consumers DEF Counted
            <4>2. QED
                BY <2>1, <2>2, <3>1, <4>1
        <3>2. CASE Counted("loop") = 1 /\ Counted("stop") = 0
            <4>1. C = {"loop"}
                BY <3>2, Consumers DEF Counted
            <4>2. QED
                BY <2>1, <2>2, <3>2, <4>1
        <3>3. CASE Counted("loop") = 0 /\ Counted("stop") = 1
            <4>1. C = {"stop"}
                BY <3>3, Consumers DEF Counted
            <4>2. QED
                BY <2>1, <2>2, <3>3, <4>1
        <3>4. CASE Counted("loop") = 1 /\ Counted("stop") = 1
            <4>1. C = {"loop", "stop"}
                BY <3>4, Consumers DEF Counted
            <4>2. QED
                BY <2>1, <2>2, <3>4, <4>1
        <3>5. QED
            BY <3>1, <3>2, <3>3, <3>4 DEF Counted
    <2>4. \A c \in Consumer : consumer[c].phase \in Phase
        BY <2>1 DEF TypesInv
    <2>5. QED
        BY <2>1, <2>3, <2>4, Batches DEF TypesInv, TypeOK
<1>2. QED
    BY <1>1, QueueInvariant, PTL

\* Two consumptions side by side never take the same task, and none is lost
\* between the queue and a batch.
THEOREM TasksNeverShared == Spec => []EachTaskInOnePlace
<1>1. ASSUME QueueInv, NEW t \in Task
      PROVE  LET places == Count(t, queue) + Count(t, consumer["loop"].batch)
                           + Count(t, consumer["stop"].batch)
             IN  /\ places <= 1
                 /\ state[t] = "waiting" => Count(t, queue) = 1
                 /\ state[t] \in {"taken", "running"} => Count(t, queue) = 0 /\ places = 1
    <2> DEFINE q == Count(t, queue)
               l == Count(t, consumer["loop"].batch)
               s == Count(t, consumer["stop"].batch)
    <2>1. t # Null
        BY TaskQueueAssumption DEF TaskQueueAssumption
    <2>2. /\ q = IF t \in ToSet(queue) THEN 1 ELSE 0
          /\ l = IF t \in Batch("loop") THEN 1 ELSE 0
          /\ s = IF t \in Batch("stop") THEN 1 ELSE 0
        BY <1>1, <2>1, DistinctCount, Consumers DEF QueueInv, PlacesInv, Batch
    <2>3. /\ state[t] = "waiting" <=> t \in ToSet(queue)
          /\ state[t] = "waiting" => t \notin Batch("loop") /\ t \notin Batch("stop")
          /\ ~(t \in Batch("loop") /\ t \in Batch("stop"))
          /\ state[t] \in {"taken", "running"} => t \in Batch("loop") \/ t \in Batch("stop")
        BY <1>1, <2>1, Consumers DEF QueueInv, PlacesInv
    <2> HIDE DEF q, l, s
    <2>4. /\ q + l + s <= 1
          /\ state[t] = "waiting" => q = 1
          /\ state[t] \in {"taken", "running"} => q = 0 /\ q + l + s = 1
        BY <2>2, <2>3
    <2>5. QED
        BY <2>4 DEF q, l, s
<1>2. QueueInv => EachTaskInOnePlace
    BY <1>1 DEF EachTaskInOnePlace
<1>3. QED
    BY <1>2, QueueInvariant, PTL

\* When StopAsync returns, every task queued before the shutdown has been
\* processed, by the loop or by StopAsync, with listeners that throw or not.
THEOREM StopProcessesAll == Spec => []ReturnedStopProcessedAll
BY QueueInvariant, PTL DEF QueueInv

\* CancelAllTokens, beside the loop, which disposes of the tokens of finished
\* tasks, and beside callers that register new ones, leaves no token behind.
THEOREM StopCancelsAll == Spec => []ShutdownCancels
BY QueueInvariant, PTL DEF QueueInv
=============================================================================
