------------------------ MODULE InMemoryCache_proofs ------------------------
(***************************************************************************)
(* Proofs about InMemoryCache, for any number of callers, keys and waiting *)
(* callbacks.                                                              *)
(*                                                                         *)
(* TrackedUnlessRaced is not inductive: when a Flush ends, _keys is empty  *)
(* and every entry still stored must be excused.  FlushFinds says why it   *)
(* is: while the lock is held nobody adds a key, so the entries a Flush    *)
(* does not remove were being created when it began, or their tracking was *)
(* lost before.                                                            *)
(***************************************************************************)
EXTENDS InMemoryCache, TLAPS

\* What Flush knows while it holds the lock: the fills in progress are those
\* that were when it began, and it will remove every entry but theirs.
FlushFinds ==
    \A c \in Caller : call[c].op = "flush" =>
        /\ BeingFilled \subseteq call[c].racing
        /\ \A k \in Key : stored[k] # "none" => k \in call[c].left \cup call[c].racing \cup excused

\* The inductive invariant.
CacheInv == TypeOK /\ TrackedUnlessRaced /\ FlushFinds

-----------------------------------------------------------------------------
(* Operations in progress. *)

\* What a member of Call holds, by its operation.
LEMMA CallForms ==
    ASSUME NEW x \in Call
    PROVE  /\ x.op \in {"idle", "fill", "forget", "flush"}
           /\ x.op = "fill" => /\ x \in Fill /\ x.key \in Key
                               /\ x.makes \in {"timed", "forever"}
           /\ x.op = "forget" => x.key \in Key
           /\ x.op = "flush" => x \in Flushing /\ x.left \subseteq Key /\ x.racing \subseteq Key
BY DEF Call, Fill, Forgetting, Flushing, Idle

LEMMA Progress ==
    /\ \A x \in Fill : [x EXCEPT !.phase = "creating"] \in Fill
    /\ \A x \in Flushing, k \in Key : [x EXCEPT !.left = @ \ {k}] \in Flushing
BY DEF Fill, Flushing

LEMMA BeingFilledKeys ==
    ASSUME TypeOK
    PROVE  BeingFilled \subseteq Key
<1>1. ASSUME NEW d \in Caller, call[d].op = "fill"
      PROVE  call[d].key \in Key
    BY <1>1, CallForms DEF TypeOK
<1>2. QED
    BY <1>1 DEF BeingFilled

-----------------------------------------------------------------------------
(* Types. *)

\* An entry that gives way leaves the IMemoryCache and its counts well typed.
LEMMA EvictTyped ==
    ASSUME TypeOK, NEW k \in Key, NEW v \in Content, NEW r \in Reason, Evict(k, v, r)
    PROVE  stored' \in [Key -> Content] /\ evicted' \in [Reason -> [Key -> Nat]]
<1>1. stored' \in [Key -> Content]
    BY DEF TypeOK, Evict
<1>2. [evicted[r] EXCEPT ![k] = @ + 1] \in [Key -> Nat]
    BY DEF TypeOK
<1>3. evicted' = evicted \/ evicted' = [evicted EXCEPT ![r] = [evicted[r] EXCEPT ![k] = @ + 1]]
    BY DEF TypeOK, Evict
<1>4. QED
    BY <1>1, <1>2, <1>3 DEF TypeOK

\* An operation of c moves on: it is the only one that changes, and it is not a
\* Flush unless it was one or the lock was free.
LEMMA CallTyped ==
    ASSUME TypeOK, NEW c \in Caller, NEW x \in Call, call' = [call EXCEPT ![c] = x],
           x.op = "flush" => call[c].op = "flush" \/ LockFree
    PROVE  /\ call' \in [Caller -> Call]
           /\ \A d, e \in Caller : (call'[d].op = "flush" /\ call'[e].op = "flush") => d = e
<1>1. call' \in [Caller -> Call]
    BY DEF TypeOK
<1>2. \A d \in Caller : call'[d] = IF d = c THEN x ELSE call[d]
    BY DEF TypeOK
<1>3. QED
    BY <1>1, <1>2 DEF TypeOK, LockFree

\* A fill, and what it does to the entries, keeps the types.
LEMMA FillTyped ==
    ASSUME TypeOK, NEW c \in Caller, FillStep(c)
    PROVE  TypeOK'
<1> USE DEF Filling
<1>1. call[c] \in Call /\ Idle \in Call /\ Idle.op # "flush"
    BY DEF TypeOK, Call, Idle
<1>2. call[c] \in Fill /\ call[c].key \in Key /\ call[c].makes \in Content
    BY <1>1, CallForms
       DEF FillStep, Hit, Miss, Store, StoreTooLate, FactoryThrows, Content
<1>3. CASE Hit(c) \/ FactoryThrows(c)
    BY <1>1, <1>3, CallTyped DEF TypeOK, Hit, FactoryThrows, Return
<1>4. CASE Miss(c)
    <2>1. [call[c] EXCEPT !.phase = "creating"] \in Fill
        BY <1>2, Progress
    <2>2. [call[c] EXCEPT !.phase = "creating"] \in Call
        BY <2>1 DEF Call
    <2>3. [call[c] EXCEPT !.phase = "creating"].op # "flush"
        BY <2>1 DEF Fill
    <2>4. call' = [call EXCEPT ![c] = [call[c] EXCEPT !.phase = "creating"]]
        BY <1>4 DEF Miss
    <2>5. stored' \in [Key -> Content] /\ evicted' \in [Reason -> [Key -> Nat]]
        BY <1>2, <1>4, EvictTyped DEF Miss, Content, Reason
    <2>6. QED
        BY <1>4, <2>2, <2>3, <2>4, <2>5, CallTyped DEF TypeOK, Miss
<1>5. CASE Store(c)
    <2>1. stored' \in [Key -> Content] /\ evicted' \in [Reason -> [Key -> Nat]]
        BY <1>2, <1>5, EvictTyped DEF Store, Reason
    <2>2. QED
        BY <1>1, <1>5, <2>1, CallTyped DEF TypeOK, Store, Return
<1>6. CASE StoreTooLate(c)
    <2>1. stored' \in [Key -> Content]
        BY <1>2, <1>6 DEF TypeOK, StoreTooLate, Content
    <2>2. \A r \in Reason : [evicted[r] EXCEPT ![call[c].key] = @ + 1] \in [Key -> Nat]
        BY <1>2 DEF TypeOK
    <2>3. evicted' \in [Reason -> [Key -> Nat]]
        BY <1>6, <2>2 DEF TypeOK, StoreTooLate
    <2>4. QED
        BY <1>1, <1>6, <2>1, <2>3, CallTyped DEF TypeOK, StoreTooLate, Return
<1>7. QED
    BY <1>3, <1>4, <1>5, <1>6 DEF FillStep

\* Calls that begin, Forget and Flush keep the types.
LEMMA CallStepTyped ==
    ASSUME TypeOK, NEW c \in Caller, Begin(c) \/ ForgetKey(c) \/ FlushStep(c)
    PROVE  TypeOK'
<1>1. call[c] \in Call /\ Idle \in Call /\ Idle.op # "flush"
    BY DEF TypeOK, Call, Idle
<1>2. CASE FlushBegin(c)
    <2>1. BeingFilled \subseteq Key
        BY BeingFilledKeys
    <2>2. [op |-> "flush", left |-> keys, racing |-> BeingFilled] \in Call
        BY <2>1 DEF TypeOK, Call, Flushing
    <2>3. QED
        BY <1>2, <2>2, CallTyped DEF TypeOK, FlushBegin
<1>3. ASSUME NEW k \in Key, ForgetRemove(c, k)
      PROVE  TypeOK'
    <2>1. [op |-> "forget", key |-> k] \in Call /\ [op |-> "forget", key |-> k].op # "flush"
        BY DEF Call, Forgetting
    <2>2. stored' \in [Key -> Content] /\ evicted' \in [Reason -> [Key -> Nat]]
        BY <1>3, EvictTyped DEF ForgetRemove, Content, Reason
    <2>3. QED
        BY <1>3, <2>1, <2>2, CallTyped DEF TypeOK, ForgetRemove
<1>4. ASSUME NEW k \in Key, NEW v \in {"timed", "forever"}, AddKey(c, k, v)
      PROVE  TypeOK'
    <2> DEFINE x == [op |-> "fill", key |-> k, makes |-> v, phase |-> "added"]
    <2>1. x \in Call /\ x.op # "flush"
        BY DEF Call, Fill
    <2>2. call' = [call EXCEPT ![c] = x]
        BY <1>4 DEF AddKey
    <2>3. QED
        BY <1>4, <2>1, <2>2, CallTyped DEF TypeOK, AddKey
<1>5. CASE ForgetKey(c)
    <2>1. call[c].key \in Key
        BY <1>1, <1>5, CallForms DEF ForgetKey
    <2>2. QED
        BY <1>1, <1>5, <2>1, CallTyped DEF TypeOK, ForgetKey, Return
<1>6. ASSUME NEW k \in Key, FlushRemove(c, k)
      PROVE  TypeOK'
    <2>1. [call[c] EXCEPT !.left = @ \ {k}] \in Flushing
        BY <1>1, <1>6, CallForms, Progress DEF FlushRemove
    <2>2. [call[c] EXCEPT !.left = @ \ {k}] \in Call
        BY <2>1 DEF Call
    <2>3. call' = [call EXCEPT ![c] = [call[c] EXCEPT !.left = @ \ {k}]]
        BY <1>6 DEF FlushRemove
    <2>4. stored' \in [Key -> Content] /\ evicted' \in [Reason -> [Key -> Nat]]
        BY <1>6, EvictTyped DEF FlushRemove, Content, Reason
    <2>5. QED
        BY <1>6, <2>2, <2>3, <2>4, CallTyped DEF TypeOK, FlushRemove
<1>7. CASE FlushEnd(c)
    <2>1. call[c].racing \subseteq Key
        BY <1>1, <1>7, CallForms DEF FlushEnd
    <2>2. QED
        BY <1>1, <1>7, <2>1, CallTyped DEF TypeOK, FlushEnd, Return
<1>8. QED
    BY <1>2, <1>3, <1>4, <1>5, <1>6, <1>7 DEF Begin, FlushStep

\* The IMemoryCache and its callbacks keep the types.
LEMMA EntryStepTyped ==
    ASSUME TypeOK, NEW k \in Key,
           Expires(k) \/ Noticed(k) \/ \E r \in Reason : Callback(r, k)
    PROVE  TypeOK'
<1>1. CASE Expires(k)
    BY <1>1 DEF TypeOK, Expires, Content
<1>2. CASE Noticed(k)
    BY <1>2, EvictTyped DEF TypeOK, Noticed, Content, Reason
<1>3. ASSUME NEW r \in Reason, Callback(r, k)
      PROVE  TypeOK'
    <2>1. [evicted[r] EXCEPT ![k] = @ - 1] \in [Key -> Nat]
        BY <1>3 DEF TypeOK, Callback
    <2>2. evicted' \in [Reason -> [Key -> Nat]]
        BY <1>3, <2>1 DEF TypeOK, Callback
    <2>3. QED
        BY <1>3, <2>2 DEF TypeOK, Callback
<1>4. QED
    BY <1>1, <1>2, <1>3

LEMMA TypeStep ==
    ASSUME TypeOK, [Next]_vars
    PROVE  TypeOK'
<1>1. CASE UNCHANGED vars
    BY <1>1 DEF TypeOK, vars
<1>2. CASE Next
    BY <1>2, FillTyped, CallStepTyped, EntryStepTyped DEF Next
<1>3. QED
    BY <1>1, <1>2

-----------------------------------------------------------------------------
(* Tracking. *)

\* No fill begins unless AddKey begins it.
LEMMA NoNewFill ==
    ASSUME TypeOK, NEW c \in Caller, NEW x, call' = [call EXCEPT ![c] = x],
           x.op = "fill" => call[c].op = "fill" /\ x.key = call[c].key
    PROVE  BeingFilled' \subseteq BeingFilled
<1>1. \A d \in Caller : call'[d] = IF d = c THEN x ELSE call[d]
    BY DEF TypeOK
<1>2. QED
    BY <1>1 DEF BeingFilled

\* What a step may do to the invariant when it neither adds a key nor begins or
\* ends a Flush: entries come from fills, a key that goes is excused, and a
\* Flush drops a key from its list together with its entry.
LEMMA TrackingKept ==
    ASSUME TrackedUnlessRaced, FlushFinds,
           \A k \in Key : stored'[k] # "none" => stored[k] # "none" \/ k \in BeingFilled,
           BeingFilled' \subseteq BeingFilled,
           keys \subseteq keys' \cup excused', excused \subseteq excused',
           \A d \in Caller : call'[d].op = "flush" =>
               /\ call[d].op = "flush" /\ call'[d].racing = call[d].racing
               /\ \A k \in call[d].left \ call'[d].left : stored'[k] = "none"
    PROVE  TrackedUnlessRaced' /\ FlushFinds'
<1>1. TrackedUnlessRaced'
    BY DEF TrackedUnlessRaced
<1>2. ASSUME NEW d \in Caller, call'[d].op = "flush"
      PROVE  /\ BeingFilled' \subseteq call'[d].racing
             /\ \A k \in Key : stored'[k] # "none" =>
                    k \in call'[d].left \cup call'[d].racing \cup excused'
    <2>1. /\ BeingFilled \subseteq call[d].racing /\ call'[d].racing = call[d].racing
          /\ \A k \in Key : stored[k] # "none" =>
                 k \in call[d].left \cup call[d].racing \cup excused
        BY <1>2 DEF FlushFinds
    <2>2. ASSUME NEW k \in Key, stored'[k] # "none"
          PROVE  k \in call'[d].left \cup call'[d].racing \cup excused'
        BY <1>2, <2>1, <2>2
    <2>3. QED
        BY <2>1, <2>2
<1>3. QED
    BY <1>1, <1>2 DEF FlushFinds

\* Entries come from fills only, or give way.
LEMMA FillTracking ==
    ASSUME CacheInv, NEW c \in Caller, FillStep(c)
    PROVE  TrackedUnlessRaced' /\ FlushFinds'
<1> DEFINE k == call[c].key
<1>1. call[c] \in Fill /\ call[c].op = "fill" /\ k \in Key
    <2>1. call[c].op = "fill" /\ call[c] \in Call
        BY DEF CacheInv, TypeOK, FillStep, Hit, Miss, Store, StoreTooLate, FactoryThrows, Filling
    <2>2. QED
        BY <2>1, CallForms
<1>2. k \in BeingFilled
    BY <1>1 DEF BeingFilled
<1>3. UNCHANGED <<keys, excused>>
    BY DEF FillStep, Hit, Miss, Store, StoreTooLate, FactoryThrows
<1>4. \E x : /\ call' = [call EXCEPT ![c] = x]
             /\ x.op # "flush"
             /\ x.op = "fill" => x.key = call[c].key
    <2>1. CASE Miss(c)
        <3>1. call' = [call EXCEPT ![c] = [call[c] EXCEPT !.phase = "creating"]]
            BY <2>1 DEF Miss
        <3>2. /\ [call[c] EXCEPT !.phase = "creating"].op # "flush"
              /\ [call[c] EXCEPT !.phase = "creating"].key = call[c].key
            BY <1>1 DEF Fill
        <3>3. QED
            BY <3>1, <3>2
    <2>2. CASE ~Miss(c)
        <3>1. call' = [call EXCEPT ![c] = Idle]
            BY <2>2 DEF FillStep, Hit, Store, StoreTooLate, FactoryThrows, Return
        <3>2. Idle.op = "idle"
            BY DEF Idle
        <3>3. QED
            BY <3>1, <3>2
    <2>3. QED
        BY <2>1, <2>2
<1>5. PICK x : /\ call' = [call EXCEPT ![c] = x]
               /\ x.op # "flush"
               /\ x.op = "fill" => x.key = call[c].key
    BY <1>4
<1>6. BeingFilled' \subseteq BeingFilled
    BY <1>1, <1>5, NoNewFill DEF CacheInv
<1>7. \A d \in Caller : call'[d] = IF d = c THEN x ELSE call[d]
    BY <1>5 DEF CacheInv, TypeOK
<1>8. \A i \in Key : stored'[i] # "none" => stored[i] # "none" \/ i = k
    BY <1>1 DEF CacheInv, TypeOK, FillStep, Hit, Miss, Store, StoreTooLate, FactoryThrows, Evict
<1>9. QED
    BY <1>2, <1>3, <1>5, <1>6, <1>7, <1>8, TrackingKept DEF CacheInv

\* The lock taken and released: AddKey, Forget and Flush.
LEMMA CallTracking ==
    ASSUME CacheInv, NEW c \in Caller, Begin(c) \/ ForgetKey(c) \/ FlushStep(c)
    PROVE  TrackedUnlessRaced' /\ FlushFinds'
<1> USE DEF CacheInv
<1>1. Idle.op = "idle"
    BY DEF Idle
<1>2. CASE FlushBegin(c)
    <2> DEFINE x == [op |-> "flush", left |-> keys, racing |-> BeingFilled]
    <2>1. call' = [call EXCEPT ![c] = x]
        BY <1>2 DEF FlushBegin
    <2>2. \A d \in Caller : call'[d] = IF d = c THEN x ELSE call[d]
        BY <2>1 DEF TypeOK
    <2>3. BeingFilled' \subseteq BeingFilled
        BY <2>1, NoNewFill
    <2>4. /\ UNCHANGED <<stored, keys, excused>>
          /\ \A d \in Caller : call[d].op # "flush"
        BY <1>2 DEF FlushBegin, LockFree
    <2>5. TrackedUnlessRaced'
        BY <2>3, <2>4 DEF TrackedUnlessRaced
    <2>6. FlushFinds'
        BY <2>2, <2>3, <2>4 DEF FlushFinds, TrackedUnlessRaced
    <2>7. QED
        BY <2>5, <2>6
<1>3. ASSUME NEW k \in Key, ForgetRemove(c, k)
      PROVE  TrackedUnlessRaced' /\ FlushFinds'
    <2> DEFINE x == [op |-> "forget", key |-> k]
    <2>1. call' = [call EXCEPT ![c] = x]
        BY <1>3 DEF ForgetRemove
    <2>2. \A d \in Caller : call'[d] = IF d = c THEN x ELSE call[d]
        BY <2>1 DEF TypeOK
    <2>3. BeingFilled' \subseteq BeingFilled
        BY <2>1, NoNewFill
    <2>4. /\ UNCHANGED <<keys, excused>>
          /\ \A i \in Key : stored'[i] # "none" => stored[i] # "none"
        BY <1>3 DEF TypeOK, ForgetRemove, Evict
    <2>5. QED
        BY <2>2, <2>3, <2>4, TrackingKept
<1>4. ASSUME NEW k \in Key, NEW v \in {"timed", "forever"}, AddKey(c, k, v)
      PROVE  TrackedUnlessRaced' /\ FlushFinds'
    <2> DEFINE x == [op |-> "fill", key |-> k, makes |-> v, phase |-> "added"]
    <2>1. call' = [call EXCEPT ![c] = x]
        BY <1>4 DEF AddKey
    <2>2. \A d \in Caller : call'[d] = IF d = c THEN x ELSE call[d]
        BY <2>1 DEF TypeOK
    <2>3. BeingFilled' \subseteq BeingFilled \cup {k}
        BY <2>2 DEF BeingFilled
    <2>4. /\ stored' = stored /\ keys' = keys \cup {k} /\ excused' = excused \ {k}
          /\ \A d \in Caller : call[d].op # "flush"
        BY <1>4 DEF AddKey, LockFree
    <2>5. TrackedUnlessRaced'
        BY <2>3, <2>4 DEF TrackedUnlessRaced
    <2>6. FlushFinds'
        BY <2>2, <2>4 DEF FlushFinds
    <2>7. QED
        BY <2>5, <2>6
<1>5. CASE ForgetKey(c)
    <2>1. call' = [call EXCEPT ![c] = Idle]
        BY <1>5 DEF ForgetKey, Return
    <2>2. \A d \in Caller : call'[d] = IF d = c THEN Idle ELSE call[d]
        BY <2>1 DEF TypeOK
    <2>3. BeingFilled' \subseteq BeingFilled
        BY <1>1, <2>1, NoNewFill
    <2>4. /\ stored' = stored
          /\ keys \subseteq keys' \cup excused' /\ excused \subseteq excused'
        BY <1>5 DEF ForgetKey
    <2>5. QED
        BY <1>1, <2>2, <2>3, <2>4, TrackingKept
<1>6. ASSUME NEW k \in Key, FlushRemove(c, k)
      PROVE  TrackedUnlessRaced' /\ FlushFinds'
    <2> DEFINE x == [call[c] EXCEPT !.left = @ \ {k}]
    <2>1. call[c] \in Flushing
        BY <1>6, CallForms DEF TypeOK, FlushRemove
    <2>2. x.op = "flush" /\ x.left = call[c].left \ {k} /\ x.racing = call[c].racing
        BY <2>1 DEF Flushing
    <2>3. call' = [call EXCEPT ![c] = x]
        BY <1>6 DEF FlushRemove
    <2>4. \A d \in Caller : call'[d] = IF d = c THEN x ELSE call[d]
        BY <2>3 DEF TypeOK
    <2>5. BeingFilled' \subseteq BeingFilled
        BY <2>2, <2>3, NoNewFill
    <2>6. /\ UNCHANGED <<keys, excused>> /\ stored'[k] = "none"
          /\ \A i \in Key : stored'[i] # "none" => stored[i] # "none"
        BY <1>6 DEF TypeOK, FlushRemove, Evict
    <2>7. call[c].op = "flush"
        BY <1>6 DEF FlushRemove
    <2>8. QED
        BY <2>2, <2>4, <2>5, <2>6, <2>7, TrackingKept
<1>7. CASE FlushEnd(c)
    <2>1. call' = [call EXCEPT ![c] = Idle]
        BY <1>7 DEF FlushEnd, Return
    <2>2. \A d \in Caller : call'[d] = IF d = c THEN Idle ELSE call[d]
        BY <2>1 DEF TypeOK
    <2>3. BeingFilled' \subseteq BeingFilled
        BY <1>1, <2>1, NoNewFill
    <2>4. /\ stored' = stored /\ call[c].op = "flush" /\ call[c].left = {}
          /\ excused' = excused \cup call[c].racing
        BY <1>7 DEF FlushEnd, LoopIsOver
    <2>5. TrackedUnlessRaced'
        BY <2>3, <2>4 DEF TrackedUnlessRaced, FlushFinds
    <2>6. \A d \in Caller : call'[d].op # "flush"
        BY <1>1, <2>2, <2>4 DEF TypeOK
    <2>7. QED
        BY <2>5, <2>6 DEF FlushFinds
<1>8. QED
    BY <1>2, <1>3, <1>4, <1>5, <1>6, <1>7 DEF Begin, FlushStep

\* Expirations and their callbacks: a callback that takes a key needs the lock
\* and is one of the excuses.
LEMMA EntryTracking ==
    ASSUME CacheInv, NEW k \in Key,
           Expires(k) \/ Noticed(k) \/ \E r \in Reason : Callback(r, k)
    PROVE  TrackedUnlessRaced' /\ FlushFinds'
<1>1. /\ call' = call
      /\ \A i \in Key : stored'[i] # "none" => stored[i] # "none"
      /\ keys \subseteq keys' \cup excused' /\ excused \subseteq excused'
    BY DEF CacheInv, TypeOK, Expires, Noticed, Callback, Evict, Untracks
<1>2. BeingFilled' = BeingFilled
    BY <1>1 DEF BeingFilled
<1>3. QED
    BY <1>1, <1>2, TrackingKept DEF CacheInv

-----------------------------------------------------------------------------
\* Every reachable state of the cache satisfies the inductive invariant.
THEOREM CacheCorrect == Spec => []CacheInv
<1>1. Init => CacheInv
    <2> SUFFICES ASSUME Init PROVE CacheInv
        OBVIOUS
    <2>1. Idle \in Call /\ Idle.op = "idle"
        BY DEF Call, Idle
    <2>2. TypeOK
        BY <2>1 DEF Init, TypeOK, Content
    <2>3. BeingFilled = {}
        BY <2>1 DEF Init, BeingFilled
    <2>4. QED
        BY <2>1, <2>2, <2>3 DEF CacheInv, TrackedUnlessRaced, FlushFinds, Init
<1>2. CacheInv /\ [Next]_vars => CacheInv'
    <2> SUFFICES ASSUME CacheInv, [Next]_vars PROVE CacheInv'
        OBVIOUS
    <2>1. TypeOK'
        BY TypeStep DEF CacheInv
    <2>2. CASE Next
        <3>1. TrackedUnlessRaced' /\ FlushFinds'
            BY <2>2, FillTracking, CallTracking, EntryTracking DEF Next
        <3>2. QED
            BY <2>1, <3>1 DEF CacheInv
    <2>3. CASE UNCHANGED vars
        BY <2>1, <2>3 DEF CacheInv, vars, TrackedUnlessRaced, FlushFinds, BeingFilled
    <2>4. QED
        BY <2>2, <2>3
<1>3. QED
    BY <1>1, <1>2, PTL DEF Spec

\* Type correctness, and the mutual exclusion of Flush calls.
THEOREM CacheTypeCorrect == Spec => []TypeOK
<1>1. CacheInv => TypeOK
    BY DEF CacheInv
<1>2. QED
    BY <1>1, CacheCorrect, PTL

\* Flush finds every entry whose tracking was not lost in a race, whatever
\* callers, evictions and other Flush calls do.
THEOREM TrackingCorrect == Spec => []TrackedUnlessRaced
<1>1. CacheInv => TrackedUnlessRaced
    BY DEF CacheInv
<1>2. QED
    BY <1>1, CacheCorrect, PTL
=============================================================================
