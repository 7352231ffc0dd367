---------------------------- MODULE InMemoryCache ----------------------------
(***************************************************************************)
(* Coravel's InMemoryCache: an IMemoryCache of the framework, which knows  *)
(* its entries but cannot list them, and beside it the set _keys, under a  *)
(* lock, that tells Flush what to remove.  The two are changed in separate *)
(* steps: callers add a key before they create the entry, and the cache    *)
(* reports evictions later, on a thread of the pool.                       *)
(*                                                                         *)
(* The IMemoryCache is external: an entry that has expired stays until     *)
(* something looks at it, an entry that leaves has its callback queued,    *)
(* and a factory that throws stores nothing.                               *)
(***************************************************************************)
EXTENDS Naturals

CONSTANTS
    Caller,        \* threads that use the cache
    Key,           \* cache keys
    MaxCallbacks   \* no call begins while as many eviction callbacks wait

ASSUME InMemoryCacheAssumption == MaxCallbacks \in Nat

VARIABLES
    stored,   \* stored[k]: the entry of the IMemoryCache under key k
    keys,     \* _keys
    call,     \* call[c]: the operation in progress at c
    evicted,  \* evicted[r][k]: callbacks waiting for entries of k that left for reason r
    excused   \* history: keys whose tracking a known race may have lost

vars == <<stored, keys, call, evicted, excused>>

-----------------------------------------------------------------------------
\* An entry made by Forever never expires; one made by Remember is "timed"
\* until its AbsoluteExpiration and "expired" until it is looked at.
Content == {"none", "forever", "timed", "expired"}

Reason == {"Expired", "Removed", "Replaced"}

\* Remember and Forever: the key is in _keys and the cache is to be asked
\* ("added"), or the entry is missing and the factory runs ("creating").
Fill == [op : {"fill"}, key : Key, makes : {"timed", "forever"},
         phase : {"added", "creating"}]

\* Forget: the entry is removed and the lock is waited for.
Forgetting == [op : {"forget"}, key : Key]

\* Flush: the lock is held, "left" are the keys still to remove.  History:
\* "racing" are the keys some fill had added and not stored when it began.
Flushing == [op : {"flush"}, left : SUBSET Key, racing : SUBSET Key]

Idle == [op |-> "idle"]

Call == {Idle} \cup Fill \cup Forgetting \cup Flushing

Filling(c, p) == call[c].op = "fill" /\ call[c].phase = p

\* Mutant: the loop of Flush is outside of the lock.
LockNeverHeld == TRUE

\* _setLock is held across several steps by Flush only.
LockFree == \A c \in Caller : call[c].op # "flush"

\* The keys of the fills in progress.
BeingFilled == {call[c].key : c \in {d \in Caller : call[d].op = "fill"}}

\* No call begins while the pool has MaxCallbacks callbacks of a key to run.
Ready(c) ==
    /\ call[c] = Idle
    /\ \A k \in Key, r \in Reason : evicted[r][k] < MaxCallbacks

Return(c) == call' = [call EXCEPT ![c] = Idle]

Init ==
    /\ stored = [k \in Key |-> "none"]
    /\ keys = {}
    /\ call = [c \in Caller |-> Idle]
    /\ evicted = [r \in Reason |-> [k \in Key |-> 0]]
    /\ excused = {}

-----------------------------------------------------------------------------
(* The IMemoryCache. *)

\* The entry of k gives way to v.  Entries made by Remember have registered
\* EvictionCallback, which is queued for them.
Evict(k, v, r) ==
    /\ stored' = [stored EXCEPT ![k] = v]
    /\ evicted' = IF stored[k] \in {"timed", "expired"}
                  THEN [evicted EXCEPT ![r][k] = @ + 1]
                  ELSE evicted

\* AbsoluteExpiration passes.
Expires(k) ==
    /\ stored[k] = "timed"
    /\ stored' = [stored EXCEPT ![k] = "expired"]
    /\ UNCHANGED <<keys, call, evicted, excused>>

\* HasAsync, GetAsync or a scan of the IMemoryCache finds the expired entry.
\* Has and Get change nothing else.
Noticed(k) ==
    /\ stored[k] = "expired"
    /\ \A r \in Reason : evicted[r][k] < MaxCallbacks
    /\ Evict(k, "none", "Expired")
    /\ UNCHANGED <<keys, call, excused>>

\* Mutant: replaced entries are treated like the others.
UntracksAlways(r) == TRUE

\* The reasons for which EvictionCallback removes the key.  (Without a size
\* limit no entry leaves for its Capacity.)
Untracks(r) == r \in {"Expired", "Removed"}

\* The pool runs an EvictionCallback.
Callback(r, k) ==
    /\ evicted[r][k] > 0
    /\ Untracks(r) => LockFree
    /\ evicted' = [evicted EXCEPT ![r][k] = @ - 1]
    /\ keys' = IF Untracks(r) THEN keys \ {k} ELSE keys
    /\ excused' = IF r \in {"Expired", "Removed"} THEN excused \cup {k} ELSE excused
    /\ UNCHANGED <<stored, call>>

-----------------------------------------------------------------------------
(* Remember, RememberAsync, Forever, ForeverAsync. *)

\* The call takes the lock and adds the key.
AddKey(c, k, v) ==
    /\ Ready(c) /\ LockFree
    /\ keys' = keys \cup {k}
    /\ call' = [call EXCEPT ![c] =
                   [op |-> "fill", key |-> k, makes |-> v, phase |-> "added"]]
    /\ excused' = excused \ {k}
    /\ UNCHANGED <<stored, evicted>>

\* GetOrCreate finds an entry.
Hit(c) ==
    /\ Filling(c, "added") /\ stored[call[c].key] \in {"timed", "forever"}
    /\ Return(c)
    /\ UNCHANGED <<stored, keys, evicted, excused>>

\* It finds none, or one that has expired.
Miss(c) ==
    /\ Filling(c, "added") /\ stored[call[c].key] \in {"none", "expired"}
    /\ Evict(call[c].key, "none", "Expired")
    /\ call' = [call EXCEPT ![c].phase = "creating"]
    /\ UNCHANGED <<keys, excused>>

\* The factory returns and the entry is stored, in place of one that another
\* call has stored meanwhile.
Store(c) ==
    /\ Filling(c, "creating")
    /\ Evict(call[c].key, call[c].makes, "Replaced")
    /\ Return(c)
    /\ UNCHANGED <<keys, excused>>

\* AbsoluteExpiration is counted from before the factory ran: the entry of a
\* slow one has expired already, is not stored and is reported as evicted.
StoreTooLate(c) ==
    LET k == call[c].key IN
    /\ Filling(c, "creating") /\ call[c].makes = "timed"
    /\ stored' = [stored EXCEPT ![k] = "none"]
    /\ evicted' = [r \in Reason |-> [evicted[r] EXCEPT ![k] =
                      IF \/ r = "Expired"
                         \/ r = "Replaced" /\ stored[k] \in {"timed", "expired"}
                      THEN @ + 1 ELSE @]]
    /\ Return(c)
    /\ UNCHANGED <<keys, excused>>

\* Its exception reaches the caller; the key stays.
FactoryThrows(c) ==
    /\ Filling(c, "creating")
    /\ Return(c)
    /\ UNCHANGED <<stored, keys, evicted, excused>>

-----------------------------------------------------------------------------
(* Forget and Flush. *)

ForgetRemove(c, k) ==
    /\ Ready(c)
    /\ Evict(k, "none", "Removed")
    /\ call' = [call EXCEPT ![c] = [op |-> "forget", key |-> k]]
    /\ UNCHANGED <<keys, excused>>

ForgetKey(c) ==
    /\ call[c].op = "forget" /\ LockFree
    /\ keys' = keys \ {call[c].key}
    /\ excused' = excused \cup {call[c].key}
    /\ Return(c)
    /\ UNCHANGED <<stored, evicted>>

FlushBegin(c) ==
    /\ Ready(c) /\ LockFree
    /\ call' = [call EXCEPT ![c] =
                   [op |-> "flush", left |-> keys, racing |-> BeingFilled]]
    /\ UNCHANGED <<stored, keys, evicted, excused>>

\* The loop removes the entry of one more key.
FlushRemove(c, k) ==
    /\ call[c].op = "flush" /\ k \in call[c].left
    /\ Evict(k, "none", "Removed")
    /\ call' = [call EXCEPT ![c].left = @ \ {k}]
    /\ UNCHANGED <<keys, excused>>

\* Mutant: the removal of an entry waits for its callback.
LoopIsOverAfterCallbacks(c) ==
    call[c].left = {} /\ \A k \in Key : evicted["Removed"][k] = 0

LoopIsOver(c) == call[c].left = {}

\* _keys.Clear(), and the lock is free.
FlushEnd(c) ==
    /\ call[c].op = "flush" /\ LoopIsOver(c)
    /\ keys' = {}
    /\ excused' = excused \cup call[c].racing
    /\ Return(c)
    /\ UNCHANGED <<stored, evicted>>

-----------------------------------------------------------------------------
FillStep(c) == Hit(c) \/ Miss(c) \/ Store(c) \/ StoreTooLate(c) \/ FactoryThrows(c)

FlushStep(c) == (\E k \in Key : FlushRemove(c, k)) \/ FlushEnd(c)

Begin(c) ==
    \/ FlushBegin(c)
    \/ \E k \in Key : \/ ForgetRemove(c, k)
                      \/ \E v \in {"timed", "forever"} : AddKey(c, k, v)

Next ==
    \/ \E c \in Caller : Begin(c) \/ FillStep(c) \/ ForgetKey(c) \/ FlushStep(c)
    \/ \E k \in Key : Expires(k) \/ Noticed(k) \/ \E r \in Reason : Callback(r, k)

Spec == Init /\ [][Next]_vars

\* Fairness: factories end, threads run, and whoever waits for the lock gets
\* it although others flush again and again.  Nobody has to call anything.
FairSpec ==
    /\ Spec
    /\ \A c \in Caller : WF_vars(FillStep(c)) /\ WF_vars(FlushStep(c))
                           /\ SF_vars(ForgetKey(c))
    /\ \A k \in Key : SF_vars(\E r \in Reason : Callback(r, k))

-----------------------------------------------------------------------------
\* Every variable has its type, and at most one Flush holds the lock.
TypeOK ==
    /\ stored \in [Key -> Content]
    /\ keys \subseteq Key /\ excused \subseteq Key
    /\ call \in [Caller -> Call]
    /\ evicted \in [Reason -> [Key -> Nat]]
    /\ \A c, d \in Caller : (call[c].op = "flush" /\ call[d].op = "flush") => c = d

\* InMemoryCache.cs: Flush "needs to be safe in its entire operation".  It
\* finds every entry and every entry being created, unless since the key was
\* last added its tracking was lost in one of three ways: a Flush overlapped
\* the fill, Forget ran, or an eviction callback of an earlier entry came late.
TrackedUnlessRaced ==
    \A k \in Key : (stored[k] # "none" \/ k \in BeingFilled) => k \in keys \cup excused

\* The lock is always given back: no caller waits for ever, whatever Flush,
\* the callbacks it causes and the fills do to each other.  (A call counts from
\* the moment it has the lock, and Forget and the callbacks from before.)
EveryCallReturns == \A c \in Caller : call[c] # Idle ~> call[c] = Idle

=============================================================================
