-------------------------- MODULE DbContext_proofs --------------------------
(***************************************************************************)
(* Lemmas about the operators of DbContext, for every module built on it.  *)
(***************************************************************************)
EXTENDS DbContext, TLAPS

\* What every step does to the table: rows stay, and a row that changes gets
\* the next Version.
VersionedStep ==
    \A id \in DOMAIN rows :
        /\ id \in DOMAIN rows'
        /\ rows'[id] # rows[id] => rows'[id].version = rows[id].version + 1

\* What every step does to a context: it stays, it is disposed of, or it has
\* just loaded stored rows.
ContextStep ==
    /\ DOMAIN snap' = DOMAIN snap
    /\ \A a \in DOMAIN snap :
          \/ snap'[a] = snap[a]
          \/ DOMAIN snap'[a] = {}
          \/ \A id \in DOMAIN snap'[a] : id \in DOMAIN rows' /\ snap'[a][id] = rows'[id]

NatVersions ==
    \A id \in DOMAIN rows : rows[id].version \in Nat

SnapVersions ==
    \A a \in DOMAIN snap : \A id \in DOMAIN snap[a] : snap[a][id].version \in Nat

\* Steps that version their writes preserve the soundness of optimistic locking.
LEMMA NoLostUpdateStep ==
    ASSUME NoLostUpdate, VersionedStep, ContextStep,
           NatVersions, NatVersions', SnapVersions
    PROVE  NoLostUpdate'
<1> SUFFICES ASSUME NEW a \in DOMAIN snap', NEW id \in DOMAIN snap'[a]
             PROVE  /\ id \in DOMAIN rows'
                    /\ snap'[a][id].version <= rows'[id].version
                    /\ snap'[a][id].version = rows'[id].version
                          => snap'[a][id] = rows'[id]
    BY DEF NoLostUpdate
<1>1. a \in DOMAIN snap
    BY DEF ContextStep
<1>2. CASE snap'[a] = snap[a]
    <2>1. /\ id \in DOMAIN snap[a] /\ id \in DOMAIN rows
          /\ snap[a][id].version <= rows[id].version
          /\ snap[a][id].version = rows[id].version => snap[a][id] = rows[id]
        BY <1>1, <1>2 DEF NoLostUpdate
    <2>2. /\ id \in DOMAIN rows'
          /\ rows'[id] # rows[id] => rows'[id].version = rows[id].version + 1
        BY <2>1 DEF VersionedStep
    <2>3. snap[a][id].version \in Nat /\ rows[id].version \in Nat
        BY <1>1, <2>1 DEF NatVersions, SnapVersions
    <2>4. CASE rows'[id] = rows[id]
        BY <1>2, <2>1, <2>2, <2>4
    <2>5. CASE rows'[id] # rows[id]
        BY <1>2, <2>1, <2>2, <2>3, <2>5
    <2>6. QED
        BY <2>4, <2>5
<1>3. CASE DOMAIN snap'[a] = {}
    BY <1>3
<1>4. CASE \A i \in DOMAIN snap'[a] : i \in DOMAIN rows' /\ snap'[a][i] = rows'[i]
    <2>1. id \in DOMAIN rows' /\ snap'[a][id] = rows'[id]
        BY <1>4
    <2>2. rows'[id].version \in Nat
        BY <2>1 DEF NatVersions
    <2>3. QED
        BY <2>1, <2>2
<1>5. QED
    BY <1>1, <1>2, <1>3, <1>4 DEF ContextStep

\* Load leaves every context as it is or freshly loaded.
LEMMA LoadStep ==
    ASSUME NEW a, NEW ids, ids \subseteq DOMAIN rows, Load(a, ids), rows' = rows
    PROVE  ContextStep
<1>1. DOMAIN snap' = DOMAIN snap
    BY DEF Load
<1> SUFFICES ASSUME NEW b \in DOMAIN snap
             PROVE  \/ snap'[b] = snap[b]
                    \/ \A id \in DOMAIN snap'[b] :
                          id \in DOMAIN rows' /\ snap'[b][id] = rows'[id]
    BY <1>1 DEF ContextStep
<1>2. CASE b = a
    <2>1. snap'[b] = [id \in ids |-> rows[id]]
        BY <1>2 DEF Load, Loaded
    <2>2. QED
        BY <2>1
<1>3. CASE b # a
    BY <1>3 DEF Load
<1>4. QED
    BY <1>2, <1>3

\* Dispose empties some contexts and leaves the others.
LEMMA DisposeStep ==
    ASSUME NEW A, Dispose(A)
    PROVE  ContextStep
<1>1. DOMAIN snap' = DOMAIN snap
    BY DEF Dispose
<1>2. ASSUME NEW b \in DOMAIN snap
      PROVE  snap'[b] = snap[b] \/ DOMAIN snap'[b] = {}
    <2>1. snap'[b] = IF b \in A THEN Nothing ELSE snap[b]
        BY DEF Dispose
    <2>2. DOMAIN Nothing = {}
        BY DEF Nothing
    <2>3. QED
        BY <2>1, <2>2
<1>3. QED
    BY <1>1, <1>2 DEF ContextStep
=============================================================================
