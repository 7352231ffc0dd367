----------------------------- MODULE DbContext -----------------------------
(***************************************************************************)
(* One database table accessed through Entity Framework, the way every     *)
(* service of Coravel.Persistence does it: a scope opens a context, a      *)
(* query loads and tracks some rows, the code edits the tracked entities   *)
(* and SaveChangesAsync writes all of them in one transaction.  The        *)
(* Version column is a concurrency token, so the write takes effect only   *)
(* if every edited row still has the Version that was loaded; otherwise    *)
(* nothing is written and DbUpdateConcurrencyException is thrown.          *)
(***************************************************************************)
EXTENDS Naturals

VARIABLES
    rows,   \* the table: a function from the ids stored to their rows
    snap    \* snap[a]: the rows the open context of actor a tracks, as loaded

store == <<rows, snap>>

\* A context that tracks nothing, and an empty table.
Nothing == [id \in {} |-> {}]

Tracks(a, id) == id \in DOMAIN snap[a]

\* The tracked rows of a, as its query loaded them.
Loaded(ids) == [id \in ids |-> rows[id]]

\* Actor a opens a context and loads the rows of ids.
Load(a, ids) == snap' = [snap EXCEPT ![a] = Loaded(ids)]

\* Another query of the same context: a row that is tracked stays as it was
\* loaded.
LoadAlso(a, ids) ==
    snap' = [snap EXCEPT ![a] = [id \in DOMAIN @ \cup ids |->
                                   IF id \in DOMAIN @ THEN @[id] ELSE rows[id]]]

\* The contexts of the actors in A are disposed of.
Dispose(A) == snap' = [a \in DOMAIN snap |-> IF a \in A THEN Nothing ELSE snap[a]]

\* Mutant: Version is not a concurrency token.
Unchecked(a) == TRUE

\* No row that a tracks has been written since a loaded it.
Unchanged(a) == \A id \in DOMAIN snap[a] : rows[id].version = snap[a][id].version

\* SaveChangesAsync on the context of a, each tracked row edited by Edit.
Save(a, Edit(_)) ==
    /\ Unchanged(a)
    /\ rows' = [id \in DOMAIN rows |-> IF Tracks(a, id) THEN Edit(snap[a][id])
                                                        ELSE rows[id]]

\* A new row is stored under a fresh id.
Insert(id, row) ==
    /\ id \notin DOMAIN rows
    /\ rows' = [i \in DOMAIN rows \cup {id} |-> IF i = id THEN row ELSE rows[i]]

-----------------------------------------------------------------------------
\* Optimistic locking is sound: a context whose rows still carry the Version
\* it loaded holds exactly the stored rows, so Save never overwrites a change
\* it has not seen.  This fails as soon as one writer forgets Version++.
NoLostUpdate ==
    \A a \in DOMAIN snap : \A id \in DOMAIN snap[a] :
        /\ id \in DOMAIN rows
        /\ snap[a][id].version <= rows[id].version
        /\ snap[a][id].version = rows[id].version => snap[a][id] = rows[id]

\* Every write of a row increments its Version, and no row is ever deleted.
EveryWriteIsVersioned ==
    [][\A id \in DOMAIN rows :
           /\ id \in DOMAIN rows'
           /\ rows'[id] # rows[id] => rows'[id].version = rows[id].version + 1]_rows
=============================================================================
