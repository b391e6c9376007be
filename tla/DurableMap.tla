----------------------------- MODULE DurableMap -----------------------------
(* What auth/file-state.ts promises its callers: a map whose writes survive  *)
(* the process.  A crash keeps every write that returned, and of the batch   *)
(* being written a prefix of its records.  While the store is not `intact`   *)
(* (after a write that failed or fell short, or opened when it was empty),   *)
(* writes are not found later, and may make the store one that no open       *)
(* accepts: Lost, never a store that looks empty.                            *)
EXTENDS Integers, Sequences

CONSTANTS
    Keys,         \* the (type, id) pairs
    Vals,         \* their values
    None,         \* no value; in a record, a deletion
    Lost,         \* no map: the store is refused
    Batches       \* the sequences of records that are written at once

VARIABLES
    disk,         \* what the next open finds
    view,         \* what the process reads
    up,           \* a process has the store open
    intact,       \* what is written now will be found
    short         \* a rewrite once lost part of the map

dvars == <<disk, view, up, intact, short>>

Rec == [key : Keys, val : Vals \union {None}]
Empty == [k \in Keys |-> None]

\* The map after the records `b`: of several for a key the last one counts.
Apply(m, b) ==
    [k \in Keys |->
        LET at == {i \in 1..Len(b) : b[i].key = k}
        IN  IF at = {} THEN m[k] ELSE b[CHOOSE i \in at : \A j \in at : j <= i].val]

Submaps(m) == {[k \in Keys |-> IF k \in K THEN m[k] ELSE None] : K \in SUBSET Keys}

\* A write that is not completed leaves the first records of its batch; to a store
\* already damaged it does nothing, or makes it unreadable.
DPartly(b) ==
    \/ disk' = disk
    \/ ~intact /\ disk' = Lost
    \/ intact /\ \E n \in 1..Len(b) : disk' = Apply(disk, SubSeq(b, 1, n))

DInit == disk = Empty /\ view = Empty /\ up = FALSE /\ intact = TRUE /\ short = FALSE

DOpen ==
    /\ ~up /\ disk # Lost
    /\ up' = TRUE
    /\ view' = disk
    /\ intact' = TRUE \/ (disk = Empty /\ intact' = FALSE)
    /\ UNCHANGED <<disk, short>>

DWrite(b) ==
    /\ UNCHANGED <<intact, short>>
    /\ IF intact THEN disk' = Apply(disk, b) ELSE disk' \in {disk, Lost}

\* The store is written anew from what the process reads.
DRewrite ==
    /\ intact' = TRUE
    /\ UNCHANGED short
    /\ disk' = view'

\* That write falls short, and nobody notices.
DRewriteShort ==
    /\ short' = TRUE
    /\ intact' \in BOOLEAN
    /\ disk' \in Submaps(view')

\* It throws, or falls short.
DWriteFails(b) ==
    /\ intact' \in {intact, FALSE}
    /\ UNCHANGED short
    /\ DPartly(b)

DSet(b) ==
    /\ up /\ up'
    /\ view' = Apply(view, b)
    /\ DWrite(b) \/ DRewrite \/ DRewriteShort \/ DWriteFails(b)

DCrash(b) ==
    /\ up /\ ~up'
    /\ view' = Empty
    /\ UNCHANGED short
    /\ intact' = intact \/ (intact' = TRUE /\ disk' # Lost)
    /\ DPartly(b)

DNext == DOpen \/ DCrash(<< >>) \/ \E b \in Batches : DSet(b) \/ DCrash(b)

DSpec == DInit /\ [][DNext]_dvars
=============================================================================
