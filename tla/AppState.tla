----------------------------- MODULE AppState -----------------------------
(* The synchronisation of app state (appstate/layer.ts, index.ts): resync   *)
(* and pushPatch, several of them at a time, against a server that keeps a  *)
(* log of patches per collection and cannot read them, and another device   *)
(* of the account.  A patch carries one mutation; its value MAC is a number *)
(* of its own, and the LT-hash is the count of each MAC in it: its lanes add *)
(* and subtract modulo 2^16, which is a group, so a count tells no less.    *)
(* A patch commits to the hash after it, as its snapshotMac does.  The MAC  *)
(* of an index depends on the key: under two keys it has two records.       *)
EXTENDS Integers, Sequences, FiniteSetsExt

CONSTANTS
    NCols,        \* collections, in the order of ALL_PATCH_NAMES
    Pushed,       \* those this code pushes to
    NIdx,         \* indexes of a collection
    Tasks,        \* resyncs and pushes in progress at a time
    Page,         \* patches in one answer
    MaxKeys,      \* bound: sync keys
    MaxMacs,      \* bound: mutations made
    MaxFaults     \* bound: failed queries and restarts

ASSUME AppStateAssumption ==
    /\ NCols \in Nat \ {0} /\ Pushed \subseteq 1..NCols /\ NIdx \in Nat \ {0}
    /\ Page \in Nat \ {0} /\ MaxKeys \in Nat \ {0} /\ MaxMacs \in Nat \ {0}

VARIABLES
    log,          \* external: the patches of each collection
    stored,       \* the LTHashState in the key store
    tasks,        \* the calls of resync and pushPatch in progress
    have,         \* sync keys ingested
    uses,         \* external: the key the other device uses
    notes,        \* server_sync notifications on their way
    todo,         \* collections a resync of all is owed for: login, key share
    macs,         \* mutations made
    view,         \* what the listener of the events holds, by index
    faults,
    diverged,     \* history: collections whose stored state a server never had
    excused,      \* history: collections whose last resync did not do its work
    overlapped    \* history: collections in which an older state was saved or shown over a newer one

vars == <<log, stored, tasks, have, uses, notes, todo, macs, view, faults, diverged, excused,
          overlapped>>

Cols == 1..NCols
Idx == 1..NIdx
Macs == 1..MaxMacs
IndexMacs == Idx \X (1..MaxKeys)
NewState == [version |-> 0, map |-> [x \in IndexMacs |-> 0], hash |-> [m \in Macs |-> 0]]
Idle == [kind |-> "idle"]

----------------------------------------------------------------------------
(* The hash and the mutations. *)

IndexMac(p) == <<p.idx, p.key>>

SubtractThenAdd(hash, sub, add) ==
    [m \in Macs |-> hash[m] - (IF m \in sub THEN 1 ELSE 0) + (IF m \in add THEN 1 ELSE 0)]

\* Mutant: a value that is replaced stays in the hash.
MixAdds(s, p) ==
    IF p.op = "REMOVE" /\ s.map[IndexMac(p)] = 0 THEN [s EXCEPT !.version = @ + 1]
    ELSE [version |-> s.version + 1,
          map |-> [s.map EXCEPT ![IndexMac(p)] = IF p.op = "SET" THEN p.mac ELSE 0],
          hash |-> SubtractThenAdd(s.hash, {}, IF p.op = "SET" THEN {p.mac} ELSE {})]

\* makeLtHashGenerator: mix and finish, for a patch of one mutation.
Mix(s, p) ==
    IF p.op = "REMOVE" /\ s.map[IndexMac(p)] = 0 THEN [s EXCEPT !.version = @ + 1]
    ELSE [version |-> s.version + 1,
          map |-> [s.map EXCEPT ![IndexMac(p)] = IF p.op = "SET" THEN p.mac ELSE 0],
          hash |-> SubtractThenAdd(s.hash, {s.map[IndexMac(p)]} \ {0},
                                   IF p.op = "SET" THEN {p.mac} ELSE {})]

\* The state after `v` patches, and the hash of a set of values.
Truth(c, v) == IF v = 0 THEN NewState ELSE log[c][v].after
Sound(c, s) == s.version <= Len(log[c]) /\ s = Truth(c, s.version)
HashOf(map) == SubtractThenAdd(NewState.hash, {}, {map[x] : x \in IndexMacs} \ {0})

\* What a snapshotMac covers (the key and the collection are those of the patch).
SnapshotMac(s) == [version |-> s.version, hash |-> s.hash]

\* A mutation: the operation, its index and key, and the MAC of its value.
Mutations == [op : {"SET", "REMOVE"}, idx : Idx, key : 1..MaxKeys, mac : Macs]

\* A patch with its commitment, as encodeSyncdPatch makes it from a state.
Patch(s, m) == [op |-> m.op, idx |-> m.idx, key |-> m.key, mac |-> m.mac,
                commits |-> SnapshotMac(Mix(s, m))]
\* The log, with the state after each of its patches.
Entry(s, p) == [op |-> p.op, idx |-> p.idx, key |-> p.key, mac |-> p.mac,
                commits |-> p.commits, after |-> Mix(s, p)]
Logged(c, p) == Append(log[c], Entry(Truth(c, Len(log[c])), p))

\* decodeSyncdPatch throws when the key is missing or the state after the patch is not
\* the one it commits to.
Decodes(s, p) == p.key <= have /\ SnapshotMac(Mix(s, p)) = p.commits

\* decodePatches: the states along the patches, the first being `s`.
Along(s, patches) ==
    LET f[i \in 0..Len(patches)] == IF i = 0 THEN s ELSE Mix(f[i - 1], patches[i])
    IN  f
\* decodeSyncdSnapshot needs the key of every record, too.
SnapshotDecodes(r) == \A k \in r.keys : k <= have
AllDecode(r) ==
    /\ SnapshotDecodes(r)
    /\ \A i \in DOMAIN r.patches : Decodes(Along(r.start, r.patches)[i - 1], r.patches[i])

----------------------------------------------------------------------------
Init ==
    /\ log = [c \in Cols |-> << >>] /\ stored = [c \in Cols |-> NewState]
    /\ tasks = [t \in Tasks |-> Idle]
    /\ have = 0 /\ uses = 1 /\ notes = {} /\ todo = FALSE
    /\ macs = 0 /\ view = [c \in Cols |-> [i \in Idx |-> 0]]
    /\ faults = 0 /\ diverged = {} /\ excused = {} /\ overlapped = {}

Fault == faults < MaxFaults /\ faults' = faults + 1

\* History: the state `s` of `c` was made from a true one, or not.
Tells(c, s, true) ==
    /\ diverged' = IF true \/ Sound(c, s) THEN diverged ELSE diverged \union {c}
    /\ overlapped' = IF s.version < stored[c].version THEN overlapped \union {c} ELSE overlapped

\* External: another device sets an index, with its key or a new one, or removes a
\* record, under the key of that; and we are told.
OtherPatch(c, op, i, key) ==
    /\ macs < MaxMacs /\ macs' = macs + 1
    /\ IF op = "REMOVE" THEN Truth(c, Len(log[c])).map[<<i, key>>] # 0 ELSE key \in uses..(uses + 1)
    /\ uses' = Max({uses, key})
    /\ LET m == [op |-> op, idx |-> i, key |-> key, mac |-> macs + 1]
       IN  log' = [log EXCEPT ![c] = Logged(c, Patch(Truth(c, Len(@)), m))]
    /\ notes' = notes \union {c}
    /\ UNCHANGED <<stored, tasks, have, todo, view, faults, diverged, excused, overlapped>>

\* The listener of messages.upsert: ingestKeys, then resync of everything.
ShareKeys ==
    /\ have < uses /\ have' = uses /\ todo' = TRUE
    /\ UNCHANGED <<log, stored, tasks, uses, notes, macs, view, faults, diverged, excused, overlapped>>

\* A restart: the calls die; the login resyncs, once per process.
Restart ==
    /\ Fault /\ tasks' = [t \in Tasks |-> Idle] /\ todo' = (have > 0)
    /\ UNCHANGED <<log, stored, have, uses, notes, macs, view, diverged, excused, overlapped>>

----------------------------------------------------------------------------
(* resync. *)

Asking(names) ==
    [kind |-> "resync", phase |-> "asked", names |-> names, left |-> names, more |-> FALSE,
     from |-> [c \in names |-> stored[c]], reply |-> << >>]

\* hasKeys(): without a key nothing is asked for, and nothing is owed either.
StartResync(t, names) ==
    /\ tasks[t] = Idle
    /\ IF have = 0
       THEN excused' = excused \union names /\ UNCHANGED tasks
       ELSE tasks' = [tasks EXCEPT ![t] = Asking(names)] /\ UNCHANGED excused
    /\ UNCHANGED <<log, stored, have, uses, macs, view, faults, diverged, overlapped>>

HandleNote(t) ==
    /\ \E c \in notes : StartResync(t, {c}) /\ notes' = notes \ {c}
    /\ UNCHANGED todo
ResyncAll(t) ==
    /\ todo /\ StartResync(t, Cols) /\ todo' = FALSE
    /\ UNCHANGED notes

Holds(s, p) == s.map[IndexMac(p)] = p.mac

\* What the server answers for a collection: a page of patches, after a snapshot
\* if one was asked for; its snapshots are one patch old.
Answer(c, from) ==
    LET base == IF from.version = 0 THEN Max({0, Len(log[c]) - 1}) ELSE from.version
        last == Min({base + Page, Len(log[c])})
    IN  [start |-> IF base = from.version THEN from ELSE Truth(c, base),
         keys |-> IF base = from.version THEN {}
                  ELSE {log[c][v].key : v \in {w \in 1..base : Holds(Truth(c, base), log[c][w])}},
         patches |-> SubSeq(log[c], base + 1, last),
         more |-> last < Len(log[c])]

ServerAnswers(t) ==
    /\ tasks[t].kind = "resync" /\ tasks[t].phase = "asked"
    /\ tasks' = [tasks EXCEPT ![t].phase = "answered", ![t].reply =
          [c \in tasks[t].names |-> Answer(c, tasks[t].from[c])]]
    /\ UNCHANGED <<log, stored, have, uses, notes, todo, macs, view, faults, diverged, excused, overlapped>>

\* The query is rejected; resync logs it and is not tried again.
ResyncFails(t) ==
    /\ tasks[t].kind = "resync" /\ tasks[t].phase = "asked" /\ Fault
    /\ tasks' = [tasks EXCEPT ![t] = Idle]
    /\ excused' = excused \union tasks[t].names
    /\ UNCHANGED <<log, stored, have, uses, notes, todo, macs, view, diverged, overlapped>>

Records(s, i) == {s.map[<<i, k>>] : k \in 1..MaxKeys} \ {0}

\* applyMutations: the events of a snapshot and of patches, the last one of an index
\* wins; of two records of a snapshot that have one index, here the newer.
Emitted(v, start, from, patches) ==
    LET shown == IF start = from THEN v
                 ELSE [i \in Idx |-> Max(Records(start, i) \union
                                         (IF Records(start, i) = {} THEN {v[i]} ELSE {}))]
        f[k \in 0..Len(patches)] ==
            IF k = 0 THEN shown ELSE [f[k - 1] EXCEPT ![patches[k].idx] = patches[k].mac]
    IN  f[Len(patches)]

\* Mutant: has_more_patches is not looked at.
EndsResync(t, more) == [tasks EXCEPT ![t] = Idle]

\* After the last collection: once more for all of them, or the end.
AfterLast(t, more) ==
    [tasks EXCEPT ![t] =
        IF more THEN [Asking(tasks[t].names) EXCEPT !.from = [c \in tasks[t].names |-> stored'[c]]]
        ELSE Idle]

\* Mutant: the patches go on top of what is stored by then.
DecodedOnStored(c, r) == Along(stored[c], r.patches)[Len(r.patches)]
\* decodePatches goes on from the state of the request, or from the snapshot.
Decoded(c, r) == Along(r.start, r.patches)[Len(r.patches)]

\* One collection of the answer: decoded, its events emitted, its state saved.
Apply(t) ==
    /\ tasks[t].kind = "resync" /\ tasks[t].phase = "answered"
    /\ LET c == Min(tasks[t].left)
           r == tasks[t].reply[c]
           new == Decoded(c, r)
           left == tasks[t].left \ {c}
           more == tasks[t].more \/ r.more
       IN  /\ AllDecode(r)
           /\ stored' = [stored EXCEPT ![c] = new]
           /\ view' = [view EXCEPT ![c] = Emitted(@, r.start, tasks[t].from[c], r.patches)]
           /\ tasks' = IF left = {} THEN AfterLast(t, more)
                       ELSE [tasks EXCEPT ![t].left = left, ![t].more = more]
           /\ excused' = IF new.version = Len(log[c]) THEN excused \ {c}
                         ELSE IF new.version < stored[c].version THEN excused \union {c}
                         ELSE excused
           /\ Tells(c, new, Sound(c, r.start))
    /\ UNCHANGED <<log, have, uses, notes, todo, macs, faults>>

\* One that does not decode ends the resync: the collections that are left and the
\* next pages of all of them are not asked for.  When it is a patch that does not,
\* the events of the snapshot under it were emitted.
ApplyThrows(t) ==
    /\ tasks[t].kind = "resync" /\ tasks[t].phase = "answered"
    /\ LET c == Min(tasks[t].left)
           r == tasks[t].reply[c]
           from == tasks[t].from[c]
           shown == SnapshotDecodes(r) /\ r.start # from
       IN  /\ ~AllDecode(r)
           /\ view' = IF shown THEN [view EXCEPT ![c] = Emitted(@, r.start, from, << >>)] ELSE view
           /\ overlapped' = IF shown /\ r.start.version < stored[c].version
                            THEN overlapped \union {c} ELSE overlapped
    /\ tasks' = [tasks EXCEPT ![t] = Idle]
    /\ excused' = excused \union tasks[t].left
                \union {c \in tasks[t].names : tasks[t].reply[c].more}
    /\ UNCHANGED <<log, stored, have, uses, notes, todo, macs, faults, diverged>>

----------------------------------------------------------------------------
(* pushPatch. *)

\* chatModificationToAppPatch: every modification SETs one index.
Modified(i, mac) == [op |-> "SET", idx |-> i, key |-> have, mac |-> mac]

\* loadState, and encodeSyncdPatch with our newest key.
StartPush(t, c, i) ==
    /\ tasks[t] = Idle /\ have > 0 /\ macs < MaxMacs /\ macs' = macs + 1
    /\ LET p == Patch(stored[c], Modified(i, macs + 1))
       IN  tasks' = [tasks EXCEPT ![t] =
              [kind |-> "push", phase |-> "asked", col |-> c, patch |-> p, taken |-> FALSE,
               base |-> stored[c].version, next |-> Mix(stored[c], p)]]
    /\ UNCHANGED <<log, stored, have, uses, notes, todo, view, faults, diverged, excused, overlapped>>

\* External: the server takes a patch for the version it is at.  It answers with a
\* result in either case; the error is in the collection.
ServerTakes(t) ==
    /\ tasks[t].kind = "push" /\ tasks[t].phase = "asked"
    /\ LET c == tasks[t].col
           takes == tasks[t].base = Len(log[c])
           p == tasks[t].patch
       IN  /\ log' = IF takes THEN [log EXCEPT ![c] = Logged(c, p)] ELSE log
           /\ tasks' = [tasks EXCEPT ![t].phase = "answered", ![t].taken =
                            takes /\ p.commits = SnapshotMac(Mix(Truth(c, Len(log[c])), p))]
    /\ UNCHANGED <<stored, have, uses, notes, todo, macs, view, faults, diverged, excused, overlapped>>

\* The query is rejected; whether the server took the patch is not known.
PushFails(t) ==
    /\ tasks[t].kind = "push" /\ Fault
    /\ tasks' = [tasks EXCEPT ![t] = Idle]
    /\ excused' = excused \union {tasks[t].col}
    /\ UNCHANGED <<log, stored, have, uses, notes, todo, macs, view, diverged, overlapped>>

\* Mutant: the events of our own patch are not emitted.
ShowsNothing(c, p) == UNCHANGED view
ShowsOwn(c, p) == view' = [view EXCEPT ![c][p.idx] = p.mac]

\* The answer is not looked at: the new state is saved and the events emitted.
SavePush(t) ==
    /\ tasks[t].kind = "push" /\ tasks[t].phase = "answered"
    /\ LET c == tasks[t].col
           next == tasks[t].next
       IN  /\ stored' = [stored EXCEPT ![c] = next]
           /\ ShowsOwn(c, tasks[t].patch)
           /\ Tells(c, next, tasks[t].taken)
           /\ excused' = IF next.version < stored[c].version THEN excused \union {c} ELSE excused
    /\ tasks' = [tasks EXCEPT ![t] = Idle]
    /\ UNCHANGED <<log, have, uses, notes, todo, macs, faults>>

----------------------------------------------------------------------------
Next ==
    \/ \E c \in Cols, op \in {"SET", "REMOVE"}, i \in Idx, key \in 1..MaxKeys :
          OtherPatch(c, op, i, key)
    \/ \E t \in Tasks :
          \/ HandleNote(t) \/ ResyncAll(t) \/ ServerAnswers(t) \/ ResyncFails(t)
          \/ Apply(t) \/ ApplyThrows(t)
          \/ ServerTakes(t) \/ PushFails(t) \/ SavePush(t)
          \/ \E c \in Pushed, i \in Idx : StartPush(t, c, i)
    \/ ShareKeys \/ Restart
Spec == Init /\ [][Next]_vars

----------------------------------------------------------------------------
(* Properties. *)

Hashes == [Macs -> {0, 1}]
States == [version : 0..MaxMacs, map : [IndexMacs -> 0..MaxMacs], hash : Hashes]

\* The shape of what is stored, shown and in progress; a resync has a collection left
\* to do for as long as it lasts.
TypeOK ==
    /\ stored \in [Cols -> States] /\ view \in [Cols -> [Idx -> 0..MaxMacs]]
    /\ have \in 0..uses /\ uses \in 1..MaxKeys /\ notes \subseteq Cols /\ todo \in BOOLEAN
    /\ \A t \in Tasks :
          \/ tasks[t].kind = "idle"
          \/ tasks[t].kind = "push" /\ tasks[t].next \in States
             /\ [f \in {"op", "idx", "key", "mac"} |-> tasks[t].patch[f]] \in Mutations
          \/ /\ tasks[t].kind = "resync" /\ tasks[t].left # {} /\ tasks[t].left \subseteq tasks[t].names
             /\ tasks[t].from \in [tasks[t].names -> States]
    /\ diverged \subseteq Cols /\ excused \subseteq Cols

\* The stored hash is the one of the stored values, whatever was removed, replaced,
\* pushed or applied from a snapshot, and in whatever order.
HashOfMap == \A c \in Cols : stored[c].hash = HashOf(stored[c].map)

\* The stored version, values and hash are together what the server's log had at that
\* version, across concurrent resyncs and pushes, failures and restarts; except in a
\* collection for which a push was saved that the server had refused.
StateIsHistory == \A c \in Cols \ diverged : Sound(c, stored[c])

Quiet == notes = {} /\ ~todo /\ \A t \in Tasks : tasks[t] = Idle

\* When nothing is in progress, every collection is at the server's version, or its
\* last resync failed, or an older state was saved over a newer one.
SyncedWhenQuiet ==
    Quiet => \A c \in Cols \ (diverged \union excused) : stored[c].version = Len(log[c])

\* Then a listener that keeps the last event of each index has the server's value of
\* every index that has one record and was not removed last: the event of a REMOVE
\* carries the value that goes, and is not told from a SET.
SetLast(c, i) ==
    \E v \in DOMAIN log[c] : /\ log[c][v].idx = i /\ log[c][v].op = "SET"
                             /\ \A w \in DOMAIN log[c] : w > v => log[c][w].idx # i
ViewFollows ==
    Quiet => \A c \in Cols \ (diverged \union excused \union overlapped) : \A i \in Idx :
        SetLast(c, i) /\ Cardinality(Records(stored[c], i)) = 1 => Records(stored[c], i) = {view[c][i]}
===========================================================================
