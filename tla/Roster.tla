------------------------------- MODULE Roster -------------------------------
(* The roster of contacts and the number/lid pairs (signal/lid.ts) on the    *)
(* JSON store (auth/json-state.ts).  A JavaScript Set is known by its        *)
(* identity: a call that was given one keeps it when `roster` is assigned    *)
(* another.  Between two awaits nothing else runs, so keys.get() answers     *)
(* with what was there when it was called, and keys.set() writes the file    *)
(* before it returns.                                                        *)
EXTENDS Integers, Sequences, SequencesExt

CONSTANTS
    Persons,
    Lids,         \* those of them who also have a lid
    Tasks,        \* calls of the store in progress at a time
    MaxSets,      \* bound: Set objects built by a process
    MaxFaults     \* bound: crashes and failed writes

ASSUME RosterAssumption == Lids \subseteq Persons

VARIABLES
    up,           \* a process has the store open
    registered,   \* creds of that process: paired, not fresh
    bucket,       \* its "lid-mapping" bucket: the stored roster and the pairs
    file,         \* the JSON file: NoFile, Torn or what was serialized
    sets,         \* the Set objects built by loadRoster
    live,         \* `roster`: the index of one of them, or 0
    tasks,
    faults,
    failed,       \* the last flush failed
    noted,        \* history: jids whose noteContact returned
    forgiven      \* history: of those, the ones the store may have lost

vars == <<up, registered, bucket, file, sets, live, tasks, faults, failed, noted, forgiven>>

Pn(p) == [person |-> p, server |-> "s.whatsapp.net"]
Lid(p) == [person |-> p, server |-> "lid"]
Jids == {Pn(p) : p \in Persons} \union {Lid(p) : p \in Lids}

Idle == [kind |-> "idle"]
Fresh == [roster |-> << >>, pairs |-> {}]
NoFile == [kind |-> "none"]
Torn == [kind |-> "torn"]
Whole(b, r) == [kind |-> "whole", bucket |-> b, registered |-> r]
People(list) == ToSet(list)

----------------------------------------------------------------------------
(* jsonAuthState. *)

\* Mutant: a file that is there is left alone.
FlushOnce(b, r) ==
    /\ file' = IF file.kind = "whole" THEN file ELSE Whole(b, r)
    /\ failed' = FALSE
    /\ UNCHANGED faults

\* flush(): the whole file is rewritten in place.  A write that fails may have
\* truncated it; the error is swallowed, the next flush tries again.
Flush(b, r) ==
    \/ file' = Whole(b, r) /\ failed' = FALSE /\ UNCHANGED faults
    \/ /\ faults < MaxFaults /\ faults' = faults + 1
       /\ failed' = TRUE
       /\ file' \in {file, Torn}

\* JSON.parse of what is there; a file that is torn counts as none.
Open ==
    /\ ~up
    /\ up' = TRUE
    /\ IF file.kind = "whole"
       THEN bucket' = file.bucket /\ registered' = file.registered
       ELSE bucket' = Fresh /\ registered' = FALSE
    /\ failed' = FALSE
    /\ UNCHANGED <<file, sets, live, tasks, faults, noted, forgiven>>

\* Pairing succeeds: saveCreds().
SaveCreds ==
    /\ up /\ ~registered
    /\ registered' = TRUE
    /\ Flush(bucket, TRUE)
    /\ UNCHANGED <<up, bucket, sets, live, tasks, noted, forgiven>>

\* The process dies, maybe inside the write of a flush.
Crash ==
    /\ up /\ faults < MaxFaults
    /\ faults' = faults + 1
    /\ up' = FALSE
    /\ file' \in {file, Torn}
    /\ forgiven' = IF file'.kind = "whole" THEN forgiven \union (noted \ People(file.bucket.roster))
                   ELSE noted
    /\ bucket' = Fresh /\ registered' = FALSE
    /\ sets' = << >> /\ live' = 0
    /\ tasks' = [t \in Tasks |-> Idle]
    /\ failed' = FALSE
    /\ UNCHANGED noted

----------------------------------------------------------------------------
(* noteContact. *)

\* loadRoster up to its await: the Set there is, or the stored list.
StartNote(t) ==
    \E j \in Jids :
        /\ up /\ tasks[t] = Idle
        /\ tasks' = [tasks EXCEPT ![t] =
                        IF live # 0 THEN [kind |-> "note", jid |-> j, set |-> live]
                        ELSE [kind |-> "load", jid |-> j, raw |-> bucket.roster]]
        /\ UNCHANGED <<up, registered, bucket, file, sets, live, faults, failed, noted, forgiven>>

\* contacts() on the Set numbered i, whose elements are those of list.
Walk(i, list) ==
    [kind |-> "list", set |-> i, at |-> 1, out |-> << >>, known |-> bucket.pairs, from |-> People(list)]

\* loadRoster after it: a Set of its own, whatever `roster` has become; then the
\* call that asked for it goes on.
LoadRoster(t) ==
    /\ tasks[t].kind \in {"load", "loadAll"} /\ Len(sets) < MaxSets
    /\ sets' = Append(sets, tasks[t].raw)
    /\ live' = Len(sets')
    /\ forgiven' = forgiven \union
           IF live = 0 THEN {} ELSE People(sets[live]) \ People(tasks[t].raw)
    /\ tasks' = [tasks EXCEPT ![t] = IF @.kind = "load" THEN [kind |-> "note", jid |-> @.jid, set |-> live']
                                    ELSE Walk(live', @.raw)]
    /\ UNCHANGED <<up, registered, bucket, file, faults, failed, noted>>

\* addToRoster after its await, and the keys.set() of a new jid.
AddToRoster(t) ==
    /\ tasks[t].kind = "note"
    /\ LET j == tasks[t].jid
           r == sets[tasks[t].set]
       IN  /\ IF j \in People(r)
              THEN UNCHANGED <<sets, bucket, file, faults, failed, forgiven>>
              ELSE /\ sets' = [sets EXCEPT ![tasks[t].set] = Append(r, j)]
                   /\ bucket' = [bucket EXCEPT !.roster = Append(r, j)]
                   /\ Flush(bucket', registered)
                   /\ forgiven' = (forgiven \ {j}) \union (People(bucket.roster) \ People(r)) \union
                                      IF tasks[t].set = live THEN {} ELSE {j}
           /\ noted' = noted \union {j}
    /\ tasks' = [tasks EXCEPT ![t] = Idle]
    /\ UNCHANGED <<up, registered, live>>

----------------------------------------------------------------------------
(* remember and contacts. *)

\* The two lookups, and after their await the two entries of the pair.
StartRemember(t) ==
    \E p \in Lids :
        /\ up /\ tasks[t] = Idle
        /\ p \notin bucket.pairs
        /\ tasks' = [tasks EXCEPT ![t] = [kind |-> "pair", person |-> p]]
        /\ UNCHANGED <<up, registered, bucket, file, sets, live, faults, failed, noted, forgiven>>

Remember(t) ==
    /\ tasks[t].kind = "pair"
    /\ bucket' = [bucket EXCEPT !.pairs = @ \union {tasks[t].person}]
    /\ Flush(bucket', registered)
    /\ tasks' = [tasks EXCEPT ![t] = Idle]
    /\ UNCHANGED <<up, registered, sets, live, noted, forgiven>>

\* contacts() loads the roster like addToRoster; the Set is walked with an await
\* for every lid, and what is added meanwhile is walked too.
StartContacts(t) ==
    /\ up /\ tasks[t] = Idle
    /\ tasks' = [tasks EXCEPT ![t] = IF live # 0 THEN Walk(live, sets[live])
                                    ELSE [kind |-> "loadAll", raw |-> bucket.roster]]
    /\ UNCHANGED <<up, registered, bucket, file, sets, live, faults, failed, noted, forgiven>>

\* Mutant: a lid stays a lid.
AsIs(j, pairs) == j

\* The number of a lid whose number is known.
Canonical(j, pairs) == IF j.person \in pairs THEN Pn(j.person) ELSE j

WalkContacts(t) ==
    /\ tasks[t].kind = "list"
    /\ LET r == sets[tasks[t].set]
       IN  /\ tasks[t].at <= Len(r)
           /\ LET c == Canonical(r[tasks[t].at], bucket.pairs)
              IN  tasks' = [tasks EXCEPT ![t].at = @ + 1,
                                         ![t].out = IF c \in People(@) THEN @ ELSE Append(@, c)]
    /\ UNCHANGED <<up, registered, bucket, file, sets, live, faults, failed, noted, forgiven>>

Walked(t) == tasks[t].kind = "list" /\ tasks[t].at > Len(sets[tasks[t].set])

ReturnContacts(t) ==
    /\ Walked(t)
    /\ tasks' = [tasks EXCEPT ![t] = Idle]
    /\ UNCHANGED <<up, registered, bucket, file, sets, live, faults, failed, noted, forgiven>>

----------------------------------------------------------------------------

Init ==
    /\ up = FALSE /\ registered = FALSE
    /\ bucket = Fresh /\ file = NoFile
    /\ sets = << >> /\ live = 0
    /\ tasks = [t \in Tasks |-> Idle]
    /\ faults = 0 /\ failed = FALSE
    /\ noted = {} /\ forgiven = {}

Next ==
    \/ Open \/ SaveCreds \/ Crash
    \/ \E t \in Tasks :
          \/ StartNote(t) \/ LoadRoster(t) \/ AddToRoster(t)
          \/ StartRemember(t) \/ Remember(t)
          \/ StartContacts(t) \/ WalkContacts(t) \/ ReturnContacts(t)

Spec == Init /\ [][Next]_vars

----------------------------------------------------------------------------

\* Once noteContact returned, the contact is in the roster, in its stored copy and
\* in the file, through every order of calls and every restart.  He may only be
\* missing after two first calls each built a roster (loadRoster reads `roster`
\* before its await), and after a crash that tore the file or followed a failed
\* flush; his next message brings him back.
ContactsKept ==
    \A j \in noted \ forgiven :
        /\ up => j \in People(bucket.roster)
        /\ live # 0 => j \in People(sets[live])
        /\ ~failed => file.kind = "whole" /\ j \in People(file.bucket.roster)

\* contacts() names everybody who was in the roster when it was called, and nobody
\* twice whose number and lid were known to be one person when its walk began.
PersonOnce ==
    \A t \in Tasks :
        Walked(t) =>
            /\ \A j \in tasks[t].from : \E c \in People(tasks[t].out) : c.person = j.person
            /\ \A p \in tasks[t].known : ~({Pn(p), Lid(p)} \subseteq People(tasks[t].out))
============================================================================
