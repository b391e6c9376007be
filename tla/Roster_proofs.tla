---------------------------- MODULE Roster_proofs ----------------------------
(* Proofs about Roster: a contact is kept and contacts() names a person once, *)
(* for any persons, any number of calls at a time and of Sets.                *)
EXTENDS Roster, SequenceTheorems, TLAPS

Bucket == [roster : Seq(Jids), pairs : SUBSET Lids]
File == {NoFile, Torn} \union [kind : {"whole"}, bucket : Bucket, registered : BOOLEAN]

(* A call between two awaits.                                                *)
Loading == [kind : {"load"}, jid : Jids, raw : Seq(Jids)] \union [kind : {"loadAll"}, raw : Seq(Jids)]
Noting == [kind : {"note"}, jid : Jids, set : Nat]
Pairing == [kind : {"pair"}, person : Lids]
Listing ==
    [kind : {"list"}, set : Nat, at : Nat \ {0}, out : Seq(Jids), known : SUBSET Lids, from : SUBSET Jids]
Task == {Idle} \union Loading \union Noting \union Pairing \union Listing

(* The last Set built is the roster, and nothing outlives its process.       *)
Shape ==
    /\ up \in BOOLEAN /\ registered \in BOOLEAN /\ failed \in BOOLEAN
    /\ bucket \in Bucket /\ file \in File
    /\ sets \in Seq(Seq(Jids)) /\ live = Len(sets)
    /\ tasks \in [Tasks -> Task]
    /\ noted \subseteq Jids
    /\ ~up => sets = << >> /\ ~failed /\ \A t \in Tasks : tasks[t] = Idle

(* A call walks or adds to a Set that exists; one that loads the first Set   *)
(* has what is stored.                                                       *)
TaskInv(task) ==
    /\ task.kind \in {"note", "list"} => task.set \in DOMAIN sets
    /\ task.kind \in {"load", "loadAll"} /\ sets = << >> => task.raw = bucket.roster

(* A jid that the process has: stored, in a Set, or in a list it was given.  *)
Seen(j) ==
    \/ up /\ j \in People(bucket.roster)
    \/ \E i \in DOMAIN sets : j \in People(sets[i])
    \/ \E t \in Tasks : tasks[t].kind \in {"load", "loadAll"} /\ j \in People(tasks[t].raw)

Stored(j) ==
    /\ up => j \in People(bucket.roster)
    /\ sets # << >> => j \in People(sets[Len(sets)])
    /\ ~failed => file.kind = "whole" /\ j \in People(file.bucket.roster)

(* Not only what was noted: all that was ever seen is stored or forgiven.    *)
KeptInv == \A j \in Jids : (j \in noted \/ Seen(j)) /\ j \notin forgiven => Stored(j)

(* What contacts() has of those it has walked.                               *)
Named(task) ==
    /\ task.known \subseteq bucket.pairs
    /\ task.from \subseteq People(sets[task.set])
    /\ task.at <= Len(sets[task.set]) + 1
    /\ \A i \in DOMAIN sets[task.set] :
          i < task.at => \E c \in People(task.out) : c.person = sets[task.set][i].person
    /\ \A p \in task.known : Lid(p) \notin People(task.out)
ListInv == \A t \in Tasks : tasks[t].kind = "list" => Named(tasks[t])

Inv == Shape /\ (\A t \in Tasks : TaskInv(tasks[t])) /\ KeptInv /\ ListInv

-----------------------------------------------------------------------------

LEMMA JidFacts ==
  ASSUME NEW j \in Jids, NEW pairs \in SUBSET Lids
  PROVE  /\ Canonical(j, pairs) \in Jids /\ Canonical(j, pairs).person = j.person
         /\ \A p \in pairs : Canonical(j, pairs) # Lid(p)
  BY RosterAssumption DEF Jids, Canonical, Pn, Lid

LEMMA PeopleOf ==
  ASSUME NEW s \in Seq(Jids)
  PROVE  /\ People(s) \subseteq Jids
         /\ \A i \in DOMAIN s : s[i] \in People(s)
         /\ \A j \in People(s) : \E i \in DOMAIN s : s[i] = j
  BY DEF People, ToSet

LEMMA PeopleAppend ==
  ASSUME NEW s \in Seq(Jids), NEW j \in Jids
  PROVE  /\ Append(s, j) \in Seq(Jids)
         /\ People(Append(s, j)) = People(s) \union {j}
         /\ DOMAIN s \subseteq DOMAIN Append(s, j)
         /\ \A i \in DOMAIN s : Append(s, j)[i] = s[i]
         /\ \A i \in DOMAIN Append(s, j) : i \in DOMAIN s \/ i = Len(s) + 1
<1>1. /\ Append(s, j) \in Seq(Jids) /\ Len(Append(s, j)) = Len(s) + 1
      /\ \A i \in 1..Len(s) : Append(s, j)[i] = s[i]
      /\ Append(s, j)[Len(s) + 1] = j /\ DOMAIN s = 1..Len(s)
      /\ DOMAIN Append(s, j) = 1..Len(s) + 1
  OBVIOUS
<1>2. ASSUME NEW x \in People(Append(s, j)) PROVE x \in People(s) \union {j}
  BY <1>1 DEF People, ToSet
<1>3. ASSUME NEW x \in People(s) \union {j} PROVE x \in People(Append(s, j))
  <2>1. CASE x = j
    BY <1>1, <2>1 DEF People, ToSet
  <2>2. CASE x \in People(s)
    <3>1. PICK i \in DOMAIN s : s[i] = x
      BY <2>2 DEF People, ToSet
    <3>2. i \in DOMAIN Append(s, j) /\ Append(s, j)[i] = x
      BY <1>1, <3>1
    <3>3. QED
      BY <3>2 DEF People, ToSet
  <2>3. QED
    BY <1>3, <2>1, <2>2
<1>4. QED
  BY <1>1, <1>2, <1>3

LEMMA PeopleEmpty == People(<< >>) = {}
  BY DEF People, ToSet

(* A flush that did not fail wrote what it was given.                        *)
LEMMA Flushed ==
  ASSUME NEW b \in Bucket, NEW r \in BOOLEAN, Flush(b, r), file \in File
  PROVE  /\ file' \in File /\ failed' \in BOOLEAN
         /\ ~failed' => file'.kind = "whole" /\ file'.bucket = b
<1>1. PICK w : w = Whole(b, r)
  OBVIOUS
<1>2. w \in File /\ w.kind = "whole" /\ w.bucket = b /\ Torn \in File
  BY <1>1 DEF Whole, File
<1>3. \/ file' = w /\ failed' = FALSE
      \/ failed' = TRUE /\ file' \in {file, Torn}
  BY <1>1 DEF Flush
<1>4. QED
  BY <1>2, <1>3

LEMMA InitInv == Init => Inv
<1> SUFFICES ASSUME Init PROVE Inv
  OBVIOUS
<1>1. Fresh \in Bucket /\ NoFile \in File
  BY DEF Fresh, Bucket, File
<1>2. Shape
  <2>1. sets = << >> /\ sets \in Seq(Seq(Jids)) /\ live = Len(sets)
    BY DEF Init
  <2>2. tasks \in [Tasks -> Task] /\ \A t \in Tasks : tasks[t] = Idle
    BY DEF Init, Task
  <2>3. QED
    BY <1>1, <2>1, <2>2 DEF Init, Shape
<1>3. \A t \in Tasks : tasks[t].kind = "idle"
  BY DEF Init, Idle
<1>4. \A j \in Jids : ~Seen(j) /\ j \notin noted
  BY <1>3 DEF Init, Seen
<1>5. QED
  BY <1>2, <1>3, <1>4 DEF Inv, TaskInv, KeptInv, ListInv

LEMMA Facts ==
  ASSUME Inv
  PROVE  /\ up \in BOOLEAN /\ registered \in BOOLEAN /\ failed \in BOOLEAN
         /\ bucket \in Bucket /\ bucket.roster \in Seq(Jids) /\ bucket.pairs \in SUBSET Lids
         /\ file \in File /\ sets \in Seq(Seq(Jids)) /\ live = Len(sets) /\ Len(sets) \in Nat
         /\ tasks \in [Tasks -> Task] /\ noted \subseteq Jids
         /\ ~up => sets = << >> /\ ~failed /\ \A t \in Tasks : tasks[t].kind = "idle"
         /\ \A t \in Tasks : TaskInv(tasks[t])
  BY DEF Inv, Shape, Bucket, Idle

-----------------------------------------------------------------------------
(* The process opens and dies: what the file has is what counts.             *)

LEMMA OpenKeeps == Inv /\ Open => Inv'
<1> SUFFICES ASSUME Inv, Open PROVE Inv'
  OBVIOUS
<1>1. /\ ~up /\ up' = TRUE /\ failed' = FALSE
      /\ UNCHANGED <<file, sets, live, tasks, noted, forgiven>>
  BY DEF Open
<1>2. bucket' \in Bucket /\ registered' \in BOOLEAN /\ (file.kind = "whole" => bucket' = file.bucket)
  <2>1. Fresh \in Bucket
    BY DEF Fresh, Bucket
  <2>2. file.kind = "whole" => file.bucket \in Bucket /\ file.registered \in BOOLEAN
    BY Facts DEF File, NoFile, Torn
  <2>3. QED
    BY <2>1, <2>2 DEF Open
<1>3. /\ sets = << >> /\ ~failed /\ \A t \in Tasks : tasks[t].kind = "idle"
  BY <1>1, Facts
<1>4. Shape'
  BY <1>1, <1>2, Facts DEF Shape
<1>5. \A t \in Tasks : TaskInv(tasks[t])'
  BY <1>1, <1>3 DEF TaskInv
<1>6. ASSUME NEW j \in Jids, Seen(j)' PROVE file.kind = "whole" /\ j \in People(file.bucket.roster)
  <2>1. j \in People(bucket'.roster)
    BY <1>1, <1>3, <1>6 DEF Seen
  <2>2. People(Fresh.roster) = {}
    BY PeopleEmpty DEF Fresh
  <2>3. QED
    BY <2>1, <2>2 DEF Open
<1>7. KeptInv'
  BY <1>1, <1>2, <1>3, <1>6 DEF Inv, KeptInv, Stored
<1>8. ListInv'
  BY <1>1, <1>3 DEF ListInv
<1>9. QED
  BY <1>4, <1>5, <1>7, <1>8 DEF Inv

LEMMA CrashKeeps == Inv /\ Crash => Inv'
<1> SUFFICES ASSUME Inv, Crash PROVE Inv'
  OBVIOUS
<1>1. /\ up' = FALSE /\ file' \in {file, Torn} /\ bucket' = Fresh /\ registered' = FALSE
      /\ sets' = << >> /\ live' = 0 /\ failed' = FALSE /\ noted' = noted
      /\ tasks' = [t \in Tasks |-> Idle]
      /\ forgiven' = IF file'.kind = "whole" THEN forgiven \union (noted \ People(file.bucket.roster))
                     ELSE noted
  BY DEF Crash
<1>2. file' \in File /\ (file'.kind = "whole" => file' = file)
  BY <1>1, Facts DEF File, Torn
<1>3. Fresh \in Bucket /\ \A t \in Tasks : tasks'[t] = Idle /\ tasks'[t].kind = "idle"
  BY <1>1 DEF Fresh, Bucket, Idle
<1>4. Shape'
  <2>1. sets' \in Seq(Seq(Jids)) /\ live' = Len(sets')
    BY <1>1
  <2>2. tasks' \in [Tasks -> Task]
    BY <1>1 DEF Task
  <2>3. QED
    BY <1>1, <1>2, <1>3, <2>1, <2>2, Facts DEF Shape
<1>5. \A t \in Tasks : TaskInv(tasks[t])'
  BY <1>3 DEF TaskInv
<1>6. \A j \in Jids : ~Seen(j)'
  BY <1>1, <1>3 DEF Seen
<1>7. KeptInv'
  BY <1>1, <1>2, <1>6 DEF KeptInv, Stored
<1>8. ListInv'
  BY <1>3 DEF ListInv
<1>9. QED
  BY <1>4, <1>5, <1>7, <1>8 DEF Inv

-----------------------------------------------------------------------------
(* A flush of the bucket as it is, or with one more pair.                    *)

LEMMA BucketFlushed ==
  ASSUME Inv, up, NEW pairs \in SUBSET Lids, bucket.pairs \subseteq pairs,
         bucket' = [bucket EXCEPT !.pairs = pairs],
         NEW r \in BOOLEAN, registered' = r, Flush(bucket', r),
         UNCHANGED <<up, sets, live, noted, forgiven>>,
         tasks' \in [Tasks -> Task],
         \A t \in Tasks : tasks'[t] = tasks[t] \/ tasks'[t].kind = "idle"
  PROVE  Inv'
<1>1. bucket' \in Bucket /\ bucket'.roster = bucket.roster /\ bucket'.pairs = pairs
  BY Facts DEF Bucket
<1>2. /\ file' \in File /\ failed' \in BOOLEAN
      /\ ~failed' => file'.kind = "whole" /\ file'.bucket.roster = bucket.roster
  BY <1>1, Facts, Flushed
<1>3. Shape'
  BY <1>1, <1>2, Facts DEF Shape
<1>4. \A t \in Tasks : TaskInv(tasks[t])'
  BY <1>1, Facts DEF TaskInv
<1>5. ASSUME NEW j \in Jids, Seen(j)' PROVE Seen(j)
  BY <1>5 DEF Seen
<1>6. KeptInv'
  BY <1>1, <1>2, <1>5 DEF Inv, KeptInv, Stored
<1>7. ASSUME NEW t \in Tasks, tasks'[t].kind = "list" PROVE Named(tasks[t])'
  <2>1. Named(tasks[t]) /\ tasks'[t] = tasks[t]
    BY <1>7 DEF Inv, ListInv
  <2>2. QED
    BY <1>1, <2>1 DEF Named
<1>8. QED
  BY <1>3, <1>4, <1>6, <1>7 DEF Inv, ListInv

LEMMA SaveCredsKeeps == Inv /\ SaveCreds => Inv'
<1> SUFFICES ASSUME Inv, SaveCreds PROVE Inv'
  OBVIOUS
<1>1. up /\ registered' = TRUE /\ Flush(bucket, TRUE) /\ UNCHANGED <<up, bucket, sets, live, tasks, noted, forgiven>>
  BY DEF SaveCreds
<1>2. bucket' = [bucket EXCEPT !.pairs = bucket.pairs] /\ Flush(bucket', TRUE)
  BY <1>1, Facts DEF Bucket
<1>3. QED
  BY <1>1, <1>2, Facts, BucketFlushed

LEMMA RememberKeeps == ASSUME NEW t \in Tasks PROVE Inv /\ Remember(t) => Inv'
<1> SUFFICES ASSUME Inv, Remember(t) PROVE Inv'
  OBVIOUS
<1>1. PICK pairs : pairs = bucket.pairs \union {tasks[t].person}
  OBVIOUS
<1>2. /\ tasks[t].kind = "pair" /\ bucket' = [bucket EXCEPT !.pairs = pairs] /\ Flush(bucket', registered)
      /\ tasks' = [tasks EXCEPT ![t] = Idle] /\ UNCHANGED <<up, registered, sets, live, noted, forgiven>>
  BY <1>1 DEF Remember
<1>3. tasks[t] \in Task
  BY Facts
<1>4. tasks[t].person \in Lids
  BY <1>2, <1>3 DEF Task, Idle, Loading, Noting, Pairing, Listing
<1>5. pairs \in SUBSET Lids /\ bucket.pairs \subseteq pairs /\ up
  BY <1>1, <1>2, <1>4, Facts
<1>6. tasks' \in [Tasks -> Task] /\ \A u \in Tasks : tasks'[u] = tasks[u] \/ tasks'[u].kind = "idle"
  BY <1>2, Facts DEF Task, Idle
<1>7. QED
  BY <1>2, <1>5, <1>6, Facts, BucketFlushed

-----------------------------------------------------------------------------
(* A call that begins or goes on and changes nothing but itself.             *)

LEMMA TaskStep ==
  ASSUME Inv, NEW t \in Tasks, NEW task \in Task, up \/ task.kind = "idle",
         tasks' = [tasks EXCEPT ![t] = task],
         UNCHANGED <<up, registered, bucket, file, sets, live, failed, noted, forgiven>>,
         TaskInv(task), task.kind = "list" => Named(task),
         task.kind \in {"load", "loadAll"} => task.raw = bucket.roster
  PROVE  Inv'
<1>1. /\ tasks' \in [Tasks -> Task] /\ tasks'[t] = task
      /\ \A u \in Tasks \ {t} : tasks'[u] = tasks[u]
  BY Facts
<1>2. Shape'
  <2>1. ASSUME ~up PROVE \A u \in Tasks : tasks'[u] = Idle
    <3>1. task = Idle
      BY <2>1 DEF Task, Loading, Noting, Pairing, Listing
    <3>2. QED
      BY <1>1, <2>1, <3>1 DEF Inv, Shape
  <2>2. QED
    BY <1>1, <2>1 DEF Inv, Shape
<1>3. \A u \in Tasks : TaskInv(tasks[u])'
  BY <1>1, Facts DEF TaskInv
<1>4. ASSUME NEW j \in Jids, j \in noted \/ Seen(j)', j \notin forgiven PROVE Stored(j)
  <2>1. CASE j \in noted \/ Seen(j)
    BY <1>4, <2>1 DEF Inv, KeptInv
  <2>2. CASE task.kind \in {"load", "loadAll"} /\ j \in People(bucket.roster)
    <3>1. up
      BY <2>2
    <3>2. Seen(j)
      BY <2>2, <3>1 DEF Seen
    <3>3. QED
      BY <1>4, <3>2 DEF Inv, KeptInv
  <2>3. QED
    BY <1>1, <1>4, <2>1, <2>2 DEF Seen
<1>5. KeptInv'
  BY <1>4 DEF KeptInv, Stored
<1>6. ListInv'
  BY <1>1 DEF Inv, ListInv, Named
<1>7. QED
  BY <1>2, <1>3, <1>5, <1>6 DEF Inv

LEMMA StartNoteKeeps == ASSUME NEW t \in Tasks PROVE Inv /\ StartNote(t) => Inv'
<1> SUFFICES ASSUME Inv, StartNote(t) PROVE Inv'
  OBVIOUS
<1>1. PICK j \in Jids :
        /\ up
        /\ tasks' = [tasks EXCEPT ![t] =
                        IF live # 0 THEN [kind |-> "note", jid |-> j, set |-> live]
                        ELSE [kind |-> "load", jid |-> j, raw |-> bucket.roster]]
        /\ UNCHANGED <<up, registered, bucket, file, sets, live, faults, failed, noted, forgiven>>
  BY DEF StartNote
<1>2. CASE live # 0
  <2>1. PICK task : task = [kind |-> "note", jid |-> j, set |-> live]
    OBVIOUS
  <2>2. task \in Task /\ task.kind = "note" /\ task.set \in DOMAIN sets
    BY <1>2, <2>1, Facts DEF Task, Noting
  <2>3. TaskInv(task)
    BY <2>2 DEF TaskInv
  <2>4. QED
    BY <1>1, <1>2, <2>1, <2>2, <2>3, TaskStep
<1>3. CASE live = 0
  <2>1. PICK task : task = [kind |-> "load", jid |-> j, raw |-> bucket.roster]
    OBVIOUS
  <2>2. task \in Task /\ task.kind = "load" /\ task.raw = bucket.roster
    BY <2>1, Facts DEF Task, Loading
  <2>3. TaskInv(task)
    BY <2>2 DEF TaskInv
  <2>4. QED
    BY <1>1, <1>3, <2>1, <2>2, <2>3, TaskStep
<1>4. QED
  BY <1>2, <1>3

LEMMA StartRememberKeeps == ASSUME NEW t \in Tasks PROVE Inv /\ StartRemember(t) => Inv'
<1> SUFFICES ASSUME Inv, StartRemember(t) PROVE Inv'
  OBVIOUS
<1>1. PICK p \in Lids :
        /\ up
        /\ tasks' = [tasks EXCEPT ![t] = [kind |-> "pair", person |-> p]]
        /\ UNCHANGED <<up, registered, bucket, file, sets, live, faults, failed, noted, forgiven>>
  BY DEF StartRemember
<1>2. PICK task : task = [kind |-> "pair", person |-> p]
  OBVIOUS
<1>3. task \in Task /\ task.kind = "pair"
  BY <1>2 DEF Task, Pairing
<1>4. TaskInv(task)
  BY <1>3 DEF TaskInv
<1>5. QED
  BY <1>1, <1>2, <1>3, <1>4, TaskStep

-----------------------------------------------------------------------------
(* contacts(). *)

LEMMA TaskFields ==
  ASSUME Inv, NEW t \in Tasks
  PROVE  /\ tasks[t].kind \in {"load", "loadAll"} => tasks[t] \in Loading
         /\ tasks[t].kind = "note" => tasks[t] \in Noting
         /\ tasks[t].kind = "list" => tasks[t] \in Listing /\ Named(tasks[t])
         /\ tasks[t].kind # "idle" => up
         /\ TaskInv(tasks[t])
<1>1. tasks[t] \in Task /\ TaskInv(tasks[t]) /\ (tasks[t].kind # "idle" => up)
  BY Facts
<1>2. QED
  BY <1>1 DEF Task, Idle, Loading, Noting, Pairing, Listing, Inv, ListInv

(* A walk that begins has named nobody yet.                                  *)
LEMMA WalkBegins ==
  ASSUME NEW i \in Nat, NEW list \in Seq(Jids), bucket.pairs \in SUBSET Lids
  PROVE  /\ Walk(i, list) \in Listing /\ Walk(i, list).kind = "list"
         /\ Walk(i, list).set = i /\ Walk(i, list).at = 1 /\ Walk(i, list).out = << >>
         /\ Walk(i, list).known = bucket.pairs /\ Walk(i, list).from = People(list)
<1>1. People(list) \in SUBSET Jids /\ << >> \in Seq(Jids)
  BY PeopleOf
<1>2. QED
  BY <1>1 DEF Walk, Listing

LEMMA StartContactsKeeps == ASSUME NEW t \in Tasks PROVE Inv /\ StartContacts(t) => Inv'
<1> SUFFICES ASSUME Inv, StartContacts(t) PROVE Inv'
  OBVIOUS
<1>1. /\ up /\ UNCHANGED <<up, registered, bucket, file, sets, live, failed, noted, forgiven>>
  BY DEF StartContacts
<1>2. CASE live # 0
  <2>1. PICK list, task : list = sets[live] /\ task = Walk(live, list)
    OBVIOUS
  <2>2. live \in DOMAIN sets /\ list \in Seq(Jids) /\ live \in Nat /\ bucket.pairs \in SUBSET Lids
    BY <1>2, <2>1, Facts
  <2>3. /\ task \in Listing /\ task.kind = "list" /\ task.set = live /\ task.at = 1 /\ task.out = << >>
        /\ task.known = bucket.pairs /\ task.from = People(list)
    BY <2>1, <2>2, WalkBegins
  <2>4. Named(task)
    BY <2>1, <2>2, <2>3, PeopleEmpty DEF Named
  <2>5. TaskInv(task)
    BY <2>2, <2>3 DEF TaskInv
  <2>6. tasks' = [tasks EXCEPT ![t] = task]
    BY <1>2, <2>1 DEF StartContacts
  <2>7. QED
    BY <1>1, <2>3, <2>4, <2>5, <2>6, TaskStep DEF Task
<1>3. CASE live = 0
  <2>1. PICK task : task = [kind |-> "loadAll", raw |-> bucket.roster]
    OBVIOUS
  <2>2. task \in Task /\ task.kind = "loadAll" /\ task.raw = bucket.roster
    BY <2>1, Facts DEF Task, Loading
  <2>3. TaskInv(task)
    BY <2>2 DEF TaskInv
  <2>4. tasks' = [tasks EXCEPT ![t] = task]
    BY <1>3, <2>1 DEF StartContacts
  <2>5. QED
    BY <1>1, <2>2, <2>3, <2>4, TaskStep
<1>4. QED
  BY <1>2, <1>3

LEMMA WalkContactsKeeps == ASSUME NEW t \in Tasks PROVE Inv /\ WalkContacts(t) => Inv'
<1> SUFFICES ASSUME Inv, WalkContacts(t) PROVE Inv'
  OBVIOUS
<1>1. PICK old, r, c, out, task :
        /\ old = tasks[t] /\ r = sets[old.set] /\ c = Canonical(r[old.at], bucket.pairs)
        /\ out = IF c \in People(old.out) THEN old.out ELSE Append(old.out, c)
        /\ task = [old EXCEPT !.at = @ + 1, !.out = out]
  OBVIOUS
<1>2. /\ old.kind = "list" /\ old.at <= Len(r)
      /\ UNCHANGED <<up, registered, bucket, file, sets, live, failed, noted, forgiven>>
  BY <1>1 DEF WalkContacts
<1>3. old \in Listing /\ Named(old) /\ up /\ old.set \in DOMAIN sets
  BY <1>1, <1>2, TaskFields DEF TaskInv
<1>4. tasks' = [tasks EXCEPT ![t] = task]
  BY <1>1, <1>3 DEF WalkContacts, Listing
<1>5. /\ r \in Seq(Jids) /\ old.out \in Seq(Jids) /\ old.at \in Nat /\ old.at >= 1
      /\ bucket.pairs \in SUBSET Lids /\ old.known \in SUBSET Lids /\ old.from \in SUBSET Jids
      /\ old.set \in Nat
  BY <1>1, <1>3, Facts DEF Listing
<1>6. /\ r[old.at] \in Jids /\ c \in Jids /\ c.person = r[old.at].person
      /\ \A p \in bucket.pairs : c # Lid(p)
  <2>1. old.at \in DOMAIN r /\ r[old.at] \in Jids
    BY <1>2, <1>5
  <2>2. QED
    BY <1>1, <1>5, <2>1, JidFacts
<1>7. out \in Seq(Jids) /\ People(out) = People(old.out) \union {c}
  <2>1. CASE c \in People(old.out)
    BY <1>1, <1>5, <2>1
  <2>2. CASE c \notin People(old.out)
    <3>1. out = Append(old.out, c)
      BY <1>1, <2>2
    <3>2. QED
      BY <1>5, <1>6, <3>1, PeopleAppend
  <2>3. QED
    BY <2>1, <2>2
<1>8. /\ task \in Listing /\ task.kind = "list" /\ task.set = old.set /\ task.at = old.at + 1
      /\ task.out = out /\ task.known = old.known /\ task.from = old.from
  <2>1. /\ task = [old EXCEPT !.at = old.at + 1, !.out = out] /\ old.at + 1 \in Nat \ {0}
    BY <1>1, <1>5
  <2>2. QED
    BY <1>2, <1>3, <1>7, <2>1 DEF Listing
<1>9. Named(task)
  <2>1. ASSUME NEW i \in DOMAIN r, i < old.at + 1
        PROVE  \E d \in People(out) : d.person = r[i].person
    <3>1. CASE i = old.at
      BY <1>6, <1>7, <3>1
    <3>2. CASE i # old.at
      <4>1. i < old.at
        BY <1>5, <2>1, <3>2
      <4>2. QED
        BY <1>1, <1>3, <1>7, <4>1 DEF Named
    <3>3. QED
      BY <3>1, <3>2
  <2>2. task.known \subseteq bucket.pairs /\ task.from \subseteq People(sets[task.set])
    BY <1>3, <1>8 DEF Named
  <2>3. ASSUME NEW p \in task.known PROVE Lid(p) \notin People(task.out)
    <3>1. Lid(p) \notin People(old.out) /\ c # Lid(p)
      BY <1>3, <1>6, <1>8, <2>2, <2>3 DEF Named
    <3>2. QED
      BY <1>7, <1>8, <3>1
  <2>4. \A i \in DOMAIN sets[task.set] :
          i < task.at => \E d \in People(task.out) : d.person = sets[task.set][i].person
    <3>1. sets[task.set] = r /\ task.at = old.at + 1 /\ task.out = out
      BY <1>1, <1>8
    <3>2. \A i \in DOMAIN r : i < old.at + 1 => \E d \in People(out) : d.person = r[i].person
      BY <2>1
    <3>3. QED
      BY ONLY <3>1, <3>2
  <2>5. task.at <= Len(sets[task.set]) + 1
    BY <1>1, <1>2, <1>5, <1>8
  <2>6. QED
    BY <2>2, <2>3, <2>4, <2>5 DEF Named
<1>10. TaskInv(task)
  BY <1>3, <1>8 DEF TaskInv
<1>11. QED
  BY <1>2, <1>3, <1>4, <1>8, <1>9, <1>10, TaskStep DEF Task

LEMMA ReturnContactsKeeps == ASSUME NEW t \in Tasks PROVE Inv /\ ReturnContacts(t) => Inv'
<1> SUFFICES ASSUME Inv, ReturnContacts(t) PROVE Inv'
  OBVIOUS
<1>1. /\ tasks' = [tasks EXCEPT ![t] = Idle]
      /\ UNCHANGED <<up, registered, bucket, file, sets, live, failed, noted, forgiven>>
  BY DEF ReturnContacts
<1>2. Idle \in Task /\ Idle.kind = "idle"
  BY DEF Task, Idle
<1>3. TaskInv(Idle)
  BY <1>2 DEF TaskInv
<1>4. QED
  BY <1>1, <1>2, <1>3, TaskStep

-----------------------------------------------------------------------------
(* noteContact. *)

(* Sets grow: what a walk has seen of one is still there.                    *)
Longer(s, r) == Len(s) <= Len(r) /\ \A k \in 1..Len(s) : r[k] = s[k]

LEMMA ListsStay ==
  ASSUME ListInv, \A u \in Tasks : TaskInv(tasks[u]), tasks \in [Tasks -> Task],
         sets \in Seq(Seq(Jids)), sets' \in Seq(Seq(Jids)),
         \A u \in Tasks : tasks'[u].kind = "list" => tasks'[u] = tasks[u] \/ Named(tasks[u])',
         bucket.pairs \subseteq bucket'.pairs,
         \A i \in DOMAIN sets : i \in DOMAIN sets' /\ Longer(sets[i], sets'[i])
  PROVE  ListInv'
<1> SUFFICES ASSUME NEW u \in Tasks, tasks'[u].kind = "list", tasks'[u] = tasks[u] PROVE Named(tasks[u])'
  BY DEF ListInv
<1>1. PICK task, s, old, new : task = tasks[u] /\ s = task.set /\ old = sets[s] /\ new = sets'[s]
  OBVIOUS
<1>2. /\ tasks'[u] = task /\ task.kind = "list" /\ Named(task)
      /\ s \in DOMAIN sets /\ s \in DOMAIN sets' /\ task \in Listing
  <2>1. tasks'[u] = task /\ task.kind = "list"
    BY <1>1
  <2>2. task \in Task
    BY <1>1
  <2>3. task \in Listing
    BY <2>1, <2>2 DEF Task, Idle, Loading, Noting, Pairing, Listing
  <2>4. Named(task) /\ s \in DOMAIN sets
    BY <1>1, <2>1 DEF ListInv, TaskInv
  <2>5. QED
    BY <2>1, <2>3, <2>4
<1>3. old \in Seq(Jids) /\ new \in Seq(Jids) /\ Longer(old, new) /\ task.at \in Nat
  BY <1>1, <1>2 DEF Listing
<1>4. /\ Len(old) \in Nat /\ DOMAIN old = 1..Len(old) /\ Len(new) \in Nat /\ DOMAIN new = 1..Len(new)
      /\ task.at <= Len(old) + 1 /\ task.at <= Len(new) + 1
  BY <1>1, <1>2, <1>3 DEF Named, Longer
<1>5. ASSUME NEW k \in DOMAIN new, k < task.at PROVE k \in DOMAIN old /\ new[k] = old[k]
  <2>1. k \in 1..Len(old)
    BY <1>3, <1>4, <1>5
  <2>2. QED
    BY <1>3, <1>4, <2>1 DEF Longer
<1>6. ASSUME NEW k \in DOMAIN new, k < task.at
      PROVE  \E c \in People(task.out) : c.person = new[k].person
  <2>1. k \in DOMAIN old /\ new[k] = old[k]
    BY <1>5, <1>6
  <2>2. \E c \in People(task.out) : c.person = old[k].person
    BY <1>1, <1>2, <1>6, <2>1 DEF Named
  <2>3. QED
    BY <2>1, <2>2
<1>7. task.from \subseteq People(new)
  <2>1. ASSUME NEW j \in People(old) PROVE j \in People(new)
    <3>1. PICK k \in 1..Len(old) : old[k] = j
      BY <1>3, <2>1, PeopleOf
    <3>2. k \in DOMAIN new /\ new[k] = j
      BY <1>3, <3>1 DEF Longer
    <3>3. QED
      BY <1>3, <3>2, PeopleOf
  <2>2. QED
    BY <1>1, <1>2, <2>1 DEF Named
<1>8. task.known \subseteq bucket'.pairs /\ \A p \in task.known : Lid(p) \notin People(task.out)
  BY <1>2 DEF Named
<1>9. QED
  BY <1>1, <1>2, <1>4, <1>6, <1>7, <1>8 DEF Named

LEMMA LoadRosterKeeps == ASSUME NEW t \in Tasks PROVE Inv /\ LoadRoster(t) => Inv'
<1> SUFFICES ASSUME Inv, LoadRoster(t) PROVE Inv'
  OBVIOUS
<1>1. PICK old, raw, n, task :
        /\ old = tasks[t] /\ raw = old.raw /\ n = Len(sets) + 1
        /\ task = IF old.kind = "load" THEN [kind |-> "note", jid |-> old.jid, set |-> n] ELSE Walk(n, raw)
  OBVIOUS
<1>2. old.kind \in {"load", "loadAll"} /\ sets' = Append(sets, raw) /\ UNCHANGED <<up, registered, bucket, file, failed, noted>>
  BY <1>1 DEF LoadRoster
<1>3. /\ old \in Loading /\ up /\ TaskInv(old) /\ raw \in Seq(Jids)
  BY <1>1, <1>2, TaskFields DEF Loading
<1>4. /\ sets' \in Seq(Seq(Jids)) /\ Len(sets') = n /\ DOMAIN sets' = 1..n /\ sets'[n] = raw /\ sets' # << >>
      /\ \A i \in DOMAIN sets : i \in DOMAIN sets' /\ sets'[i] = sets[i]
      /\ \A i \in DOMAIN sets' : i = n \/ i \in DOMAIN sets
      /\ n \in Nat /\ n \in DOMAIN sets'
  BY <1>1, <1>2, <1>3, Facts
<1>5. /\ live' = n /\ tasks' = [tasks EXCEPT ![t] = task]
      /\ task \in Task /\ task.kind \in {"note", "list"} /\ task.set = n
  <2>1. live' = n /\ tasks' = [tasks EXCEPT ![t] = task]
    BY <1>1, <1>3, <1>4 DEF LoadRoster
  <2>2. CASE old.kind = "load"
    <3>1. task = [kind |-> "note", jid |-> old.jid, set |-> n] /\ old.jid \in Jids
      BY <1>1, <1>3, <2>2 DEF Loading
    <3>2. QED
      BY <1>4, <2>1, <3>1 DEF Task, Noting
  <2>3. CASE old.kind # "load"
    <3>1. task = Walk(n, raw)
      BY <1>1, <2>3
    <3>2. task \in Listing /\ task.kind = "list" /\ task.set = n
      BY <1>3, <1>4, <3>1, Facts, WalkBegins
    <3>3. QED
      BY <2>1, <3>2 DEF Task
  <2>4. QED
    BY <2>2, <2>3
<1>6. /\ tasks' \in [Tasks -> Task] /\ tasks'[t] = task /\ \A u \in Tasks \ {t} : tasks'[u] = tasks[u]
  BY <1>5, Facts
<1>7. Shape'
  BY <1>2, <1>3, <1>4, <1>5, <1>6, Facts DEF Shape
<1>8. \A u \in Tasks : TaskInv(tasks[u])'
  <2>1. TaskInv(tasks[t])'
    BY <1>4, <1>5, <1>6 DEF TaskInv
  <2>2. ASSUME NEW u \in Tasks \ {t} PROVE TaskInv(tasks[u])'
    BY <1>4, <1>6, Facts DEF TaskInv
  <2>3. QED
    BY <2>1, <2>2
<1>9. ASSUME NEW j \in Jids, j \in noted \/ Seen(j)', j \notin forgiven' PROVE Stored(j)'
  <2>1. j \in noted \/ Seen(j)
    <3>1. CASE j \in noted
      BY <3>1
    <3>2. CASE up' /\ j \in People(bucket'.roster)
      BY <1>2, <3>2 DEF Seen
    <3>3. ASSUME NEW i \in DOMAIN sets', j \in People(sets'[i]) PROVE Seen(j)
      BY <1>1, <1>2, <1>4, <3>3 DEF Seen
    <3>4. ASSUME NEW u \in Tasks, tasks'[u].kind \in {"load", "loadAll"}, j \in People(tasks'[u].raw) PROVE Seen(j)
      BY <1>5, <1>6, <3>4 DEF Seen
    <3>5. QED
      BY <1>9, <3>1, <3>2, <3>3, <3>4 DEF Seen
  <2>2. j \notin forgiven
    BY <1>9 DEF LoadRoster
  <2>3. Stored(j)
    BY <2>1, <2>2 DEF Inv, KeptInv
  <2>4. j \in People(raw)
    <3>1. CASE sets = << >>
      BY <1>2, <1>3, <1>1, <2>3, <3>1 DEF Stored, TaskInv
    <3>2. CASE sets # << >>
      <4>1. live = Len(sets) /\ live # 0
        BY <3>2, Facts
      <4>2. forgiven' = forgiven \union (People(sets[live]) \ People(raw))
        BY <1>1, <4>1 DEF LoadRoster
      <4>3. j \in People(sets[live])
        BY <2>3, <3>2, <4>1 DEF Stored
      <4>4. QED
        BY <1>9, <4>2, <4>3
    <3>3. QED
      BY <3>1, <3>2
  <2>5. QED
    BY <1>2, <1>4, <2>3, <2>4 DEF Stored
<1>10. KeptInv'
  BY <1>2, <1>9 DEF KeptInv
<1>11. ListInv'
  <2>1. ASSUME tasks'[t].kind = "list" PROVE Named(tasks[t])'
    <3>1. task.kind = "list" /\ task = Walk(n, raw)
      BY <1>1, <1>6, <2>1
    <3>2. /\ task.set = n /\ task.at = 1 /\ task.out = << >> /\ task.known = bucket.pairs
          /\ task.from = People(raw)
      BY <1>3, <1>4, <3>1, Facts, WalkBegins
    <3>3. Len(raw) \in Nat /\ DOMAIN raw = 1..Len(raw)
      BY <1>3
    <3>4. QED
      BY <1>2, <1>4, <1>6, <3>2, <3>3, PeopleEmpty DEF Named
  <2>2. \A u \in Tasks : tasks'[u].kind = "list" => tasks'[u] = tasks[u] \/ Named(tasks[u])'
    BY <1>6, <2>1
  <2>3. QED
    BY <1>2, <1>4, <2>2, Facts, ListsStay DEF Inv, Longer
<1>12. QED
  BY <1>7, <1>8, <1>10, <1>11 DEF Inv

LEMMA AddOldKeeps ==
  ASSUME Inv, NEW t \in Tasks, AddToRoster(t), tasks[t].jid \in People(sets[tasks[t].set])
  PROVE  Inv'
<1>1. PICK j : j = tasks[t].jid
  OBVIOUS
<1>2. /\ tasks[t].kind = "note" /\ tasks' = [tasks EXCEPT ![t] = Idle] /\ noted' = noted \union {j}
      /\ UNCHANGED <<up, registered, live, sets, bucket, file, failed, forgiven>>
  BY <1>1 DEF AddToRoster
<1>3. j \in Jids /\ tasks[t].set \in DOMAIN sets /\ up
  BY <1>1, <1>2, TaskFields DEF Noting, TaskInv
<1>4. Idle \in Task /\ Idle.kind = "idle"
  BY DEF Task, Idle
<1>5. tasks' \in [Tasks -> Task] /\ tasks'[t] = Idle /\ \A u \in Tasks \ {t} : tasks'[u] = tasks[u]
  BY <1>2, <1>4, Facts
<1>6. Shape'
  BY <1>2, <1>3, <1>5, Facts DEF Shape
<1>7. \A u \in Tasks : TaskInv(tasks[u])'
  BY <1>2, <1>4, <1>5, Facts DEF TaskInv
<1>8. Seen(j)
  BY <1>1, <1>3 DEF Seen
<1>9. ASSUME NEW k \in Jids, Seen(k)' PROVE Seen(k)
  BY <1>2, <1>4, <1>5, <1>9 DEF Seen
<1>10. KeptInv'
  BY <1>2, <1>8, <1>9 DEF Inv, KeptInv, Stored
<1>11. ListInv'
  BY <1>2, <1>4, <1>5 DEF Inv, ListInv, Named
<1>12. QED
  BY <1>6, <1>7, <1>10, <1>11 DEF Inv

LEMMA AddNewKeeps ==
  ASSUME Inv, NEW t \in Tasks, AddToRoster(t), tasks[t].jid \notin People(sets[tasks[t].set])
  PROVE  Inv'
<1>1. PICK j, i, r, r2 :
        j = tasks[t].jid /\ i = tasks[t].set /\ r = sets[i] /\ r2 = Append(r, j)
  OBVIOUS
<1>2. /\ tasks[t].kind = "note" /\ tasks' = [tasks EXCEPT ![t] = Idle] /\ noted' = noted \union {j}
      /\ sets' = [sets EXCEPT ![i] = r2] /\ bucket' = [bucket EXCEPT !.roster = r2]
      /\ Flush(bucket', registered)
      /\ forgiven' = (forgiven \ {j}) \union (People(bucket.roster) \ People(r)) \union
                         IF i = live THEN {} ELSE {j}
      /\ UNCHANGED <<up, registered, live>>
  BY <1>1 DEF AddToRoster
<1>3. j \in Jids /\ i \in DOMAIN sets /\ up
  BY <1>1, <1>2, TaskFields DEF Noting, TaskInv
<1>4. r \in Seq(Jids) /\ r2 \in Seq(Jids) /\ People(r2) = People(r) \union {j} /\ Longer(r, r2)
  <2>1. r \in Seq(Jids)
    BY <1>1, <1>3, Facts
  <2>2. QED
    BY <1>1, <1>3, <2>1, PeopleAppend DEF Longer
<1>5. /\ sets' \in Seq(Seq(Jids)) /\ DOMAIN sets' = DOMAIN sets /\ Len(sets') = Len(sets)
      /\ sets'[i] = r2 /\ \A k \in DOMAIN sets \ {i} : sets'[k] = sets[k]
      /\ sets # << >> /\ sets' # << >> /\ Len(sets) \in DOMAIN sets
  BY <1>2, <1>3, <1>4, Facts
<1>6. bucket' \in Bucket /\ bucket'.roster = r2 /\ bucket'.pairs = bucket.pairs
  BY <1>2, <1>4, Facts DEF Bucket
<1>7. /\ file' \in File /\ failed' \in BOOLEAN
      /\ ~failed' => file'.kind = "whole" /\ file'.bucket.roster = r2
  BY <1>2, <1>6, Facts, Flushed
<1>8. Idle \in Task /\ Idle.kind = "idle"
  BY DEF Task, Idle
<1>9. tasks' \in [Tasks -> Task] /\ tasks'[t] = Idle /\ \A u \in Tasks \ {t} : tasks'[u] = tasks[u]
  BY <1>2, <1>8, Facts
<1>10. Shape'
  BY <1>2, <1>3, <1>5, <1>6, <1>7, <1>9, Facts DEF Shape
<1>11. \A u \in Tasks : TaskInv(tasks[u])'
  <2>1. TaskInv(tasks[t])'
    BY <1>8, <1>9 DEF TaskInv
  <2>2. ASSUME NEW u \in Tasks \ {t} PROVE TaskInv(tasks[u])'
    BY <1>5, <1>9, Facts DEF TaskInv
  <2>3. QED
    BY <2>1, <2>2
<1>12. \A k \in DOMAIN sets : People(sets'[k]) \subseteq People(sets[k]) \union {j}
  BY <1>1, <1>4, <1>5
<1>13. ASSUME NEW k \in Jids, k \in noted' \/ Seen(k)', k \notin forgiven' PROVE Stored(k)'
  <2>1. k = j \/ k \in noted \/ Seen(k)
    <3>1. CASE k \in noted'
      BY <1>2, <3>1
    <3>2. CASE k \in People(r2)
      BY <1>1, <1>3, <1>4, <3>2 DEF Seen
    <3>3. ASSUME NEW n \in DOMAIN sets', k \in People(sets'[n]) PROVE k = j \/ Seen(k)
      BY <1>5, <1>12, <3>3 DEF Seen
    <3>4. ASSUME NEW u \in Tasks, tasks'[u].kind \in {"load", "loadAll"}, k \in People(tasks'[u].raw) PROVE Seen(k)
      BY <1>8, <1>9, <3>4 DEF Seen
    <3>5. QED
      BY <1>6, <1>13, <3>1, <3>2, <3>3, <3>4 DEF Seen
  <2>2. k \in People(r2) /\ k \in People(sets'[Len(sets)])
    <3>1. CASE k = j
      <4>1. i = Len(sets)
        BY <1>2, <1>13, <3>1, Facts
      <4>2. QED
        BY <1>4, <1>5, <3>1, <4>1
    <3>2. CASE k # j
      <4>1. k \notin forgiven
        BY <1>2, <1>13, <3>2
      <4>2. Stored(k)
        BY <2>1, <3>2, <4>1 DEF Inv, KeptInv
      <4>3. k \in People(bucket.roster) /\ k \in People(sets[Len(sets)])
        BY <1>3, <1>5, <4>2 DEF Stored
      <4>4. k \in People(r)
        BY <1>2, <1>13, <4>3
      <4>5. QED
        BY <1>4, <1>5, <4>3, <4>4
    <3>3. QED
      BY <3>1, <3>2
  <2>3. QED
    BY <1>5, <1>6, <1>7, <2>2 DEF Stored
<1>14. KeptInv'
  BY <1>13 DEF KeptInv
<1>15. ListInv'
  <2>1. \A u \in Tasks : tasks'[u].kind = "list" => tasks'[u] = tasks[u]
    BY <1>8, <1>9
  <2>2. \A k \in DOMAIN sets : k \in DOMAIN sets' /\ Longer(sets[k], sets'[k])
    <3>1. \A k \in DOMAIN sets : Longer(sets[k], sets[k])
      BY Facts DEF Longer
    <3>2. QED
      BY <1>1, <1>4, <1>5, <3>1
  <2>3. QED
    BY <1>5, <1>6, <2>1, <2>2, Facts, ListsStay DEF Inv
<1>16. QED
  BY <1>10, <1>11, <1>14, <1>15 DEF Inv

-----------------------------------------------------------------------------

LEMMA Inductive == Inv /\ [Next]_vars => Inv'
<1>1. Inv /\ UNCHANGED vars => Inv'
  BY DEF vars, Inv, Shape, TaskInv, KeptInv, Seen, Stored, ListInv, Named
<1>2. ASSUME NEW t \in Tasks PROVE Inv /\ AddToRoster(t) => Inv'
  BY AddOldKeeps, AddNewKeeps
<1>3. QED
  BY <1>1, <1>2, OpenKeeps, SaveCredsKeeps, CrashKeeps, StartNoteKeeps, LoadRosterKeeps,
     StartRememberKeeps, RememberKeeps, StartContactsKeeps, WalkContactsKeeps, ReturnContactsKeeps
     DEF Next

LEMMA Invariance == Spec => []Inv
  BY InitInv, Inductive, PTL DEF Spec

LEMMA KeptFromInv == Inv => ContactsKept
<1> SUFFICES ASSUME Inv, NEW j \in noted \ forgiven
             PROVE  /\ up => j \in People(bucket.roster)
                    /\ live # 0 => j \in People(sets[live])
                    /\ ~failed => file.kind = "whole" /\ j \in People(file.bucket.roster)
  BY DEF ContactsKept
<1>1. Stored(j)
  BY Facts DEF Inv, KeptInv
<1>2. live = Len(sets) /\ (live # 0 => sets # << >>)
  BY Facts
<1>3. QED
  BY <1>1, <1>2 DEF Stored

LEMMA OnceFromInv == Inv => PersonOnce
<1> SUFFICES ASSUME Inv, NEW t \in Tasks, Walked(t)
             PROVE  /\ \A j \in tasks[t].from : \E c \in People(tasks[t].out) : c.person = j.person
                    /\ \A p \in tasks[t].known : ~({Pn(p), Lid(p)} \subseteq People(tasks[t].out))
  BY DEF PersonOnce
<1>1. PICK task, r : task = tasks[t] /\ r = sets[task.set]
  OBVIOUS
<1>2. task.kind = "list" /\ task.at > Len(r)
  BY <1>1 DEF Walked
<1>3. task \in Listing /\ Named(task) /\ r \in Seq(Jids)
  BY <1>1, <1>2, TaskFields, Facts DEF TaskInv
<1>4. ASSUME NEW j \in task.from PROVE \E c \in People(task.out) : c.person = j.person
  <2>1. PICK k \in DOMAIN r : r[k] = j
    BY <1>1, <1>3, PeopleOf DEF Named
  <2>2. k < task.at
    BY <1>2, <1>3, <2>1 DEF Listing
  <2>3. QED
    BY <1>1, <1>3, <2>1, <2>2 DEF Named
<1>5. QED
  BY <1>1, <1>3, <1>4 DEF Named

-----------------------------------------------------------------------------

(* A contact that noteContact (signal/lid.ts) returned for is in the roster,  *)
(* in its stored copy and in the file, whatever calls interleave and however  *)
(* often the process restarts, unless another Set took the place of his or a  *)
(* crash tore the file.                                                      *)
THEOREM ContactsKeptHolds == Spec => []ContactsKept
  BY Invariance, KeptFromInv, PTL

(* contacts() (signal/lid.ts) misses nobody who was in the roster when it was *)
(* called, though the roster grows and pairs are learnt while it walks, and   *)
(* names no person by both his number and his lid if the pair was known.      *)
THEOREM PersonOnceHolds == Spec => []PersonOnce
  BY Invariance, OnceFromInv, PTL
=============================================================================
