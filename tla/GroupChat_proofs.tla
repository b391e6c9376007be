-------------------------- MODULE GroupChat_proofs ---------------------------
(* For any number of devices, sends in progress, room keys and faults: the   *)
(* chain of jobs moves, no message key is used twice, a cached device list   *)
(* is that of the members, no device reads a message twice, a device marked  *)
(* as having the group's key has it, will get it, or lost it later, and what *)
(* a device cannot read is unreadable for a reason.                          *)
EXTENDS GroupChat, FiniteSetTheorems, SequenceTheorems, TLAPS

CallType == [phase : Phases, room : Rooms, devs : SUBSET Devices, msg : Chains]
Stanzas == [room : Rooms, gen : Nat, iter : Nat, key : BOOLEAN]
Encs == [name : Names, type : {"pair", "skmsg"}]
States == [gen : Nat, chain : Nat, kept : SUBSET Nat]

----------------------------------------------------------------------------
(* The record of sender keys. *)

Distinct(r) == \A i, j \in DOMAIN r : r[i].gen = r[j].gen => i = j
Sound(r) == Distinct(r) /\ \A i \in DOMAIN r : \A k \in r[i].kept : k < r[i].chain

(* A record without the state of a key id has all the others, in order.      *)
LEMMA WithoutLemma ==
    ASSUME NEW r \in Seq(States), NEW gen \in Nat
    PROVE  /\ Without(r, gen) \in Seq(States)
           /\ \A i \in DOMAIN Without(r, gen) : \E j \in DOMAIN r : Without(r, gen)[i] = r[j]
           /\ \A j \in DOMAIN r : r[j].gen # gen =>
                 \E i \in DOMAIN Without(r, gen) : Without(r, gen)[i] = r[j]
           /\ Distinct(r) => /\ Distinct(Without(r, gen))
                             /\ \A i \in DOMAIN Without(r, gen) : Without(r, gen)[i].gen # gen
<1> DEFINE w == Without(r, gen)
<1>1. CASE gen \notin Known(r)
  BY <1>1 DEF Without, Known
<1>2. CASE gen \in Known(r)
  <2> DEFINE at == CHOOSE i \in DOMAIN r : r[i].gen = gen
             left == SubSeq(r, 1, at - 1)
             right == SubSeq(r, at + 1, Len(r))
  <2>1. at \in DOMAIN r /\ r[at].gen = gen
    BY <1>2 DEF Known
  <2>2. at \in 1..Len(r) /\ Len(r) \in Nat
    BY <2>1
  <2> HIDE DEF at
  <2>3. /\ left \in Seq(States) /\ Len(left) = at - 1
        /\ \A i \in 1..(at - 1) : left[i] = r[i]
    BY <2>2
  <2>4. /\ right \in Seq(States) /\ Len(right) = Len(r) - at
        /\ \A i \in 1..(Len(r) - at) : right[i] = r[at + i]
    BY <2>2
  <2>5. w = left \o right
    BY <1>2 DEF Without, at
  <2> HIDE DEF left, right, w
  <2>6. w \in Seq(States) /\ Len(w) = Len(r) - 1
    BY <2>2, <2>3, <2>4, <2>5
  <2>7. /\ \A i \in 1..(at - 1) : i \in DOMAIN w /\ w[i] = r[i]
        /\ \A i \in 1..(Len(r) - at) : i + (at - 1) \in DOMAIN w /\ w[i + (at - 1)] = r[at + i]
    <3>1. \A i \in 1..(at - 1) : i \in DOMAIN w /\ w[i] = left[i]
      BY <2>2, <2>3, <2>4, <2>5, <2>6
    <3>2. \A i \in 1..(Len(r) - at) :
             i + (at - 1) \in DOMAIN w /\ w[i + (at - 1)] = right[i]
      BY <2>2, <2>3, <2>4, <2>5, <2>6
    <3>3. QED
      BY <2>3, <2>4, <3>1, <3>2
  <2>8. ASSUME NEW i \in DOMAIN w
        PROVE  \E j \in DOMAIN r : w[i] = r[j] /\ j # at /\ i = IF j < at THEN j ELSE j - 1
    <3>1. i \in Nat /\ 1 <= i /\ i <= Len(r) - 1
      BY <2>2, <2>6, <2>8
    <3>2. CASE i <= at - 1
      BY <2>2, <2>7, <3>1, <3>2
    <3>3. CASE ~(i <= at - 1)
      <4>1. i - (at - 1) \in 1..(Len(r) - at) /\ (i - (at - 1)) + (at - 1) = i
            /\ at + (i - (at - 1)) = i + 1
        BY <2>2, <3>1, <3>3
      <4>2. w[i] = r[i + 1]
        BY <2>7, <4>1
      <4>3. i + 1 \in DOMAIN r /\ i + 1 # at /\ ~(i + 1 < at) /\ (i + 1) - 1 = i
        BY <2>2, <3>1, <3>3
      <4>4. QED
        BY <4>2, <4>3
    <3>4. QED
      BY <3>2, <3>3
  <2>9. ASSUME NEW j \in DOMAIN r, r[j].gen # gen PROVE \E i \in DOMAIN w : w[i] = r[j]
    <3>1. j \in 1..Len(r) /\ j # at
      BY <2>1, <2>2, <2>9
    <3>2. CASE j < at
      BY <2>2, <2>7, <3>1, <3>2
    <3>3. CASE j > at
      <4>1. j - at \in 1..(Len(r) - at) /\ at + (j - at) = j
        BY <2>2, <3>1, <3>3
      <4>2. QED
        BY <2>7, <4>1
    <3>4. QED
      BY <2>2, <3>1, <3>2, <3>3
  <2>10. ASSUME Distinct(r), NEW i \in DOMAIN w
         PROVE  w[i].gen # gen /\ \A k \in DOMAIN w : w[i].gen = w[k].gen => i = k
    BY <2>1, <2>8, <2>10 DEF Distinct
  <2>11. /\ w \in Seq(States)
         /\ \A i \in DOMAIN w : \E j \in DOMAIN r : w[i] = r[j]
         /\ \A j \in DOMAIN r : r[j].gen # gen => \E i \in DOMAIN w : w[i] = r[j]
         /\ Distinct(r) => Distinct(w) /\ \A i \in DOMAIN w : w[i].gen # gen
    BY <2>6, <2>8, <2>9, <2>10 DEF Distinct
  <2>12. QED
    BY <2>11 DEF w
<1>3. QED
  BY <1>1, <1>2

(* A new state comes first, and the others were there before.                *)
LEMMA AddStateLemma ==
    ASSUME NEW r \in Seq(States), NEW gen \in Nat, NEW iter \in Nat
    PROVE  /\ AddState(r, gen, iter) \in Seq(States)
           /\ gen \in Known(AddState(r, gen, iter))
           /\ \A i \in DOMAIN AddState(r, gen, iter) :
                 \/ AddState(r, gen, iter)[i] = State(gen, iter)
                 \/ \E j \in DOMAIN r : AddState(r, gen, iter)[i] = r[j]
           /\ Distinct(r) => Distinct(AddState(r, gen, iter))
<1> DEFINE w == Without(r, gen)
           all == <<State(gen, iter)>> \o w
           n == Min({Len(all), MaxStates})
<1>1. State(gen, iter) \in States
  BY DEF State, States
<1>2. /\ w \in Seq(States) /\ \A i \in DOMAIN w : \E j \in DOMAIN r : w[i] = r[j]
      /\ Distinct(r) => Distinct(w) /\ \A i \in DOMAIN w : w[i].gen # gen
  BY WithoutLemma
<1> HIDE DEF w
<1>3. /\ all \in Seq(States) /\ Len(all) = Len(w) + 1 /\ all[1] = State(gen, iter)
      /\ \A i \in 2..Len(all) : all[i] = w[i - 1] /\ i - 1 \in DOMAIN w
  BY <1>1, <1>2
<1>4. n \in 1..Len(all)
  <2>1. Len(all) \in Nat \ {0} /\ MaxStates \in Nat \ {0}
    BY <1>2, <1>3, SenderKeysAssumption
  <2> DEFINE L == Len(all)
  <2> HIDE DEF L
  <2>2. L \in Nat \ {0}
    BY <2>1 DEF L
  <2>3. \E x \in {L, MaxStates} : \A y \in {L, MaxStates} : x <= y
    BY <2>1, <2>2
  <2>5. Min({L, MaxStates}) \in {L, MaxStates} /\ Min({L, MaxStates}) <= L
    BY <2>3 DEF Min
  <2>6. QED
    BY <2>1, <2>2, <2>5 DEF L
<1>5. AddState(r, gen, iter) = SubSeq(all, 1, n)
  BY DEF AddState, w
<1> HIDE DEF all, n
<1>10. n \in Nat /\ 1 <= n /\ n <= Len(all) /\ Len(all) \in Nat
  BY <1>3, <1>4
<1>6. /\ SubSeq(all, 1, n) \in Seq(States) /\ DOMAIN SubSeq(all, 1, n) = 1..n
      /\ \A i \in 1..n : SubSeq(all, 1, n)[i] = all[i]
  BY <1>3, <1>10
<1>7. gen \in Known(AddState(r, gen, iter))
  <2>1. 1 \in 1..n
    BY <1>10
  <2>2. AddState(r, gen, iter)[1].gen = gen /\ 1 \in DOMAIN AddState(r, gen, iter)
    BY <1>3, <1>5, <1>6, <2>1 DEF State
  <2>3. QED
    BY <2>2 DEF Known
<1>8. ASSUME NEW i \in 1..n
      PROVE  all[i] = State(gen, iter) \/ \E j \in DOMAIN r : all[i] = r[j]
  <2>1. CASE i = 1
    BY <1>3, <2>1
  <2>2. CASE i # 1
    <3>1. i \in 2..Len(all)
      BY <1>3, <1>4, <2>2
    <3>2. QED
      BY <1>2, <1>3, <3>1
  <2>3. QED
    BY <2>1, <2>2
<1>9. ASSUME Distinct(r), NEW i \in 1..n, NEW j \in 1..n, all[i].gen = all[j].gen PROVE i = j
  <2>1. State(gen, iter).gen = gen
    BY DEF State
  <2>2. \A x \in 1..n : x = 1 \/ (x \in 2..Len(all) /\ x - 1 \in DOMAIN w /\ all[x] = w[x - 1])
    BY <1>3, <1>10
  <2>3. CASE i = 1 \/ j = 1
    BY <1>2, <1>3, <1>9, <2>1, <2>2, <2>3
  <2>4. CASE i # 1 /\ j # 1
    <3>1. /\ i - 1 \in DOMAIN w /\ all[i] = w[i - 1]
          /\ j - 1 \in DOMAIN w /\ all[j] = w[j - 1]
      BY <2>2, <2>4
    <3>2. i - 1 = j - 1
      BY <1>2, <1>9, <3>1 DEF Distinct
    <3>3. QED
      BY <1>10, <3>2
  <2>5. QED
    BY <2>3, <2>4
<1>11. Distinct(r) => Distinct(SubSeq(all, 1, n))
  BY <1>6, <1>9 DEF Distinct
<1>12. QED
  BY <1>5, <1>6, <1>7, <1>8, <1>11

(* Taking a key moves the chain on and keeps only keys behind it.            *)
LEMMA ReadLemma ==
    ASSUME NEW s \in States, NEW i \in Nat, \A k \in s.kept : k < s.chain
    PROVE  /\ Read(s, i) \in States /\ Read(s, i).gen = s.gen
           /\ s.chain <= Read(s, i).chain /\ i < Read(s, i).chain
           /\ i \notin Read(s, i).kept
           /\ \A k \in Read(s, i).kept : k < Read(s, i).chain
           /\ \A k \in Nat : k < s.chain /\ k \notin s.kept => k \notin Read(s, i).kept
<1>1. s.gen \in Nat /\ s.chain \in Nat /\ s.kept \subseteq Nat
  BY DEF States
<1>2. CASE s.chain > i
  BY <1>1, <1>2 DEF Read, States
<1>3. CASE ~(s.chain > i)
  <2> DEFINE kept == Newest(s.kept \union s.chain..(i - 1))
  <2>1. Read(s, i) = [s EXCEPT !.chain = i + 1, !.kept = kept]
    BY <1>3 DEF Read
  <2>2. kept \subseteq s.kept \union s.chain..(i - 1)
    BY DEF Newest
  <2> HIDE DEF kept
  <2>3. \A k \in kept : k \in Nat /\ k < i /\ (k < s.chain => k \in s.kept)
    BY <1>1, <1>3, <2>2
  <2>4. /\ Read(s, i).gen = s.gen /\ Read(s, i).chain = i + 1 /\ Read(s, i).kept = kept
        /\ Read(s, i) \in States
    <3>1. kept \in SUBSET Nat /\ i + 1 \in Nat
      BY <2>3
    <3>2. s = [gen |-> s.gen, chain |-> s.chain, kept |-> s.kept]
      BY DEF States
    <3>3. Read(s, i) = [gen |-> s.gen, chain |-> i + 1, kept |-> kept]
      BY <2>1, <3>2
    <3>4. QED
      BY <1>1, <3>1, <3>3 DEF States
  <2>5. s.chain <= i + 1 /\ i < i + 1
    BY <1>1, <1>3
  <2>6. i \notin kept /\ \A k \in kept : k < i + 1
    BY <2>3
  <2>7. \A k \in Nat : k < s.chain /\ k \notin s.kept => k \notin kept
    BY <2>3
  <2> DEFINE t == Read(s, i)
  <2> HIDE DEF t
  <2>8. t \in States /\ t.gen = s.gen /\ t.chain = i + 1 /\ t.kept = kept
    BY <2>4 DEF t
  <2>9. /\ t \in States /\ t.gen = s.gen /\ s.chain <= t.chain /\ i < t.chain
        /\ i \notin t.kept /\ \A k \in t.kept : k < t.chain
        /\ \A k \in Nat : k < s.chain /\ k \notin s.kept => k \notin t.kept
    BY <2>5, <2>6, <2>7, <2>8, Zenon
  <2>10. QED
    BY <2>9 DEF t
<1>4. QED
  BY <1>2, <1>3

LEMMA OpenedLemma ==
    ASSUME NEW r \in Seq(States), NEW gen \in Nat, NEW i \in Nat, Sound(r)
    PROVE  /\ Opened(r, gen, i) \in Seq(States) /\ DOMAIN Opened(r, gen, i) = DOMAIN r
           /\ Sound(Opened(r, gen, i)) /\ Known(Opened(r, gen, i)) = Known(r)
<1> DEFINE o == Opened(r, gen, i)
<1>1. o = [k \in DOMAIN r |-> IF r[k].gen = gen THEN Read(r[k], i) ELSE r[k]]
  BY DEF Opened
<1>2. DOMAIN r = 1..Len(r) /\ Len(r) \in Nat
  OBVIOUS
<1> HIDE DEF o
<1>3. \A k \in DOMAIN r : /\ o[k] \in States /\ o[k].gen = r[k].gen
                          /\ \A x \in o[k].kept : x < o[k].chain
  BY <1>1, ReadLemma DEF Sound
<1>4. o \in Seq(States) /\ DOMAIN o = DOMAIN r
  BY <1>1, <1>2, <1>3
<1>5. Known(o) = Known(r)
  BY <1>3, <1>4 DEF Known
<1>6. QED
  BY <1>3, <1>4, <1>5 DEF o, Sound, Distinct

----------------------------------------------------------------------------
(* What an action makes of a send. *)

InJob == {"queued", "ciphered", "ready"}
InHand == {"ciphered", "ready"}
Outside == Phases \ InJob
OthersKept(c) == \A x \in Calls : x # c => calls'[x] = calls[x]

LEMMA Entry ==
    ASSUME TypeOK, NEW c \in Calls
    PROVE  /\ calls \in [Calls -> CallType] /\ calls[c].phase \in Phases
           /\ calls[c].room \in Rooms /\ calls[c].devs \subseteq Devices
           /\ calls[c].msg \in Chains
<1>1. calls \in [Calls -> CallType]
  BY DEF TypeOK, CallType
<1>2. QED
  BY <1>1 DEF CallType

LEMMA IdleType == Idle \in CallType /\ Idle.phase = "idle" /\ NoChain \in Chains
  BY DEF Idle, CallType, Phases, Rooms, NoChain, Chains

\* A send moves to another phase, maybe with other devices.
LEMMA MovesTo ==
    ASSUME TypeOK, NEW c \in Calls, NEW p \in Phases, NEW D \in SUBSET Devices,
           calls' = [calls EXCEPT ![c].phase = p, ![c].devs = D]
    PROVE  /\ calls' \in [Calls -> CallType] /\ OthersKept(c)
           /\ calls'[c].phase = p /\ calls'[c].devs = D
           /\ calls'[c].room = calls[c].room /\ calls'[c].msg = calls[c].msg
<1>1. calls \in [Calls -> CallType]
  BY Entry
<1>2. QED
  BY <1>1 DEF OthersKept, CallType

LEMMA PhaseTo ==
    ASSUME TypeOK, NEW c \in Calls, NEW p \in Phases,
           calls' = [calls EXCEPT ![c].phase = p]
    PROVE  /\ calls' \in [Calls -> CallType] /\ OthersKept(c)
           /\ calls'[c].phase = p /\ calls'[c].devs = calls[c].devs
           /\ calls'[c].room = calls[c].room /\ calls'[c].msg = calls[c].msg
<1>1. calls \in [Calls -> CallType]
  BY Entry
<1>2. QED
  BY <1>1 DEF OthersKept, CallType

LEMMA Becomes ==
    ASSUME TypeOK, NEW c \in Calls, NEW e \in CallType, calls' = [calls EXCEPT ![c] = e]
    PROVE  calls' \in [Calls -> CallType] /\ OthersKept(c) /\ calls'[c] = e
  BY Entry DEF OthersKept

(* A send starts, and asks for members and devices: it stays outside.        *)
Prepares(c) ==
    StartGroupSend(c) \/ StartStatus(c) \/ MetadataAnswer(c) \/ DevicesAnswer(c)

LEMMA PrepareCalls ==
    ASSUME TypeOK, NEW c \in Calls, Prepares(c)
    PROVE  /\ calls' \in [Calls -> CallType] /\ OthersKept(c) /\ jobs' = jobs
           /\ calls[c].phase \in Outside /\ calls'[c].phase \in Outside
<1> USE DEF InPhase, Outside, InJob, Phases
<1>1. CASE StartGroupSend(c)
  <2> DEFINE e == [Idle EXCEPT !.phase = IF cache.set THEN "sessions" ELSE "meta",
                               !.devs = IF cache.set THEN cache.devs ELSE {}]
  <2>1. calls' = [calls EXCEPT ![c] = e] /\ jobs' = jobs /\ calls[c].phase = "idle"
    BY <1>1 DEF StartGroupSend
  <2>2. e.phase \in {"sessions", "meta"}
    BY IdleType DEF CallType
  <2>3. e \in CallType
    <3>1. cache.devs \subseteq Devices
      BY DEF TypeOK
    <3>2. (IF cache.set THEN "sessions" ELSE "meta") \in Phases
          /\ (IF cache.set THEN cache.devs ELSE {}) \in SUBSET Devices
      BY <3>1
    <3>3. QED
      BY <3>2, IdleType DEF CallType
  <2> HIDE DEF e
  <2>4. calls' \in [Calls -> CallType] /\ OthersKept(c) /\ calls'[c] = e
    BY <2>1, <2>3, Becomes
  <2>5. QED
    BY <2>1, <2>2, <2>4
<1>2. CASE StartStatus(c)
  <2>1. PICK devs \in SUBSET Devices :
           calls' = [calls EXCEPT ![c] =
              [Idle EXCEPT !.phase = "usync", !.room = "status", !.devs = devs]]
    BY <1>2 DEF StartStatus
  <2> DEFINE e == [Idle EXCEPT !.phase = "usync", !.room = "status", !.devs = devs]
  <2>2. e.phase = "usync" /\ e.room = "status"
    BY IdleType DEF CallType
  <2>3. e \in CallType
    BY IdleType DEF CallType, Rooms
  <2> HIDE DEF e
  <2>4. calls' \in [Calls -> CallType] /\ OthersKept(c) /\ calls'[c] = e
    BY <2>1, <2>3, Becomes DEF e
  <2>5. jobs' = jobs /\ calls[c].phase = "idle"
    BY <1>2 DEF StartStatus
  <2>6. QED
    BY <2>2, <2>4, <2>5
<1>3. CASE MetadataAnswer(c)
  <2>1. jobs' = jobs /\ calls[c].phase = "meta" /\ members \subseteq Devices
    BY <1>3 DEF MetadataAnswer, TypeOK
  <2>2. calls' \in [Calls -> CallType] /\ OthersKept(c) /\ calls'[c].phase = "usync"
    <3>1. PICK known \in SUBSET members :
             calls' = [calls EXCEPT ![c].phase = "usync", ![c].devs = known]
      BY <1>3 DEF MetadataAnswer
    <3>2. known \in SUBSET Devices /\ "usync" \in Phases
      BY <2>1
    <3>3. QED
      BY <3>1, <3>2, MovesTo
  <2>3. QED
    BY <1>3, <2>1, <2>2
<1>4. CASE DevicesAnswer(c)
  <2>1. calls' = [calls EXCEPT ![c].phase = "sessions"] /\ jobs' = jobs
        /\ calls[c].phase = "usync"
    BY <1>4 DEF DevicesAnswer
  <2>2. QED
    BY <2>1, PhaseTo
<1>5. QED
  BY <1>1, <1>2, <1>3, <1>4 DEF Prepares

(* It joins the chain with the devices it has, or a query fails.             *)
LEMMA QueueCalls ==
    ASSUME TypeOK, NEW c \in Calls, SessionsAnswer(c) \/ QueryFails(c)
    PROVE  /\ calls' \in [Calls -> CallType] /\ OthersKept(c) /\ calls[c].phase \in Outside
           /\ ~(InPhase(c, "usync")' /\ calls'[c].room = "group")
           /\ \/ calls'[c].phase = "queued" /\ jobs' = Append(jobs, c)
              \/ calls'[c].phase \in Outside /\ jobs' = jobs
<1> USE DEF InPhase, Outside, InJob, Phases
<1>1. calls[c].phase \in {"meta", "usync", "sessions"}
  BY DEF SessionsAnswer, QueryFails
<1>2. ASSUME NEW D \in SUBSET Devices, Joins(c, D)
      PROVE  calls' \in [Calls -> CallType] /\ OthersKept(c) /\ calls'[c].phase = "queued"
             /\ jobs' = Append(jobs, c)
  BY <1>2, MovesTo DEF Joins
<1>3. CASE SessionsAnswer(c)
  <2>1. Joins(c, calls[c].devs) /\ calls[c].devs \subseteq Devices
    BY <1>3, Entry DEF SessionsAnswer
  <2>2. QED
    BY <1>1, <1>2, <2>1
<1>4. CASE QueryFails(c)
  <2>1. CASE calls[c].room = "status" /\ InPhase(c, "usync")
    <3>1. calls' = [calls EXCEPT ![c].phase = "sessions"] /\ jobs' = jobs
      BY <1>4, <2>1 DEF QueryFails
    <3>2. QED
      BY <1>1, <3>1, PhaseTo
  <2>2. CASE ~(calls[c].room = "status" /\ InPhase(c, "usync"))
    <3>1. Joins(c, IF calls[c].room = "group" THEN {} ELSE calls[c].devs)
      BY <1>4, <2>2 DEF QueryFails
    <3>2. (IF calls[c].room = "group" THEN {} ELSE calls[c].devs) \in SUBSET Devices
      BY Entry
    <3>3. QED
      BY <1>1, <1>2, <3>1, <3>2
  <2>3. QED
    BY <2>1, <2>2
<1>5. QED
  BY <1>3, <1>4

\* The chain of an account, made when there is none, and moved on.
LEMMA StatesOfCipher ==
    ASSUME NEW o \in Chains, NEW gen \in Nat
    PROVE  /\ Created(o, gen) \in Chains /\ Encrypted(Created(o, gen)) \in Chains
           /\ Encrypted(Created(o, gen)).gen = Created(o, gen).gen
           /\ Encrypted(Created(o, gen)).iter = Created(o, gen).iter + 1
           /\ o.gen = 0 => Created(o, gen).gen = gen
           /\ o.gen # 0 => Created(o, gen) = o
  BY DEF Chains, Created, Encrypted

(* A job of the chain moves its send on, or ends it.                         *)
LEMMA CipherCalls ==
    ASSUME TypeOK, NEW c \in Calls, CipherJob(c)
    PROVE  /\ calls' \in [Calls -> CallType] /\ OthersKept(c) /\ jobs' = jobs
           /\ calls[c].phase = "queued" /\ calls'[c].phase = "ciphered"
           /\ jobs # << >> /\ Head(jobs) = c /\ calls'[c].room = calls[c].room
           /\ calls'[c].msg = Created(own[calls[c].room], gens[calls[c].room] + 1)
           /\ own' = [own EXCEPT ![calls[c].room] = Encrypted(calls'[c].msg)]
           /\ gens' = IF own[calls[c].room].gen = 0
                      THEN [gens EXCEPT ![calls[c].room] = gens[calls[c].room] + 1]
                      ELSE gens
           /\ own' \in [Rooms -> Chains] /\ gens' \in [Rooms -> Nat]
<1> DEFINE r == calls[c].room
           o == Created(own[r], gens[r] + 1)
<1>1. r \in Rooms /\ own \in [Rooms -> Chains] /\ gens \in [Rooms -> Nat]
  BY Entry DEF TypeOK
<1>2. /\ calls' = [calls EXCEPT ![c].phase = "ciphered", ![c].msg = o]
      /\ own' = [own EXCEPT ![r] = Encrypted(o)]
      /\ gens' = IF own[r].gen = 0 THEN [gens EXCEPT ![r] = gens[r] + 1] ELSE gens
      /\ jobs' = jobs /\ calls[c].phase = "queued" /\ jobs # << >> /\ Head(jobs) = c
  BY DEF CipherJob, Cipher, Running, InPhase
<1>3. own[r] \in Chains /\ gens[r] + 1 \in Nat
  BY <1>1
<1>4. o \in Chains /\ Encrypted(o) \in Chains
  BY <1>3, StatesOfCipher
<1> HIDE DEF o
<1>5. calls \in [Calls -> CallType] /\ "ciphered" \in Phases
  BY Entry DEF Phases
<1>6. /\ calls' \in [Calls -> CallType] /\ OthersKept(c) /\ calls'[c].phase = "ciphered"
      /\ calls'[c].room = r /\ calls'[c].msg = o
  BY <1>2, <1>4, <1>5 DEF OthersKept, CallType
<1>7. own' \in [Rooms -> Chains] /\ gens' \in [Rooms -> Nat]
  BY <1>1, <1>2, <1>3, <1>4
<1>8. QED
  BY <1>2, <1>6, <1>7 DEF o

LEMMA DistributeCalls ==
    ASSUME TypeOK, NEW c \in Calls, DistributeJob(c) \/ DistributeStatus(c)
    PROVE  /\ calls' \in [Calls -> CallType] /\ OthersKept(c) /\ jobs' = jobs
           /\ calls[c].phase = "ciphered" /\ calls'[c].phase = "ready"
           /\ calls'[c].room = calls[c].room /\ calls'[c].msg = calls[c].msg
<1>1. "ready" \in Phases /\ sess \subseteq Devices
  BY DEF Phases, TypeOK
<1>2. CASE DistributeJob(c)
  <2>1. PICK D \in SUBSET sess :
            calls' = [calls EXCEPT ![c].phase = "ready", ![c].devs = D]
    BY <1>2 DEF DistributeJob
  <2>2. jobs' = jobs /\ calls[c].phase = "ciphered" /\ D \in SUBSET Devices
    BY <1>1, <1>2 DEF DistributeJob, Running, InPhase
  <2>3. QED
    BY <1>1, <2>1, <2>2, MovesTo
<1>3. CASE DistributeStatus(c)
  <2>1. /\ calls' = [calls EXCEPT ![c].phase = "ready", ![c].devs = calls[c].devs \intersect sess]
        /\ jobs' = jobs /\ calls[c].phase = "ciphered"
    BY <1>3 DEF DistributeStatus, Running, InPhase
  <2>2. calls[c].devs \intersect sess \in SUBSET Devices
    BY <1>1
  <2>3. QED
    BY <1>1, <2>1, <2>2, MovesTo
<1>4. QED
  BY <1>2, <1>3

LEMMA EndCalls ==
    ASSUME TypeOK, NEW c \in Calls, StatusToNobody(c) \/ SendJob(c) \/ SendFails(c)
    PROVE  /\ calls' \in [Calls -> CallType] /\ OthersKept(c) /\ calls'[c] = Idle
           /\ calls[c].phase \in InHand /\ jobs # << >> /\ Head(jobs) = c
           /\ jobs' = Tail(jobs)
<1>1. Ends(c) /\ calls[c].phase \in InHand /\ jobs # << >> /\ Head(jobs) = c
  BY DEF StatusToNobody, SendJob, SendFails, Running, InPhase, InHand
<1>2. calls' = [calls EXCEPT ![c] = Idle] /\ jobs' = Tail(jobs)
  BY <1>1 DEF Ends
<1>3. QED
  BY <1>1, <1>2, IdleType, Becomes

LEMMA ForgetCalls ==
    ASSUME Forgets
    PROVE  calls' \in [Calls -> CallType] /\ jobs' = << >> /\ \A c \in Calls : calls'[c] = Idle
  BY IdleType DEF Forgets

----------------------------------------------------------------------------
(* The chain of jobs: who is in it, and who is at its head.                  *)

JobsInv ==
    /\ \A i \in DOMAIN jobs : calls[jobs[i]].phase \in InJob
    /\ \A i, j \in DOMAIN jobs : jobs[i] = jobs[j] => i = j
    /\ \A c \in Calls : calls[c].phase \in InJob => \E i \in DOMAIN jobs : jobs[i] = c
    /\ \A c \in Calls : calls[c].phase \in InHand => jobs[1] = c

LEMMA JobsEntry ==
    ASSUME TypeOK
    PROVE  /\ jobs \in Seq(Calls) /\ Len(jobs) \in Nat /\ DOMAIN jobs = 1..Len(jobs)
           /\ \A i \in DOMAIN jobs : jobs[i] \in Calls
           /\ jobs # << >> => /\ 1 \in DOMAIN jobs /\ Head(jobs) = jobs[1]
                              /\ Tail(jobs) \in Seq(Calls) /\ Len(Tail(jobs)) = Len(jobs) - 1
                              /\ \A i \in 1..(Len(jobs) - 1) : Tail(jobs)[i] = jobs[i + 1]
  BY DEF TypeOK

\* A send that stays on its side of the chain.
LEMMA JobsStay ==
    ASSUME TypeOK, JobsInv, NEW c \in Calls, OthersKept(c), jobs' = jobs,
           \/ calls[c].phase \in Outside /\ calls'[c].phase \in Outside
           \/ /\ calls[c].phase \in InJob /\ calls'[c].phase \in InJob
              /\ jobs # << >> /\ Head(jobs) = c
    PROVE  JobsInv'
<1>1. calls[c].phase \in InJob <=> calls'[c].phase \in InJob
  BY DEF Outside
<1>2. calls'[c].phase \in InHand => jobs[1] = c
  BY JobsEntry DEF Outside, InJob, InHand
<1>3. QED
  BY <1>1, <1>2, JobsEntry DEF JobsInv, OthersKept

LEMMA JobsJoin ==
    ASSUME TypeOK, JobsInv, NEW c \in Calls, OthersKept(c), calls[c].phase \in Outside,
           calls'[c].phase = "queued", jobs' = Append(jobs, c)
    PROVE  JobsInv'
<1>1. /\ DOMAIN jobs' = 1..(Len(jobs) + 1) /\ jobs'[Len(jobs) + 1] = c
      /\ \A i \in DOMAIN jobs : jobs'[i] = jobs[i] /\ i \in DOMAIN jobs'
  BY JobsEntry
<1>2. \A i \in DOMAIN jobs : jobs[i] # c
  BY DEF JobsInv, Outside
<1>3. \A i \in DOMAIN jobs' : i = Len(jobs) + 1 \/ i \in DOMAIN jobs
  BY <1>1, JobsEntry
<1>4. \A i \in DOMAIN jobs' : calls'[jobs'[i]].phase \in InJob
  BY <1>1, <1>2, <1>3, JobsEntry DEF JobsInv, OthersKept, InJob
<1>5. \A i, j \in DOMAIN jobs' : jobs'[i] = jobs'[j] => i = j
  BY <1>1, <1>2, <1>3 DEF JobsInv
<1>6. \A x \in Calls : calls'[x].phase \in InJob => \E i \in DOMAIN jobs' : jobs'[i] = x
  <2> SUFFICES ASSUME NEW x \in Calls, calls'[x].phase \in InJob
               PROVE  \E i \in DOMAIN jobs' : jobs'[i] = x
    OBVIOUS
  <2>1. CASE x = c
    BY <1>1, <2>1, JobsEntry
  <2>2. CASE x # c
    <3>1. PICK i \in DOMAIN jobs : jobs[i] = x
      BY <2>2 DEF JobsInv, OthersKept
    <3>2. QED
      BY <1>1, <3>1
  <2>3. QED
    BY <2>1, <2>2
<1>7. \A x \in Calls : calls'[x].phase \in InHand => jobs'[1] = x
  <2> SUFFICES ASSUME NEW x \in Calls, calls'[x].phase \in InHand PROVE jobs'[1] = x
    OBVIOUS
  <2>1. x # c
    BY DEF InHand
  <2>2. calls[x].phase \in InHand /\ calls[x].phase \in InJob
    BY <2>1 DEF OthersKept, InHand, InJob
  <2>3. jobs[1] = x /\ \E i \in DOMAIN jobs : jobs[i] = x
    BY <2>2 DEF JobsInv
  <2>4. 1 \in DOMAIN jobs
    BY <2>3, JobsEntry
  <2>5. QED
    BY <1>1, <2>3, <2>4
<1>8. QED
  BY <1>4, <1>5, <1>6, <1>7 DEF JobsInv

LEMMA JobsEnd ==
    ASSUME TypeOK, JobsInv, NEW c \in Calls, OthersKept(c), calls'[c] = Idle,
           jobs # << >>, Head(jobs) = c, jobs' = Tail(jobs)
    PROVE  JobsInv'
<1>0. /\ jobs[1] = c /\ 1 \in DOMAIN jobs /\ Len(jobs) \in Nat
      /\ DOMAIN jobs' = 1..(Len(jobs) - 1)
      /\ \A i \in DOMAIN jobs' : jobs'[i] = jobs[i + 1] /\ i + 1 \in DOMAIN jobs /\ i + 1 # 1
  BY JobsEntry
<1>1. \A i \in DOMAIN jobs' : jobs'[i] # c /\ jobs'[i] \in Calls
  BY <1>0, JobsEntry DEF JobsInv
<1>2. \A i \in DOMAIN jobs' : calls'[jobs'[i]].phase \in InJob
  BY <1>0, <1>1 DEF JobsInv, OthersKept
<1>3. \A i, j \in DOMAIN jobs' : jobs'[i] = jobs'[j] => i = j
  <2> SUFFICES ASSUME NEW i \in DOMAIN jobs', NEW j \in DOMAIN jobs', jobs'[i] = jobs'[j]
               PROVE  i = j
    OBVIOUS
  <2>1. i + 1 = j + 1
    BY <1>0 DEF JobsInv
  <2>2. QED
    BY <1>0, <2>1
<1>4. \A x \in Calls : calls'[x].phase \in InJob => \E i \in DOMAIN jobs' : jobs'[i] = x
  <2> SUFFICES ASSUME NEW x \in Calls, calls'[x].phase \in InJob
               PROVE  \E i \in DOMAIN jobs' : jobs'[i] = x
    OBVIOUS
  <2>1. x # c /\ calls[x].phase \in InJob
    BY IdleType DEF OthersKept, InJob
  <2>2. PICK i \in DOMAIN jobs : jobs[i] = x
    BY <2>1 DEF JobsInv
  <2>3. i # 1 /\ i - 1 \in DOMAIN jobs' /\ i = (i - 1) + 1
    BY <1>0, <2>1, <2>2, JobsEntry
  <2>4. jobs'[i - 1] = x
    BY <1>0, <2>2, <2>3
  <2>5. QED
    BY <2>3, <2>4
<1>5. \A x \in Calls : calls'[x].phase \notin InHand
  BY <1>0, IdleType DEF JobsInv, OthersKept, InHand
<1>6. QED
  BY <1>2, <1>3, <1>4, <1>5 DEF JobsInv

\* Nobody but the account itself moves its sends.
Elsewhere ==
    \/ \E d \in Devices :
          \/ HearFrom(d) \/ Change(d) \/ Arrive(d)
          \/ AbsorbKey(d) \/ PairFails(d) \/ RunSkmsg(d) \/ DeviceRestarts(d)
    \/ LinkDown \/ LinkUp \/ CacheExpires \/ HandleNote \/ UNCHANGED vars

LEMMA Cases ==
    ASSUME [Next]_vars
    PROVE  \/ \E c \in Calls :
                 \/ Prepares(c) \/ SessionsAnswer(c) \/ QueryFails(c) \/ CipherJob(c)
                 \/ DistributeJob(c) \/ DistributeStatus(c)
                 \/ StatusToNobody(c) \/ SendJob(c) \/ SendFails(c)
           \/ Restart \/ PairAgain \/ Elsewhere
  BY Zenon DEF Next, Query, Job, Prepares, Elsewhere

LEMMA ElsewhereCalls ==
    ASSUME Elsewhere
    PROVE  UNCHANGED <<calls, jobs, own, gens, sent, reused>>
  BY DEF Elsewhere, HearFrom, Change, Arrive, AbsorbKey, PairFails, RunSkmsg, DeviceRestarts,
         LinkDown, LinkUp, CacheExpires, HandleNote, vars, sendVars

LEMMA JobsStep == TypeOK /\ JobsInv /\ [Next]_vars => JobsInv'
<1> SUFFICES ASSUME TypeOK, JobsInv, [Next]_vars PROVE JobsInv'
  OBVIOUS
<1>1. ASSUME NEW c \in Calls, Prepares(c) PROVE JobsInv'
  BY <1>1, PrepareCalls, JobsStay
<1>2. ASSUME NEW c \in Calls, SessionsAnswer(c) \/ QueryFails(c) PROVE JobsInv'
  BY <1>2, QueueCalls, JobsStay, JobsJoin
<1>3. ASSUME NEW c \in Calls, CipherJob(c) PROVE JobsInv'
  BY <1>3, CipherCalls, JobsStay DEF InJob
<1>4. ASSUME NEW c \in Calls, DistributeJob(c) \/ DistributeStatus(c) PROVE JobsInv'
  <2>1. jobs # << >> /\ Head(jobs) = c
    BY <1>4 DEF DistributeJob, DistributeStatus, Running
  <2>2. QED
    BY <1>4, <2>1, DistributeCalls, JobsStay DEF InJob
<1>5. ASSUME NEW c \in Calls, StatusToNobody(c) \/ SendJob(c) \/ SendFails(c) PROVE JobsInv'
  BY <1>5, EndCalls, JobsEnd
<1>6. CASE Restart \/ PairAgain
  <2>1. Forgets
    BY <1>6 DEF Restart, PairAgain
  <2>2. QED
    BY <2>1, ForgetCalls, IdleType DEF JobsInv, InJob, InHand
<1>7. CASE Elsewhere
  BY <1>7, ElsewhereCalls DEF JobsInv
<1>8. QED
  BY <1>1, <1>2, <1>3, <1>4, <1>5, <1>6, <1>7, Cases

----------------------------------------------------------------------------
(* Types. *)

NameOf(c) == [room |-> calls[c].room, gen |-> calls[c].msg.gen, iter |-> calls[c].msg.iter]

LEMMA StanzaLemma ==
    ASSUME TypeOK, NEW c \in Calls, NEW d
    PROVE  /\ Stanza(c, d) \in Stanzas /\ Name(Stanza(c, d)) = NameOf(c) /\ NameOf(c) \in Names
           /\ Stanza(c, d).room = NameOf(c).room /\ Stanza(c, d).gen = NameOf(c).gen
           /\ Stanza(c, d).iter = NameOf(c).iter
           /\ Stanza(c, d).key <=> d \in calls[c].devs
<1>1. calls[c].room \in Rooms /\ calls[c].msg.gen \in Nat /\ calls[c].msg.iter \in Nat
  BY Entry DEF Chains
<1> DEFINE b == d \in calls[c].devs
<1>2. b \in BOOLEAN
  OBVIOUS
<1>3. Stanza(c, d) = [room |-> calls[c].room, gen |-> calls[c].msg.gen,
                      iter |-> calls[c].msg.iter, key |-> b]
  BY Zenon DEF Stanza
<1> HIDE DEF b
<1>4. Stanza(c, d) \in Stanzas /\ Stanza(c, d).key = b
  BY <1>1, <1>2, <1>3 DEF Stanzas
<1>5. /\ Name(Stanza(c, d)) = NameOf(c) /\ NameOf(c) \in Names
      /\ Stanza(c, d).room = NameOf(c).room /\ Stanza(c, d).gen = NameOf(c).gen
      /\ Stanza(c, d).iter = NameOf(c).iter
  BY <1>1, <1>3 DEF Name, NameOf, Names
<1>6. Stanza(c, d).key <=> d \in calls[c].devs
  BY <1>4, Zenon DEF b
<1>7. QED
  BY <1>4, <1>5, <1>6

LEMMA NameLemma ==
    ASSUME NEW m \in Stanzas
    PROVE  /\ Name(m) \in Names
           /\ Name(m).room = m.room /\ Name(m).gen = m.gen /\ Name(m).iter = m.iter
           /\ FirstEnc(m) \in Encs /\ FirstEnc(m).name = Name(m)
           /\ FirstEnc(m).type = "pair" <=> m.key
  BY DEF Stanzas, Name, Names, FirstEnc, Enc, Encs

\* What is queued for a device.
LEMMA DeviceEntry ==
    ASSUME TypeOK, NEW d \in Devices
    PROVE  /\ inbox \in [Devices -> Seq(Stanzas)] /\ chain \in [Devices -> Seq(Encs)]
           /\ rec \in [Devices -> [Rooms -> Seq(States)]]
           /\ inbox[d] \in Seq(Stanzas) /\ chain[d] \in Seq(Encs)
           /\ \A r \in Rooms : rec[d][r] \in Seq(States) /\ Sound(rec[d][r])
           /\ opened[d] \in Seq(Names) /\ absorbed[d] \in SUBSET Names
           /\ Len(inbox[d]) \in Nat /\ Len(chain[d]) \in Nat
           /\ DOMAIN inbox[d] = 1..Len(inbox[d]) /\ DOMAIN chain[d] = 1..Len(chain[d])
           /\ \A i \in DOMAIN inbox[d] : inbox[d][i] \in Stanzas
           /\ \A i \in DOMAIN chain[d] : chain[d][i] \in Encs /\ chain[d][i].name \in Names
           /\ chain[d] # << >> => /\ 1 \in DOMAIN chain[d] /\ Head(chain[d]) = chain[d][1]
           /\ inbox[d] # << >> => /\ 1 \in DOMAIN inbox[d] /\ Head(inbox[d]) = inbox[d][1]
<1>1. /\ inbox \in [Devices -> Seq(Stanzas)] /\ chain \in [Devices -> Seq(Encs)]
      /\ rec \in [Devices -> [Rooms -> Seq(States)]]
      /\ opened \in [Devices -> Seq(Names)] /\ absorbed \in [Devices -> SUBSET Names]
  BY DEF TypeOK, Stanzas, Encs, States
<1>2. \A r \in Rooms : Sound(rec[d][r])
  BY DEF TypeOK, Sound, Distinct
<1>3. inbox[d] \in Seq(Stanzas) /\ chain[d] \in Seq(Encs)
  BY <1>1
<1>4. \A i \in DOMAIN chain[d] : chain[d][i] \in Encs
  BY <1>3
<1>5. \A e \in Encs : e.name \in Names
  BY DEF Encs
<1>6. QED
  BY <1>1, <1>2, <1>3, <1>4, <1>5

\* The rest of a chain, and the skmsg of the stanza at its head.
LEMMA NextEncLemma ==
    ASSUME TypeOK, NEW d \in Devices, chain[d] # << >>
    PROVE  /\ NextEnc(d) \in Seq(Encs) /\ DOMAIN NextEnc(d) = 1..Len(chain[d])
           /\ Tail(chain[d]) \in Seq(Encs) /\ DOMAIN Tail(chain[d]) = 1..(Len(chain[d]) - 1)
           /\ \A i \in 1..(Len(chain[d]) - 1) : /\ NextEnc(d)[i] = chain[d][i + 1]
                                                /\ Tail(chain[d])[i] = chain[d][i + 1]
                                                /\ i + 1 \in DOMAIN chain[d]
           /\ NextEnc(d)[Len(chain[d])].name = chain[d][1].name
           /\ NextEnc(d)[Len(chain[d])].type = "skmsg"
<1> DEFINE e == [Head(chain[d]) EXCEPT !.type = "skmsg"]
           t == Tail(chain[d])
<1>1. Head(chain[d]) \in Encs /\ Head(chain[d]) = chain[d][1]
  BY DeviceEntry
<1>2. e \in Encs /\ e.name = chain[d][1].name /\ e.type = "skmsg"
  BY <1>1 DEF Encs
<1>3. /\ t \in Seq(Encs) /\ Len(t) = Len(chain[d]) - 1 /\ Len(chain[d]) \in Nat \ {0}
      /\ \A i \in 1..(Len(chain[d]) - 1) : t[i] = chain[d][i + 1] /\ i + 1 \in DOMAIN chain[d]
  BY DeviceEntry
<1>4. NextEnc(d) = Append(t, e)
  BY DEF NextEnc
<1> HIDE DEF e, t
<1>5. /\ NextEnc(d) \in Seq(Encs) /\ Len(NextEnc(d)) = Len(chain[d])
      /\ NextEnc(d)[Len(chain[d])] = e
      /\ \A i \in 1..(Len(chain[d]) - 1) : NextEnc(d)[i] = t[i]
  BY <1>2, <1>3, <1>4
<1>6. QED
  BY <1>2, <1>3, <1>5 DEF t

Marks == {"absent", "known", "has"}
Mems == [gen : Nat, jids : [Devices -> Marks]]

AccountOK ==
    /\ own \in [Rooms -> Chains] /\ gens \in [Rooms -> Nat]
    /\ mem \in Mems
    /\ peers \subseteq Devices /\ sess \subseteq Devices /\ members \subseteq Devices
    /\ cache \in [set : BOOLEAN, devs : SUBSET Devices]
    /\ calls \in [Calls -> CallType] /\ jobs \in Seq(Calls)
    /\ notes \in Nat /\ sent \subseteq Names

DevicesOK ==
    /\ inbox \in [Devices -> Seq(Stanzas)] /\ chain \in [Devices -> Seq(Encs)]
    /\ rec \in [Devices -> [Rooms -> Seq(States)]]
    /\ opened \in [Devices -> Seq(Names)] /\ absorbed \in [Devices -> SUBSET Names]
    /\ \A d \in Devices, r \in Rooms : Sound(rec[d][r])

LEMMA TypeParts == TypeOK <=> AccountOK /\ DevicesOK
  BY DEF TypeOK, AccountOK, DevicesOK, Mems, Marks, CallType, Stanzas, Encs, States, Sound,
         Distinct

LEMMA MemoryType ==
    ASSUME TypeOK, NEW gen \in Nat
    PROVE  /\ Memory(gen) \in Mems /\ Memory(gen).gen = gen
           /\ \A d \in Devices : Memory(gen).jids[d] = "has" => mem.gen = gen /\ mem.jids[d] = "has"
<1>1. mem \in Mems
  BY TypeParts DEF AccountOK
<1>2. CASE mem.gen = gen
  BY <1>1, <1>2 DEF Memory
<1>3. CASE mem.gen # gen
  <2>1. Memory(gen) = [gen |-> gen, jids |-> [d \in Devices |-> "absent"]]
    BY <1>3 DEF Memory
  <2>2. QED
    BY <2>1 DEF Mems, Marks
<1>4. QED
  BY <1>2, <1>3

\* What a job that sends the group key makes of the marks.
LEMMA DistributeMem ==
    ASSUME TypeOK, NEW c \in Calls, DistributeJob(c)
    PROVE  /\ mem' \in Mems /\ mem'.gen = calls[c].msg.gen
           /\ \A d \in Devices : mem'.jids[d] = "has" =>
                 \/ mem.gen = calls[c].msg.gen /\ mem.jids[d] = "has"
                 \/ d \in calls'[c].devs
<1> DEFINE m == Memory(calls[c].msg.gen)
           T == GroupTargets(c, m)
<1>1. calls[c].msg.gen \in Nat
  BY Entry DEF Chains
<1>2. /\ mem' = [m EXCEPT !.jids = Marked(m, T)]
      /\ calls' = [calls EXCEPT ![c].phase = "ready", ![c].devs = T \intersect sess]
  BY DEF DistributeJob
<1>3. /\ m \in Mems /\ m.gen = calls[c].msg.gen
      /\ \A d \in Devices : m.jids[d] = "has" => mem.gen = calls[c].msg.gen /\ mem.jids[d] = "has"
  BY <1>1, MemoryType
<1> HIDE DEF m, T
<1>4. /\ Marked(m, T) \in [Devices -> Marks]
      /\ \A d \in Devices : Marked(m, T)[d] = "has" => d \in T \intersect sess \/ m.jids[d] = "has"
  BY <1>3 DEF Marked, Mems, Marks
<1>5. mem' \in Mems /\ mem'.gen = m.gen /\ mem'.jids = Marked(m, T)
  BY <1>2, <1>3, <1>4 DEF Mems
<1>6. calls'[c].devs = T \intersect sess
  <2> DEFINE D == T \intersect sess
  <2>1. D \in SUBSET Devices
    BY TypeParts DEF AccountOK
  <2>2. calls' = [calls EXCEPT ![c].phase = "ready", ![c].devs = D]
    BY <1>2
  <2> HIDE DEF D
  <2>3. "ready" \in Phases
    BY DEF Phases
  <2>4. calls'[c].devs = D
    BY <2>2, Entry DEF CallType
  <2>5. QED
    BY <2>4 DEF D
<1>7. QED
  BY <1>3, <1>4, <1>5, <1>6

LEMMA AccountType == TypeOK /\ [Next]_vars => AccountOK'
<1> SUFFICES ASSUME TypeOK, [Next]_vars PROVE AccountOK'
  OBVIOUS
<1>0. AccountOK
  BY TypeParts
<1>1. ASSUME NEW c \in Calls, Prepares(c) PROVE AccountOK'
  <2>1. calls' \in [Calls -> CallType] /\ jobs' = jobs
    BY <1>1, PrepareCalls
  <2>2. UNCHANGED <<own, gens, mem, peers, sess, members, notes, sent>>
    BY <1>1 DEF Prepares, StartGroupSend, StartStatus, MetadataAnswer, DevicesAnswer, worldVars
  <2>3. cache' \in [set : BOOLEAN, devs : SUBSET Devices]
    <3>1. cache' = cache \/ cache' = List(calls[c].devs)
      BY <1>1 DEF Prepares, StartGroupSend, StartStatus, MetadataAnswer, DevicesAnswer
    <3>2. List(calls[c].devs) \in [set : BOOLEAN, devs : SUBSET Devices]
      BY Entry DEF List
    <3>3. QED
      BY <1>0, <3>1, <3>2 DEF AccountOK
  <2>4. QED
    BY <1>0, <2>1, <2>2, <2>3 DEF AccountOK
<1>2. ASSUME NEW c \in Calls, SessionsAnswer(c) \/ QueryFails(c) PROVE AccountOK'
  <2>1. calls' \in [Calls -> CallType] /\ jobs' \in Seq(Calls)
    BY <1>2, QueueCalls, JobsEntry
  <2>2. UNCHANGED <<own, gens, mem, peers, cache, members, notes, sent>>
    BY <1>2 DEF SessionsAnswer, QueryFails, worldVars
  <2>3. sess' \subseteq Devices
    BY <1>0, <1>2, Entry DEF SessionsAnswer, QueryFails, AccountOK
  <2>4. QED
    BY <1>0, <2>1, <2>2, <2>3 DEF AccountOK
<1>3. ASSUME NEW c \in Calls, CipherJob(c) PROVE AccountOK'
  <2>1. UNCHANGED <<mem, peers, sess, cache, members, notes, sent>>
    BY <1>3 DEF CipherJob, worldVars
  <2>2. QED
    BY <1>0, <1>3, <2>1, CipherCalls DEF AccountOK
<1>4. ASSUME NEW c \in Calls, DistributeJob(c) \/ DistributeStatus(c) PROVE AccountOK'
  <2>1. UNCHANGED <<own, gens, peers, sess, cache, members, notes, sent>>
    BY <1>4 DEF DistributeJob, DistributeStatus, worldVars
  <2>2. mem' \in Mems
    BY <1>0, <1>4, DistributeMem DEF DistributeStatus, AccountOK
  <2>3. QED
    BY <1>0, <1>4, <2>1, <2>2, DistributeCalls DEF AccountOK
<1>5. ASSUME NEW c \in Calls, StatusToNobody(c) \/ SendJob(c) \/ SendFails(c) PROVE AccountOK'
  <2>1. UNCHANGED <<own, gens, mem, peers, sess, cache, members, notes>>
    BY <1>5 DEF StatusToNobody, SendJob, SendFails, worldVars
  <2>2. sent' = sent \/ sent' = sent \union {NameOf(c)}
    BY <1>5, StanzaLemma DEF StatusToNobody, SendJob, SendFails, HandsOver
  <2>3. NameOf(c) \in Names
    BY StanzaLemma
  <2>4. calls' \in [Calls -> CallType] /\ jobs' \in Seq(Calls)
    BY <1>5, EndCalls, JobsEntry
  <2>5. QED
    BY <1>0, <2>1, <2>2, <2>3, <2>4 DEF AccountOK
<1>6. CASE Restart \/ PairAgain
  <2>1. /\ UNCHANGED <<gens, members, notes, sent>>
        /\ peers' = {} /\ cache' = NoList /\ sess' \subseteq sess
        /\ own' = own \/ own' = [r \in Rooms |-> NoChain]
        /\ mem' = mem \/ mem' = [gen |-> 0, jids |-> [d \in Devices |-> "absent"]]
    BY <1>6 DEF Restart, PairAgain, Forgets, worldVars
  <2>2. calls' \in [Calls -> CallType] /\ jobs' \in Seq(Calls)
    <3>1. Forgets
      BY <1>6 DEF Restart, PairAgain
    <3>2. calls' \in [Calls -> CallType] /\ jobs' = << >>
      BY <3>1, ForgetCalls
    <3>3. QED
      BY <3>2
  <2>3. NoList \in [set : BOOLEAN, devs : SUBSET Devices]
    BY DEF NoList
  <2>4. [gen |-> 0, jids |-> [d \in Devices |-> "absent"]] \in Mems
    BY DEF Mems, Marks
  <2>5. QED
    BY <1>0, <2>1, <2>2, <2>3, <2>4, IdleType DEF AccountOK
<1>7. CASE Elsewhere
  <2>1. UNCHANGED <<calls, jobs, own, gens, sent>>
    BY <1>7, ElsewhereCalls
  <2>2. peers' \subseteq Devices /\ sess' \subseteq Devices /\ members' \subseteq Devices
        /\ notes' \in Nat
    <3>1. \/ peers' = peers /\ sess' = sess
          \/ \E d \in Devices : peers' = peers \union {d} /\ sess' = sess \union {d}
      BY <1>7
      DEF Elsewhere, HearFrom, Change, Arrive, AbsorbKey, PairFails, RunSkmsg, DeviceRestarts,
          LinkDown, LinkUp, CacheExpires, HandleNote, vars, sendVars
    <3>2. \/ members' = members
          \/ \E d \in Devices : members' = members \ {d} \/ members' = members \union {d}
      BY <1>7
      DEF Elsewhere, HearFrom, Change, Arrive, AbsorbKey, PairFails, RunSkmsg, DeviceRestarts,
          LinkDown, LinkUp, CacheExpires, HandleNote, vars, worldVars
    <3>3. notes' = notes \/ notes' = notes + 1 \/ (notes > 0 /\ notes' = notes - 1)
      BY <1>7
      DEF Elsewhere, HearFrom, Change, Arrive, AbsorbKey, PairFails, RunSkmsg, DeviceRestarts,
          LinkDown, LinkUp, CacheExpires, HandleNote, vars, worldVars
    <3>4. QED
      BY <1>0, <3>1, <3>2, <3>3 DEF AccountOK
  <2>3. mem' \in Mems
    <3>1. mem' = mem \/ \E d \in Devices : mem' = [mem EXCEPT !.jids[d] = "known"]
      BY <1>7
      DEF Elsewhere, HearFrom, Change, Arrive, AbsorbKey, PairFails, RunSkmsg, DeviceRestarts,
          LinkDown, LinkUp, CacheExpires, HandleNote, vars, sendVars
    <3>2. ASSUME NEW d \in Devices, mem' = [mem EXCEPT !.jids[d] = "known"] PROVE mem' \in Mems
      <4>1. mem \in Mems /\ [mem.jids EXCEPT ![d] = "known"] \in [Devices -> Marks]
        BY <1>0 DEF AccountOK, Mems, Marks
      <4>2. mem' = [mem EXCEPT !.jids = [mem.jids EXCEPT ![d] = "known"]]
        BY <3>2
      <4>3. QED
        BY <4>1, <4>2 DEF Mems
    <3>3. QED
      BY <1>0, <3>1, <3>2 DEF AccountOK
  <2>4. cache' \in [set : BOOLEAN, devs : SUBSET Devices]
    <3>1. cache' = cache \/ cache' = NoList
      BY <1>7
      DEF Elsewhere, HearFrom, Change, Arrive, AbsorbKey, PairFails, RunSkmsg, DeviceRestarts,
          LinkDown, LinkUp, CacheExpires, HandleNote, vars, sendVars
    <3>2. NoList \in [set : BOOLEAN, devs : SUBSET Devices]
      BY DEF NoList
    <3>3. QED
      BY <1>0, <3>1, <3>2 DEF AccountOK
  <2>5. QED
    BY <1>0, <2>1, <2>2, <2>3, <2>4 DEF AccountOK
<1>8. QED
  BY <1>1, <1>2, <1>3, <1>4, <1>5, <1>6, <1>7, Cases

\* The steps that change what devices have.
Receives(d) == Arrive(d) \/ AbsorbKey(d) \/ PairFails(d) \/ RunSkmsg(d) \/ DeviceRestarts(d)

LEMMA DeviceCases ==
    ASSUME [Next]_vars
    PROVE  \/ \E c \in Calls : SendJob(c)
           \/ \E d \in Devices : Receives(d)
           \/ UNCHANGED recvVars
<1>1. CASE \E c \in Calls :
              \/ Prepares(c) \/ SessionsAnswer(c) \/ QueryFails(c) \/ CipherJob(c)
              \/ DistributeJob(c) \/ DistributeStatus(c) \/ StatusToNobody(c) \/ SendFails(c)
  BY <1>1 DEF Prepares, StartGroupSend, StartStatus, MetadataAnswer, DevicesAnswer,
              SessionsAnswer, QueryFails, CipherJob, DistributeJob, DistributeStatus,
              StatusToNobody, SendFails
<1>2. CASE Restart \/ PairAgain
  BY <1>2 DEF Restart, PairAgain
<1>3. CASE Elsewhere
  BY <1>3 DEF Elsewhere, Receives, HearFrom, Change, LinkDown, LinkUp, CacheExpires,
              HandleNote, vars
<1>4. QED
  BY <1>1, <1>2, <1>3, Cases

\* Only the queue of one device moves.
LEMMA ReceiveLemma ==
    ASSUME TypeOK, NEW d \in Devices, Receives(d)
    PROVE  /\ \A x \in Devices : x # d => /\ chain'[x] = chain[x] /\ inbox'[x] = inbox[x]
                                          /\ opened'[x] = opened[x] /\ rec'[x] = rec[x]
                                          /\ absorbed'[x] = absorbed[x]
           /\ UNCHANGED sendVars /\ UNCHANGED worldVars
           /\ keyLost \subseteq keyLost' /\ \A k \in keyLost' \ keyLost : k[1] = d
<1> USE DeviceEntry
<1>1. /\ inbox \in [Devices -> Seq(Stanzas)] /\ chain \in [Devices -> Seq(Encs)]
      /\ rec \in [Devices -> [Rooms -> Seq(States)]]
      /\ opened \in [Devices -> Seq(Names)] /\ absorbed \in [Devices -> SUBSET Names]
  BY TypeParts DEF DevicesOK
<1>2. CASE Arrive(d)
  BY <1>1, <1>2 DEF Arrive
<1>3. CASE AbsorbKey(d)
  BY <1>1, <1>3 DEF AbsorbKey
<1>4. CASE PairFails(d)
  BY <1>1, <1>4 DEF PairFails
<1>5. CASE RunSkmsg(d)
  BY <1>1, <1>5 DEF RunSkmsg
<1>6. CASE DeviceRestarts(d)
  BY <1>1, <1>6 DEF DeviceRestarts
<1>7. QED
  BY <1>2, <1>3, <1>4, <1>5, <1>6 DEF Receives

(* What each of these steps does to the device it is of.                     *)
LEMMA ArriveLemma ==
    ASSUME TypeOK, NEW d \in Devices, Arrive(d)
    PROVE  /\ inbox[d] # << >> /\ chain'[d] = Append(chain[d], FirstEnc(inbox[d][1]))
           /\ inbox'[d] = inbox[d] \/ inbox'[d] = Tail(inbox[d])
           /\ chain' = [chain EXCEPT ![d] = chain'[d]]
           /\ inbox' = [inbox EXCEPT ![d] = inbox'[d]]
           /\ UNCHANGED <<rec, opened, absorbed, keyLost>>
<1>1. inbox \in [Devices -> Seq(Stanzas)] /\ chain \in [Devices -> Seq(Encs)]
  BY TypeParts DEF DevicesOK
<1>2. QED
  BY <1>1, DeviceEntry DEF Arrive

LEMMA AbsorbLemma ==
    ASSUME TypeOK, NEW d \in Devices, AbsorbKey(d),
           NEW n, n = chain[d][1].name
    PROVE  /\ chain[d] # << >> /\ chain[d][1].type = "pair" /\ n \in Names
           /\ n \notin absorbed[d] /\ <<d, n>> \notin keyLost
           /\ rec' = [rec EXCEPT ![d] = rec'[d]]
           /\ rec'[d] = [rec[d] EXCEPT ![n.room] = AddState(rec[d][n.room], n.gen, n.iter)]
           /\ absorbed' = [absorbed EXCEPT ![d] = absorbed[d] \union {n}]
           /\ chain' = [chain EXCEPT ![d] = NextEnc(d)]
           /\ UNCHANGED <<inbox, opened, keyLost>>
<1>1. /\ chain \in [Devices -> Seq(Encs)] /\ absorbed \in [Devices -> SUBSET Names]
      /\ rec \in [Devices -> [Rooms -> Seq(States)]] /\ rec[d] \in [Rooms -> Seq(States)]
  BY TypeParts DEF DevicesOK
<1>2. chain[d] # << >> /\ Head(chain[d]) = chain[d][1] /\ n \in Names
  BY DeviceEntry DEF AbsorbKey
<1>3. /\ chain[d][1].type = "pair" /\ n \notin absorbed[d] /\ <<d, n>> \notin keyLost
      /\ rec' = [rec EXCEPT ![d][n.room] = AddState(rec[d][n.room], n.gen, n.iter)]
      /\ absorbed' = [absorbed EXCEPT ![d] = absorbed[d] \union {n}]
      /\ chain' = [chain EXCEPT ![d] = NextEnc(d)]
      /\ UNCHANGED <<inbox, opened, keyLost>>
  BY <1>2 DEF AbsorbKey
<1>4. rec'[d] = [rec[d] EXCEPT ![n.room] = AddState(rec[d][n.room], n.gen, n.iter)]
      /\ rec' = [rec EXCEPT ![d] = rec'[d]]
  BY <1>1, <1>3
<1>5. QED
  BY <1>2, <1>3, <1>4

LEMMA SkmsgLemma ==
    ASSUME TypeOK, NEW d \in Devices, RunSkmsg(d),
           NEW n, n = chain[d][1].name
    PROVE  /\ chain[d] # << >> /\ chain[d][1].type = "skmsg" /\ n \in Names
           /\ chain' = [chain EXCEPT ![d] = Tail(chain[d])]
           /\ UNCHANGED <<inbox, absorbed, keyLost>>
           /\ rec' = [rec EXCEPT ![d] = rec'[d]]
           /\ \/ UNCHANGED <<rec, opened>>
              \/ /\ CanOpen(rec[d][n.room], n.gen, n.iter)
                 /\ rec'[d] = [rec[d] EXCEPT ![n.room] = Opened(rec[d][n.room], n.gen, n.iter)]
                 /\ opened' = [opened EXCEPT ![d] = Append(opened[d], n)]
<1>1. /\ chain \in [Devices -> Seq(Encs)] /\ opened \in [Devices -> Seq(Names)]
      /\ rec \in [Devices -> [Rooms -> Seq(States)]] /\ rec[d] \in [Rooms -> Seq(States)]
  BY TypeParts DEF DevicesOK
<1>2. chain[d] # << >> /\ Head(chain[d]) = chain[d][1] /\ n \in Names
  BY DeviceEntry DEF RunSkmsg
<1>3. /\ chain[d][1].type = "skmsg" /\ chain' = [chain EXCEPT ![d] = Tail(chain[d])]
      /\ UNCHANGED <<inbox, absorbed, keyLost>>
      /\ \/ UNCHANGED <<rec, opened>>
         \/ /\ CanOpen(rec[d][n.room], n.gen, n.iter)
            /\ rec' = [rec EXCEPT ![d][n.room] = Opened(rec[d][n.room], n.gen, n.iter)]
            /\ opened' = [opened EXCEPT ![d] = Append(opened[d], n)]
  BY <1>2 DEF RunSkmsg
<1>4. CASE UNCHANGED <<rec, opened>>
  BY <1>1, <1>2, <1>3, <1>4
<1>5. CASE /\ CanOpen(rec[d][n.room], n.gen, n.iter)
           /\ rec' = [rec EXCEPT ![d][n.room] = Opened(rec[d][n.room], n.gen, n.iter)]
           /\ opened' = [opened EXCEPT ![d] = Append(opened[d], n)]
  <2>1. rec'[d] = [rec[d] EXCEPT ![n.room] = Opened(rec[d][n.room], n.gen, n.iter)]
        /\ rec' = [rec EXCEPT ![d] = rec'[d]]
    BY <1>1, <1>5
  <2>2. QED
    BY <1>2, <1>3, <1>5, <2>1
<1>6. QED
  BY <1>3, <1>4, <1>5

LEMMA DevicesType == TypeOK /\ [Next]_vars => DevicesOK'
<1> SUFFICES ASSUME TypeOK, [Next]_vars PROVE DevicesOK'
  OBVIOUS
<1>0. DevicesOK
  BY TypeParts
<1>1. ASSUME NEW c \in Calls, SendJob(c) PROVE DevicesOK'
  <2>1. /\ UNCHANGED <<chain, rec, opened, absorbed>>
        /\ inbox' = [d \in Devices |->
              IF d \in Audience(c) THEN Append(inbox[d], Stanza(c, d)) ELSE inbox[d]]
    BY <1>1 DEF SendJob
  <2>2. \A d \in Devices : inbox[d] \in Seq(Stanzas) /\ Stanza(c, d) \in Stanzas
    BY DeviceEntry, StanzaLemma
  <2>3. inbox' \in [Devices -> Seq(Stanzas)]
    BY <2>1, <2>2
  <2>4. QED
    BY <1>0, <2>1, <2>3 DEF DevicesOK
<1>2. ASSUME NEW d \in Devices, Arrive(d) PROVE DevicesOK'
  <2>1. chain'[d] \in Seq(Encs)
    <3>1. inbox[d][1] \in Stanzas /\ chain[d] \in Seq(Encs)
      BY <1>2, ArriveLemma, DeviceEntry
    <3>2. FirstEnc(inbox[d][1]) \in Encs
      BY <3>1, NameLemma
    <3>3. QED
      BY <1>2, <3>1, <3>2, ArriveLemma
  <2>2. inbox'[d] \in Seq(Stanzas)
    <3>1. inbox[d] \in Seq(Stanzas) /\ inbox[d] # << >>
          /\ (inbox'[d] = inbox[d] \/ inbox'[d] = Tail(inbox[d]))
      BY <1>2, ArriveLemma, DeviceEntry
    <3>2. Tail(inbox[d]) \in Seq(Stanzas)
      BY <3>1, HeadTailProperties
    <3>3. QED
      BY <3>1, <3>2, Zenon
  <2>3. QED
    BY <1>0, <1>2, <2>1, <2>2, ArriveLemma DEF DevicesOK
<1>3. ASSUME NEW d \in Devices, AbsorbKey(d) PROVE DevicesOK'
  <2> DEFINE n == chain[d][1].name
             a == AddState(rec[d][n.room], n.gen, n.iter)
  <2>1. /\ n \in Names /\ chain[d] # << >>
        /\ rec' = [rec EXCEPT ![d] = rec'[d]] /\ rec'[d] = [rec[d] EXCEPT ![n.room] = a]
        /\ absorbed' = [absorbed EXCEPT ![d] = absorbed[d] \union {n}]
        /\ chain' = [chain EXCEPT ![d] = NextEnc(d)] /\ UNCHANGED <<inbox, opened>>
    BY <1>3, AbsorbLemma
  <2>2. n.room \in Rooms /\ n.gen \in Nat /\ n.iter \in Nat
    BY <2>1 DEF Names
  <2>3. rec[d] \in [Rooms -> Seq(States)] /\ rec[d][n.room] \in Seq(States)
        /\ Sound(rec[d][n.room])
    BY <1>0, <2>2 DEF DevicesOK
  <2>4. a \in Seq(States) /\ Sound(a)
    <3>1. /\ a \in Seq(States)
          /\ \A i \in DOMAIN a : \/ a[i] = State(n.gen, n.iter)
                               \/ \E j \in DOMAIN rec[d][n.room] : a[i] = rec[d][n.room][j]
          /\ Distinct(rec[d][n.room]) => Distinct(a)
      BY <2>2, <2>3, AddStateLemma
    <3> HIDE DEF a
    <3>2. State(n.gen, n.iter).kept = {}
      BY DEF State
    <3>3. QED
      BY <2>3, <3>1, <3>2 DEF Sound, Distinct
  <2> HIDE DEF a
  <2>5. rec'[d] \in [Rooms -> Seq(States)] /\ \A r \in Rooms : Sound(rec'[d][r])
    BY <1>0, <2>1, <2>2, <2>3, <2>4 DEF DevicesOK
  <2>6. NextEnc(d) \in Seq(Encs)
    BY <2>1, NextEncLemma
  <2>7. absorbed[d] \union {n} \in SUBSET Names
    BY <1>0, <2>1 DEF DevicesOK
  <2> HIDE DEF n
  <2>8. /\ rec' \in [Devices -> [Rooms -> Seq(States)]]
        /\ \A x \in Devices, r \in Rooms : Sound(rec'[x][r])
    BY <1>0, <2>1, <2>5 DEF DevicesOK
  <2>9. chain' \in [Devices -> Seq(Encs)] /\ absorbed' \in [Devices -> SUBSET Names]
    BY <1>0, <2>1, <2>6, <2>7 DEF DevicesOK
  <2>10. QED
    BY <1>0, <2>1, <2>8, <2>9 DEF DevicesOK
<1>4. ASSUME NEW d \in Devices, PairFails(d) PROVE DevicesOK'
  <2>1. chain[d] # << >> /\ chain' = [chain EXCEPT ![d] = NextEnc(d)]
        /\ UNCHANGED <<inbox, rec, opened, absorbed>>
    BY <1>4 DEF PairFails
  <2>2. NextEnc(d) \in Seq(Encs)
    BY <2>1, NextEncLemma
  <2>3. QED
    BY <1>0, <2>1, <2>2 DEF DevicesOK
<1>5. ASSUME NEW d \in Devices, RunSkmsg(d) PROVE DevicesOK'
  <2> DEFINE n == chain[d][1].name
             o == Opened(rec[d][n.room], n.gen, n.iter)
  <2>1. /\ n \in Names /\ chain[d] # << >>
        /\ chain' = [chain EXCEPT ![d] = Tail(chain[d])] /\ UNCHANGED <<inbox, absorbed>>
        /\ rec' = [rec EXCEPT ![d] = rec'[d]]
        /\ \/ UNCHANGED <<rec, opened>>
           \/ /\ rec'[d] = [rec[d] EXCEPT ![n.room] = o]
              /\ opened' = [opened EXCEPT ![d] = Append(opened[d], n)]
    BY <1>5, SkmsgLemma
  <2>2. n.room \in Rooms /\ n.gen \in Nat /\ n.iter \in Nat
    BY <2>1 DEF Names
  <2>3. rec[d] \in [Rooms -> Seq(States)] /\ rec[d][n.room] \in Seq(States)
        /\ Sound(rec[d][n.room])
    BY <1>0, <2>2 DEF DevicesOK
  <2>4. o \in Seq(States) /\ Sound(o)
    BY <2>2, <2>3, OpenedLemma
  <2> HIDE DEF o
  <2>5. rec'[d] \in [Rooms -> Seq(States)] /\ \A r \in Rooms : Sound(rec'[d][r])
    <3>1. CASE rec' = rec
      BY <1>0, <3>1 DEF DevicesOK
    <3>2. CASE rec'[d] = [rec[d] EXCEPT ![n.room] = o]
      BY <1>0, <2>2, <2>3, <2>4, <3>2 DEF DevicesOK
    <3>3. QED
      BY <2>1, <3>1, <3>2
  <2>6. Tail(chain[d]) \in Seq(Encs)
    BY <2>1, NextEncLemma
  <2>7. Append(opened[d], n) \in Seq(Names)
    BY <1>0, <2>1 DEF DevicesOK
  <2> HIDE DEF n
  <2>8. /\ rec' \in [Devices -> [Rooms -> Seq(States)]]
        /\ \A x \in Devices, r \in Rooms : Sound(rec'[x][r])
    BY <1>0, <2>1, <2>5 DEF DevicesOK
  <2>9. chain' \in [Devices -> Seq(Encs)] /\ opened' \in [Devices -> Seq(Names)]
    BY <1>0, <2>1, <2>6, <2>7 DEF DevicesOK
  <2>10. QED
    BY <1>0, <2>1, <2>8, <2>9 DEF DevicesOK
<1>6. ASSUME NEW d \in Devices, DeviceRestarts(d) PROVE DevicesOK'
  BY <1>0, <1>6 DEF DeviceRestarts, DevicesOK
<1>7. CASE UNCHANGED recvVars
  BY <1>0, <1>7 DEF DevicesOK, recvVars
<1>8. QED
  BY <1>1, <1>2, <1>3, <1>4, <1>5, <1>6, <1>7, DeviceCases DEF Receives

LEMMA InitType == Init => TypeOK
<1> SUFFICES ASSUME Init PROVE TypeOK
  OBVIOUS
<1>1. AccountOK
  <2>1. /\ own \in [Rooms -> Chains] /\ gens \in [Rooms -> Nat] /\ calls \in [Calls -> CallType]
    BY IdleType DEF Init
  <2>2. mem \in Mems
    BY DEF Init, Mems, Marks
  <2>3. cache \in [set : BOOLEAN, devs : SUBSET Devices]
    BY DEF Init, NoList
  <2>4. jobs \in Seq(Calls)
    BY DEF Init
  <2>5. QED
    BY <2>1, <2>2, <2>3, <2>4 DEF Init, AccountOK
<1>2. DevicesOK
  <2>1. << >> \in Seq(States) /\ Sound(<< >>)
    BY DEF Sound, Distinct
  <2>2. rec \in [Devices -> [Rooms -> Seq(States)]]
        /\ \A d \in Devices, r \in Rooms : Sound(rec[d][r])
    BY <2>1 DEF Init
  <2>3. /\ inbox \in [Devices -> Seq(Stanzas)] /\ chain \in [Devices -> Seq(Encs)]
        /\ opened \in [Devices -> Seq(Names)] /\ absorbed \in [Devices -> SUBSET Names]
    BY DEF Init
  <2>4. QED
    BY <2>2, <2>3 DEF DevicesOK
<1>3. QED
  BY <1>1, <1>2, TypeParts

LEMMA TypeStep == TypeOK /\ [Next]_vars => TypeOK'
  BY AccountType, DevicesType, TypeParts, PTL

(* The state of the account and of every device keeps its shape; a record    *)
(* keeps no key its chain has not passed (messages.ts, sender-key.ts).       *)
THEOREM TypeCorrect == Spec => []TypeOK
  BY InitType, TypeStep, PTL DEF Spec

----------------------------------------------------------------------------
(* Message keys. What is sent was enciphered with a chain we are past, or    *)
(* with a key of ours that is gone; what waits to be sent is newer still.    *)

Older(a, b) == a.gen < b.gen \/ (a.gen = b.gen /\ a.iter < b.iter)

OwnInv == \A r \in Rooms : own[r].gen \in {0, gens[r]}
PastInv ==
    \A n \in sent : /\ 1 <= n.gen /\ n.gen <= gens[n.room]
                    /\ n.gen = own[n.room].gen => n.iter < own[n.room].iter
HandInv ==
    \A c \in Calls : calls[c].phase \in InHand =>
        /\ 1 <= calls[c].msg.gen /\ calls[c].msg.gen = own[calls[c].room].gen
        /\ calls[c].msg.iter < own[calls[c].room].iter
        /\ \A n \in sent : n.room = calls[c].room => Older(n, calls[c].msg)
SentInv == OwnInv /\ PastInv /\ HandInv /\ FreshKeys

\* As long as no job starts or ends, only the senders' queues move.
LEMMA SentStays ==
    ASSUME TypeOK, SentInv, UNCHANGED <<own, gens, sent, reused>>,
           \A c \in Calls : calls'[c].phase \in InHand =>
               /\ calls[c].phase \in InHand /\ calls'[c].room = calls[c].room
               /\ calls'[c].msg = calls[c].msg
    PROVE  SentInv'
  BY DEF SentInv, OwnInv, PastInv, HandInv, FreshKeys, Older

LEMMA SentCipher ==
    ASSUME TypeOK, JobsInv, SentInv, NEW c \in Calls, CipherJob(c)
    PROVE  SentInv'
<1> DEFINE r == calls[c].room
           o == Created(own[r], gens[r] + 1)
<1>1. /\ r \in Rooms /\ own \in [Rooms -> Chains] /\ gens \in [Rooms -> Nat]
      /\ own[r] \in Chains /\ own[r].gen \in Nat /\ own[r].iter \in Nat /\ gens[r] \in Nat
      /\ own[r].gen \in {0, gens[r]}
  BY Entry DEF TypeOK, Chains, SentInv, OwnInv
<1>2. UNCHANGED <<sent, reused>>
  BY DEF CipherJob
<1>3. /\ OthersKept(c) /\ calls'[c].room = r /\ calls'[c].msg = o
      /\ own' = [own EXCEPT ![r] = Encrypted(o)]
      /\ gens' = IF own[r].gen = 0 THEN [gens EXCEPT ![r] = gens[r] + 1] ELSE gens
      /\ own' \in [Rooms -> Chains] /\ gens' \in [Rooms -> Nat]
  BY CipherCalls
<1>4. /\ o \in Chains /\ o.gen \in Nat /\ o.iter \in Nat
      /\ Encrypted(o).gen = o.gen /\ Encrypted(o).iter = o.iter + 1
      /\ own[r].gen = 0 => o.gen = gens[r] + 1
      /\ own[r].gen # 0 => o = own[r]
  <2>1. own[r] \in Chains /\ gens[r] + 1 \in Nat
    BY <1>1
  <2>2. /\ o \in Chains /\ Encrypted(o).gen = o.gen /\ Encrypted(o).iter = o.iter + 1
        /\ own[r].gen = 0 => o.gen = gens[r] + 1
        /\ own[r].gen # 0 => o = own[r]
    BY <2>1, StatesOfCipher
  <2> HIDE DEF o
  <2>3. o.gen \in Nat /\ o.iter \in Nat
    BY <2>2 DEF Chains
  <2>4. QED
    BY <2>2, <2>3
<1> HIDE DEF o
<1>5. /\ o.gen = gens'[r] /\ 1 <= o.gen /\ gens[r] <= gens'[r]
      /\ own'[r].gen = o.gen /\ own'[r].iter = o.iter + 1
  BY <1>1, <1>3, <1>4
<1>6. \A x \in Rooms : x # r => own'[x] = own[x] /\ gens'[x] = gens[x]
  BY <1>1, <1>3
<1>7. \A n \in sent : /\ n.room \in Rooms /\ n.gen \in Nat /\ n.iter \in Nat
                      /\ 1 <= n.gen /\ n.gen <= gens[n.room]
                      /\ n.gen = own[n.room].gen => n.iter < own[n.room].iter
  BY DEF TypeOK, Names, SentInv, PastInv
\* What was sent in this room is older than the message of this job.
<1>8. ASSUME NEW n \in sent, n.room = r PROVE Older(n, o)
  <2>1. CASE own[r].gen = 0
    BY <1>1, <1>4, <1>7, <1>8, <2>1 DEF Older
  <2>2. CASE own[r].gen # 0
    BY <1>1, <1>4, <1>7, <1>8, <2>2 DEF Older
  <2>3. QED
    BY <2>1, <2>2
<1>9. OwnInv'
  BY <1>5, <1>6 DEF OwnInv, SentInv
<1>10. PastInv'
  <2> SUFFICES ASSUME NEW n \in sent
               PROVE  /\ 1 <= n.gen /\ n.gen <= gens'[n.room]
                      /\ n.gen = own'[n.room].gen => n.iter < own'[n.room].iter
    BY <1>2 DEF PastInv
  <2>1. CASE n.room # r
    BY <1>6, <1>7, <2>1
  <2>2. CASE n.room = r
    <3>1. Older(n, o)
      BY <1>8, <2>2
    <3>2. gens'[r] \in Nat
      BY <1>1, <1>3
    <3>3. QED
      BY <1>1, <1>4, <1>5, <1>7, <2>2, <3>1, <3>2 DEF Older
  <2>3. QED
    BY <2>1, <2>2
<1>11. HandInv'
  <2> SUFFICES ASSUME NEW x \in Calls, calls'[x].phase \in InHand
               PROVE  /\ 1 <= calls'[x].msg.gen /\ calls'[x].msg.gen = own'[calls'[x].room].gen
                      /\ calls'[x].msg.iter < own'[calls'[x].room].iter
                      /\ \A n \in sent : n.room = calls'[x].room => Older(n, calls'[x].msg)
    BY <1>2 DEF HandInv, Older
  \* The job at the head is the only one that has its message.
  <2>1. x = c
    <3>1. calls[c].phase = "queued" /\ jobs # << >> /\ Head(jobs) = c
      BY CipherCalls
    <3>2. x # c => calls[x].phase \in InHand
      BY <1>3 DEF OthersKept
    <3>3. QED
      BY <3>1, <3>2, JobsEntry DEF JobsInv
  <2>2. QED
    BY <1>3, <1>4, <1>5, <1>8, <2>1
<1>12. QED
  BY <1>2, <1>9, <1>10, <1>11 DEF SentInv, FreshKeys

LEMMA SentEnd ==
    ASSUME TypeOK, JobsInv, SentInv, NEW c \in Calls,
           StatusToNobody(c) \/ SendJob(c) \/ SendFails(c)
    PROVE  SentInv'
<1>1. /\ OthersKept(c) /\ calls'[c] = Idle /\ calls[c].phase \in InHand
      /\ jobs # << >> /\ Head(jobs) = c
  BY EndCalls
<1>2. \A x \in Calls : calls'[x].phase \notin InHand
  BY <1>1, IdleType, JobsEntry DEF OthersKept, JobsInv, InHand
<1>3. UNCHANGED <<own, gens>>
  BY DEF StatusToNobody, SendJob, SendFails
<1>4. /\ 1 <= calls[c].msg.gen /\ calls[c].msg.gen = own[calls[c].room].gen
      /\ calls[c].msg.iter < own[calls[c].room].iter
      /\ \A n \in sent : n.room = calls[c].room => Older(n, calls[c].msg)
  BY <1>1 DEF SentInv, HandInv
<1>5. CASE UNCHANGED <<sent, reused>>
  BY <1>2, <1>3, <1>5 DEF SentInv, OwnInv, PastInv, HandInv, FreshKeys
<1>6. CASE sent' = sent \union {NameOf(c)} /\ reused' = (reused \/ NameOf(c) \in sent)
  <2>1. /\ NameOf(c).room = calls[c].room /\ NameOf(c).gen = calls[c].msg.gen
        /\ NameOf(c).iter = calls[c].msg.iter /\ calls[c].msg.gen \in Nat
        /\ calls[c].msg.iter \in Nat
    BY Entry DEF NameOf, Chains
  <2>2. NameOf(c) \notin sent
    <3> SUFFICES ASSUME NameOf(c) \in sent PROVE FALSE
      OBVIOUS
    <3>1. Older(NameOf(c), calls[c].msg)
      BY <1>4, <2>1
    <3>2. QED
      BY <2>1, <3>1 DEF Older
  <2>3. ~reused'
    BY <1>6, <2>2, Zenon DEF SentInv, FreshKeys
  <2>4. NameOf(c).gen <= gens[NameOf(c).room]
    <3>1. calls[c].room \in Rooms /\ gens[calls[c].room] \in Nat
      BY Entry DEF TypeOK
    <3>2. QED
      BY <1>4, <2>1, <3>1 DEF SentInv, OwnInv
  <2>5. PastInv'
    BY <1>3, <1>4, <1>6, <2>1, <2>4 DEF SentInv, PastInv
  <2>6. QED
    BY <1>2, <1>3, <2>3, <2>5 DEF SentInv, OwnInv, HandInv, FreshKeys
<1>7. QED
  BY <1>5, <1>6, StanzaLemma DEF StatusToNobody, SendJob, SendFails, HandsOver

LEMMA SentStep == TypeOK /\ JobsInv /\ SentInv /\ [Next]_vars => SentInv'
<1> SUFFICES ASSUME TypeOK, JobsInv, SentInv, [Next]_vars PROVE SentInv'
  OBVIOUS
<1>1. ASSUME NEW c \in Calls, Prepares(c) PROVE SentInv'
  <2>1. UNCHANGED <<own, gens, sent, reused>>
    BY <1>1 DEF Prepares, StartGroupSend, StartStatus, MetadataAnswer, DevicesAnswer
  <2>2. OthersKept(c) /\ calls'[c].phase \notin InHand
    BY <1>1, PrepareCalls DEF Outside, InJob, InHand
  <2>3. QED
    BY <2>1, <2>2, SentStays DEF OthersKept
<1>2. ASSUME NEW c \in Calls, SessionsAnswer(c) \/ QueryFails(c) PROVE SentInv'
  <2>1. UNCHANGED <<own, gens, sent, reused>>
    BY <1>2 DEF SessionsAnswer, QueryFails
  <2>2. OthersKept(c) /\ calls'[c].phase \notin InHand
    BY <1>2, QueueCalls DEF Outside, InJob, InHand
  <2>3. QED
    BY <2>1, <2>2, SentStays DEF OthersKept
<1>3. ASSUME NEW c \in Calls, CipherJob(c) PROVE SentInv'
  BY <1>3, SentCipher
<1>4. ASSUME NEW c \in Calls, DistributeJob(c) \/ DistributeStatus(c) PROVE SentInv'
  <2>1. UNCHANGED <<own, gens, sent, reused>>
    BY <1>4 DEF DistributeJob, DistributeStatus
  <2>2. OthersKept(c) /\ calls[c].phase \in InHand
        /\ calls'[c].room = calls[c].room /\ calls'[c].msg = calls[c].msg
    BY <1>4, DistributeCalls DEF InHand
  <2>3. QED
    BY <2>1, <2>2, SentStays DEF OthersKept
<1>5. ASSUME NEW c \in Calls, StatusToNobody(c) \/ SendJob(c) \/ SendFails(c) PROVE SentInv'
  BY <1>5, SentEnd
<1>6. CASE Restart \/ PairAgain
  <2>1. \A c \in Calls : calls'[c].phase \notin InHand
    BY <1>6, ForgetCalls, IdleType DEF Restart, PairAgain, InHand
  <2>2. UNCHANGED <<gens, sent, reused>>
        /\ (own' = own \/ own' = [r \in Rooms |-> NoChain])
    BY <1>6 DEF Restart, PairAgain
  <2>3. \A n \in sent : n.room \in Rooms /\ n.gen \in Nat
    BY DEF TypeOK, Names
  <2>4. NoChain.gen = 0
    BY DEF NoChain
  <2>5. OwnInv' /\ PastInv'
    BY <2>2, <2>3, <2>4 DEF SentInv, OwnInv, PastInv
  <2>6. QED
    BY <2>1, <2>2, <2>5 DEF SentInv, HandInv, FreshKeys
<1>7. CASE Elsewhere
  BY <1>7, ElsewhereCalls, SentStays
<1>8. QED
  BY <1>1, <1>2, <1>3, <1>4, <1>5, <1>6, <1>7, Cases

----------------------------------------------------------------------------
(* What is on its way to a device, in the order of sending. A key that can   *)
(* still be taken in is newer than all the device has read or taken in.      *)

Pending(d, n) == n \notin absorbed[d] /\ <<d, n>> \notin keyLost

NamesOK(d) ==
    /\ \A i \in DOMAIN inbox[d] : Name(inbox[d][i]) \in sent
    /\ \A i \in DOMAIN chain[d] : chain[d][i].name \in sent
    /\ \A i \in DOMAIN opened[d] : opened[d][i] \in sent
    /\ absorbed[d] \subseteq sent
InboxOK(d) ==
    \A i, j \in DOMAIN inbox[d] :
        i < j /\ inbox[d][i].room = inbox[d][j].room => Older(inbox[d][i], inbox[d][j])
\* What has arrived was sent before what has not, but the stanza the server repeats.
LineOK(d) ==
    \A i \in DOMAIN chain[d], j \in DOMAIN inbox[d] :
        chain[d][i].name.room = inbox[d][j].room =>
            \/ Older(chain[d][i].name, inbox[d][j])
            \/ /\ chain[d][i].name = Name(inbox[d][j])
               /\ chain[d][i].type = "pair" => inbox[d][j].key
               /\ inbox[d][j].key /\ Pending(d, Name(inbox[d][j])) => chain[d][i].type = "pair"
\* No skmsg overtakes a key that is newer and can be taken in.
ChainOK(d) ==
    \A i, j \in DOMAIN chain[d] :
        /\ i < j /\ chain[d][i].name.room = chain[d][j].name.room
        /\ chain[d][j].type = "pair" /\ Pending(d, chain[d][j].name)
        => chain[d][i] = chain[d][j] \/ Older(chain[d][i].name, chain[d][j].name)

Passed(d, n) == n \in absorbed[d] \/ \E i \in DOMAIN opened[d] : opened[d][i] = n
Coming(d, n) ==
    /\ Pending(d, n)
    /\ \/ \E i \in DOMAIN chain[d] : chain[d][i].type = "pair" /\ chain[d][i].name = n
       \/ \E i \in DOMAIN inbox[d] : inbox[d][i].key /\ Name(inbox[d][i]) = n
PassedOK(d) ==
    \A n, k \in Names : Passed(d, n) /\ Coming(d, k) /\ n.room = k.room => Older(n, k)

QueueOK(d) == NamesOK(d) /\ InboxOK(d) /\ LineOK(d) /\ ChainOK(d) /\ PassedOK(d)
QueueInv == \A d \in Devices : QueueOK(d)

LEMMA EncEqual ==
    ASSUME NEW a \in Encs, NEW b \in Encs, a.name = b.name, a.type = b.type
    PROVE  a = b
  BY DEF Encs

\* Nothing moves in the queue of a device.
LEMMA QueueStays ==
    ASSUME NEW d \in Devices, QueueOK(d), inbox'[d] = inbox[d], chain'[d] = chain[d],
           opened'[d] = opened[d], absorbed'[d] = absorbed[d], sent \subseteq sent',
           \A n : <<d, n>> \in keyLost => <<d, n>> \in keyLost'
    PROVE  QueueOK(d)'
<1>1. \A n : Pending(d, n)' => Pending(d, n)
  BY DEF Pending
<1>2. NamesOK(d)' /\ InboxOK(d)'
  BY DEF QueueOK, NamesOK, InboxOK, Older
<1>3. LineOK(d)'
  BY <1>1 DEF QueueOK, LineOK, Older, Name
<1>4. ChainOK(d)'
  BY <1>1 DEF QueueOK, ChainOK, Older
<1>5. PassedOK(d)'
  BY <1>1 DEF QueueOK, PassedOK, Passed, Coming, Older, Name
<1>6. QED
  BY <1>2, <1>3, <1>4, <1>5 DEF QueueOK

LEMMA QueueArrive ==
    ASSUME TypeOK, NEW d \in Devices, QueueOK(d), Arrive(d)
    PROVE  QueueOK(d)'
<1> DEFINE e == FirstEnc(inbox[d][1])
           m == inbox[d][1]
           L == Len(chain[d])
<1>1. /\ inbox[d] # << >> /\ chain'[d] = Append(chain[d], e)
      /\ inbox'[d] = inbox[d] \/ inbox'[d] = Tail(inbox[d])
      /\ UNCHANGED <<opened, absorbed, keyLost>>
  BY ArriveLemma
<1>2. sent' = sent
  BY DEF Arrive, sendVars
<1>3. /\ 1 \in DOMAIN inbox[d] /\ m \in Stanzas /\ e \in Encs /\ e.name = Name(m)
      /\ e.name.room = m.room /\ e.name.gen = m.gen /\ e.name.iter = m.iter
      /\ e.type = "pair" <=> m.key
  BY <1>1, NameLemma, DeviceEntry
<1>4. /\ L \in Nat /\ DOMAIN chain[d] = 1..L /\ DOMAIN chain'[d] = 1..(L + 1)
      /\ chain'[d][L + 1] = e /\ \A i \in 1..L : chain'[d][i] = chain[d][i]
      /\ \A i \in 1..L : chain[d][i] \in Encs
  BY <1>1, <1>3, DeviceEntry
<1>5. PICK k \in {0, 1} :
          /\ \A j \in DOMAIN inbox'[d] : /\ j \in Nat /\ 1 <= j /\ j + k \in DOMAIN inbox[d]
                                         /\ inbox'[d][j] = inbox[d][j + k]
  <2>1. CASE inbox'[d] = inbox[d]
    BY <2>1, DeviceEntry
  <2>2. CASE inbox'[d] = Tail(inbox[d])
    <3>1. /\ inbox[d] \in Seq(Stanzas) /\ Len(inbox[d]) \in Nat
          /\ DOMAIN inbox[d] = 1..Len(inbox[d])
      BY DeviceEntry
    <3>2. Len(Tail(inbox[d])) = Len(inbox[d]) - 1 /\ DOMAIN Tail(inbox[d]) = 1..(Len(inbox[d]) - 1)
          /\ \A j \in 1..(Len(inbox[d]) - 1) : Tail(inbox[d])[j] = inbox[d][j + 1]
      BY <1>1, <3>1
    <3>3. \A j \in 1..(Len(inbox[d]) - 1) : j \in Nat /\ 1 <= j /\ j + 1 \in DOMAIN inbox[d]
      BY <3>1
    <3>4. QED
      BY <2>2, <3>2, <3>3
  <2>3. QED
    BY <1>1, <2>1, <2>2
<1> HIDE DEF e, m, L
<1>6. \A n : Pending(d, n)' <=> Pending(d, n)
  BY <1>1 DEF Pending
<1>7. NamesOK(d)'
  <2>1. Name(m) \in sent
    BY <1>3 DEF QueueOK, NamesOK, m
  <2>2. \A i \in DOMAIN chain'[d] : chain'[d][i].name \in sent
    BY <1>3, <1>4, <2>1 DEF QueueOK, NamesOK
  <2>3. \A j \in DOMAIN inbox'[d] : Name(inbox'[d][j]) \in sent
    BY <1>5 DEF QueueOK, NamesOK
  <2>4. QED
    BY <1>1, <1>2, <2>2, <2>3 DEF QueueOK, NamesOK, Name
<1>8. InboxOK(d)'
  <2> SUFFICES ASSUME NEW i \in DOMAIN inbox'[d], NEW j \in DOMAIN inbox'[d], i < j,
                      inbox'[d][i].room = inbox'[d][j].room
               PROVE  Older(inbox'[d][i], inbox'[d][j])
    BY DEF InboxOK, Older
  <2>1. /\ i + k \in DOMAIN inbox[d] /\ j + k \in DOMAIN inbox[d] /\ i + k < j + k
        /\ inbox'[d][i] = inbox[d][i + k] /\ inbox'[d][j] = inbox[d][j + k]
    BY <1>5
  <2>2. QED
    BY <2>1 DEF QueueOK, InboxOK
<1>9. LineOK(d)'
  <2> SUFFICES ASSUME NEW i \in DOMAIN chain'[d], NEW j \in DOMAIN inbox'[d],
                      chain'[d][i].name.room = inbox'[d][j].room
               PROVE  \/ Older(chain'[d][i].name, inbox'[d][j])
                      \/ /\ chain'[d][i].name = Name(inbox'[d][j])
                         /\ chain'[d][i].type = "pair" => inbox'[d][j].key
                         /\ inbox'[d][j].key /\ Pending(d, Name(inbox'[d][j]))
                               => chain'[d][i].type = "pair"
    BY <1>6 DEF LineOK, Older, Name
  <2>1. j \in Nat /\ 1 <= j /\ j + k \in DOMAIN inbox[d] /\ inbox'[d][j] = inbox[d][j + k]
    BY <1>5
  <2>2. CASE i \in 1..L
    <3>1. i \in DOMAIN chain[d] /\ chain'[d][i] = chain[d][i] /\ LineOK(d)
      BY <1>4, <2>2 DEF QueueOK
    <3>2. chain[d][i].name.room = inbox[d][j + k].room
      BY <2>1, <3>1
    <3>3. \/ Older(chain[d][i].name, inbox[d][j + k])
          \/ /\ chain[d][i].name = Name(inbox[d][j + k])
             /\ chain[d][i].type = "pair" => inbox[d][j + k].key
             /\ inbox[d][j + k].key /\ Pending(d, Name(inbox[d][j + k]))
                   => chain[d][i].type = "pair"
      BY <2>1, <3>1, <3>2 DEF LineOK
    <3>4. QED
      BY <2>1, <3>1, <3>3
  <2>3. CASE i = L + 1 /\ j + k = 1
    BY <1>3, <1>4, <2>1, <2>3 DEF m
  <2>4. CASE i = L + 1 /\ j + k # 1
    <3>1. 1 < j + k
      BY <2>1, <2>4
    <3>2. Older(inbox[d][1], inbox[d][j + k])
      BY <1>3, <1>4, <2>1, <2>4, <3>1 DEF QueueOK, InboxOK, m
    <3>3. QED
      BY <1>3, <1>4, <2>1, <2>4, <3>2 DEF Older, m
  <2>5. QED
    BY <1>4, <2>2, <2>3, <2>4
<1>10. ChainOK(d)'
  <2> SUFFICES ASSUME NEW i \in 1..(L + 1), NEW j \in 1..(L + 1),
                      i < j, chain'[d][i].name.room = chain'[d][j].name.room,
                      chain'[d][j].type = "pair", Pending(d, chain'[d][j].name)
               PROVE  chain'[d][i] = chain'[d][j] \/ Older(chain'[d][i].name, chain'[d][j].name)
    BY <1>4, <1>6 DEF ChainOK, Older
  <2>1. CASE j \in 1..L
    <3>1. /\ i \in DOMAIN chain[d] /\ j \in DOMAIN chain[d] /\ ChainOK(d)
          /\ chain'[d][i] = chain[d][i] /\ chain'[d][j] = chain[d][j]
      BY <1>4, <2>1 DEF QueueOK
    <3>2. QED
      BY <3>1 DEF ChainOK
  <2>2. CASE j = L + 1
    <3>1. i \in 1..L /\ chain'[d][j] = e /\ chain'[d][i] = chain[d][i]
      BY <1>4, <2>2
    <3>2. m.key /\ Pending(d, Name(m)) /\ chain[d][i].name.room = m.room
      BY <1>3, <3>1
    <3>3. \/ Older(chain[d][i].name, m)
          \/ chain[d][i].name = Name(m) /\ chain[d][i].type = "pair"
      BY <1>3, <1>4, <3>1, <3>2 DEF QueueOK, LineOK, m
    <3>4. CASE Older(chain[d][i].name, m)
      BY <1>3, <3>1, <3>4 DEF Older
    <3>5. CASE chain[d][i].name = Name(m) /\ chain[d][i].type = "pair"
      <4>1. chain[d][i] = e
        BY <1>3, <1>4, <3>1, <3>2, <3>5, EncEqual
      <4>2. QED
        BY <3>1, <4>1
    <3>6. QED
      BY <3>3, <3>4, <3>5
  <2>3. QED
    BY <1>4, <2>1, <2>2
<1>11. PassedOK(d)'
  <2>1. \A n : Passed(d, n)' <=> Passed(d, n)
    BY <1>1 DEF Passed
  <2>2. ASSUME NEW n, Coming(d, n)' PROVE Coming(d, n)
    <3>1. Pending(d, n)
      BY <1>6, <2>2 DEF Coming
    <3>2. CASE \E i \in DOMAIN chain'[d] : chain'[d][i].type = "pair" /\ chain'[d][i].name = n
      <4>1. PICK i \in DOMAIN chain'[d] : chain'[d][i].type = "pair" /\ chain'[d][i].name = n
        BY <3>2
      <4>2. CASE i \in 1..L
        BY <1>4, <3>1, <4>1, <4>2 DEF Coming
      <4>3. CASE i = L + 1
        BY <1>3, <1>4, <3>1, <4>1, <4>3 DEF Coming, m
      <4>4. QED
        BY <1>4, <4>2, <4>3
    <3>3. CASE \E i \in DOMAIN inbox'[d] : inbox'[d][i].key /\ Name(inbox'[d][i]) = n
      <4>1. PICK i \in DOMAIN inbox'[d] : inbox'[d][i].key /\ Name(inbox'[d][i]) = n
        BY <3>3
      <4>2. i + k \in DOMAIN inbox[d] /\ inbox'[d][i] = inbox[d][i + k]
        BY <1>5
      <4>3. QED
        BY <3>1, <4>1, <4>2 DEF Coming
    <3>4. QED
      BY <2>2, <3>2, <3>3 DEF Coming, Name
  <2>3. QED
    BY <2>1, <2>2 DEF QueueOK, PassedOK, Older
<1>12. QED
  BY <1>7, <1>8, <1>9, <1>10, <1>11 DEF QueueOK

\* The job at the head of a device's chain is done: its name is `n`, it left a skmsg
\* at the end of the chain or nothing, and what it was cannot be taken in any more.
LEMMA QueueAdvance ==
    ASSUME TypeOK, NEW d \in Devices, QueueOK(d), chain[d] # << >>,
           NEW n, n = chain[d][1].name,
           \/ chain'[d] = NextEnc(d)
           \/ chain'[d] = Tail(chain[d]),
           chain[d][1].type = "pair" => ~Pending(d, n)',
           inbox'[d] = inbox[d], sent' = sent,
           \A x : Passed(d, x)' => Passed(d, x) \/ x = n,
           \A x : Pending(d, x)' => Pending(d, x),
           NamesOK(d)'
    PROVE  QueueOK(d)'
<1> DEFINE L == Len(chain[d])
<1>1. /\ L \in Nat /\ 1 \in DOMAIN chain[d] /\ DOMAIN chain[d] = 1..L
      /\ n \in Names
  BY DeviceEntry
\* Every job is one that was there, further down, or the skmsg of the head.
<1>2. /\ DOMAIN chain'[d] \in {1..L, 1..(L - 1)}
      /\ \A i \in 1..(L - 1) : chain'[d][i] = chain[d][i + 1] /\ i + 1 \in DOMAIN chain[d]
      /\ \A i \in DOMAIN chain'[d] : i \in 1..(L - 1) \/ i = L
      /\ L \in DOMAIN chain'[d] => chain'[d][L].name = n /\ chain'[d][L].type = "skmsg"
  <2>1. CASE chain'[d] = NextEnc(d)
    <3>1. /\ DOMAIN NextEnc(d) = 1..L
          /\ \A i \in 1..(L - 1) : NextEnc(d)[i] = chain[d][i + 1] /\ i + 1 \in DOMAIN chain[d]
          /\ NextEnc(d)[L].name = n /\ NextEnc(d)[L].type = "skmsg"
      BY NextEncLemma
    <3>2. \A i \in 1..L : i \in 1..(L - 1) \/ i = L
      BY <1>1
    <3>3. QED
      BY <2>1, <3>1, <3>2
  <2>2. CASE chain'[d] = Tail(chain[d])
    <3>1. /\ DOMAIN Tail(chain[d]) = 1..(L - 1)
          /\ \A i \in 1..(L - 1) :
                Tail(chain[d])[i] = chain[d][i + 1] /\ i + 1 \in DOMAIN chain[d]
      BY NextEncLemma
    <3>2. L \notin 1..(L - 1)
      BY <1>1
    <3>3. QED
      BY <2>2, <3>1, <3>2
  <2>3. QED
    BY <2>1, <2>2
<1> HIDE DEF L
<1>3. InboxOK(d)'
  BY DEF QueueOK, InboxOK, Older
\* The job that was done went before all the others.
<1>4. ASSUME NEW j \in DOMAIN inbox[d], n.room = inbox[d][j].room
      PROVE  \/ Older(n, inbox[d][j])
             \/ n = Name(inbox[d][j]) /\ ~(inbox[d][j].key /\ Pending(d, n)')
  <2>1. \/ Older(n, inbox[d][j])
        \/ /\ n = Name(inbox[d][j])
           /\ inbox[d][j].key /\ Pending(d, n) => chain[d][1].type = "pair"
    BY <1>1, <1>4 DEF QueueOK, LineOK
  <2>2. QED
    BY <2>1
<1>5. ASSUME NEW j \in DOMAIN chain[d], j # 1, chain[d][j].type = "pair",
             NEW k, k = chain[d][j].name, Pending(d, k)', n.room = k.room
      PROVE  Older(n, k)
  <2>1. 1 < j /\ Pending(d, k)
    BY <1>1, <1>5
  <2>2. chain[d][1] = chain[d][j] \/ Older(n, k)
    BY <1>1, <1>5, <2>1 DEF QueueOK, ChainOK
  <2>3. chain[d][1] # chain[d][j]
    BY <1>5
  <2>4. QED
    BY <2>2, <2>3
<1>6. LineOK(d)'
  <2> SUFFICES ASSUME NEW i \in DOMAIN chain'[d], NEW j \in DOMAIN inbox[d],
                      chain'[d][i].name.room = inbox[d][j].room
               PROVE  \/ Older(chain'[d][i].name, inbox[d][j])
                      \/ /\ chain'[d][i].name = Name(inbox[d][j])
                         /\ chain'[d][i].type = "pair" => inbox[d][j].key
                         /\ inbox[d][j].key /\ Pending(d, Name(inbox[d][j]))'
                               => chain'[d][i].type = "pair"
    BY DEF LineOK, Older, Name
  <2>1. CASE i \in 1..(L - 1)
    <3>1. chain'[d][i] = chain[d][i + 1] /\ i + 1 \in DOMAIN chain[d]
      BY <1>2, <2>1
    <3>2. \/ Older(chain[d][i + 1].name, inbox[d][j])
          \/ /\ chain[d][i + 1].name = Name(inbox[d][j])
             /\ chain[d][i + 1].type = "pair" => inbox[d][j].key
             /\ inbox[d][j].key /\ Pending(d, Name(inbox[d][j]))
                   => chain[d][i + 1].type = "pair"
      BY <3>1 DEF QueueOK, LineOK
    <3>3. QED
      BY <3>1, <3>2
  <2>2. CASE i = L
    <3>1. chain'[d][i].name = n /\ chain'[d][i].type = "skmsg"
      BY <1>2, <2>2
    <3>2. QED
      BY <1>4, <3>1
  <2>3. QED
    BY <1>2, <2>1, <2>2
<1>7. ChainOK(d)'
  <2> SUFFICES ASSUME NEW i \in DOMAIN chain'[d], NEW j \in DOMAIN chain'[d],
                      i < j, chain'[d][i].name.room = chain'[d][j].name.room,
                      chain'[d][j].type = "pair", Pending(d, chain[d][j].name)'
               PROVE  chain'[d][i] = chain'[d][j] \/ Older(chain'[d][i].name, chain'[d][j].name)
    BY DEF ChainOK, Older
  <2>1. j \in 1..(L - 1) /\ chain'[d][j] = chain[d][j + 1] /\ j + 1 \in DOMAIN chain[d]
    BY <1>2
  <2>2. i \in 1..(L - 1) /\ chain'[d][i] = chain[d][i + 1] /\ i + 1 \in DOMAIN chain[d]
    BY <1>1, <1>2, <2>1
  <2> DEFINE k == chain'[d][j].name
  <2>5. Pending(d, k)
    BY Zenon
  <2>3. i + 1 < j + 1 /\ Pending(d, chain[d][j + 1].name)
    BY <1>1, <2>1, <2>2, <2>5
  <2>4. QED
    BY <2>1, <2>2, <2>3 DEF QueueOK, ChainOK
<1>8. PassedOK(d)'
  <2> SUFFICES ASSUME NEW x \in Names, NEW k \in Names, Passed(d, x)', Coming(d, k)',
                      x.room = k.room
               PROVE  Older(x, k)
    BY DEF PassedOK, Older
  <2>1. Pending(d, k)' /\ Pending(d, k)
    BY DEF Coming
  <2>2. CASE \E i \in DOMAIN chain'[d] : chain'[d][i].type = "pair" /\ chain'[d][i].name = k
    <3>1. PICK i \in DOMAIN chain'[d] : chain'[d][i].type = "pair" /\ chain'[d][i].name = k
      BY <2>2
    <3>2. i \in 1..(L - 1) /\ chain'[d][i] = chain[d][i + 1] /\ i + 1 \in DOMAIN chain[d]
      BY <1>2, <3>1
    <3>3. Coming(d, k)
      BY <2>1, <3>1, <3>2 DEF Coming
    <3>4. x = n => Older(x, k)
      <4>1. i + 1 # 1
        BY <1>1, <3>2
      <4>2. QED
        BY <1>5, <2>1, <3>1, <3>2, <4>1
    <3>5. QED
      BY <3>3, <3>4 DEF QueueOK, PassedOK
  <2>3. CASE \E i \in DOMAIN inbox[d] : inbox[d][i].key /\ Name(inbox[d][i]) = k
    <3>1. PICK i \in DOMAIN inbox[d] : inbox[d][i].key /\ Name(inbox[d][i]) = k
      BY <2>3
    <3>2. Coming(d, k)
      BY <2>1, <3>1 DEF Coming
    <3>3. x = n => Older(x, k)
      <4>1. inbox[d][i].room = k.room /\ inbox[d][i].gen = k.gen /\ inbox[d][i].iter = k.iter
        BY <3>1, NameLemma, DeviceEntry
      <4>2. x = n => Older(n, inbox[d][i])
        BY <1>4, <2>1, <3>1, <4>1
      <4>3. QED
        BY <4>1, <4>2 DEF Older
    <3>4. QED
      BY <3>2, <3>3 DEF QueueOK, PassedOK
  <2>4. QED
    BY <2>2, <2>3 DEF Coming, Name
<1>9. QED
  BY <1>3, <1>6, <1>7, <1>8 DEF QueueOK

LEMMA QueueAbsorb ==
    ASSUME TypeOK, NEW d \in Devices, QueueOK(d), AbsorbKey(d) \/ PairFails(d)
    PROVE  QueueOK(d)'
<1> PICK n : n = chain[d][1].name
  OBVIOUS
<1>1. chain[d] # << >> /\ 1 \in DOMAIN chain[d] /\ Head(chain[d]) = chain[d][1]
  BY DeviceEntry DEF AbsorbKey, PairFails
<1>2. sent' = sent
  BY DEF AbsorbKey, PairFails, sendVars
<1>3. n \in sent /\ n \in Names
  BY <1>1, DeviceEntry DEF QueueOK, NamesOK
<1>4. /\ chain'[d] = NextEnc(d) /\ inbox'[d] = inbox[d] /\ opened'[d] = opened[d]
      /\ absorbed'[d] = absorbed[d] \/ absorbed'[d] = absorbed[d] \union {n}
      /\ keyLost \subseteq keyLost'
      /\ n \in absorbed'[d] \/ <<d, n>> \in keyLost'
  <2>1. CASE AbsorbKey(d)
    <3>1. /\ absorbed' = [absorbed EXCEPT ![d] = absorbed[d] \union {n}]
          /\ chain' = [chain EXCEPT ![d] = NextEnc(d)] /\ UNCHANGED <<inbox, opened, keyLost>>
      BY <2>1, AbsorbLemma
    <3>2. chain \in [Devices -> Seq(Encs)] /\ absorbed \in [Devices -> SUBSET Names]
      BY TypeParts DEF DevicesOK
    <3>3. QED
      BY <3>1, <3>2
  <2>2. CASE PairFails(d)
    <3>1. /\ chain' = [chain EXCEPT ![d] = NextEnc(d)]
          /\ UNCHANGED <<inbox, opened, absorbed>>
          /\ \/ (n \in absorbed[d] \/ <<d, n>> \in keyLost) /\ keyLost' = keyLost
             \/ keyLost' = keyLost \union {<<d, n>>}
      BY <1>1, <2>2 DEF PairFails
    <3>2. chain \in [Devices -> Seq(Encs)]
      BY TypeParts DEF DevicesOK
    <3>3. QED
      BY <3>1, <3>2
  <2>3. QED
    BY <2>1, <2>2
<1>5. ~Pending(d, n)'
  BY <1>4 DEF Pending
<1>6. \A x : Pending(d, x)' => Pending(d, x)
  BY <1>4 DEF Pending
<1>7. \A x : Passed(d, x)' => Passed(d, x) \/ x = n
  BY <1>4 DEF Passed
<1>8. NamesOK(d)'
  <2>1. DOMAIN NextEnc(d) = 1..Len(chain[d])
        /\ \A i \in 1..Len(chain[d]) : NextEnc(d)[i].name \in sent
    <3>1. /\ DOMAIN NextEnc(d) = 1..Len(chain[d]) /\ NextEnc(d)[Len(chain[d])].name = n
          /\ \A i \in 1..(Len(chain[d]) - 1) : NextEnc(d)[i] = chain[d][i + 1]
                                              /\ i + 1 \in DOMAIN chain[d]
      BY <1>1, NextEncLemma
    <3>2. \A i \in 1..Len(chain[d]) : i \in 1..(Len(chain[d]) - 1) \/ i = Len(chain[d])
      BY DeviceEntry
    <3>3. QED
      BY <1>3, <3>1, <3>2 DEF QueueOK, NamesOK
  <2>2. QED
    BY <1>2, <1>3, <1>4, <2>1 DEF QueueOK, NamesOK, Name
<1>9. QED
  BY <1>1, <1>2, <1>4, <1>5, <1>6, <1>7, <1>8, QueueAdvance

LEMMA QueueSkmsg ==
    ASSUME TypeOK, NEW d \in Devices, QueueOK(d), RunSkmsg(d)
    PROVE  QueueOK(d)'
<1> DEFINE n == chain[d][1].name
<1>1. /\ chain[d] # << >> /\ chain[d][1].type = "skmsg"
      /\ chain' = [chain EXCEPT ![d] = Tail(chain[d])] /\ UNCHANGED <<inbox, absorbed, keyLost>>
      /\ opened' = opened \/ opened' = [opened EXCEPT ![d] = Append(opened[d], n)]
  BY SkmsgLemma
<1>2. sent' = sent
  BY DEF RunSkmsg, sendVars
<1>3. n \in sent /\ n \in Names
  BY <1>1, DeviceEntry DEF QueueOK, NamesOK
<1>4. chain'[d] = Tail(chain[d])
  BY <1>1, DeviceEntry
<1>5. \A i \in DOMAIN opened'[d] : opened'[d][i] = n \/ \E j \in DOMAIN opened[d] : opened'[d][i] = opened[d][j]
  <2>1. CASE opened' = opened
    BY <2>1
  <2>2. CASE opened' = [opened EXCEPT ![d] = Append(opened[d], n)]
    <3>1. opened'[d] = Append(opened[d], n) /\ opened[d] \in Seq(Names)
      BY <2>2, TypeParts, DeviceEntry DEF DevicesOK
    <3> HIDE DEF n
    <3>2. /\ DOMAIN opened'[d] = 1..(Len(opened[d]) + 1) /\ opened'[d][Len(opened[d]) + 1] = n
          /\ \A i \in 1..Len(opened[d]) : opened'[d][i] = opened[d][i] /\ i \in DOMAIN opened[d]
      BY <3>1
    <3>3. \A i \in DOMAIN opened'[d] : i \in 1..Len(opened[d]) \/ i = Len(opened[d]) + 1
      BY <3>1, <3>2
    <3>4. QED
      BY <3>2, <3>3
  <2>3. QED
    BY <1>1, <2>1, <2>2
<1> HIDE DEF n
<1>6. \A x : Pending(d, x)' => Pending(d, x)
  BY <1>1 DEF Pending
<1>7. \A x : Passed(d, x)' => Passed(d, x) \/ x = n
  BY <1>1, <1>5 DEF Passed
<1>8. NamesOK(d)'
  <2>1. \A i \in DOMAIN chain'[d] : chain'[d][i].name \in sent
    BY <1>1, <1>4, NextEncLemma DEF QueueOK, NamesOK
  <2>2. \A i \in DOMAIN opened'[d] : opened'[d][i] \in sent
    BY <1>3, <1>5 DEF QueueOK, NamesOK
  <2>3. QED
    BY <1>1, <1>2, <2>1, <2>2 DEF QueueOK, NamesOK, Name
<1>9. inbox'[d] = inbox[d]
  BY <1>1
<1>10. chain[d][1].type # "pair"
  BY <1>1
<1>11. QED
  BY <1>1, <1>2, <1>4, <1>6, <1>7, <1>8, <1>9, <1>10, QueueAdvance DEF n

LEMMA QueueRestart ==
    ASSUME TypeOK, NEW d \in Devices, QueueOK(d), DeviceRestarts(d)
    PROVE  QueueOK(d)'
<1>1. /\ chain'[d] = << >> /\ UNCHANGED <<inbox, opened, absorbed>> /\ keyLost \subseteq keyLost'
      /\ sent' = sent
  BY DeviceEntry DEF DeviceRestarts, sendVars
<1>2. DOMAIN chain'[d] = {}
  BY <1>1
<1>3. \A x : Pending(d, x)' => Pending(d, x)
  BY <1>1 DEF Pending
<1>4. NamesOK(d)' /\ InboxOK(d)'
  BY <1>1, <1>2 DEF QueueOK, NamesOK, InboxOK, Name, Older
<1>5. LineOK(d)' /\ ChainOK(d)'
  BY <1>2 DEF LineOK, ChainOK
<1>6. PassedOK(d)'
  BY <1>1, <1>2, <1>3 DEF QueueOK, PassedOK, Passed, Coming, Name, Older
<1>7. QED
  BY <1>4, <1>5, <1>6 DEF QueueOK

\* A stanza joins what the server has for a device: it is the newest of all.
LEMMA QueueSend ==
    ASSUME TypeOK, SentInv, NEW d \in Devices, QueueOK(d), NEW c \in Calls, SendJob(c)
    PROVE  QueueOK(d)'
<1> DEFINE m == Stanza(c, d)
           n == NameOf(c)
           L == Len(inbox[d])
<1>1. /\ UNCHANGED <<chain, opened, absorbed>> /\ keyLost \subseteq keyLost'
      /\ sent' = sent \union {n}
      /\ inbox'[d] = inbox[d] \/ inbox'[d] = Append(inbox[d], m)
  BY StanzaLemma DEF SendJob, HandsOver
<1>2. CASE inbox'[d] = inbox[d]
  BY <1>1, <1>2, QueueStays
<1>3. CASE inbox'[d] = Append(inbox[d], m)
  <2>1. /\ m \in Stanzas /\ Name(m) = n /\ n \in Names
        /\ m.room = n.room /\ m.gen = n.gen /\ m.iter = n.iter
    BY StanzaLemma
  <2>2. ASSUME NEW x \in sent, x.room = n.room PROVE Older(x, n) /\ Older(x, m)
    <3>1. calls[c].phase \in InHand
      BY DEF SendJob, Running, InPhase, InHand
    <3>2. Older(x, calls[c].msg)
      BY <2>2, <3>1 DEF SentInv, HandInv, NameOf
    <3>3. QED
      BY <2>1, <3>2 DEF Older, NameOf
  <2> HIDE DEF m, n
  <2>3. /\ L \in Nat /\ DOMAIN inbox[d] = 1..L /\ DOMAIN inbox'[d] = 1..(L + 1)
        /\ inbox'[d][L + 1] = m /\ \A i \in 1..L : inbox'[d][i] = inbox[d][i]
        /\ \A i \in 1..L : inbox[d][i] \in Stanzas
    BY <1>3, <2>1, DeviceEntry
  <2> HIDE DEF L
  <2>4. \A x : Pending(d, x)' => Pending(d, x)
    BY <1>1 DEF Pending
  <2>5. NamesOK(d)'
    BY <1>1, <2>1, <2>3 DEF QueueOK, NamesOK, Name
  <2>6. InboxOK(d)'
    <3> SUFFICES ASSUME NEW i \in 1..(L + 1), NEW j \in 1..(L + 1), i < j,
                        inbox'[d][i].room = inbox'[d][j].room
                 PROVE  Older(inbox'[d][i], inbox'[d][j])
      BY <2>3 DEF InboxOK, Older
    <3>1. CASE j \in 1..L
      <4>1. i \in 1..L /\ inbox'[d][i] = inbox[d][i] /\ inbox'[d][j] = inbox[d][j]
        BY <2>3, <3>1
      <4>2. QED
        BY <2>3, <3>1, <4>1 DEF QueueOK, InboxOK
    <3>2. CASE j = L + 1
      <4>1. i \in 1..L /\ inbox'[d][i] = inbox[d][i] /\ inbox'[d][j] = m
        BY <2>3, <3>2
      <4>2. /\ Name(inbox[d][i]) \in sent /\ Name(inbox[d][i]).room = inbox[d][i].room
            /\ Name(inbox[d][i]).gen = inbox[d][i].gen
            /\ Name(inbox[d][i]).iter = inbox[d][i].iter
        BY <2>3, <4>1, NameLemma DEF QueueOK, NamesOK
      <4>3. Older(Name(inbox[d][i]), m)
        BY <2>1, <2>2, <4>1, <4>2
      <4>4. QED
        BY <4>1, <4>2, <4>3 DEF Older
    <3>3. QED
      BY <2>3, <3>1, <3>2
  <2>7. LineOK(d)'
    <3> SUFFICES ASSUME NEW i \in DOMAIN chain[d], NEW j \in 1..(L + 1),
                        chain[d][i].name.room = inbox'[d][j].room
                 PROVE  \/ Older(chain[d][i].name, inbox'[d][j])
                        \/ /\ chain[d][i].name = Name(inbox'[d][j])
                           /\ chain[d][i].type = "pair" => inbox'[d][j].key
                           /\ inbox'[d][j].key /\ Pending(d, Name(inbox[d][j]))'
                                 => chain[d][i].type = "pair"
      BY <1>1, <2>3 DEF LineOK, Older, Name
    <3>1. CASE j \in 1..L
      <4>1. inbox'[d][j] = inbox[d][j] /\ j \in DOMAIN inbox[d]
        BY <2>3, <3>1
      <4>3. Pending(d, Name(inbox[d][j]))' => Pending(d, Name(inbox[d][j]))
        BY <2>4, <4>1 DEF Name
      <4>4. \/ Older(chain[d][i].name, inbox[d][j])
            \/ /\ chain[d][i].name = Name(inbox[d][j])
               /\ chain[d][i].type = "pair" => inbox[d][j].key
               /\ inbox[d][j].key /\ Pending(d, Name(inbox[d][j]))
                     => chain[d][i].type = "pair"
        BY <4>1 DEF QueueOK, LineOK
      <4>5. QED
        BY <4>1, <4>3, <4>4
    <3>2. CASE j = L + 1
      <4>1. chain[d][i].name \in sent /\ inbox'[d][j] = m
        BY <2>3, <3>2 DEF QueueOK, NamesOK
      <4>2. QED
        BY <2>1, <2>2, <4>1
    <3>3. QED
      BY <2>3, <3>1, <3>2
  <2>8. ChainOK(d)'
    BY <1>1, <2>4 DEF QueueOK, ChainOK, Older
  <2>9. PassedOK(d)'
    <3>1. \A x : Passed(d, x)' => Passed(d, x) /\ x \in sent
      BY <1>1 DEF QueueOK, NamesOK, Passed
    <3>2. ASSUME NEW k, Coming(d, k)' PROVE Coming(d, k) \/ k = n
      <4>1. Pending(d, k)
        BY <2>4, <3>2 DEF Coming
      <4>2. CASE \E i \in DOMAIN chain'[d] : chain'[d][i].type = "pair" /\ chain'[d][i].name = k
        BY <1>1, <4>1, <4>2 DEF Coming
      <4>3. CASE \E i \in DOMAIN inbox'[d] : inbox'[d][i].key /\ Name(inbox'[d][i]) = k
        <5>1. PICK i \in 1..(L + 1) : inbox'[d][i].key /\ Name(inbox'[d][i]) = k
          BY <2>3, <4>3
        <5>2. i \in 1..L => Coming(d, k)
          BY <2>3, <4>1, <5>1 DEF Coming
        <5>3. i = L + 1 => k = n
          BY <2>1, <2>3, <5>1
        <5>4. QED
          BY <2>3, <5>2, <5>3
      <4>4. QED
        BY <3>2, <4>2, <4>3 DEF Coming, Name
    <3>3. QED
      BY <2>2, <3>1, <3>2 DEF QueueOK, PassedOK, Older
  <2>10. QED
    BY <2>5, <2>6, <2>7, <2>8, <2>9 DEF QueueOK
<1>4. QED
  BY <1>1, <1>2, <1>3

LEMMA QueueStep == TypeOK /\ SentInv /\ QueueInv /\ [Next]_vars => QueueInv'
<1> SUFFICES ASSUME TypeOK, SentInv, QueueInv, [Next]_vars, NEW d \in Devices PROVE QueueOK(d)'
  BY DEF QueueInv
<1>0. QueueOK(d)
  BY DEF QueueInv
<1>1. ASSUME NEW c \in Calls, SendJob(c) PROVE QueueOK(d)'
  BY <1>0, <1>1, QueueSend
<1>2. ASSUME NEW x \in Devices, Receives(x), x # d PROVE QueueOK(d)'
  <2>1. /\ inbox'[d] = inbox[d] /\ chain'[d] = chain[d] /\ opened'[d] = opened[d]
        /\ absorbed'[d] = absorbed[d] /\ sent' = sent /\ keyLost \subseteq keyLost'
    BY <1>2, ReceiveLemma DEF sendVars
  <2>2. QED
    BY <1>0, <2>1, QueueStays
<1>3. CASE Receives(d)
  BY <1>0, <1>3, QueueArrive, QueueAbsorb, QueueSkmsg, QueueRestart DEF Receives
<1>4. CASE UNCHANGED recvVars
  <2>1. /\ inbox'[d] = inbox[d] /\ chain'[d] = chain[d] /\ opened'[d] = opened[d]
        /\ absorbed'[d] = absorbed[d]
    BY <1>4 DEF recvVars
  <2>2. sent \subseteq sent'
    BY Cases, ElsewhereCalls
    DEF Prepares, StartGroupSend, StartStatus, MetadataAnswer, DevicesAnswer, SessionsAnswer,
        QueryFails, CipherJob, DistributeJob, DistributeStatus, StatusToNobody, SendJob,
        SendFails, HandsOver, Restart, PairAgain
  <2>3. keyLost \subseteq keyLost'
    BY Cases
    DEF Prepares, StartGroupSend, StartStatus, MetadataAnswer, DevicesAnswer, SessionsAnswer,
        QueryFails, CipherJob, DistributeJob, DistributeStatus, StatusToNobody, SendJob,
        SendFails, Restart, PairAgain, Forgets, Elsewhere, HearFrom, Change, Arrive, AbsorbKey,
        PairFails, RunSkmsg, DeviceRestarts, LinkDown, LinkUp, CacheExpires, HandleNote, vars
  <2>4. QED
    BY <1>0, <2>1, <2>2, <2>3, QueueStays
<1>5. QED
  BY <1>1, <1>2, <1>3, <1>4, DeviceCases

----------------------------------------------------------------------------
(* What a record gives away. The key of an iteration is spent when the chain *)
(* has passed it and it is not kept.                                         *)

Spent(r, gen, i) == \A k \in DOMAIN r : r[k].gen = gen => i < r[k].chain /\ i \notin r[k].kept

LEMMA SpentAdd ==
    ASSUME NEW r \in Seq(States), NEW g \in Nat, NEW t \in Nat,
           NEW gen \in Nat, NEW i \in Nat, Spent(r, gen, i), g = gen => i < t
    PROVE  Spent(AddState(r, g, t), gen, i)
<1> PICK a : a = AddState(r, g, t)
  OBVIOUS
<1>1. \A k \in DOMAIN a : a[k] = State(g, t) \/ \E j \in DOMAIN r : a[k] = r[j]
  BY AddStateLemma
<1>2. State(g, t).gen = g /\ State(g, t).chain = t /\ State(g, t).kept = {}
  BY DEF State
<1>3. Spent(a, gen, i)
  BY <1>1, <1>2 DEF Spent
<1>4. QED
  BY <1>3

LEMMA SpentOpened ==
    ASSUME NEW r \in Seq(States), Sound(r), NEW g \in Nat, NEW t \in Nat
    PROVE  /\ Spent(Opened(r, g, t), g, t)
           /\ \A gen \in Nat, i \in Nat : Spent(r, gen, i) => Spent(Opened(r, g, t), gen, i)
<1> PICK o : o = Opened(r, g, t)
  OBVIOUS
<1>1. o = [k \in DOMAIN r |-> IF r[k].gen = g THEN Read(r[k], t) ELSE r[k]]
  BY DEF Opened
<1>0. \A s \in States : s.chain \in Nat
  BY DEF States
<1>2. \A k \in DOMAIN r : r[k] \in States /\ r[k].chain \in Nat /\ \A x \in r[k].kept : x < r[k].chain
  BY <1>0 DEF Sound
<1>3. ASSUME NEW k \in DOMAIN r, r[k].gen = g
      PROVE  /\ o[k] = Read(r[k], t) /\ o[k].gen = g /\ t < o[k].chain /\ t \notin o[k].kept
             /\ r[k].chain <= o[k].chain /\ o[k].chain \in Nat
             /\ \A x \in Nat : x < r[k].chain /\ x \notin r[k].kept => x \notin o[k].kept
  <2>1. o[k] = Read(r[k], t)
    BY <1>1, <1>3
  <2>2. /\ Read(r[k], t) \in States /\ Read(r[k], t).gen = r[k].gen
        /\ r[k].chain <= Read(r[k], t).chain /\ t < Read(r[k], t).chain
        /\ t \notin Read(r[k], t).kept
        /\ \A x \in Nat : x < r[k].chain /\ x \notin r[k].kept => x \notin Read(r[k], t).kept
    BY <1>2, ReadLemma
  <2>3. QED
    BY <1>0, <1>3, <2>1, <2>2
<1>4. \A k \in DOMAIN r : r[k].gen # g => o[k] = r[k]
  BY <1>1
<1>5. DOMAIN o = DOMAIN r
  BY <1>1
<1>6. Spent(o, g, t)
  BY <1>3, <1>4, <1>5 DEF Spent
<1>7. ASSUME NEW gen \in Nat, NEW i \in Nat, Spent(r, gen, i) PROVE Spent(o, gen, i)
  <2> SUFFICES ASSUME NEW k \in DOMAIN r, o[k].gen = gen PROVE i < o[k].chain /\ i \notin o[k].kept
    BY <1>5 DEF Spent
  <2>1. CASE r[k].gen = g
    BY <1>2, <1>3, <1>7, <2>1 DEF Spent
  <2>2. CASE r[k].gen # g
    BY <1>4, <1>7, <2>2 DEF Spent
  <2>3. QED
    BY <2>1, <2>2
<1>8. QED
  BY <1>6, <1>7

\* A record does not open a message whose key is spent.
LEMMA SpentIsShut ==
    ASSUME NEW r \in Seq(States), NEW gen \in Nat, NEW i \in Nat, CanOpen(r, gen, i)
    PROVE  ~Spent(r, gen, i)
<1> DEFINE k == CHOOSE x \in DOMAIN r : r[x].gen = gen
<1>1. k \in DOMAIN r /\ r[k].gen = gen
  BY DEF CanOpen, Known
<1>2. StateOf(r, gen) = r[k] /\ HasKeyFor(StateOf(r, gen), i)
  BY DEF StateOf, CanOpen
<1> HIDE DEF k
<1>3. \A s \in States : s.chain \in Nat
  BY DEF States
<1>4. r[k] \in States /\ r[k].chain \in Nat
  BY <1>1, <1>3
<1>5. r[k].chain > i => i \in r[k].kept
  BY <1>2 DEF HasKeyFor
<1>6. QED
  BY <1>1, <1>4, <1>5 DEF Spent

ReadOK(d) ==
    /\ \A i, j \in DOMAIN opened[d] : opened[d][i] = opened[d][j] => i = j
    /\ \A i \in DOMAIN opened[d] :
          Spent(rec[d][opened[d][i].room], opened[d][i].gen, opened[d][i].iter)
ReadInv == \A d \in Devices : ReadOK(d)

LEMMA ReadStays ==
    ASSUME NEW d \in Devices, ReadOK(d), opened'[d] = opened[d], rec'[d] = rec[d]
    PROVE  ReadOK(d)'
  BY DEF ReadOK, Spent

LEMMA ReadAbsorb ==
    ASSUME TypeOK, NEW d \in Devices, QueueOK(d), ReadOK(d), AbsorbKey(d)
    PROVE  ReadOK(d)'
<1> PICK n : n = chain[d][1].name
  OBVIOUS
<1>1. /\ chain[d] # << >> /\ chain[d][1].type = "pair" /\ n \in Names
      /\ n \notin absorbed[d] /\ <<d, n>> \notin keyLost
      /\ rec'[d] = [rec[d] EXCEPT ![n.room] = AddState(rec[d][n.room], n.gen, n.iter)]
      /\ UNCHANGED opened
  BY AbsorbLemma
<1>2. /\ n.room \in Rooms /\ n.gen \in Nat /\ n.iter \in Nat
      /\ rec[d] \in [Rooms -> Seq(States)] /\ rec[d][n.room] \in Seq(States)
      /\ 1 \in DOMAIN chain[d]
  BY <1>1, DeviceEntry DEF Names
<1>3. Coming(d, n)
  BY <1>1, <1>2 DEF Coming, Pending
<1>4. ASSUME NEW i \in DOMAIN opened[d], NEW x, x = opened[d][i]
      PROVE  Spent(rec'[d][x.room], x.gen, x.iter)
  <2>1. x \in Names /\ x.gen \in Nat /\ x.iter \in Nat /\ Passed(d, x)
    <3>1. opened[d] \in Seq(Names)
      BY DeviceEntry
    <3>2. x \in Names
      BY <1>4, <3>1
    <3>3. x.gen \in Nat /\ x.iter \in Nat
      BY <3>2 DEF Names
    <3>4. Passed(d, x)
      BY <1>4 DEF Passed
    <3>5. QED
      BY <3>2, <3>3, <3>4
  <2>2. Spent(rec[d][x.room], x.gen, x.iter)
    BY <1>4 DEF ReadOK
  <2>3. CASE x.room # n.room
    <3>1. rec'[d][x.room] = rec[d][x.room]
      BY <1>1, <1>2, <2>1, <2>3 DEF Names
    <3>2. QED
      BY <2>2, <3>1
  <2>4. CASE x.room = n.room
    <3>1. Older(x, n)
      BY <1>1, <1>3, <2>1, <2>4 DEF QueueOK, PassedOK
    <3>2. n.gen = x.gen => x.iter < n.iter
      BY <1>2, <2>1, <3>1 DEF Older
    <3>3. rec'[d][x.room] = AddState(rec[d][n.room], n.gen, n.iter)
      BY <1>1, <1>2, <2>4
    <3>4. Spent(AddState(rec[d][n.room], n.gen, n.iter), x.gen, x.iter)
      BY <1>2, <2>1, <2>2, <2>4, <3>2, SpentAdd
    <3>5. QED
      BY <3>3, <3>4
  <2>5. QED
    BY <2>3, <2>4
<1>5. QED
  BY <1>1, <1>4 DEF ReadOK, Spent

LEMMA ReadSkmsg ==
    ASSUME TypeOK, NEW d \in Devices, ReadOK(d), RunSkmsg(d)
    PROVE  ReadOK(d)'
<1> PICK n : n = chain[d][1].name
  OBVIOUS
<1> PICK o : o = Opened(rec[d][n.room], n.gen, n.iter)
  OBVIOUS
<1>1. /\ n \in Names
      /\ \/ UNCHANGED <<rec, opened>>
         \/ /\ CanOpen(rec[d][n.room], n.gen, n.iter)
            /\ rec'[d] = [rec[d] EXCEPT ![n.room] = o]
            /\ opened' = [opened EXCEPT ![d] = Append(opened[d], n)]
  BY SkmsgLemma
<1>2. CASE UNCHANGED <<rec, opened>>
  BY <1>2, ReadStays
<1>3. CASE /\ CanOpen(rec[d][n.room], n.gen, n.iter)
           /\ rec'[d] = [rec[d] EXCEPT ![n.room] = o]
           /\ opened' = [opened EXCEPT ![d] = Append(opened[d], n)]
  <2>1. /\ n.room \in Rooms /\ n.gen \in Nat /\ n.iter \in Nat
        /\ rec[d] \in [Rooms -> Seq(States)] /\ rec[d][n.room] \in Seq(States)
        /\ Sound(rec[d][n.room]) /\ opened[d] \in Seq(Names)
    BY <1>1, DeviceEntry DEF Names
  <2>2. /\ rec'[d][n.room] = o
        /\ \A r \in Rooms : r # n.room => rec'[d][r] = rec[d][r]
    BY <1>3, <2>1
  <2>3. /\ Spent(o, n.gen, n.iter)
        /\ \A gen \in Nat, i \in Nat : Spent(rec[d][n.room], gen, i) => Spent(o, gen, i)
    BY <2>1, SpentOpened
  <2>4. ~Spent(rec[d][n.room], n.gen, n.iter)
    BY <1>3, <2>1, SpentIsShut
  <2> PICK L : L = Len(opened[d])
    OBVIOUS
  <2>5. /\ opened'[d] = Append(opened[d], n)
        /\ L \in Nat /\ DOMAIN opened[d] = 1..L /\ DOMAIN opened'[d] = 1..(L + 1)
        /\ opened'[d][L + 1] = n /\ \A i \in 1..L : opened'[d][i] = opened[d][i]
        /\ \A i \in 1..L : opened[d][i] \in Names
    <3>1. opened'[d] = Append(opened[d], n)
      BY <1>3, TypeParts DEF DevicesOK
    <3> PICK s \in Seq(Names) : s = opened[d]
      BY <2>1
    <3>2. /\ L \in Nat /\ DOMAIN s = 1..L /\ DOMAIN Append(s, n) = 1..(L + 1)
          /\ Append(s, n)[L + 1] = n /\ \A i \in 1..L : Append(s, n)[i] = s[i]
          /\ \A i \in 1..L : s[i] \in Names
      BY <1>1
    <3>3. QED
      BY <3>1, <3>2
  <2>6. \A i \in 1..L : Spent(rec[d][opened[d][i].room], opened[d][i].gen, opened[d][i].iter)
    BY <2>5 DEF ReadOK
  <2>7. \A i \in 1..L : opened[d][i] # n
    BY <2>4, <2>6
  <2>8. \A i \in 1..L :
           Spent(rec'[d][opened[d][i].room], opened[d][i].gen, opened[d][i].iter)
    <3> SUFFICES ASSUME NEW i \in 1..L, NEW x \in Names, x = opened[d][i]
                 PROVE  Spent(rec'[d][x.room], x.gen, x.iter)
      BY <2>5
    <3>1. x.room \in Rooms /\ x.gen \in Nat /\ x.iter \in Nat
      BY DEF Names
    <3>2. Spent(rec[d][x.room], x.gen, x.iter)
      BY <2>6
    <3>3. CASE x.room = n.room
      BY <2>2, <2>3, <3>1, <3>2, <3>3
    <3>4. CASE x.room # n.room
      BY <2>2, <3>1, <3>2, <3>4
    <3>5. QED
      BY <3>3, <3>4
  <2>9. ASSUME NEW i \in 1..(L + 1), NEW j \in 1..(L + 1), opened'[d][i] = opened'[d][j]
        PROVE  i = j
    <3>1. CASE i \in 1..L /\ j \in 1..L
      BY <2>5, <2>9, <3>1 DEF ReadOK
    <3>2. CASE ~(i \in 1..L /\ j \in 1..L)
      BY <2>5, <2>7, <2>9, <3>2
    <3>3. QED
      BY <3>1, <3>2
  <2>10. ASSUME NEW i \in 1..(L + 1), NEW x, x = opened'[d][i]
         PROVE  Spent(rec'[d][x.room], x.gen, x.iter)
    <3>1. CASE i \in 1..L
      BY <2>5, <2>8, <2>10, <3>1
    <3>2. CASE i = L + 1
      BY <2>2, <2>3, <2>5, <2>10, <3>2
    <3>3. QED
      BY <2>5, <3>1, <3>2
  <2>11. QED
    BY <2>5, <2>9, <2>10 DEF ReadOK, Spent
<1>4. QED
  BY <1>1, <1>2, <1>3

LEMMA ReadStep == TypeOK /\ QueueInv /\ ReadInv /\ [Next]_vars => ReadInv'
<1> SUFFICES ASSUME TypeOK, QueueInv, ReadInv, [Next]_vars, NEW d \in Devices PROVE ReadOK(d)'
  BY DEF ReadInv
<1>0. QueueOK(d) /\ ReadOK(d)
  BY DEF QueueInv, ReadInv
<1>1. CASE \E c \in Calls : SendJob(c)
  BY <1>0, <1>1, ReadStays DEF SendJob
<1>2. ASSUME NEW x \in Devices, Receives(x), x # d PROVE ReadOK(d)'
  <2>1. opened'[d] = opened[d] /\ rec'[d] = rec[d]
    BY <1>2, ReceiveLemma
  <2>2. QED
    BY <1>0, <2>1, ReadStays
<1>3. CASE Arrive(d) \/ PairFails(d) \/ DeviceRestarts(d)
  <2>1. UNCHANGED <<opened, rec>>
    BY <1>3 DEF Arrive, PairFails, DeviceRestarts
  <2>2. QED
    BY <1>0, <2>1, ReadStays
<1>4. CASE AbsorbKey(d) \/ RunSkmsg(d)
  BY <1>0, <1>4, ReadAbsorb, ReadSkmsg
<1>5. CASE UNCHANGED recvVars
  BY <1>0, <1>5, ReadStays DEF recvVars
<1>6. QED
  BY <1>1, <1>2, <1>3, <1>4, <1>5, DeviceCases DEF Receives

----------------------------------------------------------------------------
(* A device that took in a key of ours which is still the last one of the    *)
(* room has it: what came later was the same key again.                      *)

KnownOK(d) == \A n \in absorbed[d] : n.gen = gens[n.room] => n.gen \in Known(rec[d][n.room])
KnownInv == \A d \in Devices : KnownOK(d)

LEMMA KnownStays ==
    ASSUME TypeOK, NEW d \in Devices, QueueOK(d), PastInv, KnownOK(d),
           absorbed'[d] = absorbed[d], rec'[d] = rec[d],
           \A r \in Rooms : gens'[r] = gens[r] \/ gens'[r] = gens[r] + 1
    PROVE  KnownOK(d)'
<1> SUFFICES ASSUME NEW n \in absorbed[d], n.gen = gens'[n.room]
             PROVE  n.gen \in Known(rec'[d][n.room])
  BY DEF KnownOK, Known
<1>1. n \in sent /\ n.room \in Rooms /\ n.gen \in Nat
  BY DEF QueueOK, NamesOK, TypeOK, Names
<1>2. n.gen <= gens[n.room] /\ gens[n.room] \in Nat
  BY <1>1 DEF PastInv, TypeOK
<1>3. n.gen = gens[n.room]
  BY <1>1, <1>2
<1>4. QED
  BY <1>3 DEF KnownOK, Known

LEMMA KnownAbsorb ==
    ASSUME TypeOK, NEW d \in Devices, QueueOK(d), PastInv, KnownOK(d), AbsorbKey(d)
    PROVE  KnownOK(d)'
<1> PICK n : n = chain[d][1].name
  OBVIOUS
<1>1. /\ chain[d] # << >> /\ chain[d][1].type = "pair" /\ n \in Names
      /\ n \notin absorbed[d] /\ <<d, n>> \notin keyLost
      /\ rec'[d] = [rec[d] EXCEPT ![n.room] = AddState(rec[d][n.room], n.gen, n.iter)]
      /\ absorbed' = [absorbed EXCEPT ![d] = absorbed[d] \union {n}]
  BY AbsorbLemma
<1>2. /\ n.room \in Rooms /\ n.gen \in Nat /\ n.iter \in Nat
      /\ rec[d] \in [Rooms -> Seq(States)] /\ rec[d][n.room] \in Seq(States)
      /\ 1 \in DOMAIN chain[d] /\ absorbed \in [Devices -> SUBSET Names]
  BY <1>1, DeviceEntry, TypeParts DEF Names, DevicesOK
<1>3. Coming(d, n) /\ n \in sent
  BY <1>1, <1>2 DEF Coming, Pending, QueueOK, NamesOK
<1>4. gens' = gens /\ gens \in [Rooms -> Nat]
  BY DEF AbsorbKey, sendVars, TypeOK
<1>5. n.gen \in Known(AddState(rec[d][n.room], n.gen, n.iter))
  BY <1>2, AddStateLemma
<1>6. ASSUME NEW x \in Names, x \in absorbed[d] \/ x = n, x.gen = gens[x.room]
      PROVE  x.gen \in Known(rec'[d][x.room])
  <2>1. x.room \in Rooms /\ x.gen \in Nat /\ x.iter \in Nat
    BY DEF Names
  <2>2. CASE x.room # n.room
    <3>1. rec'[d][x.room] = rec[d][x.room]
      BY <1>1, <1>2, <2>1, <2>2
    <3>2. x.gen \in Known(rec[d][x.room])
      BY <1>6, <2>2 DEF KnownOK
    <3>3. QED
      BY <3>1, <3>2 DEF Known
  <2>3. CASE x.room = n.room
    <3>0. x \in absorbed[d] => Passed(d, x)
      BY DEF Passed
    <3>1. x = n \/ Older(x, n)
      BY <1>1, <1>3, <1>6, <2>3, <3>0 DEF QueueOK, PassedOK
    <3>2. n.gen <= gens[n.room] /\ gens[n.room] \in Nat
      BY <1>2, <1>3, <1>4 DEF PastInv
    <3>3. x.gen = n.gen
      BY <1>2, <1>6, <2>1, <2>3, <3>1, <3>2 DEF Older
    <3>4. rec'[d][x.room] = AddState(rec[d][n.room], n.gen, n.iter)
      BY <1>1, <1>2, <2>3
    <3>5. QED
      BY <1>5, <3>3, <3>4 DEF Known
  <2>4. QED
    BY <2>2, <2>3
<1>7. absorbed'[d] = absorbed[d] \union {n}
  BY <1>1, <1>2
<1>8. \A x \in absorbed'[d] : x \in Names /\ (x \in absorbed[d] \/ x = n)
  BY <1>1, <1>7, DeviceEntry
<1>9. QED
  BY <1>4, <1>6, <1>8 DEF KnownOK, Known

LEMMA KnownSkmsg ==
    ASSUME TypeOK, NEW d \in Devices, KnownOK(d), RunSkmsg(d)
    PROVE  KnownOK(d)'
<1> PICK n : n = chain[d][1].name
  OBVIOUS
<1> PICK o : o = Opened(rec[d][n.room], n.gen, n.iter)
  OBVIOUS
<1>1. /\ n \in Names /\ absorbed' = absorbed
      /\ \/ UNCHANGED rec
         \/ rec'[d] = [rec[d] EXCEPT ![n.room] = o]
  BY SkmsgLemma
<1>2. gens' = gens
  BY DEF RunSkmsg, sendVars
<1>3. /\ n.room \in Rooms /\ n.gen \in Nat /\ n.iter \in Nat
      /\ rec[d] \in [Rooms -> Seq(States)] /\ rec[d][n.room] \in Seq(States)
      /\ Sound(rec[d][n.room]) /\ absorbed[d] \subseteq Names
  BY <1>1, DeviceEntry DEF Names
<1>4. Known(o) = Known(rec[d][n.room])
  BY <1>3, OpenedLemma
<1>5. ASSUME NEW r \in Rooms, NEW a, a = rec'[d][r] PROVE Known(a) = Known(rec[d][r])
  <2>1. CASE rec' = rec
    BY <1>5, <2>1
  <2>2. CASE rec'[d] = [rec[d] EXCEPT ![n.room] = o] /\ r = n.room
    <3>1. a = o
      BY <1>3, <1>5, <2>2
    <3>2. QED
      BY <1>4, <2>2, <3>1
  <2>3. CASE rec'[d] = [rec[d] EXCEPT ![n.room] = o] /\ r # n.room
    <3>1. a = rec[d][r]
      BY <1>3, <1>5, <2>3
    <3>2. QED
      BY <3>1
  <2>4. QED
    BY <1>1, <2>1, <2>2, <2>3
<1>6. \A x \in absorbed[d] : x.room \in Rooms
  BY <1>3 DEF Names
<1> SUFFICES ASSUME NEW x \in absorbed[d], x.gen = gens[x.room], NEW a, a = rec'[d][x.room]
             PROVE  x.gen \in Known(a)
  BY <1>1, <1>2 DEF KnownOK, Known
<1>7. x.gen \in Known(rec[d][x.room])
  BY DEF KnownOK
<1>8. QED
  BY <1>5, <1>6, <1>7

LEMMA KnownStep == TypeOK /\ SentInv /\ QueueInv /\ KnownInv /\ [Next]_vars => KnownInv'
<1> SUFFICES ASSUME TypeOK, SentInv, QueueInv, KnownInv, [Next]_vars, NEW d \in Devices
             PROVE  KnownOK(d)'
  BY DEF KnownInv
<1>0. QueueOK(d) /\ KnownOK(d) /\ PastInv
  BY DEF QueueInv, KnownInv, SentInv
<1>1. CASE UNCHANGED gens /\ absorbed'[d] = absorbed[d] /\ rec'[d] = rec[d]
  BY <1>0, <1>1, KnownStays
<1>2. ASSUME NEW c \in Calls, CipherJob(c) PROVE KnownOK(d)'
  <2>1. absorbed' = absorbed /\ rec' = rec
    BY <1>2 DEF CipherJob, recvVars
  <2>2. \A r \in Rooms : gens'[r] = gens[r] \/ gens'[r] = gens[r] + 1
    BY <1>2, TypeParts DEF CipherJob, AccountOK
  <2>3. QED
    BY <1>0, <2>1, <2>2, KnownStays
<1>3. CASE AbsorbKey(d) \/ RunSkmsg(d)
  BY <1>0, <1>3, KnownAbsorb, KnownSkmsg
<1>4. CASE Arrive(d) \/ PairFails(d) \/ DeviceRestarts(d)
  BY <1>1, <1>4 DEF Arrive, PairFails, DeviceRestarts, sendVars
<1>5. ASSUME NEW x \in Devices, Receives(x), x # d PROVE KnownOK(d)'
  BY <1>1, <1>5, ReceiveLemma DEF sendVars
<1>6. CASE \E c \in Calls : SendJob(c)
  BY <1>1, <1>6 DEF SendJob
<1>7. CASE UNCHANGED recvVars
  <2>1. UNCHANGED gens \/ \E c \in Calls : CipherJob(c)
    BY Cases, ElsewhereCalls
    DEF Prepares, StartGroupSend, StartStatus, MetadataAnswer, DevicesAnswer, SessionsAnswer,
        QueryFails, DistributeJob, DistributeStatus, StatusToNobody, SendJob, SendFails,
        Restart, PairAgain
  <2>2. QED
    BY <1>1, <1>2, <1>7, <2>1 DEF recvVars
<1>8. QED
  BY <1>3, <1>4, <1>5, <1>6, <1>7, DeviceCases DEF Receives

----------------------------------------------------------------------------
(* A mark of sender-key-memory. What a marked device was sent is in its      *)
(* hands, on its way, or known to be lost.                                   *)

Ours(n, g) == n.room = "group" /\ n.gen = g
Had(d, g) == \E n \in absorbed[d] : Ours(n, g)
ReadyFor(c, d, g) ==
    /\ calls[c].phase = "ready" /\ calls[c].room = "group"
    /\ d \in calls[c].devs /\ calls[c].msg.gen = g
Lined(d, g) == \E i \in DOMAIN inbox[d] : inbox[d][i].key /\ Ours(inbox[d][i], g)
Queued(d, g) == \E i \in DOMAIN chain[d] : chain[d][i].type = "pair" /\ Ours(chain[d][i].name, g)
Lost(d, g) == \E n : <<d, n>> \in keyLost /\ Ours(n, g)
Reach(d, g) ==
    \/ Had(d, g) \/ Lined(d, g) \/ Queued(d, g) \/ Lost(d, g)
    \/ \E c \in Calls : ReadyFor(c, d, g)

MarkInv ==
    \A d \in Devices : mem.jids[d] = "has" =>
        1 <= mem.gen /\ mem.gen = own["group"].gen /\ Reach(d, mem.gen)

LEMMA ReachStays ==
    ASSUME NEW d \in Devices, NEW g, Reach(d, g),
           absorbed[d] \subseteq absorbed'[d], inbox'[d] = inbox[d], chain'[d] = chain[d],
           keyLost \subseteq keyLost',
           \A c \in Calls : calls[c].phase = "ready" => calls'[c] = calls[c]
    PROVE  Reach(d, g)'
<1>1. Had(d, g) => Had(d, g)'
  BY DEF Had, Ours
<1>2. Lined(d, g) => Lined(d, g)'
  BY DEF Lined, Ours
<1>3. Queued(d, g) => Queued(d, g)'
  BY DEF Queued, Ours
<1>4. Lost(d, g) => Lost(d, g)'
  BY DEF Lost, Ours
<1>5. \A c \in Calls : ReadyFor(c, d, g) => ReadyFor(c, d, g)'
  BY DEF ReadyFor
<1>6. QED
  BY <1>1, <1>2, <1>3, <1>4, <1>5 DEF Reach

LEMMA GroupKeysLemma ==
    ASSUME TypeOK, NEW c \in Calls, calls[c].room = "group", NEW D, NEW d \in D
    PROVE  <<d, NameOf(c)>> \in GroupKeys(c, D)
<1>1. Name(Stanza(c, CHOOSE x \in Devices : TRUE)) = NameOf(c)
  BY StanzaLemma
<1>2. GroupKeys(c, D) = D \X {NameOf(c)}
  BY <1>1 DEF GroupKeys
<1>3. QED
  BY <1>2

LEMMA ReachSend ==
    ASSUME TypeOK, JobsInv, NEW c \in Calls, SendJob(c) \/ SendFails(c),
           NEW d \in Devices, NEW g, Reach(d, g)
    PROVE  Reach(d, g)'
<1>1. /\ UNCHANGED <<absorbed, chain>> /\ keyLost \subseteq keyLost'
      /\ inbox'[d] = inbox[d] \/ (SendJob(c) /\ inbox'[d] = Append(inbox[d], Stanza(c, d)))
  BY DEF SendJob, SendFails, recvVars
<1>2. Had(d, g) => Had(d, g)'
  BY <1>1 DEF Had, Ours
<1>3. Queued(d, g) => Queued(d, g)'
  BY <1>1 DEF Queued, Ours
<1>4. Lost(d, g) => Lost(d, g)'
  BY <1>1 DEF Lost, Ours
<1>5. /\ Stanza(c, d) \in Stanzas /\ inbox[d] \in Seq(Stanzas)
  BY StanzaLemma, DeviceEntry
<1> PICK m : m = Stanza(c, d)
  OBVIOUS
<1>6. Lined(d, g) => Lined(d, g)'
  <2>1. \A i \in DOMAIN inbox[d] : i \in DOMAIN inbox'[d] /\ inbox'[d][i] = inbox[d][i]
    <3>1. m \in Stanzas /\ (inbox'[d] = inbox[d] \/ inbox'[d] = Append(inbox[d], m))
      BY <1>1, <1>5
    <3> PICK s \in Seq(Stanzas) : s = inbox[d]
      BY <1>5
    <3>2. \A i \in DOMAIN s : i \in DOMAIN Append(s, m) /\ Append(s, m)[i] = s[i]
      BY <3>1
    <3>3. QED
      BY <3>1, <3>2
  <2>2. QED
    BY <2>1 DEF Lined, Ours
<1>7. ASSUME NEW x \in Calls, ReadyFor(x, d, g) PROVE Lined(d, g)' \/ Lost(d, g)'
  \* The job at the head is the only one that is ready.
  <2>1. x = c
    <3>1. jobs # << >> /\ Head(jobs) = c
      BY EndCalls
    <3>2. QED
      BY <1>7, <3>1, JobsEntry DEF JobsInv, ReadyFor, InHand
  <2>2. /\ calls[c].room = "group" /\ d \in calls[c].devs
        /\ NameOf(c).room = "group" /\ NameOf(c).gen = g
    BY <1>7, <2>1 DEF ReadyFor, NameOf
  <2>3. CASE SendJob(c) /\ d \in members
    <3>1. inbox'[d] = Append(inbox[d], m)
      BY <2>2, <2>3 DEF SendJob, Audience
    <3>2. m \in Stanzas /\ m.key /\ m.room = "group" /\ m.gen = g
      BY <2>2, StanzaLemma
    <3>3. \E i \in DOMAIN inbox'[d] : inbox'[d][i] = m
      <4> PICK s \in Seq(Stanzas) : s = inbox[d]
        BY <1>5
      <4>1. Len(s) + 1 \in DOMAIN Append(s, m) /\ Append(s, m)[Len(s) + 1] = m
        BY <3>2
      <4>2. QED
        BY <3>1, <4>1
    <3>4. QED
      BY <3>2, <3>3 DEF Lined, Ours
  <2>4. CASE SendJob(c) /\ d \notin members
    <3>1. <<d, NameOf(c)>> \in GroupKeys(c, calls[c].devs \ members)
      BY <2>2, <2>4, GroupKeysLemma
    <3>2. QED
      BY <2>2, <2>4, <3>1 DEF SendJob, Lost, Ours
  <2>5. CASE SendFails(c)
    <3>1. <<d, NameOf(c)>> \in GroupKeys(c, calls[c].devs)
      BY <2>2, GroupKeysLemma
    <3>2. QED
      BY <2>2, <2>5, <3>1 DEF SendFails, Lost, Ours
  <2>6. QED
    BY <2>3, <2>4, <2>5
<1>8. QED
  BY <1>2, <1>3, <1>4, <1>6, <1>7 DEF Reach

LEMMA ReachRestart ==
    ASSUME TypeOK, Restart, NEW d \in Devices, NEW g, Reach(d, g)
    PROVE  Reach(d, g)'
<1>1. /\ UNCHANGED <<absorbed, chain, inbox>> /\ keyLost \subseteq keyLost'
  BY DEF Restart, Forgets, recvVars
<1>2. Had(d, g) => Had(d, g)'
  BY <1>1 DEF Had, Ours
<1>3. Queued(d, g) => Queued(d, g)'
  BY <1>1 DEF Queued, Ours
<1>4. Lost(d, g) => Lost(d, g)'
  BY <1>1 DEF Lost, Ours
<1>5. Lined(d, g) => Lined(d, g)'
  BY <1>1 DEF Lined, Ours
<1>6. ASSUME NEW c \in Calls, ReadyFor(c, d, g) PROVE Lost(d, g)'
  <2>1. /\ calls[c].room = "group" /\ d \in calls[c].devs /\ InPhase(c, "ready")
        /\ NameOf(c).room = "group" /\ NameOf(c).gen = g
    BY <1>6 DEF ReadyFor, NameOf, InPhase
  <2>2. <<d, NameOf(c)>> \in GroupKeys(c, calls[c].devs)
    BY <2>1, GroupKeysLemma
  <2>3. GroupKeys(c, calls[c].devs) \subseteq keyLost'
    BY <2>1 DEF Restart, Forgets
  <2>4. QED
    BY <2>1, <2>2, <2>3 DEF Lost, Ours
<1>7. QED
  BY <1>2, <1>3, <1>4, <1>5, <1>6 DEF Reach

LEMMA ReachArrive ==
    ASSUME TypeOK, NEW d \in Devices, Arrive(d), NEW g, Reach(d, g)
    PROVE  Reach(d, g)'
<1> PICK m : m = inbox[d][1]
  OBVIOUS
<1> PICK e : e = FirstEnc(m)
  OBVIOUS
<1>1. /\ inbox[d] # << >> /\ chain'[d] = Append(chain[d], e)
      /\ inbox'[d] = inbox[d] \/ inbox'[d] = Tail(inbox[d])
      /\ UNCHANGED <<absorbed, keyLost>> /\ calls' = calls
  BY ArriveLemma DEF Arrive, sendVars
<1>2. Had(d, g) => Had(d, g)'
  BY <1>1 DEF Had, Ours
<1>3. Lost(d, g) => Lost(d, g)'
  BY <1>1 DEF Lost, Ours
<1>4. ASSUME NEW c \in Calls, ReadyFor(c, d, g) PROVE ReadyFor(c, d, g)'
  BY <1>1, <1>4 DEF ReadyFor
<1>5. /\ m \in Stanzas /\ e \in Encs /\ e.name = Name(m)
      /\ e.name.room = m.room /\ e.name.gen = m.gen /\ e.type = "pair" <=> m.key
  BY <1>1, NameLemma, DeviceEntry
<1>6. /\ \A i \in DOMAIN chain[d] : i \in DOMAIN chain'[d] /\ chain'[d][i] = chain[d][i]
      /\ \E i \in DOMAIN chain'[d] : chain'[d][i] = e
  <2> PICK s \in Seq(Encs) : s = chain[d]
    BY DeviceEntry
  <2>1. /\ \A i \in DOMAIN s : i \in DOMAIN Append(s, e) /\ Append(s, e)[i] = s[i]
        /\ Len(s) + 1 \in DOMAIN Append(s, e) /\ Append(s, e)[Len(s) + 1] = e
    BY <1>5
  <2>2. QED
    BY <1>1, <2>1
<1>7. Queued(d, g) => Queued(d, g)'
  BY <1>6 DEF Queued, Ours
<1>8. ASSUME Lined(d, g) PROVE Lined(d, g)' \/ Queued(d, g)'
  <2>1. PICK i \in DOMAIN inbox[d] : inbox[d][i].key /\ Ours(inbox[d][i], g)
    BY <1>8 DEF Lined
  <2>2. CASE inbox'[d] = inbox[d]
    BY <2>1, <2>2 DEF Lined, Ours
  <2>3. CASE inbox'[d] = Tail(inbox[d]) /\ i = 1
    <3>1. e.type = "pair" /\ Ours(e.name, g)
      BY <1>5, <2>1, <2>3 DEF Ours
    <3>2. QED
      BY <1>6, <3>1 DEF Queued, Ours
  <2>4. CASE inbox'[d] = Tail(inbox[d]) /\ i # 1
    <3>1. i - 1 \in DOMAIN Tail(inbox[d]) /\ Tail(inbox[d])[i - 1] = inbox[d][i]
      <4> PICK s \in Seq(Stanzas) : s = inbox[d]
        BY DeviceEntry
      <4>1. i \in 1..Len(s) /\ Len(s) \in Nat /\ s # << >> /\ i - 1 \in 1..(Len(s) - 1)
        BY <1>1, <2>1, <2>4
      <4>2. Tail(s) \in Seq(Stanzas) /\ Len(Tail(s)) = Len(s) - 1
            /\ \A k \in 1..(Len(s) - 1) : Tail(s)[k] = s[k + 1]
        BY <4>1
      <4>3. Tail(s)[i - 1] = s[(i - 1) + 1] /\ (i - 1) + 1 = i
        BY <4>1, <4>2
      <4>4. QED
        BY <4>1, <4>2, <4>3
    <3>2. QED
      BY <2>1, <2>4, <3>1 DEF Lined, Ours
  <2>5. QED
    BY <1>1, <2>2, <2>3, <2>4
<1>9. QED
  BY <1>2, <1>3, <1>4, <1>7, <1>8 DEF Reach

LEMMA ReachAdvance ==
    ASSUME TypeOK, NEW d \in Devices, AbsorbKey(d) \/ PairFails(d) \/ RunSkmsg(d),
           NEW g, Reach(d, g)
    PROVE  Reach(d, g)'
<1> PICK n : n = chain[d][1].name
  OBVIOUS
<1>1. /\ chain[d] # << >> /\ UNCHANGED <<inbox, calls>>
      /\ absorbed[d] \subseteq absorbed'[d] /\ keyLost \subseteq keyLost'
      /\ chain'[d] = NextEnc(d) \/ chain'[d] = Tail(chain[d])
      /\ chain[d][1].type = "pair" => n \in absorbed'[d] \/ <<d, n>> \in keyLost'
  <2>0. chain \in [Devices -> Seq(Encs)] /\ absorbed \in [Devices -> SUBSET Names]
    BY TypeParts DEF DevicesOK
  <2>1. CASE AbsorbKey(d)
    <3>1. /\ chain[d] # << >> /\ UNCHANGED <<inbox, keyLost>>
          /\ absorbed' = [absorbed EXCEPT ![d] = absorbed[d] \union {n}]
          /\ chain' = [chain EXCEPT ![d] = NextEnc(d)]
      BY <2>1, AbsorbLemma
    <3>2. calls' = calls
      BY <2>1 DEF AbsorbKey, sendVars
    <3>3. QED
      BY <2>0, <3>1, <3>2
  <2>2. CASE PairFails(d)
    <3>1. chain[d] # << >> /\ Head(chain[d]) = chain[d][1]
      BY <2>2, DeviceEntry DEF PairFails
    <3>2. /\ UNCHANGED <<inbox, absorbed, calls>>
          /\ chain' = [chain EXCEPT ![d] = NextEnc(d)]
          /\ \/ (n \in absorbed[d] \/ <<d, n>> \in keyLost) /\ keyLost' = keyLost
             \/ keyLost' = keyLost \union {<<d, n>>}
      BY <2>2, <3>1 DEF PairFails, sendVars
    <3>3. QED
      BY <2>0, <3>1, <3>2
  <2>3. CASE RunSkmsg(d)
    <3>1. /\ chain[d] # << >> /\ chain[d][1].type = "skmsg"
          /\ chain' = [chain EXCEPT ![d] = Tail(chain[d])]
          /\ UNCHANGED <<inbox, absorbed, keyLost>>
      BY <2>3, SkmsgLemma
    <3>2. calls' = calls
      BY <2>3 DEF RunSkmsg, sendVars
    <3>3. QED
      BY <2>0, <3>1, <3>2
  <2>4. QED
    BY <2>1, <2>2, <2>3
<1>2. Had(d, g) => Had(d, g)'
  BY <1>1 DEF Had, Ours
<1>3. Lost(d, g) => Lost(d, g)'
  BY <1>1 DEF Lost, Ours
<1>4. ASSUME NEW c \in Calls, ReadyFor(c, d, g) PROVE ReadyFor(c, d, g)'
  BY <1>1, <1>4 DEF ReadyFor
<1>5. Lined(d, g) => Lined(d, g)'
  BY <1>1 DEF Lined, Ours
<1>6. ASSUME Queued(d, g) PROVE Queued(d, g)' \/ Had(d, g)' \/ Lost(d, g)'
  <2>1. PICK i \in DOMAIN chain[d] : chain[d][i].type = "pair" /\ Ours(chain[d][i].name, g)
    BY <1>6 DEF Queued
  <2>2. CASE i = 1
    BY <1>1, <2>1, <2>2 DEF Had, Lost, Ours
  <2>3. CASE i # 1
    <3> PICK k : k = i - 1
      OBVIOUS
    <3>1. /\ k \in 1..(Len(chain[d]) - 1) /\ k \in 1..Len(chain[d]) /\ k + 1 = i
      BY <2>1, <2>3, DeviceEntry
    <3>2. k \in DOMAIN chain'[d] /\ chain'[d][k] = chain[d][i]
      <4>1. CASE chain'[d] = NextEnc(d)
        BY <1>1, <3>1, <4>1, NextEncLemma
      <4>2. CASE chain'[d] = Tail(chain[d])
        BY <1>1, <3>1, <4>2, NextEncLemma
      <4>3. QED
        BY <1>1, <4>1, <4>2
    <3>3. QED
      BY <2>1, <3>2 DEF Queued, Ours
  <2>4. QED
    BY <2>2, <2>3
<1>7. QED
  BY <1>2, <1>3, <1>4, <1>5, <1>6 DEF Reach

LEMMA ReachDeviceRestarts ==
    ASSUME TypeOK, NEW d \in Devices, QueueOK(d), DeviceRestarts(d), NEW g, Reach(d, g)
    PROVE  Reach(d, g)'
<1>1. /\ UNCHANGED <<inbox, absorbed, calls>> /\ keyLost \subseteq keyLost'
      /\ \A n \in Pairs(d) : \/ n \in absorbed[d] \/ <<d, n>> \in keyLost'
                             \/ \E j \in DOMAIN inbox[d] : n = Name(inbox[d][j])
  BY DEF DeviceRestarts, sendVars
<1>2. Had(d, g) => Had(d, g)'
  BY <1>1 DEF Had, Ours
<1>3. Lost(d, g) => Lost(d, g)'
  BY <1>1 DEF Lost, Ours
<1>4. ASSUME NEW c \in Calls, ReadyFor(c, d, g) PROVE ReadyFor(c, d, g)'
  BY <1>1, <1>4 DEF ReadyFor
<1>5. Lined(d, g) => Lined(d, g)'
  BY <1>1 DEF Lined, Ours
<1>6. ASSUME Queued(d, g) PROVE Lined(d, g) \/ Had(d, g)' \/ Lost(d, g)'
  <2>1. PICK i \in DOMAIN chain[d] : chain[d][i].type = "pair" /\ Ours(chain[d][i].name, g)
    BY <1>6 DEF Queued
  <2> PICK n : n = chain[d][i].name
    OBVIOUS
  <2>2. n \in Pairs(d)
    BY <2>1 DEF Pairs
  <2>3. CASE n \in absorbed[d]
    BY <1>1, <2>1, <2>3 DEF Had, Ours
  <2>4. CASE <<d, n>> \in keyLost'
    BY <2>1, <2>4 DEF Lost, Ours
  <2>5. ASSUME NEW j \in DOMAIN inbox[d], n = Name(inbox[d][j]) PROVE Lined(d, g)
    <3>1. /\ n.room = inbox[d][j].room /\ n.gen = inbox[d][j].gen /\ n.iter = inbox[d][j].iter
          /\ n.gen \in Nat /\ n.iter \in Nat
      BY <2>5, NameLemma, DeviceEntry DEF Names
    <3>2. ~Older(n, inbox[d][j])
      BY <3>1 DEF Older
    <3>3. inbox[d][j].key
      BY <2>1, <3>1, <3>2 DEF QueueOK, LineOK
    <3>4. QED
      BY <2>1, <3>1, <3>3 DEF Lined, Ours
  <2>6. QED
    BY <1>1, <2>2, <2>3, <2>4, <2>5
<1>7. QED
  BY <1>2, <1>3, <1>4, <1>5, <1>6 DEF Reach

LEMMA MarkStep ==
    TypeOK /\ JobsInv /\ SentInv /\ QueueInv /\ MarkInv /\ [Next]_vars => MarkInv'
<1> SUFFICES ASSUME TypeOK, JobsInv, SentInv, QueueInv, MarkInv, [Next]_vars,
                    NEW d \in Devices, NEW g, g = mem'.gen, mem'.jids[d] = "has"
             PROVE  1 <= g /\ g = own'["group"].gen /\ Reach(d, g)'
  BY DEF MarkInv, Reach, Had, Lined, Queued, Lost, ReadyFor
\* Most steps leave the memory of the senders' keys as it is.
<1>1. ASSUME mem.jids[d] = "has", mem.gen = g, own'["group"].gen = own["group"].gen,
             Reach(d, g) => Reach(d, g)'
      PROVE  1 <= g /\ g = own'["group"].gen /\ Reach(d, g)'
  BY <1>1 DEF MarkInv
<1>2. ASSUME UNCHANGED recvVars, UNCHANGED keyLost, Reach(d, g),
             \A c \in Calls : calls[c].phase = "ready" => calls'[c] = calls[c]
      PROVE  Reach(d, g)'
  BY <1>2, ReachStays DEF recvVars
<1>3. ASSUME NEW c \in Calls, Prepares(c) \/ SessionsAnswer(c) \/ QueryFails(c)
      PROVE  1 <= g /\ g = own'["group"].gen /\ Reach(d, g)'
  <2>1. UNCHANGED <<mem, own>> /\ UNCHANGED recvVars /\ UNCHANGED keyLost
    BY <1>3 DEF Prepares, StartGroupSend, StartStatus, MetadataAnswer, DevicesAnswer,
                SessionsAnswer, QueryFails
  <2>2. \A x \in Calls : calls[x].phase = "ready" => calls'[x] = calls[x]
    BY <1>3, PrepareCalls, QueueCalls DEF OthersKept, Outside, InJob
  <2>3. QED
    BY <1>1, <1>2, <2>1, <2>2
<1>4. ASSUME NEW c \in Calls, CipherJob(c) PROVE 1 <= g /\ g = own'["group"].gen /\ Reach(d, g)'
  <2>1. UNCHANGED mem /\ UNCHANGED recvVars /\ UNCHANGED keyLost
    BY <1>4 DEF CipherJob
  <2>2. \A x \in Calls : calls[x].phase = "ready" => calls'[x] = calls[x]
    BY <1>4, CipherCalls DEF OthersKept
  <2> PICK r : r = calls[c].room
    OBVIOUS
  <2> PICK o : o = Created(own[r], gens[r] + 1)
    OBVIOUS
  <2>3. r \in Rooms /\ own \in [Rooms -> Chains] /\ own' = [own EXCEPT ![r] = Encrypted(o)]
    BY <1>4, CipherCalls, Entry DEF TypeOK
  <2>4. own[r] \in Chains /\ gens[r] + 1 \in Nat
    BY <2>3 DEF TypeOK
  <2>5. Encrypted(o).gen = o.gen /\ (own[r].gen # 0 => o = own[r])
    BY <2>4, StatesOfCipher
  <2>6. own["group"].gen # 0
    BY <2>1 DEF MarkInv
  <2>7. own'["group"].gen = own["group"].gen
    BY <2>3, <2>5, <2>6 DEF Rooms
  <2>8. QED
    BY <1>1, <1>2, <2>1, <2>2, <2>7
<1>5. ASSUME NEW c \in Calls, DistributeJob(c) PROVE 1 <= g /\ g = own'["group"].gen /\ Reach(d, g)'
  <2>1. UNCHANGED own /\ UNCHANGED recvVars /\ UNCHANGED keyLost /\ calls[c].room = "group"
    BY <1>5 DEF DistributeJob
  <2>2. /\ OthersKept(c) /\ calls[c].phase = "ciphered" /\ calls'[c].phase = "ready"
        /\ calls'[c].room = calls[c].room /\ calls'[c].msg = calls[c].msg
    BY <1>5, DistributeCalls
  <2>3. /\ g = calls[c].msg.gen
        /\ (mem.gen = g /\ mem.jids[d] = "has") \/ d \in calls'[c].devs
    BY <1>5, DistributeMem
  <2>4. 1 <= g /\ g = own["group"].gen
    BY <2>1, <2>2, <2>3 DEF SentInv, HandInv, InHand
  <2>5. CASE mem.gen = g /\ mem.jids[d] = "has"
    BY <1>1, <1>2, <2>1, <2>2, <2>5 DEF OthersKept
  <2>6. CASE d \in calls'[c].devs
    <3>1. ReadyFor(c, d, g)'
      BY <2>1, <2>2, <2>3, <2>6 DEF ReadyFor
    <3>2. QED
      BY <2>1, <2>4, <3>1 DEF Reach
  <2>7. QED
    BY <2>3, <2>5, <2>6
<1>6. ASSUME NEW c \in Calls, DistributeStatus(c) \/ StatusToNobody(c)
      PROVE  1 <= g /\ g = own'["group"].gen /\ Reach(d, g)'
  <2>1. UNCHANGED <<mem, own>> /\ UNCHANGED recvVars /\ UNCHANGED keyLost
        /\ calls[c].phase = "ciphered"
    BY <1>6 DEF DistributeStatus, StatusToNobody, Running, InPhase
  <2>2. \A x \in Calls : calls[x].phase = "ready" => calls'[x] = calls[x]
    BY <1>6, <2>1, DistributeCalls, EndCalls DEF OthersKept
  <2>3. QED
    BY <1>1, <1>2, <2>1, <2>2
<1>7. ASSUME NEW c \in Calls, SendJob(c) \/ SendFails(c)
      PROVE  1 <= g /\ g = own'["group"].gen /\ Reach(d, g)'
  <2>1. UNCHANGED <<mem, own>>
    BY <1>7 DEF SendJob, SendFails
  <2>2. QED
    BY <1>1, <1>7, <2>1, ReachSend
<1>8. CASE Restart
  <2>1. UNCHANGED <<mem, own>>
    BY <1>8 DEF Restart
  <2>2. QED
    BY <1>1, <1>8, <2>1, ReachRestart
<1>9. ~PairAgain
  BY DEF PairAgain
<1>10. ASSUME NEW x \in Devices, Receives(x) PROVE 1 <= g /\ g = own'["group"].gen /\ Reach(d, g)'
  <2>1. UNCHANGED <<mem, own, calls>>
    BY <1>10, ReceiveLemma DEF sendVars
  <2>2. CASE x # d
    <3>1. /\ absorbed'[d] = absorbed[d] /\ inbox'[d] = inbox[d] /\ chain'[d] = chain[d]
          /\ keyLost \subseteq keyLost'
      BY <1>10, <2>2, ReceiveLemma
    <3>2. QED
      BY <1>1, <2>1, <3>1, ReachStays
  <2>3. CASE x = d
    <3>1. Reach(d, g) => Reach(d, g)'
      BY <1>10, <2>3, ReachArrive, ReachAdvance, ReachDeviceRestarts DEF Receives, QueueInv
    <3>2. QED
      BY <1>1, <2>1, <3>1
  <2>4. QED
    BY <2>2, <2>3
<1>11. CASE Elsewhere /\ ~\E x \in Devices : Receives(x)
  <2>1. UNCHANGED <<own, calls>> /\ UNCHANGED recvVars /\ UNCHANGED keyLost
    BY <1>11, ElsewhereCalls
    DEF Elsewhere, Receives, HearFrom, Change, LinkDown, LinkUp, CacheExpires, HandleNote, vars
  <2>2. mem' = mem \/ \E x \in Devices : mem' = [mem EXCEPT !.jids[x] = "known"]
    BY <1>11
    DEF Elsewhere, Receives, HearFrom, Change, LinkDown, LinkUp, CacheExpires, HandleNote, vars,
        sendVars
  <2>3. mem.gen = g /\ mem.jids[d] = "has"
    BY <2>2, TypeParts DEF AccountOK, Mems
  <2>4. QED
    BY <1>1, <1>2, <2>1, <2>3
<1>12. QED
  BY <1>3, <1>4, <1>5, <1>6, <1>7, <1>8, <1>9, <1>10, <1>11, Cases

----------------------------------------------------------------------------
(* The invariant.                                                            *)

Inv == JobsInv /\ SentInv /\ QueueInv /\ ReadInv /\ KnownInv /\ MarkInv

LEMMA InitInv == Init => Inv
<1> SUFFICES ASSUME Init PROVE Inv
  OBVIOUS
<1>1. jobs = << >> /\ DOMAIN jobs = {} /\ \A c \in Calls : calls[c] = Idle
  BY DEF Init
<1>2. JobsInv
  BY <1>1, IdleType DEF JobsInv, InJob, InHand
<1>3. SentInv
  BY <1>1, IdleType DEF Init, SentInv, OwnInv, PastInv, HandInv, FreshKeys, InHand, NoChain
<1>5. \A d \in Devices : /\ inbox[d] = << >> /\ chain[d] = << >> /\ opened[d] = << >>
                         /\ absorbed[d] = {} /\ mem.jids[d] = "absent"
  BY DEF Init
<1>6. \A d \in Devices : DOMAIN inbox[d] = {} /\ DOMAIN chain[d] = {} /\ DOMAIN opened[d] = {}
  BY <1>5
<1>7. QueueInv
  BY <1>5, <1>6
  DEF QueueInv, QueueOK, NamesOK, InboxOK, LineOK, ChainOK, PassedOK, Passed, Coming
<1>8. ReadInv /\ KnownInv /\ MarkInv
  BY <1>5, <1>6 DEF ReadInv, ReadOK, KnownInv, KnownOK, MarkInv
<1>9. QED
  BY <1>2, <1>3, <1>7, <1>8 DEF Inv

LEMMA InvStep == TypeOK /\ Inv /\ [Next]_vars => Inv'
  BY JobsStep, SentStep, QueueStep, ReadStep, KnownStep, MarkStep DEF Inv

LEMMA Inductive == Spec => [](TypeOK /\ Inv)
<1>1. TypeOK /\ Inv /\ [Next]_vars => (TypeOK /\ Inv)'
  BY TypeStep, InvStep
<1>2. QED
  BY <1>1, InitType, InitInv, PTL DEF Spec

----------------------------------------------------------------------------
(* Why a device cannot read.  The record forgets nothing while there are no  *)
(* more key ids than states and no message has more than `Keep` before it    *)
(* that the device could have read and has not.                              *)

Skipped(d, n) ==
    {i \in 0..(n.iter - 1) : /\ Covered(d, [n EXCEPT !.iter = i])
                             /\ [n EXCEPT !.iter = i] \notin Range(opened[d])}
WithinLimits ==
    /\ \A r \in Rooms : gens[r] <= MaxStates
    /\ \A d \in Devices : \A n \in Waiting(d) : Cardinality(Skipped(d, n)) <= Keep

(* What a device has yet to run, what it is done with, and the keys it had.  *)
Due(d) == Waiting(d) \union {Name(inbox[d][i]) : i \in DOMAIN inbox[d]}
Done(d) == Range(opened[d]) \union overtaken[d]
KeyTo(d, r, g, i) == \E k \in absorbed[d] : k.room = r /\ k.gen = g /\ k.iter <= i

StateOK(d, r, s) ==
    /\ KeyTo(d, r, s.gen, s.chain) /\ \A i \in s.kept : KeyTo(d, r, s.gen, i)
    /\ \E n \in sent : n.room = r /\ n.gen = s.gen /\ s.chain <= n.iter + 1
    /\ \A n \in Due(d) : n.room = r /\ n.gen = s.gen /\ n.iter < s.chain /\ Covered(d, n) =>
          n \in Done(d) \/ n.iter \in s.kept
StatesOK(d) == \A r \in Rooms : \A i \in DOMAIN rec[d][r] : StateOK(d, r, rec[d][r][i])
HoldsOK(d) == \A k \in absorbed[d] : k.gen \in Known(rec[d][k.room])
FailedOK(d) == \A f \in failed[d] : f[2] = "too old" => f[1] \in Done(d)
ReasonOK(d) == StatesOK(d) /\ HoldsOK(d) /\ FailedOK(d)

Reasons == {"no key", "too old", "too far"}
Failures == SUBSET (Names \X Reasons)
HistoryOK == overtaken \in [Devices -> SUBSET Names] /\ failed \in [Devices -> Failures]
ReasonInv == HistoryOK /\ \A d \in Devices : ReasonOK(d)

GensUpTo(r, top) == \A i \in DOMAIN r : r[i].gen \in 1..top
Replaces(r, a, gen, iter) ==
    /\ \A i \in DOMAIN a : \/ a[i] = State(gen, iter)
                           \/ a[i].gen # gen /\ \E j \in DOMAIN r : a[i] = r[j]
    /\ \A j \in DOMAIN r : r[j].gen # gen => \E i \in DOMAIN a : a[i] = r[j]

(* With room for every key id, a new state drops only that of its own key.   *)
LEMMA AddKeepsAll ==
    ASSUME NEW r \in Seq(States), Distinct(r), NEW gen \in Nat, NEW iter \in Nat,
           NEW top \in Nat, top <= MaxStates, gen \in 1..top,
           GensUpTo(r, top)
    PROVE  Replaces(r, AddState(r, gen, iter), gen, iter)
<1> DEFINE a == AddState(r, gen, iter)
<1> DEFINE w == Without(r, gen)
<1> PICK s : s = State(gen, iter)
  OBVIOUS
<1> DEFINE all == <<s>> \o w
<1>1. s \in States /\ s.gen = gen
  BY DEF State, States
<1>2. /\ w \in Seq(States) /\ Distinct(w) /\ \A i \in DOMAIN w : w[i].gen # gen
      /\ \A i \in DOMAIN w : \E j \in DOMAIN r : w[i] = r[j]
      /\ \A j \in DOMAIN r : r[j].gen # gen => \E i \in DOMAIN w : w[i] = r[j]
  BY WithoutLemma, Zenon
<1> HIDE DEF w
<1>3. /\ all \in Seq(States) /\ Len(all) = Len(w) + 1 /\ all[1] = s
      /\ \A i \in 1..Len(w) : all[i + 1] = w[i]
      /\ Len(w) \in Nat /\ DOMAIN w = 1..Len(w)
  BY <1>1, <1>2
<1> HIDE DEF all
<1>4. \A i \in 1..Len(all) : i = 1 \/ (i - 1 \in DOMAIN w /\ all[i] = w[i - 1])
  <2> SUFFICES ASSUME NEW i \in 1..Len(all), i # 1 PROVE i - 1 \in DOMAIN w /\ all[i] = w[i - 1]
    OBVIOUS
  <2>1. i - 1 \in 1..Len(w) /\ (i - 1) + 1 = i
    BY <1>3
  <2>2. QED
    BY <1>3, <2>1
<1>0. \A i \in DOMAIN r : r[i].gen \in 1..top
  BY DEF GensUpTo
<1>5. ASSUME NEW i \in 1..Len(all)
      PROVE  /\ all[i].gen \in 1..top
             /\ all[i] = s \/ (all[i].gen # gen /\ \E j \in DOMAIN r : all[i] = r[j])
             /\ all[i].gen = gen => i = 1
  <2>1. CASE i = 1
    BY <1>1, <1>3, <2>1
  <2>2. CASE i # 1
    <3>1. i - 1 \in DOMAIN w /\ all[i] = w[i - 1]
      BY <1>4, <2>2
    <3>2. all[i].gen # gen /\ \E j \in DOMAIN r : all[i] = r[j]
      BY <1>2, <3>1
    <3>3. QED
      BY <1>0, <3>2
  <2>3. QED
    BY <2>1, <2>2
<1>6. ASSUME NEW i \in 1..Len(all), NEW j \in 1..Len(all), all[i].gen = all[j].gen PROVE i = j
  <2>1. CASE i = 1 \/ j = 1
    BY <1>1, <1>3, <1>5, <1>6, <2>1
  <2>2. CASE i # 1 /\ j # 1
    <3>1. i - 1 \in DOMAIN w /\ j - 1 \in DOMAIN w /\ w[i - 1].gen = w[j - 1].gen
      BY <1>4, <1>6, <2>2
    <3>2. i - 1 = j - 1
      BY <1>2, <3>1 DEF Distinct
    <3>3. QED
      BY <1>3, <3>2
  <2>3. QED
    BY <2>1, <2>2
<1>7. Len(all) <= MaxStates
  <2> PICK L : L = Len(all)
    OBVIOUS
  <2> PICK f : f = [i \in 1..L |-> all[i].gen]
    OBVIOUS
  <2>1. L \in Nat /\ f \in Injection(1..L, 1..top)
    <3>1. f \in [1..L -> 1..top] /\ \A i, j \in 1..L : f[i] = f[j] => i = j
      BY <1>5, <1>6
    <3>2. DOMAIN f = 1..L
      BY <3>1
    <3>3. IsInjective(f)
      BY <3>1, <3>2, Zenon DEF IsInjective
    <3>4. f \in Injection(1..L, 1..top)
      BY <3>1, <3>3, Zenon DEF Injection
    <3>5. QED
      BY <1>3, <3>4
  <2>2. \A t \in Nat : IsFiniteSet(1..t) /\ Cardinality(1..t) = t
    <3> SUFFICES ASSUME NEW t \in Nat PROVE IsFiniteSet(1..t) /\ Cardinality(1..t) = t
      OBVIOUS
    <3>1. 1 \in Int /\ t \in Int
      OBVIOUS
    <3>2. IsFiniteSet(1..t) /\ Cardinality(1..t) = IF 1 > t THEN 0 ELSE t - 1 + 1
      BY <3>1, FS_Interval, Zenon
    <3>3. QED
      BY <3>2
  <2>3. IsFiniteSet(1..top) /\ Cardinality(1..L) <= Cardinality(1..top)
    BY <2>1, <2>2, FS_Injection, Zenon
  <2>4. L <= top
    BY <2>1, <2>2, <2>3
  <2>5. QED
    BY <2>1, <2>4, SenderKeysAssumption
<1>8. a = all
  <2> PICK L : L = Len(all)
    OBVIOUS
  <2>1. L \in Nat \ {0} /\ L <= MaxStates /\ MaxStates \in Nat
    BY <1>3, <1>7, SenderKeysAssumption
  <2>2. Min({L, MaxStates}) = L
    <3>1. \A y \in {L, MaxStates} : L <= y
      BY <2>1
    <3>2. \A x \in {L, MaxStates} : (\A y \in {L, MaxStates} : x <= y) => x = L
      BY <2>1
    <3>3. QED
      BY <3>1, <3>2 DEF Min
  <2>3. a = SubSeq(all, 1, L)
    BY <2>2 DEF AddState, all, w
  <2>4. QED
    BY <1>3, <2>1, <2>3
<1>10. ASSUME NEW j \in DOMAIN r, r[j].gen # gen PROVE \E i \in 1..Len(all) : all[i] = r[j]
  <2>1. PICK i \in DOMAIN w : w[i] = r[j]
    BY <1>2, <1>10
  <2>2. all[i + 1] = r[j] /\ i + 1 \in 1..Len(all)
    BY <1>3, <2>1
  <2>3. QED
    BY <2>2
<1>11. DOMAIN a = 1..Len(all)
  BY <1>3, <1>8
<1>12. Replaces(r, all, gen, iter)
  BY <1>3, <1>5, <1>8, <1>10, <1>11 DEF Replaces
<1>13. QED
  BY <1>8, <1>12


(* Nothing is dropped when what is skipped, with what is kept already, is in *)
(* a set of no more than `Keep`.                                             *)
LEMMA ReadKeepsAll ==
    ASSUME NEW s \in States, NEW i \in Nat, s.chain <= i,
           NEW M \in SUBSET (0..(i - 1)), Cardinality(M) <= Keep,
           s.kept \union s.chain..(i - 1) \subseteq M
    PROVE  /\ Read(s, i).gen = s.gen /\ Read(s, i).chain = i + 1
           /\ Read(s, i).kept = s.kept \union s.chain..(i - 1)
<1> DEFINE K == s.kept \union s.chain..(i - 1)
<1>1. s.chain \in Nat /\ s.kept \subseteq Nat /\ s \in [gen : Nat, chain : Nat, kept : SUBSET Nat]
  BY DEF States
<1>2. K \subseteq M /\ \A j \in M : j \in Int
  OBVIOUS
<1>3. Read(s, i) = [s EXCEPT !.chain = i + 1, !.kept = Newest(K)]
  BY <1>1 DEF Read
<1>4. IsFiniteSet(M) /\ Cardinality(M) \in Nat
  <2>1. IsFiniteSet(0..(i - 1))
    BY FS_Interval
  <2>2. IsFiniteSet(M)
    BY <2>1, FS_Subset
  <2>3. QED
    BY <2>2, FS_CardinalityType
<1> HIDE DEF K
<1>5. ASSUME NEW x \in K PROVE Cardinality({j \in K : j > x}) < Keep
  <2> PICK T : T = {j \in K : j > x}
    OBVIOUS
  <2>1. T \in SUBSET M /\ x \in M /\ x \notin T
    <3>1. x \in M /\ x \in Int /\ ~(x > x)
      BY <1>2
    <3>2. QED
      BY <1>2, <3>1
  <2>2. /\ IsFiniteSet(T) /\ Cardinality(T) <= Cardinality(M)
        /\ Cardinality(M) = Cardinality(T) => M = T
    BY <1>4, <2>1, FS_Subset, Zenon
  <2>3. M # T
    BY <2>1
  <2>4. Cardinality(T) \in Nat
    BY <2>2, FS_CardinalityType
  <2>5. QED
    BY <1>4, <2>2, <2>3, <2>4, SenderKeysAssumption
<1>6. Newest(K) = K
  BY <1>5 DEF Newest
<1>7. QED
  BY <1>1, <1>3, <1>6 DEF K

----------------------------------------------------------------------------
(* What is due to a device, step by step.                                    *)

LEMMA DueShrinks ==
    ASSUME TypeOK, NEW d \in Devices, Receives(d)
    PROVE  Due(d)' \subseteq Due(d)
<1> SUFFICES ASSUME NEW m \in Due(d)' PROVE m \in Due(d)
  OBVIOUS
<1>1. \/ \E i \in DOMAIN chain'[d] : m = chain'[d][i].name
      \/ \E i \in DOMAIN inbox'[d] : m = Name(inbox'[d][i])
  BY DEF Due, Waiting
<1>2. /\ \A i \in DOMAIN chain[d] : chain[d][i].name \in Due(d)
      /\ \A i \in DOMAIN inbox[d] : Name(inbox[d][i]) \in Due(d)
  BY DEF Due, Waiting
<1>3. /\ chain[d] \in Seq(Encs) /\ inbox[d] \in Seq(Stanzas)
      /\ chain \in [Devices -> Seq(Encs)]
      /\ DOMAIN chain[d] = 1..Len(chain[d]) /\ Len(chain[d]) \in Nat
  BY DeviceEntry
<1>4. CASE Arrive(d)
  <2>1. /\ inbox[d] # << >> /\ chain'[d] = Append(chain[d], FirstEnc(inbox[d][1]))
        /\ inbox'[d] = inbox[d] \/ inbox'[d] = Tail(inbox[d])
    BY <1>4, ArriveLemma
  <2> PICK e : e = FirstEnc(inbox[d][1])
    OBVIOUS
  <2>2. e.name = Name(inbox[d][1]) /\ 1 \in DOMAIN inbox[d] /\ e \in Encs
    BY <2>1, NameLemma, DeviceEntry
  <2>3. \A i \in DOMAIN chain'[d] :
           chain'[d][i] = e \/ (i \in DOMAIN chain[d] /\ chain'[d][i] = chain[d][i])
    <3> PICK c \in Seq(Encs) : c = chain[d]
      BY <1>3
    <3> PICK b : b = Append(c, e)
      OBVIOUS
    <3> PICK l \in Nat : l = Len(c)
      OBVIOUS
    <3>1. /\ DOMAIN b = 1..(l + 1) /\ b[l + 1] = e
          /\ \A i \in 1..l : b[i] = c[i] /\ i \in DOMAIN c
      BY <2>2
    <3>2. ASSUME NEW i \in DOMAIN b PROVE b[i] = e \/ (i \in DOMAIN c /\ b[i] = c[i])
      <4>1. i \in 1..l \/ i = l + 1
        BY <3>1
      <4>2. i = l + 1 => b[i] = e
        BY <3>1
      <4>3. QED
        BY <3>1, <4>1, <4>2
    <3>3. QED
      BY <2>1, <3>2
  <2>4. \A i \in DOMAIN inbox'[d] : \E j \in DOMAIN inbox[d] : inbox'[d][i] = inbox[d][j]
    <3>1. CASE inbox'[d] = inbox[d]
      BY <3>1
    <3>2. CASE inbox'[d] = Tail(inbox[d])
      <4>1. \A i \in DOMAIN inbox'[d] : i + 1 \in DOMAIN inbox[d] /\ inbox'[d][i] = inbox[d][i + 1]
        BY <1>3, <2>1, <3>2
      <4>2. QED
        BY <4>1
    <3>3. QED
      BY <2>1, <3>1, <3>2
  <2>5. QED
    BY <1>1, <1>2, <2>2, <2>3, <2>4
<1>5. CASE AbsorbKey(d) \/ PairFails(d) \/ RunSkmsg(d)
  <2>1. /\ chain[d] # << >> /\ inbox'[d] = inbox[d]
        /\ chain'[d] = NextEnc(d) \/ chain'[d] = Tail(chain[d])
    BY <1>3, <1>5 DEF AbsorbKey, PairFails, RunSkmsg
  <2>2. \A i \in DOMAIN chain'[d] : \E j \in DOMAIN chain[d] : chain'[d][i].name = chain[d][j].name
    <3> SUFFICES ASSUME NEW i \in DOMAIN chain'[d]
                 PROVE  \E j \in DOMAIN chain[d] : chain'[d][i].name = chain[d][j].name
      OBVIOUS
    <3>1. /\ DOMAIN NextEnc(d) = 1..Len(chain[d]) /\ DOMAIN Tail(chain[d]) = 1..(Len(chain[d]) - 1)
          /\ \A x \in 1..(Len(chain[d]) - 1) : /\ NextEnc(d)[x] = chain[d][x + 1]
                                               /\ Tail(chain[d])[x] = chain[d][x + 1]
                                               /\ x + 1 \in DOMAIN chain[d]
          /\ NextEnc(d)[Len(chain[d])].name = chain[d][1].name /\ 1 \in DOMAIN chain[d]
      BY <2>1, NextEncLemma, DeviceEntry
    <3>2. i \in 1..(Len(chain[d]) - 1) \/ (chain'[d] = NextEnc(d) /\ i = Len(chain[d]))
      BY <1>3, <2>1, <3>1
    <3>3. QED
      BY <2>1, <3>1, <3>2
  <2>3. QED
    BY <1>1, <1>2, <2>1, <2>2
<1>6. CASE DeviceRestarts(d)
  <2>1. chain'[d] = << >> /\ inbox'[d] = inbox[d]
    BY <1>3, <1>6 DEF DeviceRestarts
  <2>2. DOMAIN << >> = {}
    OBVIOUS
  <2>3. QED
    BY <1>1, <1>2, <2>1, <2>2
<1>7. QED
  BY <1>4, <1>5, <1>6 DEF Receives


LEMMA NameParts ==
    ASSUME NEW m \in Names
    PROVE  m.room \in Rooms /\ m.gen \in Nat /\ m.iter \in Nat
  BY DEF Names

LEMMA SameName ==
    ASSUME NEW m \in Names, NEW n \in Names, m.room = n.room, m.gen = n.gen, m.iter = n.iter
    PROVE  m = n
  BY DEF Names

(* The names that a device has to do with are of what was sent.              *)
LEMMA DueNames ==
    ASSUME TypeOK, NEW d \in Devices, QueueOK(d)
    PROVE  Due(d) \subseteq sent /\ sent \subseteq Names /\ absorbed[d] \subseteq sent
  BY TypeParts DEF QueueOK, NamesOK, Due, Waiting, AccountOK

LEMMA KeyToGrows ==
    ASSUME TypeOK, NEW d \in Devices, NEW r, NEW g, NEW i \in Nat, NEW j \in Nat, i <= j, KeyTo(d, r, g, i)
    PROVE  KeyTo(d, r, g, j)
<1>1. PICK k \in absorbed[d] : k.room = r /\ k.gen = g /\ k.iter <= i
  BY DEF KeyTo
<1>2. k.iter \in Nat
  BY DeviceEntry, NameParts
<1>3. QED
  BY <1>1, <1>2 DEF KeyTo

(* Whatever leaves the records alone and adds at most what is newer than all *)
(* that was sent leaves the reasons alone.                                   *)
LEMMA StatesStay ==
    ASSUME TypeOK, NEW d \in Devices, StatesOK(d), HoldsOK(d),
           rec'[d] = rec[d], absorbed'[d] = absorbed[d],
           opened'[d] = opened[d], overtaken'[d] = overtaken[d], sent \subseteq sent',
           \A m \in Due(d)' : \/ m \in Due(d)
                              \/ m \in Names /\ \A n \in sent : n.room = m.room => Older(n, m)
    PROVE  StatesOK(d)' /\ HoldsOK(d)'
<1>1. HoldsOK(d)'
  BY DEF HoldsOK
<1>2. ASSUME NEW r \in Rooms, NEW i \in DOMAIN rec[d][r], NEW s, s = rec[d][r][i]
      PROVE  StateOK(d, r, s)'
  <2>1. StateOK(d, r, s)
    BY <1>2 DEF StatesOK
  <2>2. (KeyTo(d, r, s.gen, s.chain) /\ \A x \in s.kept : KeyTo(d, r, s.gen, x))'
    BY <2>1 DEF StateOK, KeyTo
  <2>3. PICK n \in sent : n.room = r /\ n.gen = s.gen /\ s.chain <= n.iter + 1
    BY <2>1 DEF StateOK
  <2>4. ASSUME NEW m \in Due(d)', m.room = r, m.gen = s.gen, m.iter < s.chain, Covered(d, m)'
        PROVE  m \in Done(d)' \/ m.iter \in s.kept
    <3>1. CASE m \in Due(d)
      BY <2>1, <2>4, <3>1 DEF StateOK, Covered, Done
    <3>2. CASE m \in Names /\ \A x \in sent : x.room = m.room => Older(x, m)
      <4>1. n \in Names /\ s \in States
        BY <1>2, DeviceEntry, TypeParts DEF AccountOK
      <4>2. n.iter \in Nat /\ m.iter \in Nat /\ n.gen \in Nat /\ s.chain \in Nat
        BY <3>2, <4>1, NameParts DEF States
      <4>3. Older(n, m)
        BY <2>3, <2>4, <3>2
      <4>4. QED
        BY <2>3, <2>4, <4>2, <4>3 DEF Older
    <3>3. QED
      BY <2>4, <3>1, <3>2
  <2>5. QED
    BY <2>2, <2>3, <2>4 DEF StateOK
<1>3. QED
  BY <1>1, <1>2 DEF StatesOK, StateOK, KeyTo, Covered, Done, Due, Waiting

LEMMA ReasonStays ==
    ASSUME TypeOK, NEW d \in Devices, ReasonOK(d),
           rec'[d] = rec[d], absorbed'[d] = absorbed[d], failed'[d] = failed[d],
           opened'[d] = opened[d], overtaken'[d] = overtaken[d], sent \subseteq sent',
           \A m \in Due(d)' : \/ m \in Due(d)
                              \/ m \in Names /\ \A n \in sent : n.room = m.room => Older(n, m)
    PROVE  ReasonOK(d)'
<1>1. StatesOK(d)' /\ HoldsOK(d)'
  BY StatesStay DEF ReasonOK
<1>2. FailedOK(d)'
  BY DEF ReasonOK, FailedOK, Done
<1>3. QED
  BY <1>1, <1>2 DEF ReasonOK

(* A key that is taken in: what is due of it is not older than the key, but  *)
(* for what it got ahead of.                                                 *)
LEMMA ReasonAbsorb ==
    ASSUME TypeOK, SentInv, NEW d \in Devices, QueueOK(d), HistoryOK, ReasonOK(d),
           WithinLimits, AbsorbKey(d)
    PROVE  ReasonOK(d)'
<1> PICK k : k = chain[d][1].name
  OBVIOUS
<1> PICK o : o = rec[d][k.room]
  OBVIOUS
<1> PICK a : a = AddState(rec[d][k.room], k.gen, k.iter)
  OBVIOUS
<1>1. /\ chain[d] # << >> /\ k \in Names /\ chain[d][1].type = "pair"
      /\ rec'[d] = [rec[d] EXCEPT ![k.room] = a]
      /\ absorbed' = [absorbed EXCEPT ![d] = absorbed[d] \union {k}]
      /\ UNCHANGED <<inbox, opened>>
  BY AbsorbLemma
<1>2. /\ k.room \in Rooms /\ k.gen \in Nat /\ k.iter \in Nat
      /\ rec[d] \in [Rooms -> Seq(States)] /\ o \in Seq(States) /\ Sound(o)
      /\ 1 \in DOMAIN chain[d]
  BY <1>1, DeviceEntry, NameParts
<1>3. /\ rec'[d][k.room] = a /\ \A r \in Rooms : r # k.room => rec'[d][r] = rec[d][r]
      /\ absorbed'[d] = absorbed[d] \union {k}
  BY <1>1, <1>2, TypeParts DEF DevicesOK
<1>4. /\ overtaken'[d] = overtaken[d] \union
            {m \in Waiting(d) : m.room = k.room /\ m.gen = k.gen /\ m.iter < k.iter}
      /\ failed' = failed /\ sent' = sent
  BY <1>1, DeviceEntry DEF AbsorbKey, HistoryOK, sendVars
<1>5. /\ Due(d)' \subseteq Due(d) /\ Due(d) \subseteq sent /\ sent \subseteq Names
      /\ absorbed[d] \subseteq sent /\ k \in sent
  <2>1. k \in Due(d)
    BY <1>1, DeviceEntry DEF Due, Waiting
  <2>2. QED
    BY <2>1, DueShrinks, DueNames DEF Receives
<1>6. Done(d) \subseteq Done(d)'
  BY <1>1, <1>4 DEF Done
<1>7. /\ k.gen \in 1..gens[k.room] /\ gens[k.room] \in Nat /\ gens[k.room] <= MaxStates
      /\ \A i \in DOMAIN o : o[i].gen \in 1..gens[k.room]
  <2>1. \A x \in sent : x.gen \in 1..gens[x.room]
    BY <1>5, NameParts, TypeParts DEF SentInv, PastInv, AccountOK
  <2>2. ASSUME NEW i \in DOMAIN o PROVE o[i].gen \in 1..gens[k.room]
    <3>1. StateOK(d, k.room, o[i])
      BY <1>2 DEF ReasonOK, StatesOK
    <3>2. PICK x \in absorbed[d] : x.room = k.room /\ x.gen = o[i].gen
      BY <3>1 DEF StateOK, KeyTo
    <3>3. QED
      BY <1>5, <2>1, <3>2
  <2>3. QED
    BY <1>2, <1>5, <2>1, <2>2, TypeParts DEF WithinLimits, AccountOK
<1>8. /\ \A i \in DOMAIN a : \/ a[i] = State(k.gen, k.iter)
                             \/ a[i].gen # k.gen /\ \E j \in DOMAIN o : a[i] = o[j]
      /\ \A j \in DOMAIN o : o[j].gen # k.gen => \E i \in DOMAIN a : a[i] = o[j]
      /\ k.gen \in Known(a)
  <2>1. Distinct(o) /\ a = AddState(o, k.gen, k.iter)
    BY <1>2 DEF Sound
  <2>2. k.gen \in Known(a)
    <3>1. \A q \in Seq(States), g \in Nat, t \in Nat : g \in Known(AddState(q, g, t))
      BY AddStateLemma, Zenon
    <3>2. k.gen \in Known(AddState(o, k.gen, k.iter))
      BY <1>2, <3>1
    <3>3. QED
      BY <2>1, <3>2
  <2> PICK g \in Nat : g = k.gen
    BY <1>2
  <2> PICK t \in Nat : t = k.iter
    BY <1>2
  <2> PICK top \in Nat : top = gens[k.room]
    BY <1>7
  <2>3. /\ top <= MaxStates /\ g \in 1..top /\ a = AddState(o, g, t) /\ GensUpTo(o, top)
    BY <1>7, <2>1 DEF GensUpTo
  <2>4. Replaces(o, AddState(o, g, t), g, t)
    BY <1>2, <2>1, <2>3, AddKeepsAll, Zenon
  <2>5. QED
    <3>1. Replaces(o, a, k.gen, k.iter)
      BY <2>3, <2>4, Zenon
    <3>2. QED
      BY <2>2, <3>1, Zenon DEF Replaces
<1>9. ASSUME NEW r, NEW s, StateOK(d, r, s), r # k.room \/ s.gen # k.gen PROVE StateOK(d, r, s)'
  <2>1. (KeyTo(d, r, s.gen, s.chain) /\ \A i \in s.kept : KeyTo(d, r, s.gen, i))'
    BY <1>3, <1>9 DEF StateOK, KeyTo
  <2>2. \E n \in sent' : n.room = r /\ n.gen = s.gen /\ s.chain <= n.iter + 1
    BY <1>4, <1>9 DEF StateOK
  <2>3. ASSUME NEW m \in Due(d)', m.room = r, m.gen = s.gen, m.iter < s.chain, Covered(d, m)'
        PROVE  m \in Done(d)' \/ m.iter \in s.kept
    <3>1. Covered(d, m)
      BY <1>3, <1>9, <2>3 DEF Covered
    <3>2. m \in Done(d) \/ m.iter \in s.kept
      BY <1>5, <1>9, <2>3, <3>1 DEF StateOK
    <3>3. QED
      BY <1>6, <3>2
  <2>4. QED
    BY <2>1, <2>2, <2>3 DEF StateOK
<1>10. StateOK(d, k.room, State(k.gen, k.iter))'
  <2> PICK s : s = State(k.gen, k.iter)
    OBVIOUS
  <2>1. s.gen = k.gen /\ s.chain = k.iter /\ s.kept = {}
    BY DEF State
  <2>2. (KeyTo(d, k.room, s.gen, s.chain) /\ \A i \in s.kept : KeyTo(d, k.room, s.gen, i))'
    <3>1. k \in absorbed'[d] /\ k.iter <= k.iter /\ k.iter <= k.iter + 1
      <4>1. k \in absorbed'[d]
        BY <1>3
      <4>2. \A x \in Nat : x <= x /\ x <= x + 1
        OBVIOUS
      <4>3. QED
        BY <1>2, <4>1, <4>2
    <3>2. QED
      BY <2>1, <3>1 DEF KeyTo
  <2>3. k \in sent' /\ s.chain <= k.iter + 1
    <3>1. \A x \in Nat : x <= x + 1
      OBVIOUS
    <3>2. k.iter <= k.iter + 1
      BY <1>2, <3>1, Zenon
    <3>3. QED
      BY <1>4, <1>5, <2>1, <3>2
  <2>4. ASSUME NEW m \in Due(d)', m.room = k.room, m.gen = k.gen, m.iter < k.iter
        PROVE  m \in Done(d)'
    <3>1. CASE m \in Waiting(d)
      BY <1>4, <2>4, <3>1 DEF Done
    <3>2. CASE m \notin Waiting(d)
      <4>1. PICK i \in DOMAIN inbox[d] : m = Name(inbox[d][i])
        BY <1>5, <2>4, <3>2 DEF Due
      <4>2. /\ m.room = inbox[d][i].room /\ m.gen = inbox[d][i].gen /\ m.iter = inbox[d][i].iter
            /\ m.gen \in Nat /\ m.iter \in Nat
        <5>1. inbox[d][i] \in Stanzas
          BY DeviceEntry
        <5>2. QED
          BY <4>1, <5>1, NameLemma, NameParts
      <4>3. Older(k, inbox[d][i]) \/ k = m
        <5>1. chain[d][1].name = k /\ k.room = inbox[d][i].room
          BY <2>4, <4>2
        <5>2. QED
          BY <1>2, <4>1, <5>1, Zenon DEF QueueOK, LineOK
      <4>4. QED
        BY <1>2, <2>4, <4>2, <4>3 DEF Older
    <3>3. QED
      BY <3>1, <3>2
  <2>5. StateOK(d, k.room, s)'
    BY <2>1, <2>2, <2>3, <2>4 DEF StateOK
  <2>6. QED
    BY <2>5
<1>11. ASSUME NEW r \in Rooms, NEW i \in DOMAIN rec'[d][r], NEW s, s = rec'[d][r][i]
       PROVE  StateOK(d, r, s)'
  <2>1. CASE r # k.room
    <3>1. rec'[d][r] = rec[d][r]
      BY <1>3, <2>1
    <3>2. StateOK(d, r, s)
      BY <1>11, <3>1 DEF ReasonOK, StatesOK
    <3>3. QED
      BY <1>9, <2>1, <3>2
  <2>2. CASE r = k.room
    <3>1. i \in DOMAIN a /\ s = a[i]
      BY <1>3, <1>11, <2>2
    <3>2. CASE a[i] = State(k.gen, k.iter)
      <4> PICK t : t = State(k.gen, k.iter)
        OBVIOUS
      <4>1. StateOK(d, k.room, t)'
        BY <1>10
      <4>2. s = t /\ r = k.room
        BY <2>2, <3>1, <3>2
      <4>3. QED
        BY <4>1, <4>2
    <3>3. CASE a[i].gen # k.gen /\ \E j \in DOMAIN o : a[i] = o[j]
      <4>1. StateOK(d, r, s)
        BY <2>2, <3>1, <3>3 DEF ReasonOK, StatesOK
      <4>2. QED
        BY <1>9, <3>1, <3>3, <4>1
    <3>4. QED
      BY <1>8, <3>1, <3>2, <3>3
  <2>3. QED
    BY <2>1, <2>2
<1>12. ASSUME NEW x \in absorbed[d] \union {k} PROVE x.gen \in Known(rec'[d][x.room])
  <2>0. x \in Names /\ x.room \in Rooms
    BY <1>1, <1>5, NameParts
  <2>1. CASE x.room # k.room
    BY <1>3, <1>12, <2>0, <2>1 DEF ReasonOK, HoldsOK
  <2>2. CASE x.room = k.room /\ x.gen = k.gen
    BY <1>3, <1>8, <2>2
  <2>3. CASE x.room = k.room /\ x.gen # k.gen
    <3>1. PICK j \in DOMAIN o : o[j].gen = x.gen
      BY <1>12, <2>3 DEF ReasonOK, HoldsOK, Known
    <3>2. PICK i \in DOMAIN a : a[i] = o[j]
      BY <1>8, <2>3, <3>1
    <3>3. a[i].gen \in Known(a) /\ a[i].gen = x.gen
      BY <3>1, <3>2 DEF Known
    <3>4. QED
      BY <1>3, <2>3, <3>3
  <2>4. QED
    BY <2>1, <2>2, <2>3
<1>13. StatesOK(d)'
  BY <1>11 DEF StatesOK, StateOK, KeyTo, Covered, Done, Due, Waiting
<1>14. HoldsOK(d)'
  BY <1>3, <1>12 DEF HoldsOK
<1>15. FailedOK(d)'
  BY <1>4, <1>6 DEF ReasonOK, FailedOK
<1>16. QED
  BY <1>13, <1>14, <1>15 DEF ReasonOK


(* What a message leaves of the state that it is read from: the iterations   *)
(* passed over are kept, all of them.                                        *)
LEMMA ReadState ==
    ASSUME TypeOK, NEW d \in Devices, QueueOK(d), ReadOK(d),
           NEW n \in Due(d), Cardinality(Skipped(d, n)) <= Keep,
           NEW j \in DOMAIN rec[d][n.room], NEW s, s = rec[d][n.room][j], s.gen = n.gen,
           StateOK(d, n.room, s), s.chain <= n.iter
    PROVE  /\ Read(s, n.iter).chain = n.iter + 1
           /\ Read(s, n.iter).kept = s.kept \union s.chain..(n.iter - 1)
<1>1. /\ n \in Names /\ n.room \in Rooms /\ n.gen \in Nat /\ n.iter \in Nat
      /\ s \in States /\ s.chain \in Nat /\ s.kept \subseteq Nat
      /\ \A i \in s.kept : i < s.chain
  <2>1. n \in Names
    BY DueNames
  <2>2. n.room \in Rooms /\ n.gen \in Nat /\ n.iter \in Nat
    BY <2>1, NameParts
  <2>3. rec[d][n.room] \in Seq(States) /\ Sound(rec[d][n.room])
    BY <2>2, DeviceEntry
  <2>4. s \in States /\ \A i \in s.kept : i < s.chain
    BY <2>3 DEF Sound
  <2>5. QED
    BY <2>1, <2>2, <2>4 DEF States
<1>2. ASSUME NEW i \in s.kept \union s.chain..(n.iter - 1) PROVE i \in Skipped(d, n)
  <2>1. i \in 0..(n.iter - 1) /\ i \in Nat
    BY <1>1, <1>2
  <2> PICK m : m = [n EXCEPT !.iter = i]
    OBVIOUS
  <2>2. m.room = n.room /\ m.gen = n.gen /\ m.iter = i
    BY <1>1 DEF Names
  <2>3. Covered(d, m)
    <3>1. KeyTo(d, n.room, n.gen, i)
      <4>1. CASE i \in s.kept
        BY <4>1 DEF StateOK
      <4>2. CASE i \notin s.kept
        <5>1. s.chain <= i /\ KeyTo(d, n.room, n.gen, s.chain)
          BY <1>1, <1>2, <4>2 DEF StateOK
        <5>2. QED
          BY <1>1, <2>1, <5>1, KeyToGrows
      <4>3. QED
        BY <4>1, <4>2
    <3>2. QED
      BY <2>2, <3>1 DEF Covered, KeyTo
  <2>4. m \notin Range(opened[d])
    <3> SUFFICES ASSUME NEW x \in DOMAIN opened[d], opened[d][x] = m PROVE FALSE
      BY DEF Range
    <3>1. Spent(rec[d][n.room], n.gen, i)
      BY <2>2 DEF ReadOK
    <3>2. i < s.chain /\ i \notin s.kept
      BY <3>1 DEF Spent
    <3>3. QED
      BY <1>1, <1>2, <3>2
  <2>5. QED
    BY <2>1, <2>3, <2>4 DEF Skipped
<1> PICK M : M = Skipped(d, n)
  OBVIOUS
<1>3. M \in SUBSET (0..(n.iter - 1)) /\ s.kept \union s.chain..(n.iter - 1) \subseteq M
  BY <1>2 DEF Skipped
<1>4. QED
  BY <1>1, <1>3, ReadKeepsAll

(* One that is opened.                                                       *)
LEMMA ReasonOpened ==
    ASSUME TypeOK, NEW d \in Devices, QueueOK(d), ReadOK(d), StatesOK(d),
           NEW n \in Due(d), Cardinality(Skipped(d, n)) <= Keep,
           rec'[d] = [rec[d] EXCEPT ![n.room] = Opened(rec[d][n.room], n.gen, n.iter)],
           opened' = [opened EXCEPT ![d] = Append(opened[d], n)],
           absorbed'[d] = absorbed[d], overtaken'[d] = overtaken[d], sent' = sent,
           Due(d)' \subseteq Due(d)
    PROVE  /\ StatesOK(d)' /\ Done(d) \subseteq Done(d)'
           /\ \A r \in Rooms : Known(rec'[d][r]) = Known(rec[d][r])
<1> PICK o : o = rec[d][n.room]
  OBVIOUS
<1> PICK w : w = Opened(rec[d][n.room], n.gen, n.iter)
  OBVIOUS
<1>1. /\ n \in Names /\ n \in sent /\ n.room \in Rooms /\ n.gen \in Nat /\ n.iter \in Nat
      /\ rec[d] \in [Rooms -> Seq(States)] /\ o \in Seq(States) /\ Sound(o)
      /\ opened \in [Devices -> Seq(Names)] /\ opened[d] \in Seq(Names)
  <2>1. n \in Names /\ n \in sent
    BY DueNames
  <2>2. n.room \in Rooms /\ n.gen \in Nat /\ n.iter \in Nat
    BY <2>1, NameParts
  <2>3. QED
    BY <2>1, <2>2, DeviceEntry, TypeParts DEF DevicesOK
<1>2. /\ rec'[d][n.room] = w /\ \A r \in Rooms : r # n.room => rec'[d][r] = rec[d][r]
  BY <1>1
<1>3. /\ DOMAIN w = DOMAIN o /\ Known(w) = Known(o)
      /\ \A j \in DOMAIN o : w[j] = IF o[j].gen = n.gen THEN Read(o[j], n.iter) ELSE o[j]
  <2>1. DOMAIN w = DOMAIN o /\ Known(w) = Known(o)
    BY <1>1, OpenedLemma
  <2>2. QED
    BY <2>1 DEF Opened
<1>4. n \in Done(d)' /\ Done(d) \subseteq Done(d)'
  <2> PICK q \in Seq(Names) : q = opened[d]
    BY <1>1
  <2>1. opened'[d] = Append(q, n)
    BY <1>1
  <2> PICK b : b = Append(q, n)
    OBVIOUS
  <2> PICK l \in Nat : l = Len(q)
    OBVIOUS
  <2>2. /\ DOMAIN b = 1..(l + 1) /\ b[l + 1] = n /\ DOMAIN q = 1..l
        /\ \A i \in 1..l : b[i] = q[i]
    BY <1>1
  <2>3. \A i \in 1..l : i \in 1..(l + 1)
    OBVIOUS
  <2>4. n \in Range(b) /\ Range(q) \subseteq Range(b)
    <3>1. l + 1 \in DOMAIN b
      BY <2>2
    <3>2. \A i \in DOMAIN q : i \in DOMAIN b /\ b[i] = q[i]
      BY <2>2, <2>3
    <3>3. QED
      BY <2>2, <3>1, <3>2, Zenon DEF Range
  <2>5. QED
    BY <2>1, <2>4 DEF Done
<1>5. ASSUME NEW r, NEW s, StateOK(d, r, s), r # n.room \/ s.gen # n.gen PROVE StateOK(d, r, s)'
  <2>1. (KeyTo(d, r, s.gen, s.chain) /\ \A i \in s.kept : KeyTo(d, r, s.gen, i))'
    BY <1>5 DEF StateOK, KeyTo
  <2>2. \E x \in sent' : x.room = r /\ x.gen = s.gen /\ s.chain <= x.iter + 1
    BY <1>5 DEF StateOK
  <2>3. ASSUME NEW m \in Due(d)', m.room = r, m.gen = s.gen, m.iter < s.chain, Covered(d, m)'
        PROVE  m \in Done(d)' \/ m.iter \in s.kept
    BY <1>4, <1>5, <2>3 DEF StateOK, Covered
  <2>4. QED
    BY <2>1, <2>2, <2>3 DEF StateOK
<1>6. ASSUME NEW j \in DOMAIN o, NEW s, s = o[j], s.gen = n.gen, NEW t, t = Read(s, n.iter),
             StateOK(d, n.room, s)
      PROVE  StateOK(d, n.room, t)'
  <2>1. /\ s \in States /\ s.chain \in Nat /\ s.kept \subseteq Nat
        /\ \A i \in s.kept : i < s.chain
    <3>1. s \in States /\ \A i \in s.kept : i < s.chain
      BY <1>1, <1>6 DEF Sound
    <3>2. QED
      BY <3>1 DEF States
  <2>2. t.gen = n.gen
    BY <1>1, <1>6, <2>1, ReadLemma
  <2>3. /\ KeyTo(d, n.room, n.gen, s.chain) /\ \A i \in s.kept : KeyTo(d, n.room, n.gen, i)
        /\ \A m \in Due(d) : m.room = n.room /\ m.gen = n.gen /\ m.iter < s.chain /\ Covered(d, m) =>
              m \in Done(d) \/ m.iter \in s.kept
    BY <1>6 DEF StateOK
  <2>4. \A m \in Due(d)' : /\ m \in Due(d) /\ m \in Names /\ m.iter \in Nat
                           /\ Covered(d, m)' => Covered(d, m)
                           /\ m.room = n.room /\ m.gen = n.gen /\ m.iter = n.iter => m \in Done(d)'
    <3> SUFFICES ASSUME NEW m \in Due(d)'
                 PROVE  /\ m \in Due(d) /\ m \in Names /\ m.iter \in Nat
                        /\ Covered(d, m)' => Covered(d, m)
                        /\ m.room = n.room /\ m.gen = n.gen /\ m.iter = n.iter => m \in Done(d)'
      OBVIOUS
    <3>1. m \in Due(d) /\ m \in Names /\ m.iter \in Nat
      BY DueNames, NameParts
    <3>2. m.room = n.room /\ m.gen = n.gen /\ m.iter = n.iter => m = n
      BY <1>1, <3>1, SameName
    <3>3. QED
      BY <1>4, <3>1, <3>2 DEF Covered
  <2>5. CASE s.chain > n.iter
    <3>1. t.chain = s.chain /\ t.kept = s.kept \ {n.iter}
      BY <1>1, <1>6, <2>1, <2>5 DEF Read, States
    <3>2. (KeyTo(d, n.room, t.gen, t.chain) /\ \A i \in t.kept : KeyTo(d, n.room, t.gen, i))'
      BY <2>2, <2>3, <3>1 DEF KeyTo
    <3>3. \E x \in sent' : x.room = n.room /\ x.gen = t.gen /\ t.chain <= x.iter + 1
      BY <1>6, <2>2, <3>1 DEF StateOK
    <3>4. ASSUME NEW m \in Due(d)', m.room = n.room, m.gen = t.gen, m.iter < t.chain,
                 Covered(d, m)'
          PROVE  m \in Done(d)' \/ m.iter \in t.kept
      BY <1>4, <2>2, <2>3, <2>4, <3>1, <3>4
    <3>5. QED
      BY <3>2, <3>3, <3>4 DEF StateOK
  <2>6. CASE ~(s.chain > n.iter)
    <3>1. t.chain = n.iter + 1 /\ t.kept = s.kept \union s.chain..(n.iter - 1) /\ s.chain <= n.iter
      <4>1. s.chain <= n.iter
        BY <1>1, <2>1, <2>6
      <4>2. QED
        BY <1>6, <4>1, ReadState
    <3>2. \A i \in Nat : s.chain <= i => KeyTo(d, n.room, n.gen, i)
      BY <2>1, <2>3, KeyToGrows
    <3>3. /\ KeyTo(d, n.room, n.gen, t.chain) /\ \A i \in t.kept : KeyTo(d, n.room, n.gen, i)
      <4>1. t.chain \in Nat /\ s.chain <= t.chain
        BY <1>1, <2>1, <3>1
      <4>2. \A i \in t.kept : i \in s.kept \/ (i \in Nat /\ s.chain <= i)
        BY <1>1, <2>1, <3>1
      <4>3. QED
        BY <2>3, <3>2, <4>1, <4>2
    <3>4. n \in sent' /\ t.chain <= n.iter + 1
      BY <1>1, <3>1
    <3>5. ASSUME NEW m \in Due(d)', m.room = n.room, m.gen = t.gen, m.iter < t.chain,
                 Covered(d, m)'
          PROVE  m \in Done(d)' \/ m.iter \in t.kept
      <4>1. m.iter \in Nat /\ m \in Due(d) /\ Covered(d, m)
        BY <2>4, <3>5
      <4>2. CASE m.iter = n.iter
        BY <2>2, <2>4, <3>5, <4>2
      <4>3. CASE m.iter < s.chain
        BY <1>4, <2>2, <2>3, <3>1, <3>5, <4>1, <4>3
      <4>4. CASE m.iter # n.iter /\ ~(m.iter < s.chain)
        <5>1. m.iter \in s.chain..(n.iter - 1)
          BY <1>1, <2>1, <3>1, <3>5, <4>1, <4>4
        <5>2. QED
          BY <3>1, <5>1
      <4>5. QED
        BY <4>2, <4>3, <4>4
    <3>6. (KeyTo(d, n.room, t.gen, t.chain) /\ \A i \in t.kept : KeyTo(d, n.room, t.gen, i))'
      BY <2>2, <3>3 DEF KeyTo
    <3>7. QED
      BY <2>2, <3>4, <3>5, <3>6 DEF StateOK
  <2>7. QED
    BY <2>5, <2>6
<1>7. ASSUME NEW r \in Rooms, NEW i \in DOMAIN rec'[d][r], NEW s, s = rec'[d][r][i]
      PROVE  StateOK(d, r, s)'
  <2>1. CASE r # n.room
    <3>1. rec'[d][r] = rec[d][r]
      BY <1>2, <2>1
    <3>2. StateOK(d, r, s)
      BY <1>7, <3>1 DEF StatesOK
    <3>3. QED
      BY <1>5, <2>1, <3>2
  <2>2. CASE r = n.room
    <3>1. i \in DOMAIN o /\ s = w[i] /\ StateOK(d, n.room, o[i])
      BY <1>1, <1>2, <1>3, <1>7, <2>2 DEF StatesOK
    <3>2. CASE o[i].gen = n.gen
      BY <1>3, <1>6, <2>2, <3>1, <3>2
    <3>3. CASE o[i].gen # n.gen
      BY <1>3, <1>5, <2>2, <3>1, <3>3
    <3>4. QED
      BY <3>2, <3>3
  <2>3. QED
    BY <2>1, <2>2
<1>8. StatesOK(d)'
  BY <1>7 DEF StatesOK, StateOK, KeyTo, Covered, Done, Due, Waiting
<1>9. \A r \in Rooms : Known(rec'[d][r]) = Known(rec[d][r])
  BY <1>2, <1>3
<1>10. QED
  BY <1>4, <1>8, <1>9


(* A skmsg: one that is too old for its state was read or overtaken.         *)
LEMMA ReasonSkmsg ==
    ASSUME TypeOK, NEW d \in Devices, QueueOK(d), ReadOK(d), HistoryOK, ReasonOK(d),
           WithinLimits, RunSkmsg(d)
    PROVE  ReasonOK(d)'
<1> PICK n : n = chain[d][1].name
  OBVIOUS
<1> PICK o : o = rec[d][n.room]
  OBVIOUS
<1>1. /\ chain[d] # << >> /\ n \in Names /\ Head(chain[d]).name = n
      /\ UNCHANGED <<inbox, absorbed, overtaken, sent>>
  BY SkmsgLemma, DeviceEntry DEF RunSkmsg, sendVars
<1>2. /\ n \in Waiting(d) /\ n \in Due(d) /\ Due(d)' \subseteq Due(d)
      /\ n.room \in Rooms /\ n.gen \in Nat /\ n.iter \in Nat
  <2>1. n \in Waiting(d) /\ n \in Due(d)
    BY <1>1, DeviceEntry DEF Due, Waiting
  <2>2. QED
    BY <1>1, <2>1, DueShrinks, NameParts DEF Receives
<1>3. CASE CanOpen(o, n.gen, n.iter)
  <2>1. /\ rec' = [rec EXCEPT ![d][n.room] = Opened(o, n.gen, n.iter)]
        /\ opened' = [opened EXCEPT ![d] = Append(@, n)] /\ failed' = failed
    BY <1>1, <1>3 DEF RunSkmsg
  <2>2. /\ rec'[d] = [rec[d] EXCEPT ![n.room] = Opened(rec[d][n.room], n.gen, n.iter)]
        /\ opened' = [opened EXCEPT ![d] = Append(opened[d], n)]
    BY <2>1, DeviceEntry
  <2>3. Cardinality(Skipped(d, n)) <= Keep
    BY <1>2 DEF WithinLimits
  <2>4. /\ StatesOK(d)' /\ Done(d) \subseteq Done(d)'
        /\ \A r \in Rooms : Known(rec'[d][r]) = Known(rec[d][r])
    BY <1>1, <1>2, <2>2, <2>3, ReasonOpened DEF ReasonOK
  <2>5. HoldsOK(d)'
    <3> SUFFICES ASSUME NEW k \in absorbed[d] PROVE k.gen \in Known(rec'[d][k.room])
      BY <1>1 DEF HoldsOK
    <3>1. k.room \in Rooms /\ k.gen \in Known(rec[d][k.room])
      BY DeviceEntry, NameParts DEF ReasonOK, HoldsOK
    <3>2. QED
      BY <2>4, <3>1
  <2>6. FailedOK(d)'
    BY <2>1, <2>4 DEF ReasonOK, FailedOK
  <2>7. QED
    BY <2>4, <2>5, <2>6 DEF ReasonOK
<1>4. CASE ~CanOpen(o, n.gen, n.iter)
  <2>1. /\ failed' = [failed EXCEPT ![d] = @ \union {<<n, Why(d, n)>>}]
        /\ UNCHANGED <<rec, opened>>
    BY <1>1, <1>4 DEF RunSkmsg
  <2>2. failed'[d] = failed[d] \union {<<n, Why(d, n)>>}
    BY <2>1 DEF HistoryOK
  <2>3. StatesOK(d)' /\ HoldsOK(d)'
    BY <1>1, <1>2, <2>1, StatesStay DEF ReasonOK
  <2>4. ASSUME Why(d, n) = "too old" PROVE n \in Done(d)
    <3>1. Covered(d, n)
      BY <2>4 DEF Why
    <3>2. n.gen \in Known(o)
      BY <3>1 DEF ReasonOK, HoldsOK, Covered
    <3>3. StateOf(o, n.gen).chain > n.iter
      BY <2>4, <3>1, <3>2 DEF Why
    <3> PICK j \in DOMAIN o : o[j].gen = n.gen /\ StateOf(o, n.gen) = o[j]
      BY <3>2 DEF Known, StateOf
    <3>4. o[j].chain > n.iter /\ n.iter \notin o[j].kept
      BY <1>4, <3>2, <3>3 DEF CanOpen, HasKeyFor
    <3>5. StateOK(d, n.room, o[j]) /\ o[j] \in States
      BY <1>2, DeviceEntry DEF ReasonOK, StatesOK
    <3>6. n.iter < o[j].chain
      BY <1>2, <3>4, <3>5 DEF States
    <3>7. QED
      BY <1>2, <3>1, <3>4, <3>5, <3>6 DEF StateOK
  <2>5. FailedOK(d)'
    <3> SUFFICES ASSUME NEW f \in failed'[d], f[2] = "too old" PROVE f[1] \in Done(d)'
      BY DEF FailedOK
    <3>1. Done(d)' = Done(d)
      BY <1>1, <2>1 DEF Done
    <3>2. CASE f \in failed[d]
      BY <3>1, <3>2 DEF ReasonOK, FailedOK
    <3>3. CASE f = <<n, Why(d, n)>>
      BY <2>4, <3>1, <3>3
    <3>4. QED
      BY <2>2, <3>2, <3>3
  <2>6. QED
    BY <2>3, <2>5 DEF ReasonOK
<1>5. QED
  BY <1>3, <1>4

(* A stanza that the server takes is newer than all that was sent.           *)
LEMMA ReasonSend ==
    ASSUME TypeOK, SentInv, NEW d \in Devices, ReasonOK(d), NEW c \in Calls, SendJob(c)
    PROVE  ReasonOK(d)'
<1> PICK n : n = NameOf(c)
  OBVIOUS
<1> PICK m : m = Stanza(c, d)
  OBVIOUS
<1>1. /\ UNCHANGED <<chain, rec, opened, absorbed, overtaken, failed>>
      /\ sent \subseteq sent'
      /\ inbox'[d] = inbox[d] \/ inbox'[d] = Append(inbox[d], m)
  BY StanzaLemma DEF SendJob, HandsOver
<1>2. /\ m \in Stanzas /\ Name(m) = n /\ n \in Names
      /\ \A x \in sent : x.room = n.room => Older(x, n)
  <2>1. m \in Stanzas /\ Name(m) = n /\ n \in Names
    BY StanzaLemma
  <2>2. calls[c].phase \in InHand
    BY DEF SendJob, Running, InPhase, InHand
  <2>3. \A x \in sent : x.room = calls[c].room => Older(x, calls[c].msg)
    BY <2>2 DEF SentInv, HandInv
  <2>4. n.room = calls[c].room /\ n.gen = calls[c].msg.gen /\ n.iter = calls[c].msg.iter
    BY DEF NameOf
  <2>5. QED
    BY <2>1, <2>3, <2>4 DEF Older
<1>3. \A i \in DOMAIN inbox'[d] :
         inbox'[d][i] = m \/ (i \in DOMAIN inbox[d] /\ inbox'[d][i] = inbox[d][i])
  <2>1. CASE inbox'[d] = inbox[d]
    BY <2>1
  <2>2. CASE inbox'[d] = Append(inbox[d], m)
    <3> PICK q \in Seq(Stanzas) : q = inbox[d]
      BY DeviceEntry
    <3> PICK b : b = Append(q, m)
      OBVIOUS
    <3> PICK l \in Nat : l = Len(q)
      OBVIOUS
    <3>1. /\ DOMAIN b = 1..(l + 1) /\ b[l + 1] = m
          /\ \A i \in 1..l : b[i] = q[i] /\ i \in DOMAIN q
      BY <1>2
    <3>2. ASSUME NEW i \in DOMAIN b PROVE b[i] = m \/ (i \in DOMAIN q /\ b[i] = q[i])
      <4>1. i \in 1..l \/ i = l + 1
        BY <3>1
      <4>2. i = l + 1 => b[i] = m
        BY <3>1
      <4>3. QED
        BY <3>1, <4>1, <4>2
    <3>3. QED
      BY <2>2, <3>2
  <2>3. QED
    BY <1>1, <2>1, <2>2
<1>4. \A x \in Due(d)' : x \in Due(d) \/ x = n
  BY <1>1, <1>2, <1>3 DEF Due, Waiting
<1>5. QED
  BY <1>1, <1>2, <1>4, ReasonStays

LEMMA HistoryStep == TypeOK /\ HistoryOK /\ [Next]_vars => HistoryOK'
<1> SUFFICES ASSUME TypeOK, HistoryOK, [Next]_vars PROVE HistoryOK'
  OBVIOUS
<1>1. CASE \E c \in Calls : SendJob(c)
  BY <1>1 DEF SendJob, HistoryOK
<1>2. CASE UNCHANGED recvVars
  BY <1>2 DEF recvVars, HistoryOK
<1>3. ASSUME NEW d \in Devices, Receives(d) PROVE HistoryOK'
  <2>1. CASE Arrive(d) \/ PairFails(d) \/ DeviceRestarts(d)
    BY <2>1 DEF Arrive, PairFails, DeviceRestarts, HistoryOK
  <2>2. CASE AbsorbKey(d)
    <3>1. PICK S : /\ overtaken' = [overtaken EXCEPT ![d] = @ \union S] /\ failed' = failed
                   /\ S \subseteq Waiting(d)
      BY <2>2 DEF AbsorbKey
    <3>2. Waiting(d) \subseteq Names
      BY DeviceEntry DEF Waiting
    <3>3. QED
      BY <3>1, <3>2 DEF HistoryOK
  <2>3. CASE RunSkmsg(d)
    <3>1. overtaken' = overtaken
      BY <2>3 DEF RunSkmsg
    <3>2. PICK n : n = Head(chain[d]).name /\ n \in Names
      BY <2>3, DeviceEntry DEF RunSkmsg
    <3>3. failed' = failed \/ failed' = [failed EXCEPT ![d] = @ \union {<<n, Why(d, n)>>}]
      BY <2>3, <3>2 DEF RunSkmsg
    <3>4. <<n, Why(d, n)>> \in Names \X Reasons
      <4>1. Why(d, n) = "no key" \/ Why(d, n) = "too old" \/ Why(d, n) = "too far"
        BY DEF Why
      <4>2. Why(d, n) \in Reasons
        BY <4>1 DEF Reasons
      <4>3. QED
        BY <3>2, <4>2
    <3>5. QED
      BY <3>1, <3>3, <3>4 DEF HistoryOK, Failures
  <2>4. QED
    BY <1>3, <2>1, <2>2, <2>3 DEF Receives
<1>4. QED
  BY <1>1, <1>2, <1>3, DeviceCases

LEMMA ReasonStep ==
    TypeOK /\ Inv /\ ReasonInv /\ WithinLimits /\ [Next]_vars => ReasonInv'
<1> SUFFICES ASSUME TypeOK, Inv, ReasonInv, WithinLimits, [Next]_vars PROVE ReasonInv'
  OBVIOUS
<1>1. HistoryOK'
  BY HistoryStep DEF ReasonInv
<1>2. ASSUME NEW d \in Devices PROVE ReasonOK(d)'
  <2>0. QueueOK(d) /\ ReadOK(d) /\ SentInv /\ ReasonOK(d) /\ HistoryOK
    BY DEF Inv, QueueInv, ReadInv, ReasonInv
  <2>1. ASSUME NEW c \in Calls, SendJob(c) PROVE ReasonOK(d)'
    BY <2>0, <2>1, ReasonSend
  <2>2. ASSUME NEW x \in Devices, Receives(x), x # d PROVE ReasonOK(d)'
    <3>1. /\ inbox'[d] = inbox[d] /\ chain'[d] = chain[d] /\ opened'[d] = opened[d]
          /\ rec'[d] = rec[d] /\ absorbed'[d] = absorbed[d] /\ sent' = sent
      BY <2>2, ReceiveLemma DEF sendVars
    <3>2. failed'[d] = failed[d] /\ overtaken'[d] = overtaken[d]
      BY <2>0, <2>2
      DEF Receives, Arrive, AbsorbKey, PairFails, RunSkmsg, DeviceRestarts, HistoryOK
    <3>3. Due(d)' = Due(d)
      BY <3>1 DEF Due, Waiting
    <3>4. QED
      BY <2>0, <3>1, <3>2, <3>3, ReasonStays
  <2>3. CASE Arrive(d) \/ PairFails(d) \/ DeviceRestarts(d)
    <3>1. UNCHANGED <<rec, opened, absorbed, overtaken, failed>> /\ sent' = sent
      BY <2>3 DEF Arrive, PairFails, DeviceRestarts, sendVars
    <3>2. Due(d)' \subseteq Due(d)
      BY <2>3, DueShrinks DEF Receives
    <3>3. QED
      BY <2>0, <3>1, <3>2, ReasonStays
  <2>4. CASE AbsorbKey(d)
    BY <2>0, <2>4, ReasonAbsorb
  <2>5. CASE RunSkmsg(d)
    BY <2>0, <2>5, ReasonSkmsg
  <2>6. CASE UNCHANGED recvVars
    <3>1. UNCHANGED <<inbox, chain, rec, opened, absorbed, overtaken, failed>>
      BY <2>6 DEF recvVars
    <3>2. sent \subseteq sent'
      BY Cases, ElsewhereCalls
      DEF Prepares, StartGroupSend, StartStatus, MetadataAnswer, DevicesAnswer, SessionsAnswer,
          QueryFails, CipherJob, DistributeJob, DistributeStatus, StatusToNobody, SendJob,
          SendFails, HandsOver, Restart, PairAgain
    <3>3. Due(d)' = Due(d)
      BY <3>1 DEF Due, Waiting
    <3>4. QED
      BY <2>0, <3>1, <3>2, <3>3, ReasonStays
  <2>7. QED
    BY <2>1, <2>2, <2>3, <2>4, <2>5, <2>6, DeviceCases DEF Receives
<1>3. QED
  BY <1>1, <1>2 DEF ReasonInv

LEMMA InitReason == Init => ReasonInv
<1> SUFFICES ASSUME Init PROVE ReasonInv
  OBVIOUS
<1>1. HistoryOK
  BY DEF Init, HistoryOK, Failures
<1>2. \A d \in Devices : absorbed[d] = {} /\ failed[d] = {} /\ \A r \in Rooms : rec[d][r] = << >>
  BY DEF Init
<1>3. DOMAIN << >> = {}
  OBVIOUS
<1>4. \A d \in Devices : ReasonOK(d)
  BY <1>2, <1>3 DEF ReasonOK, StatesOK, HoldsOK, FailedOK
<1>5. QED
  BY <1>1, <1>4 DEF ReasonInv

----------------------------------------------------------------------------
(* The theorems.                                                             *)

(* The chain never waits for a job that has ended, and a send that joined it *)
(* is in it once (the `serial` promise of messages.ts), however many sends.  *)
THEOREM ChainMovesHolds == Spec => []ChainMoves
<1>1. TypeOK /\ Inv => ChainMoves
  <2> SUFFICES ASSUME TypeOK, Inv PROVE ChainMoves
    OBVIOUS
  <2>0. JobsInv
    BY DEF Inv
  <2>1. jobs # << >> => calls[Head(jobs)].phase \in {"queued", "ciphered", "ready"}
    BY <2>0, JobsEntry DEF JobsInv, InJob
  <2>2. ASSUME NEW c \in Calls, InPhase(c, "queued")
        PROVE  Cardinality({i \in DOMAIN jobs : jobs[i] = c}) = 1
    <3>1. PICK k \in DOMAIN jobs : jobs[k] = c
      BY <2>0, <2>2 DEF JobsInv, InPhase, InJob
    <3>2. {i \in DOMAIN jobs : jobs[i] = c} = {k}
      BY <2>0, <3>1 DEF JobsInv
    <3>3. QED
      BY <3>2, FS_Singleton
  <2>3. QED
    BY <2>1, <2>2 DEF ChainMoves
<1>2. QED
  BY <1>1, Inductive, PTL

(* No two stanzas are enciphered with one key: the chain is stored before    *)
(* the stanza leaves, so a crash or a failed send skips an iteration.        *)
THEOREM FreshKeysHold == Spec => []FreshKeys
<1>1. TypeOK /\ Inv => FreshKeys
  BY DEF Inv, SentInv
<1>2. QED
  BY <1>1, Inductive, PTL

(* No device delivers one message twice, whatever the server repeats: the    *)
(* key of an iteration is spent, and a distribution that opens is newer than *)
(* all the device has read (groupDecrypt and absorbSkdm).                    *)
THEOREM ReadOnceHolds == Spec => []ReadOnce
<1>1. TypeOK /\ Inv => ReadOnce
  BY DEF Inv, ReadInv, ReadOK, ReadOnce
<1>2. QED
  BY <1>1, Inductive, PTL

(* A device that sender-key-memory marks has the key, will get it, or lost   *)
(* it after it was marked (sendGroupMessage, savePeerMem).                   *)
THEOREM MarkedReachedHolds == Spec => []MarkedReached
<1>1. TypeOK /\ Inv => MarkedReached
  <2> SUFFICES ASSUME TypeOK, Inv, NEW d \in Devices, mem.jids[d] = "has"
               PROVE  \/ mem.gen \in Known(rec[d]["group"]) \/ OnItsWay(d)
                      \/ \E k \in keyLost : k[1] = d /\ OurKey(k[2])
    BY DEF MarkedReached
  <2>1. 1 <= mem.gen /\ mem.gen = own["group"].gen /\ Reach(d, mem.gen)
    BY DEF Inv, MarkInv
  <2>2. mem.gen = gens["group"]
    BY <2>1 DEF Inv, SentInv, OwnInv, Rooms
  <2>3. CASE Had(d, mem.gen)
    BY <2>2, <2>3 DEF Had, Ours, Inv, KnownInv, KnownOK
  <2>4. CASE Lined(d, mem.gen)
    <3>1. PICK i \in DOMAIN inbox[d] : inbox[d][i].key /\ Ours(inbox[d][i], mem.gen)
      BY <2>4 DEF Lined
    <3>2. OurKey(Name(inbox[d][i]))
      BY <3>1, NameLemma, DeviceEntry DEF Ours, OurKey
    <3>3. QED
      BY <3>1, <3>2 DEF OnItsWay
  <2>5. CASE Queued(d, mem.gen)
    BY <2>5 DEF Queued, Ours, OnItsWay, Pairs, OurKey
  <2>6. CASE Lost(d, mem.gen)
    BY <2>6 DEF Lost, Ours, OurKey
  <2>7. CASE \E c \in Calls : ReadyFor(c, d, mem.gen)
    BY <2>7 DEF ReadyFor, OnItsWay, InPhase
  <2>8. QED
    BY <2>1, <2>3, <2>4, <2>5, <2>6, <2>7 DEF Reach
<1>2. QED
  BY <1>1, Inductive, PTL

(* A device that took in our key reads every later message of it, whatever   *)
(* comes late or twice, unless it read it before, a newer distribution came  *)
(* in between, or it is too far ahead (messageKeyFor, addState): as long as  *)
(* no more key ids are in use than a record has states, and no message has   *)
(* more than MAX_MESSAGE_KEYS unread ones before it.                         *)
THEOREM UnreadableForAReasonHolds == Spec /\ []WithinLimits => []UnreadableForAReason
<1>1. TypeOK /\ Inv /\ ReasonInv /\ WithinLimits /\ [Next]_vars => ReasonInv'
  BY ReasonStep
<1>2. ReasonInv => UnreadableForAReason
  BY DEF ReasonInv, ReasonOK, FailedOK, Done, UnreadableForAReason
<1>3. QED
  BY <1>1, <1>2, InitReason, Inductive, PTL DEF Spec
=============================================================================
