---------------------------- MODULE GroupChat -----------------------------
(* One account that sends to a group and to its status list (messages.ts,   *)
(* with the device list of client.ts), and the devices that receive, which  *)
(* run handleMessageStanza of this code.                                    *)
(*                                                                          *)
(* A send resolves devices and opens sessions outside the `serial` chain,   *)
(* then runs as a job of the chain, cut here where a crash or the loss of   *)
(* the link makes a difference: cipher and store, distribute and remember,  *)
(* send.  A stanza carries the skmsg and, for some devices, a pairwise <enc>*)
(* with the sender key; the receiver runs each <enc> as a job of its own    *)
(* chain.  The server keeps the order of what it has for a device.          *)
EXTENDS SenderKeys, Functions

CONSTANTS
    Devices,      \* the devices of the other participants
    Calls,        \* sends in progress at a time
    MaxGens,      \* bound: sender keys the account makes in a room
    MaxMsgs,      \* bound: sends in all
    MaxFaults,    \* bound: faults of the network and crashes
    MaxChanges    \* bound: changes of the membership

VARIABLES
    own,          \* our chain in each room
    mem,          \* sender-key-memory of the group
    peers,        \* groupPeers
    sess,         \* devices with an open pairwise session
    cache,        \* groupDeviceCache
    calls,        \* the sends in progress
    jobs,         \* those in the serial chain
    link,         \* the socket is open
    members,      \* external: the devices of the group
    notes,        \* w:gp2 notifications on their way
    inbox,        \* external: stanzas the server has for a device
    chain,        \* the serial chain of a device
    rec,          \* its record of our sender key, by room
    faults, changes,
    gens, made,   \* sender keys made so far in each room, and sends started
    sent,         \* history: the skmsgs handed to sendNode
    reused,       \* history: two of them have one name
    opened,       \* history: what each device read
    failed,       \* history: what each device could not read when its turn came
    absorbed,     \* history: the distributions each device took in
    overtaken,    \* history: skmsgs that a newer distribution got ahead of
    keyLost       \* history: group keys that were sent to a device and did not reach it

sendVars == <<own, mem, peers, sess, cache, calls, jobs, link, gens, made, sent, reused>>
worldVars == <<members, notes, changes>>
recvVars == <<inbox, chain, rec, opened, failed, absorbed, overtaken>>
vars == <<sendVars, worldVars, recvVars, faults, keyLost>>

Rooms == {"group", "status"}
NoList == [set |-> FALSE, devs |-> {}]
List(devs) == [set |-> TRUE, devs |-> devs]
Idle == [phase |-> "idle", room |-> "group", devs |-> {}, msg |-> NoChain]

Init ==
    /\ own = [r \in Rooms |-> NoChain] /\ gens = [r \in Rooms |-> 0] /\ made = 0
    /\ mem = [gen |-> 0, jids |-> [d \in Devices |-> "absent"]]
    /\ peers = {} /\ sess = {} /\ cache = NoList
    /\ calls = [c \in Calls |-> Idle] /\ jobs = << >>
    /\ link = TRUE /\ members = Devices /\ notes = 0
    /\ inbox = [d \in Devices |-> << >>] /\ chain = [d \in Devices |-> << >>]
    /\ rec = [d \in Devices |-> [r \in Rooms |-> << >>]]
    /\ faults = 0 /\ changes = 0
    /\ sent = {} /\ reused = FALSE /\ keyLost = {}
    /\ opened = [d \in Devices |-> << >>] /\ failed = [d \in Devices |-> {}]
    /\ absorbed = [d \in Devices |-> {}] /\ overtaken = [d \in Devices |-> {}]

Fault == faults < MaxFaults /\ faults' = faults + 1

----------------------------------------------------------------------------
(* The part of a send that is outside the chain. *)

InPhase(c, p) == calls[c].phase = p
Joins(c, devs) ==
    /\ calls' = [calls EXCEPT ![c].phase = "queued", ![c].devs = devs]
    /\ jobs' = Append(jobs, c)

\* sendGroupMessage: resolveGroupDeviceJids answers from its cache, or asks.
StartGroupSend(c) ==
    /\ InPhase(c, "idle")
    /\ made < MaxMsgs /\ made' = made + 1
    /\ calls' = [calls EXCEPT ![c] =
            [Idle EXCEPT !.phase = IF cache.set THEN "sessions" ELSE "meta",
                         !.devs = IF cache.set THEN cache.devs ELSE {}]]
    /\ UNCHANGED <<own, mem, peers, sess, cache, jobs, link, gens, sent, reused,
                   worldVars, recvVars, faults, keyLost>>

\* groupMetadata is answered with the members of that moment; those whose lid comes
\* without a number are left out.
MetadataAnswer(c) ==
    /\ InPhase(c, "meta") /\ link
    /\ \E known \in SUBSET members :
          calls' = [calls EXCEPT ![c].phase = "usync", ![c].devs = known]
    /\ UNCHANGED <<own, mem, peers, sess, cache, jobs, link, gens, made, sent, reused,
                   worldVars, recvVars, faults, keyLost>>

\* sendStatus: a list of recipients, whose devices are asked for.
StartStatus(c) ==
    /\ InPhase(c, "idle")
    /\ made < MaxMsgs /\ made' = made + 1
    /\ \E devs \in SUBSET Devices \ {{}} :
          calls' = [calls EXCEPT ![c] =
              [Idle EXCEPT !.phase = "usync", !.room = "status", !.devs = devs]]
    /\ UNCHANGED <<own, mem, peers, sess, cache, jobs, link, gens, sent, reused,
                   worldVars, recvVars, faults, keyLost>>

\* getDeviceList is answered; for a group the list goes into the cache, with
\* whatever happened since the metadata was asked for.
DevicesAnswer(c) ==
    /\ InPhase(c, "usync")
    /\ link \/ calls[c].devs = {}
    /\ calls' = [calls EXCEPT ![c].phase = "sessions"]
    /\ cache' = IF calls[c].room = "group" THEN List(calls[c].devs) ELSE cache
    /\ UNCHANGED <<own, mem, peers, sess, jobs, link, gens, made, sent, reused,
                   worldVars, recvVars, faults, keyLost>>

\* assertSessions: bundles are found for some of the devices without a session.
SessionsAnswer(c) ==
    /\ InPhase(c, "sessions")
    /\ link \/ calls[c].devs \subseteq sess
    /\ \E found \in SUBSET (calls[c].devs \ sess) : sess' = sess \union found
    /\ Joins(c, calls[c].devs)
    /\ UNCHANGED <<own, mem, peers, cache, link, gens, made, sent, reused,
                   worldVars, recvVars, faults, keyLost>>

\* A query that fails or times out: the send goes on, without the list if it is
\* for a group, with what it has if it is for the status list.
QueryFails(c) ==
    /\ \/ InPhase(c, "meta")
       \/ InPhase(c, "usync") /\ calls[c].devs # {}
       \/ InPhase(c, "sessions") /\ ~(calls[c].devs \subseteq sess)
    /\ IF calls[c].room = "status" /\ InPhase(c, "usync")
       THEN calls' = [calls EXCEPT ![c].phase = "sessions"] /\ UNCHANGED jobs
       ELSE Joins(c, IF calls[c].room = "group" THEN {} ELSE calls[c].devs)
    /\ UNCHANGED <<own, mem, peers, sess, cache, link, gens, made, sent, reused,
                   worldVars, recvVars, faults, keyLost>>

----------------------------------------------------------------------------
(* The job of a send in the chain. *)

Running(c, p) == jobs # << >> /\ Head(jobs) = c /\ InPhase(c, p)

\* Mutant: the chain is used before it is stored, and stored when all is sent.
CipherUnsaved(c, gen) ==
    LET o == Created(own[calls[c].room], gen)
    IN  /\ calls' = [calls EXCEPT ![c].phase = "ciphered", ![c].msg = o]
        /\ own' = [own EXCEPT ![calls[c].room] = o]

\* createSenderKeyDistribution and groupEncrypt, then storeSenderKey.
Cipher(c, gen) ==
    LET o == Created(own[calls[c].room], gen)
    IN  /\ calls' = [calls EXCEPT ![c].phase = "ciphered", ![c].msg = o]
        /\ own' = [own EXCEPT ![calls[c].room] = Encrypted(o)]

CipherJob(c) ==
    /\ Running(c, "queued")
    /\ LET r == calls[c].room
           new == own[r].gen = 0
           gen == gens[r] + 1
       IN  /\ gens' = IF new THEN [gens EXCEPT ![r] = gen] ELSE gens
           /\ Cipher(c, gen)
    /\ UNCHANGED <<mem, peers, sess, cache, jobs, link, made, sent, reused,
                   worldVars, recvVars, faults, keyLost>>

\* Mutant: a device is marked although there was no session to cipher with.
MarkedAll(m, targets) == [d \in Devices |-> IF d \in targets THEN "has" ELSE m.jids[d]]

\* The loop over the candidates: those ciphered for are marked.
Marked(m, targets) ==
    [d \in Devices |-> IF d \in targets \intersect sess THEN "has" ELSE m.jids[d]]

\* The memory holds for one key only.
Memory(gen) ==
    IF mem.gen = gen THEN mem ELSE [gen |-> gen, jids |-> [d \in Devices |-> "absent"]]

GroupTargets(c, m) ==
    {d \in peers \union calls[c].devs \union {x \in Devices : m.jids[x] # "absent"} :
        m.jids[d] # "has"}

\* sendGroupMessage up to savePeerMem.
DistributeJob(c) ==
    /\ Running(c, "ciphered") /\ calls[c].room = "group"
    /\ LET m == Memory(calls[c].msg.gen)
           targets == GroupTargets(c, m)
       IN  /\ mem' = [m EXCEPT !.jids = Marked(m, targets)]
           /\ calls' = [calls EXCEPT ![c].phase = "ready",
                                     ![c].devs = targets \intersect sess]
    /\ UNCHANGED <<own, peers, sess, cache, jobs, link, gens, made, sent, reused,
                   worldVars, recvVars, faults, keyLost>>

\* sendStatus: the key goes to every device with a session, each time.
DistributeStatus(c) ==
    /\ Running(c, "ciphered") /\ calls[c].room = "status"
    /\ calls[c].devs \intersect sess # {}
    /\ calls' = [calls EXCEPT ![c].phase = "ready", ![c].devs = @ \intersect sess]
    /\ UNCHANGED <<own, mem, peers, sess, cache, jobs, link, gens, made, sent, reused,
                   worldVars, recvVars, faults, keyLost>>

\* Mutant: a job that throws stays at the head of the chain.
ThrowStalls(c) == calls' = [calls EXCEPT ![c] = Idle] /\ UNCHANGED jobs

\* The chain goes on whether its job resolves or throws.
Ends(c) == calls' = [calls EXCEPT ![c] = Idle] /\ jobs' = Tail(jobs)

\* "nenhum destinatário com sessão".
StatusToNobody(c) ==
    /\ Running(c, "ciphered") /\ calls[c].room = "status"
    /\ calls[c].devs \intersect sess = {}
    /\ Ends(c)
    /\ UNCHANGED <<own, mem, peers, sess, cache, link, gens, made, sent, reused,
                   worldVars, recvVars, faults, keyLost>>

Name(m) == [room |-> m.room, gen |-> m.gen, iter |-> m.iter]
Stanza(c, d) ==
    [room |-> calls[c].room, gen |-> calls[c].msg.gen, iter |-> calls[c].msg.iter,
     key |-> d \in calls[c].devs]
Audience(c) == IF calls[c].room = "group" THEN members ELSE calls[c].devs
GroupKeys(c, devs) ==
    IF calls[c].room = "group" THEN devs \X {Name(Stanza(c, CHOOSE d \in Devices : TRUE))} ELSE {}
HandsOver(c) ==
    LET name == Name(Stanza(c, CHOOSE d \in Devices : TRUE))
    IN  sent' = sent \union {name} /\ reused' = (reused \/ name \in sent)

\* sendNode on an open socket; the server fans the stanza out.
SendJob(c) ==
    /\ Running(c, "ready") /\ link
    /\ inbox' = [d \in Devices |->
            IF d \in Audience(c) THEN Append(inbox[d], Stanza(c, d)) ELSE inbox[d]]
    /\ keyLost' = keyLost \union GroupKeys(c, calls[c].devs \ members)
    /\ HandsOver(c) /\ Ends(c)
    /\ UNCHANGED <<own, mem, peers, sess, cache, link, gens, made, worldVars,
                   chain, rec, opened, failed, absorbed, overtaken, faults>>

\* sendNode throws, or the link goes with the stanza on it.
SendFails(c) ==
    /\ Running(c, "ready")
    /\ IF link THEN Fault /\ link' = FALSE ELSE UNCHANGED <<link, faults>>
    /\ keyLost' = keyLost \union GroupKeys(c, calls[c].devs)
    /\ HandsOver(c) /\ Ends(c)
    /\ UNCHANGED <<own, mem, peers, sess, cache, gens, made, worldVars, recvVars>>

----------------------------------------------------------------------------
(* What else happens to the account. *)

\* rememberGroupPeer: a job of its own, for a device heard in the group.  With
\* its key it may have opened the session.
HearFrom(d) ==
    /\ \A c \in Calls : calls[c].phase \notin {"ciphered", "ready"}
    /\ d \in members /\ d \notin peers
    /\ sess' = sess \union {d} /\ peers' = peers \union {d}
    /\ mem' = IF mem.jids[d] = "absent" THEN [mem EXCEPT !.jids[d] = "known"] ELSE mem
    /\ UNCHANGED <<own, cache, calls, jobs, link, gens, made, sent, reused,
                   worldVars, recvVars, faults, keyLost>>

LinkDown ==
    /\ link /\ Fault /\ link' = FALSE
    /\ UNCHANGED <<own, mem, peers, sess, cache, calls, jobs, gens, made, sent, reused,
                   worldVars, recvVars, keyLost>>
LinkUp ==
    /\ ~link /\ link' = TRUE
    /\ UNCHANGED <<own, mem, peers, sess, cache, calls, jobs, gens, made, sent, reused,
                   worldVars, recvVars, faults, keyLost>>

\* A restart: what is in memory goes; a key that was marked and not yet sent is lost.
Forgets ==
    /\ peers' = {} /\ cache' = NoList /\ jobs' = << >>
    /\ calls' = [c \in Calls |-> Idle]
    /\ keyLost' = keyLost \union
            UNION {GroupKeys(c, calls[c].devs) : c \in {x \in Calls : InPhase(x, "ready")}}
Restart ==
    /\ Fault /\ Forgets
    /\ UNCHANGED <<own, mem, sess, link, gens, made, sent, reused, worldVars, recvVars>>

\* The account is paired again with an empty store.
PairAgain ==
    /\ Fault /\ Forgets /\ \A r \in Rooms : gens[r] < MaxGens
    /\ own' = [r \in Rooms |-> NoChain] /\ sess' = {}
    /\ mem' = [gen |-> 0, jids |-> [d \in Devices |-> "absent"]]
    /\ UNCHANGED <<link, gens, made, sent, reused, worldVars, recvVars>>

\* GROUP_DEVICE_TTL.
CacheExpires ==
    /\ cache.set /\ cache' = NoList
    /\ UNCHANGED <<own, mem, peers, sess, calls, jobs, link, gens, made, sent, reused,
                   worldVars, recvVars, faults, keyLost>>

\* External: a device comes into the group or goes.  The account is told of that of
\* a participant, and not of one that a participant links or unlinks.
Change(d) ==
    /\ changes < MaxChanges /\ changes' = changes + 1
    /\ members' = IF d \in members THEN members \ {d} ELSE members \union {d}
    /\ notes' \in {notes, notes + 1}
    /\ UNCHANGED <<sendVars, recvVars, faults, keyLost>>

\* onMembershipChange.
HandleNote ==
    /\ notes > 0 /\ link /\ notes' = notes - 1
    /\ cache' = NoList
    /\ UNCHANGED <<own, mem, peers, sess, calls, jobs, link, gens, made, sent, reused,
                   members, changes, recvVars, faults, keyLost>>

----------------------------------------------------------------------------
(* handleMessageStanza on a device.  Its first <enc> joins the chain as the *)
(* stanza arrives, and the next one only when the first is done.            *)

Enc(m, type) == [name |-> Name(m), type |-> type]
FirstEnc(m) == Enc(m, IF m.key THEN "pair" ELSE "skmsg")
Pairs(d) == {chain[d][i].name : i \in {j \in DOMAIN chain[d] : chain[d][j].type = "pair"}}

\* The server gives the next stanza; if the <ack> is lost it will give it again.
Arrive(d) ==
    /\ inbox[d] # << >>
    /\ chain' = [chain EXCEPT ![d] = Append(@, FirstEnc(Head(inbox[d])))]
    /\ \/ inbox' = [inbox EXCEPT ![d] = Tail(@)] /\ UNCHANGED faults
       \/ Fault /\ UNCHANGED inbox
    /\ UNCHANGED <<sendVars, worldVars, rec, opened, failed, absorbed, overtaken,
                   keyLost>>

NextEnc(d) == Append(Tail(chain[d]), [Head(chain[d]) EXCEPT !.type = "skmsg"])

Waiting(d) == {chain[d][i].name : i \in DOMAIN chain[d]}

\* A pairwise <enc> that opens: absorbSkdm.  It opens once only (SignalSession).
AbsorbKey(d) ==
    /\ chain[d] # << >> /\ Head(chain[d]).type = "pair"
    /\ LET n == Head(chain[d]).name
       IN  /\ n \notin absorbed[d] /\ <<d, n>> \notin keyLost
           /\ rec' = [rec EXCEPT ![d][n.room] = AddState(@, n.gen, n.iter)]
           /\ absorbed' = [absorbed EXCEPT ![d] = @ \union {n}]
           /\ overtaken' = [overtaken EXCEPT ![d] = @ \union
                  {m \in Waiting(d) : m.room = n.room /\ m.gen = n.gen /\ m.iter < n.iter}]
    /\ chain' = [chain EXCEPT ![d] = NextEnc(d)]
    /\ UNCHANGED <<sendVars, worldVars, inbox, opened, failed, faults, keyLost>>

\* One that does not: a repeated one, or one for a session that is out of step,
\* which will not open later either.  The user sees an empty message and a retry
\* receipt goes out, which this code does not answer.
PairFails(d) ==
    /\ chain[d] # << >> /\ Head(chain[d]).type = "pair"
    /\ LET n == Head(chain[d]).name
       IN  IF n \in absorbed[d] \/ <<d, n>> \in keyLost
           THEN UNCHANGED <<faults, keyLost>>
           ELSE Fault /\ keyLost' = keyLost \union {<<d, n>>}
    /\ chain' = [chain EXCEPT ![d] = NextEnc(d)]
    /\ UNCHANGED <<sendVars, worldVars, inbox, rec, opened, failed, absorbed, overtaken>>

\* The errors of groupDecrypt and messageKeyFor.
Covered(d, n) == \E k \in absorbed[d] : k.room = n.room /\ k.gen = n.gen /\ k.iter <= n.iter
Why(d, n) ==
    LET r == rec[d][n.room]
    IN  IF ~Covered(d, n) THEN "no key"
        ELSE IF n.gen \notin Known(r) \/ StateOf(r, n.gen).chain > n.iter THEN "too old"
        ELSE "too far"

\* The skmsg: groupDecrypt, the record stored, the message delivered; or the
\* catch branch, which stores nothing.
RunSkmsg(d) ==
    /\ chain[d] # << >> /\ Head(chain[d]).type = "skmsg"
    /\ LET n == Head(chain[d]).name
           r == rec[d][n.room]
       IN  IF CanOpen(r, n.gen, n.iter)
           THEN /\ rec' = [rec EXCEPT ![d][n.room] = Opened(r, n.gen, n.iter)]
                /\ opened' = [opened EXCEPT ![d] = Append(@, n)]
                /\ UNCHANGED failed
           ELSE /\ failed' = [failed EXCEPT ![d] = @ \union {<<n, Why(d, n)>>}]
                /\ UNCHANGED <<rec, opened>>
    /\ chain' = [chain EXCEPT ![d] = Tail(@)]
    /\ UNCHANGED <<sendVars, worldVars, inbox, absorbed, overtaken, faults, keyLost>>

\* The device restarts: stanzas it has acknowledged and not finished are gone.
DeviceRestarts(d) ==
    /\ chain[d] # << >> /\ Fault
    /\ chain' = [chain EXCEPT ![d] = << >>]
    /\ keyLost' = keyLost \union
            {<<d, n>> : n \in Pairs(d) \ (absorbed[d] \union {Name(inbox[d][i]) : i \in DOMAIN inbox[d]})}
    /\ UNCHANGED <<sendVars, worldVars, inbox, rec, opened, failed, absorbed, overtaken>>

----------------------------------------------------------------------------
Query(c) == MetadataAnswer(c) \/ DevicesAnswer(c) \/ SessionsAnswer(c) \/ QueryFails(c)
Job(c) ==
    \/ CipherJob(c) \/ DistributeJob(c) \/ DistributeStatus(c)
    \/ StatusToNobody(c) \/ SendJob(c) \/ SendFails(c)
Next ==
    \/ \E c \in Calls : StartGroupSend(c) \/ StartStatus(c) \/ Query(c) \/ Job(c)
    \/ \E d \in Devices :
          \/ HearFrom(d) \/ Change(d) \/ Arrive(d)
          \/ AbsorbKey(d) \/ PairFails(d) \/ RunSkmsg(d) \/ DeviceRestarts(d)
    \/ LinkDown \/ LinkUp \/ Restart \/ PairAgain \/ CacheExpires \/ HandleNote

Spec == Init /\ [][Next]_vars

----------------------------------------------------------------------------
(* Properties. *)

Names == [room : Rooms, gen : Nat, iter : Nat]
Chains == [gen : Nat, iter : Nat]
Phases == {"idle", "meta", "usync", "sessions", "queued", "ciphered", "ready"}

\* The shape of the state of the account and of the devices: a record has one state
\* of a key id at most, and keeps keys only of iterations that its chain has passed.
TypeOK ==
    /\ own \in [Rooms -> Chains] /\ gens \in [Rooms -> Nat]
    /\ mem \in [gen : Nat, jids : [Devices -> {"absent", "known", "has"}]]
    /\ peers \subseteq Devices /\ sess \subseteq Devices /\ members \subseteq Devices
    /\ cache \in [set : BOOLEAN, devs : SUBSET Devices]
    /\ calls \in [Calls -> [phase : Phases, room : Rooms, devs : SUBSET Devices, msg : Chains]]
    /\ jobs \in Seq(Calls) /\ notes \in Nat /\ sent \subseteq Names
    /\ inbox \in [Devices -> Seq([room : Rooms, gen : Nat, iter : Nat, key : BOOLEAN])]
    /\ chain \in [Devices -> Seq([name : Names, type : {"pair", "skmsg"}])]
    /\ rec \in [Devices -> [Rooms -> Seq([gen : Nat, chain : Nat, kept : SUBSET Nat])]]
    /\ opened \in [Devices -> Seq(Names)] /\ absorbed \in [Devices -> SUBSET Names]
    /\ \A d \in Devices, r \in Rooms : \A i \in DOMAIN rec[d][r] :
          /\ \A k \in rec[d][r][i].kept : k < rec[d][r][i].chain
          /\ \A j \in DOMAIN rec[d][r] : rec[d][r][i].gen = rec[d][r][j].gen => i = j

OurKey(n) == n.room = "group" /\ n.gen = mem.gen
OnItsWay(d) ==
    \/ \E c \in Calls : InPhase(c, "ready") /\ calls[c].room = "group" /\ d \in calls[c].devs
    \/ \E i \in DOMAIN inbox[d] : inbox[d][i].key /\ OurKey(Name(inbox[d][i]))
    \/ \E n \in Pairs(d) : OurKey(n)

\* A device that sender-key-memory marks as having our key has it or is about to
\* get it, unless the key was lost after the mark: sendNode threw, the process or
\* the device died, the pairwise message did not open.  The mark is never taken
\* back, so these devices read nothing more until the account pairs again.
MarkedReached ==
    \A d \in Devices : mem.jids[d] = "has" =>
        \/ mem.gen \in Known(rec[d]["group"]) \/ OnItsWay(d)
        \/ \E k \in keyLost : k[1] = d /\ OurKey(k[2])

\* No device reads a message of a group or status twice, whatever the server
\* repeats: a repeated distribution does not open, and so cannot bring the chain
\* back to an iteration that was read.
ReadOnce ==
    \A d \in Devices : \A i, j \in DOMAIN opened[d] :
        opened[d][i] = opened[d][j] => i = j

\* No two messages are enciphered with one message key, across concurrent sends,
\* failed sends and restarts: the chain is stored before the stanza leaves.
FreshKeys == ~reused

\* A device that has taken in our key at some iteration reads every later message
\* of it, in the order of its chain of jobs or not, unless it is a repetition or
\* too far ahead (MAX_FORWARD_JUMP), or a newer distribution for the same key id
\* was taken in between (addState drops the keys it replaces). So it is as long as
\* no more than MAX_MESSAGE_KEYS messages are skipped and no more than MAX_STATES
\* key ids are in use: beyond, the record forgets.
UnreadableForAReason ==
    \A d \in Devices : \A f \in failed[d] :
        f[2] = "too old" => f[1] \in Range(opened[d]) \union overtaken[d]

\* The chain never waits for a job that has ended: one that throws lets the next
\* one run, and every send that is in the chain is there once.
ChainMoves ==
    /\ jobs # << >> => calls[Head(jobs)].phase \in {"queued", "ciphered", "ready"}
    /\ \A c \in Calls : InPhase(c, "queued") => Cardinality({i \in DOMAIN jobs : jobs[i] = c}) = 1
===========================================================================
