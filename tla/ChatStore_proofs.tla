-------------------------- MODULE ChatStore_proofs --------------------------
(* Proofs about ChatStore: for every conversation, and any number of events, *)
(* faults and restarts, the store shows what the last event about a message  *)
(* said, and with it the account's truth when that event was the newest.     *)
EXTENDS ChatStore, SequenceTheorems, TLAPS

Stages == 0..3
Entries == {Stub, None, 1, 2}
History == [Msgs -> 0..2]

Stanza ==
    [ev : {"new", "edit", "revoke"}, msg : Msgs]
      \union [ev : {"history"}, has : History]
      \union [ev : {"vote"}, voter : Voters, n : 0..MaxEvents]
Deletion == [ev : {"message", "chat"}, gone : SUBSET Msgs]

(* What is on its way, and what was kept of the past, is well formed too;   *)
(* a device cannot have voted more often than things were done.             *)
Shape ==
    /\ TypeOK
    /\ stream \in Seq(Stanza) /\ account \in Seq(Deletion)
    /\ downloads \subseteq History
    /\ snapshot \in [store : [Msgs -> Entries], last : [Msgs -> Stages]]
    /\ \A v \in Voters : cast[v] <= events

(* The entry of a message is what the last event about it made of it.       *)
Agree(entry, stage) ==
    \/ stage = None /\ entry \in {Stub, None}
    \/ stage \in {1, 2} /\ entry = stage
    \/ stage = 3 /\ entry = None

AgreeInv ==
    \A m \in Msgs \ astray :
        Agree(store[m], last[m]) /\ Agree(snapshot.store[m], snapshot.last[m])

(* An empty entry is that of a message that was sent: nothing that arrives   *)
(* is about a message that was not.                                          *)
WasSent(m) == truth[m] # 0
StubInv ==
    /\ \A m \in Msgs : store[m] = Stub \/ snapshot.store[m] = Stub => WasSent(m)
    /\ \A i \in DOMAIN stream : stream[i].ev \in {"new", "edit"} => WasSent(stream[i].msg)

Inv == Shape /\ AgreeInv /\ StubInv

-----------------------------------------------------------------------------
LEMMA InitInv == Init => Inv
<1> SUFFICES ASSUME Init PROVE Inv
  OBVIOUS
<1>1. TypeOK
  BY BoundAssumption DEF Init, TypeOK, Stub, None
<1>2. store \in [Msgs -> Entries] /\ last \in [Msgs -> Stages]
  BY DEF Init, Entries, Stages, None, Stub
<1>3. Shape
  BY <1>1, <1>2 DEF Shape, Init, Entries, Stages, None, Stub
<1>4. AgreeInv
  BY DEF Init, AgreeInv, Agree, None, Stub
<1>5. StubInv
  BY DEF Init, StubInv, None, Stub
<1>6. QED
  BY <1>3, <1>4, <1>5 DEF Inv

(* What was on its way loses its first member, or gains one at the end.      *)
LEMMA Taken ==
  ASSUME NEW T, NEW s \in Seq(T), s # << >>
  PROVE  /\ Head(s) \in T /\ Tail(s) \in Seq(T)
         /\ Head(s) = s[1] /\ 1 \in DOMAIN s
         /\ \A i \in DOMAIN Tail(s) : i + 1 \in DOMAIN s /\ Tail(s)[i] = s[i + 1]
  OBVIOUS

LEMMA Added ==
  ASSUME NEW T, NEW s \in Seq(T), NEW e \in T
  PROVE  /\ Append(s, e) \in Seq(T)
         /\ \A i \in DOMAIN Append(s, e) :
               Append(s, e)[i] = e \/ (i \in DOMAIN s /\ Append(s, e)[i] = s[i])
  OBVIOUS

-----------------------------------------------------------------------------
(* The account adds stanzas about messages that were sent, and takes back    *)
(* nothing.                                                                  *)

LEMMA StreamGrows ==
  ASSUME StubInv, stream \in Seq(Stanza), truth' \in [Msgs -> Stages], UNCHANGED <<store, snapshot>>,
         \A m \in Msgs : WasSent(m) => truth'[m] # 0,
         NEW e \in Stanza, e.ev \in {"new", "edit"} => truth'[e.msg] # 0,
         stream' = Append(stream, e)
  PROVE  stream' \in Seq(Stanza) /\ StubInv'
<1>1. stream' \in Seq(Stanza)
  BY Added
<1>2. ASSUME NEW i \in DOMAIN stream', stream'[i].ev \in {"new", "edit"}
      PROVE  truth'[stream'[i].msg] # 0
  <2>1. CASE stream'[i] = e
    BY <1>2, <2>1
  <2>2. CASE i \in DOMAIN stream /\ stream'[i] = stream[i]
    <3>1. WasSent(stream[i].msg)
      BY <1>2, <2>2 DEF StubInv
    <3>2. stream[i] \in Stanza
      BY <2>2
    <3>3. stream[i].msg \in Msgs
      BY <1>2, <2>2, <3>2 DEF Stanza
    <3>4. QED
      BY <2>2, <3>1, <3>3
  <2>3. QED
    BY <2>1, <2>2, Added
<1>3. QED
  BY <1>1, <1>2 DEF StubInv, WasSent

LEMMA StreamStays ==
  ASSUME StubInv, stream \in Seq(Stanza), UNCHANGED <<store, snapshot, stream>>,
         \A m \in Msgs : WasSent(m) => truth'[m] # 0
  PROVE  StubInv'
<1>1. ASSUME NEW i \in DOMAIN stream, stream[i].ev \in {"new", "edit"}
      PROVE  truth'[stream[i].msg] # 0
  <2>1. stream[i] \in Stanza
    OBVIOUS
  <2>2. stream[i].msg \in Msgs
    BY <1>1, <2>1 DEF Stanza
  <2>3. QED
    BY <1>1, <2>2 DEF StubInv
<1>2. QED
  BY <1>1 DEF StubInv, WasSent

LEMMA AccountKeeps == Inv /\ AccountActs => Inv'
<1> SUFFICES ASSUME Inv, AccountActs PROVE Inv'
  OBVIOUS
<1> USE DEF Stages
<1>1. /\ TypeOK /\ stream \in Seq(Stanza) /\ account \in Seq(Deletion) /\ StubInv
      /\ truth \in [Msgs -> Stages] /\ cast \in [Voters -> 0..MaxEvents]
      /\ \A v \in Voters : cast[v] <= events
  BY DEF Inv, Shape, TypeOK
<1>2. UNCHANGED device /\ events < MaxEvents /\ events' = events + 1 /\ events \in 0..MaxEvents
  BY <1>1 DEF AccountActs, TypeOK
<1>3. UNCHANGED <<downloads, store, votes, snapshot, loaded, faults, last, astray>>
  BY <1>2 DEF device
<1> DEFINE Rest ==
      /\ truth' \in [Msgs -> Stages] /\ cast' \in [Voters -> 0..MaxEvents]
      /\ stream' \in Seq(Stanza) /\ account' \in Seq(Deletion) /\ StubInv'
      /\ \A v \in Voters : cast'[v] <= events'
<1>4. Rest
  <2>1. ASSUME NEW m \in Msgs, Sends(m) \/ Edits(m) \/ Revokes(m) PROVE Rest
    <3>1. PICK stage \in {1, 2, 3} : truth' = [truth EXCEPT ![m] = stage]
      BY <2>1 DEF Sends, Edits, Revokes
    <3>2. PICK e \in Stanza : stream' = Append(stream, e) /\ e.ev # "history" /\ e.msg = m
      <4>1. CASE Sends(m)
        BY <4>1 DEF Sends, Stanza
      <4>2. CASE Edits(m)
        BY <4>2 DEF Edits, Stanza
      <4>3. CASE Revokes(m)
        BY <4>3 DEF Revokes, Stanza
      <4>4. QED
        BY <2>1, <4>1, <4>2, <4>3
    <3>3. truth' \in [Msgs -> Stages] /\ truth'[m] # 0 /\ \A k \in Msgs : WasSent(k) => truth'[k] # 0
      BY <1>1, <3>1 DEF WasSent
    <3>4. stream' \in Seq(Stanza) /\ StubInv'
      BY <1>1, <1>3, <3>2, <3>3, StreamGrows
    <3>5. UNCHANGED <<cast, account>>
      BY <2>1 DEF Sends, Edits, Revokes
    <3>6. QED
      BY <1>1, <1>2, <3>3, <3>4, <3>5
  <2>2. ASSUME NEW what \in {"message", "chat"}, NEW gone \in SUBSET Msgs, DeletedOnPhone(what, gone)
        PROVE  Rest
    <3>1. PICK e \in Deletion : account' = Append(account, e)
      BY <2>2 DEF DeletedOnPhone, Deletion
    <3>2. account' \in Seq(Deletion)
      BY <1>1, <3>1, Added
    <3>3. truth' \in [Msgs -> Stages] /\ \A k \in Msgs : WasSent(k) => truth'[k] # 0
      BY <1>1, <2>2 DEF DeletedOnPhone, WasSent
    <3>4. UNCHANGED <<cast, stream>>
      BY <2>2 DEF DeletedOnPhone
    <3>5. StubInv'
      BY <1>1, <1>3, <3>3, <3>4, StreamStays
    <3>6. QED
      BY <1>1, <1>2, <3>2, <3>3, <3>4, <3>5
  <2>3. CASE SharesHistory
    <3>1. [m \in Msgs |-> Shown(truth[m])] \in History
      BY <1>1 DEF History, Shown, None
    <3>2. PICK e \in Stanza : stream' = Append(stream, e) /\ e.ev = "history"
      BY <2>3, <3>1 DEF SharesHistory, Stanza
    <3>3. UNCHANGED <<truth, cast, account>>
      BY <2>3 DEF SharesHistory
    <3>4. stream' \in Seq(Stanza) /\ StubInv'
      BY <1>1, <1>3, <3>2, <3>3, StreamGrows DEF WasSent
    <3>5. QED
      BY <1>1, <1>2, <3>3, <3>4
  <2>4. ASSUME NEW v \in Voters, Votes(v) PROVE Rest
    <3>1. UNCHANGED <<truth, account>> /\ cast' = [cast EXCEPT ![v] = @ + 1]
      BY <2>4 DEF Votes
    <3>2. cast[v] + 1 \in 0..MaxEvents
      BY <1>1, <1>2, BoundAssumption
    <3>3. PICK e \in Stanza : stream' = Append(stream, e) /\ e.ev = "vote"
      BY <2>4, <3>2 DEF Votes, Stanza
    <3>4. stream' \in Seq(Stanza) /\ StubInv'
      BY <1>1, <1>3, <3>1, <3>3, StreamGrows DEF WasSent
    <3>5. cast' \in [Voters -> 0..MaxEvents] /\ \A w \in Voters : cast'[w] <= events'
      BY <1>1, <1>2, <3>1, <3>2
    <3>6. QED
      BY <1>1, <3>1, <3>4, <3>5
  <2>5. \/ \E m \in Msgs : Sends(m) \/ Edits(m) \/ Revokes(m)
        \/ \E m \in Msgs : DeletedOnPhone("message", {m})
        \/ \E gone \in SUBSET Msgs : DeletedOnPhone("chat", gone)
        \/ SharesHistory
        \/ \E v \in Voters : Votes(v)
    BY DEF AccountActs
  <2>6. QED
    BY <2>1, <2>2, <2>3, <2>4, <2>5
<1>5. Shape'
  BY <1>2, <1>3, <1>4, BoundAssumption DEF Inv, Shape, TypeOK
<1>6. AgreeInv'
  BY <1>3 DEF Inv, AgreeInv
<1>7. QED
  BY <1>4, <1>5, <1>6 DEF Inv

-----------------------------------------------------------------------------
(* What an event does to an entry.  The lemmas below speak of the store      *)
(* before and after, so that each holds for the snapshot as well.            *)

Told(s, l, gone) == \A m \in Msgs \ gone : Agree(s[m], l[m])

(* The stages of what a chunk or a snapshot replaces.                        *)
Overlaid(l, s2, l2) == [m \in Msgs |-> IF s2[m] = None THEN l[m] ELSE l2[m]]

LEMMA HistoryAgrees ==
  ASSUME NEW s \in [Msgs -> Entries], NEW l \in [Msgs -> Stages],
         NEW s2 \in [Msgs -> Entries], NEW l2 \in [Msgs -> Stages],
         NEW gone, Told(s, l, gone), Told(s2, l2, gone)
  PROVE  /\ SetHistory(s, s2) \in [Msgs -> Entries]
         /\ Overlaid(l, s2, l2) \in [Msgs -> Stages]
         /\ Told(SetHistory(s, s2), Overlaid(l, s2, l2), gone)
         /\ \A m \in Msgs : SetHistory(s, s2)[m] = Stub => s[m] = Stub \/ s2[m] = Stub
  BY DEF SetHistory, Overlaid, Told, None, Stub

(* Stage and entry of a history chunk are the same number.                   *)
LEMMA ChunkAgrees ==
  ASSUME NEW has \in History, NEW gone
  PROVE  /\ has \in [Msgs -> Entries] /\ has \in [Msgs -> Stages]
         /\ Told(has, has, gone) /\ \A m \in Msgs : has[m] # Stub
<1>1. \A m \in Msgs : has[m] \in {0, 1, 2}
  BY DEF History
<1>2. has \in [Msgs -> Entries] /\ has \in [Msgs -> Stages]
  BY DEF History, Entries, Stages, None, Stub
<1>3. QED
  BY <1>1, <1>2 DEF Told, Agree, None, Stub

LEMMA EntryAgrees ==
  ASSUME NEW s \in [Msgs -> Entries], NEW l \in [Msgs -> Stages], NEW gone,
         Told(s, l, gone), NEW m \in Msgs, NEW entry \in Entries, NEW stage \in Stages,
         Agree(entry, stage)
  PROVE  /\ [s EXCEPT ![m] = entry] \in [Msgs -> Entries]
         /\ [l EXCEPT ![m] = stage] \in [Msgs -> Stages]
         /\ Told([s EXCEPT ![m] = entry], [l EXCEPT ![m] = stage], gone)
  BY DEF Told

LEMMA AgreeIsTold ==
  AgreeInv <=> Told(store, last, astray) /\ Told(snapshot.store, snapshot.last, astray)
  BY DEF AgreeInv, Told

LEMMA ToldLess ==
  ASSUME NEW s, NEW l, NEW gone, NEW more, gone \subseteq more, Told(s, l, gone)
  PROVE  Told(s, l, more)
  BY DEF Told

(* What a device that did something still has: the types of what did not     *)
(* change come from before, those of what did are the hypotheses.            *)
Outside == UNCHANGED <<truth, cast, events>>
LEMMA DeviceShape ==
  ASSUME Shape, Outside,
         stream' \in Seq(Stanza), account' \in Seq(Deletion), downloads' \subseteq History,
         store' \in [Msgs -> Entries], last' \in [Msgs -> Stages],
         votes' \in [Voters -> 0..MaxEvents], loaded' \in BOOLEAN, faults' \in 0..MaxFaults,
         astray' \subseteq Msgs,
         snapshot' \in [store : [Msgs -> Entries], last : [Msgs -> Stages]]
  PROVE  Shape'
  BY DEF Shape, Outside, TypeOK, Entries, Stages

LEMMA Shaped ==
  ASSUME Shape
  PROVE  /\ stream \in Seq(Stanza) /\ account \in Seq(Deletion) /\ downloads \subseteq History
         /\ store \in [Msgs -> Entries] /\ last \in [Msgs -> Stages]
         /\ votes \in [Voters -> 0..MaxEvents] /\ loaded \in BOOLEAN /\ faults \in 0..MaxFaults
         /\ astray \subseteq Msgs
         /\ snapshot \in [store : [Msgs -> Entries], last : [Msgs -> Stages]]
         /\ snapshot.store \in [Msgs -> Entries] /\ snapshot.last \in [Msgs -> Stages]
  BY DEF Shape, TypeOK, Entries, Stages

(* A stanza that is taken leaves the rest of the stream as it was.           *)
LEMMA StreamTaken ==
  ASSUME Inv, Outside, stream # << >>, stream' = Tail(stream), UNCHANGED snapshot,
         \A m \in Msgs : store'[m] = Stub => WasSent(m)
  PROVE  stream' \in Seq(Stanza) /\ StubInv'
<1>1. stream \in Seq(Stanza) /\ StubInv
  BY Shaped DEF Inv
<1>2. stream' \in Seq(Stanza) /\ \A i \in DOMAIN stream' : i + 1 \in DOMAIN stream /\ stream'[i] = stream[i + 1]
  BY <1>1, Taken
<1>3. ASSUME NEW i \in DOMAIN stream', stream'[i].ev \in {"new", "edit"}
      PROVE  truth'[stream'[i].msg] # 0
  BY <1>1, <1>2, <1>3 DEF StubInv, WasSent, Outside
<1>4. QED
  BY <1>1, <1>2, <1>3 DEF StubInv, WasSent, Outside

(* The shape of a step of the device that leaves the snapshot alone.         *)
LEMMA DeviceStep ==
  ASSUME Inv, Outside, UNCHANGED <<snapshot, loaded>>,
         stream' \in Seq(Stanza), account' \in Seq(Deletion), downloads' \subseteq History,
         faults' \in 0..MaxFaults, astray' \subseteq Msgs, astray \subseteq astray',
         store' \in [Msgs -> Entries], last' \in [Msgs -> Stages], Told(store', last', astray'),
         StubInv', votes' \in [Voters -> 0..MaxEvents]
  PROVE  Inv'
<1>1. Shape'
  BY Shaped, DeviceShape DEF Inv
<1>2. Told(snapshot.store, snapshot.last, astray')
  BY AgreeIsTold, ToldLess DEF Inv
<1>3. AgreeInv'
  BY <1>2 DEF AgreeInv, Told
<1>4. QED
  BY <1>1, <1>3 DEF Inv

LEMMA ReceiveKeeps == Inv /\ Receive => Inv'
<1> SUFFICES ASSUME Inv, Receive PROVE Inv'
  OBVIOUS
<1>1. PICK e : e = Head(stream)
  OBVIOUS
<1>2. /\ Shape /\ StubInv /\ Told(store, last, astray)
      /\ stream # << >> /\ stream' = Tail(stream) /\ stream \in Seq(Stanza)
      /\ Outside /\ UNCHANGED <<account, snapshot, loaded, faults>>
  BY AgreeIsTold, Shaped DEF Inv, Receive, outside, kept, Outside
<1>3. e \in Stanza /\ 1 \in DOMAIN stream /\ stream[1] = e
  BY <1>1, <1>2, Taken
<1>4. e.ev \in {"new", "edit"} => WasSent(e.msg)
  BY <1>2, <1>3 DEF StubInv
<1>5. /\ store \in [Msgs -> Entries] /\ last \in [Msgs -> Stages] /\ astray \subseteq Msgs
      /\ account \in Seq(Deletion) /\ downloads \subseteq History /\ faults \in 0..MaxFaults
      /\ votes \in [Voters -> 0..MaxEvents]
  BY <1>2, Shaped
<1>6. \A m \in Msgs : store[m] = Stub => WasSent(m)
  BY <1>2 DEF StubInv
<1> DEFINE Fine ==
      /\ downloads' \subseteq History /\ astray' \subseteq Msgs /\ astray \subseteq astray'
      /\ store' \in [Msgs -> Entries] /\ last' \in [Msgs -> Stages] /\ Told(store', last', astray')
      /\ \A m \in Msgs : store'[m] = Stub => WasSent(m)
      /\ votes' \in [Voters -> 0..MaxEvents]
<1>7. ASSUME DeliverNew(e) PROVE Fine
  <2>1. e.msg \in Msgs
    BY <1>3, <1>7 DEF DeliverNew, Stanza
  <2>2. 1 \in Entries /\ 1 \in Stages /\ Agree(1, 1) /\ 1 # Stub
    BY DEF Entries, Stages, Agree, Stub
  <2>3. /\ store' = [store EXCEPT ![e.msg] = 1] /\ last' = [last EXCEPT ![e.msg] = 1]
        /\ UNCHANGED <<downloads, votes, astray>>
    BY <1>7 DEF DeliverNew, SetMessage, Hear
  <2>4. store' \in [Msgs -> Entries] /\ last' \in [Msgs -> Stages] /\ Told(store', last', astray)
    BY <1>2, <1>5, <2>1, <2>2, <2>3, EntryAgrees
  <2>5. \A m \in Msgs : store'[m] = Stub => WasSent(m)
    BY <1>5, <1>6, <2>1, <2>2, <2>3
  <2>6. QED
    BY <1>2, <1>5, <2>3, <2>4, <2>5
<1>8. ASSUME DeliverEdit(e) PROVE Fine
  <2>1. e.msg \in Msgs
    BY <1>3, <1>8 DEF DeliverEdit, Stanza
  <2>2. 2 \in Entries /\ 2 \in Stages /\ Agree(2, 2) /\ 2 # Stub
    BY DEF Entries, Stages, Agree, Stub
  <2>3. UNCHANGED <<downloads, votes>>
    BY <1>8 DEF DeliverEdit
  <2>4. CASE store[e.msg] = None
    <3>1. UNCHANGED <<store, last>> /\ (astray' = astray \/ astray' = astray \union {e.msg})
      BY <1>8, <2>4 DEF DeliverEdit, UpdateMessage
    <3>2. Told(store', last', astray')
      BY <1>2, <3>1, ToldLess
    <3>3. QED
      BY <1>2, <1>5, <1>6, <2>1, <2>3, <3>1, <3>2
  <2>5. CASE store[e.msg] # None /\ KeyFits(e.msg)
    <3>1. store' = [store EXCEPT ![e.msg] = 2] /\ last' = [last EXCEPT ![e.msg] = 2] /\ astray' = astray
      BY <1>8, <2>5 DEF DeliverEdit, UpdateMessage, Hear
    <3>2. store' \in [Msgs -> Entries] /\ last' \in [Msgs -> Stages] /\ Told(store', last', astray)
      BY <1>2, <1>5, <2>1, <2>2, <3>1, EntryAgrees
    <3>3. \A m \in Msgs : store'[m] = Stub => WasSent(m)
      BY <1>5, <1>6, <2>1, <2>2, <3>1
    <3>4. QED
      BY <1>2, <1>5, <2>3, <3>1, <3>2, <3>3
  <2>6. CASE store[e.msg] # None /\ ~KeyFits(e.msg)
    <3>1. store' = store /\ last' = [last EXCEPT ![e.msg] = 2] /\ astray' = astray \union {e.msg}
      BY <1>8, <2>6 DEF DeliverEdit, Hear
    <3>2. Told(store', last', astray')
      BY <1>2, <1>5, <3>1 DEF Told
    <3>3. QED
      BY <1>2, <1>5, <1>6, <2>1, <2>2, <2>3, <3>1, <3>2
  <2>7. QED
    BY <2>4, <2>5, <2>6
<1>9. ASSUME DeliverRevoke(e) PROVE Fine
  <2>1. e.msg \in Msgs
    BY <1>3, <1>9 DEF DeliverRevoke, Stanza
  <2>2. None \in Entries /\ 3 \in Stages /\ Agree(None, 3) /\ None # Stub
    BY DEF Entries, Stages, Agree, Stub, None
  <2>3. UNCHANGED <<downloads, votes>> /\ last' = [last EXCEPT ![e.msg] = 3]
    BY <1>9 DEF DeliverRevoke, Hear
  <2>4. CASE KeyFits(e.msg)
    <3>1. store' = [store EXCEPT ![e.msg] = None] /\ astray' = astray
      BY <1>5, <1>9, <2>4 DEF DeliverRevoke, DeleteMessages
    <3>2. store' \in [Msgs -> Entries] /\ last' \in [Msgs -> Stages] /\ Told(store', last', astray)
      BY <1>2, <1>5, <2>1, <2>2, <2>3, <3>1, EntryAgrees
    <3>3. \A m \in Msgs : store'[m] = Stub => WasSent(m)
      BY <1>5, <1>6, <2>1, <2>2, <3>1
    <3>4. QED
      BY <1>2, <1>5, <2>3, <3>1, <3>2, <3>3
  <2>5. CASE ~KeyFits(e.msg)
    <3>1. store' = store /\ astray' = astray \union {e.msg}
      BY <1>9, <2>5 DEF DeliverRevoke
    <3>2. Told(store', last', astray')
      BY <1>2, <1>5, <2>3, <3>1 DEF Told
    <3>3. QED
      BY <1>2, <1>5, <1>6, <2>1, <2>2, <2>3, <3>1, <3>2
  <2>6. QED
    BY <2>4, <2>5
<1>10. ASSUME DeliverHistory(e) PROVE Fine
  <2>1. e.has \in History
    BY <1>3, <1>10 DEF DeliverHistory, Stanza
  <2>2. downloads' = downloads \union {e.has} /\ UNCHANGED <<store, votes, last, astray>>
    BY <1>10 DEF DeliverHistory
  <2>3. QED
    BY <1>2, <1>5, <1>6, <2>1, <2>2
<1>11. ASSUME DeliverVote(e) PROVE Fine
  <2>1. e.voter \in Voters /\ e.n \in 0..MaxEvents
    BY <1>3, <1>11 DEF DeliverVote, Stanza
  <2>2. /\ votes' = [votes EXCEPT ![e.voter] = e.n]
        /\ UNCHANGED <<downloads, store, last, astray>>
    BY <1>11 DEF DeliverVote, SetVote
  <2>3. QED
    BY <1>2, <1>5, <1>6, <2>1, <2>2
<1>12. Fine
  BY <1>1, <1>7, <1>8, <1>9, <1>10, <1>11 DEF Receive
<1>13. stream' \in Seq(Stanza) /\ StubInv'
  BY <1>2, <1>12, StreamTaken
<1>14. QED
  BY <1>2, <1>5, <1>12, <1>13, DeviceStep

LEMMA Begun ==
  ASSUME Inv
  PROVE  /\ Shape /\ StubInv
         /\ Told(store, last, astray) /\ Told(snapshot.store, snapshot.last, astray)
         /\ \A m \in Msgs : store[m] = Stub \/ snapshot.store[m] = Stub => WasSent(m)
         /\ faults \in 0..MaxFaults /\ MaxFaults \in Nat
  BY AgreeIsTold, Shaped, BoundAssumption DEF Inv, StubInv

(* An entry that cannot be read is that of a stanza, hence of a message sent. *)
LEMMA UndecryptableKeeps == Inv /\ ReceiveUndecryptable => Inv'
<1> SUFFICES ASSUME Inv, ReceiveUndecryptable PROVE Inv'
  OBVIOUS
<1>1. PICK e : e = Head(stream)
  OBVIOUS
<1>2. /\ stream # << >> /\ stream' = Append(Tail(stream), e) /\ faults' = faults + 1 /\ faults < MaxFaults
      /\ Outside /\ UNCHANGED <<account, downloads, votes, snapshot, loaded, astray>>
  BY <1>1 DEF ReceiveUndecryptable, outside, Outside
<1>3. /\ stream \in Seq(Stanza) /\ Tail(stream) \in Seq(Stanza) /\ e \in Stanza
      /\ 1 \in DOMAIN stream /\ stream[1] = e
      /\ \A i \in DOMAIN Tail(stream) : i + 1 \in DOMAIN stream /\ Tail(stream)[i] = stream[i + 1]
  BY <1>1, <1>2, Begun, Shaped, Taken
<1>4. stream' \in Seq(Stanza)
  BY <1>2, <1>3, Added
<1>5. /\ store' \in [Msgs -> Entries] /\ last' \in [Msgs -> Stages] /\ Told(store', last', astray)
      /\ \A m \in Msgs : store'[m] = Stub => WasSent(m)
  <2>1. CASE e.ev \in {"new", "edit"}
    <3>1. e.msg \in Msgs /\ WasSent(e.msg)
      BY <1>3, <2>1, Begun DEF Stanza, StubInv
    <3>2. Stub \in Entries /\ None \in Stages /\ Agree(Stub, None)
      BY DEF Entries, Stages, Agree, None
    <3>3. store' = [store EXCEPT ![e.msg] = Stub] /\ last' = [last EXCEPT ![e.msg] = None]
      BY <1>1, <2>1 DEF ReceiveUndecryptable, SetMessage, Hear
    <3>4. store' \in [Msgs -> Entries] /\ last' \in [Msgs -> Stages] /\ Told(store', last', astray)
      BY <3>1, <3>2, <3>3, Begun, Shaped, EntryAgrees
    <3>5. \A m \in Msgs : store'[m] = Stub => WasSent(m)
      BY <3>1, <3>3, Begun, Shaped
    <3>6. QED
      BY <3>4, <3>5
  <2>2. CASE e.ev \notin {"new", "edit"}
    <3>1. UNCHANGED <<store, last>>
      BY <1>1, <2>2 DEF ReceiveUndecryptable
    <3>2. QED
      BY <3>1, Begun, Shaped
  <2>3. QED
    BY <2>1, <2>2
<1>6. ASSUME NEW i \in DOMAIN stream', stream'[i].ev \in {"new", "edit"}
      PROVE  WasSent(stream'[i].msg)
  <2>1. PICK k \in DOMAIN stream : stream'[i] = stream[k]
    BY <1>2, <1>3, Added
  <2>2. QED
    BY <1>6, <2>1, Begun DEF StubInv
<1>7. StubInv'
  BY <1>2, <1>5, <1>6, Begun DEF StubInv, WasSent, Outside
<1>8. faults' \in 0..MaxFaults
  BY <1>2, Begun
<1>9. QED
  BY <1>2, <1>4, <1>5, <1>7, <1>8, Begun, Shaped, DeviceStep

(* The stream is not read by the other actions of the device.                *)
LEMMA StreamRests ==
  ASSUME Inv, Outside, UNCHANGED stream,
         \A m \in Msgs : store'[m] = Stub \/ snapshot'.store[m] = Stub => WasSent(m)
  PROVE  StubInv' /\ stream' \in Seq(Stanza)
  BY Begun, Shaped DEF StubInv, WasSent, Outside

LEMMA DeletionKeeps == Inv /\ ReceiveDeletion => Inv'
<1> SUFFICES ASSUME Inv, ReceiveDeletion PROVE Inv'
  OBVIOUS
<1>1. PICK e : e = Head(account)
  OBVIOUS
<1>2. account \in Seq(Deletion) /\ account # << >> /\ account' = Tail(account)
  BY Begun, Shaped DEF ReceiveDeletion
<1>3. account' \in Seq(Deletion) /\ e \in Deletion
  BY <1>1, <1>2, Taken
<1>4. /\ Outside /\ UNCHANGED <<stream, downloads, votes, snapshot, loaded, faults, astray>>
  BY DEF ReceiveDeletion, outside, kept, Outside
<1>5. PICK swept : swept = IF e.ev = "chat" THEN {m \in Msgs : store[m] # None} \ e.gone ELSE {}
  OBVIOUS
<1>6. PICK shed : shed = IF e.ev = "chat" THEN Msgs ELSE e.gone
  OBVIOUS
<1>7. /\ store' = [m \in Msgs |-> IF m \in shed THEN None ELSE store[m]]
      /\ last' = [m \in Msgs |-> IF m \in e.gone THEN 3 ELSE IF m \in swept THEN None ELSE last[m]]
  BY <1>1, <1>5, <1>6 DEF ReceiveDeletion, DeleteMessages
<1>8. /\ store \in [Msgs -> Entries] /\ last \in [Msgs -> Stages] /\ Told(store, last, astray)
  BY Begun, Shaped
<1>9. None \in Entries /\ 3 \in Stages /\ None \in Stages /\ Agree(None, 3) /\ Agree(None, None) /\ None # Stub
  BY DEF Entries, Stages, Agree, Stub, None
<1>10. store' \in [Msgs -> Entries] /\ last' \in [Msgs -> Stages]
  BY <1>7, <1>8, <1>9
<1>11. ASSUME NEW m \in Msgs \ astray PROVE Agree(store'[m], last'[m])
  <2>1. CASE m \in e.gone
    BY <1>6, <1>7, <1>9, <2>1
  <2>2. CASE m \notin e.gone /\ e.ev = "chat" /\ store[m] # None
    BY <1>5, <1>6, <1>7, <1>9, <2>2
  <2>3. CASE m \notin e.gone /\ (e.ev # "chat" \/ store[m] = None)
    BY <1>5, <1>6, <1>7, <1>8, <2>3 DEF Told
  <2>4. QED
    BY <2>1, <2>2, <2>3
<1>12. Told(store', last', astray)
  BY <1>11 DEF Told
<1>13. StubInv' /\ stream' \in Seq(Stanza)
  BY <1>4, <1>7, <1>9, Begun, StreamRests
<1>14. QED
  BY <1>3, <1>4, <1>10, <1>12, <1>13, Begun, Shaped, DeviceStep

LEMMA HistoryLandsKeeps == Inv /\ HistoryLands => Inv'
<1> SUFFICES ASSUME Inv, HistoryLands PROVE Inv'
  OBVIOUS
<1>1. PICK has \in downloads :
        /\ downloads' = downloads \ {has}
        /\ store' = SetHistory(store, has)
        /\ last' = [m \in Msgs |-> IF has[m] = None THEN last[m] ELSE has[m]]
        /\ UNCHANGED <<outside, stream, account, votes, kept, astray>>
  BY DEF HistoryLands
<1>2. Outside /\ UNCHANGED <<stream, account, votes, snapshot, loaded, faults, astray>>
  BY <1>1 DEF outside, kept, Outside
<1>3. has \in History /\ downloads' \subseteq History
  BY <1>1, Begun, Shaped
<1>4. /\ has \in [Msgs -> Entries] /\ has \in [Msgs -> Stages] /\ Told(has, has, astray)
      /\ \A m \in Msgs : has[m] # Stub
  BY <1>3, ChunkAgrees
<1>5. /\ store' \in [Msgs -> Entries] /\ last' \in [Msgs -> Stages] /\ Told(store', last', astray)
      /\ \A m \in Msgs : store'[m] = Stub => store[m] = Stub \/ has[m] = Stub
  <2>1. store \in [Msgs -> Entries] /\ last \in [Msgs -> Stages] /\ Told(store, last, astray)
    BY Begun, Shaped
  <2>2. /\ SetHistory(store, has) \in [Msgs -> Entries] /\ Overlaid(last, has, has) \in [Msgs -> Stages]
        /\ Told(SetHistory(store, has), Overlaid(last, has, has), astray)
        /\ \A m \in Msgs : SetHistory(store, has)[m] = Stub => store[m] = Stub \/ has[m] = Stub
    <3>1. has \in [Msgs -> Entries] /\ has \in [Msgs -> Stages] /\ Told(has, has, astray)
      BY <1>4
    <3>2. QED
      BY <2>1, <3>1, HistoryAgrees
  <2>3. QED
    BY <1>1, <2>2 DEF Overlaid
<1>6. StubInv' /\ stream' \in Seq(Stanza)
  BY <1>2, <1>4, <1>5, Begun, StreamRests
<1>7. QED
  BY <1>2, <1>3, <1>5, <1>6, Begun, Shaped, DeviceStep

LEMMA HistoryFailsKeeps == Inv /\ HistoryFails => Inv'
<1> SUFFICES ASSUME Inv, HistoryFails PROVE Inv'
  OBVIOUS
<1>1. /\ Outside /\ faults < MaxFaults /\ faults' = faults + 1 /\ downloads' \subseteq downloads
      /\ UNCHANGED <<stream, account, store, votes, snapshot, loaded, last, astray>>
  BY DEF HistoryFails, outside, Outside
<1>2. StubInv' /\ stream' \in Seq(Stanza)
  BY <1>1, Begun, StreamRests
<1>3. faults' \in 0..MaxFaults
  BY <1>1, Begun
<1>4. downloads' \subseteq History
  BY <1>1, Begun, Shaped
<1>5. QED
  BY <1>1, <1>2, <1>3, <1>4, Begun, Shaped, DeviceStep

-----------------------------------------------------------------------------
(* The application.                                                          *)

LEMMA ToJSONKeeps == Inv /\ ToJSON => Inv'
<1> SUFFICES ASSUME Inv, ToJSON PROVE Inv'
  OBVIOUS
<1>1. /\ Outside /\ snapshot' = [store |-> store, last |-> last]
      /\ UNCHANGED <<stream, account, downloads, store, votes, loaded, faults, last, astray>>
  BY DEF ToJSON, outside, Outside
<1>2. snapshot' \in [store : [Msgs -> Entries], last : [Msgs -> Stages]]
  BY <1>1, Begun, Shaped
<1>3. Shape'
  BY <1>1, <1>2, Begun, Shaped, DeviceShape
<1>4. AgreeInv'
  BY <1>1, Begun DEF AgreeInv, Told
<1>5. StubInv'
  BY <1>1, Begun, StreamRests
<1>6. QED
  BY <1>1, <1>3, <1>4, <1>5, Begun DEF Inv

LEMMA RestartKeeps == Inv /\ Restart => Inv'
<1> SUFFICES ASSUME Inv, Restart PROVE Inv'
  OBVIOUS
<1>1. /\ Outside /\ faults < MaxFaults /\ faults' = faults + 1 /\ loaded' = FALSE
      /\ store' = [m \in Msgs |-> None] /\ last' = [m \in Msgs |-> None]
      /\ votes' = [v \in Voters |-> 0] /\ downloads' = {}
      /\ UNCHANGED <<stream, account, snapshot, astray>>
  BY DEF Restart, outside, Outside
<1>2. None \in Entries /\ None \in Stages /\ Agree(None, None) /\ None # Stub
  BY DEF Entries, Stages, Agree, Stub, None
<1>3. faults' \in 0..MaxFaults
  BY <1>1, Begun
<1>4. votes' \in [Voters -> 0..MaxEvents]
  BY <1>1, BoundAssumption
<1>5. StubInv' /\ stream' \in Seq(Stanza)
  BY <1>1, <1>2, Begun, StreamRests
<1>6. Shape'
  <2>1. store' \in [Msgs -> Entries] /\ last' \in [Msgs -> Stages] /\ downloads' \subseteq History
    BY <1>1, <1>2
  <2>2. QED
    BY <1>1, <1>3, <1>4, <1>5, <2>1, Begun, Shaped, DeviceShape
<1>7. AgreeInv'
  BY <1>1, <1>2, Begun DEF AgreeInv, Told
<1>8. QED
  BY <1>1, <1>5, <1>6, <1>7 DEF Inv

LEMMA FromJSONKeeps == Inv /\ FromJSON => Inv'
<1> SUFFICES ASSUME Inv, FromJSON PROVE Inv'
  OBVIOUS
<1> DEFINE seen == Overlaid(last, snapshot.store, snapshot.last)
<1>1. /\ Outside /\ loaded' = TRUE
      /\ store' = SetHistory(store, snapshot.store) /\ last' = seen
      /\ UNCHANGED <<stream, account, downloads, votes, snapshot, faults, astray>>
  BY DEF FromJSON, outside, Outside, Overlaid
<1>2. /\ SetHistory(store, snapshot.store) \in [Msgs -> Entries] /\ seen \in [Msgs -> Stages]
      /\ Told(SetHistory(store, snapshot.store), seen, astray)
      /\ \A m \in Msgs :
            SetHistory(store, snapshot.store)[m] = Stub => store[m] = Stub \/ snapshot.store[m] = Stub
  BY Begun, Shaped, HistoryAgrees
<1> HIDE DEF seen
<1>3. StubInv' /\ stream' \in Seq(Stanza)
  BY <1>1, <1>2, Begun, StreamRests
<1>4. Shape'
  BY <1>1, <1>2, <1>3, Begun, Shaped, DeviceShape
<1>5. AgreeInv'
  BY <1>1, <1>2, Begun DEF AgreeInv, Told
<1>6. QED
  BY <1>1, <1>3, <1>4, <1>5, Begun DEF Inv

-----------------------------------------------------------------------------

LEMMA Inductive == Inv /\ [Next]_vars => Inv'
<1>1. Inv /\ UNCHANGED vars => Inv'
  <2> SUFFICES ASSUME Inv, UNCHANGED vars PROVE Inv'
    OBVIOUS
  <2> USE DEF vars
  <2>1. TypeOK'
    BY DEF Inv, Shape, TypeOK
  <2>2. QED
    BY <2>1 DEF Inv, Shape, AgreeInv, StubInv, WasSent
<1>2. QED
  BY <1>1, AccountKeeps, HistoryLandsKeeps, HistoryFailsKeeps, ReceiveKeeps, UndecryptableKeeps,
     DeletionKeeps, ToJSONKeeps, RestartKeeps, FromJSONKeeps DEF Next

LEMMA Invariance == Spec => []Inv
  BY InitInv, Inductive, PTL DEF Spec

LEMMA InvFollows == Inv => TypeOK /\ StoreFollows
<1> SUFFICES ASSUME Inv PROVE TypeOK /\ StoreFollows
  OBVIOUS
<1>1. ASSUME NEW m \in Msgs \ astray, InOrder(m) PROVE store[m] = Shown(truth[m])
  <2>1. Agree(store[m], truth[m]) /\ (store[m] = Stub => truth[m] # 0)
    BY <1>1 DEF Inv, AgreeInv, StubInv, InOrder, WasSent
  <2>2. QED
    BY <2>1 DEF Agree, Shown, None, Stub
<1>2. QED
  BY <1>1 DEF Inv, Shape, StoreFollows

-----------------------------------------------------------------------------

(* Entries, stages and votes stay what the store and the account can hold,   *)
(* for any number of events.                                                 *)
THEOREM TypeCorrect == Spec => []TypeOK
  BY Invariance, InvFollows, PTL

(* Once everything arrived, the store (store/index.ts bind) shows a message   *)
(* as it now is for the account if the last event about it was the newest,   *)
(* whatever resends, chunks of history, deletions, restarts and snapshots     *)
(* came before; an edit or a revoke by the peer excepted, which names          *)
(* another chat (messages.ts deliver).                                       *)
THEOREM StoreFollowsHolds == Spec => []StoreFollows
  BY Invariance, InvFollows, PTL
=============================================================================
