----------------------------- MODULE ChatStore -----------------------------
(* The in-memory store (store/index.ts) of one conversation with a peer, and *)
(* the lanes that feed it: the stream of message stanzas (messages.ts        *)
(* deliver), the deletions of the app state (appstate/layer.ts), the history *)
(* the phone shares (client.ts ingestHistorySync, history/index.ts), and the *)
(* snapshot an application keeps.  What is the case of a message is a stage: *)
(* 0 not sent, 1 as sent, 2 edited, 3 gone, and every event carries one.     *)
EXTENDS Integers, Sequences, FiniteSets

CONSTANTS
    Msgs,         \* messages of the conversation
    FromPeer,     \* those the peer wrote; the others come from our phone
    Old,          \* those sent before this device was linked
    Voters,       \* devices that vote in a poll
    MaxEvents,    \* bound: things done to the conversation by either side
    MaxFaults     \* bound: undecryptable stanzas, failed downloads and restarts

ASSUME ChatStoreAssumption == FromPeer \subseteq Msgs /\ Old \subseteq Msgs
ASSUME BoundAssumption == MaxEvents \in Nat /\ MaxFaults \in Nat

VARIABLES
    truth,        \* external: the stage of each message for the account
    cast,         \* external: votes cast by each voter
    stream,       \* the stanzas not received yet
    account,      \* deletions of the app state not received yet
    downloads,    \* history chunks being downloaded
    store,        \* messages: the bucket of the conversation
    votes,        \* pollVotes of the poll
    snapshot,     \* what toJSON() returned last, and the history with it
    loaded,       \* fromJSON() was called by this process
    events, faults,
    last,         \* history: stage of the last event received about a message, if known
    astray        \* history: messages changed under a key of another chat

vars == <<truth, cast, stream, account, downloads, store, votes, snapshot, loaded, events, faults,
          last, astray>>

outside == <<truth, cast, events>>
device == <<downloads, store, votes, snapshot, loaded, faults, last, astray>>
kept == <<snapshot, loaded, faults>>

None == 0
Stub == -1        \* an entry whose `message` is undefined
Shown(stage) == IF stage = 3 THEN None ELSE stage

----------------------------------------------------------------------------
(* The account: the peer, our phone, and the server between them. *)

\* sendMessage() of the author.
Sends(m) ==
    /\ truth[m] = 0
    /\ truth' = [truth EXCEPT ![m] = 1]
    /\ stream' = Append(stream, [ev |-> "new", msg |-> m])
    /\ UNCHANGED <<cast, account>>

\* editMessage() and deleteMessage() of the author.
Edits(m) ==
    /\ truth[m] = 1
    /\ truth' = [truth EXCEPT ![m] = 2]
    /\ stream' = Append(stream, [ev |-> "edit", msg |-> m])
    /\ UNCHANGED <<cast, account>>

Revokes(m) ==
    /\ truth[m] \in {1, 2}
    /\ truth' = [truth EXCEPT ![m] = 3]
    /\ stream' = Append(stream, [ev |-> "revoke", msg |-> m])
    /\ UNCHANGED <<cast, account>>

\* "Delete for me" on the phone, of a message or of the whole conversation.
DeletedOnPhone(what, gone) ==
    /\ gone # {}
    /\ account' = Append(account, [ev |-> what, gone |-> gone])
    /\ truth' = [m \in Msgs |-> IF m \in gone THEN 3 ELSE truth[m]]
    /\ UNCHANGED <<cast, stream>>

\* The phone shares what it has: a historySyncNotification points at the chunk.
SharesHistory ==
    /\ stream' = Append(stream, [ev |-> "history", has |-> [m \in Msgs |-> Shown(truth[m])]])
    /\ UNCHANGED <<truth, cast, account>>

Votes(v) ==
    /\ cast' = [cast EXCEPT ![v] = @ + 1]
    /\ stream' = Append(stream, [ev |-> "vote", voter |-> v, n |-> cast[v] + 1])
    /\ UNCHANGED <<truth, account>>

AccountActs ==
    LET there == {m \in Msgs : truth[m] \in {1, 2}}
    IN  /\ events < MaxEvents
        /\ events' = events + 1
        /\ \/ \E m \in Msgs : Sends(m) \/ Edits(m) \/ Revokes(m)
           \/ \E m \in there : DeletedOnPhone("message", {m})
           \/ DeletedOnPhone("chat", there)
           \/ SharesHistory
           \/ \E v \in Voters : Votes(v)
        /\ UNCHANGED device

----------------------------------------------------------------------------
(* What the events do to the store. *)

\* messages.upsert, and messaging-history.set: the entry is replaced.
SetMessage(s, m, what) == [s EXCEPT ![m] = what]

\* Mutant: an entry is made for a message that is not there.
UpdateMakes(s, m, what) == [s EXCEPT ![m] = what]

\* messages.update: only an entry that is there changes.
UpdateMessage(s, m, what) == IF s[m] = None THEN s ELSE [s EXCEPT ![m] = what]

\* messages.delete and chats.delete.
DeleteMessages(s, gone) == [m \in Msgs |-> IF m \in gone THEN None ELSE s[m]]

\* poll.update: the vote is kept whatever its timestamp.
SetVote(vs, v, n) == [vs EXCEPT ![v] = n]

\* The chat of the key inside an edit or a revoke is what its author calls the
\* conversation: for the peer that is our own jid, in which nothing is stored.
KeyFits(m) == m \notin FromPeer

----------------------------------------------------------------------------
(* Receiving. *)

Hear(m, stage) == last' = [last EXCEPT ![m] = stage]

\* deliver() of a message: messages.upsert.
DeliverNew(e) ==
    /\ e.ev = "new"
    /\ store' = SetMessage(store, e.msg, 1)
    /\ Hear(e.msg, 1)
    /\ UNCHANGED <<downloads, votes, astray>>

\* deliver() of a MESSAGE_EDIT.  What is not there is not changed.
DeliverEdit(e) ==
    /\ e.ev = "edit"
    /\ IF KeyFits(e.msg)
       THEN store' = UpdateMessage(store, e.msg, 2) /\ astray' = astray
       ELSE store' = store /\ astray' = astray \union {e.msg}
    /\ IF store[e.msg] = None THEN UNCHANGED last ELSE Hear(e.msg, 2)
    /\ UNCHANGED <<downloads, votes>>

\* deliver() of a REVOKE.
DeliverRevoke(e) ==
    /\ e.ev = "revoke"
    /\ IF KeyFits(e.msg)
       THEN store' = DeleteMessages(store, {e.msg}) /\ astray' = astray
       ELSE store' = store /\ astray' = astray \union {e.msg}
    /\ Hear(e.msg, 3)
    /\ UNCHANGED <<downloads, votes>>

\* The listener of client.ts starts a download and does not wait for it.
DeliverHistory(e) ==
    /\ e.ev = "history"
    /\ downloads' = downloads \union {e.has}
    /\ UNCHANGED <<store, votes, last, astray>>

DeliverVote(e) ==
    /\ e.ev = "vote"
    /\ votes' = SetVote(votes, e.voter, e.n)
    /\ UNCHANGED <<downloads, store, last, astray>>

Receive ==
    /\ stream # << >>
    /\ LET e == Head(stream)
       IN  \/ DeliverNew(e)
           \/ DeliverEdit(e)
           \/ DeliverRevoke(e)
           \/ DeliverHistory(e)
           \/ DeliverVote(e)
    /\ stream' = Tail(stream)
    /\ UNCHANGED <<outside, account, kept>>

\* A stanza that does not decrypt: an empty entry under its id, which is that of
\* the message for an edit too, and a retry receipt, on which it is sent again.
\* (The entry of a revoke, a vote or a history notice has an id of its own.)
ReceiveUndecryptable ==
    /\ stream # << >> /\ faults < MaxFaults
    /\ faults' = faults + 1
    /\ LET e == Head(stream)
       IN  /\ stream' = Append(Tail(stream), e)
           /\ IF e.ev \in {"new", "edit"}
              THEN store' = SetMessage(store, e.msg, Stub) /\ Hear(e.msg, None)
              ELSE UNCHANGED <<store, last>>
    /\ UNCHANGED <<outside, account, downloads, votes, snapshot, loaded, astray>>

\* processSyncAction: deleteMessageForMe names the message, deleteChat the chat,
\* with which everything stored of it goes.
ReceiveDeletion ==
    /\ account # << >>
    /\ account' = Tail(account)
    /\ LET e == Head(account)
           swept == IF e.ev = "chat" THEN {m \in Msgs : store[m] # None} \ e.gone ELSE {}
       IN  /\ store' = DeleteMessages(store, IF e.ev = "chat" THEN Msgs ELSE e.gone)
           /\ last' = [m \in Msgs |-> IF m \in e.gone THEN 3 ELSE IF m \in swept THEN None ELSE last[m]]
    /\ UNCHANGED <<outside, stream, downloads, votes, kept, astray>>

\* messaging-history.set: the messages of the chunk replace those of the store.
SetHistory(s, has) == [m \in Msgs |-> IF has[m] = None THEN s[m] ELSE has[m]]

\* ingestHistorySync after its await, in whatever order the downloads end.
HistoryLands ==
    \E has \in downloads :
        /\ downloads' = downloads \ {has}
        /\ store' = SetHistory(store, has)
        /\ last' = [m \in Msgs |-> IF has[m] = None THEN last[m] ELSE has[m]]
        /\ UNCHANGED <<outside, stream, account, votes, kept, astray>>

\* The download or the inflate fails: an error in the log.
HistoryFails ==
    /\ faults < MaxFaults
    /\ faults' = faults + 1
    /\ \E has \in downloads : downloads' = downloads \ {has}
    /\ UNCHANGED <<outside, stream, account, store, votes, snapshot, loaded, last,
                   astray>>

----------------------------------------------------------------------------
(* The application and its process. *)

ToJSON ==
    /\ loaded
    /\ snapshot' = [store |-> store, last |-> last]
    /\ UNCHANGED <<outside, stream, account, downloads, store, votes, loaded, faults, last, astray>>

\* Everything in memory goes; pollVotes are not part of the snapshot.
Restart ==
    /\ faults < MaxFaults
    /\ faults' = faults + 1
    /\ loaded' = FALSE
    /\ store' = [m \in Msgs |-> None]
    /\ last' = [m \in Msgs |-> None]
    /\ votes' = [v \in Voters |-> 0]
    /\ downloads' = {}
    /\ UNCHANGED <<outside, stream, account, snapshot, astray>>

\* fromJSON(), maybe after bind() and the first events: it merges.
FromJSON ==
    /\ ~loaded
    /\ loaded' = TRUE
    /\ store' = SetHistory(store, snapshot.store)
    /\ last' = [m \in Msgs |-> IF snapshot.store[m] = None THEN last[m] ELSE snapshot.last[m]]
    /\ UNCHANGED <<outside, stream, account, downloads, votes, snapshot, faults,
                   astray>>

----------------------------------------------------------------------------

Init ==
    /\ truth = [m \in Msgs |-> IF m \in Old THEN 1 ELSE 0]
    /\ cast = [v \in Voters |-> 0]
    /\ stream = << >> /\ account = << >> /\ downloads = {}
    /\ store = [m \in Msgs |-> None]
    /\ votes = [v \in Voters |-> 0]
    /\ snapshot = [store |-> store, last |-> store]
    /\ loaded = TRUE /\ events = 0 /\ faults = 0
    /\ last = [m \in Msgs |-> None]
    /\ astray = {}

Next ==
    \/ AccountActs
    \/ HistoryLands \/ HistoryFails
    \/ Receive \/ ReceiveUndecryptable \/ ReceiveDeletion
    \/ ToJSON \/ Restart \/ FromJSON

Spec == Init /\ [][Next]_vars

----------------------------------------------------------------------------

TypeOK ==
    /\ truth \in [Msgs -> 0..3] /\ last \in [Msgs -> 0..3]
    /\ store \in [Msgs -> {Stub, None, 1, 2}]
    /\ votes \in [Voters -> 0..MaxEvents] /\ cast \in [Voters -> 0..MaxEvents]
    /\ loaded \in BOOLEAN /\ events \in 0..MaxEvents /\ faults \in 0..MaxFaults
    /\ astray \subseteq Msgs

\* Everything sent was received, and nothing is being downloaded.
Drained == stream = << >> /\ account = << >> /\ downloads = {} /\ loaded

\* The last event about the message was the newest, so nothing came out of order
\* and nothing was forgotten by a restart after the last snapshot.
InOrder(m) == last[m] = truth[m]

\* The store shows every message as it now is for the account (makeInMemoryStore
\* bound to the events), whatever mix of live stanzas, resends, history chunks,
\* deletions on the phone and snapshots brought it there.  Not covered are the
\* messages whose last event was not the newest, and changes by the peer, whose
\* key names another chat.
StoreFollows ==
    Drained => \A m \in Msgs \ astray : InOrder(m) => store[m] = Shown(truth[m])

\* "Delete for everyone": a revoke that was the last word on a message removes it
\* (deleteMessage of one side, messages.delete on the other).
RevokeReaches == Drained => \A m \in Msgs : truth[m] = 3 /\ InOrder(m) => store[m] = None
============================================================================
