------------------------------ MODULE PreKeys ------------------------------
(* The one-time pre-keys of a device: generateOrGetPreKeys and              *)
(* buildPreKeyUploadNode (signal/prekeys.ts), the top-up and the retry key  *)
(* of messages.ts, and the server and peers that hold the public halves.    *)
(*                                                                          *)
(* A key is <<id, gen>>: a key generated again under an id is another key.  *)
(* Uploads, retry keys and decryptions run in the `serial` chain, so one    *)
(* job at a time; counting the server's stock runs outside it.              *)
EXTENDS Integers, FiniteSets

CONSTANTS
    Batch,        \* PREKEY_UPLOAD_COUNT
    Low,          \* PREKEY_LOW_WATERMARK
    MaxId,        \* bound: highest pre-key id
    MaxGen,       \* bound: keys generated under one id
    MaxPeers      \* bound: peers that hold a fetched key, and that hold a retry key

ASSUME BatchAssumption == Batch \in Nat \ {0}
ASSUME LowAssumption == Low \in Nat
ASSUME BoundAssumption == MaxId \in Nat /\ MaxGen \in Nat /\ MaxPeers \in Nat

VARIABLES
    next, first,  \* creds.nextPreKeyId and creds.firstUnuploadedPreKeyId
    saved,        \* the same two as saveCreds() last wrote them
    store,        \* the generation of the private key kept under each id, 0: none
    made,         \* how many keys were ever generated under each id
    job,          \* how far the current job of the serial chain is
    offer,        \* the public keys that job sends
    topUp,        \* onEncryptNotification: "idle", "asking", "queued" or "running"
    recent,       \* an upload was sent less than the minimum interval ago
    link,         \* the connection is open
    wire,         \* uploads on their way to the server
    server,       \* the keys the server gives out
    fetched,      \* keys peers took from the server and have not used yet
    retry,        \* keys sent in retry receipts and not used yet
    blind,        \* history: an upload was decided without knowing the count
    unsaved,      \* history: saveCreds() rejected after an upload, and did not succeed since
    torn          \* history: a crash found an upload sent whose counters were not saved

credVars == <<next, first, saved, unsaved>>
jobVars == <<job, offer, topUp, recent>>
peerVars == <<wire, server, fetched, retry>>
vars == <<credVars, store, made, jobVars, link, peerVars, blind, torn>>

Ids == 1..MaxId
Gens == 0..MaxGen
Keys == Ids \X Gens
Jobs == {"none", "built", "sent", "minted", "receipt"}
Later(a, b) == IF a >= b THEN a ELSE b

Held == wire \union server \union fetched
Answerable(k) == store[k[1]] = k[2]

Init ==
    /\ next = 2 /\ first = 2 /\ saved = <<2, 2>> /\ unsaved = FALSE
    /\ store = [i \in Ids |-> 0] /\ made = [i \in Ids |-> 0]
    /\ job = "none" /\ offer = {} /\ topUp = "idle" /\ recent = FALSE
    /\ link = FALSE
    /\ wire = {} /\ server = {} /\ fetched = {} /\ retry = {}
    /\ blind = FALSE /\ torn = FALSE

----------------------------------------------------------------------------
(* generateOrGetPreKeys. *)

LastPreKeyId == next + Later(Batch - (next - first), 0) - 1
NewIds == next..LastPreKeyId
ListIds == first..(first + Batch - 1)

\* New private keys under `ids`, whatever was there before.
Generated(ids) == [i \in Ids |-> IF i \in ids THEN made[i] + 1 ELSE store[i]]

Generate(ids) ==
    /\ ids \subseteq Ids /\ \A i \in ids : made[i] < MaxGen
    /\ store' = Generated(ids)
    /\ made' = [i \in Ids |-> IF i \in ids THEN made[i] + 1 ELSE made[i]]

----------------------------------------------------------------------------
(* onEncryptNotification and uploadPreKeys. *)

\* <success> (once per process) or <notification type="encrypt">.
OnEncryptNotification ==
    /\ link /\ topUp = "idle" /\ ~recent
    /\ topUp' = "asking"
    /\ UNCHANGED <<credVars, store, made, job, offer, recent, link, peerVars, blind, torn>>

\* Mutant: the count is compared the wrong way round.
CountIgnoresStock ==
    /\ topUp = "asking" /\ link /\ wire = {}
    /\ topUp' = "queued"
    /\ UNCHANGED <<credVars, store, made, job, offer, recent, link, peerVars, blind, torn>>

\* The server counts after it took what was sent before the question.
CountAnswered ==
    /\ topUp = "asking" /\ link /\ wire = {}
    /\ topUp' = IF Cardinality(server) >= Low THEN "idle" ELSE "queued"
    /\ UNCHANGED <<credVars, store, made, job, offer, recent, link, peerVars, blind, torn>>

\* The query fails or times out: the upload is made all the same.
CountUnknown ==
    /\ topUp = "asking"
    /\ topUp' = "queued"
    /\ blind' = TRUE
    /\ UNCHANGED <<credVars, store, made, job, offer, recent, link, peerVars, torn>>

BuildPreKeyUploadNode ==
    /\ topUp = "queued" /\ job = "none"
    /\ Generate(NewIds)
    /\ offer' = {<<i, store'[i]>> : i \in {j \in ListIds \intersect Ids : store'[j] # 0}}
    /\ job' = "built"
    /\ topUp' = "running"
    /\ UNCHANGED <<credVars, recent, link, peerVars, blind, torn>>

Advance ==
    /\ next' = Later(LastPreKeyId + 1, next)
    /\ first' = Later(first, LastPreKeyId + 1)

\* Mutant: an upload that cannot be sent leaves the guard up.
SendKeepsGuard ==
    /\ job = "built"
    /\ Advance
    /\ \/ link /\ wire' = wire \union offer /\ recent' = TRUE /\ job' = "sent"
          /\ UNCHANGED <<offer, topUp>>
       \/ ~link /\ job' = "none" /\ offer' = {} /\ UNCHANGED <<wire, recent, topUp>>
    /\ UNCHANGED <<saved, unsaved, store, made, link, server, fetched, retry, blind, torn>>

\* The counters advance first; sendNode throws when the connection is not open.
SendUpload ==
    /\ job = "built"
    /\ Advance
    /\ \/ /\ link
          /\ wire' = wire \union offer
          /\ recent' = TRUE
          /\ job' = "sent"
          /\ UNCHANGED <<offer, topUp>>
       \/ /\ ~link
          /\ job' = "none" /\ offer' = {} /\ topUp' = "idle"
          /\ UNCHANGED <<wire, recent>>
    /\ UNCHANGED <<saved, unsaved, store, made, link, server, fetched, retry, blind, torn>>

\* Mutant: the advanced counters are not saved.
FinishUnsaved ==
    /\ job = "sent"
    /\ job' = "none" /\ offer' = {} /\ topUp' = "idle"
    /\ UNCHANGED <<credVars, store, made, recent, link, peerVars, blind, torn>>

\* Mutant: only one of the counters is saved.
SaveOnlyNext ==
    /\ job = "sent"
    /\ saved' = <<next>>
    /\ job' = "none" /\ offer' = {} /\ topUp' = "idle"
    /\ UNCHANGED <<next, first, unsaved, store, made, recent, link, peerVars, blind, torn>>

\* saveCreds() rejects when the file cannot be written; the guard comes down all
\* the same, and the counters in memory keep their values.
SaveUpload ==
    /\ job = "sent"
    /\ \/ saved' = <<next, first>> /\ unsaved' = FALSE
       \/ saved' = saved /\ unsaved' = TRUE
    /\ job' = "none" /\ offer' = {} /\ topUp' = "idle"
    /\ UNCHANGED <<next, first, store, made, recent, link, peerVars, blind, torn>>

MinIntervalPasses ==
    /\ recent /\ wire = {} /\ job # "sent"
    /\ recent' = FALSE
    /\ UNCHANGED <<credVars, store, made, job, offer, topUp, link, peerVars, blind, torn>>

\* The driver saves the credentials at every <success>, whatever job is running;
\* a rejection is ignored.
SaveAtLogin ==
    /\ link /\ saved # <<next, first>>
    /\ saved' = <<next, first>> /\ unsaved' = FALSE
    /\ UNCHANGED <<next, first, store, made, jobVars, link, peerVars, blind, torn>>

----------------------------------------------------------------------------
(* mintRetryPreKey: any message may fail to decrypt. *)

MintRetryPreKey ==
    /\ job = "none" /\ Cardinality(retry) < MaxPeers
    /\ Generate({next})
    /\ offer' = {<<next, store'[next]>>}
    /\ job' = "minted"
    /\ UNCHANGED <<credVars, topUp, recent, link, peerVars, blind, torn>>

\* Mutant: the retry key does not take its id out of the sequence.
MintKeepsId ==
    /\ job = "minted"
    /\ job' = "receipt"
    /\ UNCHANGED <<credVars, store, made, offer, topUp, recent, link, peerVars, blind, torn>>

\* When saveCreds() rejects the receipt leaves without the key.
SaveMinted ==
    /\ job = "minted"
    /\ next' = next + 1
    /\ first' = Later(first, next + 1)
    /\ \/ saved' = <<next', first'>> /\ unsaved' = FALSE /\ offer' = offer
       \/ UNCHANGED <<saved, unsaved>> /\ offer' = {}
    /\ job' = "receipt"
    /\ UNCHANGED <<store, made, topUp, recent, link, peerVars, blind, torn>>

\* A receipt that cannot be sent is dropped.
SendRetryReceipt ==
    /\ job = "receipt"
    /\ retry' = IF link THEN retry \union offer ELSE retry
    /\ job' = "none" /\ offer' = {}
    /\ UNCHANGED <<credVars, store, made, topUp, recent, link, wire, server, fetched,
                   blind, torn>>

----------------------------------------------------------------------------
(* Server and peers. *)

\* A key uploaded again under an id replaces the one the server had.
ServerTakes ==
    /\ wire # {}
    /\ server' = wire \union {k \in server : \A u \in wire : u[1] # k[1]}
    /\ wire' = {}
    /\ UNCHANGED <<credVars, store, made, jobVars, link, fetched, retry, blind, torn>>

PeerFetches(k) ==
    /\ k \in server /\ Cardinality(fetched) < MaxPeers
    /\ server' = server \ {k}
    /\ fetched' = fetched \union {k}
    /\ UNCHANGED <<credVars, store, made, jobVars, link, wire, retry, blind, torn>>

\* The first message of the peer that holds `k`: the private key is used up, or the
\* message does not open, and a retry key follows.
Pkmsg(k) ==
    /\ link /\ job = "none"
    /\ k \in fetched \union retry
    /\ fetched' = fetched \ {k}
    /\ retry' = retry \ {k}
    /\ store' = IF Answerable(k) THEN [store EXCEPT ![k[1]] = 0] ELSE store
    /\ UNCHANGED <<credVars, made, jobVars, link, wire, server, blind, torn>>

----------------------------------------------------------------------------
(* Connection and process. *)

Connect ==
    /\ ~link
    /\ link' = TRUE
    /\ UNCHANGED <<credVars, store, made, jobVars, peerVars, blind, torn>>

\* What was on its way may be lost.
Drop ==
    /\ link
    /\ link' = FALSE
    /\ wire' \in {wire, {}}
    /\ UNCHANGED <<credVars, store, made, jobVars, server, fetched, retry, blind, torn>>

\* The process restarts from the saved credentials; the key store is durable.
Crash ==
    /\ link' = FALSE
    /\ next' = saved[1] /\ first' = saved[2]
    /\ job' = "none" /\ offer' = {} /\ topUp' = "idle" /\ recent' = FALSE
    /\ torn' = (torn \/ ((job = "sent" \/ unsaved) /\ saved # <<next, first>>))
    /\ unsaved' = FALSE
    /\ UNCHANGED <<saved, store, made, peerVars, blind>>

Next ==
    \/ OnEncryptNotification \/ CountAnswered \/ CountUnknown
    \/ BuildPreKeyUploadNode \/ SendUpload \/ SaveUpload \/ MinIntervalPasses
    \/ SaveAtLogin
    \/ MintRetryPreKey \/ SaveMinted \/ SendRetryReceipt
    \/ ServerTakes \/ \E k \in Keys : PeerFetches(k) \/ Pkmsg(k)
    \/ Connect \/ Drop \/ Crash

Fairness ==
    /\ WF_vars(CountAnswered \/ CountUnknown)     \* the query times out
    /\ SF_vars(BuildPreKeyUploadNode)            \* the serial chain is a queue
    /\ WF_vars(SendUpload) /\ WF_vars(SaveUpload)
    /\ WF_vars(SaveMinted) /\ WF_vars(SendRetryReceipt)

Spec == Init /\ [][Next]_vars
FairSpec == Spec /\ Fairness

----------------------------------------------------------------------------

TypeOK ==
    /\ next \in Nat /\ first \in Nat /\ saved \in Nat \X Nat /\ unsaved \in BOOLEAN
    /\ store \in [Ids -> Gens] /\ made \in [Ids -> Gens]
    /\ job \in Jobs /\ offer \subseteq Keys
    /\ topUp \in {"idle", "asking", "queued", "running"} /\ recent \in BOOLEAN
    /\ link \in BOOLEAN
    /\ wire \subseteq Keys /\ server \subseteq Keys
    /\ fetched \subseteq Keys /\ retry \subseteq Keys
    /\ blind \in BOOLEAN /\ torn \in BOOLEAN

\* Every public key the server or a peer holds has its private key here, unless a
\* crash came after sending an upload and before its counters were saved, by the
\* upload itself or, when that save failed, by a later one.
HeldKeysAnswerable == ~torn => \A k \in Held : Answerable(k)

\* The key of a retry receipt is always answerable, after any crash: its id is saved
\* as used before the receipt leaves.
RetryKeysAnswerable == \A k \in retry : Answerable(k)

\* No storm of uploads: as long as the server is asked first, it never holds more
\* than it had at the watermark and one upload.
StockBounded == ~blind => Cardinality(server \union wire) <= Low - 1 + Batch

\* The guard against a second top-up comes down again, whatever fails on the way.
BoundHit == ~(NewIds \subseteq Ids) \/ \E i \in NewIds \intersect Ids : made[i] = MaxGen
TopUpEnds == topUp # "idle" ~> (topUp = "idle" \/ BoundHit)
============================================================================
