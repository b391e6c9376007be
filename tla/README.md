# Oniwalib in TLA+

Oniwalib is a WhatsApp Web client library in TypeScript: a Noise channel over a
WebSocket, QR pairing, Signal sessions and sender keys, app-state sync, and thin
layers of requests (groups, channels, profile, media, ...). This directory holds
TLA+ models of its stateful parts, the TLC configurations that check them, and
proofs that TLAPS checks. Paths below are relative to `src/src/` unless they
start with `src/`.

## The system

JavaScript runs one callback at a time; the concurrency is that of callbacks,
timers and `await`s over shared state, of the network, and of a process that may
die between two system calls. In all models an action is one callback, or the
piece of an async function between two awaits that really suspend.

| Part | State | Operations | What is hard | What makes it correct |
|---|---|---|---|---|
| Connection driver, `client.ts` | `state`, `stopped`, `retries`, `connecting`, `expectRestart`, `socket`, `unbind`, two timers, `pendingIq` | `start`, `end`, `reconnect`, `query`, `handleNode` and its handlers | dials that outlive a decision, timers of an older connection, restart 515, three sources of `start()` | one link at a time, never stranded, everything dies with its link, `end()` is final |
| Noise socket and transport, `noise/`, `connect.ts`, `transport/` | status, decoder, nonce counters | `connect`, `sendNode`, `close`, frame handlers | handshake without a timeout, close events in any state | in-order exactly-once frames, one close event |
| Pairing, `pairing.ts`, `proto/adv.ts`, `qr/` | none | `configureSuccessfulPairing` | pure cryptography | outcome: credentials and a reply, or an error |
| Encrypted store, `auth/file-state.ts` | key file, log, index | `fileAuthState`, `keys.set/get`, `saveCreds`, compaction | crash inside a write, failed append, truncation | what was acknowledged is found again |
| JSON store, `auth/json-state.ts` | one JSON file | `set`, `flush`, load | overwrite in place, errors swallowed | the same |
| Pre-keys, `signal/prekeys.ts` and part of `messages.ts` | two counters, key store, top-up guard | generate, upload, count, retry key, use | crash between send and save, stale count, lost uploads | every public key handed out can be answered |
| Signal sessions, `signal/session-*.ts` | records of sessions with chains and skipped keys | `encrypt`, two `decrypt`, `initOutgoing`, `initIncoming` | out-of-order, duplicated and lost messages, several sessions per peer | each message opens once, a healthy session survives |
| Sender keys and group send, `signal/sender-key.ts`, `messages.ts` | states per sender, `sender-key-memory`, `groupPeers` | distribute, encrypt, decrypt, `sendGroupMessage`, `sendStatus` | failed sends, redistribution, skipped keys | whoever is marked as having the key has it |
| Message reception, `messages.ts` | `serial` chain, failure streaks, retry counts | `handleMessageStanza`, heal, retry receipt | errors of different origin taken for one another | nothing is delivered twice, healing only heals |
| LID map and roster, `signal/lid.ts` | map in the store, roster in memory | `remember`, `noteContact`, `toPn`, `toLid` | two first loads of the roster | no contact is lost |
| App state, `appstate/` | version, hash and index per collection | `resync`, `pushPatch` | concurrent resync and push, one failing collection | version and hash move together and forward |
| Group device cache, `client.ts` | device lists | `resolveGroupDeviceJids`, notifications | invalidation during an await | no list older than the last notification |
| In-memory store, `store/`, with history, `history/` | messages per chat, votes, metadata | listeners of the events, `toJSON`, `fromJSON` | history, deletions and live stanzas come on lanes of their own | what is shown is what the account has |
| Requests: `groups/`, `channels/`, `usync/`, `profile/`, `privacy/`, `blocklist/`, `business/`, `calls/`, `presence.ts`, `notifications.ts`, `polls/`, `media/` | none that survives a call | one query and one parser each | none of their own | encoding |
| Codecs: `frame/`, `proto/`, `signal/protocol.ts` | none | encode, decode | length classes | decode inverts encode |
| `events/emitter.ts`, `bot/`, `version.ts`, `crypto/`, `profiles/` | listeners, small caches | `on`, `emit`, commands | listeners that throw | |

They interact as follows. The user calls the driver (`start`, `end`, `query`,
the request layers). The driver asks `connectOni` for a socket, gets it through
the callback `onSocket`, and listens to its `node.recv` and `connection.update`.
`handleNode` hands stanzas to the layers; every layer that sends goes through
the driver's `send` or `query`. Signal operations run in the promise chain
`serial` of `messages.ts`, the counting of pre-keys and the opening of sessions
partly outside it. All of them share `auth.creds` and `auth.keys`, which the
stores persist.

`PROJECT.json` lists every hazard with the line where it bites and the property
that covers it.

## Modules

| Module | Models | Checked by | Proofs |
|---|---|---|---|
| `ClientConn` | connection driver, with dials and sockets by their outcomes | `conn`, `conn_end` | `ClientConn_proofs` |
| `AuthLog` | encrypted store | `auth` | `AuthLog_proofs` |
| `DurableMap` | what `AuthLog` promises | `auth` (as `ImplementsMap`) | `AuthLog_proofs` |
| `PreKeys` | pre-keys, server and peers | `prekeys` | `PreKeys_proofs` |
| `SignalSession` | 1:1 sessions of two parties, cold send, healing | `session`, `session_stray` | `SignalSession_proofs` |
| `SenderKeys` | the record of sender keys, as operators | through `GroupChat` | |
| `GroupChat` | sends to a group and to the status list, the device cache, the receiving devices | `group` | `GroupChat_proofs` |
| `AppState` | resync and pushPatch of several collections, LT-hash, another device, the server | `appstate` | `AppState_proofs` |
| `WABinary` | the binary node codec, as operators | through `NoiseSocket` | |
| `ProtoWire` | LEN fields and the messages of the handshake, as operators | through `NoiseSocket` | |
| `NoiseSocket` | frames, symbolic Noise XX, transport, both ends of a connection | `wire` | |
| `NodeChannel` | what `NoiseSocket` promises | `wire` (as `IsChannel`) | |
| `ChatStore` | in-memory store of a conversation and the lanes that feed it | `chats`, `chats_revoke` | `ChatStore_proofs` |
| `Roster` | roster and number/lid pairs on the JSON store | `roster` | `Roster_proofs` |
| `MCClientConn`, `MCSignalSession`, `MCGroupChat`, `MCAppState`, `MCRoster` | symmetry for TLC | | |
| `MCNoiseSocket` | the nodes that are sent in `wire` | | |

A definition named "Mutant" in a comment is a plausible bug: with it in the place
of the definition that follows it, TLC finds the property named in
`PROJECT.json` violated.

### ClientConn

`conn[c]` is the status of attempt `c` (a transport being dialled, then a
`NoiseSocket`), `socket` the driver's variable, `bound` the sockets whose
listeners were not removed (`unbind`), `rot[c]` the refs left for an armed QR
timer, `qrTimer` the one the driver remembers, `restarts` the pending
`setTimeout(start)`, `auto` the microtask that starts the driver. `pendingIq`
holds the ids of the map. Actions:

- `AutoStart`, `UserStart`, `RestartTimer`: the three callers of `start()`;
  `UserEnd`: `end()`.
- `DialOk`, `DialFail`, `HandshakeOk`, `HandshakeFail`, `Drop`: what the network
  and the connector do, with the continuation of the promise in the same action.
- `HandlePairDevice`, `QrTimer`, `PairRejected`, `HandlePairSuccess`,
  `HandleLoginSuccess`, `HandleStreamError`, `HandleFailure`, `HandleIqAnswer`:
  `handleNode`. Stanzas that change no state of the driver are left out.
- `Query`, `IqTimeout`: `query()`.

`teardown`, `end` and `reconnect` are operators used by the actions, as they are
functions called by the handlers. Listeners of the user are assumed not to throw.
`again` and `lateEnd` are history variables for the two cases in which the
documented contract fails: `start()` on a running driver and `end()` during a
dial. Invariants that these cases break carry them as hypotheses, and say so.

Fairness: microtasks, timers and the dial (it has a timeout) end; a handshake is
answered or the connection closes. The last one is an assumption about the
network, not about the code: `NoiseSocket` has no timeout of its own, and
without the assumption `LinkOrEnd` fails because `connecting` stays set.

### AuthLog and DurableMap

A file is a sequence of chunks: the magic, whole records, and the piece of a
record that an interrupted write leaves, of at most 4 bytes (`Stub`) or longer
(`Torn`), because `readLog` treats files of at most 4 bytes apart. A write may be
cut anywhere by a crash (`CrashInWrite`, and the crash branches of `Create`,
`ResolveKey` and `FirstCreds`) or fail and leave the process running
(`WriteFails`). `fs.writeSync` may also write less than it was given and say so in
a result that the code does not look at, in a compaction (`MaybeCompact`, with
`CutSnapshots`) and, with the option `fsync`, in an append (`Writes`). What is
written stays written: loss of power, which `fsync` is for, is not modelled. The
rename is atomic, and compaction is part of the append.

`readLog` takes a broken record at the end for the trace of a crash, and the open
cuts it away (`Truncated`). A broken one that later bytes have filled up to the
length it declares (`filled`: a failed append with whole ones after it) does not
decrypt, and a file with other bytes where the magic should be is not a log: both
are `Refused`, `fileAuthState` throws and the file stays as it is.

`DurableMap` is the promise: a map on disk and a view of it in memory; writes go
to both, a crash leaves a prefix of the batch being written. While the store is
not `intact` a write may be lost, or make the store `Lost`: one that no open
accepts, which is not the same as one that looks empty and is filled with a new
account. `AuthLog` implements it under the mapping `disk <- Found` (what the next
open finds, a refusal included), `view <- mem`, and `Intact` says precisely when a
write can be lost: after an append that failed or fell short, and in a log without
a magic. `DRewriteShort` is there for the compaction that falls short, which keeps
only a part of the map; `cut` remembers that it happened.

### PreKeys

A key is `<<id, gen>>`: a key generated again under an id is another key with
another private half. `job` is the position of the running job of the `serial`
chain (an upload: `BuildPreKeyUploadNode`, `SendUpload`, `SaveUpload`; a retry
key: `MintRetryPreKey`, `SaveMinted`, `SendRetryReceipt`), `topUp` the position
of `onEncryptNotification`, which counts outside the chain. The server and the
peers are external: `ServerTakes`, `PeerFetches`, `Pkmsg` (whose effect on the
key store is that of `decryptPreKeyWhisperMessage`). A crash returns the
counters to what `saveCreds` last wrote; the key store is durable. `saveCreds` may
reject: the upload is over all the same and its counters stay unsaved (`unsaved`)
until a later save, and a retry receipt leaves without a key.

### SignalSession

Both parties run this code and keep one record each for the other. `rec[p]` is
the record as `getSessions()` orders it, last used first (two uses are taken to
fall in different milliseconds). A session holds its ratchet (`root`, `ours`,
`remote`, `previous`), its chains by ratchet key, and whether it is closed or has
a `pendingPreKey`. Keys are tokens; a root or chain key is the base key of its
X3DH with the sequence of Diffie-Hellman pairs mixed in, so that two sides hold
the same key exactly when they mixed the same pairs. A MAC checks out when the
chain keys are equal.

An attempt (`Try`) is `doDecryptWhisperMessage` on one session: `StepRatchet` when
the message has a new ratchet key, then `OpenOnChain`. Its result carries the
session as the code leaves it, whether the message opened or not: `OpenMsg` tries
the sessions in order and stores the changes of the failed attempts along with
the one that opened, as `storeSession` does. `Ask`, `NoBundle` and `InitOutgoing`
are the cold send, whose look at the record is outside the `serial` chain; `Send`
is `encrypt` with the sending of its result; `OpenPkmsg` and `CrashInPkmsg` are
`decryptPreKeyWhisperMessage`, whole or cut before the pre-key is removed;
`FailMsg` is the catch branch of `handleMessageStanza` with `healSession`. `sent`
keeps every message, so any of them may be late, lost, reordered or repeated.

`stray` (a failed attempt was stored) is the hypothesis of `HeldSessionsOpen`:
without it, as `session_stray` shows, the property fails. `forgot` marks the
sessions that a repeated pkmsg may start again after `healSession`.

### SenderKeys and GroupChat

A sender key is a key id and an iteration; the seed of a message is a function of
the two. `SenderKeys` has what `sender-key.ts` does to a record: `Created`,
`Encrypted`, `AddState` (a distribution), `CanOpen` and `Opened` (`messageKeyFor`
with its window and its bound of kept keys, here `Jump` and `Keep`).

`GroupChat` is one account that sends (`own`, `mem` for sender-key-memory,
`peers`, `cache`, `calls` for the async functions in progress, `jobs` for those in
the `serial` chain) and the devices that receive. Outside the chain:
`StartGroupSend`, `MetadataAnswer`, `DevicesAnswer`, `SessionsAnswer`,
`QueryFails`. A job is cut where a crash or a lost link makes a difference:
`CipherJob` (to `storeSenderKey`), `DistributeJob` or `DistributeStatus` (to
`savePeerMem`), `SendJob` or `SendFails`. A device runs `Arrive` and then one
action per `<enc>`: `AbsorbKey` or `PairFails`, and `RunSkmsg`. The second `<enc>`
of a stanza joins the chain only when the first is done, as in the code, so that
two stanzas may interleave. The server keeps its order and may repeat a stanza
whose `<ack>` was lost. Pairwise sessions are those of `SignalSession`: here an
`<enc>` opens once or not at all.

Properties speak about what the code promises in spite of the mark before the
send (`messages.ts:975`): a device marked as having the key has it, will have it,
or is in `keyLost`, which says how it was lost (`MarkedReached`). In the same way
`UnreadableForAReason` lists every reason for which a device may miss a message.

The device list of a send is no exact image of the group: participants whose lid
comes without a number are left out (`MetadataAnswer` takes any subset of the
members), and a participant may link or unlink a device without a notification
(`Change`). A notification empties the cache (`HandleNote`), but a list that is
being fetched then is stored all the same (`client.ts:634`): no property claims
that the list is fresh, and the others hold whatever is in it.

### AppState

`stored[c]` is the `LTHashState` of a collection: version, the index-value map,
and the hash. A value MAC is a number, and the hash counts how often each is in
it: `subtractThenAdd` adds and subtracts lanes modulo 2^16, a group, in which
counts are as good as sums. A patch carries what it `commits` to, as its
`snapshotMac` does, so that a state which is not the one the patch was made from
is noticed exactly when the code notices it. The MAC of an index depends on the
sync key, so that one index has a record per key.

A call of `resync` is `StartResync` (through `HandleNote` or `ResyncAll`),
`ServerAnswers`, one `Apply` or `ApplyThrows` per collection, and the next page
while `has_more_patches` was set. `pushPatch` is `StartPush`, `ServerTakes`,
`SavePush` or `PushFails`. Several run at once: the code does not put them into a
queue. `diverged`, `overlapped` and `excused` are history variables for what
follows from that: a collection whose state the server never had (its answer to a
push is not looked at), one saved or shown over a newer one, one that nobody is
going to bring up to date. `SyncedWhenQuiet` promises the rest. A resync that
throws at a patch has emitted the snapshot under it before (`ApplyThrows`), without
saving it.

### WABinary, ProtoWire, NoiseSocket and NodeChannel

`WABinary` writes and reads nodes byte by byte. Strings are members of the class
that `writeString` puts them in, the tokens being numbers: `Token(i)` and
`DoubleToken(d, i)` stand for the tables. Nodes have children without children,
which keeps the definitions free of recursion. `SameNode` says what a reader gets
of a node: a text that is no token, no digits and no jid comes back as bytes, and
the device 0 of a jid is dropped; up to that decoding inverts encoding, which is
less than the comment at `frame/encode.ts:3` says.

`NoiseSocket` is one connection. `cl` is the client: state, handshake, buffer of
the decoder, what its listeners saw. The transport gives any number of bytes at a
time (`Receive`), so that a frame comes in any pieces, and several frames at once.
The server is `transport/mock-wa-server.ts`, which the tests of the repository
trust as a stand-in. Cryptography is symbolic: a hash is the sequence of what was
mixed in, a key the secrets it derives from, a ciphertext a record that opens
under its key, nonce and hash only. `ListenerThrows` is a listener of `node.recv`
that throws: `onBytes` catches it and closes the connection.

`NodeChannel` is the promise: two FIFO channels of nodes, nothing after a close,
and everything delivered while both ends stay open. The mapping takes the nodes
that were given to `sendNode` and `pushNode`, as read, and those that listeners
saw.

Fairness: the transport delivers what is on the way to an end that reads, and
reports its end. A TCP stream does. The specification states the first two as
formulas with `[]<>`, which are weak fairness written out.

### ChatStore

One conversation. `truth[m]` is the stage of a message for the account: as sent,
edited, gone. `stream` is what the server has to deliver, `account` the deletions
that come by the app state, `downloads` the history chunks that are on their way:
three lanes without an order between them. `Receive` is `deliver()` with its
kinds of content, `ReceiveUndecryptable` the catch branch, which shows an empty
message and asks for it again; `ReceiveDeletion` is `processSyncAction`;
`HistoryLands` is `ingestHistorySync`; `ToJSON` and `FromJSON` are the snapshot of
the application. `last` is the stage in the last event about a message: where it
is the newest, the store must show the truth (`StoreFollows`). Messages changed
under a key of another chat are `astray`. A vote is a stanza like the others: one
that does not decrypt is sent again after its retry receipt, behind those that
came meanwhile, and the store takes it for the last one (see below). Votes are
carried for `TypeOK` and the lanes only; no property speaks about them.

### Roster

The roster of `signal/lid.ts` is a JavaScript Set, known by its identity: a call
that was given one goes on with it when another call of `loadRoster` puts a new
one in its place. `StartNote`, `LoadRoster` and `AddToRoster` are `noteContact`
between its awaits, `StartRemember` and `Remember` are `remember`, `StartContacts`,
`WalkContacts` and `ReturnContacts` are `contacts()`, which loads the roster like
`noteContact` if it comes first, and awaits a lookup per lid while others add to
the Set. Under it is `jsonFileAuthState`: `Flush` rewrites the
file in place and swallows errors, `Open` takes a torn file for none. `forgiven`
has the contacts that may be missing: those added to a Set that was replaced, and
those not in the file after a crash.

## Runs

| Run | Bounds | Shows |
|---|---|---|
| `conn` | 3 attempt identities, 1 query, 2 retries, 2 refs, 2 timers | five invariants of the driver, `RestartLogsIn`, and that it ends up connected or ended |
| `conn_end` | 2 identities | `end()` while dialling: state leaves "close" |
| `auth` | 3 keys (credentials and two more), 1 value, batches of 2, compaction from 4 chunks, appends to files of up to 3 chunks, `opts.fsync` | the log implements the map, and a log once found with credentials never looks empty |
| `prekeys` | uploads of 2, watermark 1, ids up to 5, 2 generations, 1 peer key and 1 retry key | keys handed out are answerable, every top-up ends |
| `session` | 2 sessions opened, 4 messages, 5 ratchet keys per party, window 2, healing after 2 | at-most-once, late messages open, no message key twice, one usable session |
| `session_stray` | the same | two first sends and one answer ruin the open session |
| `group` | 1 receiving device, 2 sends at a time and 3 in all, 2 sender keys, window 1, 1 kept key, 2 key ids per record, 2 faults, 1 change of the members | no chain key twice, nothing read twice, every message not read has a reason, the chain moves on |
| `appstate` | 2 collections, pushes to one of them, 1 index, 2 calls at a time, pages of 1 patch, 2 sync keys, 3 mutations, 1 fault | the stored hash is that of the map, the state is one the server had, everything owed is done, listeners see the last value |
| `wire` | four short sequences of nodes for each side, 1 fault | no nonce twice, a channel of nodes, `connect()` settles |
| `chats` | 3 messages (ours, one older than the link, one of the peer), 1 voter, 5 events, 2 faults | the store follows the account |
| `chats_revoke` | the same | a revoke by the peer removes nothing |
| `roster` | 2 persons, 1 with a lid, 2 calls at a time, 2 Sets, 1 fault | contacts are kept and named once |

Why the bounds are enough. Two identities suffice for any pair of attempts that
overlap, and the third lets one be old, one current and one new; an identity is
reused once nothing refers to it. Two retries separate the first, a middle and
the exhausted budget. A store with one value distinguishes old from new through
deletions, and batches of two can be cut in the middle; 5 chunks hold the magic,
the credentials, both keys and one superseded record, and the log is compacted at
4. Pre-keys pass through two uploads and the ids in between; a second generation
of an id arises only from a crash between sending and saving. Two sessions make
the crossings (one from each side, two from one side, one after healing); four
messages are the fewest that step a ratchet twice and leave one of the old chain
behind, or go beyond a window of 2; the fifth ratchet key of a party leaves room
for stray steps.

In a group the devices do not influence each other except through the account,
which treats each by itself: one device that may or may not be a member, be known
or be marked is every case of the account's loops but an empty one, and that is
the case in which it has left. Three sends are one that goes missing, one that
distributes and one that is overtaken; a record of two key ids forgets one after
`PairAgain` only if it must. In the app state two calls make each pair of resync
and push; three mutations are one that is known, one on the way and one that
conflicts; a page of one patch makes the resync ask again. On the wire the nodes
of `MCNoiseSocket` use every class of string, jid and content, a binary longer
than 255 bytes, a list without children and a compressed node, and a second node
in the same direction; all pieces of every frame are tried. Of messages one of
each author and age is enough, since the store never relates two of them except
in the deletion of a chat; five events are a message, its edit, its revoke, a
deletion and a history chunk. Two calls of the roster are the race of `loadRoster`.

Three runs are violations: `EndIsFinal`, `LateMessagesOpen` and `RevokeReaches`
state what a comment or a document says, and the code does otherwise. The
counterexamples are described under "findings" in `PROJECT.json`.

Other places where the code differs from what is written, seen while modelling
and not the subject of a run:

- `start()` is called idempotent (`client.ts:401`); on a driver whose handshake is
  done it dials again and leaves the first socket open (`client.ts:1135`).
  `OneLink` excepts the states after such a call.
- `maxRetries` bounds the reconnections in a row (`client.ts:140`), but no retry is
  charged while `expectRestart` is set (`client.ts:1119`), which only a `<success>`
  clears: after a pairing with the network down the driver redials for ever.
- Healing is meant for sessions out of step (`messages.ts:196`); a message that
  comes twice counts as one (`messages.ts:609`), and three of them delete a healthy
  session.
- The compaction of the log is called an atomic exchange that never leaves the file
  half written (`auth/file-state.ts:287`). `writeSync` may write less than it was
  given and its result is not looked at (`:307`): the short file is renamed over
  the log (`cut`), and what it lacks is gone with the next open.
- A log with nothing but its magic, or less, is said to start from zero
  (`auth/file-state.ts:186`). The open truncates such a file to nothing (`:269`) and
  writes no new magic; records are appended to the empty file, and the next open
  refuses it for its magic (`:184`). A crash while the log is created is enough.
- The cached device list of a group is said to be invalidated by a notification
  (`client.ts:584`). The fetch stores its list after two awaits (`:634`), whatever
  was notified meanwhile: who left in between is in it for up to five minutes.
- The store is said to hold a voter's last vote (`store/index.ts:60`,
  `test/store.test.ts:92`). It holds the one that arrives last: the sender's time is
  saved (`store/index.ts:233`) and never compared, so an older vote sent again after
  a retry receipt replaces the newer one.
- `fromJSON` is said to replace (`src/docs/API.md:334`); it merges.
- A contact that is noted while another call loads the roster for the first time
  may be lost (`signal/lid.ts:57`), and so may be those of a JSON file whose
  rewriting was cut (`auth/json-state.ts:125`): `forgiven`. His next message brings
  him back.
- A group send marks a device before its stanza leaves (`messages.ts:975`); if
  `sendNode` throws, the device waits for the next sender key: `keyLost`.
- A failed edit leaves an empty message under the id of the message, and a late one
  can bring back a deleted message; `chats.delete` also takes messages newer than
  the deletion. `StoreFollows` covers messages whose last event was the newest.
- `pushPatch` does not look at the error of a collection in the answer
  (`appstate/layer.ts:297`), one collection that does not decode ends the resync of
  those after it, and a failed resync is not tried again.

`CHECK_DEADLOCK FALSE`: a driver after `end()`, a store whose key file is cut,
a pre-key store at its bound, parties with nothing to send, closed connections
and the models at the end of their bounds really stop, or can do so.

## Proofs

Each `*_proofs` module extends the module it is about and proves what follows for
every value of the constants: any number of attempts, keys, messages, members,
calls, events, and any bound on faults. Each has one inductive invariant, for
which it shows three things: the initial states satisfy it, every action keeps it
(a lemma per action), and it implies the properties.

| Module | Theorems about | Invariant |
|---|---|---|
| `ClientConn_proofs` | `TypeOK`, `NeverStranded`, `OneLink`, `NothingOutlivesLink`, `StoppedIsQuiet`, `RestartLogsIn` | `IInv`, then `Owned` |
| `PreKeys_proofs` | `TypeOK`, `RetryKeysAnswerable`, `HeldKeysAnswerable`, `StockBounded` | `IInv`, then `StockInv` |
| `AuthLog_proofs` | `TypeOK`, `MemIsDisk`, `TearsAreTails`, `ShortKeyLocksNothing`, the action property `CredsNeverVanish`, the refinement `ImplementsMap` | `IInv` |
| `SignalSession_proofs` | `TypeOK`, `OneUsableSession`, `FreshMessageKeys`, `AtMostOnce`, `HeldSessionsOpen` | `Inv`, then `AgreedInv` |
| `GroupChat_proofs` | `TypeOK`, `ChainMoves`, `FreshKeys`, `ReadOnce`, `MarkedReached`, `UnreadableForAReason` (within `WithinLimits`) | `TypeOK /\ Inv`, then `ReasonInv` |
| `AppState_proofs` | `HashOfMap`, `StateIsHistory`, `SyncedWhenQuiet`, `ViewFollows` | `Inv`, then `SyncInv`, then `ViewInv` |
| `ChatStore_proofs` | `TypeOK`, `StoreFollows` | `Inv` |
| `Roster_proofs` | `ContactsKept`, `PersonOnce` | `Inv` |

The type invariants of `GroupChat` and `ChatStore` are proved and not repeated in
the runs, where the other invariants of the same state are the better use of time.

**ClientConn.** `NeverStranded` is not inductive: `reconnect()` returns early
while `connecting` is set, which is harmless only because an attempt is then in
flight. `AttemptInv` relates `connecting` to the attempts in flight, `socket` and
`bound` to the status of the attempts, and `again` to the number of live ones;
`TimerInv` does the same for the timers. On top of it `Owned` has what is left of a
driver that was ended (`QuietInv`), what is registered while a restart is expected
(`PairInv`: the credentials are written before anything can dial), and
`NothingOutlivesLink` itself.

**PreKeys.** The two counters are equal and the saved ones never ahead
(`CredInv`), `store` holds the latest generation of an id or nothing (`GenInv`), a
retry key is none of the keys the server or a peer holds (`ApartInv`), every key
handed out lies below the saved counter unless an upload is being saved
(`HeldInv`, `RetryInv`), and `OfferInv` says what the current job offers. That the
saved counter is what counts is the point: a crash goes back to it. `StockInv`
adds that an upload runs only within a top-up (`JobInv`), and that from the count to
the sending of the upload the server stays below the watermark and nothing else is
on its way to it (`LowInv`).

**AuthLog.** The invariant says of each position of the program what the file must
look like there: the key file (`KeyInv`), memory between processes (`DownInv`), a
store that was loaded and not yet used (`LoadedInv`), one that is up and so has
credentials in memory and, with a magic and unless something is broken before them,
in the file (`UpInv`), a new file (`FreshInv`), and that only a write that failed or
fell short leaves something to be filled (`FillInv`). Its work is in lemmas about `Recover`: what a reader makes of a file
after a whole append, a torn one, a truncation, a compaction. `LogIsDurableMap`
shows that `AuthLog` implements `DurableMap` step by step: opening (`Create`,
`Load`) is its `DOpen`; a whole write is its `DWrite`, or its `DRewrite` when the
log is compacted, `DRewriteShort` when that falls short; a write that fails or falls
short is its `DWriteFails`; every crash, those inside a
write included, is its `DCrash`; resolving the key changes neither map.

**SignalSession.** What the sessions of a record are (`Shape`, `SessionsInv`,
`OpenInv`, `BasesInv`), what was sent and with which secret (`SentInv`), and three
facts that carry the theorems: a sending chain is past every message under its
secret (`AheadInv`), no two sending chains share a secret (`ApartInv`), and of a
message that was opened the key is used up in the session, or the session is gone
and cannot be started again, or `healSession` made the record forget it
(`OpenedInv`). The second is there for the first: with two chains under one secret,
a message sent on one would be a message that the other has not counted. Both hold
through what makes this code hard to follow, sessions saved after an attempt that
failed, first messages that start a session again, and healing.

`HeldSessionsOpen` speaks of both parties at once and needs that their ratchets
agree. `AgreeInv` says so of every session of the pair that `healSession` did not
make one of them forget, as long as no failed attempt was stored (`Linked`). Each
end `Fit`s what the other sent: it can open every message it has not read, on a
chain it has or on the one that its next turn makes; what it cannot place yet is
all on one chain; and the length it would close its old chain at (`previous`)
covers all that was sent on it. And where both ends stand, one `Leads`: it turned
its ratchet last, its root is the other's with one pair of keys mixed in, and the
other has every chain but that one. A send turns a follower into nobody's follower
only through a message that was opened (`Leads` passes from one end to the other),
which is why a ratchet step stored by a failed attempt breaks it: that is what
`session_stray` finds. An end that does not stand yet is one that its first message
can still start, whose agreement is that of the session it would start with.

**GroupChat.** The chain has at most one job in hand, the one at its head
(`JobsInv`); what was sent lies behind the chain it was sent from (`SentInv`);
stanzas lie in the inbox and the chain of a device in the order in which the
server took them, and a sender key that a device can still take in is newer than
all it took in or read before (`QueueInv`), so that no key that was spent comes
back (`ReadInv`); who is marked has the key, or a stanza
with it is on its way, or the loss is recorded (`KnownInv`, `MarkInv`).

`UnreadableForAReason` is false without a limit: a record of more key ids than
`MAX_STATES`, or of more skipped messages than `MAX_MESSAGE_KEYS`, forgets. The
theorem therefore assumes `[]WithinLimits`: no room has had more keys than a record
has states, and no message that a device is about to run has more than `Keep`
before it which the device could have read and has not (`Skipped`). Under it
`ReasonInv` says that a record still has every key it took in (`HoldsOK`) and of
each state (`StateOK`) that its chain and kept iterations are covered by a key that
was taken in, that it is not ahead of what was sent, so that what is sent later is
not behind it, and that of the stanzas still due, in the inbox or the chain of jobs,
those behind its chain are done with or kept. The proof needs the two places where a
record drops something to drop nothing: that is a count of distinct key ids
(`AddKeepsAll`) and of kept iterations (`ReadKeepsAll`). That a new distribution
overtakes nothing in the inbox comes from the order of the queues (`QueueInv`), and
that no kept key was used before from `ReadInv`.

**AppState.** Every MAC belongs to one index of one key: the invariant says that
there is a map `h` of MACs to indexes, which each new mutation extends. A state is
`Honest` if each of its values is where `h` puts it and its hash is that of its
values. Then equal hashes mean equal values (`SameHash`), so a push that the server
took, whose patch commits to the state it was made from, left the state that the
server has; and the states along the patches of an answer are those of the log
(`WalkIsLog`, shown for the least patch at which it would fail), from wherever the
resync had started. The invariant asks this of every state that a call holds,
since any may be saved. It does not say that versions grow: they do not. `SyncInv`
says who is responsible for a collection behind its log that is neither excused nor
diverged (`Owes`): a notification, a resync of all that is due, a resync that has
not applied it yet and will, or that will ask once more, or a push the server took.
For that a resync remembers that a collection it has applied had more pages, asks
from states the log had, and a taken push saves the version after its base
(`Remembers`); and while there is no key nothing was asked (`KeyInv`). `ViewInv`
says that a view shows the version that is stored (`Shows`): of an index with one
record, set last, it has that record. A page keeps this because it was asked for
from a state no newer than the stored one (`ResyncBegan`), so every patch between
the two is emitted; a push, because no other patch has its MAC (`Fresh`), so the
last patch of the state it saves is its own. The recursive function in `Emitted` is
shown to exist by its least counterexample, and so is what it leaves (`Shown`).

**ChatStore.** An entry is what the last event about its message made of it
(`AgreeInv`), and an empty entry is that of a message that was sent (`StubInv`).

**Roster.** Not only who is noted but whoever was ever in a Set, a loaded list or
the bucket is stored or forgiven (`KeptInv`): a call may be about to save a Set
that another call has given up. `TaskInv` says what each call holds between its
awaits, and `ListInv` that the part of the Set which `contacts()` has walked is
named in its result.

Assumptions: those named in the modules (`ConnsAssumption`, `KeysAssumption`,
`BatchAssumption`, `PartiesAssumption`, `SenderKeysAssumption`,
`AppStateAssumption`, `BoundAssumption`, ...): constants are numbers or sets of the
kind their comments say, at least one of what the code has at least one of, and the
model values differ. TLC evaluates them in the runs.

Only model-checked:

- liveness (`LinkOrEnd`, `TopUpEnds`, `ConnectSettles`): fairness and ENABLED are out
  of the prover's reach;
- `NonceOnce` and the refinement of `NodeChannel` (`NoiseSocket`): what the two
  sides count and cut depends on how the stream is split into frames and on what
  the codecs make of every node; those are recursive functions over bytes (`Push`,
  `WABinary`, `ProtoWire`), and what they compute for every input is an induction
  over data.

## Plan

All the modules planned are there. Still to model, in this order: a peer that is
installed again and changes its identity (`signal/store.ts:73`), the jobs that
the driver runs once per process (`client.ts:939-991`), the maps of chats and
contacts of the store.

Every invariant of the runs is a theorem but `NonceOnce`. Next: `NoiseSocket` with
its codecs as CONSTANTS that are assumed inverse, which would prove `NonceOnce` and
the refinement of `NodeChannel` for every such pair, and leave to TLC that these
codecs are one.

## Not modelled

Cryptography (keys are tokens that fit or do not), the tables of fields of the
end-to-end messages, the stateless request layers, media upload, the bot, crypto
adapters and version lookup: pure computations or a single request each. Loss of
power. Listeners of `connection.update` that throw. Lists of 256 items and more,
binaries of 2^20 bytes and more. The reasons per component are in `PROJECT.json`.
