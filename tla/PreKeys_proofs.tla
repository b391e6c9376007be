--------------------------- MODULE PreKeys_proofs ---------------------------
(* For every batch size, watermark and number of ids: the key of a retry     *)
(* receipt can always be answered, and so can every key the server or a peer *)
(* holds unless a crash tore an upload from its counters; and the server's    *)
(* stock never exceeds the watermark by more than a batch.                   *)
EXTENDS PreKeys, FiniteSetTheorems, TLAPS

(* The counters agree: nothing is ever left to upload from an earlier batch, *)
(* so that an upload is made of new keys only.                              *)
CredInv == first = next /\ saved[1] = saved[2] /\ saved[1] <= next

(* A public key that left the store was generated, and a new one is newer.   *)
GenInv == \A k \in Held \union retry \union offer : 1 <= k[2] /\ k[2] <= made[k[1]]

(* No key has two holders: using it up in one place answers for no other.    *)
ApartInv ==
    /\ wire \intersect server = {} /\ wire \intersect fetched = {}
    /\ server \intersect fetched = {} /\ retry \intersect Held = {}
    /\ job \in {"built", "minted", "receipt"} => offer \intersect (Held \union retry) = {}

(* The ids of the keys in other hands are below the counters a restart finds. *)
Settled == (job # "sent" /\ ~unsaved) \/ saved[1] = next
HeldInv ==
    ~torn => \A k \in Held : Answerable(k) /\ k[1] < next /\ (Settled => k[1] < saved[1])
RetryInv == \A k \in retry : Answerable(k) /\ k[1] < saved[1]
OfferInv ==
    /\ job = "built" => \A k \in offer : Answerable(k) /\ k[1] <= LastPreKeyId
    /\ job = "minted" => \A k \in offer : Answerable(k) /\ k[1] = next
    /\ job = "receipt" => \A k \in offer : Answerable(k) /\ k[1] < saved[1]

IInv == TypeOK /\ CredInv /\ GenInv /\ ApartInv /\ HeldInv /\ RetryInv /\ OfferInv

LEMMA BatchLemma ==
    ASSUME TypeOK, CredInv
    PROVE  /\ LastPreKeyId = next + Batch - 1
           /\ LastPreKeyId \in Nat /\ LastPreKeyId + 1 > next
           /\ NewIds = ListIds
           /\ Later(LastPreKeyId + 1, next) = LastPreKeyId + 1
           /\ Later(first, LastPreKeyId + 1) = LastPreKeyId + 1
<1>1. next \in Nat /\ first = next /\ Batch \in Nat /\ Batch > 0
  BY BatchAssumption DEF TypeOK, CredInv
<1>2. next - first = 0 /\ Batch - (next - first) = Batch
  BY <1>1
<1>3. Later(Batch - (next - first), 0) = Batch
  BY <1>1, <1>2 DEF Later
<1>4. LastPreKeyId = next + Batch - 1
  BY <1>3 DEF LastPreKeyId
<1>5. QED
  BY <1>1, <1>4 DEF NewIds, ListIds, Later

(* Generating keys touches no id but its own, and gives each a newer key.    *)
LEMMA GenerateLemma ==
    ASSUME TypeOK, NEW ids, Generate(ids)
    PROVE  /\ store' \in [Ids -> Gens] /\ made' \in [Ids -> Gens]
           /\ ids \subseteq Ids
           /\ \A i \in Ids \ ids : store'[i] = store[i] /\ made'[i] = made[i]
           /\ \A i \in ids : store'[i] = made[i] + 1 /\ made'[i] = made[i] + 1
           /\ \A i \in Ids : made[i] \in Nat /\ made[i] <= made'[i]
<1>1. \A i \in ids : made[i] \in 0..MaxGen /\ made[i] + 1 \in 0..MaxGen
  BY BoundAssumption DEF Generate, TypeOK, Gens
<1>2. QED
  BY <1>1, BoundAssumption DEF Generate, Generated, TypeOK, Gens

(* A message that opens uses up the key of its id and no other.              *)
LEMMA PkmsgStore ==
    ASSUME TypeOK, NEW k \in Keys, Pkmsg(k)
    PROVE  /\ store' \in [Ids -> Gens]
           /\ \A i \in Ids : store'[i] = store[i] \/ (i = k[1] /\ Answerable(k))
<1>1. store \in [Ids -> Gens] /\ k[1] \in Ids /\ 0 \in Gens
  BY BoundAssumption DEF TypeOK, Keys, Gens
<1>2. \/ store' = store
      \/ Answerable(k) /\ store' = [store EXCEPT ![k[1]] = 0]
  BY DEF Pkmsg
<1>3. QED
  BY <1>1, <1>2

LEMMA InitInv == Init => IInv
<1> SUFFICES ASSUME Init PROVE IInv
  OBVIOUS
<1>1. TypeOK
  <2>1. recent \in BOOLEAN /\ link \in BOOLEAN /\ blind \in BOOLEAN /\ torn \in BOOLEAN
    BY Zenon DEF Init
  <2>2. store \in [Ids -> Gens] /\ made \in [Ids -> Gens]
    BY BoundAssumption DEF Init, Gens
  <2>3. QED
    BY <2>1, <2>2 DEF Init, TypeOK, Jobs
<1>2. CredInv
  BY DEF Init, CredInv
<1>3. GenInv /\ ApartInv /\ HeldInv /\ RetryInv /\ OfferInv
  BY DEF Init, GenInv, ApartInv, HeldInv, RetryInv, OfferInv, Held
<1>4. QED
  BY <1>1, <1>2, <1>3 DEF IInv

----------------------------------------------------------------------------

LEMMA NextType == TypeOK /\ CredInv /\ [Next]_vars => TypeOK'
<1> SUFFICES ASSUME TypeOK, CredInv, [Next]_vars PROVE TypeOK'
  OBVIOUS
<1> USE DEF TypeOK, credVars, jobVars, peerVars
<1>1. CASE OnEncryptNotification
  BY <1>1 DEF OnEncryptNotification
<1>2. CASE CountAnswered
  BY <1>2 DEF CountAnswered
<1>3. CASE CountUnknown
  BY <1>3 DEF CountUnknown
<1>4. CASE BuildPreKeyUploadNode
  <2>1. Generate(NewIds)
    BY <1>4 DEF BuildPreKeyUploadNode
  <2>2. store' \in [Ids -> Gens] /\ made' \in [Ids -> Gens]
    BY <2>1, GenerateLemma
  <2>3. offer' \subseteq Keys
    BY <1>4, <2>2 DEF BuildPreKeyUploadNode, Keys
  <2>4. QED
    BY <1>4, <2>2, <2>3 DEF BuildPreKeyUploadNode, Jobs
<1>5. CASE SendUpload
  <2>1. next' \in Nat /\ first' \in Nat
    BY <1>5, BatchLemma DEF SendUpload, Advance
  <2>2. recent' \in BOOLEAN
    BY <1>5, Zenon DEF SendUpload
  <2>3. QED
    BY <1>5, <2>1, <2>2 DEF SendUpload, Jobs
<1>6. CASE SaveUpload
  <2>1. unsaved' \in BOOLEAN
    BY <1>6, Zenon DEF SaveUpload
  <2>2. QED
    BY <1>6, <2>1 DEF SaveUpload, Jobs
<1>7. CASE MinIntervalPasses
  BY <1>7 DEF MinIntervalPasses
<1>8. CASE SaveAtLogin
  BY <1>8 DEF SaveAtLogin
<1>9. CASE MintRetryPreKey
  <2>1. Generate({next})
    BY <1>9 DEF MintRetryPreKey
  <2>2. store' \in [Ids -> Gens] /\ made' \in [Ids -> Gens] /\ next \in Ids
    BY <2>1, GenerateLemma
  <2>3. offer' \subseteq Keys
    BY <1>9, <2>2 DEF MintRetryPreKey, Keys
  <2>4. QED
    BY <1>9, <2>2, <2>3 DEF MintRetryPreKey, Jobs
<1>10. CASE SaveMinted
  <2>1. next' \in Nat /\ first' \in Nat
    BY <1>10 DEF SaveMinted, Later
  <2>2. unsaved' \in BOOLEAN
    BY <1>10, Zenon DEF SaveMinted, TypeOK
  <2>3. QED
    BY <1>10, <2>1, <2>2 DEF SaveMinted, Jobs
<1>11. CASE SendRetryReceipt
  BY <1>11 DEF SendRetryReceipt, Jobs
<1>12. CASE ServerTakes
  BY <1>12 DEF ServerTakes
<1>13. CASE \E k \in Keys : PeerFetches(k)
  BY <1>13 DEF PeerFetches
<1>14. CASE \E k \in Keys : Pkmsg(k)
  <2>1. PICK k \in Keys : Pkmsg(k)
    BY <1>14
  <2>2. store' \in [Ids -> Gens]
    BY <2>1, PkmsgStore
  <2>3. QED
    BY <2>1, <2>2 DEF Pkmsg
<1>15. CASE Connect
  BY <1>15 DEF Connect
<1>16. CASE Drop
  BY <1>16 DEF Drop
<1>17. CASE Crash
  <2>1. torn' \in BOOLEAN /\ recent' \in BOOLEAN /\ link' \in BOOLEAN
    BY <1>17, Zenon DEF Crash
  <2>2. QED
    BY <1>17, <2>1 DEF Crash, Jobs
<1>18. CASE UNCHANGED vars
  BY <1>18 DEF vars
<1>19. QED
  BY <1>1, <1>2, <1>3, <1>4, <1>5, <1>6, <1>7, <1>8, <1>9, <1>10, <1>11, <1>12, <1>13,
     <1>14, <1>15, <1>16, <1>17, <1>18 DEF Next

----------------------------------------------------------------------------
(* The rest of the invariant, action by action.                              *)

LEMMA FrameInv ==
    ASSUME IInv, UNCHANGED <<credVars, store, made, job, offer, server, fetched, retry, torn>>,
           wire' \subseteq wire
    PROVE  GenInv' /\ ApartInv' /\ HeldInv' /\ RetryInv' /\ OfferInv'
<1>1. Held' \subseteq Held /\ retry' = retry /\ offer' = offer /\ made' = made
  BY DEF Held
<1>2. GenInv'
  BY <1>1 DEF IInv, GenInv
<1>3. ApartInv'
  BY <1>1 DEF IInv, ApartInv
<1>4. HeldInv' /\ RetryInv'
  BY <1>1 DEF IInv, HeldInv, RetryInv, Answerable, Settled, credVars
<1>5. OfferInv'
  BY <1>1, BatchLemma DEF IInv, OfferInv, Answerable, LastPreKeyId, credVars
<1>6. QED
  BY <1>2, <1>3, <1>4, <1>5

LEMMA NextCreds == TypeOK /\ CredInv /\ [Next]_vars => CredInv'
<1> SUFFICES ASSUME TypeOK, CredInv, [Next]_vars PROVE CredInv'
  OBVIOUS
<1>1. next \in Nat /\ first = next /\ saved \in Nat \X Nat /\ saved[1] \in Nat
      /\ saved[2] = saved[1] /\ saved[1] <= next
  BY DEF TypeOK, CredInv
<1>2. CASE UNCHANGED credVars
  BY <1>1, <1>2 DEF credVars, CredInv
<1>3. CASE SendUpload
  BY <1>1, <1>3, BatchLemma DEF SendUpload, Advance, CredInv
<1>4. CASE SaveUpload \/ SaveAtLogin
  BY <1>1, <1>4 DEF SaveUpload, SaveAtLogin, CredInv
<1>5. CASE SaveMinted
  BY <1>1, <1>5 DEF SaveMinted, Later, CredInv
<1>6. CASE Crash
  BY <1>1, <1>6 DEF Crash, CredInv
<1>7. QED
  BY <1>2, <1>3, <1>4, <1>5, <1>6
  DEF Next, vars, credVars, OnEncryptNotification, CountAnswered, CountUnknown,
      BuildPreKeyUploadNode, MinIntervalPasses, MintRetryPreKey, SendRetryReceipt,
      ServerTakes, PeerFetches, Pkmsg, Connect, Drop

LEMMA BuildInv ==
    ASSUME IInv, BuildPreKeyUploadNode
    PROVE  GenInv' /\ ApartInv' /\ HeldInv' /\ RetryInv' /\ OfferInv'
<1> USE DEF IInv
<1>1. /\ Held' = Held /\ retry' = retry /\ next' = next /\ saved' = saved /\ torn' = torn
      /\ unsaved' = unsaved
      /\ job = "none" /\ job' = "built" /\ first' = first
  BY DEF BuildPreKeyUploadNode, credVars, peerVars, Held
<1>2. Generate(NewIds) /\ NewIds = ListIds
  BY BatchLemma DEF BuildPreKeyUploadNode
<1>3. NewIds = next..LastPreKeyId /\ next \in Nat /\ LastPreKeyId \in Nat
  BY BatchLemma DEF NewIds, TypeOK
<1>4. \A k \in offer' : /\ k \in Keys /\ k[1] \in NewIds
                        /\ k[2] = store'[k[1]] /\ k[2] = made[k[1]] + 1
                        /\ k[2] = made'[k[1]]
  BY <1>2, GenerateLemma, NextType DEF BuildPreKeyUploadNode, Keys
<1>5. \A k \in Held \union retry : k \in Keys /\ k[1] \in Ids
  BY DEF TypeOK, Held, Keys
<1>6. GenInv'
  <2>1. \A k \in Held \union retry : 1 <= k[2] /\ k[2] <= made[k[1]] /\ k[2] \in Nat
    BY <1>5 DEF GenInv, Keys, Gens
  <2>2. \A k \in Held \union retry : 1 <= k[2] /\ k[2] <= made'[k[1]]
    BY <1>2, <1>5, <2>1, GenerateLemma, BoundAssumption DEF Gens
  <2>3. \A k \in offer' : 1 <= k[2] /\ k[2] <= made'[k[1]]
    BY <1>2, <1>4, GenerateLemma DEF Keys
  <2>4. QED
    BY <1>1, <2>2, <2>3 DEF GenInv
<1>7. ApartInv'
  <2>1. offer' \intersect (Held \union retry) = {}
    <3> SUFFICES ASSUME NEW k \in offer', k \in Held \union retry PROVE FALSE
      OBVIOUS
    <3>1. k[2] <= made[k[1]] /\ k[2] = made[k[1]] + 1 /\ made[k[1]] \in Nat
      BY <1>2, <1>4, <1>5, GenerateLemma DEF GenInv
    <3>2. QED
      BY <3>1
  <2>2. QED
    BY <1>1, <2>1 DEF ApartInv, BuildPreKeyUploadNode, peerVars
<1>8. \A k \in Keys : k[1] < next /\ Answerable(k) => Answerable(k)'
  BY <1>2, <1>3, GenerateLemma DEF Answerable, Keys, Ids
<1>9. HeldInv'
  BY <1>1, <1>5, <1>8 DEF HeldInv, Settled
<1>10. RetryInv'
  <2>1. saved[1] \in Nat /\ saved[1] <= next
    BY DEF CredInv, TypeOK
  <2>2. QED
    BY <1>1, <1>3, <1>5, <1>8, <2>1 DEF RetryInv, Keys, Ids
<1>11. OfferInv'
  BY <1>1, <1>3, <1>4 DEF OfferInv, Answerable, LastPreKeyId
<1>12. QED
  BY <1>6, <1>7, <1>9, <1>10, <1>11

LEMMA SendUploadInv ==
    ASSUME IInv, SendUpload
    PROVE  GenInv' /\ ApartInv' /\ HeldInv' /\ RetryInv' /\ OfferInv'
<1> USE DEF IInv
<1>1. /\ store' = store /\ made' = made /\ retry' = retry /\ saved' = saved /\ torn' = torn
      /\ unsaved' = unsaved /\ server' = server /\ fetched' = fetched /\ job = "built"
      /\ \/ wire' = wire \union offer /\ offer' = offer /\ job' = "sent"
         \/ wire' = wire /\ offer' = {} /\ job' = "none"
  BY DEF SendUpload
<1>2. /\ next \in Nat /\ next' \in Nat /\ next < next' /\ saved[1] \in Nat /\ saved[1] <= next
      /\ \A k \in offer : k[1] < next'
  <2>1. next' = LastPreKeyId + 1 /\ LastPreKeyId \in Nat /\ LastPreKeyId + 1 > next
    BY BatchLemma DEF SendUpload, Advance
  <2>2. \A k \in offer : k[1] <= LastPreKeyId /\ k[1] \in Nat
    BY <1>1 DEF OfferInv, TypeOK, Keys, Ids
  <2>3. QED
    BY <2>1, <2>2 DEF TypeOK, CredInv
<1>3. Held' \subseteq Held \union offer /\ offer' \subseteq offer
  BY <1>1 DEF Held
<1>4. GenInv'
  BY <1>1, <1>3 DEF GenInv
<1>5. ApartInv'
  BY <1>1 DEF ApartInv, Held
<1>6. HeldInv'
  <2> SUFFICES ASSUME ~torn, NEW k \in Held'
               PROVE  Answerable(k)' /\ k[1] < next' /\ (Settled' => k[1] < saved[1])
    BY <1>1 DEF HeldInv
  <2>1. k[1] \in Nat
    BY <1>3 DEF TypeOK, Held, Keys, Ids
  <2>2. CASE k \in Held
    <3>1. Answerable(k) /\ k[1] < next /\ (~unsaved => k[1] < saved[1])
      BY <1>1, <2>2 DEF HeldInv, Settled
    <3>2. Settled' => ~unsaved
      BY <1>1, <1>2 DEF Settled
    <3>3. QED
      BY <1>1, <1>2, <2>1, <3>1, <3>2 DEF Answerable
  <2>3. CASE k \in offer /\ k \notin Held
    <3>1. Answerable(k) /\ k[1] < next'
      BY <1>1, <1>2, <2>3 DEF OfferInv
    <3>2. job' = "sent" /\ saved'[1] # next'
      BY <1>1, <1>2, <2>3 DEF Held
    <3>3. QED
      BY <1>1, <3>1, <3>2 DEF Answerable, Settled
  <2>4. QED
    BY <1>3, <2>2, <2>3
<1>7. RetryInv' /\ OfferInv'
  BY <1>1 DEF RetryInv, OfferInv, Answerable
<1>8. QED
  BY <1>4, <1>5, <1>6, <1>7

(* Saving the counters only raises what a restart will find; a save that is   *)
(* rejected leaves it as it was, and is remembered.                          *)
LEMMA SaveInv ==
    ASSUME IInv, SaveUpload \/ SaveAtLogin
    PROVE  GenInv' /\ ApartInv' /\ HeldInv' /\ RetryInv' /\ OfferInv'
<1> USE DEF IInv
<1>1. /\ store' = store /\ made' = made /\ retry' = retry /\ torn' = torn
      /\ wire' = wire /\ server' = server /\ fetched' = fetched
      /\ next' = next /\ first' = first
      /\ saved'[1] = next \/ (saved' = saved /\ unsaved' = TRUE)
      /\ (job' = job /\ offer' = offer) \/ (job' = "none" /\ offer' = {})
  BY DEF SaveUpload, SaveAtLogin, jobVars, peerVars
<1>2. saved[1] \in Nat /\ saved[1] <= next /\ next \in Nat
  BY DEF TypeOK, CredInv
<1>3. Held' = Held
  BY <1>1 DEF Held
<1>4. \A k \in Held \union retry \union offer : k[1] \in Nat
  BY DEF TypeOK, Held, Keys, Ids
<1>5. GenInv' /\ ApartInv'
  BY <1>1, <1>3 DEF GenInv, ApartInv
<1>6. HeldInv'
  BY <1>1, <1>3 DEF HeldInv, Answerable, Settled
<1>7. RetryInv'
  BY <1>1, <1>2, <1>4 DEF RetryInv, Answerable
<1>8. OfferInv'
  <2>1. job' = "receipt" => \A k \in offer' : Answerable(k)' /\ k[1] < saved'[1]
    BY <1>1, <1>2, <1>4 DEF OfferInv, Answerable
  <2>2. QED
    BY <1>1, <2>1 DEF OfferInv, Answerable, LastPreKeyId
<1>9. QED
  BY <1>5, <1>6, <1>7, <1>8

LEMMA MintInv ==
    ASSUME IInv, MintRetryPreKey
    PROVE  GenInv' /\ ApartInv' /\ HeldInv' /\ RetryInv' /\ OfferInv'
<1> USE DEF IInv
<1>1. /\ Held' = Held /\ retry' = retry /\ next' = next /\ saved' = saved /\ torn' = torn
      /\ unsaved' = unsaved
      /\ job = "none" /\ job' = "minted" /\ offer' = {<<next, store'[next]>>}
      /\ Generate({next})
  BY DEF MintRetryPreKey, credVars, peerVars, Held
<1>2. /\ next \in Ids /\ store'[next] = made[next] + 1 /\ made'[next] = made[next] + 1
      /\ made[next] \in Nat /\ next \in Nat
  BY <1>1, GenerateLemma DEF TypeOK
<1>3. \A k \in Held \union retry : k \in Keys /\ k[1] \in Ids /\ k[2] \in Nat
  BY BoundAssumption DEF TypeOK, Held, Keys, Gens
<1>4. GenInv'
  <2>1. \A k \in Held \union retry : 1 <= k[2] /\ k[2] <= made'[k[1]]
    BY <1>1, <1>3, GenerateLemma, NextType, BoundAssumption DEF GenInv, Gens
  <2>2. QED
    BY <1>1, <1>2, <2>1 DEF GenInv
<1>5. ApartInv'
  <2>1. <<next, store'[next]>> \notin Held \union retry
    BY <1>2 DEF GenInv
  <2>2. QED
    BY <1>1, <2>1 DEF ApartInv, MintRetryPreKey, peerVars
<1>6. \A k \in Keys : k[1] < next /\ Answerable(k) => Answerable(k)'
  BY <1>1, <1>2, GenerateLemma DEF Answerable, Keys, Ids
<1>7. HeldInv'
  BY <1>1, <1>3, <1>6 DEF HeldInv, Settled
<1>8. RetryInv'
  <2>1. saved[1] \in Nat /\ saved[1] <= next
    BY DEF CredInv, TypeOK
  <2>2. QED
    BY <1>1, <1>2, <1>3, <1>6, <2>1 DEF RetryInv, Ids
<1>9. OfferInv'
  BY <1>1 DEF OfferInv, Answerable
<1>10. QED
  BY <1>4, <1>5, <1>7, <1>8, <1>9

LEMMA SaveMintedInv ==
    ASSUME IInv, SaveMinted
    PROVE  GenInv' /\ ApartInv' /\ HeldInv' /\ RetryInv' /\ OfferInv'
<1> USE DEF IInv
<1>1. /\ store' = store /\ made' = made /\ retry' = retry /\ torn' = torn
      /\ Held' = Held /\ wire' = wire /\ server' = server /\ fetched' = fetched
      /\ next' = next + 1 /\ job = "minted" /\ job' = "receipt"
      /\ \/ saved'[1] = next + 1 /\ offer' = offer
         \/ saved' = saved /\ unsaved' = unsaved /\ offer' = {}
  BY DEF SaveMinted, peerVars, Held
<1>2. saved[1] \in Nat /\ saved[1] <= next /\ next \in Nat
  BY DEF TypeOK, CredInv
<1>3. \A k \in Held \union retry \union offer : k[1] \in Nat
  BY DEF TypeOK, Held, Keys, Ids
<1>4. GenInv' /\ ApartInv'
  BY <1>1 DEF GenInv, ApartInv
<1>5. HeldInv' /\ RetryInv'
  BY <1>1, <1>2, <1>3 DEF HeldInv, RetryInv, Answerable, Settled
<1>6. OfferInv'
  BY <1>1, <1>2, <1>3 DEF OfferInv, Answerable
<1>7. QED
  BY <1>4, <1>5, <1>6

LEMMA ReceiptInv ==
    ASSUME IInv, SendRetryReceipt
    PROVE  GenInv' /\ ApartInv' /\ HeldInv' /\ RetryInv' /\ OfferInv'
<1> USE DEF IInv
<1>1. /\ store' = store /\ made' = made /\ torn' = torn /\ saved' = saved /\ next' = next
      /\ unsaved' = unsaved
      /\ Held' = Held /\ wire' = wire /\ server' = server /\ fetched' = fetched
      /\ offer' = {} /\ job = "receipt" /\ job' = "none"
      /\ retry' \subseteq retry \union offer
  BY DEF SendRetryReceipt, credVars, Held
<1>2. GenInv' /\ ApartInv'
  BY <1>1 DEF GenInv, ApartInv
<1>3. HeldInv' /\ RetryInv' /\ OfferInv'
  BY <1>1 DEF HeldInv, RetryInv, OfferInv, Answerable, Settled
<1>4. QED
  BY <1>2, <1>3

LEMMA PeersInv ==
    ASSUME IInv, ServerTakes \/ \E k \in Keys : PeerFetches(k)
    PROVE  GenInv' /\ ApartInv' /\ HeldInv' /\ RetryInv' /\ OfferInv'
<1> USE DEF IInv
<1>1. UNCHANGED <<next, first, saved, unsaved, store, made, job, offer, retry, torn>>
  BY DEF ServerTakes, PeerFetches, credVars, jobVars
<1>2. Held' \subseteq Held
  BY DEF ServerTakes, PeerFetches, Held
<1>3. ApartInv'
  <2>1. wire' \intersect server' = {} /\ wire' \intersect fetched' = {}
        /\ server' \intersect fetched' = {}
    BY DEF ServerTakes, PeerFetches, ApartInv
  <2>2. QED
    BY <1>1, <1>2, <2>1 DEF ApartInv
<1>4. GenInv'
  BY <1>1, <1>2 DEF GenInv
<1>5. HeldInv' /\ RetryInv'
  BY <1>1, <1>2 DEF HeldInv, RetryInv, Answerable, Settled
<1>6. OfferInv'
  BY <1>1 DEF OfferInv, Answerable, LastPreKeyId
<1>7. QED
  BY <1>3, <1>4, <1>5, <1>6

LEMMA PkmsgInv ==
    ASSUME IInv, NEW k \in Keys, Pkmsg(k)
    PROVE  GenInv' /\ ApartInv' /\ HeldInv' /\ RetryInv' /\ OfferInv'
<1> USE DEF IInv
<1>1. /\ UNCHANGED <<next, first, saved, unsaved, made, job, offer, wire, server, torn>>
      /\ job = "none" /\ k \in fetched \union retry
      /\ fetched' = fetched \ {k} /\ retry' = retry \ {k}
  BY DEF Pkmsg, credVars, jobVars
<1>2. Held' \subseteq Held /\ retry' \subseteq retry /\ Held \union retry \subseteq Keys
  BY <1>1 DEF Held, TypeOK
\* Another key that could be answered still can: it has another id.
<1>3. k \notin Held' \union retry'
  BY <1>1 DEF ApartInv, Held
<1>4. \A d \in Held' \union retry' : Answerable(d) => Answerable(d)'
  <2> SUFFICES ASSUME NEW d \in Held' \union retry', Answerable(d) PROVE Answerable(d)'
    OBVIOUS
  <2>1. d \in Keys /\ d # k
    BY <1>2, <1>3
  <2>2. ~(d[1] = k[1] /\ Answerable(k))
    BY <2>1 DEF Answerable, Keys
  <2>3. QED
    BY <2>1, <2>2, PkmsgStore DEF Answerable, Keys
<1>5. GenInv' /\ ApartInv'
  BY <1>1, <1>2 DEF GenInv, ApartInv
<1>6. HeldInv' /\ RetryInv'
  BY <1>1, <1>2, <1>4 DEF HeldInv, RetryInv, Settled
<1>7. OfferInv'
  BY <1>1 DEF OfferInv
<1>8. QED
  BY <1>5, <1>6, <1>7

(* A restart forgets the counters that were not saved: only an upload that   *)
(* was sent can suffer from it.                                              *)
LEMMA CrashInv ==
    ASSUME IInv, Crash
    PROVE  GenInv' /\ ApartInv' /\ HeldInv' /\ RetryInv' /\ OfferInv'
<1> USE DEF IInv
<1>1. /\ UNCHANGED <<saved, store, made, wire, server, fetched, retry>>
      /\ Held' = Held /\ job' = "none" /\ offer' = {} /\ next' = saved[1]
  BY DEF Crash, peerVars, Held
<1>2. ~torn' => ~torn /\ Settled
  <2>1. saved = <<next, first>> => saved[1] = next
    OBVIOUS
  <2>2. ~torn' => ~torn /\ ~((job = "sent" \/ unsaved) /\ saved # <<next, first>>)
    BY Zenon DEF Crash
  <2>3. QED
    BY <2>1, <2>2, Zenon DEF Settled
<1>3. GenInv' /\ ApartInv'
  BY <1>1 DEF GenInv, ApartInv
<1>4. HeldInv'
  BY <1>1, <1>2 DEF HeldInv, Answerable
<1>5. RetryInv' /\ OfferInv'
  BY <1>1 DEF RetryInv, OfferInv, Answerable
<1>6. QED
  BY <1>3, <1>4, <1>5

LEMMA NextInv == IInv /\ [Next]_vars => IInv'
<1> SUFFICES ASSUME IInv, [Next]_vars PROVE IInv'
  OBVIOUS
<1>1. TypeOK' /\ CredInv'
  BY NextType, NextCreds DEF IInv
<1>2. GenInv' /\ ApartInv' /\ HeldInv' /\ RetryInv' /\ OfferInv'
  <2>1. CASE \/ OnEncryptNotification \/ CountAnswered \/ CountUnknown
             \/ MinIntervalPasses \/ Connect \/ Drop \/ UNCHANGED vars
    BY <2>1, FrameInv
    DEF OnEncryptNotification, CountAnswered, CountUnknown, MinIntervalPasses, Connect,
        Drop, vars, credVars, jobVars, peerVars
  <2>2. CASE BuildPreKeyUploadNode \/ SendUpload \/ SaveUpload \/ SaveAtLogin
    BY <2>2, BuildInv, SendUploadInv, SaveInv
  <2>3. CASE MintRetryPreKey \/ SaveMinted \/ SendRetryReceipt
    BY <2>3, MintInv, SaveMintedInv, ReceiptInv
  <2>4. CASE ServerTakes \/ \E k \in Keys : PeerFetches(k)
    BY <2>4, PeersInv
  <2>5. CASE \E k \in Keys : Pkmsg(k)
    BY <2>5, PkmsgInv
  <2>6. CASE Crash
    BY <2>6, CrashInv
  <2>7. QED
    BY <2>1, <2>2, <2>3, <2>4, <2>5, <2>6 DEF Next
<1>3. QED
  BY <1>1, <1>2 DEF IInv

LEMMA Inductive == Spec => []IInv
<1>1. Init => IInv
  BY InitInv
<1>2. IInv /\ [Next]_vars => IInv'
  BY NextInv
<1>3. QED
  BY <1>1, <1>2, PTL DEF Spec

(* Counters, keys and job phases always have the shape the code gives them   *)
(* (creds and key store of prekeys.ts, top-up of messages.ts).               *)
THEOREM TypeCorrect == Spec => []TypeOK
<1>1. IInv => TypeOK
  BY DEF IInv
<1>2. QED
  BY <1>1, Inductive, PTL

(* Whatever crashes, lost connections and failed receipts do, the private    *)
(* half of a key sent in a retry receipt is there when the peer uses it      *)
(* (mintRetryPreKey saves before sendRetryReceipt sends).                    *)
THEOREM RetryKeysHold == Spec => []RetryKeysAnswerable
<1>1. IInv => RetryKeysAnswerable
  BY DEF IInv, RetryInv, RetryKeysAnswerable
<1>2. QED
  BY <1>1, Inductive, PTL

(* A key the server or a peer holds has its private half here, as long as no *)
(* crash falls between sendNode and saveCreds in uploadPreKeys.              *)
THEOREM HeldKeysHold == Spec => []HeldKeysAnswerable
<1>1. IInv => HeldKeysAnswerable
  BY DEF IInv, HeldInv, HeldKeysAnswerable
<1>2. QED
  BY <1>1, Inductive, PTL


----------------------------------------------------------------------------
(* The server's stock. An upload is decided while nothing is on its way and  *)
(* the server is below the watermark; until it is sent, only peers touch the *)
(* stock, and they only take from it.                                        *)

JobInv == job \in {"built", "sent"} => topUp = "running"
FiniteInv ==
    /\ IsFiniteSet(server) /\ IsFiniteSet(wire)
    /\ job = "built" => IsFiniteSet(offer) /\ Cardinality(offer) <= Batch
LowInv ==
    ~blind /\ (topUp = "queued" \/ job = "built") => wire = {} /\ Cardinality(server) <= Low - 1
StockInv == JobInv /\ FiniteInv /\ LowInv /\ StockBounded

(* One upload is at most a batch: its keys are told apart by their ids.      *)
LEMMA OfferBound ==
    ASSUME TypeOK, CredInv, BuildPreKeyUploadNode
    PROVE  IsFiniteSet(offer') /\ Cardinality(offer') <= Batch
<1> DEFINE f == [k \in offer' |-> k[1]]
<1>1. first \in Int /\ first + Batch - 1 \in Int /\ Batch \in Nat /\ Batch > 0
  BY BatchAssumption DEF TypeOK
<1>2. IsFiniteSet(ListIds) /\ Cardinality(ListIds) = Batch
  <2>1. IsFiniteSet(first..(first + Batch - 1))
        /\ Cardinality(first..(first + Batch - 1)) =
             IF first > first + Batch - 1 THEN 0 ELSE (first + Batch - 1) - first + 1
    BY <1>1, FS_Interval
  <2>2. QED
    BY <1>1, <2>1 DEF ListIds
<1>3. \A k \in offer' : k[1] \in ListIds /\ k = <<k[1], store'[k[1]]>>
  BY DEF BuildPreKeyUploadNode
<1>4. f \in [offer' -> ListIds]
  BY <1>3
<1>5. ASSUME NEW k \in offer', NEW d \in offer', f[k] = f[d] PROVE k = d
  BY <1>3, <1>5
<1>6. f \in Injection(offer', ListIds)
  BY <1>4, <1>5 DEF Injection, IsInjective
<1>7. IsFiniteSet(offer') /\ Cardinality(offer') <= Cardinality(ListIds)
  BY <1>2, <1>6, FS_Injection
<1>8. QED
  BY <1>2, <1>7

LEMMA JobStep == JobInv /\ [Next]_vars => JobInv'
<1> SUFFICES ASSUME JobInv, [Next]_vars PROVE JobInv'
  OBVIOUS
<1> USE DEF JobInv
<1>1. CASE UNCHANGED <<job, topUp>>
  BY <1>1
<1>2. CASE OnEncryptNotification \/ CountAnswered \/ CountUnknown
  BY <1>2 DEF OnEncryptNotification, CountAnswered, CountUnknown
<1>3. CASE BuildPreKeyUploadNode \/ SendUpload \/ SaveUpload \/ Crash
  BY <1>3 DEF BuildPreKeyUploadNode, SendUpload, SaveUpload, Crash
<1>4. CASE MintRetryPreKey \/ SaveMinted \/ SendRetryReceipt
  BY <1>4 DEF MintRetryPreKey, SaveMinted, SendRetryReceipt
<1>5. QED
  BY <1>1, <1>2, <1>3, <1>4
  DEF Next, vars, jobVars, MinIntervalPasses, SaveAtLogin, ServerTakes, PeerFetches, Pkmsg,
      Connect, Drop

LEMMA Taken ==
    ASSUME TypeOK, StockInv, ServerTakes
    PROVE  StockInv'
<1>1. server' \union wire' \subseteq server \union wire /\ wire' = {}
      /\ job' = job /\ topUp' = topUp /\ offer' = offer /\ blind' = blind /\ wire # {}
  BY DEF ServerTakes, jobVars
<1>2. IsFiniteSet(server \union wire)
  BY FS_Union DEF StockInv, FiniteInv
<1>3. IsFiniteSet(server' \union wire')
      /\ Cardinality(server' \union wire') <= Cardinality(server \union wire)
  BY <1>1, <1>2, FS_Subset
<1>4. FiniteInv'
  <2>1. server' = server' \union wire'
    BY <1>1
  <2>2. QED
    BY <1>1, <1>3, <2>1, FS_EmptySet DEF StockInv, FiniteInv
<1>5. JobInv' /\ LowInv'
  BY <1>1 DEF StockInv, JobInv, LowInv
<1>6. StockBounded'
  <2>1. Cardinality(server \union wire) \in Nat /\ Cardinality(server' \union wire') \in Nat
    BY <1>2, <1>3, FS_CardinalityType
  <2>2. QED
    BY <1>1, <1>3, <2>1, LowAssumption, BatchAssumption DEF StockInv, StockBounded
<1>7. QED
  BY <1>4, <1>5, <1>6 DEF StockInv

(* Whoever takes a key, or loses an upload, leaves less.                     *)
LEMMA Shrinks ==
    ASSUME StockInv, JobInv', server' \subseteq server, wire' \subseteq wire,
           job' = "built" => job = "built" /\ offer' = offer,
           blind' = blind, topUp' = "queued" => topUp = "queued"
    PROVE  StockInv'
<1>1. IsFiniteSet(server \union wire) /\ IsFiniteSet(server) /\ IsFiniteSet(wire)
  BY FS_Union DEF StockInv, FiniteInv
<1>2. /\ IsFiniteSet(server') /\ IsFiniteSet(wire') /\ IsFiniteSet(server' \union wire')
      /\ Cardinality(server') <= Cardinality(server)
      /\ Cardinality(server' \union wire') <= Cardinality(server \union wire)
  <2>1. server' \union wire' \in SUBSET (server \union wire)
    OBVIOUS
  <2>2. QED
    BY <1>1, <2>1, FS_Subset
<1>3. /\ Cardinality(server) \in Nat /\ Cardinality(server') \in Nat
      /\ Cardinality(server \union wire) \in Nat /\ Cardinality(server' \union wire') \in Nat
  BY <1>1, <1>2, FS_CardinalityType
<1>4. FiniteInv'
  BY <1>2 DEF StockInv, FiniteInv
<1>5. LowInv'
  BY <1>2, <1>3, LowAssumption DEF StockInv, LowInv
<1>6. StockBounded'
  BY <1>2, <1>3, LowAssumption, BatchAssumption DEF StockInv, StockBounded
<1>7. QED
  BY <1>4, <1>5, <1>6 DEF StockInv

LEMMA StockStep == TypeOK /\ CredInv /\ StockInv /\ [Next]_vars => StockInv'
<1> SUFFICES ASSUME TypeOK, CredInv, StockInv, [Next]_vars PROVE StockInv'
  OBVIOUS
<1>0. JobInv'
  BY JobStep DEF StockInv
<1>1. CASE OnEncryptNotification \/ SaveUpload \/ MinIntervalPasses \/ SaveAtLogin
           \/ MintRetryPreKey \/ SaveMinted \/ SendRetryReceipt \/ Connect \/ Drop \/ Crash
           \/ UNCHANGED vars \/ \E k \in Keys : PeerFetches(k) \/ Pkmsg(k)
  <2>1. /\ server' \subseteq server /\ wire' \subseteq wire /\ blind' = blind
        /\ job' = "built" => job = "built" /\ offer' = offer
        /\ topUp' = "queued" => topUp = "queued"
    BY <1>1
    DEF vars, jobVars, peerVars, OnEncryptNotification, SaveUpload, MinIntervalPasses,
        SaveAtLogin, MintRetryPreKey, SaveMinted, SendRetryReceipt, Connect, Drop, Crash,
        PeerFetches, Pkmsg
  <2>2. QED
    BY <1>0, <2>1, Shrinks
\* The server answers when nothing is on its way: below the watermark is exact.
<1>2. CASE CountAnswered
  <2>1. /\ UNCHANGED <<server, wire, job, offer, blind>> /\ wire = {}
        /\ topUp' = IF Cardinality(server) >= Low THEN "idle" ELSE "queued"
        /\ topUp = "asking"
    BY <1>2 DEF CountAnswered, peerVars
  <2>2. Cardinality(server) \in Nat
    BY FS_CardinalityType DEF StockInv, FiniteInv
  <2>3. LowInv'
    BY <2>1, <2>2, LowAssumption DEF StockInv, LowInv
  <2>4. FiniteInv' /\ StockBounded'
    BY <2>1 DEF StockInv, FiniteInv, StockBounded
  <2>5. QED
    BY <1>0, <2>3, <2>4 DEF StockInv
<1>3. CASE CountUnknown
  BY <1>0, <1>3 DEF CountUnknown, StockInv, FiniteInv, LowInv, StockBounded, peerVars
<1>4. CASE BuildPreKeyUploadNode
  <2>1. UNCHANGED <<server, wire, blind>> /\ topUp = "queued" /\ topUp' = "running"
    BY <1>4 DEF BuildPreKeyUploadNode, peerVars
  <2>2. FiniteInv'
    BY <1>4, <2>1, OfferBound DEF StockInv, FiniteInv
  <2>3. LowInv' /\ StockBounded'
    BY <2>1 DEF StockInv, LowInv, StockBounded
  <2>4. QED
    BY <1>0, <2>2, <2>3 DEF StockInv
<1>5. CASE SendUpload
  <2>1. /\ UNCHANGED <<server, blind>> /\ job = "built" /\ topUp = "running"
        /\ job' # "built" /\ topUp' # "queued"
        /\ wire' = wire \union offer \/ wire' = wire
    BY <1>5 DEF SendUpload, StockInv, JobInv
  <2>2. IsFiniteSet(server) /\ IsFiniteSet(wire) /\ IsFiniteSet(offer)
        /\ Cardinality(offer) <= Batch
    BY <2>1 DEF StockInv, FiniteInv
  <2>3. FiniteInv'
    BY <2>1, <2>2, FS_Union DEF FiniteInv
  <2>4. LowInv'
    BY <2>1 DEF LowInv
  <2>5. StockBounded'
    <3> SUFFICES ASSUME ~blind, wire' = wire \union offer
                 PROVE  Cardinality(server \union wire') <= Low - 1 + Batch
      BY <2>1 DEF StockInv, StockBounded
    <3>1. wire' = offer /\ Cardinality(server) <= Low - 1
      BY <2>1 DEF StockInv, LowInv
    <3>2. Cardinality(server \union offer)
            = Cardinality(server) + Cardinality(offer) - Cardinality(server \intersect offer)
      BY <2>2, FS_Union
    <3>3. Cardinality(server) \in Nat /\ Cardinality(offer) \in Nat
          /\ Cardinality(server \intersect offer) \in Nat
      <4>1. IsFiniteSet(server \intersect offer)
        BY <2>2, FS_Subset
      <4>2. QED
        BY <2>2, <4>1, FS_CardinalityType
    <3>4. Cardinality(server \union offer) <= Low - 1 + Batch
      BY <2>2, <3>1, <3>2, <3>3, LowAssumption, BatchAssumption
    <3>5. QED
      BY <3>1, <3>4, Zenon
  <2>6. QED
    BY <1>0, <2>3, <2>4, <2>5 DEF StockInv
<1>6. CASE ServerTakes
  BY <1>6, Taken
<1>7. QED
  BY <1>1, <1>2, <1>3, <1>4, <1>5, <1>6 DEF Next

(* As long as the server answers the count, it never holds more one-time     *)
(* keys than it had below the watermark and one batch, however connections,  *)
(* crashes, peers and repeated notifications fall (onEncryptNotification).   *)
THEOREM StockIsBounded == Spec => []StockBounded
<1>1. Init => StockInv
  <2> SUFFICES ASSUME Init PROVE StockInv
    OBVIOUS
  <2>1. /\ server = {} /\ wire = {} /\ job = "none" /\ topUp = "idle"
        /\ server \union wire = {}
    BY DEF Init
  <2>2. FiniteInv /\ JobInv /\ LowInv
    BY <2>1, FS_EmptySet DEF FiniteInv, JobInv, LowInv
  <2>3. Cardinality(server \union wire) = 0 /\ 0 <= Low - 1 + Batch
    BY <2>1, FS_EmptySet, LowAssumption, BatchAssumption
  <2>4. QED
    BY <2>2, <2>3 DEF StockInv, StockBounded
<1>2. IInv => TypeOK /\ CredInv
  BY DEF IInv
<1>3. StockInv => StockBounded
  BY DEF StockInv
<1>4. QED
  BY <1>1, <1>2, <1>3, StockStep, Inductive, PTL DEF Spec
=============================================================================
