--------------------------- MODULE SignalSession ---------------------------
(* The 1:1 Signal sessions of two parties that run this code: X3DH          *)
(* (signal/session-builder.ts), the double ratchet (session-cipher.ts), the *)
(* record that holds several sessions (session-record.ts), the cold send    *)
(* and the healing of desynchronised sessions (messages.ts).                *)
(*                                                                          *)
(* Keys are tokens: <<p, n>> is the n-th ratchet key of p, <<p, 0>> its     *)
(* signed pre-key, <<p, -n>> its n-th base key.  A root or chain key is the *)
(* base key of its X3DH and the Diffie-Hellman pairs mixed in since.        *)
(* Signal operations run one at a time (`serial`), and the key store is     *)
(* durable (AuthLog), so an operation is one step; the server may lose,     *)
(* delay, reorder and repeat messages.  Identities do not change.           *)
EXTENDS Integers, Sequences, FiniteSets

CONSTANTS
    Parties,      \* the two ends
    Window,       \* 2000: how far fillMessageKeys goes ahead
    HealAt,       \* SESSION_HEAL_THRESHOLD
    MaxInits,     \* bound: sessions the two open
    MaxAsks,      \* bound: bundle queries a party has in flight
    MaxKeys,      \* bound: ratchet keys a party generates
    MaxSent       \* bound: messages sent

ASSUME PartiesAssumption == \E a, b \in Parties : a # b /\ Parties = {a, b}
ASSUME WindowAssumption == Window \in Nat \ {0}
ASSUME HealAssumption == HealAt \in Nat \ {0}

VARIABLES
    rec,          \* the SessionRecord each keeps for the other, last used first
    asking,       \* assertSessions calls that wait for a bundle
    inits,        \* sessions each has opened
    keys,         \* ratchet keys each has generated
    streak,       \* decryptFailStreak
    keyed,        \* base keys of the sessions made with a one-time pre-key
    spent,        \* those whose one-time pre-key was removed
    sent,         \* every message sent
    opened,       \* history: the messages decrypted
    forgot,       \* history: sessions healSession deleted, and a pkmsg can start again
    stray         \* history: a failed attempt on a session was stored

setupVars == <<asking, inits, keyed>>
historyVars == <<opened, forgot, stray>>
vars == <<rec, setupVars, keys, streak, spent, sent, historyVars>>

Peer(p) == CHOOSE q \in Parties : q # p
SignedPreKey(p) == <<p, 0>>

Init ==
    /\ rec = [p \in Parties |-> << >>]
    /\ asking = [p \in Parties |-> 0]
    /\ inits = [p \in Parties |-> 0]
    /\ keys = [p \in Parties |-> 0]
    /\ streak = [p \in Parties |-> 0]
    /\ keyed = {} /\ spent = {} /\ sent = {}
    /\ opened = {} /\ forgot = {} /\ stray = FALSE

----------------------------------------------------------------------------
(* Chains and sessions. *)

Secret(base, pairs) == [base |-> base, pairs |-> pairs]
Mixed(secret, k1, k2) == [secret EXCEPT !.pairs = Append(@, {k1, k2})]

NewChain(sending, secret) ==
    [sending |-> sending, secret |-> secret, live |-> TRUE, counter |-> -1, kept |-> {}]

\* fillMessageKeys throws when the chain would go too far, or is closed.
CanFill(c, n) == c.counter >= n \/ (c.live /\ n - c.counter <= Window)
Filled(c, n) ==
    IF c.counter >= n THEN c
    ELSE [c EXCEPT !.counter = n, !.kept = @ \union (c.counter + 1)..n]

Has(s, k) == k \in DOMAIN s.chains

\* initSession for the side that opens: the first sending chain comes with it.
OutgoingSession(p, base, key) ==
    LET root == Mixed(Secret(base, << >>), key, SignedPreKey(Peer(p)))
    IN  [base |-> base, closed |-> FALSE, pending |-> TRUE, root |-> root,
         ours |-> key, remote |-> SignedPreKey(Peer(p)), previous |-> 0,
         chains |-> [k \in {key} |-> NewChain(TRUE, root)]]

\* initSession for the side that answers: no chain until the first ratchet step.
IncomingSession(p, base) ==
    [base |-> base, closed |-> FALSE, pending |-> FALSE, root |-> Secret(base, << >>),
     ours |-> SignedPreKey(p), remote |-> base, previous |-> 0,
     chains |-> [k \in {} |-> NewChain(TRUE, Secret(base, << >>))]]

Closed(r) == [i \in DOMAIN r |-> [r[i] EXCEPT !.closed = TRUE]]
OpenAt(r) == {i \in DOMAIN r : ~r[i].closed}
Bases(r) == {r[i].base : i \in DOMAIN r}
At(r, base) == CHOOSE i \in DOMAIN r : r[i].base = base

\* setSession of a new entry, or a new `used` time for the i-th: it comes first.
Used(r, i, s) == <<s>> \o [j \in 1..(Len(r) - 1) |-> IF j < i THEN r[j] ELSE r[j + 1]]
Entered(r, s) == <<s>> \o Closed(r)

----------------------------------------------------------------------------
(* doDecryptWhisperMessage on one session. *)

\* maybeStepRatchet throws, before any change, when the old chain cannot be filled.
CanStep(s, m) == Has(s, s.remote) => CanFill(s.chains[s.remote], m.previous)

\* Mutant: the old chain is closed without its missing keys.
StepLosesKeys(s, m, key) ==
    LET received == Mixed(s.root, m.key, s.ours)
        sending  == Mixed(received, m.key, key)
        others   == DOMAIN s.chains \ {s.ours}
    IN  [s EXCEPT
            !.chains = [k \in others \union {m.key, key} |->
                IF k = m.key THEN NewChain(FALSE, received)
                ELSE IF k = key THEN NewChain(TRUE, sending)
                ELSE IF k = s.remote THEN [s.chains[k] EXCEPT !.live = FALSE]
                ELSE s.chains[k]],
            !.root = sending, !.ours = key, !.remote = m.key,
            !.previous = IF Has(s, s.ours) THEN s.chains[s.ours].counter ELSE @]

StepRatchet(s, m, key) ==
    LET received == Mixed(s.root, m.key, s.ours)
        sending  == Mixed(received, m.key, key)
        others   == DOMAIN s.chains \ {s.ours}
    IN  [s EXCEPT
            !.chains = [k \in others \union {m.key, key} |->
                IF k = m.key THEN NewChain(FALSE, received)
                ELSE IF k = key THEN NewChain(TRUE, sending)
                ELSE IF k = s.remote THEN [Filled(s.chains[k], m.previous) EXCEPT !.live = FALSE]
                ELSE s.chains[k]],
            !.root = sending, !.ours = key, !.remote = m.key,
            !.previous = IF Has(s, s.ours) THEN s.chains[s.ours].counter ELSE @]

\* Mutant: the key of a message is not deleted once used.
OpenKeepsKey(s, m) ==
    LET c == s.chains[m.key]
    IN  IF c.sending \/ ~CanFill(c, m.counter) \/ m.counter \notin Filled(c, m.counter).kept
        THEN [opens |-> FALSE, session |-> s]
        ELSE [opens |-> c.secret = m.secret,
              session |-> [s EXCEPT !.chains[m.key] = Filled(c, m.counter),
                                    !.pending = @ /\ c.secret # m.secret]]

\* The receiving chain is there; the key of the message goes before the MAC is checked.
OpenOnChain(s, m) ==
    LET c == s.chains[m.key]
        f == Filled(c, m.counter)
    IN  IF c.sending \/ ~CanFill(c, m.counter) \/ m.counter \notin f.kept
        THEN [opens |-> FALSE, session |-> s]
        ELSE [opens |-> c.secret = m.secret,
              session |-> [s EXCEPT !.chains[m.key] = [f EXCEPT !.kept = @ \ {m.counter}],
                                    !.pending = @ /\ c.secret # m.secret]]

\* Whether `m` opens on `s`, and what `s` becomes; `key` is a new ratchet key.
Try(s, m, key) ==
    IF Has(s, m.key) THEN OpenOnChain(s, m)
    ELSE IF CanStep(s, m) THEN OpenOnChain(StepRatchet(s, m, key), m)
    ELSE [opens |-> FALSE, session |-> s]

----------------------------------------------------------------------------
(* What a record makes of a message. *)

From(m) == m.key[1]

\* Attempts generate ratchet keys one after the other.
KeyFor(p, i, m) ==
    <<p, keys[p] + Cardinality({j \in 1..i : ~Has(rec[p][j], m.key)})>>
Tries(p, m) == [i \in DOMAIN rec[p] |-> Try(rec[p][i], m, KeyFor(p, i, m))]
Serves(p, m) == {i \in DOMAIN rec[p] : Tries(p, m)[i].opens}
First(S) == CHOOSE i \in S : \A j \in S : i <= j

Held(p, m) == m.secret.base \in Bases(rec[p])

\* The session of a pkmsg: the one it made before, or a new one if its one-time
\* pre-key is still there.
Startable(p, m) == Held(p, m) \/ m.secret.base \notin spent
PkmsgSession(p, m) ==
    IF Held(p, m) THEN rec[p][At(rec[p], m.secret.base)]
    ELSE IncomingSession(p, m.secret.base)
PkmsgTry(p, m) == Try(PkmsgSession(p, m), m, <<p, keys[p] + 1>>)

Opens(p, m) ==
    IF m.wrapped THEN Startable(p, m) /\ PkmsgTry(p, m).opens
    ELSE Serves(p, m) # {}

----------------------------------------------------------------------------
(* Opening a session: assertSessions and initOutgoing. *)

\* The record is read outside `serial`: two sends to a new contact both ask.
Ask(p) ==
    /\ OpenAt(rec[p]) = {}
    /\ asking[p] < MaxAsks
    /\ inits[p] + asking[p] + inits[Peer(p)] + asking[Peer(p)] < MaxInits
    /\ asking' = [asking EXCEPT ![p] = @ + 1]
    /\ UNCHANGED <<rec, inits, keyed, keys, streak, spent, sent, historyVars>>

\* The query fails, or answers with no bundle.
NoBundle(p) ==
    /\ asking[p] > 0
    /\ asking' = [asking EXCEPT ![p] = @ - 1]
    /\ UNCHANGED <<rec, inits, keyed, keys, streak, spent, sent, historyVars>>

\* Mutant: the session that was open stays open.
InitLeavesOpen(p) ==
    LET base == <<p, -(inits[p] + 1)>> IN
    /\ asking[p] > 0
    /\ asking' = [asking EXCEPT ![p] = @ - 1]
    /\ inits' = [inits EXCEPT ![p] = @ + 1]
    /\ keys' = [keys EXCEPT ![p] = @ + 1]
    /\ rec' = [rec EXCEPT ![p] = <<OutgoingSession(p, base, <<p, keys[p] + 1>>)>> \o @]
    /\ keyed' \in {keyed, keyed \union {base}}
    /\ UNCHANGED <<streak, spent, sent, historyVars>>

\* The bundle has a one-time pre-key or not; whatever was open is closed.
InitOutgoing(p) ==
    LET base == <<p, -(inits[p] + 1)>> IN
    /\ asking[p] > 0
    /\ asking' = [asking EXCEPT ![p] = @ - 1]
    /\ inits' = [inits EXCEPT ![p] = @ + 1]
    /\ keys' = [keys EXCEPT ![p] = @ + 1]
    /\ rec' = [rec EXCEPT ![p] = Entered(@, OutgoingSession(p, base, <<p, keys[p] + 1>>))]
    /\ keyed' \in {keyed, keyed \union {base}}
    /\ UNCHANGED <<streak, spent, sent, historyVars>>

----------------------------------------------------------------------------
(* encrypt and sendMessage. *)

Current(p) == CHOOSE i \in OpenAt(rec[p]) : TRUE
CanSend(p) ==
    /\ OpenAt(rec[p]) # {}
    /\ LET s == rec[p][Current(p)] IN Has(s, s.ours) /\ s.chains[s.ours].sending

Encrypted(p) ==
    LET s == rec[p][Current(p)]
        c == s.chains[s.ours]
    IN  [wrapped |-> s.pending, key |-> s.ours, counter |-> c.counter + 1,
         previous |-> s.previous, secret |-> c.secret]

\* Mutant: the message leaves and the advanced chain is not stored.
SendUnstored(p) ==
    /\ CanSend(p) /\ Cardinality(sent) < MaxSent
    /\ sent' = sent \union {Encrypted(p)}
    /\ UNCHANGED <<rec, setupVars, keys, streak, spent, historyVars>>

\* The record is stored before the message leaves.
Send(p) ==
    /\ CanSend(p) /\ Cardinality(sent) < MaxSent
    /\ sent' = sent \union {Encrypted(p)}
    /\ LET s == rec[p][Current(p)] IN
       rec' = [rec EXCEPT ![p] =
                  Used(@, Current(p), [s EXCEPT !.chains[s.ours].counter = @ + 1])]
    /\ UNCHANGED <<setupVars, keys, streak, spent, historyVars>>

----------------------------------------------------------------------------
(* decryptWhisperMessage and decryptPreKeyWhisperMessage, with the handler  *)
(* around them.  A pkmsg that does not open changes nothing, streak         *)
(* included.                                                                *)

\* Sessions are tried in turn; what the failed attempts did to theirs is stored with
\* the one that opens.
OpenMsg(p, m) ==
    LET tries == Tries(p, m)
        i     == First(Serves(p, m))
    IN  /\ ~m.wrapped /\ Serves(p, m) # {}
        /\ rec' = [rec EXCEPT ![p] =
              Used([j \in DOMAIN @ |-> IF j < i THEN tries[j].session ELSE @[j]], i,
                   tries[i].session)]
        /\ KeyFor(p, i, m)[2] <= MaxKeys
        /\ keys' = [keys EXCEPT ![p] = KeyFor(p, i, m)[2]]
        /\ streak' = [streak EXCEPT ![p] = 0]
        /\ opened' = opened \union {m}
        /\ stray' = (stray \/ \E j \in 1..(i - 1) : tries[j].session # rec[p][j])
        /\ UNCHANGED <<setupVars, spent, sent, forgot>>

\* Nothing is stored; HealAt failures in a row delete the record.
FailMsg(p, m) ==
    /\ ~m.wrapped /\ Serves(p, m) = {}
    /\ \/ /\ streak[p] + 1 < HealAt
          /\ streak' = [streak EXCEPT ![p] = @ + 1]
          /\ UNCHANGED <<rec, forgot>>
       \/ /\ streak[p] + 1 >= HealAt
          /\ streak' = [streak EXCEPT ![p] = 0]
          /\ rec' = [rec EXCEPT ![p] = << >>]
          /\ forgot' = forgot \union {k \in Bases(rec[p]) \ spent : k[1] # p}
    /\ UNCHANGED <<setupVars, keys, spent, sent, opened, stray>>

\* The record with the session of the pkmsg `m` after the attempt.  `used` stays.
Joined(p, m) ==
    IF Held(p, m)
    THEN [rec[p] EXCEPT ![At(rec[p], m.secret.base)] = PkmsgTry(p, m).session]
    ELSE Entered(rec[p], PkmsgTry(p, m).session)

StorePkmsg(p, m) ==
    /\ keys[p] < MaxKeys
    /\ m.wrapped /\ Startable(p, m) /\ PkmsgTry(p, m).opens
    /\ rec' = [rec EXCEPT ![p] = Joined(p, m)]
    /\ keys' = [keys EXCEPT ![p] = @ + IF Has(PkmsgSession(p, m), m.key) THEN 0 ELSE 1]
    /\ streak' = [streak EXCEPT ![p] = 0]
    /\ opened' = opened \union {m}
    /\ UNCHANGED <<inits, keyed, sent, forgot, stray>>

\* Mutant: a pre-key is removed that the X3DH did not use.
SpendAny(p, m) ==
    /\ StorePkmsg(p, m)
    /\ spent' = IF Held(p, m) THEN spent ELSE spent \union {m.secret.base}
    /\ UNCHANGED asking

OpenPkmsg(p, m) ==
    /\ StorePkmsg(p, m)
    /\ spent' = IF Held(p, m) THEN spent ELSE spent \union ({m.secret.base} \intersect keyed)
    /\ UNCHANGED asking

\* The process dies after the session is stored and before the pre-key is removed.
CrashInPkmsg(p, m) ==
    /\ StorePkmsg(p, m)
    /\ ~Held(p, m) /\ m.secret.base \in keyed
    /\ asking' = [asking EXCEPT ![p] = 0]
    /\ UNCHANGED spent

Restart(p) ==
    /\ asking[p] + streak[p] > 0
    /\ asking' = [asking EXCEPT ![p] = 0]
    /\ streak' = [streak EXCEPT ![p] = 0]
    /\ UNCHANGED <<rec, inits, keyed, keys, spent, sent, historyVars>>

Next ==
    \E p \in Parties :
        \/ Ask(p) \/ NoBundle(p) \/ InitOutgoing(p) \/ Send(p) \/ Restart(p)
        \/ \E m \in {x \in sent : From(x) # p} :
              OpenMsg(p, m) \/ FailMsg(p, m) \/ OpenPkmsg(p, m) \/ CrashInPkmsg(p, m)

Spec == Init /\ [][Next]_vars

----------------------------------------------------------------------------

Tokens == Parties \X Int
Secrets == [base : Tokens, pairs : Seq(SUBSET Tokens)]
Chain == [sending : BOOLEAN, secret : Secrets, live : BOOLEAN,
          counter : Int, kept : SUBSET Int]
Message == [wrapped : BOOLEAN, key : Tokens, counter : Int, previous : Int,
            secret : Secrets]
TypeSession(s) ==
    /\ {s.base, s.ours, s.remote} \subseteq Tokens
    /\ s.closed \in BOOLEAN /\ s.pending \in BOOLEAN
    /\ s.root \in Secrets /\ s.previous \in Int
    /\ DOMAIN s.chains \subseteq Tokens
    /\ \A k \in DOMAIN s.chains : s.chains[k] \in Chain

TypeOK ==
    /\ \A p \in Parties : \A i \in DOMAIN rec[p] : TypeSession(rec[p][i])
    /\ {asking, inits, keys, streak} \subseteq [Parties -> Nat]
    /\ keyed \subseteq Tokens /\ spent \subseteq keyed /\ forgot \subseteq Tokens
    /\ sent \subseteq Message /\ opened \subseteq sent
    /\ stray \in BOOLEAN

\* However sends, answers and failed attempts cross, a record that holds sessions has
\* exactly one open, and that one can encrypt: getOpenSession never has to choose.
OneUsableSession ==
    \A p \in Parties : rec[p] # << >> => Cardinality(OpenAt(rec[p])) = 1 /\ CanSend(p)

\* encrypt never uses the key of a message twice: what it would send now is under a
\* key that protects no message sent.
FreshMessageKeys ==
    \A p \in Parties : CanSend(p) =>
        \A m \in sent : <<m.secret, m.counter>> # <<Encrypted(p).secret, Encrypted(p).counter>>

\* A message that was decrypted does not decrypt again, however often and late it
\* comes back: unless healSession deleted its session and a pkmsg could start it again
\* (its X3DH used no one-time pre-key, or a crash kept that from being removed).
AtMostOnce ==
    \A m \in opened :
        Opens(Peer(From(m)), m) => m.secret.base \in forgot

\* No message is further ahead of what the receiver has seen than the window.
Near(p, m) ==
    LET s == PkmsgSession(p, m)
        c == s.chains[m.key]
    IN  IF Has(s, m.key) THEN m.counter - c.counter <= Window
        ELSE /\ m.counter < Window
             /\ Has(s, s.remote) => m.previous - s.chains[s.remote].counter <= Window

\* A message of a session the receiver holds, or that can still start it.
Deliverable(p, m) ==
    /\ m \notin opened /\ m.secret.base \notin forgot
    /\ Held(p, m) \/ (m.wrapped /\ m.secret.base \notin spent)
    /\ Near(p, m)

\* Late, reordered and early messages, of the open session or a closed one, all open:
\* as long as no failed attempt on another session was stored.
HeldSessionsOpen ==
    ~stray => \A m \in sent : LET p == Peer(From(m)) IN Deliverable(p, m) => Opens(p, m)

\* A message of a session that is held opens, whatever arrived before it: "a aberta +
\* as fechadas, para decifrar mensagens fora de ordem ou de uma sessão antiga"
\* (session-record.ts).
LateMessagesOpen ==
    \A m \in sent : LET p == Peer(From(m)) IN Deliverable(p, m) => Opens(p, m)
============================================================================
