------------------------ MODULE SignalSession_proofs ------------------------
(* Proofs about SignalSession: one usable session per record, message keys  *)
(* that are never used twice, messages that never open twice, and the two   *)
(* ends of a session that agree, so that late messages open, for any        *)
(* window, threshold and bounds.                                            *)
EXTENDS SignalSession, FiniteSetTheorems, SequenceTheorems, WellFoundedInduction, NaturalsInduction, TLAPS

(* What is true of a session of `p` when the ratchet keys generated are `ks`. *)
OldTo(ks, t) == t[2] <= ks[t[1]]
OldSecret(ks, x) == \A n \in 1..Len(x.pairs) : \A t \in x.pairs[n] : OldTo(ks, t)

ChainMaps == UNION {[D -> Chain] : D \in SUBSET Tokens}
Session ==
    [base : Tokens, closed : BOOLEAN, pending : BOOLEAN, root : Secrets,
     ours : Tokens, remote : Tokens, previous : Int, chains : ChainMaps]

Good(p, ks, s) ==
    /\ s \in Session
    /\ s.ours[1] = p /\ OldTo(ks, s.ours)
    /\ s.root.base = s.base /\ OldSecret(ks, s.root)
    /\ \A k \in DOMAIN s.chains :
          /\ s.chains[k].secret.base = s.base
          /\ OldSecret(ks, s.chains[k].secret)
          /\ s.chains[k].sending => k = s.ours
    /\ s.pending => s.base[1] = p

SendChain(s) == s.chains[s.ours]
Usable(s) == Has(s, s.ours) /\ SendChain(s).sending

OldBase(is, b) == -b[2] <= is[b[1]]

(* The key of `m` is used up on `s`. *)
Spoken(s, m) ==
    /\ s.base = m.secret.base /\ Has(s, m.key)
    /\ m.counter <= s.chains[m.key].counter
    /\ m.counter \notin s.chains[m.key].kept

(* What keeps `m` from opening again at `p`, whose record is `r`: it was    *)
(* forgotten, its key is used up, or its session is gone and cannot start.  *)
ShutFor(p, r, gone, forgotten, m) ==
    \/ m.secret.base \in forgotten
    \/ \E i \in DOMAIN r : Spoken(r[i], m)
    \/ /\ m.secret.base \notin Bases(r)
       /\ m.secret.base \in gone \/ m.secret.base[1] = p

Shape ==
    /\ rec \in [Parties -> Seq(Session)]
    /\ asking \in [Parties -> Nat] /\ inits \in [Parties -> Nat]
    /\ keys \in [Parties -> Nat] /\ streak \in [Parties -> Nat]
    /\ keyed \subseteq Tokens /\ spent \subseteq keyed /\ forgot \subseteq Tokens
    /\ sent \subseteq Message /\ opened \subseteq sent
    /\ stray \in BOOLEAN

SessionsInv ==
    \A p \in Parties : \A i \in DOMAIN rec[p] :
        Good(p, keys, rec[p][i]) /\ Usable(rec[p][i])

OpenInv ==
    \A p \in Parties : rec[p] # << >> => \E i \in DOMAIN rec[p] : OpenAt(rec[p]) = {i}

BasesInv ==
    \A p \in Parties : \A i \in DOMAIN rec[p] :
        /\ OldBase(inits, rec[p][i].base)
        /\ \A j \in DOMAIN rec[p] : rec[p][i].base = rec[p][j].base => i = j

(* A message of a party that has made the keys `ks` and the sessions `is`. *)
SentWith(ks, is, m) ==
    /\ OldTo(ks, m.key) /\ OldSecret(ks, m.secret) /\ OldBase(is, m.secret.base)
    /\ m.wrapped => m.secret.base[1] = From(m)

SentInv == \A m \in sent : SentWith(keys, inits, m)

(* The chains that send in `r` are past `m`. *)
Past(r, m) ==
    \A i \in DOMAIN r :
        m.secret = SendChain(r[i]).secret => m.counter <= SendChain(r[i]).counter

AheadInv == \A p \in Parties : \A m \in sent : Past(rec[p], m)

ApartInv ==
    \A p, q \in Parties : \A i \in DOMAIN rec[p], j \in DOMAIN rec[q] :
        SendChain(rec[p][i]).secret = SendChain(rec[q][j]).secret => p = q /\ i = j

OpenedInv ==
    \A m \in opened : \A p \in Parties \ {From(m)} : ShutFor(p, rec[p], spent, forgot, m)

Inv ==
    /\ Shape /\ SessionsInv /\ OpenInv /\ BasesInv /\ SentInv /\ AheadInv
    /\ ApartInv /\ OpenedInv

-----------------------------------------------------------------------------
(* The two parties, chains and secrets. *)

LEMMA Peers ==
  ASSUME NEW p \in Parties
  PROVE  Peer(p) \in Parties /\ Peer(p) # p /\ \A q \in Parties : q # p => q = Peer(p)
<1>1. PICK a, b \in Parties : a # b /\ Parties = {a, b}
  BY PartiesAssumption
<1>2. \E q \in Parties : q # p
  BY <1>1
<1>3. Peer(p) \in Parties /\ Peer(p) # p
  BY <1>2 DEF Peer
<1>4. QED
  BY <1>1, <1>3

LEMMA Mixing ==
  ASSUME NEW x \in Secrets, NEW k \in Tokens, NEW l \in Tokens, NEW ks,
         OldSecret(ks, x), OldTo(ks, k), OldTo(ks, l)
  PROVE  LET y == Mixed(x, k, l)
         IN  /\ y \in Secrets /\ y.base = x.base /\ OldSecret(ks, y)
             /\ Len(y.pairs) > 0 /\ y.pairs[Len(y.pairs)] = {k, l}
<1> DEFINE y == Mixed(x, k, l)
<1>1. x.base \in Tokens /\ x.pairs \in Seq(SUBSET Tokens)
  BY DEF Secrets
<1>2. PICK s \in Seq(SUBSET Tokens) : s = x.pairs
  BY <1>1
<1>3. y.base = x.base /\ y.pairs = Append(s, {k, l})
  BY <1>2 DEF Mixed, Secrets
<1>4. y \in Secrets
  BY <1>1, <1>2 DEF Mixed, Secrets
<1>5. /\ Len(Append(s, {k, l})) = Len(s) + 1 /\ Len(s) \in Nat
      /\ Append(s, {k, l})[Len(s) + 1] = {k, l}
      /\ \A n \in 1..Len(s) : Append(s, {k, l})[n] = s[n]
  OBVIOUS
<1>6. ASSUME NEW n \in 1..(Len(s) + 1) PROVE \A t \in Append(s, {k, l})[n] : OldTo(ks, t)
  <2>1. CASE n = Len(s) + 1
    BY <1>5, <2>1
  <2>2. CASE n # Len(s) + 1
    <3>1. n \in 1..Len(s)
      BY <1>5, <2>2
    <3>2. QED
      BY <1>2, <1>5, <3>1 DEF OldSecret
  <2>3. QED
    BY <2>1, <2>2
<1>7. OldSecret(ks, y)
  BY <1>3, <1>5, <1>6 DEF OldSecret
<1>8. QED
  BY <1>3, <1>4, <1>5, <1>7

(* `d` is what `c` may become: no key comes back that was passed and not kept. *)
Later(c, d) ==
    /\ d.secret = c.secret /\ d.sending = c.sending
    /\ c.counter <= d.counter
    /\ \A n \in Int : n <= c.counter /\ n \notin c.kept => n \notin d.kept

LEMMA Filling ==
  ASSUME NEW c \in Chain, NEW n \in Int
  PROVE  /\ Filled(c, n) \in Chain /\ Later(c, Filled(c, n))
         /\ n <= Filled(c, n).counter
<1>1. c.counter \in Int /\ c.kept \subseteq Int
  BY DEF Chain
<1>2. CASE c.counter >= n
  BY <1>1, <1>2 DEF Filled, Later
<1>3. CASE ~(c.counter >= n)
  <2>1. PICK f : f = [c EXCEPT !.counter = n, !.kept = @ \union (c.counter + 1)..n]
    OBVIOUS
  <2>2. f = Filled(c, n)
    BY <1>3, <2>1 DEF Filled
  <2>3. /\ f.counter = n /\ f.kept = c.kept \union (c.counter + 1)..n
        /\ f.secret = c.secret /\ f.sending = c.sending
    BY <2>1 DEF Chain
  <2>4. (c.counter + 1)..n \subseteq Int
    BY <1>1
  <2>5. f \in Chain
    BY <1>1, <2>1, <2>4 DEF Chain
  <2>6. Later(c, f)
    BY <1>1, <1>3, <2>3 DEF Later
  <2>7. QED
    BY <2>2, <2>3, <2>5, <2>6
<1>4. QED
  BY <1>2, <1>3

LEMMA LaterTransitive ==
  ASSUME NEW c \in Chain, NEW d \in Chain, NEW e \in Chain, Later(c, d), Later(d, e)
  PROVE  Later(c, e)
<1>1. c.counter \in Int /\ d.counter \in Int /\ e.counter \in Int
  BY DEF Chain
<1>2. QED
  BY <1>1 DEF Later

LEMMA LaterReflexive == ASSUME NEW c \in Chain PROVE Later(c, c)
<1>1. c.counter \in Int
  BY DEF Chain
<1>2. QED
  BY <1>1 DEF Later

-----------------------------------------------------------------------------
(* One session: a turn of the ratchet, a message on a chain, a whole attempt. *)

(* The chains of `s` are those of `t`, and possibly later: all but its own.  *)
Keeps(p, s, t) ==
    /\ t.base = s.base
    /\ \A k \in DOMAIN s.chains : k[1] # p =>
          k \in DOMAIN t.chains /\ Later(s.chains[k], t.chains[k])

(* `t` sends on a chain that the ratchet key `key` of its party made. *)
SendsUnder(t, key) ==
    LET x == SendChain(t).secret
    IN  /\ Len(x.pairs) > 0 /\ key \in x.pairs[Len(x.pairs)]
        /\ \A k \in x.pairs[Len(x.pairs)] : k[1] = key[1] => k = key

Received(s, m) == Mixed(s.root, m.key, s.ours)
Sending(s, m, key) == Mixed(Received(s, m), m.key, key)
TurnedChains(s, m, key) ==
    [k \in (DOMAIN s.chains \ {s.ours}) \union {m.key, key} |->
        IF k = m.key THEN NewChain(FALSE, Received(s, m))
        ELSE IF k = key THEN NewChain(TRUE, Sending(s, m, key))
        ELSE IF k = s.remote THEN [Filled(s.chains[k], m.previous) EXCEPT !.live = FALSE]
        ELSE s.chains[k]]

LEMMA Fields ==
  ASSUME NEW s \in Session
  PROVE  /\ s.base \in Tokens /\ s.closed \in BOOLEAN /\ s.pending \in BOOLEAN
         /\ s.root \in Secrets /\ s.ours \in Tokens /\ s.remote \in Tokens
         /\ s.previous \in Int /\ DOMAIN s.chains \subseteq Tokens
         /\ \A k \in DOMAIN s.chains : s.chains[k] \in Chain
<1>1. s.chains \in ChainMaps
  BY DEF Session
<1>2. PICK D \in SUBSET Tokens : s.chains \in [D -> Chain]
  BY <1>1 DEF ChainMaps
<1>3. DOMAIN s.chains \subseteq Tokens /\ \A k \in DOMAIN s.chains : s.chains[k] \in Chain
  BY <1>2
<1>4. QED
  BY <1>3 DEF Session

LEMMA NewChains ==
  ASSUME NEW x \in Secrets, NEW b \in BOOLEAN
  PROVE  /\ NewChain(b, x) \in Chain /\ NewChain(b, x).secret = x
         /\ NewChain(b, x).sending = b /\ NewChain(b, x).counter = -1
         /\ NewChain(b, x).kept = {}
BY DEF NewChain, Chain

LEMMA Turning ==
  ASSUME NEW s \in Session, NEW m \in Message, NEW key \in Tokens,
         Received(s, m) \in Secrets, Sending(s, m, key) \in Secrets
  PROVE  LET t == TurnedChains(s, m, key)
         IN  /\ t \in ChainMaps /\ m.key \in DOMAIN t /\ key \in DOMAIN t
             /\ t[m.key] = NewChain(FALSE, Received(s, m))
             /\ key # m.key => t[key] = NewChain(TRUE, Sending(s, m, key))
             /\ DOMAIN t = (DOMAIN s.chains \ {s.ours}) \union {m.key, key}
             /\ \A k \in DOMAIN t \ {m.key, key} : t[k] \in Chain /\ Later(s.chains[k], t[k])
<1> DEFINE D == (DOMAIN s.chains \ {s.ours}) \union {m.key, key}
           t == TurnedChains(s, m, key)
<1>1. DOMAIN t = D
  BY DEF TurnedChains
<1>2. m.key \in Tokens /\ m.previous \in Int
  BY DEF Message
<1>3. D \subseteq Tokens
  BY <1>2, Fields
<1>4. t[m.key] = NewChain(FALSE, Received(s, m))
  BY DEF TurnedChains
<1>5. key # m.key => t[key] = NewChain(TRUE, Sending(s, m, key))
  BY DEF TurnedChains
<1>6. ASSUME NEW k \in D \ {m.key, key}
      PROVE  t[k] \in Chain /\ Later(s.chains[k], t[k])
  <2>1. s.chains[k] \in Chain
    BY Fields
  <2>2. CASE k = s.remote
    <3>1. PICK f \in Chain : f = Filled(s.chains[k], m.previous) /\ Later(s.chains[k], f)
      BY <1>2, <2>1, Filling
    <3>2. t[k] = [f EXCEPT !.live = FALSE]
      BY <2>2, <3>1 DEF TurnedChains
    <3>3. PICK g : g = [f EXCEPT !.live = FALSE]
      OBVIOUS
    <3>4. g \in Chain /\ g.secret = f.secret /\ g.sending = f.sending /\ g.counter = f.counter
          /\ g.kept = f.kept
      BY <3>3 DEF Chain
    <3>5. Later(s.chains[k], g)
      BY <3>1, <3>4 DEF Later
    <3>6. QED
      BY <3>2, <3>3, <3>4, <3>5
  <2>3. CASE k # s.remote
    <3>1. t[k] = s.chains[k]
      BY <2>3 DEF TurnedChains
    <3>2. QED
      BY <2>1, <3>1, LaterReflexive
  <2>4. QED
    BY <2>2, <2>3
<1>7. \A k \in D : t[k] \in Chain
  <2>1. t[m.key] \in Chain /\ (key # m.key => t[key] \in Chain)
    BY <1>4, <1>5, NewChains
  <2>2. QED
    BY <1>6, <2>1
<1>8. t = [k \in D |-> t[k]]
  BY <1>1 DEF TurnedChains
<1>9. t \in [D -> Chain]
  BY <1>7, <1>8
<1>10. t \in ChainMaps
  BY <1>3, <1>9 DEF ChainMaps
<1>11. QED
  BY <1>1, <1>4, <1>5, <1>6, <1>10

LEMMA Turned ==
  ASSUME NEW s \in Session, NEW m \in Message, NEW key \in Tokens,
         Sending(s, m, key) \in Secrets, TurnedChains(s, m, key) \in ChainMaps
  PROVE  LET t == StepRatchet(s, m, key)
         IN  /\ t \in Session
             /\ t.base = s.base /\ t.closed = s.closed /\ t.pending = s.pending
             /\ t.root = Sending(s, m, key) /\ t.ours = key
             /\ t.chains = TurnedChains(s, m, key)
<1> DEFINE u == IF Has(s, s.ours) THEN s.chains[s.ours].counter ELSE s.previous
<1>1. u \in Int
  <2>1. s.previous \in Int
    BY Fields
  <2>2. ASSUME Has(s, s.ours) PROVE s.chains[s.ours].counter \in Int
    <3>1. s.chains[s.ours] \in Chain
      BY <2>2, Fields DEF Has
    <3>2. QED
      BY <3>1 DEF Chain
  <2>3. QED
    BY <2>1, <2>2
<1>2. m.key \in Tokens
  BY DEF Message
<1>3. PICK v : v = u
  OBVIOUS
<1>4. PICK y : y = TurnedChains(s, m, key)
  OBVIOUS
<1>5. PICK x : x = Sending(s, m, key)
  OBVIOUS
<1>6. PICK t : t = [s EXCEPT !.chains = y, !.root = x, !.ours = key, !.remote = m.key, !.previous = v]
  OBVIOUS
<1>7. t \in Session /\ t.base = s.base /\ t.closed = s.closed /\ t.pending = s.pending
      /\ t.root = x /\ t.ours = key /\ t.chains = y
  BY <1>1, <1>2, <1>3, <1>4, <1>5, <1>6 DEF Session
<1>8. StepRatchet(s, m, key) = t
  BY <1>3, <1>4, <1>5, <1>6 DEF StepRatchet, TurnedChains, Sending, Received
<1>9. QED
  BY <1>4, <1>5, <1>7, <1>8

(* More ratchet keys have been generated since. *)
Since(ks, ls) ==
    /\ ks \in [Parties -> Nat] /\ ls \in [Parties -> Nat]
    /\ \A q \in Parties : ks[q] <= ls[q]

LEMMA TokenAges ==
  ASSUME NEW ks, NEW ls, Since(ks, ls), NEW t \in Tokens, OldTo(ks, t)
  PROVE  OldTo(ls, t)
<1>1. t[1] \in Parties /\ t[2] \in Int
  BY DEF Tokens
<1>2. ks[t[1]] \in Nat /\ ls[t[1]] \in Nat /\ ks[t[1]] <= ls[t[1]]
  BY <1>1 DEF Since
<1>3. QED
  BY <1>1, <1>2 DEF OldTo

LEMMA SecretAges ==
  ASSUME NEW ks, NEW ls, Since(ks, ls), NEW x \in Secrets, OldSecret(ks, x)
  PROVE  OldSecret(ls, x)
<1>1. x.pairs \in Seq(SUBSET Tokens)
  BY DEF Secrets
<1>2. \A n \in 1..Len(x.pairs) : \A t \in x.pairs[n] : t \in Tokens /\ OldTo(ks, t)
  BY <1>1 DEF OldSecret
<1>3. QED
  BY <1>2, TokenAges DEF OldSecret

LEMMA SessionAges ==
  ASSUME NEW p \in Parties, NEW ks, NEW ls, Since(ks, ls), NEW s, Good(p, ks, s)
  PROVE  Good(p, ls, s)
<1>1. s \in Session
  BY DEF Good
<1>2. OldTo(ls, s.ours) /\ OldSecret(ls, s.root)
  <2>1. s.ours \in Tokens /\ s.root \in Secrets
    BY <1>1, Fields
  <2>2. OldTo(ks, s.ours) /\ OldSecret(ks, s.root)
    BY DEF Good
  <2>3. QED
    BY <2>1, <2>2, TokenAges, SecretAges
<1>3. ASSUME NEW k \in DOMAIN s.chains PROVE OldSecret(ls, s.chains[k].secret)
  <2>1. s.chains[k] \in Chain
    BY <1>1, <1>3, Fields
  <2>2. s.chains[k].secret \in Secrets
    BY <2>1 DEF Chain
  <2>3. OldSecret(ks, s.chains[k].secret)
    BY <1>3 DEF Good
  <2>4. QED
    BY <2>2, <2>3, SecretAges
<1>4. QED
  BY <1>1, <1>2, <1>3 DEF Good

LEMMA KeepsItself ==
  ASSUME NEW p, NEW s \in Session
  PROVE  Keeps(p, s, s)
<1>1. \A k \in DOMAIN s.chains : Later(s.chains[k], s.chains[k])
  BY Fields, LaterReflexive
<1>2. QED
  BY <1>1 DEF Keeps

(* maybeStepRatchet, with a ratchet key `key` that is new. *)
LEMMA Ratchet ==
  ASSUME NEW p \in Parties, NEW ks, NEW ls, Since(ks, ls), NEW s, Good(p, ks, s),
         NEW m \in Message, m.key[1] # p, OldTo(ks, m.key), ~Has(s, m.key),
         NEW key \in Tokens, key[1] = p, ks[p] < key[2], key[2] <= ls[p]
  PROVE  LET t == StepRatchet(s, m, key)
         IN  /\ Good(p, ls, t) /\ Usable(t) /\ Keeps(p, s, t)
             /\ SendsUnder(t, key) /\ Has(t, m.key)
             /\ t.closed = s.closed
<1>1. s \in Session /\ Good(p, ls, s)
  BY SessionAges DEF Good
<1>2. m.key \in Tokens /\ m.key # key
  BY DEF Message
<1>3. OldTo(ls, key)
  BY DEF OldTo
<1>4. OldTo(ls, m.key)
  BY <1>2, TokenAges
<1>5. s.root \in Secrets /\ s.ours \in Tokens /\ OldSecret(ls, s.root) /\ OldTo(ls, s.ours)
      /\ s.root.base = s.base /\ s.ours[1] = p
  BY <1>1, Fields DEF Good
<1>6. PICK x \in Secrets : x = Received(s, m) /\ x.base = s.base /\ OldSecret(ls, x)
  BY <1>2, <1>4, <1>5, Mixing DEF Received
<1>7. PICK y \in Secrets : /\ y = Sending(s, m, key) /\ y.base = s.base /\ OldSecret(ls, y)
                           /\ Len(y.pairs) > 0 /\ y.pairs[Len(y.pairs)] = {m.key, key}
  BY <1>2, <1>3, <1>4, <1>6, Mixing DEF Sending
<1>8. PICK c : c = TurnedChains(s, m, key)
  OBVIOUS
<1>9. /\ c \in ChainMaps /\ m.key \in DOMAIN c /\ key \in DOMAIN c
      /\ c[m.key] = NewChain(FALSE, x) /\ c[key] = NewChain(TRUE, y)
      /\ DOMAIN c = (DOMAIN s.chains \ {s.ours}) \union {m.key, key}
      /\ \A k \in DOMAIN c \ {m.key, key} : c[k] \in Chain /\ Later(s.chains[k], c[k])
  BY <1>1, <1>2, <1>6, <1>7, <1>8, Turning
<1>10. PICK t : /\ t = StepRatchet(s, m, key) /\ t \in Session
                /\ t.base = s.base /\ t.closed = s.closed /\ t.pending = s.pending
                /\ t.root = y /\ t.ours = key /\ t.chains = c
  BY <1>1, <1>7, <1>8, <1>9, Turned
<1>11. /\ c[m.key].secret = x /\ c[m.key].sending = FALSE
       /\ c[key].secret = y /\ c[key].sending = TRUE
  BY <1>9, NewChains
<1>12. ASSUME NEW k \in DOMAIN c
       PROVE  c[k].secret.base = s.base /\ OldSecret(ls, c[k].secret) /\ (c[k].sending => k = key)
  <2>1. CASE k \in {m.key, key}
    BY <1>6, <1>7, <1>11, <2>1
  <2>2. CASE k \notin {m.key, key}
    <3>1. k \in DOMAIN s.chains /\ k # s.ours /\ Later(s.chains[k], c[k])
      BY <1>9, <1>12, <2>2
    <3>2. c[k].secret = s.chains[k].secret /\ c[k].sending = s.chains[k].sending
      BY <3>1 DEF Later
    <3>3. s.chains[k].secret.base = s.base /\ OldSecret(ls, s.chains[k].secret) /\ ~s.chains[k].sending
      BY <1>1, <3>1 DEF Good
    <3>4. QED
      BY <3>2, <3>3
  <2>3. QED
    BY <2>1, <2>2
<1>13. s.pending => s.base[1] = p
  BY <1>1 DEF Good
<1>14. Good(p, ls, t)
  BY <1>3, <1>7, <1>10, <1>12, <1>13 DEF Good
<1>15. Usable(t) /\ SendsUnder(t, key) /\ Has(t, m.key)
  BY <1>7, <1>9, <1>10, <1>11 DEF Usable, SendsUnder, SendChain, Has
<1>16. Keeps(p, s, t)
  <2>1. ASSUME NEW k \in DOMAIN s.chains, k[1] # p PROVE k \in DOMAIN c /\ Later(s.chains[k], c[k])
    <3>1. k # s.ours /\ k # key /\ k # m.key
      BY <1>5, <2>1 DEF Has
    <3>2. QED
      BY <1>9, <2>1, <3>1
  <2>2. QED
    BY <1>10, <2>1 DEF Keeps
<1>17. QED
  BY <1>10, <1>14, <1>15, <1>16

(* A message on a chain that is there. *)
Put(s, k, d, b) == [s EXCEPT !.chains[k] = d, !.pending = b]

LEMMA ChainPut ==
  ASSUME NEW s \in Session, NEW k \in DOMAIN s.chains, NEW d \in Chain, NEW b \in BOOLEAN,
         NEW t, t = Put(s, k, d, b)
  PROVE  /\ t \in Session /\ t.base = s.base /\ t.closed = s.closed
         /\ t.root = s.root /\ t.ours = s.ours /\ t.pending = b
         /\ DOMAIN t.chains = DOMAIN s.chains /\ t.chains[k] = d
         /\ \A j \in DOMAIN s.chains \ {k} : t.chains[j] = s.chains[j]
<1>1. s.chains \in ChainMaps
  BY DEF Session
<1>2. PICK D \in SUBSET Tokens : s.chains \in [D -> Chain]
  BY <1>1 DEF ChainMaps
<1>3. PICK c : c = [s.chains EXCEPT ![k] = d]
  OBVIOUS
<1>4. c \in [D -> Chain] /\ c[k] = d /\ \A j \in DOMAIN s.chains \ {k} : c[j] = s.chains[j]
  BY <1>2, <1>3
<1>5. c \in ChainMaps /\ DOMAIN c = DOMAIN s.chains
  BY <1>2, <1>4 DEF ChainMaps
<1>6. t = [s EXCEPT !.chains = c, !.pending = b]
  BY <1>3 DEF Put, Session
<1>7. t \in Session /\ t.base = s.base /\ t.closed = s.closed
      /\ t.root = s.root /\ t.ours = s.ours /\ t.pending = b /\ t.chains = c
  BY <1>5, <1>6 DEF Session
<1>8. QED
  BY <1>4, <1>5, <1>7

LEMMA OnChain ==
  ASSUME NEW p \in Parties, NEW ks, NEW s, Good(p, ks, s),
         NEW m \in Message, m.key[1] # p, Has(s, m.key)
  PROVE  LET r == OpenOnChain(s, m)
         IN  /\ Good(p, ks, r.session) /\ Keeps(p, s, r.session)
             /\ r.session.ours = s.ours /\ r.session.closed = s.closed
             /\ Usable(s) => Usable(r.session) /\ SendChain(r.session) = SendChain(s)
             /\ r.opens => /\ s.chains[m.key].secret = m.secret
                           /\ Spoken(r.session, m) /\ ~Spoken(s, m)
<1>1. s \in Session /\ m.key \in DOMAIN s.chains
  BY DEF Good, Has
<1>2. PICK c \in Chain : c = s.chains[m.key]
  BY <1>1, Fields
<1>3. m.counter \in Int /\ c.counter \in Int /\ c.kept \subseteq Int
  BY <1>2 DEF Message, Chain
<1>4. PICK f \in Chain : f = Filled(c, m.counter) /\ Later(c, f) /\ m.counter <= f.counter
  BY <1>3, Filling
<1>5. PICK r : r = OpenOnChain(s, m)
  OBVIOUS
<1>6. CASE c.sending \/ ~CanFill(c, m.counter) \/ m.counter \notin f.kept
  <2>1. r = [opens |-> FALSE, session |-> s]
    BY <1>2, <1>4, <1>5, <1>6 DEF OpenOnChain
  <2>2. r.opens = FALSE /\ r.session = s
    BY <2>1
  <2>3. QED
    BY <1>1, <1>5, <2>2, KeepsItself
<1>7. CASE ~(c.sending \/ ~CanFill(c, m.counter) \/ m.counter \notin f.kept)
  <2>1. PICK d : d = [f EXCEPT !.kept = @ \ {m.counter}]
    OBVIOUS
  <2>2. /\ d \in Chain /\ d.secret = f.secret /\ d.sending = f.sending /\ d.counter = f.counter
        /\ d.kept = f.kept \ {m.counter}
    BY <2>1 DEF Chain
  <2>3. Later(c, d)
    BY <1>4, <2>2 DEF Later
  <2>4. s.pending \in BOOLEAN
    BY <1>1, Fields
  <2>5. PICK b : b = (s.pending /\ c.secret # m.secret)
    OBVIOUS
  <2>6. b \in BOOLEAN /\ (b => s.pending)
    BY <2>4, <2>5
  <2>7. PICK t : t = Put(s, m.key, d, b)
    OBVIOUS
  <2>8. /\ t \in Session /\ t.base = s.base /\ t.closed = s.closed
        /\ t.root = s.root /\ t.ours = s.ours /\ t.pending = b
        /\ DOMAIN t.chains = DOMAIN s.chains /\ t.chains[m.key] = d
        /\ \A j \in DOMAIN s.chains \ {m.key} : t.chains[j] = s.chains[j]
    BY <1>1, <2>2, <2>6, <2>7, ChainPut
  <2>9. r = [opens |-> c.secret = m.secret, session |-> t]
    BY <1>2, <1>4, <1>5, <1>7, <2>1, <2>5, <2>7 DEF OpenOnChain, Put
  <2>10. r.session = t /\ (r.opens <=> c.secret = m.secret)
    BY <2>9
  <2>11. m.key # s.ours
    BY DEF Good
  <2>12. ASSUME NEW k \in DOMAIN t.chains
         PROVE  /\ Later(s.chains[k], t.chains[k])
                /\ t.chains[k].secret = s.chains[k].secret /\ t.chains[k].sending = s.chains[k].sending
    <3>1. CASE k = m.key
      BY <1>2, <2>3, <2>8, <3>1 DEF Later
    <3>2. CASE k # m.key
      <4>1. t.chains[k] = s.chains[k] /\ s.chains[k] \in Chain
        BY <1>1, <2>8, <2>12, <3>2, Fields
      <4>2. QED
        BY <4>1, LaterReflexive
    <3>3. QED
      BY <3>1, <3>2
  <2>13. \A k \in DOMAIN s.chains :
          /\ s.chains[k].secret.base = s.base /\ OldSecret(ks, s.chains[k].secret)
          /\ s.chains[k].sending => k = s.ours
    BY DEF Good
  <2>14. \A k \in DOMAIN t.chains :
          /\ t.chains[k].secret.base = t.base /\ OldSecret(ks, t.chains[k].secret)
          /\ t.chains[k].sending => k = t.ours
    BY <2>8, <2>12, <2>13
  <2>15. t.pending => t.base[1] = p
    BY <2>6, <2>8 DEF Good
  <2>16. Good(p, ks, t)
    BY <2>8, <2>14, <2>15 DEF Good
  <2>17. Keeps(p, s, t)
    BY <2>8, <2>12 DEF Keeps
  <2>18. Usable(s) => Usable(t) /\ SendChain(t) = SendChain(s)
    BY <2>8, <2>11 DEF Usable, SendChain, Has
  <2>19. Spoken(s, m) => FALSE
    <3>1. m.counter <= c.counter /\ m.counter \notin c.kept => m.counter \notin f.kept
      BY <1>3, <1>4 DEF Later
    <3>2. QED
      BY <1>2, <1>7, <3>1 DEF Spoken
  <2>20. ASSUME r.opens PROVE Spoken(t, m)
    <3>1. c.secret.base = s.base /\ c.secret = m.secret
      BY <1>1, <1>2, <2>10, <2>13, <2>20
    <3>2. QED
      BY <1>1, <1>4, <2>2, <2>8, <3>1 DEF Spoken, Has
  <2>21. r.opens => c.secret = m.secret
    BY <2>10
  <2>22. QED
    BY <1>2, <1>5, <2>8, <2>10, <2>16, <2>17, <2>18, <2>19, <2>20, <2>21
<1>8. QED
  BY <1>6, <1>7

(* A whole attempt.  `key` is new if the ratchet turns. *)
LEMMA KeepsTransitive ==
  ASSUME NEW p, NEW s \in Session, NEW t \in Session, NEW u \in Session,
         Keeps(p, s, t), Keeps(p, t, u)
  PROVE  Keeps(p, s, u)
<1>1. ASSUME NEW k \in DOMAIN s.chains, k[1] # p
      PROVE  k \in DOMAIN u.chains /\ Later(s.chains[k], u.chains[k])
  <2>1. k \in DOMAIN t.chains /\ Later(s.chains[k], t.chains[k])
    BY <1>1 DEF Keeps
  <2>2. k \in DOMAIN u.chains /\ Later(t.chains[k], u.chains[k])
    BY <1>1, <2>1 DEF Keeps
  <2>3. s.chains[k] \in Chain /\ t.chains[k] \in Chain /\ u.chains[k] \in Chain
    BY <1>1, <2>1, <2>2, Fields
  <2>4. QED
    BY <2>1, <2>2, <2>3, LaterTransitive
<1>2. QED
  BY <1>1 DEF Keeps

LEMMA Attempt ==
  ASSUME NEW p \in Parties, NEW ks, NEW ls, Since(ks, ls), NEW s, Good(p, ks, s),
         NEW m \in Message, m.key[1] # p, OldTo(ks, m.key),
         NEW key \in Tokens, key[1] = p,
         ~Has(s, m.key) => ks[p] < key[2] /\ key[2] <= ls[p]
  PROVE  LET r == Try(s, m, key)
         IN  /\ Good(p, ls, r.session) /\ Keeps(p, s, r.session)
             /\ r.session.closed = s.closed
             /\ Usable(s) => /\ Usable(r.session)
                             /\ \/ SendChain(r.session) = SendChain(s)
                                \/ ~Has(s, m.key) /\ SendsUnder(r.session, key)
             /\ r.opens => /\ Spoken(r.session, m) /\ ~Spoken(s, m)
                           /\ ~Has(s, m.key) => Usable(r.session) /\ SendsUnder(r.session, key)
<1> DEFINE r == Try(s, m, key)
<1>1. s \in Session
  BY DEF Good
<1>2. CASE Has(s, m.key)
  <2>1. r = OpenOnChain(s, m)
    BY <1>2 DEF Try
  <2>2. /\ Good(p, ks, r.session) /\ Keeps(p, s, r.session)
        /\ r.session.closed = s.closed
        /\ Usable(s) => Usable(r.session) /\ SendChain(r.session) = SendChain(s)
        /\ r.opens => Spoken(r.session, m) /\ ~Spoken(s, m)
    BY <1>2, <2>1, OnChain
  <2>3. Good(p, ls, r.session)
    BY <2>2, SessionAges
  <2>4. QED
    BY <1>2, <2>2, <2>3
<1>3. CASE ~Has(s, m.key) /\ CanStep(s, m)
  <2>1. PICK u : /\ u = StepRatchet(s, m, key)
                 /\ Good(p, ls, u) /\ Usable(u) /\ Keeps(p, s, u)
                 /\ SendsUnder(u, key) /\ Has(u, m.key) /\ u.closed = s.closed
    BY <1>3, Ratchet
  <2>2. r = OpenOnChain(u, m)
    BY <1>3, <2>1 DEF Try
  <2>3. /\ Good(p, ls, r.session) /\ Keeps(p, u, r.session)
        /\ r.session.closed = u.closed
        /\ Usable(r.session) /\ SendChain(r.session) = SendChain(u)
        /\ r.opens => Spoken(r.session, m)
    BY <2>1, <2>2, OnChain
  <2>4. SendsUnder(r.session, key)
    BY <2>1, <2>3 DEF SendsUnder
  <2>5. Keeps(p, s, r.session)
    BY <1>1, <2>1, <2>3, KeepsTransitive DEF Good
  <2>6. ~Spoken(s, m)
    BY <1>3 DEF Spoken
  <2>7. r.session.closed = s.closed
    BY <2>1, <2>3
  <2>8. QED
    BY <1>3, <2>3, <2>4, <2>5, <2>6, <2>7
<1>4. CASE ~Has(s, m.key) /\ ~CanStep(s, m)
  <2>1. r = [opens |-> FALSE, session |-> s]
    BY <1>4 DEF Try
  <2>2. r.opens = FALSE /\ r.session = s
    BY <2>1
  <2>3. Good(p, ls, s) /\ Keeps(p, s, s)
    BY <1>1, SessionAges, KeepsItself
  <2>4. QED
    BY <2>2, <2>3
<1>5. QED
  BY <1>2, <1>3, <1>4

-----------------------------------------------------------------------------
(* Records: the ratchet keys of successive attempts, and what moves.         *)

LEMMA Keying ==
  ASSUME NEW p \in Parties, keys \in [Parties -> Nat], NEW m, NEW i \in Nat
  PROVE  /\ KeyFor(p, i, m) \in Tokens
         /\ KeyFor(p, i, m)[1] = p /\ KeyFor(p, i, m)[2] \in Nat
         /\ keys[p] <= KeyFor(p, i, m)[2]
         /\ \A j \in 0..i : KeyFor(p, j, m)[2] <= KeyFor(p, i, m)[2]
         /\ \A j \in 0..(i - 1) :
              ~Has(rec[p][i], m.key) => KeyFor(p, j, m)[2] < KeyFor(p, i, m)[2]
         /\ i > 0 /\ ~Has(rec[p][i], m.key) => keys[p] < KeyFor(p, i, m)[2]
<1> DEFINE Turns(j) == {l \in 1..j : ~Has(rec[p][l], m.key)}
<1>1. ASSUME NEW j \in Nat PROVE IsFiniteSet(Turns(j)) /\ Cardinality(Turns(j)) \in Nat
  <2>1. IsFiniteSet(1..j)
    BY FS_Interval
  <2>2. Turns(j) \in SUBSET (1..j)
    OBVIOUS
  <2>3. IsFiniteSet(Turns(j))
    BY <2>1, <2>2, FS_Subset
  <2>4. QED
    BY <2>3, FS_CardinalityType
<1>2. ASSUME NEW j \in 0..i
      PROVE  Cardinality(Turns(j)) <= Cardinality(Turns(i))
  <2>1. Turns(j) \in SUBSET Turns(i)
    OBVIOUS
  <2>2. QED
    BY <1>1, <2>1, FS_Subset
<1>3. ASSUME NEW j \in 0..(i - 1), ~Has(rec[p][i], m.key)
      PROVE  Cardinality(Turns(j)) < Cardinality(Turns(i))
  <2>1. Turns(j) \in SUBSET Turns(i) /\ j \in Nat
    OBVIOUS
  <2>2. i \in Turns(i) /\ i \notin Turns(j)
    BY <1>3
  <2>3. Cardinality(Turns(j)) <= Cardinality(Turns(i))
    BY <1>1, <2>1, FS_Subset
  <2>4. Cardinality(Turns(j)) # Cardinality(Turns(i))
    <3>1. Cardinality(Turns(i)) = Cardinality(Turns(j)) => Turns(i) = Turns(j)
      BY <1>1, <2>1, FS_Subset
    <3> HIDE DEF Turns
    <3>2. QED
      BY <2>2, <3>1
  <2>5. Cardinality(Turns(j)) \in Nat /\ Cardinality(Turns(i)) \in Nat
    BY <1>1, <2>1
  <2> HIDE DEF Turns
  <2>6. QED
    BY <2>3, <2>4, <2>5
<1>4. \A j \in Nat : KeyFor(p, j, m) = <<p, keys[p] + Cardinality(Turns(j))>>
  BY DEF KeyFor
<1> HIDE DEF Turns
<1>5. keys[p] \in Nat
  OBVIOUS
<1>6. \A j \in Nat : KeyFor(p, j, m)[1] = p /\ KeyFor(p, j, m)[2] = keys[p] + Cardinality(Turns(j))
  BY <1>4
<1>7. KeyFor(p, i, m) \in Tokens
  BY <1>1, <1>4, <1>5 DEF Tokens
<1>8. \A j \in 0..i : j \in Nat /\ Cardinality(Turns(j)) \in Nat
  BY <1>1
<1>9. \A j \in 0..i : KeyFor(p, j, m)[2] <= KeyFor(p, i, m)[2]
  BY <1>1, <1>2, <1>5, <1>6, <1>8
<1>10. \A j \in 0..(i - 1) :
          ~Has(rec[p][i], m.key) => KeyFor(p, j, m)[2] < KeyFor(p, i, m)[2]
  BY <1>1, <1>3, <1>5, <1>6, <1>8
<1>11. KeyFor(p, 0, m)[2] >= keys[p]
  BY <1>5, <1>6, <1>8
<1>12. KeyFor(p, i, m)[2] \in Nat /\ KeyFor(p, 0, m)[2] \in Nat
  BY <1>1, <1>5, <1>6
<1>13. KeyFor(p, i, m)[2] >= keys[p]
  BY <1>1, <1>5, <1>6
<1>14. i > 0 /\ ~Has(rec[p][i], m.key) => keys[p] < KeyFor(p, i, m)[2]
  BY <1>5, <1>10, <1>11, <1>12
<1>15. QED
  BY <1>5, <1>6, <1>7, <1>9, <1>10, <1>12, <1>13, <1>14

(* Used moves the i-th entry to the front: where each entry was before. *)
Was(i, k) == IF k = 1 THEN i ELSE IF k <= i THEN k - 1 ELSE k

Rolls(r, i, s, u, f) ==
    /\ DOMAIN u = DOMAIN r
    /\ \A k \in DOMAIN r : /\ f[k] \in DOMAIN r
                           /\ u[k] = IF f[k] = i THEN s ELSE r[f[k]]
    /\ \A k, l \in DOMAIN r : f[k] = f[l] => k = l
    /\ \A j \in DOMAIN r : \E k \in DOMAIN r : f[k] = j

LEMMA Rolling ==
  ASSUME NEW S, NEW r \in Seq(S), NEW i \in DOMAIN r, NEW s \in S
  PROVE  /\ Used(r, i, s) \in Seq(S)
         /\ \E f : Rolls(r, i, s, Used(r, i, s), f)
<1> DEFINE t == [j \in 1..(Len(r) - 1) |-> IF j < i THEN r[j] ELSE r[j + 1]]
           u == Used(r, i, s)
<1>1. Len(r) \in Nat /\ DOMAIN r = 1..Len(r) /\ i \in 1..Len(r)
  OBVIOUS
<1>2. t \in [1..(Len(r) - 1) -> S]
  BY <1>1
<1>3. t \in Seq(S) /\ Len(t) = Len(r) - 1
  <2>1. Len(r) - 1 \in Nat
    BY <1>1
  <2>2. PICK n \in Nat : n = Len(r) - 1
    BY <2>1
  <2>3. t \in [1..n -> S]
    BY <1>2, <2>2
  <2>4. t \in Seq(S) /\ Len(t) = n
    BY <2>3, SeqDef, LenProperties
  <2>5. QED
    BY <2>2, <2>4
<1>4. u = <<s>> \o t
  BY DEF Used
<1>5. \A j \in 1..(Len(r) - 1) : t[j] = IF j < i THEN r[j] ELSE r[j + 1]
  OBVIOUS
<1> HIDE DEF t, u
<1>6. PICK v \in Seq(S) : v = t
  BY <1>3
<1>7. u = <<s>> \o v /\ Len(v) = Len(r) - 1
  BY <1>3, <1>4, <1>6
<1>8. u \in Seq(S) /\ Len(u) = Len(r) /\ u[1] = s
  <2>1. <<s>> \in Seq(S) /\ Len(<<s>>) = 1 /\ <<s>>[1] = s
    OBVIOUS
  <2>2. /\ <<s>> \o v \in Seq(S) /\ Len(<<s>> \o v) = 1 + Len(v)
        /\ (<<s>> \o v)[1] = s
    BY <2>1
  <2>3. Len(v) = Len(r) - 1 /\ Len(r) \in Nat
    BY <1>1, <1>7
  <2>4. 1 + Len(v) = Len(r)
    BY <2>3
  <2>5. u \in Seq(S) /\ Len(u) = 1 + Len(v) /\ u[1] = s
    BY <1>7, <2>2, Zenon
  <2>6. QED
    BY <2>4, <2>5
<1>9. \A k \in 2..Len(r) : u[k] = v[k - 1]
  BY <1>1, <1>7
<1>10. \A k \in 2..Len(r) : u[k] = IF k <= i THEN r[k - 1] ELSE r[k]
  BY <1>1, <1>5, <1>6, <1>9
<1>11. \A k \in 1..Len(r) : /\ Was(i, k) \in 1..Len(r)
                            /\ (Was(i, k) = i <=> k = 1)
  BY <1>1 DEF Was
<1>12. \A k \in 1..Len(r) : u[k] = IF Was(i, k) = i THEN s ELSE r[Was(i, k)]
  BY <1>1, <1>8, <1>10, <1>11 DEF Was
<1>13. \A k, l \in 1..Len(r) : Was(i, k) = Was(i, l) => k = l
  BY <1>1 DEF Was
<1>14. ASSUME NEW j \in 1..Len(r) PROVE \E k \in 1..Len(r) : Was(i, k) = j
  <2>1. CASE j = i
    BY <1>1, <2>1 DEF Was
  <2>2. CASE j < i
    <3>1. j + 1 \in 1..Len(r) /\ Was(i, j + 1) = j
      BY <1>1, <2>2 DEF Was
    <3>2. QED
      BY <3>1
  <2>3. CASE j > i
    BY <1>1, <2>3 DEF Was
  <2>4. QED
    BY <1>1, <2>1, <2>2, <2>3
<1>15. PICK f : f = [k \in 1..Len(r) |-> Was(i, k)]
  OBVIOUS
<1>16. \A k \in 1..Len(r) : f[k] = Was(i, k)
  BY <1>15
<1>17. ASSUME NEW k \in 1..Len(r)
       PROVE  f[k] \in 1..Len(r) /\ u[k] = IF f[k] = i THEN s ELSE r[f[k]]
  BY <1>11, <1>12, <1>16
<1>18. ASSUME NEW k \in 1..Len(r), NEW l \in 1..Len(r), f[k] = f[l] PROVE k = l
  BY <1>13, <1>16, <1>18
<1>19. ASSUME NEW j \in 1..Len(r) PROVE \E k \in 1..Len(r) : f[k] = j
  BY <1>14, <1>16
<1>20. DOMAIN u = 1..Len(r)
  BY <1>1, <1>8
<1>21. Rolls(r, i, s, u, f)
  BY <1>1, <1>17, <1>18, <1>19, <1>20, Zenon DEF Rolls
<1>22. QED
  BY <1>8, <1>21 DEF u

LEMMA Entering ==
  ASSUME NEW r \in Seq(Session), NEW s \in Session
  PROVE  LET u == Entered(r, s)
         IN  /\ u \in Seq(Session) /\ DOMAIN u = 1..(Len(r) + 1) /\ u[1] = s
             /\ \A k \in 2..(Len(r) + 1) :
                  /\ k - 1 \in DOMAIN r /\ u[k] = [r[k - 1] EXCEPT !.closed = TRUE]
             /\ \A j \in DOMAIN r : j + 1 \in DOMAIN u
<1>1. Len(r) \in Nat /\ DOMAIN r = 1..Len(r) /\ \A j \in 1..Len(r) : r[j] \in Session
  OBVIOUS
<1>2. \A t \in Session : [t EXCEPT !.closed = TRUE] \in Session
  BY DEF Session
<1>3. PICK v : v = Closed(r)
  OBVIOUS
<1>4. v \in [1..Len(r) -> Session] /\ \A j \in 1..Len(r) : v[j] = [r[j] EXCEPT !.closed = TRUE]
  BY <1>1, <1>2, <1>3 DEF Closed
<1>5. v \in Seq(Session) /\ Len(v) = Len(r)
  BY <1>1, <1>4, SeqDef, LenProperties
<1>6. PICK u : u = <<s>> \o v
  OBVIOUS
<1>7. u \in Seq(Session) /\ Len(u) = Len(r) + 1 /\ u[1] = s /\ \A k \in 2..(Len(r) + 1) : u[k] = v[k - 1]
  BY <1>1, <1>5, <1>6
<1>8. u = Entered(r, s)
  BY <1>3, <1>6 DEF Entered
<1>9. DOMAIN u = 1..(Len(r) + 1)
  BY <1>1, <1>7
<1>10. ASSUME NEW k \in 2..(Len(r) + 1)
       PROVE  k - 1 \in DOMAIN r /\ u[k] = [r[k - 1] EXCEPT !.closed = TRUE]
  <2>1. k - 1 \in 1..Len(r)
    BY <1>1
  <2>2. QED
    BY <1>1, <1>4, <1>7, <2>1
<1>11. \A j \in DOMAIN r : j + 1 \in DOMAIN u
  BY <1>1, <1>9
<1>12. QED
  BY <1>7, <1>8, <1>9, <1>10, <1>11

-----------------------------------------------------------------------------
(* What a step of `p` that makes its record `u` keeps of the invariant.     *)

RecOf(p, u) == p \in Parties /\ u \in Seq(Session) /\ rec' = [rec EXCEPT ![p] = u]

OneOpen(u) == u # << >> => \E i \in DOMAIN u : OpenAt(u) = {i}

DistinctOld(is, u) ==
    \A i \in DOMAIN u :
        /\ OldBase(is, u[i].base)
        /\ \A j \in DOMAIN u : u[i].base = u[j].base => i = j

LEMMA RecAfter ==
  ASSUME Shape, NEW p, NEW u, RecOf(p, u)
  PROVE  /\ rec'[p] = u /\ \A q \in Parties \ {p} : rec'[q] = rec[q]
         /\ rec' \in [Parties -> Seq(Session)]
BY DEF Shape, RecOf

LEMMA BaseAges ==
  ASSUME NEW is, NEW js, Since(is, js), NEW b \in Tokens, OldBase(is, b)
  PROVE  OldBase(js, b)
<1>1. b[1] \in Parties /\ b[2] \in Int
  BY DEF Tokens
<1>2. is[b[1]] \in Nat /\ js[b[1]] \in Nat /\ is[b[1]] <= js[b[1]]
  BY <1>1 DEF Since
<1>3. QED
  BY <1>1, <1>2 DEF OldBase

LEMMA SessionsStep ==
  ASSUME Inv, NEW p, NEW u, RecOf(p, u), Since(keys, keys'), Since(inits, inits'),
         \A k \in DOMAIN u : Good(p, keys', u[k]) /\ Usable(u[k]),
         OneOpen(u), DistinctOld(inits', u)
  PROVE  SessionsInv' /\ OpenInv' /\ BasesInv'
<1>1. /\ rec'[p] = u /\ \A q \in Parties \ {p} : rec'[q] = rec[q]
      /\ rec' \in [Parties -> Seq(Session)]
  BY RecAfter DEF Inv
<1>2. ASSUME NEW q \in Parties, NEW i \in DOMAIN rec'[q]
      PROVE  Good(q, keys', rec'[q][i]) /\ Usable(rec'[q][i])
  <2>1. CASE q = p
    BY <1>1, <1>2, <2>1
  <2>2. CASE q # p
    <3>1. rec'[q] = rec[q] /\ Good(q, keys, rec[q][i]) /\ Usable(rec[q][i])
      BY <1>1, <1>2, <2>2 DEF Inv, SessionsInv
    <3>2. QED
      BY <3>1, SessionAges
  <2>3. QED
    BY <2>1, <2>2
<1>3. ASSUME NEW q \in Parties, rec'[q] # << >>
      PROVE  \E i \in DOMAIN rec'[q] : OpenAt(rec'[q]) = {i}
  <2>1. CASE q = p
    BY <1>1, <1>3, <2>1 DEF OneOpen
  <2>2. CASE q # p
    BY <1>1, <1>3, <2>2 DEF Inv, OpenInv
  <2>3. QED
    BY <2>1, <2>2
<1>4. ASSUME NEW q \in Parties PROVE DistinctOld(inits', rec'[q])
  <2>1. CASE q = p
    BY <1>1, <2>1
  <2>2. CASE q # p
    <3>1. rec'[q] = rec[q] /\ rec[q] \in Seq(Session)
      BY <1>1, <2>2 DEF Inv, Shape
    <3>2. \A i \in DOMAIN rec[q] : rec[q][i] \in Session
      BY <3>1
    <3>3. \A i \in DOMAIN rec[q] : rec[q][i].base \in Tokens
      BY <3>2, Fields
    <3>4. \A i \in DOMAIN rec[q] : OldBase(inits, rec[q][i].base)
      BY DEF Inv, BasesInv
    <3>5. \A i \in DOMAIN rec[q] : OldBase(inits', rec[q][i].base)
      BY <3>3, <3>4, BaseAges
    <3>6. \A i, j \in DOMAIN rec[q] : rec[q][i].base = rec[q][j].base => i = j
      BY DEF Inv, BasesInv
    <3>7. QED
      BY <3>1, <3>5, <3>6 DEF DistinctOld
  <2>3. QED
    BY <2>1, <2>2
<1>5. SessionsInv'
  BY <1>2 DEF SessionsInv
<1>6. OpenInv'
  BY <1>3 DEF OpenInv, OpenAt
<1>7. BasesInv'
  BY <1>4 DEF BasesInv, DistinctOld
<1>8. QED
  BY <1>5, <1>6, <1>7

(* Where each session sends: on the chain it had at `f[k]`, or on a new one  *)
(* that the ratchet key `g[k]` made.                                        *)
Carried(p, u, f, k) ==
    /\ f[k] \in DOMAIN rec[p]
    /\ SendChain(u[k]).secret = SendChain(rec[p][f[k]]).secret
    /\ SendChain(rec[p][f[k]]).counter <= SendChain(u[k]).counter
Renewed(p, u, g, k) ==
    g[k][1] = p /\ keys[p] < g[k][2] /\ SendsUnder(u[k], g[k])

SendsFrom(p, u, f, g) ==
    /\ \A k \in DOMAIN u : Carried(p, u, f, k) \/ (g[k] \in Tokens /\ Renewed(p, u, g, k))
    /\ \A k, l \in DOMAIN u : f[k] = f[l] => k = l
    /\ \A k, l \in DOMAIN u :
          Renewed(p, u, g, k) /\ Renewed(p, u, g, l) /\ g[k] = g[l] => k = l
    /\ \A k \in DOMAIN u : SendChain(u[k]).counter \in Int

LEMMA NewIsNotOld ==
  ASSUME Shape, NEW p \in Parties, NEW t, NEW key \in Tokens, key[1] = p,
         keys[p] < key[2], SendsUnder(t, key), NEW x \in Secrets, OldSecret(keys, x)
  PROVE  SendChain(t).secret # x
<1>1. SUFFICES ASSUME SendChain(t).secret = x PROVE FALSE
  OBVIOUS
<1>2. Len(x.pairs) > 0 /\ key \in x.pairs[Len(x.pairs)]
  BY <1>1 DEF SendsUnder
<1>3. x.pairs \in Seq(SUBSET Tokens)
  BY DEF Secrets
<1>4. Len(x.pairs) \in 1..Len(x.pairs)
  BY <1>2, <1>3
<1>5. key[2] <= keys[p]
  BY <1>2, <1>4 DEF OldSecret, OldTo
<1>6. key[2] \in Int /\ keys[p] \in Nat
  BY DEF Tokens, Shape
<1>7. QED
  BY <1>5, <1>6

LEMMA SendChains ==
  ASSUME Inv, NEW q \in Parties, NEW i \in DOMAIN rec[q]
  PROVE  /\ SendChain(rec[q][i]) \in Chain
         /\ SendChain(rec[q][i]).secret \in Secrets
         /\ SendChain(rec[q][i]).counter \in Int
         /\ OldSecret(keys, SendChain(rec[q][i]).secret)
<1>1. Good(q, keys, rec[q][i]) /\ Usable(rec[q][i])
  BY DEF Inv, SessionsInv
<1>2. rec[q][i] \in Session /\ rec[q][i].ours \in DOMAIN rec[q][i].chains
  BY <1>1 DEF Good, Usable, Has
<1>3. SendChain(rec[q][i]) \in Chain
  BY <1>2, Fields DEF SendChain
<1>4. OldSecret(keys, SendChain(rec[q][i]).secret)
  BY <1>1, <1>2 DEF Good, SendChain
<1>5. QED
  BY <1>3, <1>4 DEF Chain

LEMMA SecretsStep ==
  ASSUME Inv, NEW p, NEW u, RecOf(p, u), Since(keys, keys'), Since(inits, inits'),
         NEW f, NEW g, SendsFrom(p, u, f, g)
  PROVE  /\ ApartInv'
         /\ \A m \in sent : SentWith(keys', inits', m)
         /\ \A q \in Parties : \A m \in sent : Past(rec'[q], m)
<1> USE DEF SendsFrom
<1>1. /\ p \in Parties
      /\ rec'[p] = u /\ \A q \in Parties \ {p} : rec'[q] = rec[q]
  BY RecAfter DEF Inv, RecOf
<1>2. \A m \in sent : SentWith(keys, inits, m) /\ m \in Message
  BY DEF Inv, SentInv, Shape
<1>3. ASSUME NEW m \in sent PROVE SentWith(keys', inits', m)
  <2>1. m.key \in Tokens /\ m.secret \in Secrets /\ m.secret.base \in Tokens
    BY <1>2, <1>3 DEF Message, Secrets
  <2>2. OldTo(keys, m.key) /\ OldSecret(keys, m.secret) /\ OldBase(inits, m.secret.base)
        /\ (m.wrapped => m.secret.base[1] = From(m))
    BY <1>2, <1>3 DEF SentWith
  <2>3. OldTo(keys', m.key) /\ OldSecret(keys', m.secret) /\ OldBase(inits', m.secret.base)
    BY <2>1, <2>2, TokenAges, SecretAges, BaseAges
  <2>4. QED
    BY <2>2, <2>3 DEF SentWith
<1>4. ASSUME NEW k \in DOMAIN u, g[k] \in Tokens, Renewed(p, u, g, k), NEW x \in Secrets,
             OldSecret(keys, x)
      PROVE  SendChain(u[k]).secret # x
  BY <1>1, <1>4, NewIsNotOld DEF Inv, Renewed
<1>5. ASSUME NEW q \in Parties, NEW m \in sent PROVE Past(rec'[q], m)
  <2>1. Past(rec[q], m)
    BY DEF Inv, AheadInv
  <2>2. CASE q # p
    BY <1>1, <2>1, <2>2
  <2>3. CASE q = p
    <3>1. ASSUME NEW k \in DOMAIN u, m.secret = SendChain(u[k]).secret
          PROVE  m.counter <= SendChain(u[k]).counter
      <4>1. CASE Carried(p, u, f, k)
        <5>1. /\ f[k] \in DOMAIN rec[p] /\ m.secret = SendChain(rec[p][f[k]]).secret
              /\ SendChain(rec[p][f[k]]).counter <= SendChain(u[k]).counter
          BY <3>1, <4>1 DEF Carried
        <5>2. m.counter <= SendChain(rec[p][f[k]]).counter
          BY <2>1, <2>3, <5>1 DEF Past
        <5>3. m.counter \in Int /\ SendChain(rec[p][f[k]]).counter \in Int
              /\ SendChain(u[k]).counter \in Int
          BY <1>1, <1>2, <3>1, <5>1, SendChains DEF Message
        <5>4. QED
          BY <5>1, <5>2, <5>3
      <4>2. CASE g[k] \in Tokens /\ Renewed(p, u, g, k)
        <5>1. m.secret \in Secrets /\ OldSecret(keys, m.secret)
          BY <1>2 DEF SentWith, Message
        <5>2. QED
          BY <1>4, <3>1, <4>2, <5>1
      <4>3. QED
        BY <3>1, <4>1, <4>2
    <3>2. QED
      BY <1>1, <2>3, <3>1 DEF Past
  <2>4. QED
    BY <2>2, <2>3
<1>6. ASSUME NEW k \in DOMAIN u, NEW q \in Parties \ {p}, NEW j \in DOMAIN rec[q]
      PROVE  SendChain(u[k]).secret # SendChain(rec[q][j]).secret
  <2>1. CASE Carried(p, u, f, k)
    <3>1. f[k] \in DOMAIN rec[p] /\ SendChain(u[k]).secret = SendChain(rec[p][f[k]]).secret
      BY <2>1 DEF Carried
    <3>2. QED
      BY <1>1, <3>1 DEF Inv, ApartInv
  <2>2. CASE g[k] \in Tokens /\ Renewed(p, u, g, k)
    BY <1>4, <1>6, <2>2, SendChains
  <2>3. QED
    BY <1>6, <2>1, <2>2
<1>7. ASSUME NEW k \in DOMAIN u, NEW l \in DOMAIN u,
             SendChain(u[k]).secret = SendChain(u[l]).secret
      PROVE  k = l
  <2>1. ASSUME NEW i \in DOMAIN u, NEW j \in DOMAIN u, Carried(p, u, f, i),
               g[j] \in Tokens, Renewed(p, u, g, j)
        PROVE  SendChain(u[i]).secret # SendChain(u[j]).secret
    <3>1. f[i] \in DOMAIN rec[p] /\ SendChain(u[i]).secret = SendChain(rec[p][f[i]]).secret
      BY <2>1 DEF Carried
    <3>2. QED
      BY <1>1, <1>4, <2>1, <3>1, SendChains
  <2>2. CASE Carried(p, u, f, k) /\ Carried(p, u, f, l)
    <3>1. /\ f[k] \in DOMAIN rec[p] /\ f[l] \in DOMAIN rec[p]
          /\ SendChain(rec[p][f[k]]).secret = SendChain(rec[p][f[l]]).secret
      BY <1>7, <2>2 DEF Carried
    <3>2. f[k] = f[l]
      BY <1>1, <3>1 DEF Inv, ApartInv
    <3>3. QED
      BY <3>2
  <2>3. CASE Renewed(p, u, g, k) /\ Renewed(p, u, g, l)
    <3>1. /\ g[k] \in SendChain(u[k]).secret.pairs[Len(SendChain(u[k]).secret.pairs)]
          /\ g[k][1] = p /\ g[l][1] = p
          /\ \A x \in SendChain(u[l]).secret.pairs[Len(SendChain(u[l]).secret.pairs)] :
                x[1] = g[l][1] => x = g[l]
      BY <2>3 DEF Renewed, SendsUnder
    <3>2. g[k] = g[l]
      BY <1>7, <3>1
    <3>3. QED
      BY <2>3, <3>2
  <2>4. QED
    BY <1>7, <2>1, <2>2, <2>3
<1>8. ApartInv'
  <2>1. ASSUME NEW q \in Parties, NEW r \in Parties,
               NEW i \in DOMAIN rec'[q], NEW j \in DOMAIN rec'[r],
               SendChain(rec'[q][i]).secret = SendChain(rec'[r][j]).secret
        PROVE  q = r /\ i = j
    <3>1. CASE q = p /\ r = p
      BY <1>1, <1>7, <2>1, <3>1
    <3>2. CASE q = p /\ r # p
      BY <1>1, <1>6, <2>1, <3>2
    <3>3. CASE q # p /\ r = p
      BY <1>1, <1>6, <2>1, <3>3
    <3>4. CASE q # p /\ r # p
      BY <1>1, <2>1, <3>4 DEF Inv, ApartInv
    <3>5. QED
      BY <3>1, <3>2, <3>3, <3>4
  <2>2. QED
    BY <2>1 DEF ApartInv, SendChain
<1>9. QED
  BY <1>3, <1>5, <1>8

LEMMA SpokenKept ==
  ASSUME NEW p \in Parties, NEW s \in Session, NEW t \in Session, NEW m \in Message,
         m.key[1] # p, Keeps(p, s, t), Spoken(s, m)
  PROVE  Spoken(t, m)
<1>1. m.key \in DOMAIN s.chains /\ s.base = m.secret.base
      /\ m.counter <= s.chains[m.key].counter /\ m.counter \notin s.chains[m.key].kept
  BY DEF Spoken, Has
<1>2. t.base = s.base /\ m.key \in DOMAIN t.chains /\ Later(s.chains[m.key], t.chains[m.key])
  BY <1>1 DEF Keeps
<1>3. m.counter \in Int /\ s.chains[m.key].counter \in Int /\ t.chains[m.key].counter \in Int
  <2>1. s.chains[m.key] \in Chain /\ t.chains[m.key] \in Chain
    BY <1>1, <1>2, Fields
  <2>2. QED
    BY <2>1 DEF Message, Chain
<1>4. m.counter \notin t.chains[m.key].kept
  BY <1>1, <1>2, <1>3 DEF Later
<1>5. m.counter <= t.chains[m.key].counter
  BY <1>1, <1>2, <1>3 DEF Later
<1>6. QED
  BY <1>1, <1>2, <1>4, <1>5 DEF Spoken, Has

(* A session of `u` that none of `p`'s forgotten ones can be. *)
NewBase(p, b) == ~OldBase(inits, b) \/ (b \notin spent /\ b[1] # p)

LEMMA OpenedStep ==
  ASSUME Inv, NEW p, NEW u, RecOf(p, u), spent \subseteq spent', forgot \subseteq forgot',
         \A i \in DOMAIN rec[p] : \E k \in DOMAIN u : Keeps(p, rec[p][i], u[k]),
         \A k \in DOMAIN u : u[k].base \in Bases(rec[p]) \/ NewBase(p, u[k].base)
  PROVE  \A m \in opened : \A q \in Parties \ {From(m)} :
            ShutFor(q, rec'[q], spent', forgot', m)
<1> TAKE m \in opened
<1> TAKE q \in Parties \ {From(m)}
<1>1. /\ p \in Parties /\ u \in Seq(Session)
      /\ rec'[p] = u /\ \A r \in Parties \ {p} : rec'[r] = rec[r]
  BY RecAfter DEF Inv, RecOf
<1>2. m \in Message /\ m.key[1] # q /\ SentWith(keys, inits, m) /\ ShutFor(q, rec[q], spent, forgot, m)
  BY DEF Inv, Shape, From, SentInv, OpenedInv
<1>3. CASE q # p
  <2>1. rec'[q] = rec[q]
    BY <1>1, <1>3
  <2>2. ShutFor(q, rec[q], spent', forgot', m)
    BY <1>2 DEF ShutFor
  <2>3. QED
    BY <2>1, <2>2
<1>4. CASE q = p
  <2>1. CASE m.secret.base \in forgot
    BY <2>1 DEF ShutFor
  <2>2. CASE \E i \in DOMAIN rec[p] : Spoken(rec[p][i], m)
    <3>1. PICK i \in DOMAIN rec[p] : Spoken(rec[p][i], m)
      BY <2>2
    <3>2. PICK k \in DOMAIN u : Keeps(p, rec[p][i], u[k])
      BY <3>1
    <3>3. rec[p][i] \in Session /\ u[k] \in Session
      BY <1>1, <3>1, <3>2 DEF Inv, Shape
    <3>4. Spoken(u[k], m)
      BY <1>1, <1>2, <1>4, <3>1, <3>2, <3>3, SpokenKept
    <3>5. QED
      BY <1>1, <1>4, <3>2, <3>4 DEF ShutFor
  <2>3. CASE m.secret.base \notin Bases(rec[p]) /\ (m.secret.base \in spent \/ m.secret.base[1] = p)
    <3>1. OldBase(inits, m.secret.base)
      BY <1>2 DEF SentWith
    <3>2. \A k \in DOMAIN u : u[k].base # m.secret.base
      BY <2>3, <3>1 DEF NewBase
    <3>3. m.secret.base \notin Bases(u)
      BY <3>2 DEF Bases
    <3>4. QED
      BY <1>1, <1>4, <2>3, <3>3 DEF ShutFor
  <2>4. QED
    BY <1>2, <1>4, <2>1, <2>2, <2>3 DEF ShutFor
<1>5. QED
  BY <1>3, <1>4

(* A record with its sessions in another order, each with its base and as open. *)
Reorders(r, u, f) ==
    /\ DOMAIN u = DOMAIN r
    /\ \A k \in DOMAIN r : /\ f[k] \in DOMAIN r
                           /\ u[k].base = r[f[k]].base /\ u[k].closed = r[f[k]].closed
    /\ \A k, l \in DOMAIN r : f[k] = f[l] => k = l
    /\ \A j \in DOMAIN r : \E k \in DOMAIN r : f[k] = j

LEMMA Reordered ==
  ASSUME NEW r, NEW u, NEW is, OneOpen(r), DistinctOld(is, r),
         r \in Seq(Session), u \in Seq(Session), NEW f, Reorders(r, u, f)
  PROVE  OneOpen(u) /\ DistinctOld(is, u) /\ Bases(u) \subseteq Bases(r)
<1> USE DEF Reorders
<1>1. DistinctOld(is, u)
  <2>1. ASSUME NEW i \in DOMAIN u PROVE OldBase(is, u[i].base)
    <3>1. f[i] \in DOMAIN r /\ u[i].base = r[f[i]].base
      BY <2>1
    <3>2. OldBase(is, r[f[i]].base)
      BY <3>1 DEF DistinctOld
    <3>3. QED
      BY <3>1, <3>2
  <2>2. ASSUME NEW i \in DOMAIN u, NEW j \in DOMAIN u, u[i].base = u[j].base PROVE i = j
    <3>1. f[i] \in DOMAIN r /\ f[j] \in DOMAIN r /\ r[f[i]].base = r[f[j]].base
      BY <2>2
    <3>2. f[i] = f[j]
      BY <3>1 DEF DistinctOld
    <3>3. QED
      BY <2>2, <3>2
  <2>3. QED
    BY <2>1, <2>2 DEF DistinctOld
<1>2. Bases(u) \subseteq Bases(r)
  <2>1. ASSUME NEW b \in Bases(u) PROVE b \in Bases(r)
    <3>1. PICK i \in DOMAIN u : b = u[i].base
      BY <2>1 DEF Bases
    <3>2. f[i] \in DOMAIN r /\ b = r[f[i]].base
      BY <3>1
    <3>3. QED
      BY <3>2 DEF Bases
  <2>2. QED
    BY <2>1
<1>3. ASSUME u # << >> PROVE \E k \in DOMAIN u : OpenAt(u) = {k}
  <2>1. r # << >>
    BY <1>3
  <2>2. PICK i \in DOMAIN r : OpenAt(r) = {i}
    BY <2>1 DEF OneOpen
  <2>3. PICK k \in DOMAIN r : f[k] = i
    BY <2>2
  <2>4. \A j \in DOMAIN r : ~r[j].closed <=> j = i
    BY <2>2 DEF OpenAt
  <2>5. \A j \in DOMAIN r : ~u[j].closed <=> j = k
    BY <2>3, <2>4
  <2>6. OpenAt(u) = {k}
    <3>1. k \in DOMAIN u /\ \A j \in DOMAIN u : ~u[j].closed <=> j = k
      BY <2>3, <2>5
    <3> HIDE DEF Reorders
    <3>2. QED
      BY <3>1, Zenon DEF OpenAt
  <2>7. QED
    BY <2>3, <2>6
<1>4. QED
  BY <1>1, <1>2, <1>3 DEF OneOpen

-----------------------------------------------------------------------------
(* Steps that enter a new session, and steps that change and move old ones. *)

(* What every step that changes the record of one party has to establish.   *)
Kept ==
    /\ SessionsInv' /\ OpenInv' /\ BasesInv' /\ ApartInv'
    /\ rec' \in [Parties -> Seq(Session)]
    /\ \A m \in sent : SentWith(keys', inits', m)
    /\ \A q \in Parties : \A m \in sent : Past(rec'[q], m)
    /\ \A m \in opened : \A q \in Parties \ {From(m)} : ShutFor(q, rec'[q], spent', forgot', m)

Shut(s) == [s EXCEPT !.closed = TRUE]

LEMMA Closing ==
  ASSUME NEW p, NEW ks, NEW s, Good(p, ks, s), NEW t, t = Shut(s)
  PROVE  /\ Good(p, ks, t) /\ (Usable(s) => Usable(t))
         /\ SendChain(t) = SendChain(s) /\ Keeps(p, s, t) /\ t.base = s.base /\ t.closed
<1>1. s \in Session
  BY DEF Good
<1>2. /\ t \in Session /\ t.base = s.base /\ t.closed /\ t.pending = s.pending /\ t.root = s.root
      /\ t.ours = s.ours /\ t.chains = s.chains
  BY <1>1 DEF Session, Shut
<1>3. Good(p, ks, t)
  BY <1>2 DEF Good
<1>4. SendChain(t) = SendChain(s) /\ (Usable(s) => Usable(t))
  BY <1>2 DEF SendChain, Usable, Has
<1>5. Keeps(p, s, t)
  BY <1>1, <1>2, KeepsItself DEF Keeps
<1>6. QED
  BY <1>2, <1>3, <1>4, <1>5

LEMMA RecFacts ==
  ASSUME Inv, NEW p \in Parties
  PROVE  /\ rec[p] \in Seq(Session) /\ OneOpen(rec[p]) /\ DistinctOld(inits, rec[p])
         /\ \A i \in DOMAIN rec[p] : /\ rec[p][i] \in Session
                                     /\ Good(p, keys, rec[p][i]) /\ Usable(rec[p][i])
<1>1. rec[p] \in Seq(Session)
  BY DEF Inv, Shape
<1>2. OneOpen(rec[p])
  BY DEF Inv, OpenInv, OneOpen
<1>3. DistinctOld(inits, rec[p])
  BY DEF Inv, BasesInv, DistinctOld
<1>4. \A i \in DOMAIN rec[p] : Good(p, keys, rec[p][i]) /\ Usable(rec[p][i])
  BY DEF Inv, SessionsInv
<1>5. QED
  BY <1>1, <1>2, <1>3, <1>4 DEF Good

LEMMA EnteringStep ==
  ASSUME Inv, NEW p \in Parties, NEW s, rec' = [rec EXCEPT ![p] = Entered(rec[p], s)],
         Since(keys, keys'), Since(inits, inits'), spent \subseteq spent', forgot \subseteq forgot',
         Good(p, keys', s), Usable(s), ~s.closed,
         NEW key \in Tokens, key[1] = p, keys[p] < key[2], SendsUnder(s, key),
         s.base \notin Bases(rec[p]), OldBase(inits', s.base), NewBase(p, s.base)
  PROVE  Kept /\ 1 \in DOMAIN rec'[p] /\ rec'[p][1] = s
<1> DEFINE r == rec[p]
<1>1. /\ r \in Seq(Session) /\ DistinctOld(inits, r)
      /\ \A i \in DOMAIN r : r[i] \in Session /\ Good(p, keys, r[i]) /\ Usable(r[i])
  BY RecFacts
<1>2. s \in Session
  BY DEF Good
<1>3. PICK u : /\ u = Entered(r, s) /\ u \in Seq(Session)
               /\ DOMAIN u = 1..(Len(r) + 1) /\ u[1] = s
               /\ \A k \in 2..(Len(r) + 1) :
                    /\ k - 1 \in DOMAIN r /\ u[k] = [r[k - 1] EXCEPT !.closed = TRUE]
               /\ \A j \in DOMAIN r : j + 1 \in DOMAIN u
  BY <1>1, <1>2, Entering
<1>4. Len(r) \in Nat /\ DOMAIN r = 1..Len(r)
  BY <1>1
<1>5. RecOf(p, u) /\ rec'[p] = u /\ rec' \in [Parties -> Seq(Session)]
  <2>1. RecOf(p, u)
    BY <1>3 DEF RecOf
  <2>2. QED
    BY <2>1, RecAfter DEF Inv
<1>6. ASSUME NEW k \in 2..(Len(r) + 1)
      PROVE  /\ k - 1 \in DOMAIN r /\ r[k - 1] \in Session
             /\ Good(p, keys', u[k]) /\ Usable(u[k])
             /\ SendChain(u[k]) = SendChain(r[k - 1]) /\ Keeps(p, r[k - 1], u[k])
             /\ u[k].base = r[k - 1].base /\ u[k].closed
  <2>1. /\ k - 1 \in DOMAIN r /\ u[k] = [r[k - 1] EXCEPT !.closed = TRUE]
        /\ Good(p, keys, r[k - 1]) /\ Usable(r[k - 1]) /\ r[k - 1] \in Session
    BY <1>1, <1>3
  <2>2. Good(p, keys', r[k - 1])
    BY <2>1, SessionAges
  <2>3. u[k] = Shut(r[k - 1])
    BY <2>1 DEF Shut
  <2>4. QED
    BY <2>1, <2>2, <2>3, Closing
<1>7. \A k \in DOMAIN u : k = 1 \/ k \in 2..(Len(r) + 1)
  BY <1>3, <1>4
<1>8. 1 \in DOMAIN u
  BY <1>3, <1>4
<1> HIDE DEF r
<1>9. \A k \in DOMAIN u : Good(p, keys', u[k]) /\ Usable(u[k])
  BY <1>3, <1>6, <1>7
<1>10. OneOpen(u)
  <2>1. \A k \in DOMAIN u : ~u[k].closed <=> k = 1
    BY <1>3, <1>6, <1>7
  <2>2. OpenAt(u) = {1}
    BY <1>8, <2>1, Zenon DEF OpenAt
  <2>3. QED
    BY <1>8, <2>2 DEF OneOpen
<1>11. DistinctOld(inits', u)
  <2>1. ASSUME NEW k \in DOMAIN u PROVE OldBase(inits', u[k].base)
    <3>1. CASE k = 1
      BY <1>3, <3>1
    <3>2. CASE k \in 2..(Len(r) + 1)
      <4>1. u[k].base = r[k - 1].base /\ k - 1 \in DOMAIN r /\ r[k - 1] \in Session
        BY <1>6, <3>2
      <4>2. OldBase(inits, r[k - 1].base) /\ r[k - 1].base \in Tokens
        BY <1>1, <4>1, Fields DEF DistinctOld
      <4>3. QED
        BY <4>1, <4>2, BaseAges
    <3>3. QED
      BY <1>7, <3>1, <3>2
  <2>2. \A k \in 2..(Len(r) + 1) : u[k].base # s.base
    BY <1>6 DEF Bases, r
  <2>3. ASSUME NEW k \in 2..(Len(r) + 1), NEW l \in 2..(Len(r) + 1), u[k].base = u[l].base
        PROVE  k = l
    <3>1. k - 1 \in DOMAIN r /\ l - 1 \in DOMAIN r /\ r[k - 1].base = r[l - 1].base
      BY <1>6, <2>3
    <3>2. k - 1 = l - 1
      BY <1>1, <3>1 DEF DistinctOld
    <3>3. QED
      BY <3>2
  <2>4. \A k, l \in DOMAIN u : u[k].base = u[l].base => k = l
    BY <1>3, <1>7, <2>2, <2>3
  <2>5. QED
    BY <2>1, <2>4 DEF DistinctOld
<1>12. SessionsInv' /\ OpenInv' /\ BasesInv'
  BY <1>5, <1>9, <1>10, <1>11, SessionsStep
<1>13. ASSUME NEW k \in DOMAIN u PROVE SendChain(u[k]).counter \in Int
  <2>1. Good(p, keys', u[k]) /\ Usable(u[k])
    BY <1>9
  <2>2. u[k] \in Session /\ u[k].ours \in DOMAIN u[k].chains
    BY <2>1 DEF Good, Usable, Has
  <2>3. SendChain(u[k]) \in Chain
    BY <2>2, Fields DEF SendChain
  <2>4. QED
    BY <2>3 DEF Chain
<1>14. PICK f, g : /\ f = [k \in DOMAIN u |-> k - 1]
                   /\ g = [k \in DOMAIN u |-> IF k = 1 THEN key ELSE <<p, 0>>]
  OBVIOUS
<1>15. Renewed(p, u, g, 1) /\ g[1] \in Tokens
  BY <1>3, <1>8, <1>14 DEF Renewed
<1>16. ASSUME NEW k \in 2..(Len(r) + 1)
       PROVE  Carried(p, u, f, k) /\ ~Renewed(p, u, g, k)
  <2>1. k \in DOMAIN u /\ k # 1
    BY <1>3
  <2>2. f[k] = k - 1 /\ g[k][2] = 0
    BY <1>14, <2>1
  <2>3. keys[p] \in Nat
    BY DEF Inv, Shape
  <2>4. ~Renewed(p, u, g, k)
    BY <2>2, <2>3 DEF Renewed
  <2>5. /\ k - 1 \in DOMAIN rec[p] /\ SendChain(u[k]) = SendChain(rec[p][k - 1])
    BY <1>6 DEF r
  <2>6. SendChain(u[k]).counter \in Int
    BY <1>13, <2>1
  <2>7. QED
    BY <2>2, <2>4, <2>5, <2>6 DEF Carried
<1>17. /\ ApartInv'
       /\ \A m \in sent : SentWith(keys', inits', m)
       /\ \A q \in Parties : \A m \in sent : Past(rec'[q], m)
  <2>1. \A k \in DOMAIN u : Carried(p, u, f, k) \/ (g[k] \in Tokens /\ Renewed(p, u, g, k))
    BY <1>7, <1>15, <1>16
  <2>2. \A k, l \in DOMAIN u : f[k] = f[l] => k = l
    BY <1>3, <1>14
  <2>3. \A k, l \in DOMAIN u :
            Renewed(p, u, g, k) /\ Renewed(p, u, g, l) /\ g[k] = g[l] => k = l
    BY <1>7, <1>16
  <2>4. \A k \in DOMAIN u : SendChain(u[k]).counter \in Int
    BY <1>13
  <2>5. SendsFrom(p, u, f, g)
    BY <2>1, <2>2, <2>3, <2>4 DEF SendsFrom
  <2>6. QED
    BY <1>5, <2>5, SecretsStep
<1>18. ASSUME NEW i \in DOMAIN rec[p] PROVE \E k \in DOMAIN u : Keeps(p, rec[p][i], u[k])
  <2>1. i + 1 \in DOMAIN u /\ i + 1 \in 2..(Len(r) + 1) /\ (i + 1) - 1 = i
    BY <1>3, <1>4 DEF r
  <2>2. Keeps(p, rec[p][i], u[i + 1])
    BY <1>6, <2>1 DEF r
  <2>3. QED
    BY <2>1, <2>2
<1>19. ASSUME NEW k \in DOMAIN u PROVE u[k].base \in Bases(rec[p]) \/ NewBase(p, u[k].base)
  BY <1>3, <1>6, <1>7 DEF Bases, r
<1>20. \A m \in opened : \A q \in Parties \ {From(m)} : ShutFor(q, rec'[q], spent', forgot', m)
  BY <1>5, <1>18, <1>19, OpenedStep
<1>21. QED
  BY <1>3, <1>5, <1>8, <1>12, <1>17, <1>20 DEF Kept

(* The record `u` has the sessions of `p`, each where `f` says, perhaps further. *)
Moved(p, u, f) ==
    /\ DOMAIN u = DOMAIN rec[p]
    /\ \A k \in DOMAIN u : /\ f[k] \in DOMAIN rec[p]
                           /\ u[k].closed = rec[p][f[k]].closed
                           /\ Keeps(p, rec[p][f[k]], u[k])
    /\ \A k, l \in DOMAIN u : f[k] = f[l] => k = l
    /\ \A j \in DOMAIN rec[p] : \E k \in DOMAIN u : f[k] = j

LEMMA MovingStep ==
  ASSUME Inv, NEW p, NEW u, NEW f, NEW g, RecOf(p, u), Moved(p, u, f), SendsFrom(p, u, f, g),
         Since(keys, keys'), Since(inits, inits'), spent \subseteq spent', forgot \subseteq forgot',
         \A k \in DOMAIN u : Good(p, keys', u[k]) /\ Usable(u[k])
  PROVE  Kept
<1>1. p \in Parties /\ u \in Seq(Session) /\ rec' \in [Parties -> Seq(Session)] /\ rec'[p] = u
  BY RecAfter DEF Inv, RecOf
<1>2. /\ rec[p] \in Seq(Session) /\ OneOpen(rec[p]) /\ DistinctOld(inits, rec[p])
      /\ \A i \in DOMAIN rec[p] : rec[p][i] \in Session
  BY <1>1, RecFacts
<1>3. DistinctOld(inits', rec[p])
  <2>1. \A i \in DOMAIN rec[p] : rec[p][i].base \in Tokens /\ OldBase(inits, rec[p][i].base)
    BY <1>2, Fields DEF DistinctOld
  <2>2. \A i \in DOMAIN rec[p] : OldBase(inits', rec[p][i].base)
    BY <2>1, BaseAges
  <2>3. QED
    BY <1>2, <2>2 DEF DistinctOld
<1>4. /\ DOMAIN u = DOMAIN rec[p]
      /\ \A k \in DOMAIN rec[p] : /\ f[k] \in DOMAIN rec[p]
                                  /\ u[k].closed = rec[p][f[k]].closed
                                  /\ Keeps(p, rec[p][f[k]], u[k])
      /\ \A k, l \in DOMAIN rec[p] : f[k] = f[l] => k = l
      /\ \A j \in DOMAIN rec[p] : \E k \in DOMAIN rec[p] : f[k] = j
  BY DEF Moved
<1>5. \A k \in DOMAIN rec[p] : u[k].base = rec[p][f[k]].base
  BY <1>4 DEF Keeps
<1>6. OneOpen(u) /\ DistinctOld(inits', u) /\ Bases(u) \subseteq Bases(rec[p])
  <2>1. PICK r \in Seq(Session) : r = rec[p]
    BY <1>2
  <2>2. OneOpen(r) /\ DistinctOld(inits', r)
    BY <1>2, <1>3, <2>1
  <2>3. Reorders(r, u, f)
    BY <1>4, <1>5, <2>1 DEF Reorders
  <2>4. OneOpen(u) /\ DistinctOld(inits', u) /\ Bases(u) \subseteq Bases(r)
    BY <1>1, <2>2, <2>3, Reordered
  <2>5. QED
    BY <2>1, <2>4
<1>7. SessionsInv' /\ OpenInv' /\ BasesInv'
  BY <1>6, SessionsStep
<1>8. /\ ApartInv'
      /\ \A m \in sent : SentWith(keys', inits', m)
      /\ \A q \in Parties : \A m \in sent : Past(rec'[q], m)
  BY SecretsStep
<1>9. \A m \in opened : \A q \in Parties \ {From(m)} : ShutFor(q, rec'[q], spent', forgot', m)
  <2>1. \A i \in DOMAIN rec[p] : \E k \in DOMAIN u : Keeps(p, rec[p][i], u[k])
    BY <1>4
  <2>2. \A k \in DOMAIN u : u[k].base \in Bases(rec[p]) \/ NewBase(p, u[k].base)
    BY <1>6 DEF Bases
  <2>3. QED
    BY <2>1, <2>2, OpenedStep
<1>10. QED
  BY <1>1, <1>7, <1>8, <1>9 DEF Kept

-----------------------------------------------------------------------------
(* The actions. *)

LEMMA Start == Init => Inv
<1> SUFFICES ASSUME Init PROVE Inv
  OBVIOUS
<1>1. Shape
  <2>1. << >> \in Seq(Session)
    OBVIOUS
  <2>2. rec \in [Parties -> Seq(Session)]
    BY <2>1 DEF Init
  <2>3. QED
    BY <2>2 DEF Init, Shape
<1>2. \A p \in Parties : rec[p] = << >> /\ DOMAIN rec[p] = {}
  BY DEF Init
<1>3. SessionsInv /\ OpenInv /\ BasesInv /\ ApartInv
  BY <1>2 DEF SessionsInv, OpenInv, BasesInv, ApartInv
<1>4. SentInv /\ AheadInv /\ OpenedInv
  BY DEF Init, SentInv, AheadInv, OpenedInv
<1>5. QED
  BY <1>1, <1>3, <1>4 DEF Inv

(* A step that leaves the sessions and the messages alone. *)
LEMMA QuietStep ==
  ASSUME Inv, Shape', UNCHANGED <<rec, keys, inits, sent, opened, spent, forgot>>
  PROVE  Inv'
<1>1. SessionsInv' /\ OpenInv' /\ BasesInv' /\ ApartInv'
  BY DEF Inv, SessionsInv, OpenInv, OpenAt, BasesInv, ApartInv, SendChain
<1>2. SentInv' /\ AheadInv' /\ OpenedInv'
  BY DEF Inv, SentInv, AheadInv, OpenedInv
<1>3. QED
  BY <1>1, <1>2 DEF Inv

LEMMA AskInv == ASSUME Inv, NEW p \in Parties, Ask(p) \/ NoBundle(p) \/ Restart(p) PROVE Inv'
<1>1. UNCHANGED <<rec, keys, inits, sent, opened, spent, forgot, keyed, stray>>
  BY DEF Ask, NoBundle, Restart, historyVars
<1>2. asking \in [Parties -> Nat] /\ streak \in [Parties -> Nat]
  BY DEF Inv, Shape
<1>3. asking' \in [Parties -> Nat] /\ streak' \in [Parties -> Nat]
  <2>1. CASE Ask(p)
    BY <1>2, <2>1 DEF Ask
  <2>2. CASE NoBundle(p)
    BY <1>2, <2>2 DEF NoBundle
  <2>3. CASE Restart(p)
    BY <1>2, <2>3 DEF Restart
  <2>4. QED
    BY <2>1, <2>2, <2>3
<1>4. Shape'
  BY <1>1, <1>3 DEF Inv, Shape
<1>5. QED
  BY <1>1, <1>4, QuietStep

LEMMA Outgoing ==
  ASSUME Shape, NEW p \in Parties, NEW base \in Tokens, base[1] = p, NEW key \in Tokens,
         key[1] = p, NEW ks, Since(keys, ks), key[2] <= ks[p]
  PROVE  LET s == OutgoingSession(p, base, key)
         IN  /\ Good(p, ks, s) /\ Usable(s) /\ SendsUnder(s, key)
             /\ ~s.closed /\ s.base = base
<1>1. Peer(p) \in Parties /\ Peer(p) # p
  BY Peers
<1>2. PICK l \in Tokens : l = SignedPreKey(Peer(p)) /\ l[1] # p /\ l[1] \in Parties /\ l[2] = 0
  <2>1. PICK q \in Parties : q = Peer(p) /\ q # p
    BY <1>1
  <2>2. <<q, 0>> \in Tokens /\ <<q, 0>>[1] = q /\ <<q, 0>>[2] = 0
    BY DEF Tokens
  <2>3. SignedPreKey(Peer(p)) = <<q, 0>>
    BY <2>1 DEF SignedPreKey
  <2>4. QED
    BY <2>1, <2>2, <2>3
<1>3. OldTo(ks, l) /\ OldTo(ks, key)
  BY <1>2 DEF OldTo, Since
<1>4. PICK x \in Secrets : x = Secret(base, << >>) /\ x.base = base /\ x.pairs = << >>
  <2>1. << >> \in Seq(SUBSET Tokens)
    OBVIOUS
  <2>2. Secret(base, << >>) = [base |-> base, pairs |-> << >>]
    BY DEF Secret
  <2>3. [base |-> base, pairs |-> << >>] \in Secrets
    BY <2>1 DEF Secrets
  <2>4. QED
    BY <2>2, <2>3
<1>5. OldSecret(ks, x)
  BY <1>4 DEF OldSecret
<1>6. PICK y \in Secrets : /\ y = Mixed(x, key, l) /\ y.base = base /\ OldSecret(ks, y)
                           /\ Len(y.pairs) > 0 /\ y.pairs[Len(y.pairs)] = {key, l}
  BY <1>3, <1>4, <1>5, Mixing
<1>7. PICK c \in Chain : c = NewChain(TRUE, y) /\ c.secret = y /\ c.sending
  BY NewChains
<1>8. PICK h : h = [k \in {key} |-> c]
  OBVIOUS
<1>9. h \in ChainMaps /\ DOMAIN h = {key} /\ h[key] = c
  BY <1>8 DEF ChainMaps
<1>10. PICK s : s = [base |-> base, closed |-> FALSE, pending |-> TRUE, root |-> y,
                     ours |-> key, remote |-> l, previous |-> 0, chains |-> h]
  OBVIOUS
<1>11. /\ s \in Session /\ s.base = base /\ s.closed = FALSE /\ s.root = y /\ s.ours = key
       /\ s.chains = h
  BY <1>9, <1>10 DEF Session
<1>12. s = OutgoingSession(p, base, key)
  BY <1>2, <1>4, <1>6, <1>7, <1>8, <1>10 DEF OutgoingSession
<1>13. Good(p, ks, s)
  BY <1>3, <1>6, <1>7, <1>9, <1>11 DEF Good
<1>14. Usable(s) /\ SendChain(s) = c
  BY <1>7, <1>9, <1>11 DEF Usable, SendChain, Has
<1>15. SendsUnder(s, key)
  BY <1>2, <1>6, <1>7, <1>14 DEF SendsUnder
<1>16. QED
  BY <1>11, <1>12, <1>13, <1>14, <1>15

LEMMA InitOutgoingInv == ASSUME Inv, NEW p \in Parties, InitOutgoing(p) PROVE Inv'
<1> DEFINE base == <<p, -(inits[p] + 1)>>
           key  == <<p, keys[p] + 1>>
<1>1. Shape
  BY DEF Inv
<1>2. keys[p] \in Nat /\ inits[p] \in Nat
  BY <1>1 DEF Shape
<1>3. /\ base \in Tokens /\ base[1] = p /\ base[2] = -(inits[p] + 1)
      /\ key \in Tokens /\ key[1] = p /\ key[2] = keys[p] + 1
  BY <1>2 DEF Tokens
<1>4. /\ keys' = [keys EXCEPT ![p] = @ + 1] /\ inits' = [inits EXCEPT ![p] = @ + 1]
      /\ rec' = [rec EXCEPT ![p] = Entered(rec[p], OutgoingSession(p, base, key))]
      /\ asking[p] > 0 /\ asking' = [asking EXCEPT ![p] = @ - 1]
      /\ keyed' \in {keyed, keyed \union {base}}
      /\ UNCHANGED <<streak, spent, sent, opened, forgot, stray>>
  BY DEF InitOutgoing, historyVars
<1>5. Since(keys, keys') /\ Since(inits, inits') /\ keys'[p] = keys[p] + 1
      /\ inits'[p] = inits[p] + 1
  <2>1. keys \in [Parties -> Nat] /\ inits \in [Parties -> Nat]
    BY <1>1 DEF Shape
  <2>2. /\ keys' \in [Parties -> Nat] /\ keys'[p] = keys[p] + 1
        /\ \A q \in Parties : keys[q] <= keys'[q]
    BY <1>4, <2>1
  <2>3. /\ inits' \in [Parties -> Nat] /\ inits'[p] = inits[p] + 1
        /\ \A q \in Parties : inits[q] <= inits'[q]
    BY <1>4, <2>1
  <2>4. QED
    BY <2>1, <2>2, <2>3 DEF Since
<1> HIDE DEF base, key
<1>6. PICK s : s = OutgoingSession(p, base, key)
  OBVIOUS
<1>7. /\ Good(p, keys', s) /\ Usable(s) /\ SendsUnder(s, key) /\ ~s.closed /\ s.base = base
  <2>1. key[2] <= keys'[p]
    BY <1>2, <1>3, <1>5
  <2>2. QED
    BY <1>1, <1>3, <1>5, <1>6, <2>1, Outgoing
<1>8. keys[p] < key[2] /\ OldBase(inits', base) /\ ~OldBase(inits, base)
  BY <1>2, <1>3, <1>5 DEF OldBase
<1>9. base \notin Bases(rec[p])
  <2>1. \A i \in DOMAIN rec[p] : OldBase(inits, rec[p][i].base)
    BY DEF Inv, BasesInv
  <2>2. QED
    BY <1>8, <2>1 DEF Bases
<1>10. Kept
  <2>1. rec' = [rec EXCEPT ![p] = Entered(rec[p], s)]
    BY <1>4, <1>6
  <2>2. NewBase(p, s.base) /\ s.base \notin Bases(rec[p]) /\ OldBase(inits', s.base)
    BY <1>7, <1>8, <1>9 DEF NewBase
  <2>3. spent \subseteq spent' /\ forgot \subseteq forgot'
    BY <1>4
  <2>4. QED
    BY <1>3, <1>5, <1>7, <1>8, <2>1, <2>2, <2>3, EnteringStep
<1>11. asking' \in [Parties -> Nat] /\ keyed' \subseteq Tokens /\ spent \subseteq keyed'
  BY <1>1, <1>3, <1>4 DEF Shape
<1>12. rec' \in [Parties -> Seq(Session)] /\ keys' \in [Parties -> Nat] /\ inits' \in [Parties -> Nat]
  BY <1>5, <1>10 DEF Kept, Since
<1>13. Shape'
  BY <1>1, <1>4, <1>11, <1>12 DEF Shape
<1>14. SentInv' /\ AheadInv' /\ OpenedInv'
  BY <1>4, <1>10 DEF Kept, SentInv, AheadInv, OpenedInv
<1>15. QED
  BY <1>10, <1>13, <1>14 DEF Kept, Inv

(* encrypt moves its session to the front, with its chain one further. *)
Advanced(s) == [s EXCEPT !.chains[s.ours].counter = @ + 1]

LEMMA Advancing ==
  ASSUME NEW p \in Parties, NEW ks, NEW s, Good(p, ks, s), Usable(s), NEW t, t = Advanced(s)
  PROVE  /\ Good(p, ks, t) /\ Usable(t) /\ Keeps(p, s, t) /\ t.closed = s.closed
         /\ SendChain(t).secret = SendChain(s).secret
         /\ SendChain(t).counter = SendChain(s).counter + 1
<1>1. s \in Session /\ s.ours \in DOMAIN s.chains /\ s.chains \in ChainMaps
  BY DEF Good, Usable, Has, Session
<1>2. PICK c \in Chain : c = s.chains[s.ours]
  BY <1>1, Fields
<1>3. PICK D \in SUBSET Tokens : s.chains \in [D -> Chain]
  BY <1>1 DEF ChainMaps
<1>4. PICK d : d = [c EXCEPT !.counter = @ + 1]
  OBVIOUS
<1>5. /\ d \in Chain /\ d.secret = c.secret /\ d.sending = c.sending /\ d.counter = c.counter + 1
      /\ d.kept = c.kept
  BY <1>4 DEF Chain
<1>6. PICK h : h = [s.chains EXCEPT ![s.ours] = d]
  OBVIOUS
<1>7. h \in [D -> Chain] /\ h[s.ours] = d /\ \A k \in D \ {s.ours} : h[k] = s.chains[k]
  BY <1>1, <1>3, <1>5, <1>6
<1>8. h \in ChainMaps /\ DOMAIN h = DOMAIN s.chains
  BY <1>3, <1>7 DEF ChainMaps
<1>9. t = [s EXCEPT !.chains = h]
  BY <1>2, <1>4, <1>6 DEF Advanced, Session
<1>10. /\ t \in Session /\ t.base = s.base /\ t.closed = s.closed /\ t.pending = s.pending
       /\ t.root = s.root /\ t.ours = s.ours /\ t.chains = h
  BY <1>1, <1>8, <1>9 DEF Session
<1>11. \A k \in DOMAIN h : h[k].secret = s.chains[k].secret /\ h[k].sending = s.chains[k].sending
  BY <1>2, <1>3, <1>5, <1>7
<1>12. Good(p, ks, t)
  BY <1>8, <1>10, <1>11 DEF Good
<1>13. Usable(t)
  BY <1>1, <1>8, <1>10, <1>11 DEF Usable, SendChain, Has
<1>14. ASSUME NEW k \in DOMAIN s.chains, k[1] # p
       PROVE  k \in DOMAIN t.chains /\ Later(s.chains[k], t.chains[k])
  <2>1. k # s.ours
    BY <1>14 DEF Good
  <2>2. t.chains[k] = s.chains[k] /\ k \in DOMAIN t.chains
    BY <1>3, <1>7, <1>8, <1>10, <2>1
  <2>3. Later(s.chains[k], s.chains[k])
    BY <1>1, Fields, LaterReflexive
  <2>4. QED
    BY <2>2, <2>3
<1>15. Keeps(p, s, t)
  BY <1>10, <1>14 DEF Keeps
<1>16. SendChain(t) = d /\ SendChain(s) = c
  BY <1>2, <1>7, <1>10 DEF SendChain
<1>17. QED
  BY <1>5, <1>10, <1>12, <1>13, <1>15, <1>16

LEMMA SinceItself ==
  ASSUME NEW ks \in [Parties -> Nat] PROVE Since(ks, ks)
BY DEF Since

LEMMA SendInv == ASSUME Inv, NEW p \in Parties, Send(p) PROVE Inv'
<1> DEFINE i == Current(p)
           s == rec[p][i]
           r == rec[p]
<1>1. Shape
  BY DEF Inv
<1>2. /\ r \in Seq(Session)
      /\ \A j \in DOMAIN r : r[j] \in Session /\ Good(p, keys, r[j]) /\ Usable(r[j])
  BY RecFacts
<1>3. i \in DOMAIN r /\ ~s.closed
  <2>1. OpenAt(rec[p]) # {}
    BY DEF Send, CanSend
  <2>2. Current(p) \in OpenAt(rec[p])
    BY <2>1 DEF Current
  <2>3. QED
    BY <2>2 DEF OpenAt
<1>4. s \in Session /\ Good(p, keys, s) /\ Usable(s)
  BY <1>2, <1>3
<1>5. PICK t : t = Advanced(s)
  OBVIOUS
<1>6. /\ Good(p, keys, t) /\ Usable(t) /\ Keeps(p, s, t) /\ t.closed = s.closed
      /\ SendChain(t).secret = SendChain(s).secret
      /\ SendChain(t).counter = SendChain(s).counter + 1
  BY <1>4, <1>5, Advancing
<1>7. /\ sent' = sent \union {Encrypted(p)} /\ rec' = [rec EXCEPT ![p] = Used(rec[p], i, t)]
      /\ UNCHANGED <<asking, inits, keyed, keys, streak, spent, opened, forgot, stray>>
  BY <1>5 DEF Send, Advanced, setupVars, historyVars
<1>8. PICK e : e = Encrypted(p)
  OBVIOUS
<1>9. PICK c \in Chain : c = SendChain(s) /\ OldSecret(keys, c.secret) /\ c.secret \in Secrets
                         /\ c.counter \in Int
  BY <1>3, SendChains
<1>10. /\ e = [wrapped |-> s.pending, key |-> s.ours, counter |-> c.counter + 1,
               previous |-> s.previous, secret |-> c.secret]
  BY <1>8, <1>9 DEF Encrypted, SendChain
<1>11. s.pending \in BOOLEAN /\ s.ours \in Tokens /\ s.previous \in Int /\ s.base \in Tokens
  BY <1>4, Fields
<1>12. e \in Message
  BY <1>9, <1>10, <1>11 DEF Message
<1>13. /\ (e.wrapped <=> s.pending) /\ e.key = s.ours /\ e.counter = c.counter + 1
       /\ e.secret = c.secret
  BY <1>10
<1> HIDE DEF i, s, r
<1>14. Since(keys, keys') /\ Since(inits, inits')
  BY <1>1, <1>7, SinceItself DEF Shape
<1>15. t \in Session
  BY <1>6 DEF Good
<1>16. PICK u : u = Used(r, i, t) /\ u \in Seq(Session) /\ \E h : Rolls(r, i, t, u, h)
  BY <1>2, <1>3, <1>15, Rolling
<1>17. PICK f : Rolls(r, i, t, u, f)
  BY <1>16
<1>18. PICK g : g = [k \in DOMAIN r |-> <<p, 0>>]
  OBVIOUS
<1>19. RecOf(p, u) /\ rec'[p] = u /\ rec' \in [Parties -> Seq(Session)]
  <2>1. RecOf(p, u)
    BY <1>7, <1>16 DEF RecOf, r
  <2>2. QED
    BY <2>1, <1>1, RecAfter
<1>20. ASSUME NEW k \in DOMAIN r
       PROVE  /\ f[k] \in DOMAIN r /\ u[k].closed = r[f[k]].closed /\ Keeps(p, r[f[k]], u[k])
              /\ Good(p, keys, u[k]) /\ Usable(u[k])
              /\ SendChain(u[k]).secret = SendChain(r[f[k]]).secret
              /\ SendChain(r[f[k]]).counter <= SendChain(u[k]).counter
              /\ SendChain(u[k]).counter \in Int
  <2>1. f[k] \in DOMAIN r
    BY <1>17 DEF Rolls
  <2>2. CASE f[k] = i
    <3>1. u[k] = t /\ r[f[k]] = s
      BY <1>17, <2>2 DEF Rolls, s, r
    <3>2. SendChain(t).counter = c.counter + 1
      BY <1>6, <1>9
    <3>3. c.counter <= SendChain(t).counter /\ SendChain(t).counter \in Int
      BY <1>9, <3>2
    <3>4. QED
      BY <1>6, <1>9, <2>1, <3>1, <3>3
  <2>3. CASE f[k] # i
    <3>1. u[k] = r[f[k]]
      BY <1>17, <2>3 DEF Rolls
    <3>2. SendChain(r[f[k]]).counter \in Int
      BY <2>1, SendChains DEF r
    <3>3. Keeps(p, r[f[k]], r[f[k]])
      BY <1>2, <2>1, KeepsItself
    <3>4. QED
      BY <1>2, <2>1, <3>1, <3>2, <3>3
  <2>4. QED
    BY <2>2, <2>3
<1>21. Moved(p, u, f)
  <2>1. DOMAIN u = DOMAIN r
    BY <1>17 DEF Rolls
  <2>2. /\ \A k, l \in DOMAIN r : f[k] = f[l] => k = l
        /\ \A j \in DOMAIN r : \E k \in DOMAIN r : f[k] = j
    BY <1>17 DEF Rolls
  <2>3. \A k \in DOMAIN r : /\ f[k] \in DOMAIN r
                           /\ u[k].closed = r[f[k]].closed
                           /\ Keeps(p, r[f[k]], u[k])
    BY <1>20
  <2>4. QED
    BY <2>1, <2>2, <2>3, Zenon DEF Moved, r
<1>22. SendsFrom(p, u, f, g)
  <2> DOMAIN u = DOMAIN r
    BY <1>17 DEF Rolls
  <2>1. \A k \in DOMAIN u : Carried(p, u, f, k)
    BY <1>20 DEF Carried, r
  <2>2. ASSUME NEW k \in DOMAIN u PROVE ~Renewed(p, u, g, k)
    <3>1. keys[p] \in Nat /\ g[k][2] = 0
      BY <1>1, <1>18 DEF Shape
    <3>2. QED
      BY <3>1 DEF Renewed
  <2>3. \A k, l \in DOMAIN u : f[k] = f[l] => k = l
    BY <1>17 DEF Rolls
  <2>4. \A k \in DOMAIN u : SendChain(u[k]).counter \in Int
    BY <1>20
  <2>5. QED
    BY <2>1, <2>2, <2>3, <2>4 DEF SendsFrom
<1>23. Kept
  <2>1. \A k \in DOMAIN u : Good(p, keys', u[k]) /\ Usable(u[k])
    BY <1>7, <1>17, <1>20 DEF Rolls
  <2>2. spent \subseteq spent' /\ forgot \subseteq forgot'
    BY <1>7
  <2>3. QED
    BY <1>14, <1>19, <1>21, <1>22, <2>1, <2>2, MovingStep
<1>24. Shape'
  BY <1>1, <1>7, <1>8, <1>12, <1>19 DEF Shape
<1>25. SentWith(keys', inits', e)
  <2>1. OldTo(keys, s.ours) /\ s.ours[1] = p /\ (s.pending => s.base[1] = p) /\ c.secret.base = s.base
    BY <1>4, <1>9 DEF Good, SendChain, Usable, Has
  <2>2. OldBase(inits, s.base)
    BY <1>3 DEF Inv, BasesInv, s, r
  <2>3. SentWith(keys, inits, e)
    BY <1>9, <1>13, <2>1, <2>2 DEF SentWith, From
  <2>4. QED
    BY <1>7, <2>3
<1>26. ASSUME NEW q \in Parties PROVE Past(rec'[q], e)
  <2>1. PICK k \in DOMAIN u : f[k] = i /\ u[k] = t
    BY <1>3, <1>17 DEF Rolls
  <2>2. ASSUME NEW j \in DOMAIN rec'[q], e.secret = SendChain(rec'[q][j]).secret
        PROVE  e.counter <= SendChain(rec'[q][j]).counter
    <3>1. SendChain(rec'[p][k]).secret = SendChain(rec'[q][j]).secret /\ k \in DOMAIN rec'[p]
      BY <1>6, <1>9, <1>13, <1>19, <2>1, <2>2
    <3>2. ApartInv'
      BY <1>23 DEF Kept
    <3>3. p = q /\ k = j
      BY <2>2, <3>1, <3>2 DEF ApartInv, SendChain
    <3>4. SendChain(rec'[q][j]).counter = c.counter + 1
      BY <1>6, <1>9, <1>19, <2>1, <3>3
    <3>5. QED
      BY <1>9, <1>13, <3>4
  <2>3. QED
    BY <2>2 DEF Past
<1>27. SentInv' /\ AheadInv' /\ OpenedInv'
  <2>1. SentInv'
    BY <1>7, <1>8, <1>23, <1>25 DEF Kept, SentInv
  <2>2. AheadInv'
    BY <1>7, <1>8, <1>23, <1>26 DEF Kept, AheadInv
  <2>3. OpenedInv'
    BY <1>7, <1>23 DEF Kept, OpenedInv
  <2>4. QED
    BY <2>1, <2>2, <2>3
<1>28. QED
  BY <1>23, <1>24, <1>27 DEF Kept, Inv

-----------------------------------------------------------------------------
(* Reception: the sessions of a record are tried in turn. *)

LEMMA FirstIsIn ==
  ASSUME NEW T, T \subseteq Nat, T # {}
  PROVE  First(T) \in T /\ \A j \in T : First(T) <= j
<1>1. PICK i \in T : \A j \in T : ~ (<<j, i>> \in OpToRel(<, Nat))
  BY NatLessThanWellFounded, WFMin
<1>2. ASSUME NEW j \in T PROVE i <= j
  <2>1. i \in Nat /\ j \in Nat
    BY <1>1
  <2>2. ~ (<<j, i>> \in OpToRel(<, Nat))
    BY <1>1
  <2>3. ~ (j < i)
    BY <2>1, <2>2, Zenon DEF OpToRel
  <2>4. QED
    BY <2>1, <2>3
<1>3. QED
  BY <1>1, <1>2 DEF First

(* What a party knows of a message that it has not sent. *)
LEMMA Arriving ==
  ASSUME Inv, NEW p \in Parties, NEW m \in sent, From(m) # p
  PROVE  /\ m \in Message /\ m.key \in Tokens /\ m.key[1] # p
         /\ OldTo(keys, m.key) /\ SentWith(keys, inits, m)
         /\ m.secret \in Secrets /\ m.secret.base \in Tokens
         /\ From(m) \in Parties /\ \A q \in Parties : q # From(m) => q = p
<1>1. m \in Message /\ SentWith(keys, inits, m)
  BY DEF Inv, Shape, SentInv
<1>2. m.key \in Tokens /\ m.secret \in Secrets /\ m.secret.base \in Tokens
  BY <1>1 DEF Message, Secrets
<1>3. From(m) \in Parties
  BY <1>2 DEF From, Tokens
<1>4. \A q \in Parties : q # From(m) => q = p
  BY <1>3, Peers
<1>5. QED
  BY <1>1, <1>2, <1>3, <1>4 DEF From, SentWith

LEMMA Tried ==
  ASSUME Inv, NEW p \in Parties, NEW m \in sent, From(m) # p, NEW ks, Since(keys, ks),
         NEW j \in DOMAIN rec[p], KeyFor(p, j, m)[2] <= ks[p]
  PROVE  LET s == rec[p][j]
             r == Tries(p, m)[j]
         IN  /\ Good(p, ks, r.session) /\ Usable(r.session) /\ Keeps(p, s, r.session)
             /\ r.session.closed = s.closed
             /\ \/ SendChain(r.session) = SendChain(s)
                \/ ~Has(s, m.key) /\ SendsUnder(r.session, KeyFor(p, j, m))
             /\ r.opens => Spoken(r.session, m) /\ ~Spoken(s, m)
<1>1. /\ m \in Message /\ m.key[1] # p /\ OldTo(keys, m.key)
  BY Arriving
<1>2. /\ rec[p] \in Seq(Session) /\ Good(p, keys, rec[p][j]) /\ Usable(rec[p][j])
  BY RecFacts
<1>3. j \in Nat /\ j > 0
  BY <1>2
<1>4. PICK key : key = KeyFor(p, j, m)
  OBVIOUS
<1>5. /\ key \in Tokens /\ key[1] = p
      /\ ~Has(rec[p][j], m.key) => keys[p] < key[2] /\ key[2] <= ks[p]
  <2>1. keys \in [Parties -> Nat]
    BY DEF Inv, Shape
  <2>2. QED
    BY <1>3, <1>4, <2>1, Keying
<1>6. Tries(p, m)[j] = Try(rec[p][j], m, key)
  BY <1>4 DEF Tries
<1>7. QED
  BY <1>1, <1>2, <1>4, <1>5, <1>6, Attempt

LEMMA OpenMsgInv ==
  ASSUME Inv, NEW p \in Parties, NEW m \in sent, From(m) # p, OpenMsg(p, m)
  PROVE  Inv'
<1> DEFINE r == rec[p]
           i == First(Serves(p, m))
           after(j) == IF j <= i THEN Tries(p, m)[j].session ELSE r[j]
           turned(j) == j <= i /\ ~Has(r[j], m.key)
<1>1. Shape
  BY DEF Inv
<1>2. /\ r \in Seq(Session)
      /\ \A j \in DOMAIN r : r[j] \in Session /\ Good(p, keys, r[j]) /\ Usable(r[j])
  BY RecFacts
<1>3. i \in DOMAIN r /\ Tries(p, m)[i].opens
  <2>1. Serves(p, m) # {} /\ Serves(p, m) \subseteq DOMAIN r
    BY DEF OpenMsg, Serves
  <2>2. DOMAIN r \subseteq Nat
    BY <1>2
  <2>3. i \in Serves(p, m)
    BY <2>1, <2>2, FirstIsIn
  <2>4. QED
    BY <2>3 DEF Serves
<1>4. /\ rec' = [rec EXCEPT ![p] =
              Used([j \in DOMAIN r |-> IF j < i THEN Tries(p, m)[j].session ELSE r[j]], i,
                   Tries(p, m)[i].session)]
      /\ keys' = [keys EXCEPT ![p] = KeyFor(p, i, m)[2]]
      /\ streak' = [streak EXCEPT ![p] = 0]
      /\ opened' = opened \union {m}
      /\ stray' \in BOOLEAN
      /\ UNCHANGED <<asking, inits, keyed, spent, sent, forgot>>
  BY <1>1 DEF OpenMsg, setupVars, Shape
<1>5. DOMAIN r = 1..Len(r) /\ Len(r) \in Nat /\ i \in Nat /\ \A j \in DOMAIN r : j \in Nat
  BY <1>2, <1>3
<1> HIDE DEF i, r
<1>6. /\ keys \in [Parties -> Nat] /\ inits \in [Parties -> Nat]
  BY <1>1 DEF Shape
<1>7. KeyFor(p, i, m)[2] \in Nat /\ keys[p] <= KeyFor(p, i, m)[2]
  BY <1>5, <1>6, Keying
<1>8. Since(keys, keys') /\ Since(inits, inits') /\ keys'[p] = KeyFor(p, i, m)[2]
  <2>1. keys' \in [Parties -> Nat] /\ \A q \in Parties : keys[q] <= keys'[q]
    BY <1>4, <1>6, <1>7
  <2>2. keys'[p] = KeyFor(p, i, m)[2]
    BY <1>4, <1>6
  <2>3. Since(inits, inits')
    BY <1>4, <1>6, SinceItself
  <2>4. QED
    BY <1>6, <2>1, <2>2, <2>3 DEF Since
<1>9. ASSUME NEW j \in DOMAIN r, j <= i PROVE KeyFor(p, j, m)[2] <= keys'[p]
  <2>1. j \in 0..i
    BY <1>5, <1>9
  <2>2. QED
    BY <1>5, <1>6, <1>8, <2>1, Keying
<1>10. ASSUME NEW j \in DOMAIN r
       PROVE  /\ after(j) \in Session /\ Good(p, keys', after(j)) /\ Usable(after(j))
              /\ Keeps(p, r[j], after(j)) /\ after(j).closed = r[j].closed
              /\ \/ SendChain(after(j)) = SendChain(r[j])
                 \/ turned(j) /\ SendsUnder(after(j), KeyFor(p, j, m))
  <2>1. CASE j <= i
    <3>1. PICK t : t = Tries(p, m)[j].session
      OBVIOUS
    <3>2. after(j) = t
      BY <2>1, <3>1
    <3>3. /\ Good(p, keys', t) /\ Usable(t) /\ Keeps(p, r[j], t) /\ t.closed = r[j].closed
          /\ \/ SendChain(t) = SendChain(r[j])
             \/ ~Has(r[j], m.key) /\ SendsUnder(t, KeyFor(p, j, m))
      BY <1>8, <1>9, <2>1, <3>1, Tried DEF r
    <3>4. QED
      BY <2>1, <3>2, <3>3 DEF Good
  <2>2. CASE ~(j <= i)
    <3>1. after(j) = r[j]
      BY <2>2
    <3>2. Good(p, keys', r[j])
      BY <1>2, <1>8, SessionAges
    <3>3. Keeps(p, r[j], r[j])
      BY <1>2, KeepsItself
    <3>4. QED
      BY <1>2, <3>1, <3>2, <3>3
  <2>3. QED
    BY <2>1, <2>2
<1>11. Spoken(after(i), m)
  <2>1. after(i) = Tries(p, m)[i].session
    BY <1>5
  <2>2. QED
    BY <1>3, <1>8, <1>9, <1>5, <2>1, Tried DEF r
<1>12. PICK v : v = [j \in DOMAIN r |-> IF j < i THEN Tries(p, m)[j].session ELSE r[j]]
  OBVIOUS
<1>13. v \in Seq(Session) /\ DOMAIN v = DOMAIN r
  <2>1. ASSUME NEW j \in DOMAIN r
        PROVE  (IF j < i THEN Tries(p, m)[j].session ELSE r[j]) \in Session
    <3>1. CASE j < i
      <4>1. after(j) = Tries(p, m)[j].session
        BY <1>5, <3>1
      <4>2. QED
        BY <1>10, <3>1, <4>1
    <3>2. CASE ~(j < i)
      BY <1>2, <3>2
    <3>3. QED
      BY <3>1, <3>2
  <2>2. v \in [DOMAIN r -> Session]
    BY <1>12, <2>1
  <2>3. v \in [1..Len(r) -> Session]
    BY <1>5, <2>2
  <2>4. v \in Seq(Session)
    BY <1>5, <2>3, SeqDef
  <2>5. QED
    BY <2>2, <2>4
<1>14. PICK u : u = Used(v, i, after(i)) /\ u \in Seq(Session) /\ \E h : Rolls(v, i, after(i), u, h)
  BY <1>3, <1>10, <1>13, Rolling DEF r
<1>15. PICK f : Rolls(v, i, after(i), u, f)
  BY <1>14
<1>16. /\ DOMAIN u = DOMAIN r
       /\ \A k, l \in DOMAIN r : f[k] = f[l] => k = l
       /\ \A j \in DOMAIN r : \E k \in DOMAIN r : f[k] = j
  BY <1>13, <1>15 DEF Rolls
<1>17. ASSUME NEW k \in DOMAIN r PROVE f[k] \in DOMAIN r /\ u[k] = after(f[k])
  <2>1. f[k] \in DOMAIN r /\ u[k] = IF f[k] = i THEN after(i) ELSE v[f[k]]
    BY <1>13, <1>15 DEF Rolls
  <2>2. PICK j \in DOMAIN r : j = f[k]
    BY <2>1
  <2>3. v[j] = IF j < i THEN Tries(p, m)[j].session ELSE r[j]
    BY <1>12
  <2>4. j # i => v[j] = after(j)
    BY <1>5, <2>3
  <2> HIDE DEF after
  <2>5. QED
    BY <2>1, <2>2, <2>4
<1>18. RecOf(p, u) /\ rec'[p] = u /\ rec' \in [Parties -> Seq(Session)]
  <2>1. after(i) = Tries(p, m)[i].session
    BY <1>5
  <2> HIDE DEF after
  <2>2. rec' = [rec EXCEPT ![p] = u]
    BY <1>4, <1>12, <1>14, <2>1
  <2>3. RecOf(p, u)
    BY <1>14, <2>2 DEF RecOf
  <2>4. QED
    BY <1>1, <2>3, RecAfter
<1>19. PICK g : g = [k \in DOMAIN r |-> IF turned(f[k]) THEN KeyFor(p, f[k], m) ELSE <<p, 0>>]
  OBVIOUS
<1>20. ASSUME NEW k \in DOMAIN r
       PROVE  g[k] = IF turned(f[k]) THEN KeyFor(p, f[k], m) ELSE <<p, 0>>
  BY <1>19
<1> HIDE DEF after
<1>21. ASSUME NEW k \in DOMAIN r, Renewed(p, u, g, k) PROVE turned(f[k]) /\ g[k] = KeyFor(p, f[k], m)
  <2>1. keys[p] \in Nat /\ keys[p] < g[k][2]
    BY <1>6, <1>21 DEF Renewed
  <2>2. <<p, 0>>[2] = 0
    OBVIOUS
  <2>3. QED
    BY <1>20, <2>1, <2>2
<1>22. ASSUME NEW j \in DOMAIN r, NEW l \in DOMAIN r, turned(j), turned(l), j < l
       PROVE  KeyFor(p, j, m) # KeyFor(p, l, m)
  <2>1. j \in 0..(l - 1) /\ l \in Nat
    BY <1>5, <1>22
  <2>2. KeyFor(p, j, m)[2] < KeyFor(p, l, m)[2]
    BY <1>6, <1>22, <2>1, Keying DEF r
  <2>3. KeyFor(p, l, m)[2] \in Nat
    BY <1>6, <2>1, Keying
  <2>4. QED
    BY <2>2, <2>3
<1>23. SendsFrom(p, u, f, g)
  <2>1. ASSUME NEW k \in DOMAIN u
        PROVE  Carried(p, u, f, k) \/ (g[k] \in Tokens /\ Renewed(p, u, g, k))
    <3>1. PICK j \in DOMAIN r : j = f[k] /\ u[k] = after(j)
      BY <1>16, <1>17, <2>1
    <3>2. CASE SendChain(after(j)) = SendChain(r[j])
      <4>1. SendChain(r[j]).counter \in Int
        BY <3>1, SendChains DEF r
      <4>2. QED
        BY <3>1, <3>2, <4>1 DEF Carried, r
    <3>3. CASE turned(j) /\ SendsUnder(after(j), KeyFor(p, j, m))
      <4>1. g[k] = KeyFor(p, j, m)
        BY <1>16, <1>20, <2>1, <3>1, <3>3
      <4>2. j \in Nat /\ j > 0
        BY <1>5
      <4>3. KeyFor(p, j, m) \in Tokens /\ KeyFor(p, j, m)[1] = p /\ keys[p] < KeyFor(p, j, m)[2]
        BY <1>6, <3>3, <4>2, Keying DEF r
      <4>4. QED
        BY <3>1, <3>3, <4>1, <4>3 DEF Renewed
    <3>4. QED
      BY <1>10, <3>1, <3>2, <3>3
  <2>2. \A k, l \in DOMAIN u : f[k] = f[l] => k = l
    BY <1>16
  <2>3. ASSUME NEW k \in DOMAIN u, NEW l \in DOMAIN u,
               Renewed(p, u, g, k), Renewed(p, u, g, l), g[k] = g[l]
        PROVE  k = l
    <3>1. k \in DOMAIN r /\ l \in DOMAIN r
      BY <1>16, <2>3
    <3>2. /\ turned(f[k]) /\ turned(f[l])
          /\ KeyFor(p, f[k], m) = KeyFor(p, f[l], m)
      BY <1>21, <2>3, <3>1
    <3>3. PICK a \in DOMAIN r, b \in DOMAIN r : a = f[k] /\ b = f[l]
      BY <1>17, <3>1
    <3>4. ~(a < b) /\ ~(b < a)
      BY <1>22, <3>2, <3>3
    <3>5. a = b
      BY <1>5, <3>4
    <3>6. QED
      BY <1>16, <3>1, <3>3, <3>5
  <2>4. ASSUME NEW k \in DOMAIN u PROVE SendChain(u[k]).counter \in Int
    <3>1. Usable(u[k]) /\ u[k] \in Session
      BY <1>10, <1>16, <1>17, <2>4
    <3>2. SendChain(u[k]) \in Chain
      BY <3>1, Fields DEF Usable, Has, SendChain
    <3>3. QED
      BY <3>2 DEF Chain
  <2>5. QED
    BY <2>1, <2>2, <2>3, <2>4 DEF SendsFrom
<1>24. Moved(p, u, f)
  <2>1. \A k \in DOMAIN r : /\ f[k] \in DOMAIN r
                            /\ u[k].closed = r[f[k]].closed
                            /\ Keeps(p, r[f[k]], u[k])
    BY <1>10, <1>17
  <2>2. QED
    BY <1>16, <2>1, Zenon DEF Moved, r
<1>25. Kept
  <2>1. \A k \in DOMAIN u : Good(p, keys', u[k]) /\ Usable(u[k])
    BY <1>10, <1>16, <1>17
  <2>2. spent \subseteq spent' /\ forgot \subseteq forgot'
    BY <1>4
  <2>3. QED
    BY <1>8, <1>18, <1>23, <1>24, <2>1, <2>2, MovingStep
<1>26. Shape'
  <2>1. streak' \in [Parties -> Nat] /\ keys' \in [Parties -> Nat]
    BY <1>1, <1>4, <1>8 DEF Shape, Since
  <2>2. QED
    BY <1>1, <1>4, <1>18, <2>1 DEF Shape
<1>27. SentInv' /\ AheadInv'
  BY <1>4, <1>25 DEF Kept, SentInv, AheadInv
<1>28. ASSUME NEW q \in Parties \ {From(m)} PROVE ShutFor(q, rec'[q], spent', forgot', m)
  <2>1. q = p
    BY Arriving
  <2>2. PICK k \in DOMAIN u : f[k] = i
    BY <1>3, <1>16 DEF r
  <2>3. Spoken(u[k], m)
    BY <1>11, <1>16, <1>17, <2>2
  <2>4. QED
    BY <1>18, <2>1, <2>3 DEF ShutFor
<1>29. OpenedInv'
  BY <1>4, <1>25, <1>28 DEF Kept, OpenedInv
<1>30. QED
  BY <1>25, <1>26, <1>27, <1>29 DEF Kept, Inv

(* A record that is deleted after too many failures. *)
LEMMA Healing ==
  ASSUME Inv, NEW p \in Parties, rec' = [rec EXCEPT ![p] = << >>],
         keys' = keys, inits' = inits, spent' = spent, sent' = sent,
         forgot' = forgot \union {k \in Bases(rec[p]) \ spent : k[1] # p}
  PROVE  Kept
<1>1. RecOf(p, << >>) /\ rec'[p] = << >> /\ rec' \in [Parties -> Seq(Session)]
      /\ \A q \in Parties \ {p} : rec'[q] = rec[q]
  <2>1. << >> \in Seq(Session)
    OBVIOUS
  <2>2. RecOf(p, << >>)
    BY <2>1 DEF RecOf
  <2>3. QED
    BY <2>2, RecAfter DEF Inv
<1>2. Since(keys, keys') /\ Since(inits, inits')
  BY SinceItself DEF Inv, Shape
<1>3. DOMAIN << >> = {}
  OBVIOUS
<1>4. SessionsInv' /\ OpenInv' /\ BasesInv'
  <2>1. OneOpen(<< >>) /\ DistinctOld(inits', << >>)
    BY <1>3 DEF OneOpen, DistinctOld
  <2>2. \A k \in DOMAIN << >> : Good(p, keys', << >>[k]) /\ Usable(<< >>[k])
    BY <1>3
  <2>3. QED
    BY <1>1, <1>2, <2>1, <2>2, SessionsStep
<1>5. /\ ApartInv'
      /\ \A m \in sent : SentWith(keys', inits', m)
      /\ \A q \in Parties : \A m \in sent : Past(rec'[q], m)
  <2>1. SendsFrom(p, << >>, << >>, << >>)
    BY <1>3 DEF SendsFrom
  <2>2. QED
    BY <1>1, <1>2, <2>1, SecretsStep
<1>6. ASSUME NEW m \in opened, NEW q \in Parties \ {From(m)}
      PROVE  ShutFor(q, rec'[q], spent', forgot', m)
  <2>1. ShutFor(q, rec[q], spent, forgot, m)
    BY DEF Inv, OpenedInv
  <2>2. forgot \subseteq forgot'
    OBVIOUS
  <2>3. CASE q # p
    BY <1>1, <2>1, <2>2, <2>3 DEF ShutFor
  <2>4. CASE q = p
    <3>1. m.secret.base \notin Bases(rec'[q])
      BY <1>1, <1>3, <2>4 DEF Bases
    <3>2. CASE m.secret.base \in forgot \/ m.secret.base \in spent \/ m.secret.base[1] = p
      BY <2>2, <2>4, <3>1, <3>2 DEF ShutFor
    <3>3. CASE \E j \in DOMAIN rec[q] : Spoken(rec[q][j], m)
      <4>1. m.secret.base \in Bases(rec[p])
        BY <2>4, <3>3 DEF Spoken, Bases
      <4>2. m.secret.base \in forgot' \/ m.secret.base \in spent \/ m.secret.base[1] = p
        BY <4>1
      <4>3. QED
        BY <2>4, <3>1, <4>2 DEF ShutFor
    <3>4. QED
      BY <2>1, <2>4, <3>2, <3>3 DEF ShutFor
  <2>5. QED
    BY <2>3, <2>4
<1>7. QED
  BY <1>1, <1>4, <1>5, <1>6 DEF Kept

LEMMA FailMsgInv ==
  ASSUME Inv, NEW p \in Parties, NEW m \in sent, From(m) # p, FailMsg(p, m)
  PROVE  Inv'
<1>1. Shape
  BY DEF Inv
<1>2. UNCHANGED <<asking, inits, keyed, keys, spent, sent, opened, stray>>
  BY DEF FailMsg, setupVars
<1>3. CASE streak' = [streak EXCEPT ![p] = @ + 1] /\ UNCHANGED <<rec, forgot>>
  <2>1. Shape'
    BY <1>1, <1>2, <1>3 DEF Shape
  <2>2. QED
    BY <1>2, <1>3, <2>1, QuietStep
<1>4. CASE /\ streak' = [streak EXCEPT ![p] = 0]
           /\ rec' = [rec EXCEPT ![p] = << >>]
           /\ forgot' = forgot \union {k \in Bases(rec[p]) \ spent : k[1] # p}
  <2>1. Kept
    BY <1>2, <1>4, Healing
  <2>2. Bases(rec[p]) \subseteq Tokens
    <3>1. \A j \in DOMAIN rec[p] : rec[p][j] \in Session
      BY RecFacts
    <3>2. QED
      BY <3>1, Fields DEF Bases
  <2>3. forgot' \subseteq Tokens
    BY <1>1, <1>4, <2>2 DEF Shape
  <2>4. Shape'
    BY <1>1, <1>2, <1>4, <2>1, <2>3 DEF Shape, Kept
  <2>5. SentInv' /\ AheadInv' /\ OpenedInv'
    BY <1>2, <2>1 DEF Kept, SentInv, AheadInv, OpenedInv
  <2>6. QED
    BY <2>1, <2>4, <2>5 DEF Kept, Inv
<1>5. QED
  BY <1>3, <1>4 DEF FailMsg

-----------------------------------------------------------------------------
(* A pkmsg: on the session it made before, or on a new one. *)

LEMMA Incoming ==
  ASSUME Shape, NEW p \in Parties, NEW base \in Tokens
  PROVE  LET s == IncomingSession(p, base)
         IN  /\ Good(p, keys, s) /\ s.base = base /\ ~s.closed
             /\ \A k : ~Has(s, k)
<1>1. <<p, 0>> \in Tokens /\ <<p, 0>>[1] = p /\ <<p, 0>>[2] = 0
  BY DEF Tokens
<1>2. PICK l \in Tokens : l = SignedPreKey(p) /\ l[1] = p /\ l[2] = 0
  BY <1>1 DEF SignedPreKey
<1>3. OldTo(keys, l)
  BY <1>2 DEF OldTo, Shape
<1>4. PICK x \in Secrets : x = Secret(base, << >>) /\ x.base = base /\ x.pairs = << >>
  <2>1. << >> \in Seq(SUBSET Tokens)
    OBVIOUS
  <2>2. Secret(base, << >>) = [base |-> base, pairs |-> << >>]
    BY DEF Secret
  <2>3. [base |-> base, pairs |-> << >>] \in Secrets
    BY <2>1 DEF Secrets
  <2>4. QED
    BY <2>2, <2>3
<1>5. OldSecret(keys, x)
  BY <1>4 DEF OldSecret
<1>6. PICK h : h = [k \in {} |-> NewChain(TRUE, x)]
  OBVIOUS
<1>7. h \in [{} -> Chain] /\ DOMAIN h = {}
  BY <1>6
<1>8. h \in ChainMaps
  BY <1>7 DEF ChainMaps
<1>9. PICK s : s = [base |-> base, closed |-> FALSE, pending |-> FALSE, root |-> x,
                    ours |-> l, remote |-> base, previous |-> 0, chains |-> h]
  OBVIOUS
<1>10. /\ s \in Session /\ s.base = base /\ s.closed = FALSE /\ s.pending = FALSE
       /\ s.root = x /\ s.ours = l /\ s.chains = h
  BY <1>8, <1>9 DEF Session
<1>11. s = IncomingSession(p, base)
  BY <1>2, <1>4, <1>6, <1>9 DEF IncomingSession
<1>12. Good(p, keys, s)
  BY <1>2, <1>3, <1>4, <1>5, <1>7, <1>10 DEF Good
<1>13. \A k : ~Has(s, k)
  BY <1>7, <1>10 DEF Has
<1>14. QED
  BY <1>10, <1>11, <1>12, <1>13

InPlace(r, i, t) == [r EXCEPT ![i] = t]

LEMMA StoredInPlace ==
  ASSUME Inv, NEW p \in Parties, NEW i \in DOMAIN rec[p], NEW t, NEW key \in Tokens,
         key[1] = p, rec' = [rec EXCEPT ![p] = InPlace(rec[p], i, t)],
         Since(keys, keys'), Since(inits, inits'), spent \subseteq spent', forgot \subseteq forgot',
         Good(p, keys', t), Usable(t), Keeps(p, rec[p][i], t), t.closed = rec[p][i].closed,
         SendChain(t) = SendChain(rec[p][i]) \/ (keys[p] < key[2] /\ SendsUnder(t, key))
  PROVE  Kept
<1> DEFINE r == rec[p]
<1>1. Shape
  BY DEF Inv
<1>2. /\ r \in Seq(Session)
      /\ \A j \in DOMAIN r : r[j] \in Session /\ Good(p, keys, r[j]) /\ Usable(r[j])
  BY RecFacts
<1>3. t \in Session
  BY DEF Good
<1>4. PICK u : u = InPlace(r, i, t)
  OBVIOUS
<1>5. /\ u \in Seq(Session) /\ DOMAIN u = DOMAIN r /\ u[i] = t
      /\ \A k \in DOMAIN r : k # i => u[k] = r[k]
  BY <1>2, <1>3, <1>4 DEF InPlace
<1>6. RecOf(p, u) /\ rec'[p] = u
  <2>1. RecOf(p, u)
    BY <1>4, <1>5 DEF RecOf
  <2>2. QED
    BY <1>1, <2>1, RecAfter
<1> HIDE DEF r
<1>7. PICK f, g : /\ f = [k \in DOMAIN r |-> k]
                  /\ g = [k \in DOMAIN r |-> IF k = i THEN key ELSE <<p, 0>>]
  OBVIOUS
<1>8. ASSUME NEW k \in DOMAIN r
      PROVE  /\ f[k] = k /\ u[k].closed = r[k].closed /\ Keeps(p, r[k], u[k])
             /\ Good(p, keys', u[k]) /\ Usable(u[k])
  <2>1. f[k] = k
    BY <1>7
  <2>2. CASE k = i
    BY <1>5, <2>1, <2>2 DEF r
  <2>3. CASE k # i
    <3>1. u[k] = r[k] /\ Good(p, keys', r[k]) /\ Usable(r[k]) /\ Keeps(p, r[k], r[k])
      BY <1>2, <1>5, <2>3, SessionAges, KeepsItself
    <3>2. QED
      BY <2>1, <3>1
  <2>4. QED
    BY <2>2, <2>3
<1>9. Moved(p, u, f)
  <2>1. \A k \in DOMAIN r : /\ f[k] \in DOMAIN r
                            /\ u[k].closed = r[f[k]].closed
                            /\ Keeps(p, r[f[k]], u[k])
    BY <1>8
  <2>2. \A k, l \in DOMAIN r : f[k] = f[l] => k = l
    BY <1>8
  <2>3. \A j \in DOMAIN r : \E k \in DOMAIN r : f[k] = j
    BY <1>8
  <2>4. QED
    BY <1>5, <2>1, <2>2, <2>3, Zenon DEF Moved, r
<1>10. SendsFrom(p, u, f, g)
  <2>1. ASSUME NEW k \in DOMAIN u PROVE SendChain(u[k]).counter \in Int
    <3>1. Usable(u[k]) /\ u[k] \in Session
      BY <1>5, <1>8, <2>1 DEF Good
    <3>2. SendChain(u[k]) \in Chain
      BY <3>1, Fields DEF Usable, Has, SendChain
    <3>3. QED
      BY <3>2 DEF Chain
  <2>2. ASSUME NEW k \in DOMAIN u, SendChain(u[k]) = SendChain(r[k])
        PROVE  Carried(p, u, f, k)
    <3>1. f[k] = k /\ k \in DOMAIN r /\ SendChain(u[k]).counter \in Int
      BY <1>5, <1>8, <2>1, <2>2
    <3>2. QED
      BY <2>2, <3>1 DEF Carried, r
  <2>3. ASSUME NEW k \in DOMAIN u
        PROVE  Carried(p, u, f, k) \/ (g[k] \in Tokens /\ Renewed(p, u, g, k))
    <3>1. CASE SendChain(u[k]) = SendChain(r[k])
      BY <2>2, <2>3, <3>1
    <3>2. CASE SendChain(u[k]) # SendChain(r[k])
      <4>1. k = i /\ u[k] = t
        BY <1>5, <2>3, <3>2
      <4>2. keys[p] < key[2] /\ SendsUnder(t, key)
        BY <3>2, <4>1 DEF r
      <4>3. g[k] = key
        BY <1>5, <1>7, <2>3, <4>1
      <4>4. QED
        BY <4>1, <4>2, <4>3 DEF Renewed
    <3>3. QED
      BY <3>1, <3>2
  <2>4. \A k, l \in DOMAIN u : f[k] = f[l] => k = l
    BY <1>5, <1>8
  <2>5. ASSUME NEW k \in DOMAIN u, Renewed(p, u, g, k) PROVE k = i
    <3>1. SUFFICES ASSUME k # i PROVE FALSE
      OBVIOUS
    <3>2. g[k] = <<p, 0>> /\ <<p, 0>>[2] = 0
      BY <1>5, <1>7, <2>5, <3>1
    <3>3. keys[p] \in Nat /\ keys[p] < g[k][2]
      BY <1>1, <2>5 DEF Renewed, Shape
    <3>4. QED
      BY <3>2, <3>3
  <2>6. \A k, l \in DOMAIN u :
            Renewed(p, u, g, k) /\ Renewed(p, u, g, l) /\ g[k] = g[l] => k = l
    BY <2>5
  <2>7. QED
    BY <2>1, <2>3, <2>4, <2>6 DEF SendsFrom
<1>11. \A k \in DOMAIN u : Good(p, keys', u[k]) /\ Usable(u[k])
  BY <1>5, <1>8
<1>12. QED
  BY <1>6, <1>9, <1>10, <1>11, MovingStep

LEMMA StorePkmsgInv ==
  ASSUME Inv, NEW p \in Parties, NEW m \in sent, From(m) # p, StorePkmsg(p, m),
         spent \subseteq spent', spent' \subseteq keyed, asking' \in [Parties -> Nat]
  PROVE  Inv'
<1> DEFINE s == PkmsgSession(p, m)
           b == m.secret.base
           i == At(rec[p], b)
<1>1. Shape
  BY DEF Inv
<1>2. PICK key : key = <<p, keys[p] + 1>>
  OBVIOUS
<1>3. keys[p] \in Nat /\ key \in Tokens /\ key[1] = p /\ key[2] = keys[p] + 1
  BY <1>1, <1>2 DEF Shape, Tokens
<1>4. PICK r : r = PkmsgTry(p, m)
  OBVIOUS
<1>5. /\ m.wrapped /\ Startable(p, m) /\ r.opens
      /\ rec' = [rec EXCEPT ![p] = Joined(p, m)]
      /\ keys' = [keys EXCEPT ![p] = @ + IF Has(s, m.key) THEN 0 ELSE 1]
      /\ streak' = [streak EXCEPT ![p] = 0]
      /\ opened' = opened \union {m}
      /\ UNCHANGED <<inits, keyed, sent, forgot, stray>>
  BY <1>4 DEF StorePkmsg
<1>6. /\ m \in Message /\ m.key[1] # p /\ OldTo(keys, m.key) /\ SentWith(keys, inits, m)
      /\ b \in Tokens
  BY Arriving
<1>7. r = Try(s, m, key)
  BY <1>2, <1>4 DEF PkmsgTry
<1> HIDE DEF s
<1>8. Since(keys, keys') /\ Since(inits, inits')
      /\ (~Has(s, m.key) => keys[p] < key[2] /\ key[2] <= keys'[p])
  <2>1. keys \in [Parties -> Nat] /\ inits \in [Parties -> Nat]
    BY <1>1 DEF Shape
  <2>2. PICK n \in 0..1 : n = IF Has(s, m.key) THEN 0 ELSE 1
    OBVIOUS
  <2>3. keys' = [keys EXCEPT ![p] = keys[p] + n]
    BY <1>5, <2>2
  <2>4. /\ keys' \in [Parties -> Nat] /\ \A q \in Parties : keys[q] <= keys'[q]
        /\ keys'[p] = keys[p] + n
    BY <2>1, <2>3
  <2>5. Since(inits, inits')
    BY <1>5, <2>1, SinceItself
  <2>6. ~Has(s, m.key) => keys[p] < key[2] /\ key[2] <= keys'[p]
    BY <1>3, <2>2, <2>4
  <2>7. QED
    BY <2>1, <2>4, <2>5, <2>6 DEF Since
<1>9. Held(p, m) => i \in DOMAIN rec[p] /\ s = rec[p][i]
  <2>1. Held(p, m) => \E j \in DOMAIN rec[p] : rec[p][j].base = b
    BY DEF Held, Bases
  <2>2. Held(p, m) => i \in DOMAIN rec[p]
    BY <2>1 DEF At
  <2>3. QED
    BY <2>2 DEF PkmsgSession, s
<1>10. ~Held(p, m) => /\ s.base = b /\ ~s.closed /\ ~Has(s, m.key) /\ Good(p, keys, s)
  BY <1>1, <1>6, Incoming DEF PkmsgSession, s
<1>11. Good(p, keys, s)
  BY <1>9, <1>10, RecFacts
<1>12. /\ Good(p, keys', r.session) /\ Keeps(p, s, r.session) /\ r.session.closed = s.closed
       /\ Usable(s) => /\ Usable(r.session)
                       /\ \/ SendChain(r.session) = SendChain(s)
                          \/ ~Has(s, m.key) /\ SendsUnder(r.session, key)
       /\ Spoken(r.session, m)
       /\ ~Has(s, m.key) => Usable(r.session) /\ SendsUnder(r.session, key)
  <2>1. m \in Message /\ m.key[1] # p /\ OldTo(keys, m.key) /\ r.opens
    BY <1>5, <1>6
  <2>2. key \in Tokens /\ key[1] = p
    BY <1>3
  <2> HIDE DEF b, i
  <2>3. QED
    BY <1>7, <1>8, <1>11, <2>1, <2>2, Attempt
<1>13. Kept /\ \E k \in DOMAIN rec'[p] : rec'[p][k] = r.session
  <2>1. CASE Held(p, m)
    <3>1. i \in DOMAIN rec[p] /\ s = rec[p][i] /\ Usable(s)
      BY <1>9, <2>1, RecFacts
    <3>2. rec' = [rec EXCEPT ![p] = [rec[p] EXCEPT ![i] = r.session]]
      BY <1>4, <1>5, <2>1 DEF Joined
    <3>3. SendChain(r.session) = SendChain(rec[p][i])
            \/ (keys[p] < key[2] /\ SendsUnder(r.session, key))
      BY <1>8, <1>12, <3>1
    <3>4. /\ Usable(r.session) /\ Keeps(p, rec[p][i], r.session)
          /\ r.session.closed = rec[p][i].closed /\ Good(p, keys', r.session)
      BY <1>12, <3>1
    <3>5. forgot \subseteq forgot' /\ key \in Tokens /\ key[1] = p
      BY <1>3, <1>5
    <3>6. Since(keys, keys') /\ Since(inits, inits')
      BY <1>8
    <3> HIDE DEF i, b
    <3>7. PICK t : t = r.session
      OBVIOUS
    <3>8. PICK j \in DOMAIN rec[p] : j = i
      BY <3>1
    <3>9. rec' = [rec EXCEPT ![p] = InPlace(rec[p], j, t)]
      BY <3>2, <3>7, <3>8 DEF InPlace
    <3>10. Kept /\ j \in DOMAIN rec'[p] /\ rec'[p][j] = t
      <4>1. SendChain(t) = SendChain(rec[p][j]) \/ (keys[p] < key[2] /\ SendsUnder(t, key))
        BY <3>3, <3>7, <3>8
      <4>2. /\ Usable(t) /\ Keeps(p, rec[p][j], t)
            /\ t.closed = rec[p][j].closed /\ Good(p, keys', t)
        BY <3>4, <3>7, <3>8
      <4>3. Kept
        BY <3>5, <3>6, <3>8, <3>9, <4>1, <4>2, StoredInPlace
      <4>4. j \in DOMAIN rec'[p] /\ rec'[p][j] = t
        <5>1. rec'[p] = InPlace(rec[p], j, t)
          BY <1>1, <3>9 DEF Shape
        <5>2. QED
          BY <3>8, <5>1 DEF InPlace
      <4>5. QED
        BY <4>3, <4>4
    <3>11. QED
      BY <3>7, <3>10
  <2>2. CASE ~Held(p, m)
    <3>1. rec' = [rec EXCEPT ![p] = Entered(rec[p], r.session)]
      BY <1>4, <1>5, <2>2 DEF Joined
    <3>2. r.session.base = b /\ ~r.session.closed /\ Usable(r.session) /\ SendsUnder(r.session, key)
      BY <1>10, <1>12, <2>2 DEF Keeps
    <3>3. b \notin Bases(rec[p]) /\ b \notin spent
      BY <1>5, <2>2 DEF Held, Startable
    <3>4. b[1] # p
      BY <1>5, <1>6 DEF SentWith
    <3>5. OldBase(inits', b) /\ NewBase(p, b)
      BY <1>5, <1>6, <3>3, <3>4 DEF SentWith, NewBase
    <3>6. keys[p] < key[2] /\ forgot \subseteq forgot'
      BY <1>3, <1>5
    <3> HIDE DEF b
    <3>7. Kept /\ 1 \in DOMAIN rec'[p] /\ rec'[p][1] = r.session
      BY <1>3, <1>8, <1>12, <3>1, <3>2, <3>3, <3>5, <3>6, EnteringStep
    <3>8. QED
      BY <3>7
  <2>3. QED
    BY <2>1, <2>2
<1>14. Shape'
  <2>1. streak' \in [Parties -> Nat] /\ keys' \in [Parties -> Nat]
    BY <1>1, <1>5, <1>8 DEF Shape, Since
  <2>2. rec' \in [Parties -> Seq(Session)]
    BY <1>13 DEF Kept
  <2>3. QED
    BY <1>1, <1>5, <2>1, <2>2 DEF Shape
<1>15. SentInv' /\ AheadInv'
  BY <1>5, <1>13 DEF Kept, SentInv, AheadInv
<1>16. ASSUME NEW q \in Parties \ {From(m)} PROVE ShutFor(q, rec'[q], spent', forgot', m)
  <2>1. q = p
    BY Arriving
  <2>2. QED
    BY <1>12, <1>13, <2>1 DEF ShutFor
<1>17. OpenedInv'
  BY <1>5, <1>13, <1>16 DEF Kept, OpenedInv
<1>18. QED
  BY <1>13, <1>14, <1>15, <1>17 DEF Kept, Inv

-----------------------------------------------------------------------------
(* Every step keeps the invariant. *)

LEMMA PkmsgInv ==
  ASSUME Inv, NEW p \in Parties, NEW m \in sent, From(m) # p,
         OpenPkmsg(p, m) \/ CrashInPkmsg(p, m)
  PROVE  Inv'
<1>1. Shape
  BY DEF Inv
<1>2. StorePkmsg(p, m)
  BY DEF OpenPkmsg, CrashInPkmsg
<1>3. spent \subseteq spent' /\ spent' \subseteq keyed /\ asking' \in [Parties -> Nat]
  <2>1. CASE OpenPkmsg(p, m)
    BY <1>1, <2>1 DEF OpenPkmsg, Shape
  <2>2. CASE CrashInPkmsg(p, m)
    BY <1>1, <2>2 DEF CrashInPkmsg, Shape
  <2>3. QED
    BY <2>1, <2>2
<1>4. QED
  BY <1>2, <1>3, StorePkmsgInv

LEMMA Inductive == Inv /\ [Next]_vars => Inv'
<1> SUFFICES ASSUME Inv, [Next]_vars PROVE Inv'
  OBVIOUS
<1>1. CASE Next
  <2>1. PICK p \in Parties :
          \/ Ask(p) \/ NoBundle(p) \/ InitOutgoing(p) \/ Send(p) \/ Restart(p)
          \/ \E m \in {x \in sent : From(x) # p} :
                OpenMsg(p, m) \/ FailMsg(p, m) \/ OpenPkmsg(p, m) \/ CrashInPkmsg(p, m)
    BY <1>1 DEF Next
  <2>2. CASE Ask(p) \/ NoBundle(p) \/ Restart(p)
    BY <2>2, AskInv
  <2>3. CASE InitOutgoing(p)
    BY <2>3, InitOutgoingInv
  <2>4. CASE Send(p)
    BY <2>4, SendInv
  <2>5. CASE \E m \in {x \in sent : From(x) # p} :
                OpenMsg(p, m) \/ FailMsg(p, m) \/ OpenPkmsg(p, m) \/ CrashInPkmsg(p, m)
    <3>1. PICK m \in sent : /\ From(m) # p
                            /\ \/ OpenMsg(p, m) \/ FailMsg(p, m)
                               \/ OpenPkmsg(p, m) \/ CrashInPkmsg(p, m)
      BY <2>5
    <3>2. CASE OpenMsg(p, m)
      BY <3>1, <3>2, OpenMsgInv
    <3>3. CASE FailMsg(p, m)
      BY <3>1, <3>3, FailMsgInv
    <3>4. CASE OpenPkmsg(p, m) \/ CrashInPkmsg(p, m)
      BY <3>1, <3>4, PkmsgInv
    <3>5. QED
      BY <3>1, <3>2, <3>3, <3>4
  <2>6. QED
    BY <2>1, <2>2, <2>3, <2>4, <2>5
<1>2. CASE UNCHANGED vars
  <2>1. UNCHANGED <<rec, keys, inits, sent, opened, spent, forgot, asking, keyed, streak, stray>>
    BY <1>2 DEF vars, setupVars, historyVars
  <2>2. Shape'
    BY <2>1 DEF Inv, Shape
  <2>3. QED
    BY <2>1, <2>2, QuietStep
<1>3. QED
  BY <1>1, <1>2

LEMMA Invariance == Spec => []Inv
BY Start, Inductive, PTL DEF Spec

(* What is shown of each property in any state of the invariant. *)

LEMMA TypeFromInv == Inv => TypeOK
<1> SUFFICES ASSUME Inv PROVE TypeOK
  OBVIOUS
<1>1. ASSUME NEW p \in Parties, NEW i \in DOMAIN rec[p] PROVE TypeSession(rec[p][i])
  <2>1. rec[p][i] \in Session
    BY RecFacts
  <2>2. QED
    BY <2>1, Fields DEF TypeSession
<1>2. Shape
  BY DEF Inv
<1>3. QED
  BY <1>1, <1>2 DEF TypeOK, Shape

LEMMA UsableFromInv == Inv => OneUsableSession
<1> SUFFICES ASSUME Inv, NEW p \in Parties, rec[p] # << >>
             PROVE  Cardinality(OpenAt(rec[p])) = 1 /\ CanSend(p)
  BY DEF OneUsableSession
<1>1. PICK i \in DOMAIN rec[p] : OpenAt(rec[p]) = {i}
  BY DEF Inv, OpenInv
<1>2. Current(p) = i
  BY <1>1 DEF Current
<1>3. Usable(rec[p][i])
  BY <1>1, RecFacts
<1>4. CanSend(p)
  BY <1>1, <1>2, <1>3 DEF CanSend, Usable, SendChain
<1>5. Cardinality({i}) = 1
  BY FS_Singleton
<1>6. QED
  BY <1>1, <1>4, <1>5

LEMMA FreshFromInv == Inv => FreshMessageKeys
<1> SUFFICES ASSUME Inv, NEW p \in Parties, CanSend(p), NEW m \in sent
             PROVE  <<m.secret, m.counter>> # <<Encrypted(p).secret, Encrypted(p).counter>>
  BY DEF FreshMessageKeys
<1>1. PICK i \in DOMAIN rec[p] : i = Current(p)
  <2>1. Current(p) \in OpenAt(rec[p])
    BY DEF CanSend, Current
  <2>2. QED
    BY <2>1 DEF OpenAt
<1>2. PICK c : c = SendChain(rec[p][i])
  OBVIOUS
<1>3. c.counter \in Int
  BY <1>2, SendChains
<1>4. Encrypted(p).secret = c.secret /\ Encrypted(p).counter = c.counter + 1
  BY <1>1, <1>2 DEF Encrypted, SendChain
<1>5. m.secret = c.secret => m.counter <= c.counter
  BY <1>2 DEF Inv, AheadInv, Past
<1>6. m.counter \in Int
  BY DEF Inv, Shape, Message
<1>7. m.secret = c.secret => m.counter # c.counter + 1
  BY <1>3, <1>5, <1>6
<1>8. QED
  BY <1>4, <1>7

LEMMA OnceFromInv == Inv => AtMostOnce
<1> SUFFICES ASSUME Inv, NEW m \in opened, Opens(Peer(From(m)), m),
                    m.secret.base \notin forgot
             PROVE  FALSE
  BY DEF AtMostOnce
<1> DEFINE p == Peer(From(m))
           b == m.secret.base
<1>1. Shape /\ m \in sent
  BY DEF Inv, Shape
<1>2. From(m) \in Parties
  <2>1. m.key \in Tokens
    BY <1>1 DEF Shape, Message
  <2>2. QED
    BY <2>1 DEF From, Tokens
<1>3. p \in Parties /\ p # From(m)
  BY <1>2, Peers
<1>4. PICK q \in Parties : q = p
  BY <1>3
<1> HIDE DEF p
<1>5. /\ q # From(m) /\ Opens(q, m) /\ ShutFor(q, rec[q], spent, forgot, m)
  BY <1>3, <1>4 DEF p, Inv, OpenedInv
<1>6. /\ m \in Message /\ m.key[1] # q /\ OldTo(keys, m.key) /\ SentWith(keys, inits, m)
      /\ m.key \in Tokens
  BY <1>1, <1>5, Arriving
<1>7. /\ rec[q] \in Seq(Session) /\ DistinctOld(inits, rec[q])
      /\ \A j \in DOMAIN rec[q] : rec[q][j] \in Session /\ Good(q, keys, rec[q][j])
  BY RecFacts
<1>8. keys \in [Parties -> Nat] /\ inits \in [Parties -> Nat]
  BY <1>1 DEF Shape
(* Whatever opens `m` has its base and has not spoken it. *)
<1>9. ASSUME NEW j \in DOMAIN rec[q], NEW key \in Tokens, key[1] = q,
             ~Has(rec[q][j], m.key) => keys[q] < key[2], Try(rec[q][j], m, key).opens
      PROVE  rec[q][j].base = b /\ ~Spoken(rec[q][j], m)
  <2>1. PICK ks : ks = [x \in Parties |-> keys[x] + (IF key[2] > 0 THEN key[2] ELSE 0)]
    OBVIOUS
  <2>2. key[2] \in Int
    BY <1>9 DEF Tokens
  <2>3. PICK n \in Nat : n = IF key[2] > 0 THEN key[2] ELSE 0
    BY <2>2
  <2>4. ks = [x \in Parties |-> keys[x] + n]
    BY <2>1, <2>3
  <2>5. Since(keys, ks)
    BY <1>8, <2>4 DEF Since
  <2>6. key[2] <= ks[q]
    BY <1>8, <2>2, <2>3, <2>4
  <2>7. PICK r : r = Try(rec[q][j], m, key)
    OBVIOUS
  <2>8. /\ Keeps(q, rec[q][j], r.session)
        /\ r.opens => Spoken(r.session, m) /\ ~Spoken(rec[q][j], m)
    BY <1>6, <1>7, <1>9, <2>5, <2>6, <2>7, Attempt
  <2>9. r.opens
    BY <1>9, <2>7
  <2>10. QED
    BY <2>8, <2>9 DEF Keeps, Spoken
<1>10. \A j, l \in DOMAIN rec[q] : rec[q][j].base = b /\ rec[q][l].base = b => j = l
  BY <1>7 DEF DistinctOld
<1>11. \A l \in DOMAIN rec[q] : Spoken(rec[q][l], m) => rec[q][l].base = b
  BY DEF Spoken
<1>12. ASSUME NEW j \in DOMAIN rec[q], rec[q][j].base = b, ~Spoken(rec[q][j], m) PROVE FALSE
  <2>1. b \in Bases(rec[q])
    BY <1>12 DEF Bases
  <2>2. PICK l \in DOMAIN rec[q] : Spoken(rec[q][l], m)
    BY <1>5, <2>1 DEF ShutFor
  <2>3. QED
    BY <1>10, <1>11, <1>12, <2>2
<1>13. CASE ~m.wrapped
  <2>1. PICK j \in DOMAIN rec[q] : Tries(q, m)[j].opens
    BY <1>5, <1>13 DEF Opens, Serves
  <2>2. PICK key : key = KeyFor(q, j, m)
    OBVIOUS
  <2>3. Try(rec[q][j], m, key).opens
    BY <2>1, <2>2 DEF Tries
  <2>4. j \in Nat /\ j > 0
    BY <1>7
  <2>5. key \in Tokens /\ key[1] = q /\ (~Has(rec[q][j], m.key) => keys[q] < key[2])
    BY <1>8, <2>2, <2>4, Keying
  <2>6. QED
    BY <1>9, <1>12, <2>3, <2>5
<1>14. CASE m.wrapped
  <2>1. Startable(q, m) /\ PkmsgTry(q, m).opens
    BY <1>5, <1>14 DEF Opens
  <2>2. Held(q, m)
    <3>1. SUFFICES ASSUME ~Held(q, m) PROVE FALSE
      OBVIOUS
    <3>2. b \notin spent /\ b \notin Bases(rec[q])
      BY <2>1, <3>1 DEF Startable, Held
    <3>3. b[1] # q
      BY <1>5, <1>6, <1>14 DEF SentWith
    <3>4. \A l \in DOMAIN rec[q] : ~Spoken(rec[q][l], m)
      BY <1>11, <3>2 DEF Bases
    <3>5. QED
      BY <1>5, <3>2, <3>3, <3>4 DEF ShutFor
  <2>3. PICK j \in DOMAIN rec[q] : j = At(rec[q], b) /\ rec[q][j].base = b
    <3>1. \E j \in DOMAIN rec[q] : rec[q][j].base = b
      BY <2>2 DEF Held, Bases
    <3>2. QED
      BY <3>1 DEF At
  <2>4. PICK key : key = <<q, keys[q] + 1>>
    OBVIOUS
  <2>5. key \in Tokens /\ key[1] = q /\ keys[q] < key[2]
    BY <1>8, <2>4 DEF Tokens
  <2>6. Try(rec[q][j], m, key).opens
    BY <2>1, <2>2, <2>3, <2>4 DEF PkmsgTry, PkmsgSession
  <2>7. QED
    BY <1>9, <1>12, <2>5, <2>6
<1>15. QED
  BY <1>13, <1>14
-----------------------------------------------------------------------------
(* The two ends of a session.  As long as no failed attempt was stored, the *)
(* end that a party keeps for the base key `b`, or would make of its first  *)
(* message, can open what the other sent under `b`; and of two ends that     *)
(* stand one leads: it has turned its ratchet once more than the other.      *)

End(p, r, b) == IF b \in Bases(r) THEN r[At(r, b)] ELSE IncomingSession(p, b)
Stands(p, r, gone, b) == b \in Bases(r) \/ (b[1] # p /\ b \notin gone)
Under(ms, p, b) == {m \in ms : From(m) = p /\ m.secret.base = b}

(* The key of `m` can be had on its chain `c`, unless `m` was read. *)
AwaitsOn(c, m, read) ==
    /\ c.secret = m.secret
    /\ c.live \/ m.counter <= c.counter
    /\ m \in read \/ c.counter < m.counter \/ m.counter \in c.kept

(* The end `t` can open `m`: on a chain, or on the one the next turn makes. *)
Awaits(t, m, read) ==
    /\ Has(t, m.key) => AwaitsOn(t.chains[m.key], m, read)
    /\ ~Has(t, m.key) => m.secret = Mixed(t.root, m.key, t.ours) /\ 0 <= m.counter

(* What has not turned `t` yet is all on one chain, and its `previous` is    *)
(* past what came on the chain before.                                      *)
Ordered(t, in) ==
    \A m, n \in in : ~Has(t, m.key) =>
        /\ Has(t, n.key) \/ n.key = m.key
        /\ Has(t, n.key) /\ n.key = t.remote => n.counter <= m.previous

(* An end that gets `in`, has read `read` of it, and sent `out`. *)
Fit(ks, t, in, out, read) ==
    /\ Has(t, t.remote) => t.chains[t.remote].live
    /\ Has(t, t.ours) => -1 <= SendChain(t).counter /\ SendChain(t).secret = t.root
    /\ \A k \in DOMAIN t.chains : OldTo(ks, k)
    /\ \A n \in out : n.key = t.ours => Has(t, t.ours) /\ n.counter <= SendChain(t).counter
    /\ \A m \in in : Awaits(t, m, read)
    /\ Ordered(t, in)

(* The end `s`, which sent `ms`, leads `t`, which sent `ns`. *)
Leads(s, t, ms, ns) ==
    /\ Has(s, s.ours) /\ ~Has(t, s.ours)
    /\ s.root = Mixed(t.root, s.ours, t.ours) /\ s.remote = t.ours
    /\ Has(t, t.ours) => /\ Has(s, t.ours) /\ s.chains[t.ours].secret = t.root
                         /\ s.chains[t.ours].counter <= SendChain(t).counter
    /\ \A m \in ms : /\ Has(t, m.key) \/ m.key = s.ours
                     /\ Has(t, t.remote) /\ m.key = t.remote => m.counter <= s.previous
    /\ \A n \in ns : Has(s, n.key)

(* No two messages are under one key. *)
OneEach(ms) == \A m, n \in ms : m.secret = n.secret /\ m.counter = n.counter => m = n

(* `d` is the chain `c` after the message `n`: nothing else is missing. *)
Read(c, d, n) ==
    /\ d.secret = c.secret /\ d.live = c.live
    /\ (d.counter = c.counter /\ n <= c.counter) \/ (d.counter = n /\ c.counter < n)
    /\ \A k \in Int : k # n /\ (k \in c.kept \/ (c.counter < k /\ k <= d.counter)) => k \in d.kept

(* `d` is the chain `c` closed after the message `n`. *)
Ended(c, d, n) ==
    /\ d.secret = c.secret /\ d.counter \in Int
    /\ c.counter <= d.counter /\ n <= d.counter
    /\ \A k \in Int : k \in c.kept \/ (c.counter < k /\ k <= d.counter) => k \in d.kept

LEMMA FillingAll ==
  ASSUME NEW c \in Chain, NEW n \in Int
  PROVE  LET d == Filled(c, n)
         IN  /\ d \in Chain /\ d.secret = c.secret /\ d.live = c.live
             /\ (d.counter = c.counter /\ n <= c.counter) \/ (d.counter = n /\ c.counter < n)
             /\ \A k \in Int : k \in c.kept \/ (c.counter < k /\ k <= d.counter) => k \in d.kept
<1>1. c.counter \in Int /\ c.kept \subseteq Int
  BY DEF Chain
<1>2. CASE c.counter >= n
  <2>1. Filled(c, n) = c
    BY <1>2 DEF Filled
  <2>2. QED
    BY <1>1, <1>2, <2>1
<1>3. CASE ~(c.counter >= n)
  <2>1. PICK f : f = [c EXCEPT !.counter = n, !.kept = @ \union (c.counter + 1)..n]
    OBVIOUS
  <2>2. f = Filled(c, n)
    BY <1>3, <2>1 DEF Filled
  <2>3. /\ f.counter = n /\ f.kept = c.kept \union (c.counter + 1)..n
        /\ f.secret = c.secret /\ f.live = c.live
    BY <2>1 DEF Chain
  <2>4. f \in Chain
    BY <2>2, Filling
  <2>5. \A k \in Int : k \in c.kept \/ (c.counter < k /\ k <= n) => k \in f.kept
    BY <1>1, <2>3
  <2>6. c.counter < n
    BY <1>1, <1>3
  <2>7. QED
    BY <2>2, <2>3, <2>4, <2>5, <2>6
<1>4. QED
  BY <1>2, <1>3

(* What opening on a chain does to a session. *)
SameEnd(s, t) ==
    /\ t.root = s.root /\ t.ours = s.ours /\ t.remote = s.remote /\ t.previous = s.previous
    /\ DOMAIN t.chains = DOMAIN s.chains

LEMMA ReadOnChain ==
  ASSUME NEW s \in Session, NEW m \in Message, Has(s, m.key), OpenOnChain(s, m).opens
  PROVE  LET t == OpenOnChain(s, m).session
         IN  /\ t \in Session /\ SameEnd(s, t) /\ t.base = s.base
             /\ Read(s.chains[m.key], t.chains[m.key], m.counter)
             /\ \A k \in DOMAIN s.chains \ {m.key} : t.chains[k] = s.chains[k]
<1>1. m.key \in DOMAIN s.chains
  BY DEF Has
<1>2. PICK c \in Chain : c = s.chains[m.key]
  BY <1>1, Fields
<1>3. m.counter \in Int
  BY DEF Message
<1>4. PICK f : /\ f = Filled(c, m.counter)
               /\ f \in Chain /\ f.secret = c.secret /\ f.live = c.live
               /\ \/ f.counter = c.counter /\ m.counter <= c.counter
                  \/ f.counter = m.counter /\ c.counter < m.counter
               /\ \A k \in Int : k \in c.kept \/ (c.counter < k /\ k <= f.counter) => k \in f.kept
  BY <1>3, FillingAll
<1>5. PICK r : r = OpenOnChain(s, m)
  OBVIOUS
<1>6. ~(c.sending \/ ~CanFill(c, m.counter) \/ m.counter \notin f.kept)
  <2>1. SUFFICES ASSUME c.sending \/ ~CanFill(c, m.counter) \/ m.counter \notin f.kept
                 PROVE FALSE
    OBVIOUS
  <2>2. r = [opens |-> FALSE, session |-> s]
    BY <1>2, <1>4, <1>5, <2>1 DEF OpenOnChain
  <2>3. r.opens = FALSE
    BY <2>2
  <2>4. QED
    BY <1>5, <2>3
<1>7. PICK d : d = [f EXCEPT !.kept = @ \ {m.counter}]
  OBVIOUS
<1>8. /\ d \in Chain /\ d.secret = f.secret /\ d.live = f.live /\ d.counter = f.counter
      /\ d.kept = f.kept \ {m.counter}
  BY <1>4, <1>7 DEF Chain
<1>9. PICK b : b = (s.pending /\ c.secret # m.secret)
  OBVIOUS
<1>10. b \in BOOLEAN
  BY <1>9, Fields
<1>11. PICK t : t = Put(s, m.key, d, b)
  OBVIOUS
<1>12. /\ t \in Session /\ t.base = s.base /\ t.root = s.root /\ t.ours = s.ours
       /\ DOMAIN t.chains = DOMAIN s.chains /\ t.chains[m.key] = d
       /\ \A j \in DOMAIN s.chains \ {m.key} : t.chains[j] = s.chains[j]
  BY <1>1, <1>8, <1>10, <1>11, ChainPut
<1>13. t.remote = s.remote /\ t.previous = s.previous
  BY <1>11 DEF Put, Session
<1>14. r = [opens |-> c.secret = m.secret, session |-> t]
  BY <1>2, <1>4, <1>5, <1>6, <1>7, <1>9, <1>11 DEF OpenOnChain, Put
<1>15. r.session = t
  BY <1>14
<1>16. Read(c, d, m.counter)
  BY <1>4, <1>8 DEF Read
<1>17. QED
  BY <1>2, <1>5, <1>12, <1>13, <1>15, <1>16 DEF SameEnd

(* What turning the ratchet for `m` and opening it does to a session. *)
TurnedEnd(s, t, m, key) ==
    /\ t.root = Sending(s, m, key) /\ t.ours = key /\ t.remote = m.key
    /\ t.previous = IF Has(s, s.ours) THEN s.chains[s.ours].counter ELSE s.previous
    /\ DOMAIN t.chains = (DOMAIN s.chains \ {s.ours}) \union {m.key, key}
    /\ Read(NewChain(FALSE, Received(s, m)), t.chains[m.key], m.counter)
    /\ t.chains[key] = NewChain(TRUE, Sending(s, m, key))
    /\ \A k \in DOMAIN s.chains \ {s.ours, m.key, key} :
          /\ k = s.remote => Ended(s.chains[k], t.chains[k], m.previous)
          /\ k # s.remote => t.chains[k] = s.chains[k]

LEMMA ReadAfterTurn ==
  ASSUME NEW p \in Parties, NEW ks, NEW s, Good(p, ks, s),
         NEW m \in Message, m.key[1] # p, OldTo(ks, m.key), ~Has(s, m.key),
         NEW key \in Tokens, key[1] = p, ks[p] < key[2], ks \in [Parties -> Nat],
         Try(s, m, key).opens
  PROVE  LET t == Try(s, m, key).session
         IN  t \in Session /\ TurnedEnd(s, t, m, key) /\ t.base = s.base
<1>1. s \in Session
  BY DEF Good
<1>2. CanStep(s, m)
  <2>1. SUFFICES ASSUME ~CanStep(s, m) PROVE FALSE
    OBVIOUS
  <2>2. Try(s, m, key) = [opens |-> FALSE, session |-> s]
    BY <2>1 DEF Try
  <2>3. Try(s, m, key).opens = FALSE
    BY <2>2
  <2>4. QED
    BY <2>3
<1>3. PICK ls : ls = [x \in Parties |-> ks[x] + (IF key[2] > 0 THEN key[2] ELSE 0)]
  OBVIOUS
<1>4. Since(ks, ls) /\ key[2] <= ls[p]
  <2>1. key[2] \in Int
    BY DEF Tokens
  <2>2. PICK n \in Nat : n = (IF key[2] > 0 THEN key[2] ELSE 0) /\ key[2] <= n
    BY <2>1
  <2>3. ls = [x \in Parties |-> ks[x] + n]
    BY <1>3, <2>2
  <2>4. ls \in [Parties -> Nat] /\ \A x \in Parties : ks[x] <= ls[x]
    BY <2>3
  <2>5. ls[p] = ks[p] + n /\ ks[p] \in Nat
    BY <2>3
  <2>6. QED
    BY <2>1, <2>2, <2>4, <2>5 DEF Since
<1>5. PICK u : u = StepRatchet(s, m, key)
  OBVIOUS
<1>6. Good(p, ls, u) /\ Has(u, m.key)
  BY <1>4, <1>5, Ratchet
<1>7. m.key \in Tokens /\ m.key # key /\ m.previous \in Int
  BY DEF Message
<1>8. u \in Session
  BY <1>6 DEF Good
<1>9. PICK c : c = TurnedChains(s, m, key)
  OBVIOUS
<1>10. PICK x : x = Sending(s, m, key)
  OBVIOUS
<1>11. PICK v : v = IF Has(s, s.ours) THEN s.chains[s.ours].counter ELSE s.previous
  OBVIOUS
<1>12. u = [s EXCEPT !.chains = c, !.root = x, !.ours = key, !.remote = m.key, !.previous = v]
  BY <1>5, <1>9, <1>10, <1>11 DEF StepRatchet, TurnedChains, Sending, Received
<1>13. /\ u.root = x /\ u.ours = key /\ u.remote = m.key /\ u.previous = v /\ u.chains = c
       /\ u.base = s.base
  BY <1>1, <1>12 DEF Session
<1>14. /\ DOMAIN c = (DOMAIN s.chains \ {s.ours}) \union {m.key, key}
       /\ c[m.key] = NewChain(FALSE, Received(s, m))
       /\ c[key] = NewChain(TRUE, x)
  BY <1>7, <1>9, <1>10 DEF TurnedChains
<1>15. ASSUME NEW k \in DOMAIN s.chains \ {s.ours, m.key, key}
       PROVE  /\ k = s.remote => Ended(s.chains[k], c[k], m.previous)
              /\ k # s.remote => c[k] = s.chains[k]
  <2>1. CASE k = s.remote
    <3>1. PICK e \in Chain : e = s.chains[k]
      BY <1>1, <1>15, Fields
    <3>2. PICK f : /\ f = Filled(e, m.previous)
                   /\ f \in Chain /\ f.secret = e.secret
                   /\ \/ f.counter = e.counter /\ m.previous <= e.counter
                      \/ f.counter = m.previous /\ e.counter < m.previous
                   /\ \A i \in Int : i \in e.kept \/ (e.counter < i /\ i <= f.counter) => i \in f.kept
      BY <1>7, FillingAll
    <3>3. PICK d : d = [f EXCEPT !.live = FALSE]
      OBVIOUS
    <3>4. d.secret = f.secret /\ d.counter = f.counter /\ d.kept = f.kept
      BY <3>2, <3>3 DEF Chain
    <3>5. c[k] = d
      BY <1>9, <2>1, <3>1, <3>2, <3>3 DEF TurnedChains
    <3>6. e.counter \in Int
      BY <3>1 DEF Chain
    <3>7. d.counter \in Int /\ e.counter <= d.counter /\ m.previous <= d.counter
      BY <1>7, <3>2, <3>4, <3>6
    <3>8. Ended(e, d, m.previous)
      BY <3>2, <3>4, <3>7 DEF Ended
    <3>9. QED
      BY <2>1, <3>1, <3>5, <3>8
  <2>2. CASE k # s.remote
    BY <1>9, <1>15, <2>2 DEF TurnedChains
  <2>3. QED
    BY <2>1, <2>2
<1>16. Try(s, m, key) = OpenOnChain(u, m)
  BY <1>2, <1>5 DEF Try
<1>17. OpenOnChain(u, m).opens
  BY <1>16
<1>18. PICK t : t = OpenOnChain(u, m).session
  OBVIOUS
<1>19. /\ t \in Session /\ SameEnd(u, t) /\ t.base = u.base
       /\ Read(u.chains[m.key], t.chains[m.key], m.counter)
       /\ \A k \in DOMAIN u.chains \ {m.key} : t.chains[k] = u.chains[k]
  BY <1>6, <1>8, <1>17, <1>18, ReadOnChain
<1>20. /\ t.root = x /\ t.ours = key /\ t.remote = m.key /\ t.previous = v
       /\ DOMAIN t.chains = (DOMAIN s.chains \ {s.ours}) \union {m.key, key}
       /\ Read(NewChain(FALSE, Received(s, m)), t.chains[m.key], m.counter)
  BY <1>13, <1>14, <1>19 DEF SameEnd
<1>21. key \in DOMAIN u.chains \ {m.key}
  BY <1>7, <1>13, <1>14
<1>22. t.chains[key] = NewChain(TRUE, x)
  BY <1>13, <1>14, <1>19, <1>21
<1>23. \A k \in DOMAIN s.chains \ {s.ours, m.key, key} : t.chains[k] = c[k]
  BY <1>13, <1>14, <1>19
<1>24. TurnedEnd(s, t, m, key)
  BY <1>10, <1>11, <1>15, <1>20, <1>22, <1>23 DEF TurnedEnd
<1>25. QED
  BY <1>13, <1>16, <1>18, <1>19, <1>24

LEMMA ReadOnEnd ==
  ASSUME NEW s \in Session, NEW m \in Message, Has(s, m.key), NEW key, Try(s, m, key).opens
  PROVE  LET t == Try(s, m, key).session
         IN  /\ t \in Session /\ SameEnd(s, t) /\ t.base = s.base
             /\ Read(s.chains[m.key], t.chains[m.key], m.counter)
             /\ \A k \in DOMAIN s.chains \ {m.key} : t.chains[k] = s.chains[k]
BY ReadOnChain DEF Try

(* An end that reads a message on one of its chains. *)
ReadsOn(s, t, m) ==
    /\ SameEnd(s, t)
    /\ Read(s.chains[m.key], t.chains[m.key], m.counter)
    /\ \A k \in DOMAIN s.chains \ {m.key} : t.chains[k] = s.chains[k]

(* The messages that `p` gets and those that it sent. *)
Streams(p, ks, in, out) ==
    /\ in \subseteq Message /\ out \subseteq Message /\ OneEach(in)
    /\ \A m \in in : m.key[1] # p
    /\ \A n \in out : OldTo(ks, n.key)

LEMMA AwaitsAfterRead ==
  ASSUME NEW c \in Chain, NEW d \in Chain, NEW m \in Message, NEW n \in Message, NEW read,
         Read(c, d, m.counter), AwaitsOn(c, n, read), c.secret = m.secret,
         n.counter = m.counter => n = m
  PROVE  AwaitsOn(d, n, read \union {m})
<1>1. c.counter \in Int /\ d.counter \in Int /\ m.counter \in Int /\ n.counter \in Int
  BY DEF Chain, Message
<1>2. c.counter <= d.counter
  BY <1>1 DEF Read
<1>3. d.secret = n.secret
  BY DEF Read, AwaitsOn
<1>4. d.live \/ n.counter <= d.counter
  BY <1>1, <1>2 DEF Read, AwaitsOn
<1>5. n \in read \union {m} \/ d.counter < n.counter \/ n.counter \in d.kept
  <2>1. CASE n = m \/ n \in read
    BY <2>1
  <2>2. CASE n # m /\ c.counter < n.counter
    <3>1. n.counter # m.counter
      BY <2>2
    <3>2. c.counter < n.counter /\ n.counter <= d.counter => n.counter \in d.kept
      BY <1>1, <3>1 DEF Read
    <3>3. QED
      BY <1>1, <2>2, <3>2
  <2>3. CASE n # m /\ n.counter \in c.kept
    <3>1. n.counter # m.counter
      BY <2>3
    <3>2. QED
      BY <1>1, <2>3, <3>1 DEF Read
  <2>4. QED
    BY <2>1, <2>2, <2>3 DEF AwaitsOn
<1>6. QED
  BY <1>3, <1>4, <1>5 DEF AwaitsOn

LEMMA FitsAfterRead ==
  ASSUME NEW p \in Parties, NEW ks, NEW s, Good(p, ks, s), NEW t, Good(p, ks, t),
         NEW in, NEW out, NEW read, Streams(p, ks, in, out), Fit(ks, s, in, out, read),
         NEW m \in in, Has(s, m.key), ReadsOn(s, t, m)
  PROVE  Fit(ks, t, in, out, read \union {m})
<1>1. s \in Session /\ t \in Session /\ s.ours[1] = p /\ m \in Message /\ m.key[1] # p
  BY DEF Good, Streams
<1>2. /\ t.root = s.root /\ t.ours = s.ours /\ t.remote = s.remote
      /\ DOMAIN t.chains = DOMAIN s.chains /\ \A k : Has(t, k) <=> Has(s, k)
  BY DEF ReadsOn, SameEnd, Has
<1>3. \A k \in DOMAIN s.chains : s.chains[k] \in Chain /\ t.chains[k] \in Chain
  BY <1>1, <1>2, Fields
<1>4. \A k \in DOMAIN s.chains : t.chains[k].live = s.chains[k].live
  BY DEF ReadsOn, Read
<1>5. Has(t, t.ours) => SendChain(t) = SendChain(s)
  <2>1. t.ours # m.key
    BY <1>1, <1>2
  <2>2. QED
    BY <1>2, <2>1 DEF ReadsOn, SendChain, Has
<1>6. Has(t, t.remote) => t.chains[t.remote].live
  BY <1>2, <1>4 DEF Fit, Has
<1>7. Has(t, t.ours) => -1 <= SendChain(t).counter /\ SendChain(t).secret = t.root
  BY <1>2, <1>5 DEF Fit
<1>8. \A k \in DOMAIN t.chains : OldTo(ks, k)
  BY <1>2 DEF Fit
<1>9. \A n \in out : n.key = t.ours => Has(t, t.ours) /\ n.counter <= SendChain(t).counter
  BY <1>2, <1>5 DEF Fit
<1>10. ASSUME NEW n \in in PROVE Awaits(t, n, read \union {m})
  <2>1. n \in Message /\ Awaits(s, n, read)
    BY DEF Streams, Fit
  <2>2. CASE ~Has(s, n.key)
    BY <1>2, <2>1, <2>2 DEF Awaits
  <2>3. CASE Has(s, n.key) /\ n.key # m.key
    <3>1. t.chains[n.key] = s.chains[n.key]
      BY <2>3 DEF ReadsOn, Has
    <3>2. AwaitsOn(s.chains[n.key], n, read)
      BY <2>1, <2>3 DEF Awaits
    <3>3. AwaitsOn(t.chains[n.key], n, read \union {m})
      BY <3>1, <3>2 DEF AwaitsOn
    <3>4. QED
      BY <1>2, <2>3, <3>3 DEF Awaits
  <2>4. CASE n.key = m.key
    <3>1. PICK c, d : c = s.chains[m.key] /\ d = t.chains[m.key]
      OBVIOUS
    <3>2. c \in Chain /\ d \in Chain /\ Read(c, d, m.counter)
      BY <1>3, <3>1 DEF ReadsOn, Has
    <3>3. AwaitsOn(c, n, read)
      BY <2>1, <2>4, <3>1 DEF Awaits
    <3>4. AwaitsOn(c, m, read)
      <4>1. Awaits(s, m, read)
        BY DEF Fit
      <4>2. QED
        BY <3>1, <4>1 DEF Awaits
    <3>5. n.counter = m.counter => n = m
      BY <3>3, <3>4 DEF AwaitsOn, Streams, OneEach
    <3>6. c.secret = m.secret
      BY <3>4 DEF AwaitsOn
    <3>7. AwaitsOn(d, n, read \union {m})
      BY <1>1, <2>1, <3>2, <3>3, <3>5, <3>6, AwaitsAfterRead
    <3>8. QED
      BY <1>2, <2>4, <3>1, <3>7 DEF Awaits
  <2>5. QED
    BY <2>2, <2>3, <2>4
<1>11. Ordered(t, in)
  BY <1>2 DEF Fit, Ordered
<1>12. QED
  BY <1>6, <1>7, <1>8, <1>9, <1>10, <1>11 DEF Fit

LEMMA FitsAfterTurn ==
  ASSUME NEW p \in Parties, NEW ks, NEW s, Good(p, ks, s),
         NEW ls, Since(ks, ls), NEW t, Good(p, ls, t),
         NEW in, NEW out, NEW read, Streams(p, ks, in, out), Fit(ks, s, in, out, read),
         NEW m \in in, ~Has(s, m.key), OldTo(ks, m.key),
         NEW key \in Tokens, key[1] = p, ks[p] < key[2], key[2] <= ls[p], TurnedEnd(s, t, m, key)
  PROVE  Fit(ls, t, in, out, read \union {m})
<1>1. s \in Session /\ t \in Session /\ s.ours[1] = p /\ m \in Message /\ m.key[1] # p
      /\ m.key \in Tokens
  BY DEF Good, Streams, Message
<1>2. /\ t.root = Sending(s, m, key) /\ t.ours = key /\ t.remote = m.key
      /\ DOMAIN t.chains = (DOMAIN s.chains \ {s.ours}) \union {m.key, key}
      /\ t.chains[key] = NewChain(TRUE, t.root)
      /\ Read(NewChain(FALSE, Received(s, m)), t.chains[m.key], m.counter)
  BY DEF TurnedEnd
<1>3. \A k \in DOMAIN s.chains : s.chains[k] \in Chain
  BY <1>1, Fields
<1>4. m.key \in DOMAIN t.chains /\ t.chains[m.key] \in Chain
  BY <1>1, <1>2, Fields
<1>5. t.chains[t.remote].live
  BY <1>2 DEF Read, NewChain
<1>6. SendChain(t) = NewChain(TRUE, t.root) /\ SendChain(t).counter = -1 /\ SendChain(t).secret = t.root
  BY <1>2 DEF SendChain, NewChain
<1>7. \A k \in DOMAIN t.chains : OldTo(ls, k)
  <2>1. \A k \in DOMAIN s.chains : k \in Tokens /\ OldTo(ks, k)
    BY <1>1, Fields DEF Fit
  <2>2. \A k \in DOMAIN s.chains : OldTo(ls, k)
    BY <2>1, TokenAges
  <2>3. OldTo(ls, m.key)
    BY <1>1, TokenAges
  <2>4. OldTo(ls, key)
    BY DEF OldTo
  <2>5. QED
    BY <1>2, <2>2, <2>3, <2>4
<1>8. ASSUME NEW n \in out PROVE n.key # t.ours
  <2>1. SUFFICES ASSUME n.key = key PROVE FALSE
    BY <1>2
  <2>2. key[2] <= ks[p]
    BY <2>1 DEF Streams, OldTo
  <2>3. key[2] \in Int /\ ks[p] \in Nat
    BY DEF Tokens, Since
  <2>4. QED
    BY <2>2, <2>3
<1>9. ASSUME NEW n \in in
      PROVE  Has(t, n.key) /\ AwaitsOn(t.chains[n.key], n, read \union {m})
  <2>1. n \in Message /\ n.key[1] # p /\ n.counter \in Int /\ Awaits(s, n, read)
    BY DEF Streams, Fit, Message
  <2>2. n.key # s.ours /\ n.key # key
    BY <1>1, <2>1
  <2>3. CASE ~Has(s, n.key)
    <3>1. n.key = m.key
      BY <2>3 DEF Fit, Ordered
    <3>2. PICK c, d : c = NewChain(FALSE, Received(s, m)) /\ d = t.chains[m.key]
      OBVIOUS
    <3>3. /\ d.secret = Received(s, m) /\ d.live /\ d \in Chain /\ c.counter = -1
          /\ Read(c, d, m.counter)
      BY <1>2, <1>4, <3>2 DEF Read, NewChain
    <3>4. d.counter \in Int /\ m.counter \in Int
      BY <1>1, <3>3 DEF Chain, Message
    <3>5. n.secret = Received(s, m) /\ 0 <= n.counter
      BY <2>1, <2>3, <3>1 DEF Awaits, Received
    <3>6. m.secret = Received(s, m)
      <4>1. Awaits(s, m, read)
        BY DEF Fit
      <4>2. QED
        BY <4>1 DEF Awaits, Received
    <3>7. n = m \/ n.counter # m.counter
      BY <3>5, <3>6 DEF Streams, OneEach
    <3>8. CASE n = m
      BY <3>1, <3>2, <3>3, <3>5, <3>8, <1>4 DEF AwaitsOn, Has
    <3>9. CASE n.counter # m.counter
      <4>1. c.counter < n.counter
        BY <2>1, <3>3, <3>5
      <4>2. n.counter <= d.counter => n.counter \in d.kept
        BY <2>1, <3>3, <3>9, <4>1 DEF Read
      <4>3. d.counter < n.counter \/ n.counter \in d.kept
        BY <2>1, <3>4, <4>2
      <4>4. AwaitsOn(d, n, read \union {m})
        BY <3>3, <3>5, <4>3 DEF AwaitsOn
      <4>5. QED
        BY <1>4, <3>1, <3>2, <4>4 DEF Has
    <3>10. QED
      BY <3>7, <3>8, <3>9
  <2>4. CASE Has(s, n.key)
    <3>1. n.key # m.key
      BY <2>4
    <3>2. n.key \in DOMAIN s.chains \ {s.ours, m.key, key}
      BY <2>2, <2>4, <3>1 DEF Has
    <3>3. Has(t, n.key)
      BY <1>2, <3>2 DEF Has
    <3>4. AwaitsOn(s.chains[n.key], n, read)
      BY <2>1, <2>4 DEF Awaits
    <3>5. CASE n.key # s.remote
      <4>1. t.chains[n.key] = s.chains[n.key]
        BY <3>2, <3>5 DEF TurnedEnd
      <4>2. QED
        BY <3>3, <3>4, <4>1 DEF AwaitsOn
    <3>6. CASE n.key = s.remote
      <4>1. PICK c, d : c = s.chains[n.key] /\ d = t.chains[n.key]
        OBVIOUS
      <4>2. Ended(c, d, m.previous) /\ AwaitsOn(c, n, read)
        BY <3>2, <3>4, <3>6, <4>1 DEF TurnedEnd
      <4>3. n.counter <= m.previous
        BY <2>4, <3>6 DEF Fit, Ordered
      <4>4. c.counter \in Int /\ d.counter \in Int /\ m.previous \in Int
        BY <1>1, <1>3, <3>2, <4>1, <4>2 DEF Chain, Message, Ended
      <4>5. n.counter <= d.counter
        BY <2>1, <4>2, <4>3, <4>4 DEF Ended
      <4>6. n \in read \/ n.counter \in d.kept
        BY <2>1, <4>2, <4>4, <4>5 DEF Ended, AwaitsOn
      <4>7. d.secret = n.secret
        BY <4>2 DEF Ended, AwaitsOn
      <4>8. AwaitsOn(d, n, read \union {m})
        BY <4>5, <4>6, <4>7 DEF AwaitsOn
      <4>9. QED
        BY <3>3, <4>1, <4>8
    <3>7. QED
      BY <3>5, <3>6
  <2>5. QED
    BY <2>3, <2>4
<1>10. \A n \in in : Awaits(t, n, read \union {m})
  BY <1>9 DEF Awaits
<1>11. Ordered(t, in)
  BY <1>9 DEF Ordered
<1>12. -1 <= SendChain(t).counter
  <2>1. \A x : x = -1 => -1 <= x
    OBVIOUS
  <2>2. QED
    BY <1>6, <2>1, Zenon
<1>13. \A n \in out : n.key = t.ours => Has(t, t.ours) /\ n.counter <= SendChain(t).counter
  BY <1>8
<1>14. QED
  BY <1>5, <1>6, <1>7, <1>10, <1>11, <1>12, <1>13, Zenon DEF Fit

(* Either end leads after the other, or itself, has read a message. *)
LEMMA LeadsAfterRead ==
  ASSUME NEW p \in Parties, NEW ks, NEW s, Good(p, ks, s), NEW t, Good(p, ks, t),
         NEW u \in Session, NEW in, NEW out, NEW read, NEW m \in in, m \in Message,
         m.key[1] # p, Has(s, m.key), ReadsOn(s, t, m), Fit(ks, u, out, in, read),
         Leads(s, u, out, in) \/ Leads(u, s, in, out)
  PROVE  Leads(t, u, out, in) \/ Leads(u, t, in, out)
<1>1. s \in Session /\ t \in Session /\ s.ours[1] = p
  BY DEF Good
<1>2. /\ t.root = s.root /\ t.ours = s.ours /\ t.remote = s.remote /\ t.previous = s.previous
      /\ DOMAIN t.chains = DOMAIN s.chains /\ \A k : Has(t, k) <=> Has(s, k)
  BY DEF ReadsOn, SameEnd, Has
<1>3. Has(s, s.ours) => SendChain(t) = SendChain(s)
  <2>1. s.ours # m.key
    BY <1>1
  <2>2. QED
    BY <1>2, <2>1 DEF ReadsOn, SendChain, Has
<1>4. CASE Leads(s, u, out, in)
  <2>1. ASSUME Has(u, u.ours)
        PROVE  /\ Has(t, u.ours) /\ t.chains[u.ours].secret = u.root
               /\ t.chains[u.ours].counter <= SendChain(u).counter
    <3>1. /\ Has(s, u.ours) /\ s.chains[u.ours].secret = u.root
          /\ s.chains[u.ours].counter <= SendChain(u).counter
      BY <1>4, <2>1 DEF Leads
    <3>2. CASE u.ours # m.key
      BY <1>2, <3>1, <3>2 DEF ReadsOn, Has
    <3>3. CASE u.ours = m.key
      <4>1. m.counter <= SendChain(u).counter
        BY <3>3 DEF Fit
      <4>2. Read(s.chains[m.key], t.chains[m.key], m.counter)
        BY DEF ReadsOn
      <4>3. QED
        BY <1>2, <3>1, <3>3, <4>1, <4>2 DEF Read
    <3>4. QED
      BY <3>2, <3>3
  <2>2. Leads(t, u, out, in)
    BY <1>2, <1>4, <2>1 DEF Leads
  <2>3. QED
    BY <2>2
<1>5. CASE Leads(u, s, in, out)
  <2>1. Leads(u, t, in, out)
    BY <1>2, <1>3, <1>5 DEF Leads
  <2>2. QED
    BY <2>1
<1>6. QED
  BY <1>4, <1>5

LEMMA MixingCommutes == \A x, k, l : Mixed(x, k, l) = Mixed(x, l, k)
<1>1. \A k, l : {k, l} = {l, k}
  OBVIOUS
<1>2. QED
  BY <1>1, Zenon DEF Mixed

LEMMA LeadsAfterTurn ==
  ASSUME NEW p \in Parties, NEW ks, ks \in [Parties -> Nat], NEW s, Good(p, ks, s), NEW t \in Session,
         NEW u \in Session, NEW in, NEW out, NEW read, Streams(p, ks, in, out),
         NEW m \in in, ~Has(s, m.key), 0 <= m.counter, m.secret = Received(s, m),
         NEW key \in Tokens, key[1] = p, ks[p] < key[2], TurnedEnd(s, t, m, key),
         Fit(ks, u, out, in, read),
         \A n \in out : n.key = s.ours => Has(s, s.ours) /\ n.counter <= SendChain(s).counter,
         Leads(s, u, out, in) \/ Leads(u, s, in, out)
  PROVE  Leads(t, u, out, in)
<1>1. s \in Session /\ s.ours[1] = p /\ m \in Message /\ m.key[1] # p /\ m.key \in Tokens
  BY DEF Good, Streams, Message
<1>2. ~Leads(s, u, out, in)
  BY DEF Leads
<1>3. Leads(u, s, in, out) /\ m.key = u.ours
  BY <1>2 DEF Leads
<1>4. /\ t.root = Sending(s, m, key) /\ t.ours = key /\ t.remote = m.key
      /\ t.previous = IF Has(s, s.ours) THEN s.chains[s.ours].counter ELSE s.previous
      /\ DOMAIN t.chains = (DOMAIN s.chains \ {s.ours}) \union {m.key, key}
      /\ Read(NewChain(FALSE, Received(s, m)), t.chains[m.key], m.counter)
  BY DEF TurnedEnd
<1>5. u.root = Received(s, m) /\ u.remote = s.ours
  BY <1>3 DEF Leads, Received
<1>6. t.root = Mixed(u.root, t.ours, u.ours)
  <2>1. t.root = Mixed(u.root, u.ours, key)
    BY <1>3, <1>4, <1>5 DEF Sending
  <2>2. QED
    BY <1>4, <2>1, MixingCommutes
<1>7. Has(t, t.ours) /\ Has(t, u.ours) /\ t.remote = u.ours
  BY <1>3, <1>4 DEF Has
<1>8. ~Has(u, t.ours)
  <2>1. SUFFICES ASSUME key \in DOMAIN u.chains PROVE FALSE
    BY <1>4 DEF Has
  <2>2. key[2] <= ks[p]
    BY <2>1 DEF Fit, OldTo
  <2>3. key[2] \in Int /\ ks[p] \in Nat
    BY DEF Tokens
  <2>4. QED
    BY <2>2, <2>3
<1>9. ASSUME Has(u, u.ours)
      PROVE  t.chains[u.ours].secret = u.root /\ t.chains[u.ours].counter <= SendChain(u).counter
  <2>1. m.counter <= SendChain(u).counter
    BY <1>3 DEF Fit
  <2>2. PICK c, d : c = NewChain(FALSE, Received(s, m)) /\ d = t.chains[m.key]
    OBVIOUS
  <2>3. Read(c, d, m.counter) /\ c.counter = -1 /\ c.secret = Received(s, m)
    BY <1>4, <2>2 DEF NewChain
  <2>4. m.counter \in Int
    BY <1>1 DEF Message
  <2>5. d.counter = m.counter /\ d.secret = Received(s, m)
    BY <2>3, <2>4 DEF Read
  <2>6. QED
    BY <1>3, <1>5, <2>1, <2>2, <2>5
<1>10. ASSUME NEW n \in out
       PROVE  /\ Has(u, n.key) \/ n.key = t.ours
              /\ Has(u, u.remote) /\ n.key = u.remote => n.counter <= t.previous
  <2>1. Has(u, n.key)
    BY <1>3 DEF Leads
  <2>2. ASSUME n.key = u.remote PROVE n.counter <= t.previous
    <3>1. Has(s, s.ours) /\ n.counter <= SendChain(s).counter
      BY <1>5, <2>2
    <3>2. t.previous = SendChain(s).counter
      BY <1>4, <3>1 DEF SendChain
    <3>3. QED
      BY <3>1, <3>2
  <2>3. QED
    BY <2>1, <2>2
<1>11. ASSUME NEW n \in in PROVE Has(t, n.key)
  <2>1. Has(s, n.key) \/ n.key = m.key
    BY <1>3 DEF Leads
  <2>2. n.key # s.ours
    BY <1>1 DEF Streams
  <2>3. QED
    BY <1>4, <2>1, <2>2 DEF Has
<1>12. QED
  BY <1>6, <1>7, <1>8, <1>9, <1>10, <1>11 DEF Leads

(* A message that the end `s` sends, and what it becomes. *)
Sends(s, t, e) ==
    /\ SameEnd(s, t)
    /\ \A k \in DOMAIN s.chains \ {s.ours} : t.chains[k] = s.chains[k]
    /\ SendChain(t).counter = SendChain(s).counter + 1 /\ SendChain(t).secret = SendChain(s).secret
    /\ SendChain(t).live = SendChain(s).live
    /\ e.key = s.ours /\ e.counter = SendChain(s).counter + 1 /\ e.previous = s.previous
    /\ e.secret = SendChain(s).secret

LEMMA FitsAfterSend ==
  ASSUME NEW p \in Parties, NEW ks, NEW s, Good(p, ks, s), Has(s, s.ours), NEW t \in Session, NEW e,
         NEW in, NEW out, NEW read, Streams(p, ks, in, out), Fit(ks, s, in, out, read),
         Sends(s, t, e)
  PROVE  Fit(ks, t, in, out \union {e}, read)
<1>1. s \in Session /\ s.ours[1] = p
  BY DEF Good
<1>2. /\ t.root = s.root /\ t.ours = s.ours /\ t.remote = s.remote
      /\ DOMAIN t.chains = DOMAIN s.chains /\ \A k : Has(t, k) <=> Has(s, k)
  BY DEF Sends, SameEnd, Has
<1>3. SendChain(s).counter \in Int
  <2>1. SendChain(s) \in Chain
    BY <1>1, Fields DEF SendChain, Has
  <2>2. QED
    BY <2>1 DEF Chain
<1>4. /\ SendChain(t).counter = SendChain(s).counter + 1 /\ SendChain(t).secret = t.root
      /\ -1 <= SendChain(s).counter
  BY <1>2 DEF Sends, Fit
<1>5. Has(t, t.remote) => t.chains[t.remote].live
  BY <1>2 DEF Sends, Fit, Has, SendChain
<1>6. \A k \in DOMAIN t.chains : OldTo(ks, k)
  BY <1>2 DEF Fit
<1>7. ASSUME NEW n \in out \union {e}, n.key = t.ours PROVE n.counter <= SendChain(t).counter
  <2>1. CASE n = e
    BY <1>3, <1>4, <2>1 DEF Sends
  <2>2. CASE n \in out
    <3>1. n.counter <= SendChain(s).counter /\ n.counter \in Int
      BY <1>2, <1>7, <2>2 DEF Fit, Streams, Message
    <3>2. QED
      BY <1>3, <1>4, <3>1
  <2>3. QED
    BY <2>1, <2>2
<1>8. ASSUME NEW m \in in PROVE Awaits(t, m, read)
  <2>1. m.key # s.ours /\ Awaits(s, m, read)
    BY <1>1 DEF Streams, Fit
  <2>2. Has(s, m.key) => t.chains[m.key] = s.chains[m.key]
    BY <2>1 DEF Sends, Has
  <2>3. QED
    BY <1>2, <2>1, <2>2 DEF Awaits
<1>9. Ordered(t, in)
  BY <1>2 DEF Fit, Ordered
<1>10. -1 <= SendChain(t).counter
  BY <1>3, <1>4
<1>11. \A n \in out \union {e} : n.key = t.ours => Has(t, t.ours) /\ n.counter <= SendChain(t).counter
  BY <1>2, <1>7
<1>12. QED
  BY <1>4, <1>5, <1>6, <1>8, <1>9, <1>10, <1>11, Zenon DEF Fit

LEMMA OtherFitsAfterSend ==
  ASSUME NEW p \in Parties, NEW ks, NEW s, Good(p, ks, s), Has(s, s.ours), NEW t \in Session, NEW e,
         NEW u \in Session, NEW in, NEW out, NEW read, Fit(ks, u, out, in, read),
         Fit(ks, s, in, out, read), Sends(s, t, e), Leads(s, u, out, in) \/ Leads(u, s, in, out)
  PROVE  /\ Fit(ks, u, out \union {e}, in, read)
         /\ Leads(t, u, out \union {e}, in) \/ Leads(u, t, in, out \union {e})
<1>1. s \in Session /\ s.ours[1] = p
  BY DEF Good
<1>2. /\ t.root = s.root /\ t.ours = s.ours /\ t.remote = s.remote /\ t.previous = s.previous
      /\ DOMAIN t.chains = DOMAIN s.chains /\ \A k : Has(t, k) <=> Has(s, k)
  BY DEF Sends, SameEnd, Has
<1>3. SendChain(s).counter \in Int
  <2>1. SendChain(s) \in Chain
    BY <1>1, Fields DEF SendChain, Has
  <2>2. QED
    BY <2>1 DEF Chain
<1>4. /\ e.key = s.ours /\ e.secret = s.root /\ e.previous = s.previous
      /\ e.counter = SendChain(s).counter + 1 /\ SendChain(t).counter = SendChain(s).counter + 1
      /\ -1 <= SendChain(s).counter
  BY DEF Sends, Fit
<1>5. Awaits(u, e, read)
  <2>1. CASE Leads(s, u, out, in)
    <3>1. 0 <= e.counter
      BY <1>3, <1>4
    <3>2. ~Has(u, e.key) /\ e.secret = Mixed(u.root, e.key, u.ours)
      BY <1>4, <2>1, MixingCommutes DEF Leads
    <3>3. QED
      BY <3>1, <3>2 DEF Awaits
  <2>2. CASE Leads(u, s, in, out)
    <3>1. PICK c : c = u.chains[e.key]
      OBVIOUS
    <3>2. Has(u, e.key) /\ c.secret = e.secret /\ c.counter <= SendChain(s).counter /\ c.live
      BY <1>4, <2>2, <3>1 DEF Leads, Fit
    <3>3. c \in Chain
      BY <3>1, <3>2, Fields DEF Has
    <3>4. c.counter \in Int
      BY <3>3 DEF Chain
    <3>5. c.counter < e.counter
      BY <1>3, <1>4, <3>2, <3>4
    <3>6. AwaitsOn(c, e, read)
      BY <3>2, <3>5 DEF AwaitsOn
    <3>7. QED
      BY <3>1, <3>2, <3>6 DEF Awaits
  <2>3. QED
    BY <2>1, <2>2
<1>6. ASSUME NEW m \in out \union {e}, NEW n \in out \union {e}, ~Has(u, m.key)
      PROVE  /\ Has(u, n.key) \/ n.key = m.key
             /\ Has(u, n.key) /\ n.key = u.remote => n.counter <= m.previous
  <2>1. Leads(s, u, out, in)
    <3>1. SUFFICES ASSUME Leads(u, s, in, out) PROVE FALSE
      OBVIOUS
    <3>2. Has(u, m.key)
      <4>1. CASE m \in out
        BY <3>1, <4>1 DEF Leads
      <4>2. CASE m = e
        BY <1>4, <3>1, <4>2 DEF Leads
      <4>3. QED
        BY <4>1, <4>2
    <3>3. QED
      BY <1>6, <3>2
  <2>2. m.key = s.ours /\ ~Has(u, e.key)
    BY <1>4, <1>6, <2>1 DEF Leads
  <2>3. Has(u, n.key) \/ n.key = m.key
    BY <1>4, <2>1, <2>2 DEF Leads
  <2>4. ASSUME Has(u, n.key), n.key = u.remote PROVE n.counter <= m.previous
    <3>1. n \in out
      BY <2>2, <2>4
    <3>2. CASE m \in out
      BY <1>6, <2>4, <3>1, <3>2 DEF Fit, Ordered
    <3>3. CASE m = e
      BY <1>4, <2>1, <2>4, <3>1, <3>3 DEF Leads
    <3>4. QED
      BY <3>2, <3>3
  <2>5. QED
    BY <2>3, <2>4
<1>7. Fit(ks, u, out \union {e}, in, read)
  <2>1. \A m \in out \union {e} : Awaits(u, m, read)
    BY <1>5 DEF Fit
  <2>2. Ordered(u, out \union {e})
    BY <1>6 DEF Ordered
  <2>3. QED
    BY <2>1, <2>2 DEF Fit
<1>8. CASE Leads(s, u, out, in)
  <2>1. ~Has(u, s.ours)
    BY <1>8 DEF Leads
  <2>2. \A m \in out \union {e} :
          /\ Has(u, m.key) \/ m.key = t.ours
          /\ Has(u, u.remote) /\ m.key = u.remote => m.counter <= t.previous
    BY <1>2, <1>4, <1>8, <2>1 DEF Leads
  <2>3. Has(u, u.ours) => /\ Has(t, u.ours) /\ t.chains[u.ours].secret = u.root
                          /\ t.chains[u.ours].counter <= SendChain(u).counter
    <3>1. Has(u, u.ours) => u.ours # s.ours
      BY <2>1
    <3>2. QED
      BY <1>2, <1>8, <3>1 DEF Leads, Sends, Has
  <2>4. Leads(t, u, out \union {e}, in)
    BY <1>2, <1>8, <2>2, <2>3 DEF Leads
  <2>5. QED
    BY <1>7, <2>4
<1>9. CASE Leads(u, s, in, out)
  <2>1. /\ Has(u, s.ours) /\ u.chains[s.ours].secret = s.root
        /\ u.chains[s.ours].counter <= SendChain(s).counter
    BY <1>9 DEF Leads
  <2>2. u.chains[s.ours].counter <= SendChain(t).counter
    <3>1. u.chains[s.ours] \in Chain
      BY <2>1, Fields DEF Has
    <3>2. u.chains[s.ours].counter \in Int
      BY <3>1 DEF Chain
    <3>3. QED
      BY <1>3, <1>4, <2>1, <3>2
  <2>3. \A n \in out \union {e} : Has(u, n.key)
    BY <1>4, <1>9, <2>1 DEF Leads
  <2>4. Leads(u, t, in, out \union {e})
    BY <1>2, <1>9, <2>1, <2>2, <2>3 DEF Leads
  <2>5. QED
    BY <1>7, <2>4
<1>10. QED
  BY <1>8, <1>9

-----------------------------------------------------------------------------
(* The ends in the records of the two parties. *)

Linked(ks, r, u, sn, read, gone, p, q, b) ==
    LET s  == End(p, r, b)
        t  == End(q, u, b)
        ms == Under(sn, p, b)
        ns == Under(sn, q, b)
    IN  /\ Stands(p, r, gone, b) => Fit(ks, s, ns, ms, read)
        /\ Stands(q, u, gone, b) => Fit(ks, t, ms, ns, read)
        /\ Stands(p, r, gone, b) /\ Stands(q, u, gone, b) =>
              Leads(s, t, ms, ns) \/ Leads(t, s, ns, ms)

(* What two parties agree on of every session that healSession left whole. *)
AgreeInv ==
    ~stray => \A p \in Parties : \A b \in Tokens \ forgot :
        Linked(keys, rec[p], rec[Peer(p)], sent, opened, spent, p, Peer(p), b)

AgreedInv == Inv /\ OneEach(sent) /\ AgreeInv

LEMMA LinkedTurns ==
  ASSUME NEW ks, NEW r, NEW u, NEW sn, NEW read, NEW gone, NEW p, NEW q, NEW b,
         Linked(ks, r, u, sn, read, gone, p, q, b)
  PROVE  Linked(ks, u, r, sn, read, gone, q, p, b)
BY DEF Linked

LEMMA PeerOfPeer == ASSUME NEW p \in Parties PROVE Peer(Peer(p)) = p
<1>1. Peer(p) \in Parties /\ Peer(p) # p
  BY Peers
<1>2. \A q \in Parties : q # Peer(p) => q = Peer(Peer(p))
  BY <1>1, Peers
<1>3. QED
  BY <1>1, <1>2

(* `t` has the ratchet and the chains of `s`. *)
Alike(s, t) ==
    /\ t.base = s.base /\ t.root = s.root /\ t.ours = s.ours /\ t.remote = s.remote
    /\ t.previous = s.previous /\ t.chains = s.chains

LEMMA FitAges ==
  ASSUME NEW ks, NEW ls, Since(ks, ls), NEW s \in Session, NEW t, Alike(s, t), NEW in, NEW out,
         NEW read, NEW reads, read \subseteq reads, Fit(ks, s, in, out, read)
  PROVE  Fit(ls, t, in, out, reads)
<1>1. \A k : Has(t, k) <=> Has(s, k)
  BY DEF Alike, Has
<1>2. SendChain(t) = SendChain(s)
  BY DEF Alike, SendChain
<1>3. \A k \in DOMAIN t.chains : OldTo(ls, k)
  <2>1. \A k \in DOMAIN s.chains : k \in Tokens /\ OldTo(ks, k)
    BY Fields DEF Fit
  <2>2. QED
    BY <2>1, TokenAges DEF Alike
<1>4. ASSUME NEW m \in in PROVE Awaits(t, m, reads)
  <2>1. Awaits(s, m, read)
    BY DEF Fit
  <2>2. QED
    BY <1>1, <2>1 DEF Awaits, AwaitsOn, Alike
<1>5. Ordered(t, in)
  BY <1>1 DEF Fit, Ordered, Alike
<1>6. Has(t, t.remote) => t.chains[t.remote].live
  BY <1>1 DEF Fit, Alike
<1>7. Has(t, t.ours) => -1 <= SendChain(t).counter /\ SendChain(t).secret = t.root
  BY <1>1, <1>2 DEF Fit, Alike
<1>8. \A n \in out : n.key = t.ours => Has(t, t.ours) /\ n.counter <= SendChain(t).counter
  BY <1>1, <1>2 DEF Fit, Alike
<1>9. QED
  BY <1>3, <1>4, <1>5, <1>6, <1>7, <1>8 DEF Fit

LEMMA LeadsAlike ==
  ASSUME NEW s, NEW t, Alike(s, t), NEW u, NEW v, Alike(u, v), NEW ms, NEW ns, Leads(s, u, ms, ns)
  PROVE  Leads(t, v, ms, ns)
<1>1. \A k : (Has(t, k) <=> Has(s, k)) /\ (Has(v, k) <=> Has(u, k))
  BY DEF Alike, Has
<1>2. SendChain(v) = SendChain(u)
  BY DEF Alike, SendChain
<1>3. QED
  BY <1>1, <1>2 DEF Leads, Alike

LEMMA AlikeItself == ASSUME NEW s PROVE Alike(s, s)
BY DEF Alike

(* A session that a step does not touch. *)
LEMMA LinkKept ==
  ASSUME NEW ks, NEW ls, Since(ks, ls), NEW r, NEW v, NEW u, NEW sn, NEW tn, NEW read, NEW reads,
         read \subseteq reads, NEW gone, NEW lost, NEW p, NEW q, NEW b,
         Linked(ks, r, u, sn, read, gone, p, q, b),
         End(p, r, b) \in Session, End(q, u, b) \in Session,
         Stands(p, v, lost, b) => Stands(p, r, gone, b) /\ Alike(End(p, r, b), End(p, v, b)),
         Stands(q, u, lost, b) => Stands(q, u, gone, b),
         Under(tn, p, b) = Under(sn, p, b), Under(tn, q, b) = Under(sn, q, b)
  PROVE  Linked(ls, v, u, tn, reads, lost, p, q, b)
<1> DEFINE s == End(p, r, b)
           x == End(p, v, b)
           t == End(q, u, b)
           ms == Under(sn, p, b)
           ns == Under(sn, q, b)
<1>1. ASSUME Stands(p, v, lost, b) PROVE Fit(ls, x, ns, ms, reads)
  <2>1. Fit(ks, s, ns, ms, read) /\ Alike(s, x)
    BY <1>1 DEF Linked
  <2> HIDE DEF s, x, ns, ms
  <2>2. QED
    BY <2>1, FitAges DEF s
<1>2. ASSUME Stands(q, u, lost, b) PROVE Fit(ls, t, ms, ns, reads)
  <2>1. Fit(ks, t, ms, ns, read)
    BY <1>2 DEF Linked
  <2> HIDE DEF t, ns, ms
  <2>2. QED
    BY <2>1, FitAges, AlikeItself DEF t
<1>3. ASSUME Stands(p, v, lost, b), Stands(q, u, lost, b)
      PROVE  Leads(x, t, ms, ns) \/ Leads(t, x, ns, ms)
  <2>1. Alike(s, x) /\ (Leads(s, t, ms, ns) \/ Leads(t, s, ns, ms))
    BY <1>3 DEF Linked
  <2> HIDE DEF s, x, t, ns, ms
  <2>2. QED
    BY <2>1, LeadsAlike, AlikeItself
<1>4. QED
  BY <1>1, <1>2, <1>3 DEF Linked

OneBase(r) == \A i, j \in DOMAIN r : r[i].base = r[j].base => i = j

LEMMA EndIs ==
  ASSUME NEW p, NEW r, OneBase(r), NEW j \in DOMAIN r
  PROVE  r[j].base \in Bases(r) /\ End(p, r, r[j].base) = r[j]
<1>1. r[j].base \in Bases(r)
  BY DEF Bases
<1>2. At(r, r[j].base) \in DOMAIN r /\ r[At(r, r[j].base)].base = r[j].base
  BY DEF At
<1>3. At(r, r[j].base) = j
  BY <1>2 DEF OneBase
<1>4. QED
  BY <1>1, <1>3 DEF End

(* The record `v` is `r` with `t` for the session of its base, or besides. *)
Swaps(r, v, t) ==
    /\ \E k \in DOMAIN v : v[k] = t
    /\ \A k \in DOMAIN v :
          v[k] = t \/ \E j \in DOMAIN r : r[j].base # t.base /\ Alike(r[j], v[k])
    /\ \A j \in DOMAIN r :
          r[j].base = t.base \/ \E k \in DOMAIN v : Alike(r[j], v[k])

LEMMA EndsAfter ==
  ASSUME NEW p, NEW r, NEW v, NEW t, OneBase(r), OneBase(v), Swaps(r, v, t)
  PROVE  /\ t.base \in Bases(v) /\ End(p, v, t.base) = t
         /\ \A c : c # t.base => /\ c \in Bases(v) <=> c \in Bases(r)
                                 /\ Alike(End(p, r, c), End(p, v, c))
<1>1. t.base \in Bases(v) /\ End(p, v, t.base) = t
  <2>1. PICK k \in DOMAIN v : v[k] = t
    BY DEF Swaps
  <2>2. QED
    BY <2>1, EndIs
<1>2. ASSUME NEW c, c # t.base
      PROVE  (c \in Bases(v) <=> c \in Bases(r)) /\ Alike(End(p, r, c), End(p, v, c))
  <2>1. CASE c \in Bases(r)
    <3>1. PICK j \in DOMAIN r : r[j].base = c
      BY <2>1 DEF Bases
    <3>2. PICK k \in DOMAIN v : Alike(r[j], v[k])
      BY <1>2, <3>1 DEF Swaps
    <3>3. v[k].base = c
      BY <3>1, <3>2 DEF Alike
    <3>4. c \in Bases(v) /\ End(p, v, c) = v[k]
      BY <3>2, <3>3, EndIs
    <3>5. End(p, r, c) = r[j]
      BY <3>1, EndIs
    <3>6. QED
      BY <2>1, <3>2, <3>4, <3>5
  <2>2. CASE c \notin Bases(r)
    <3>1. c \notin Bases(v)
      <4>1. SUFFICES ASSUME NEW k \in DOMAIN v, v[k].base = c PROVE FALSE
        BY DEF Bases
      <4>2. PICK j \in DOMAIN r : Alike(r[j], v[k])
        BY <1>2, <4>1 DEF Swaps
      <4>3. r[j].base = c
        BY <4>1, <4>2 DEF Alike
      <4>4. QED
        BY <2>2, <4>3 DEF Bases
    <3>2. End(p, r, c) = IncomingSession(p, c) /\ End(p, v, c) = IncomingSession(p, c)
      BY <2>2, <3>1 DEF End
    <3>3. QED
      BY <2>2, <3>1, <3>2, AlikeItself
  <2>3. QED
    BY <2>1, <2>2
<1>3. QED
  BY <1>1, <1>2

LEMMA RollingSwaps ==
  ASSUME NEW r, NEW i \in DOMAIN r, NEW t, NEW v, NEW f, Rolls(r, i, t, v, f),
         OneBase(r), r[i].base = t.base
  PROVE  Swaps(r, v, t)
<1>1. ASSUME NEW j \in DOMAIN r PROVE \E k \in DOMAIN v : f[k] = j /\ k \in DOMAIN r
  BY DEF Rolls
<1>2. \E k \in DOMAIN v : v[k] = t
  <2>1. PICK k \in DOMAIN v : f[k] = i /\ k \in DOMAIN r
    BY <1>1
  <2>2. v[k] = t
    BY <2>1 DEF Rolls
  <2>3. QED
    BY <2>1, <2>2
<1>3. ASSUME NEW k \in DOMAIN v
      PROVE  v[k] = t \/ \E j \in DOMAIN r : r[j].base # t.base /\ Alike(r[j], v[k])
  <2>1. k \in DOMAIN r /\ f[k] \in DOMAIN r /\ v[k] = IF f[k] = i THEN t ELSE r[f[k]]
    BY <1>3 DEF Rolls
  <2>2. CASE f[k] = i
    BY <2>1, <2>2
  <2>3. CASE f[k] # i
    <3>1. r[f[k]].base # t.base
      BY <2>1, <2>3 DEF OneBase
    <3>2. Alike(r[f[k]], v[k])
      BY <2>1, <2>3, AlikeItself
    <3>3. QED
      BY <2>1, <3>1, <3>2
  <2>4. QED
    BY <2>2, <2>3
<1>4. ASSUME NEW j \in DOMAIN r, r[j].base # t.base
      PROVE  \E k \in DOMAIN v : Alike(r[j], v[k])
  <2>1. PICK k \in DOMAIN v : f[k] = j /\ k \in DOMAIN r
    BY <1>1
  <2>2. v[k] = r[j]
    BY <1>4, <2>1 DEF Rolls
  <2>3. QED
    BY <2>2, AlikeItself
<1>5. QED
  BY <1>2, <1>3, <1>4 DEF Swaps

LEMMA InPlaceSwaps ==
  ASSUME NEW r, NEW i \in DOMAIN r, NEW t, OneBase(r), r[i].base = t.base
  PROVE  Swaps(r, InPlace(r, i, t), t)
<1>1. PICK v : v = InPlace(r, i, t)
  OBVIOUS
<1>2. DOMAIN v = DOMAIN r /\ v[i] = t /\ \A k \in DOMAIN r \ {i} : v[k] = r[k]
  BY <1>1 DEF InPlace
<1>3. \A k \in DOMAIN r \ {i} : r[k].base # t.base /\ Alike(r[k], v[k])
  BY <1>2, AlikeItself DEF OneBase
<1>4. Swaps(r, v, t)
  BY <1>2, <1>3 DEF Swaps
<1>5. QED
  BY <1>1, <1>4

LEMMA EnteringSwaps ==
  ASSUME NEW r \in Seq(Session), NEW t \in Session, t.base \notin Bases(r)
  PROVE  Swaps(r, Entered(r, t), t)
<1>1. PICK v : /\ v = Entered(r, t) /\ DOMAIN v = 1..(Len(r) + 1) /\ v[1] = t
               /\ \A k \in 2..(Len(r) + 1) :
                    /\ k - 1 \in DOMAIN r /\ v[k] = [r[k - 1] EXCEPT !.closed = TRUE]
               /\ \A j \in DOMAIN r : j + 1 \in DOMAIN v
  BY Entering
<1>2. Len(r) \in Nat /\ DOMAIN r = 1..Len(r) /\ \A j \in DOMAIN r : r[j] \in Session
  OBVIOUS
<1>3. \A k \in DOMAIN v : k = 1 \/ k \in 2..(Len(r) + 1)
  BY <1>1, <1>2
<1>4. ASSUME NEW k \in 2..(Len(r) + 1) PROVE k - 1 \in DOMAIN r /\ Alike(r[k - 1], v[k])
  <2>1. k - 1 \in DOMAIN r /\ v[k] = [r[k - 1] EXCEPT !.closed = TRUE]
    BY <1>1
  <2>2. PICK x \in Session : x = r[k - 1]
    BY <1>2, <2>1
  <2>3. PICK y : y = [x EXCEPT !.closed = TRUE]
    OBVIOUS
  <2>4. Alike(x, y)
    BY <2>2, <2>3 DEF Alike, Session
  <2>5. QED
    BY <2>1, <2>2, <2>3, <2>4
<1>5. \A j \in DOMAIN r : r[j].base # t.base
  BY DEF Bases
<1>6. ASSUME NEW j \in DOMAIN r PROVE \E k \in DOMAIN v : Alike(r[j], v[k])
  <2>1. j + 1 \in 2..(Len(r) + 1) /\ (j + 1) - 1 = j /\ j + 1 \in DOMAIN v
    BY <1>1, <1>2
  <2>2. Alike(r[j], v[j + 1])
    BY <1>4, <2>1
  <2>3. QED
    BY <2>1, <2>2
<1>7. 1 \in DOMAIN v
  BY <1>1, <1>2
<1>8. ASSUME NEW k \in DOMAIN v
      PROVE  v[k] = t \/ \E j \in DOMAIN r : r[j].base # t.base /\ Alike(r[j], v[k])
  <2>1. CASE k = 1
    BY <1>1, <2>1
  <2>2. CASE k \in 2..(Len(r) + 1)
    BY <1>4, <1>5, <2>2
  <2>3. QED
    BY <1>3, <2>1, <2>2
<1>9. Swaps(r, v, t)
  BY <1>1, <1>6, <1>7, <1>8 DEF Swaps
<1>10. QED
  BY <1>1, <1>9

(* A message that is read, at the end `s` that becomes `t`; `u` is the other. *)
ReadsAt(p, ks, ls, s, m, key, t) ==
    /\ Since(ks, ls) /\ Good(p, ks, s) /\ OldTo(ks, m.key)
    /\ key \in Tokens /\ key[1] = p
    /\ ~Has(s, m.key) => ks[p] < key[2] /\ key[2] <= ls[p]
    /\ Try(s, m, key).opens /\ t = Try(s, m, key).session

LEMMA ReceivedAtEnd ==
  ASSUME NEW p \in Parties, NEW ks, NEW ls, NEW s, NEW m, NEW key, NEW t,
         ReadsAt(p, ks, ls, s, m, key, t), NEW in, NEW out, NEW read,
         Streams(p, ks, in, out), Fit(ks, s, in, out, read), m \in in
  PROVE  /\ Fit(ls, t, in, out, read \union {m})
         /\ t.base = s.base
         /\ \A u \in Session :
              /\ Fit(ks, u, out, in, read)
              /\ Leads(s, u, out, in) \/ Leads(u, s, in, out)
              => Leads(t, u, out, in) \/ Leads(u, t, in, out)
<1>0. /\ Since(ks, ls) /\ Good(p, ks, s) /\ OldTo(ks, m.key)
      /\ key \in Tokens /\ key[1] = p
      /\ ~Has(s, m.key) => ks[p] < key[2] /\ key[2] <= ls[p]
      /\ Try(s, m, key).opens /\ t = Try(s, m, key).session
  BY DEF ReadsAt
<1>1. m \in Message /\ m.key[1] # p /\ ks \in [Parties -> Nat] /\ s \in Session
  BY <1>0 DEF Streams, Since, Good
<1>2. CASE Has(s, m.key)
  <2>1. t \in Session /\ t.base = s.base /\ ReadsOn(s, t, m)
    BY <1>0, <1>1, <1>2, ReadOnEnd DEF ReadsOn
  <2>2. Since(ks, ks)
    BY <1>1, SinceItself
  <2>3. Good(p, ks, t)
    BY <1>0, <1>1, <1>2, <2>2, Attempt
  <2>4. Fit(ks, t, in, out, read \union {m})
    BY <1>0, <1>2, <2>1, <2>3, FitsAfterRead
  <2>5. Fit(ls, t, in, out, read \union {m})
    <3>1. t \in Session /\ Since(ks, ls) /\ Alike(t, t) /\ read \union {m} \subseteq read \union {m}
      BY <1>0, <2>1, AlikeItself
    <3>2. QED
      BY <2>4, <3>1, FitAges
  <2>6. ASSUME NEW u \in Session, Fit(ks, u, out, in, read),
               Leads(s, u, out, in) \/ Leads(u, s, in, out)
        PROVE  Leads(t, u, out, in) \/ Leads(u, t, in, out)
    BY <1>0, <1>1, <1>2, <2>1, <2>3, <2>6, LeadsAfterRead
  <2>7. QED
    BY <2>1, <2>5, <2>6
<1>3. CASE ~Has(s, m.key)
  <2>1. t \in Session /\ TurnedEnd(s, t, m, key) /\ t.base = s.base
    BY <1>0, <1>1, <1>3, ReadAfterTurn
  <2>2. Good(p, ls, t)
    BY <1>0, <1>1, <1>3, Attempt
  <2>3. Fit(ls, t, in, out, read \union {m})
    BY <1>0, <1>3, <2>1, <2>2, FitsAfterTurn
  <2>4. Awaits(s, m, read)
    BY DEF Fit
  <2>5. 0 <= m.counter /\ m.secret = Received(s, m)
    BY <1>3, <2>4 DEF Awaits, Received
  <2>6. \A n \in out : n.key = s.ours => Has(s, s.ours) /\ n.counter <= SendChain(s).counter
    BY DEF Fit
  <2>7. ASSUME NEW u \in Session, Fit(ks, u, out, in, read),
               Leads(s, u, out, in) \/ Leads(u, s, in, out)
        PROVE  Leads(t, u, out, in)
    BY <1>0, <1>1, <1>3, <2>1, <2>5, <2>6, <2>7, LeadsAfterTurn
  <2>8. QED
    BY <2>1, <2>3, <2>7
<1>4. QED
  BY <1>2, <1>3

-----------------------------------------------------------------------------
(* What the invariant says of the ends. *)

LEMMA EndFacts ==
  ASSUME Inv, NEW p \in Parties, NEW b \in Tokens
  PROVE  /\ OneBase(rec[p])
         /\ Good(p, keys, End(p, rec[p], b)) /\ End(p, rec[p], b) \in Session
         /\ End(p, rec[p], b).base = b
<1>1. /\ OneBase(rec[p])
      /\ \A i \in DOMAIN rec[p] : Good(p, keys, rec[p][i])
  BY RecFacts DEF DistinctOld, OneBase
<1>2. CASE b \in Bases(rec[p])
  <2>1. PICK i \in DOMAIN rec[p] : rec[p][i].base = b
    BY <1>2 DEF Bases
  <2>2. End(p, rec[p], b) = rec[p][i]
    BY <1>1, <2>1, EndIs
  <2>3. QED
    BY <1>1, <2>1, <2>2 DEF Good
<1>3. CASE b \notin Bases(rec[p])
  <2>1. End(p, rec[p], b) = IncomingSession(p, b)
    BY <1>3 DEF End
  <2>2. Shape
    BY DEF Inv
  <2>3. QED
    BY <1>1, <2>1, <2>2, Incoming DEF Good
<1>4. QED
  BY <1>2, <1>3

LEMMA StreamFacts ==
  ASSUME Inv, OneEach(sent), NEW p \in Parties, NEW q \in Parties, p # q, NEW b
  PROVE  Streams(p, keys, Under(sent, q, b), Under(sent, p, b))
<1>1. sent \subseteq Message /\ \A m \in sent : OldTo(keys, m.key)
  BY DEF Inv, Shape, SentInv, SentWith
<1>2. \A m \in Under(sent, q, b) : m \in sent /\ m.key[1] = q
  BY DEF Under, From
<1>3. \A m \in Under(sent, p, b) : m \in sent
  BY DEF Under
<1>4. OneEach(Under(sent, q, b))
  BY <1>2 DEF OneEach
<1>5. QED
  BY <1>1, <1>2, <1>3, <1>4 DEF Streams

(* What a step of `p` has to show: the other end follows by symmetry. *)
LEMMA AgreeStep ==
  ASSUME Shape, NEW p \in Parties, NEW v, rec' = [rec EXCEPT ![p] = v],
         ~stray' => \A b \in Tokens \ forgot' :
            Linked(keys', v, rec[Peer(p)], sent', opened', spent', p, Peer(p), b)
  PROVE  AgreeInv'
<1>1. SUFFICES ASSUME ~stray', NEW x \in Parties, NEW b \in Tokens \ forgot'
               PROVE  Linked(keys', rec'[x], rec'[Peer(x)], sent', opened', spent', x, Peer(x), b)
  BY DEF AgreeInv
<1>2. PICK q : q = Peer(p)
  OBVIOUS
<1>3. q \in Parties /\ q # p /\ Peer(q) = p /\ \A y \in Parties : y # p => y = q
  BY <1>2, Peers, PeerOfPeer
<1>4. rec'[p] = v /\ rec'[q] = rec[q]
  BY <1>3 DEF Shape
<1>5. Linked(keys', v, rec[q], sent', opened', spent', p, q, b)
  BY <1>1, <1>2
<1>6. CASE x = p
  BY <1>2, <1>4, <1>5, <1>6
<1>7. CASE x = q
  <2>1. Linked(keys', rec[q], v, sent', opened', spent', q, p, b)
    BY <1>5, LinkedTurns
  <2>2. QED
    BY <1>3, <1>4, <1>7, <2>1
<1>8. QED
  BY <1>3, <1>6, <1>7

(* Sessions whose base is not that of the one that a step changes. *)
LEMMA OthersKept ==
  ASSUME Inv, NEW p \in Parties, NEW q \in Parties, NEW b \in Tokens,
         Linked(keys, rec[p], rec[q], sent, opened, spent, p, q, b),
         NEW ls, Since(keys, ls), NEW t, NEW v, OneBase(v), Swaps(rec[p], v, t), t.base # b,
         NEW tn, Under(tn, p, b) = Under(sent, p, b), Under(tn, q, b) = Under(sent, q, b),
         NEW reads, opened \subseteq reads, NEW lost, spent \subseteq lost
  PROVE  Linked(ls, v, rec[q], tn, reads, lost, p, q, b)
<1>1. OneBase(rec[p]) /\ End(p, rec[p], b) \in Session /\ End(q, rec[q], b) \in Session
  BY EndFacts
<1>2. /\ b \in Bases(v) <=> b \in Bases(rec[p])
      /\ Alike(End(p, rec[p], b), End(p, v, b))
  BY <1>1, EndsAfter
<1>3. Stands(p, v, lost, b) => Stands(p, rec[p], spent, b)
  BY <1>2 DEF Stands
<1>4. Stands(q, rec[q], lost, b) => Stands(q, rec[q], spent, b)
  BY DEF Stands
<1>5. QED
  BY <1>1, <1>2, <1>3, <1>4, LinkKept

(* `m` opens at the end `s`, which becomes `t`, and the record `v`. *)
Receives(p, m, s, key, t, v, ls) ==
    /\ m \in sent /\ From(m) # p
    /\ s = End(p, rec[p], m.secret.base) /\ Stands(p, rec[p], spent, m.secret.base)
    /\ key \in Tokens /\ key[1] = p /\ Since(keys, ls)
    /\ ~Has(s, m.key) => keys[p] < key[2] /\ key[2] <= ls[p]
    /\ Try(s, m, key).opens /\ t = Try(s, m, key).session
    /\ OneBase(v) /\ Swaps(rec[p], v, t)

LEMMA ReceiveLinks ==
  ASSUME Inv, OneEach(sent), ~stray, AgreeInv, NEW p \in Parties,
         NEW m, NEW s, NEW key, NEW t, NEW v, NEW ls, Receives(p, m, s, key, t, v, ls),
         NEW lost, spent \subseteq lost, NEW b \in Tokens \ forgot
  PROVE  Linked(ls, v, rec[Peer(p)], sent, opened \union {m}, lost, p, Peer(p), b)
<1>1. PICK q : q = Peer(p) /\ q \in Parties /\ q # p /\ \A y \in Parties : y # p => y = q
  BY Peers
<1>2. Linked(keys, rec[p], rec[q], sent, opened, spent, p, q, b)
  BY <1>1 DEF AgreeInv
<1>3. /\ m \in sent /\ From(m) # p /\ Since(keys, ls)
      /\ OneBase(v) /\ Swaps(rec[p], v, t)
      /\ s = End(p, rec[p], m.secret.base) /\ Stands(p, rec[p], spent, m.secret.base)
      /\ key \in Tokens /\ key[1] = p
      /\ ~Has(s, m.key) => keys[p] < key[2] /\ key[2] <= ls[p]
      /\ Try(s, m, key).opens /\ t = Try(s, m, key).session
  BY DEF Receives
<1>4. /\ m \in Message /\ OldTo(keys, m.key) /\ From(m) \in Parties
      /\ m.secret.base \in Tokens
  BY <1>3, Arriving
<1>5. From(m) = q
  BY <1>1, <1>3, <1>4
<1>6. /\ OneBase(rec[p]) /\ Good(p, keys, s) /\ s.base = m.secret.base
  BY <1>3, <1>4, EndFacts
<1>7. CASE m.secret.base = b
  <2>1. PICK in, out : in = Under(sent, q, b) /\ out = Under(sent, p, b)
    OBVIOUS
  <2>2. Streams(p, keys, in, out)
    BY <1>1, <2>1, StreamFacts
  <2>3. m \in in
    BY <1>3, <1>5, <1>7, <2>1 DEF Under
  <2>4. PICK u : u = End(q, rec[q], b) /\ u \in Session
    BY <1>1, EndFacts
  <2>5. Fit(keys, s, in, out, opened)
    BY <1>2, <1>3, <1>7, <2>1 DEF Linked
  <2>6. /\ Fit(ls, t, in, out, opened \union {m})
        /\ t.base = s.base
        /\ Fit(keys, u, out, in, opened) /\ (Leads(s, u, out, in) \/ Leads(u, s, in, out))
             => Leads(t, u, out, in) \/ Leads(u, t, in, out)
    <3>1. ReadsAt(p, keys, ls, s, m, key, t)
      BY <1>3, <1>4, <1>6 DEF ReadsAt
    <3>3. /\ Fit(ls, t, in, out, opened \union {m})
          /\ t.base = s.base
          /\ \A w \in Session :
               /\ Fit(keys, w, out, in, opened)
               /\ Leads(s, w, out, in) \/ Leads(w, s, in, out)
               => Leads(t, w, out, in) \/ Leads(w, t, in, out)
      BY <2>2, <2>3, <2>5, <3>1, ReceivedAtEnd
    <3>4. QED
      BY <2>4, <3>3
  <2>7. t.base = b
    BY <1>6, <1>7, <2>6
  <2>8. End(p, v, b) = t
    BY <1>3, <1>6, <2>7, EndsAfter
  <2>9. ASSUME Stands(q, rec[q], lost, b)
        PROVE  /\ Fit(ls, u, out, in, opened \union {m})
               /\ Leads(t, u, out, in) \/ Leads(u, t, in, out)
    <3>1. Stands(q, rec[q], spent, b)
      BY <2>9 DEF Stands
    <3>2. Fit(keys, u, out, in, opened)
      BY <1>2, <2>1, <2>4, <3>1 DEF Linked
    <3>3. Leads(s, u, out, in) \/ Leads(u, s, in, out)
      BY <1>2, <1>3, <1>7, <2>1, <2>4, <3>1 DEF Linked
    <3>4. opened \subseteq opened \union {m}
      OBVIOUS
    <3>5. Fit(ls, u, out, in, opened \union {m})
      <4>1. u \in Session /\ Since(keys, ls) /\ Alike(u, u)
        BY <1>3, <2>4, AlikeItself
      <4>2. QED
        BY <3>2, <3>4, <4>1, FitAges
    <3>6. QED
      BY <2>6, <3>2, <3>3, <3>5
  <2>10. Linked(ls, v, rec[q], sent, opened \union {m}, lost, p, q, b)
    BY <2>1, <2>4, <2>6, <2>8, <2>9 DEF Linked
  <2>11. QED
    BY <1>1, <2>10
<1>8. CASE m.secret.base # b
  <2>1. t.base # b
    <3>1. SUFFICES t.base = s.base
      BY <1>6, <1>8
    <3>2. Good(p, ls, t) /\ Keeps(p, s, t)
      BY <1>3, <1>4, <1>5, <1>6, Attempt DEF From
    <3>3. QED
      BY <3>2 DEF Keeps
  <2>2. opened \subseteq opened \union {m}
    OBVIOUS
  <2>3. Linked(ls, v, rec[q], sent, opened \union {m}, lost, p, q, b)
    BY <1>1, <1>2, <1>3, <2>1, <2>2, OthersKept
  <2>4. QED
    BY <1>1, <2>3
<1>9. QED
  BY <1>7, <1>8

-----------------------------------------------------------------------------
(* Every step keeps the agreement of the ends. *)

LEMMA QuietAgrees ==
  ASSUME AgreeInv, UNCHANGED <<rec, keys, sent, opened, spent, forgot, stray>>
  PROVE  AgreeInv'
BY DEF AgreeInv

LEMMA OneBaseNext == ASSUME Inv', NEW p \in Parties PROVE OneBase(rec'[p])
BY DEF Inv, BasesInv, OneBase

LEMMA HealAgrees ==
  ASSUME AgreedInv, NEW p \in Parties, rec' = [rec EXCEPT ![p] = << >>],
         UNCHANGED <<keys, sent, opened, spent, stray>>,
         forgot' = forgot \union {k \in Bases(rec[p]) \ spent : k[1] # p}
  PROVE  AgreeInv'
<1>1. Inv /\ Shape /\ AgreeInv
  BY DEF AgreedInv, Inv
<1>2. PICK v : v = << >> /\ rec' = [rec EXCEPT ![p] = v] /\ Bases(v) = {}
  <2>1. DOMAIN << >> = {}
    OBVIOUS
  <2>2. Bases(<< >>) = {}
    BY <2>1 DEF Bases
  <2>3. QED
    BY <2>2
<1>3. ASSUME ~stray', NEW b \in Tokens \ forgot'
      PROVE  Linked(keys', v, rec[Peer(p)], sent', opened', spent', p, Peer(p), b)
  <2>1. PICK q : q = Peer(p) /\ q \in Parties
    BY Peers
  <2>2. b \in Tokens \ forgot /\ b \notin {k \in Bases(rec[p]) \ spent : k[1] # p}
    OBVIOUS
  <2>3. Linked(keys, rec[p], rec[q], sent, opened, spent, p, q, b)
    BY <1>1, <1>3, <2>1, <2>2 DEF AgreeInv
  <2>4. End(p, rec[p], b) \in Session /\ End(q, rec[q], b) \in Session
    BY <1>1, <2>1, EndFacts
  <2>5. ASSUME Stands(p, v, spent, b)
        PROVE  Stands(p, rec[p], spent, b) /\ Alike(End(p, rec[p], b), End(p, v, b))
    <3>1. b[1] # p /\ b \notin spent
      BY <1>2, <2>5 DEF Stands
    <3>2. b \notin Bases(rec[p]) /\ b \notin Bases(v)
      BY <1>2, <2>2, <3>1
    <3>3. End(p, rec[p], b) = End(p, v, b)
      BY <3>2 DEF End
    <3>4. QED
      BY <3>1, <3>3, AlikeItself DEF Stands
  <2>6. Since(keys, keys)
    BY <1>1, SinceItself DEF Shape
  <2>7. Linked(keys, v, rec[q], sent, opened, spent, p, q, b)
    BY <2>3, <2>4, <2>5, <2>6, LinkKept
  <2>8. QED
    BY <2>1, <2>7
<1>4. QED
  BY <1>1, <1>2, <1>3, AgreeStep

LEMMA FailMsgAgrees ==
  ASSUME AgreedInv, NEW p \in Parties, NEW m \in sent, FailMsg(p, m)
  PROVE  AgreeInv'
<1>1. UNCHANGED <<keys, spent, sent, opened, stray>>
  BY DEF FailMsg, setupVars
<1>2. CASE UNCHANGED <<rec, forgot>>
  BY <1>1, <1>2, QuietAgrees DEF AgreedInv
<1>3. CASE /\ rec' = [rec EXCEPT ![p] = << >>]
           /\ forgot' = forgot \union {k \in Bases(rec[p]) \ spent : k[1] # p}
  BY <1>1, <1>3, HealAgrees
<1>4. QED
  BY <1>2, <1>3 DEF FailMsg

(* The two ends of a session that was just opened: the one that opens leads. *)
LEMMA FirstEnds ==
  ASSUME NEW p \in Parties, NEW b \in Tokens, NEW key \in Tokens, key[1] = p, key[2] > 0,
         NEW ks, OldTo(ks, key), NEW read
  PROVE  LET s == OutgoingSession(p, b, key)
             t == IncomingSession(Peer(p), b)
         IN  Fit(ks, s, {}, {}, read) /\ Fit(ks, t, {}, {}, read) /\ Leads(s, t, {}, {})
<1>1. PICK l, x, y, c, h :
         /\ l = SignedPreKey(Peer(p)) /\ x = Secret(b, << >>) /\ y = Mixed(x, key, l)
         /\ c = NewChain(TRUE, y) /\ h = [k \in {key} |-> c]
  OBVIOUS
<1>2. PICK s : s = [base |-> b, closed |-> FALSE, pending |-> TRUE, root |-> y,
                    ours |-> key, remote |-> l, previous |-> 0, chains |-> h]
  OBVIOUS
<1>3. s = OutgoingSession(p, b, key)
  BY <1>1, <1>2 DEF OutgoingSession
<1>4. PICK t : t = IncomingSession(Peer(p), b)
  OBVIOUS
<1>5. t.root = x /\ t.ours = l /\ \A k : ~Has(t, k)
  BY <1>1, <1>4 DEF IncomingSession, Has
<1>6. l # key
  <2>1. l[2] = 0
    BY <1>1 DEF SignedPreKey
  <2>2. QED
    BY <2>1
<1>7. /\ s.root = y /\ s.ours = key /\ s.remote = l /\ DOMAIN s.chains = {key}
      /\ s.chains[key] = c /\ Has(s, key) /\ ~Has(s, l)
  BY <1>1, <1>2, <1>6 DEF Has
<1>8. c.counter = -1 /\ c.secret = y
  BY <1>1 DEF NewChain
<1>9. Fit(ks, s, {}, {}, read)
  <2>1. SendChain(s).counter = -1 /\ SendChain(s).secret = s.root
    BY <1>7, <1>8 DEF SendChain
  <2>2. -1 <= SendChain(s).counter
    BY <2>1
  <2>3. Ordered(s, {})
    BY DEF Ordered
  <2>4. QED
    BY <1>7, <2>1, <2>2, <2>3 DEF Fit
<1>10. Fit(ks, t, {}, {}, read)
  <2>1. Ordered(t, {}) /\ DOMAIN t.chains = {}
    BY <1>5 DEF Ordered, Has
  <2>2. QED
    BY <1>5, <2>1 DEF Fit
<1>11. Leads(s, t, {}, {})
  BY <1>1, <1>5, <1>7 DEF Leads
<1>12. QED
  BY <1>3, <1>4, <1>9, <1>10, <1>11

LEMMA InitOutgoingAgrees ==
  ASSUME AgreedInv, NEW p \in Parties, InitOutgoing(p), Inv'
  PROVE  AgreeInv'
<1> DEFINE base == <<p, -(inits[p] + 1)>>
           key  == <<p, keys[p] + 1>>
<1>1. Inv /\ Shape /\ AgreeInv
  BY DEF AgreedInv, Inv
<1>2. keys[p] \in Nat /\ inits[p] \in Nat /\ keys \in [Parties -> Nat]
  BY <1>1 DEF Shape
<1>3. /\ base \in Tokens /\ base[1] = p /\ base[2] = -(inits[p] + 1)
      /\ key \in Tokens /\ key[1] = p /\ key[2] = keys[p] + 1
  BY <1>2 DEF Tokens
<1>4. /\ keys' = [keys EXCEPT ![p] = @ + 1]
      /\ rec' = [rec EXCEPT ![p] = Entered(rec[p], OutgoingSession(p, base, key))]
      /\ UNCHANGED <<spent, sent, opened, forgot, stray>>
  BY DEF InitOutgoing, historyVars
<1> HIDE DEF base, key
<1>5. PICK s, v : s = OutgoingSession(p, base, key) /\ v = Entered(rec[p], s)
  OBVIOUS
<1>6. Since(keys, keys') /\ keys'[p] = keys[p] + 1
  BY <1>2, <1>4 DEF Since
<1>7. Good(p, keys', s) /\ s.base = base
  <2>1. key[2] <= keys'[p]
    BY <1>2, <1>3, <1>6
  <2>2. QED
    BY <1>1, <1>3, <1>5, <1>6, <2>1, Outgoing
<1>8. ~OldBase(inits, base)
  BY <1>2, <1>3 DEF OldBase
<1>9. \A x \in Parties : base \notin Bases(rec[x])
  <2>1. \A x \in Parties : \A i \in DOMAIN rec[x] : OldBase(inits, rec[x][i].base)
    BY <1>1 DEF Inv, BasesInv
  <2>2. QED
    BY <1>8, <2>1 DEF Bases
<1>10. \A x : Under(sent, x, base) = {}
  <2>1. \A m \in sent : OldBase(inits, m.secret.base)
    BY <1>1 DEF Inv, SentInv, SentWith
  <2>2. QED
    BY <1>8, <2>1 DEF Under
<1>11. rec' = [rec EXCEPT ![p] = v] /\ rec'[p] = v
  BY <1>1, <1>4, <1>5 DEF Shape
<1>12. OneBase(v)
  BY <1>11, OneBaseNext
<1>13. rec[p] \in Seq(Session) /\ s \in Session
  BY <1>1, <1>7 DEF Shape, Good
<1>14. Swaps(rec[p], v, s)
  BY <1>5, <1>7, <1>9, <1>13, EnteringSwaps
<1>15. ASSUME ~stray', NEW b \in Tokens \ forgot'
       PROVE  Linked(keys', v, rec[Peer(p)], sent', opened', spent', p, Peer(p), b)
  <2>1. PICK q : q = Peer(p) /\ q \in Parties
    BY Peers
  <2>2. Linked(keys, rec[p], rec[q], sent, opened, spent, p, q, b)
    BY <1>1, <1>4, <1>15, <2>1 DEF AgreeInv
  <2>3. CASE b = base
    <3>1. OneBase(rec[p])
      BY <1>1, <1>3, EndFacts
    <3>2. End(p, v, b) = s
      BY <1>7, <1>12, <1>14, <2>3, <3>1, EndsAfter
    <3>3. PICK t : t = IncomingSession(q, b)
      OBVIOUS
    <3>4. End(q, rec[q], b) = t
      BY <1>9, <2>1, <2>3, <3>3 DEF End
    <3>5. Fit(keys', s, {}, {}, opened) /\ Fit(keys', t, {}, {}, opened) /\ Leads(s, t, {}, {})
      <4>1. key[2] > 0 /\ OldTo(keys', key)
        BY <1>2, <1>3, <1>6 DEF OldTo
      <4>2. QED
        BY <1>3, <1>5, <2>1, <2>3, <3>3, <4>1, FirstEnds
    <3>6. Under(sent, p, b) = {} /\ Under(sent, q, b) = {}
      BY <1>10, <2>3
    <3>7. Linked(keys', v, rec[q], sent, opened, spent, p, q, b)
      BY <3>2, <3>4, <3>5, <3>6 DEF Linked
    <3>8. QED
      BY <1>4, <2>1, <3>7
  <2>4. CASE b # base
    <3>1. Linked(keys', v, rec[q], sent, opened, spent, p, q, b)
      BY <1>1, <1>6, <1>7, <1>12, <1>14, <2>1, <2>2, <2>4, OthersKept
    <3>2. QED
      BY <1>4, <2>1, <3>1
  <2>5. QED
    BY <2>3, <2>4
<1>16. QED
  BY <1>1, <1>11, <1>15, AgreeStep

LEMMA AdvancedSends ==
  ASSUME NEW s \in Session, Has(s, s.ours), NEW t, t = Advanced(s), NEW e,
         e.key = s.ours, e.counter = SendChain(s).counter + 1, e.previous = s.previous,
         e.secret = SendChain(s).secret
  PROVE  Sends(s, t, e) /\ t.base = s.base
<1>1. s.ours \in DOMAIN s.chains
  BY DEF Has
<1>2. PICK c \in Chain : c = s.chains[s.ours]
  BY <1>1, Fields
<1>3. PICK D \in SUBSET Tokens : s.chains \in [D -> Chain]
  BY DEF Session, ChainMaps
<1>4. PICK d : d = [c EXCEPT !.counter = @ + 1]
  OBVIOUS
<1>5. d.secret = c.secret /\ d.counter = c.counter + 1 /\ d.live = c.live
  BY <1>4 DEF Chain
<1>6. PICK h : h = [s.chains EXCEPT ![s.ours] = d]
  OBVIOUS
<1>7. h[s.ours] = d /\ DOMAIN h = DOMAIN s.chains /\ \A k \in DOMAIN s.chains \ {s.ours} : h[k] = s.chains[k]
  BY <1>1, <1>6
<1>8. t = [s EXCEPT !.chains = h]
  BY <1>2, <1>4, <1>6 DEF Advanced, Session
<1>9. /\ t.base = s.base /\ t.root = s.root /\ t.ours = s.ours /\ t.chains = h
      /\ t.remote = s.remote /\ t.previous = s.previous
  BY <1>8 DEF Session
<1>10. SendChain(t) = d /\ SendChain(s) = c
  BY <1>2, <1>7, <1>9 DEF SendChain
<1>11. SameEnd(s, t)
  BY <1>7, <1>9 DEF SameEnd
<1>12. QED
  BY <1>5, <1>7, <1>9, <1>10, <1>11 DEF Sends

LEMMA SendAgrees ==
  ASSUME AgreedInv, NEW p \in Parties, Send(p), Inv'
  PROVE  AgreeInv'
<1>1. Inv /\ Shape /\ AgreeInv /\ OneEach(sent)
  BY DEF AgreedInv, Inv
<1>2. PICK i \in DOMAIN rec[p] : i = Current(p)
  <2>1. OpenAt(rec[p]) # {}
    BY DEF Send, CanSend
  <2>2. Current(p) \in OpenAt(rec[p])
    BY <2>1 DEF Current
  <2>3. QED
    BY <2>2 DEF OpenAt
<1>3. PICK s : s = rec[p][i]
  OBVIOUS
<1>4. s \in Session /\ Good(p, keys, s) /\ Usable(s) /\ rec[p] \in Seq(Session)
  BY <1>1, <1>2, <1>3, RecFacts
<1>5. PICK t, e, v : t = Advanced(s) /\ e = Encrypted(p) /\ v = Used(rec[p], i, t)
  OBVIOUS
<1>6. /\ e.key = s.ours /\ e.counter = SendChain(s).counter + 1 /\ e.previous = s.previous
      /\ e.secret = SendChain(s).secret
  BY <1>2, <1>3, <1>5 DEF Encrypted, SendChain
<1>7. /\ sent' = sent \union {e} /\ rec' = [rec EXCEPT ![p] = v]
      /\ UNCHANGED <<keys, spent, opened, forgot, stray>>
  BY <1>2, <1>3, <1>5 DEF Send, Advanced, setupVars, historyVars
<1>8. Has(s, s.ours)
  BY <1>4 DEF Usable
<1>9. Sends(s, t, e) /\ t.base = s.base
  BY <1>4, <1>5, <1>6, <1>8, AdvancedSends
<1>10. Good(p, keys, t) /\ t \in Session
  <2>1. Good(p, keys, t)
    BY <1>4, <1>5, Advancing
  <2>2. QED
    BY <2>1 DEF Good
<1>11. e.key[1] = p /\ e.secret.base = s.base
  BY <1>4, <1>6, <1>8 DEF Good, SendChain, Has
<1>12. rec'[p] = v
  BY <1>1, <1>7 DEF Shape
<1>13. OneBase(v) /\ OneBase(rec[p])
  <2>1. s.base \in Tokens
    BY <1>4, Fields
  <2>2. QED
    BY <1>1, <1>12, <2>1, OneBaseNext, EndFacts
<1>14. Swaps(rec[p], v, t)
  <2>1. PICK f : Rolls(rec[p], i, t, v, f)
    BY <1>2, <1>4, <1>5, <1>10, Rolling
  <2>2. rec[p][i].base = t.base
    BY <1>3, <1>9
  <2>3. QED
    BY <1>2, <1>13, <2>1, <2>2, RollingSwaps
<1>15. ASSUME ~stray', NEW b \in Tokens \ forgot'
       PROVE  Linked(keys', v, rec[Peer(p)], sent', opened', spent', p, Peer(p), b)
  <2>1. PICK q : q = Peer(p) /\ q \in Parties /\ q # p
    BY Peers
  <2>2. Linked(keys, rec[p], rec[q], sent, opened, spent, p, q, b)
    BY <1>1, <1>7, <1>15, <2>1 DEF AgreeInv
  <2>3. Under(sent', q, b) = Under(sent, q, b)
    BY <1>7, <1>11, <2>1 DEF Under, From
  <2>4. Since(keys, keys)
    BY <1>1, SinceItself DEF Shape
  <2>5. CASE b = s.base
    <3>1. PICK in, out, u : in = Under(sent, q, b) /\ out = Under(sent, p, b) /\ u = End(q, rec[q], b)
      OBVIOUS
    <3>2. Under(sent', p, b) = out \union {e}
      BY <1>7, <1>11, <2>5, <3>1 DEF Under, From
    <3>3. b \in Bases(rec[p]) /\ End(p, rec[p], b) = s
      BY <1>3, <1>13, <2>5, EndIs
    <3>4. b \in Bases(v) /\ End(p, v, b) = t
      BY <1>9, <1>13, <1>14, <2>5, EndsAfter
    <3>5. Fit(keys, s, in, out, opened)
      BY <2>2, <3>1, <3>3 DEF Linked, Stands
    <3>6. Streams(p, keys, in, out) /\ u \in Session
      BY <1>1, <2>1, <3>1, StreamFacts, EndFacts
    <3>7. Fit(keys, t, in, out \union {e}, opened)
      BY <1>4, <1>8, <1>9, <1>10, <3>5, <3>6, FitsAfterSend
    <3>8. ASSUME Stands(q, rec[q], spent, b)
          PROVE  /\ Fit(keys, u, out \union {e}, in, opened)
                 /\ Leads(t, u, out \union {e}, in) \/ Leads(u, t, in, out \union {e})
      <4>1. /\ Fit(keys, u, out, in, opened)
            /\ Leads(s, u, out, in) \/ Leads(u, s, in, out)
        BY <2>2, <3>1, <3>3, <3>8 DEF Linked, Stands
      <4>2. QED
        BY <1>4, <1>8, <1>9, <1>10, <3>5, <3>6, <4>1, OtherFitsAfterSend
    <3>9. Linked(keys, v, rec[q], sent', opened, spent, p, q, b)
      BY <2>3, <3>1, <3>2, <3>4, <3>7, <3>8 DEF Linked
    <3>10. QED
      BY <1>7, <2>1, <3>9
  <2>6. CASE b # s.base
    <3>1. Under(sent', p, b) = Under(sent, p, b)
      BY <1>7, <1>11, <2>6 DEF Under, From
    <3>2. Linked(keys, v, rec[q], sent', opened, spent, p, q, b)
      BY <1>1, <1>9, <1>13, <1>14, <2>1, <2>2, <2>3, <2>4, <2>6, <3>1, OthersKept
    <3>3. QED
      BY <1>7, <2>1, <3>2
  <2>7. QED
    BY <2>5, <2>6
<1>16. QED
  BY <1>1, <1>7, <1>15, AgreeStep

LEMMA SendOneEach ==
  ASSUME AgreedInv, NEW p \in Parties, Send(p)
  PROVE  OneEach(sent')
<1>1. Inv /\ OneEach(sent)
  BY DEF AgreedInv
<1>2. CanSend(p) /\ sent' = sent \union {Encrypted(p)}
  BY DEF Send
<1>3. PICK e : e = Encrypted(p)
  OBVIOUS
<1>4. \A m \in sent : <<m.secret, m.counter>> # <<e.secret, e.counter>>
  BY <1>1, <1>2, <1>3, FreshFromInv DEF FreshMessageKeys
<1>5. \A m \in sent : ~(m.secret = e.secret /\ m.counter = e.counter)
  BY <1>4
<1>6. QED
  BY <1>1, <1>2, <1>3, <1>5 DEF OneEach

(* A step that reads `m` and makes the record `v`. *)
LEMMA ReceiptAgrees ==
  ASSUME AgreedInv, NEW p \in Parties, NEW m, NEW s, NEW key, NEW t, NEW v,
         Receives(p, m, s, key, t, v, keys'), rec' = [rec EXCEPT ![p] = v],
         sent' = sent, forgot' = forgot, opened' = opened \union {m}, spent \subseteq spent', ~stray
  PROVE  AgreeInv'
<1>1. Inv /\ Shape /\ AgreeInv /\ OneEach(sent)
  BY DEF AgreedInv, Inv
<1>2. ASSUME NEW b \in Tokens \ forgot'
      PROVE  Linked(keys', v, rec[Peer(p)], sent', opened', spent', p, Peer(p), b)
  <2>1. Linked(keys', v, rec[Peer(p)], sent, opened \union {m}, spent', p, Peer(p), b)
    BY <1>1, ReceiveLinks
  <2>2. QED
    BY <2>1
<1>3. QED
  BY <1>1, <1>2, AgreeStep

LEMMA OpenMsgAgrees ==
  ASSUME AgreedInv, NEW p \in Parties, NEW m \in sent, From(m) # p, OpenMsg(p, m), Inv'
  PROVE  AgreeInv'
<1>1. Inv /\ Shape
  BY DEF AgreedInv, Inv
<1>2. CASE stray'
  BY <1>2 DEF AgreeInv
<1>3. CASE ~stray'
  <2>1. PICK i : i = First(Serves(p, m))
    OBVIOUS
  <2>2. rec[p] \in Seq(Session) /\ DOMAIN rec[p] \subseteq Nat
    BY <1>1, RecFacts
  <2>3. i \in DOMAIN rec[p] /\ Tries(p, m)[i].opens
    <3>1. Serves(p, m) # {} /\ Serves(p, m) \subseteq DOMAIN rec[p]
      BY DEF OpenMsg, Serves
    <3>2. i \in Serves(p, m)
      BY <2>1, <2>2, <3>1, FirstIsIn
    <3>3. QED
      BY <3>2 DEF Serves
  <2>4. PICK x : x = [j \in DOMAIN rec[p] |-> IF j < i THEN Tries(p, m)[j].session ELSE rec[p][j]]
    OBVIOUS
  <2>5. PICK key, s, t, v : /\ key = KeyFor(p, i, m) /\ s = rec[p][i]
                            /\ t = Try(s, m, key).session /\ v = Used(rec[p], i, t)
    OBVIOUS
  <2>6. Tries(p, m)[i] = Try(s, m, key)
    BY <2>3, <2>5 DEF Tries
  <2>7. /\ rec' = [rec EXCEPT ![p] = Used(x, i, t)]
        /\ keys' = [keys EXCEPT ![p] = key[2]]
        /\ sent' = sent /\ forgot' = forgot /\ spent' = spent /\ opened' = opened \union {m}
        /\ stray' = (stray \/ \E j \in 1..(i - 1) : Tries(p, m)[j].session # rec[p][j])
    BY <2>1, <2>4, <2>5, <2>6 DEF OpenMsg
  <2>8. ~stray /\ \A j \in 1..(i - 1) : Tries(p, m)[j].session = rec[p][j]
    BY <1>3, <2>7
  <2>9. x = rec[p]
    <3>1. DOMAIN rec[p] = 1..Len(rec[p]) /\ rec[p] = [j \in DOMAIN rec[p] |-> rec[p][j]]
      BY <2>2
    <3>2. ASSUME NEW j \in DOMAIN rec[p], j < i PROVE Tries(p, m)[j].session = rec[p][j]
      <4>1. j \in 1..(i - 1)
        BY <2>2, <2>3, <3>1, <3>2
      <4>2. QED
        BY <2>8, <4>1
    <3>3. QED
      BY <2>4, <3>1, <3>2
  <2>10. rec' = [rec EXCEPT ![p] = v] /\ rec'[p] = v
    BY <1>1, <2>5, <2>7, <2>9 DEF Shape
  <2>11. keys \in [Parties -> Nat] /\ i \in Nat /\ i > 0
    BY <1>1, <2>2, <2>3 DEF Shape
  <2>12. /\ key \in Tokens /\ key[1] = p /\ key[2] \in Nat /\ keys[p] <= key[2]
         /\ ~Has(s, m.key) => keys[p] < key[2]
    BY <2>5, <2>11, Keying
  <2>13. Since(keys, keys') /\ keys'[p] = key[2]
    BY <2>7, <2>11, <2>12 DEF Since
  <2>14. key[2] <= keys'[p]
    BY <2>12, <2>13
  <2>15. /\ Good(p, keys', t) /\ Keeps(p, s, t) /\ Spoken(t, m)
    BY <1>1, <2>3, <2>5, <2>6, <2>13, <2>14, Tried
  <2>16. s.base = m.secret.base /\ t.base = s.base /\ t \in Session
    BY <2>15 DEF Spoken, Keeps, Good
  <2>17. OneBase(rec[p]) /\ OneBase(v)
    BY <1>1, <2>10, OneBaseNext, RecFacts DEF DistinctOld, OneBase
  <2>18. s = End(p, rec[p], m.secret.base) /\ Stands(p, rec[p], spent, m.secret.base)
    <3>1. s.base \in Bases(rec[p]) /\ End(p, rec[p], s.base) = s
      BY <2>3, <2>5, <2>17, EndIs
    <3>2. QED
      BY <2>16, <3>1 DEF Stands
  <2>19. Swaps(rec[p], v, t)
    <3>1. PICK f : Rolls(rec[p], i, t, v, f)
      BY <2>2, <2>3, <2>5, <2>16, Rolling
    <3>2. rec[p][i].base = t.base
      BY <2>5, <2>16
    <3>3. QED
      BY <2>3, <2>17, <3>1, <3>2, RollingSwaps
  <2>20. Try(s, m, key).opens
    BY <2>3, <2>6
  <2>21. Receives(p, m, s, key, t, v, keys')
    BY <2>5, <2>12, <2>13, <2>14, <2>17, <2>18, <2>19, <2>20 DEF Receives
  <2>22. spent \subseteq spent'
    BY <2>7
  <2>23. QED
    BY <2>7, <2>8, <2>10, <2>21, <2>22, ReceiptAgrees
<1>4. QED
  BY <1>2, <1>3

LEMMA PkmsgAgrees ==
  ASSUME AgreedInv, NEW p \in Parties, NEW m \in sent, From(m) # p, StorePkmsg(p, m),
         spent \subseteq spent', Inv'
  PROVE  AgreeInv'
<1>1. Inv /\ Shape
  BY DEF AgreedInv, Inv
<1>2. /\ m \in Message /\ m.key[1] # p /\ OldTo(keys, m.key) /\ SentWith(keys, inits, m)
      /\ m.secret.base \in Tokens
  BY <1>1, Arriving
<1>3. PICK b, s, key, t, v :
         /\ b = m.secret.base /\ s = PkmsgSession(p, m) /\ key = <<p, keys[p] + 1>>
         /\ t = PkmsgTry(p, m).session /\ v = Joined(p, m)
  OBVIOUS
<1>4. PkmsgTry(p, m) = Try(s, m, key)
  BY <1>3 DEF PkmsgTry
<1>5. /\ m.wrapped /\ Startable(p, m) /\ Try(s, m, key).opens /\ t = Try(s, m, key).session
      /\ rec' = [rec EXCEPT ![p] = v]
      /\ keys' = [keys EXCEPT ![p] = @ + IF Has(s, m.key) THEN 0 ELSE 1]
      /\ opened' = opened \union {m}
      /\ UNCHANGED <<sent, forgot, stray>>
  BY <1>3, <1>4 DEF StorePkmsg
<1>6. keys \in [Parties -> Nat] /\ key \in Tokens /\ key[1] = p /\ key[2] = keys[p] + 1
  BY <1>1, <1>3 DEF Shape, Tokens
<1>7. Since(keys, keys') /\ (~Has(s, m.key) => keys[p] < key[2] /\ key[2] <= keys'[p])
  <2>1. PICK n \in 0..1 : n = IF Has(s, m.key) THEN 0 ELSE 1
    OBVIOUS
  <2>2. keys' = [keys EXCEPT ![p] = keys[p] + n]
    BY <1>5, <2>1
  <2>3. keys' \in [Parties -> Nat] /\ (\A q \in Parties : keys[q] <= keys'[q]) /\ keys'[p] = keys[p] + n
    BY <1>6, <2>1, <2>2
  <2>4. ~Has(s, m.key) => keys[p] < key[2] /\ key[2] <= keys'[p]
    BY <1>6, <2>1, <2>3
  <2>5. QED
    BY <1>6, <2>3, <2>4 DEF Since
<1>8. s = End(p, rec[p], b) /\ (Held(p, m) <=> b \in Bases(rec[p]))
  BY <1>3 DEF PkmsgSession, Held, End
<1>9. Stands(p, rec[p], spent, b)
  <2>1. b[1] # p
    BY <1>2, <1>3, <1>5 DEF SentWith
  <2>2. QED
    BY <1>3, <1>5, <1>8, <2>1 DEF Startable, Stands
<1>10. OneBase(rec[p]) /\ Good(p, keys, s) /\ s.base = b
  BY <1>1, <1>2, <1>3, <1>8, EndFacts
<1>11. Good(p, keys', t) /\ t \in Session /\ t.base = b
  <2>1. PICK r : r = Try(s, m, key)
    OBVIOUS
  <2>2. /\ m \in Message /\ m.key[1] # p /\ OldTo(keys, m.key) /\ Good(p, keys, s)
        /\ key \in Tokens /\ key[1] = p
    BY <1>2, <1>6, <1>10
  <2>3. Good(p, keys', r.session) /\ Keeps(p, s, r.session)
    BY <1>7, <2>1, <2>2, Attempt
  <2>4. Good(p, keys', t) /\ Keeps(p, s, t)
    BY <1>5, <2>1, <2>3
  <2>5. QED
    BY <1>10, <2>4 DEF Good, Keeps
<1>12. OneBase(v)
  <2>1. rec'[p] = v
    BY <1>1, <1>5 DEF Shape
  <2>2. QED
    BY <2>1, OneBaseNext
<1>13. Swaps(rec[p], v, t)
  <2>1. CASE Held(p, m)
    <3>1. \E j \in DOMAIN rec[p] : rec[p][j].base = b
      BY <1>8, <2>1 DEF Bases
    <3>2. PICK i \in DOMAIN rec[p] : i = At(rec[p], b) /\ rec[p][i].base = b
      BY <3>1 DEF At
    <3>3. v = InPlace(rec[p], i, t)
      BY <1>3, <2>1, <3>2 DEF Joined, InPlace
    <3>4. QED
      BY <1>10, <1>11, <3>2, <3>3, InPlaceSwaps
  <2>2. CASE ~Held(p, m)
    <3>1. v = Entered(rec[p], t) /\ b \notin Bases(rec[p])
      BY <1>3, <1>8, <2>2 DEF Joined
    <3>2. rec[p] \in Seq(Session)
      BY <1>1 DEF Shape
    <3>3. QED
      BY <1>11, <3>1, <3>2, EnteringSwaps
  <2>3. QED
    BY <2>1, <2>2
<1>14. Receives(p, m, s, key, t, v, keys')
  BY <1>3, <1>5, <1>6, <1>7, <1>8, <1>9, <1>10, <1>12, <1>13 DEF Receives
<1>15. CASE stray
  BY <1>5, <1>15 DEF AgreeInv
<1>16. CASE ~stray
  BY <1>5, <1>14, <1>16, ReceiptAgrees
<1>17. QED
  BY <1>15, <1>16

LEMMA AgreedStart == Init => AgreedInv
<1> SUFFICES ASSUME Init PROVE AgreedInv
  OBVIOUS
<1>1. Inv /\ Shape
  BY Start DEF Inv
<1>2. sent = {} /\ OneEach(sent)
  BY DEF Init, OneEach
<1>3. ASSUME NEW p \in Parties, NEW b \in Tokens \ forgot
      PROVE  Linked(keys, rec[p], rec[Peer(p)], sent, opened, spent, p, Peer(p), b)
  <2>1. PICK q : q = Peer(p) /\ q \in Parties /\ q # p
    BY Peers
  <2>2. Bases(rec[p]) = {} /\ Bases(rec[q]) = {}
    <3>1. DOMAIN << >> = {}
      OBVIOUS
    <3>2. \A x \in Parties : rec[x] = << >>
      BY DEF Init
    <3>3. QED
      BY <2>1, <3>1, <3>2 DEF Bases
  <2>3. Under(sent, p, b) = {} /\ Under(sent, q, b) = {}
    BY <1>2 DEF Under
  <2>4. \A x \in Parties : Fit(keys, IncomingSession(x, b), {}, {}, opened)
    <3>1. TAKE x \in Parties
    <3>2. PICK t : t = IncomingSession(x, b) /\ \A k : ~Has(t, k)
      BY <1>1, Incoming
    <3>3. Ordered(t, {}) /\ DOMAIN t.chains = {}
      BY <3>2 DEF Ordered, Has
    <3>4. Fit(keys, t, {}, {}, opened)
      BY <3>2, <3>3 DEF Fit
    <3>5. QED
      BY <3>2, <3>4
  <2>5. End(p, rec[p], b) = IncomingSession(p, b) /\ End(q, rec[q], b) = IncomingSession(q, b)
    BY <2>2 DEF End
  <2>6. ~(Stands(p, rec[p], spent, b) /\ Stands(q, rec[q], spent, b))
    <3>1. b[1] \in Parties
      BY DEF Tokens
    <3>2. \A y \in Parties : y # p => y = q
      BY <2>1, Peers
    <3>3. QED
      BY <2>2, <3>1, <3>2 DEF Stands
  <2>7. QED
    BY <2>1, <2>3, <2>4, <2>5, <2>6 DEF Linked
<1>4. QED
  BY <1>1, <1>2, <1>3 DEF AgreedInv, AgreeInv

LEMMA AgreedInductive == AgreedInv /\ [Next]_vars => AgreedInv'
<1> SUFFICES ASSUME AgreedInv, [Next]_vars PROVE AgreedInv'
  OBVIOUS
<1>1. Inv /\ AgreeInv /\ OneEach(sent)
  BY DEF AgreedInv
<1>2. Inv'
  BY <1>1, Inductive
<1>3. CASE UNCHANGED vars
  <2>1. UNCHANGED <<rec, keys, sent, opened, spent, forgot, stray>>
    BY <1>3 DEF vars, historyVars
  <2>2. AgreeInv'
    BY <1>1, <2>1, QuietAgrees
  <2>3. QED
    BY <1>1, <1>2, <2>1, <2>2 DEF AgreedInv
<1>4. CASE Next
  <2>1. PICK p \in Parties :
          \/ Ask(p) \/ NoBundle(p) \/ InitOutgoing(p) \/ Send(p) \/ Restart(p)
          \/ \E m \in {x \in sent : From(x) # p} :
                OpenMsg(p, m) \/ FailMsg(p, m) \/ OpenPkmsg(p, m) \/ CrashInPkmsg(p, m)
    BY <1>4 DEF Next
  <2>2. CASE Ask(p) \/ NoBundle(p) \/ Restart(p)
    <3>1. UNCHANGED <<rec, keys, sent, opened, spent, forgot, stray>>
      BY <2>2 DEF Ask, NoBundle, Restart, historyVars
    <3>2. AgreeInv'
      BY <1>1, <3>1, QuietAgrees
    <3>3. QED
      BY <1>1, <1>2, <3>1, <3>2 DEF AgreedInv
  <2>3. CASE InitOutgoing(p)
    <3>1. AgreeInv'
      BY <1>2, <2>3, InitOutgoingAgrees
    <3>2. sent' = sent
      BY <2>3 DEF InitOutgoing
    <3>3. QED
      BY <1>1, <1>2, <3>1, <3>2 DEF AgreedInv
  <2>4. CASE Send(p)
    BY <1>2, <2>4, SendAgrees, SendOneEach DEF AgreedInv
  <2>5. CASE \E m \in {x \in sent : From(x) # p} :
                OpenMsg(p, m) \/ FailMsg(p, m) \/ OpenPkmsg(p, m) \/ CrashInPkmsg(p, m)
    <3>1. PICK m \in sent : /\ From(m) # p
                            /\ \/ OpenMsg(p, m) \/ FailMsg(p, m)
                               \/ OpenPkmsg(p, m) \/ CrashInPkmsg(p, m)
      BY <2>5
    <3>2. AgreeInv'
      <4>1. CASE OpenMsg(p, m)
        BY <1>2, <3>1, <4>1, OpenMsgAgrees
      <4>2. CASE FailMsg(p, m)
        BY <3>1, <4>2, FailMsgAgrees
      <4>3. CASE OpenPkmsg(p, m) \/ CrashInPkmsg(p, m)
        <5>1. StorePkmsg(p, m) /\ spent \subseteq spent'
          BY <4>3 DEF OpenPkmsg, CrashInPkmsg
        <5>2. QED
          BY <1>2, <3>1, <5>1, PkmsgAgrees
      <4>4. QED
        BY <3>1, <4>1, <4>2, <4>3
    <3>3. sent' = sent
      BY <3>1 DEF OpenMsg, FailMsg, OpenPkmsg, CrashInPkmsg, StorePkmsg
    <3>4. QED
      BY <1>1, <1>2, <3>2, <3>3 DEF AgreedInv
  <2>6. QED
    BY <2>1, <2>2, <2>3, <2>4, <2>5
<1>5. QED
  BY <1>3, <1>4

LEMMA Agreement == Spec => []AgreedInv
  BY AgreedStart, AgreedInductive, PTL DEF Spec

-----------------------------------------------------------------------------
(* What the agreement makes of a message that can be delivered. *)

LEMMA OpensOnChain ==
  ASSUME NEW s, NEW m \in Message, NEW c \in Chain, c = s.chains[m.key], ~c.sending,
         CanFill(c, m.counter), c.counter < m.counter \/ m.counter \in c.kept,
         c.secret = m.secret
  PROVE  OpenOnChain(s, m).opens
<1>1. m.counter \in Int /\ c.counter \in Int
  BY DEF Message, Chain
<1>2. PICK f : f = Filled(c, m.counter)
  OBVIOUS
<1>3. /\ (f.counter = c.counter /\ m.counter <= c.counter) \/ (f.counter = m.counter /\ c.counter < m.counter)
      /\ \A k \in Int : k \in c.kept \/ (c.counter < k /\ k <= f.counter) => k \in f.kept
  BY <1>1, <1>2, FillingAll
<1>4. m.counter \in f.kept
  BY <1>1, <1>3
<1>5. PICK r : r = OpenOnChain(s, m)
  OBVIOUS
<1>6. PICK t, b : b = (c.secret = m.secret) /\ r = [opens |-> b, session |-> t]
  BY <1>2, <1>4, <1>5 DEF OpenOnChain
<1>7. r.opens = b
  BY <1>6
<1>8. QED
  BY <1>5, <1>6, <1>7

(* An end that fits opens whatever it has not read and is near enough. *)
NearTo(s, m) ==
    /\ Has(s, m.key) => m.counter - s.chains[m.key].counter <= Window
    /\ ~Has(s, m.key) =>
          /\ m.counter < Window
          /\ Has(s, s.remote) => m.previous - s.chains[s.remote].counter <= Window

LEMMA OpensAtEnd ==
  ASSUME NEW p \in Parties, NEW ks, NEW s, Good(p, ks, s), NEW in, NEW out, NEW read,
         Streams(p, ks, in, out), Fit(ks, s, in, out, read), NEW m \in in, m \notin read,
         NearTo(s, m), NEW key, key[1] = p
  PROVE  Try(s, m, key).opens
<1>1. /\ s \in Session /\ m \in Message /\ m.key[1] # p /\ s.ours[1] = p
      /\ m.counter \in Int /\ m.previous \in Int /\ Window \in Nat
  BY WindowAssumption DEF Good, Streams, Message
<1>2. Awaits(s, m, read)
  BY DEF Fit
<1>3. CASE Has(s, m.key)
  <2>1. m.key \in DOMAIN s.chains
    BY <1>3 DEF Has
  <2>2. PICK c \in Chain : c = s.chains[m.key]
    BY <1>1, <2>1, Fields
  <2>3. AwaitsOn(c, m, read)
    BY <1>2, <1>3, <2>2 DEF Awaits
  <2>4. ~c.sending
    BY <1>1, <2>1, <2>2 DEF Good
  <2>5. m.counter - c.counter <= Window
    BY <1>3, <2>2 DEF NearTo
  <2>6. c.counter \in Int
    BY DEF Chain
  <2>7. CanFill(c, m.counter)
    <3>1. CASE c.live
      BY <2>5, <3>1 DEF CanFill
    <3>2. CASE m.counter <= c.counter
      BY <1>1, <2>6, <3>2 DEF CanFill
    <3>3. QED
      BY <2>3, <3>1, <3>2 DEF AwaitsOn
  <2>8. /\ c.counter < m.counter \/ m.counter \in c.kept
        /\ c.secret = m.secret
    BY <2>3 DEF AwaitsOn
  <2>9. OpenOnChain(s, m).opens
    BY <1>1, <2>2, <2>4, <2>7, <2>8, OpensOnChain
  <2>10. QED
    BY <1>3, <2>9 DEF Try
<1>4. CASE ~Has(s, m.key)
  <2>1. CanStep(s, m)
    <3>1. SUFFICES ASSUME Has(s, s.remote) PROVE CanFill(s.chains[s.remote], m.previous)
      BY DEF CanStep
    <3>2. s.chains[s.remote].live
      BY <3>1 DEF Fit
    <3>3. m.previous - s.chains[s.remote].counter <= Window
      BY <1>4, <3>1 DEF NearTo
    <3>4. QED
      BY <3>2, <3>3 DEF CanFill
  <2>2. PICK u, h, c : /\ u = StepRatchet(s, m, key) /\ h = TurnedChains(s, m, key)
                       /\ c = NewChain(FALSE, Received(s, m))
    OBVIOUS
  <2>3. u.chains = h
    <3>1. PICK x, v : /\ x = Sending(s, m, key)
                      /\ v = IF Has(s, s.ours) THEN s.chains[s.ours].counter ELSE s.previous
      OBVIOUS
    <3>2. u = [s EXCEPT !.chains = h, !.root = x, !.ours = key, !.remote = m.key, !.previous = v]
      BY <2>2, <3>1 DEF StepRatchet, TurnedChains, Sending, Received
    <3>3. QED
      BY <1>1, <3>2 DEF Session
  <2>4. h[m.key] = c
    BY <2>2 DEF TurnedChains
  <2>5. m.secret = Received(s, m) /\ 0 <= m.counter
    BY <1>2, <1>4 DEF Awaits, Received
  <2>6. m.secret \in Secrets
    BY <1>1 DEF Message
  <2>7. /\ c \in Chain /\ c.secret = m.secret /\ ~c.sending /\ c.counter = -1
    BY <2>2, <2>5, <2>6, NewChains
  <2>8. c.live
    BY <2>2 DEF NewChain
  <2>9. m.counter < Window
    BY <1>4 DEF NearTo
  <2>10. c.counter < m.counter /\ m.counter - c.counter <= Window
    BY <1>1, <2>5, <2>7, <2>9
  <2>11. CanFill(c, m.counter)
    BY <2>8, <2>10 DEF CanFill
  <2>12. OpenOnChain(u, m).opens
    BY <1>1, <2>3, <2>4, <2>7, <2>10, <2>11, OpensOnChain
  <2>13. QED
    BY <1>4, <2>1, <2>2, <2>12 DEF Try
<1>5. QED
  BY <1>3, <1>4

LEMMA HeldFromInv == AgreedInv => HeldSessionsOpen
<1> SUFFICES ASSUME AgreedInv, ~stray, NEW m \in sent, Deliverable(Peer(From(m)), m)
             PROVE  Opens(Peer(From(m)), m)
  BY DEF HeldSessionsOpen
<1>1. Inv /\ Shape /\ AgreeInv /\ OneEach(sent)
  BY DEF AgreedInv, Inv
<1>2. PICK q : q = From(m) /\ q \in Parties
  <2>1. m.key \in Tokens
    BY <1>1 DEF Shape, Message
  <2>2. QED
    BY <2>1 DEF From, Tokens
<1>3. PICK p : p = Peer(q) /\ p \in Parties /\ p # q /\ Peer(p) = q
  BY <1>2, Peers, PeerOfPeer
<1>4. PICK b, s : b = m.secret.base /\ s = PkmsgSession(p, m)
  OBVIOUS
<1>5. /\ m \in Message /\ SentWith(keys, inits, m) /\ b \in Tokens
  BY <1>1, <1>2, <1>3, <1>4, Arriving
<1>6. /\ m \notin opened /\ b \notin forgot /\ Near(p, m)
      /\ Held(p, m) \/ (m.wrapped /\ b \notin spent)
  BY <1>2, <1>3, <1>4 DEF Deliverable
<1>7. s = End(p, rec[p], b) /\ (Held(p, m) <=> b \in Bases(rec[p]))
  BY <1>4 DEF PkmsgSession, Held, End
<1>8. Good(p, keys, s) /\ OneBase(rec[p])
  BY <1>1, <1>3, <1>5, <1>7, EndFacts
<1>9. Stands(p, rec[p], spent, b)
  <2>1. m.wrapped => b[1] # p
    BY <1>2, <1>3, <1>4, <1>5 DEF SentWith
  <2>2. QED
    BY <1>6, <1>7, <2>1 DEF Stands
<1>10. PICK in, out : in = Under(sent, q, b) /\ out = Under(sent, p, b)
  OBVIOUS
<1>11. Fit(keys, s, in, out, opened)
  <2>1. Linked(keys, rec[p], rec[q], sent, opened, spent, p, q, b)
    BY <1>1, <1>3, <1>5, <1>6 DEF AgreeInv
  <2>2. QED
    BY <1>7, <1>9, <1>10, <2>1 DEF Linked
<1>12. Streams(p, keys, in, out)
  BY <1>1, <1>2, <1>3, <1>10, StreamFacts
<1>13. m \in in
  BY <1>2, <1>4, <1>10 DEF Under
<1>14. NearTo(s, m)
  BY <1>4, <1>6 DEF Near, NearTo
<1>15. \A n : Try(s, m, <<p, n>>).opens
  <2>1. TAKE n
  <2>2. PICK key : key = <<p, n>> /\ key[1] = p
    <3>1. <<p, n>>[1] = p
      OBVIOUS
    <3>2. QED
      BY <3>1
  <2>3. Try(s, m, key).opens
    BY <1>3, <1>6, <1>8, <1>11, <1>12, <1>13, <1>14, <2>2, OpensAtEnd
  <2>4. QED
    BY <2>2, <2>3
<1>16. CASE m.wrapped
  <2>1. Startable(p, m)
    BY <1>4, <1>6 DEF Startable
  <2>2. PkmsgTry(p, m).opens
    BY <1>4, <1>15 DEF PkmsgTry
  <2>3. QED
    BY <1>2, <1>3, <1>16, <2>1, <2>2 DEF Opens
<1>17. CASE ~m.wrapped
  <2>1. \E j \in DOMAIN rec[p] : rec[p][j].base = b
    BY <1>6, <1>7, <1>17 DEF Bases
  <2>2. PICK i \in DOMAIN rec[p] : rec[p][i].base = b
    BY <2>1
  <2>3. rec[p][i] = s
    BY <1>7, <1>8, <2>2, EndIs
  <2>4. Tries(p, m)[i] = Try(s, m, KeyFor(p, i, m))
    BY <2>3 DEF Tries
  <2>5. Try(s, m, KeyFor(p, i, m)).opens
    BY <1>15 DEF KeyFor
  <2>6. Tries(p, m)[i].opens
    BY <2>4, <2>5
  <2>7. i \in Serves(p, m)
    BY <2>6 DEF Serves
  <2>8. QED
    BY <1>2, <1>3, <1>17, <2>7 DEF Opens
<1>18. QED
  BY <1>16, <1>17

-----------------------------------------------------------------------------
(* The theorems, for any number of messages, sessions and ratchet steps.  *)

(* The records, messages, bundles and keys that the two parties hold are   *)
(* always of the kind the session code builds: every session that          *)
(* session-record.ts stores has a root, its two ratchet keys and chains     *)
(* under the ratchet keys it has seen.                                     *)
THEOREM TypeCorrect == Spec => []TypeOK
  BY Invariance, TypeFromInv, PTL

(* Whatever comes late or twice, and whatever crashes or heals, a record    *)
(* that holds sessions has exactly one open, and that one can encrypt       *)
(* (session-record.ts getOpenSession, session-cipher.ts encrypt).           *)
THEOREM OneUsableHolds == Spec => []OneUsableSession
  BY Invariance, UsableFromInv, PTL

(* The key under which a party would encrypt now protects no message ever   *)
(* sent (session-cipher.ts encrypt, fillMessageKeys): a session saved after *)
(* an attempt that failed, or started twice, never counts back.             *)
THEOREM FreshKeysHold == Spec => []FreshMessageKeys
  BY Invariance, FreshFromInv, PTL

(* A message that was opened does not open again (session-cipher.ts        *)
(* deletes its message key), except a first message that healSession made   *)
(* the record forget.                                                      *)
THEOREM AtMostOnceHolds == Spec => []AtMostOnce
  BY Invariance, OnceFromInv, PTL

(* As long as no failed attempt was stored, what a party sent in a session  *)
(* that the other holds, or can still start, opens there: late, out of      *)
(* order, early within the window, before or after either side turned its   *)
(* ratchet, and whatever else was lost (session-cipher.ts fillMessageKeys,  *)
(* maybeStepRatchet, decryptWhisperMessage on each session of the record).  *)
THEOREM HeldSessionsOpenHolds == Spec => []HeldSessionsOpen
  BY Agreement, HeldFromInv, PTL
=============================================================================
