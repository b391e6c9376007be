--------------------------- MODULE AppState_proofs ---------------------------
(* Proofs about AppState: for any number of collections, calls, keys and     *)
(* mutations, the hash of a stored state is that of its values, the state is *)
(* one that the server's log had, and with nothing outstanding it is the     *)
(* last one, which a listener of the events has followed.                    *)
EXTENDS AppState, FiniteSetTheorems, SequenceTheorems, WellFoundedInduction, NaturalsInduction, TLAPS

Ops == {"SET", "REMOVE"}
Commits == [version : Nat, hash : [Macs -> Int]]
AnyState == [version : Nat, map : [IndexMacs -> 0..MaxMacs], hash : [Macs -> Int]]
Patched == [op : Ops, idx : Idx, key : 1..MaxKeys, mac : Macs, commits : Commits]
Logs == [op : Ops, idx : Idx, key : 1..MaxKeys, mac : Macs, commits : Commits, after : AnyState]
Reply == [start : AnyState, keys : SUBSET (1..MaxKeys), patches : Seq(Logs), more : BOOLEAN]
Resync ==
    [kind : {"resync"}, phase : {"asked", "answered"}, names : SUBSET Cols, left : SUBSET Cols,
     more : BOOLEAN, from : UNION {[D -> AnyState] : D \in SUBSET Cols},
     reply : {<< >>} \union UNION {[D -> Reply] : D \in SUBSET Cols}]
Push ==
    [kind : {"push"}, phase : {"asked", "answered"}, col : Cols, patch : Patched,
     taken : BOOLEAN, base : Nat, next : AnyState]

(* Every MAC was made for one index: `h` says for which, of the first `n`.   *)
Homes == [Macs -> IndexMacs]
Fits(h, n, s) == \A x \in IndexMacs : s.map[x] # 0 => s.map[x] <= n /\ h[s.map[x]] = x

(* A state whose hash is that of its values, which are where they belong.    *)
Honest(h, n, s) == s \in AnyState /\ Fits(h, n, s) /\ s.hash = HashOf(s.map)

Mutates(h, n, p) ==
    /\ p.op \in Ops /\ p.idx \in Idx /\ p.key \in 1..MaxKeys /\ p.mac \in Macs /\ p.mac <= n
    /\ p.op = "SET" => h[p.mac] = IndexMac(p)

(* The state after `v` patches of a log, and what a log is.                  *)
After(l, v) == IF v = 0 THEN NewState ELSE l[v].after
History(h, n, l) ==
    /\ l \in Seq(Logs)
    /\ \A v \in 1..Len(l) :
          /\ Mutates(h, n, l[v]) /\ Honest(h, n, l[v].after)
          /\ l[v].after = Mix(After(l, v - 1), l[v]) /\ l[v].after.version = v
Had(l, s) == s.version <= Len(l) /\ s = After(l, s.version)

(* An answer: patches that follow its first state in the log.                *)
Follows(l, s, patches) ==
    \/ patches = << >>
    \/ /\ s.version + Len(patches) <= Len(l)
       /\ \A i \in 1..Len(patches) : patches[i] = l[s.version + i]
Answers(h, n, l, r) ==
    /\ r \in Reply /\ Honest(h, n, r.start) /\ Follows(l, r.start, r.patches)
    /\ \A i \in 1..Len(r.patches) : Mutates(h, n, r.patches[i])

ResyncFits(h, n, lg, task) ==
    /\ task \in Resync /\ task.left # {} /\ task.left \subseteq task.names
    /\ task.from \in [task.names -> AnyState]
    /\ \A c \in task.names : Honest(h, n, task.from[c])
    /\ task.phase = "answered" =>
          /\ task.reply \in [task.names -> Reply]
          /\ \A c \in task.names : Answers(h, n, lg[c], task.reply[c])

(* A push knows the state that its patch leads to, and commits to it.        *)
PushFits(h, n, lg, task) ==
    /\ task \in Push /\ Mutates(h, n, task.patch) /\ Honest(h, n, task.next)
    /\ task.patch.commits = SnapshotMac(task.next)
    /\ task.taken => Had(lg[task.col], task.next)

TaskFits(h, n, lg, task) ==
    task = Idle \/ ResyncFits(h, n, lg, task) \/ PushFits(h, n, lg, task)

Bounds ==
    /\ have \in 0..uses /\ uses \in 1..MaxKeys /\ macs \in 0..MaxMacs /\ notes \subseteq Cols
    /\ log \in [Cols -> Seq(Logs)] /\ stored \in [Cols -> AnyState]
    /\ tasks \in [Tasks -> {Idle} \union Resync \union Push]

HomeInv(h) ==
    /\ \A c \in Cols : History(h, macs, log[c]) /\ Honest(h, macs, stored[c])
    /\ \A t \in Tasks : TaskFits(h, macs, log, tasks[t])

HadInv == \A c \in Cols \ diverged : Had(log[c], stored[c])

Inv == Bounds /\ HadInv /\ \E h \in Homes : HomeInv(h)

-----------------------------------------------------------------------------
(* The hash. *)

LEMMA HashType ==
  ASSUME NEW map \in [IndexMacs -> 0..MaxMacs]
  PROVE  /\ HashOf(map) \in [Macs -> Int]
         /\ \A m \in Macs : HashOf(map)[m] \in {0, 1}
         /\ \A m \in Macs : HashOf(map)[m] = 1 <=> \E x \in IndexMacs : map[x] = m
<1>1. \A m \in Macs : m \in Nat /\ m # 0
  BY DEF Macs
<1>2. HashOf(map) = [m \in Macs |-> 0 - 0 + (IF m \in {map[x] : x \in IndexMacs} \ {0} THEN 1 ELSE 0)]
  BY DEF HashOf, SubtractThenAdd, NewState
<1>3. QED
  BY <1>1, <1>2

(* The state before every patch, and the one after a patch.                  *)
LEMMA NewHonest ==
  ASSUME NEW h \in Homes, NEW n \in Nat
  PROVE  NewState \in AnyState /\ Honest(h, n, NewState)
<1>1. NewState.map \in [IndexMacs -> 0..MaxMacs] /\ \A x \in IndexMacs : NewState.map[x] = 0
  BY AppStateAssumption DEF NewState
<1>2. NewState \in AnyState
  BY <1>1 DEF NewState, AnyState
<1>3. NewState.hash = HashOf(NewState.map)
  <2>1. \A m \in Macs : HashOf(NewState.map)[m] = 0
    BY <1>1, HashType DEF Macs
  <2>2. NewState.hash = [m \in Macs |-> 0]
    BY DEF NewState
  <2>3. HashOf(NewState.map) \in [Macs -> Int]
    BY <1>1, HashType
  <2>4. QED
    BY <2>1, <2>2, <2>3
<1>4. QED
  BY <1>1, <1>2, <1>3 DEF Honest, Fits

LEMMA MixType ==
  ASSUME NEW s \in AnyState, NEW p, p.op \in Ops, p.idx \in Idx, p.key \in 1..MaxKeys, p.mac \in Macs
  PROVE  Mix(s, p) \in AnyState /\ Mix(s, p).version = s.version + 1
<1>1. IndexMac(p) \in IndexMacs
  BY DEF IndexMac, IndexMacs
<1>2. PICK x, old, sub, add, new :
        /\ x = IndexMac(p) /\ old = s.map[x] /\ sub = {old} \ {0}
        /\ new = (IF p.op = "SET" THEN p.mac ELSE 0)
        /\ add = IF p.op = "SET" THEN {p.mac} ELSE {}
  OBVIOUS
<1>3. s.version \in Nat /\ s.map \in [IndexMacs -> 0..MaxMacs] /\ s.hash \in [Macs -> Int]
  BY DEF AnyState
<1>4. CASE p.op = "REMOVE" /\ old = 0
  BY <1>2, <1>3, <1>4 DEF Mix, AnyState
<1>5. CASE ~(p.op = "REMOVE" /\ old = 0)
  <2>1. Mix(s, p) = [version |-> s.version + 1, map |-> [s.map EXCEPT ![x] = new],
                     hash |-> SubtractThenAdd(s.hash, sub, add)]
    BY <1>2, <1>5 DEF Mix
  <2>2. SubtractThenAdd(s.hash, sub, add) \in [Macs -> Int]
    <3>1. \A m \in Macs : s.hash[m] - (IF m \in sub THEN 1 ELSE 0) + (IF m \in add THEN 1 ELSE 0) \in Int
      BY <1>3
    <3>2. QED
      BY <3>1 DEF SubtractThenAdd
  <2>3. new \in 0..MaxMacs
    BY <1>2, AppStateAssumption DEF Macs
  <2>4. [s.map EXCEPT ![x] = new] \in [IndexMacs -> 0..MaxMacs]
    BY <1>3, <2>3
  <2>5. s.version + 1 \in Nat
    BY <1>3
  <2>6. QED
    BY <2>1, <2>2, <2>4, <2>5 DEF AnyState
<1>6. QED
  BY <1>4, <1>5

LEMMA MixHonest ==
  ASSUME NEW h \in Homes, NEW n \in Nat, NEW s, Honest(h, n, s), NEW p, Mutates(h, n, p)
  PROVE  Honest(h, n, Mix(s, p)) /\ Mix(s, p).version = s.version + 1
<1>1. /\ IndexMac(p) \in IndexMacs /\ Mix(s, p) \in AnyState /\ Mix(s, p).version = s.version + 1
      /\ s \in AnyState
  BY MixType DEF IndexMac, IndexMacs, Mutates, Honest
<1>2. PICK x, old, sub, add, new, map2, hash2 :
        /\ x = IndexMac(p) /\ old = s.map[x] /\ sub = {old} \ {0}
        /\ new = (IF p.op = "SET" THEN p.mac ELSE 0)
        /\ add = (IF p.op = "SET" THEN {p.mac} ELSE {})
        /\ map2 = Mix(s, p).map /\ hash2 = Mix(s, p).hash
  OBVIOUS
<1>3. s.version \in Nat /\ s.map \in [IndexMacs -> 0..MaxMacs] /\ s.hash \in [Macs -> Int]
  BY <1>1 DEF AnyState
<1>4. \A y \in IndexMacs : s.map[y] # 0 => s.map[y] <= n /\ h[s.map[y]] = y
  BY DEF Honest, Fits
<1>5. CASE p.op = "REMOVE" /\ old = 0
  BY <1>1, <1>2, <1>5 DEF Mix, Honest, Fits
<1>6. CASE ~(p.op = "REMOVE" /\ old = 0)
  <2>1. map2 = [s.map EXCEPT ![x] = new] /\ hash2 = SubtractThenAdd(s.hash, sub, add)
    BY <1>2, <1>6 DEF Mix
  <2>2. map2 \in [IndexMacs -> 0..MaxMacs] /\ hash2 \in [Macs -> Int] /\ x \in IndexMacs
    BY <1>1, <1>2 DEF AnyState
  <2>3. map2[x] = new /\ \A y \in IndexMacs \ {x} : map2[y] = s.map[y]
    BY <1>3, <2>1, <2>2
  <2>4. new # 0 => new = p.mac /\ p.op = "SET" /\ new <= n /\ h[new] = x
    BY <1>2 DEF Mutates
  <2>5. Fits(h, n, Mix(s, p))
    BY <1>2, <1>4, <2>2, <2>3, <2>4 DEF Fits
  <2>6. ASSUME NEW m \in Macs PROVE hash2[m] = HashOf(map2)[m]
    <3>1. /\ HashOf(map2)[m] \in {0, 1} /\ (HashOf(map2)[m] = 1 <=> \E y \in IndexMacs : map2[y] = m)
          /\ s.hash[m] \in {0, 1} /\ (s.hash[m] = 1 <=> \E y \in IndexMacs : s.map[y] = m)
      BY <1>3, <2>2, HashType DEF Honest
    <3>2. hash2[m] = s.hash[m] - (IF m \in sub THEN 1 ELSE 0) + (IF m \in add THEN 1 ELSE 0)
      BY <2>1 DEF SubtractThenAdd
    <3>3. m # 0 /\ m \in Nat
      BY DEF Macs
    <3>4. m \in sub <=> m = old
      BY <1>2, <3>3
    <3>5. m \in add <=> m = new
      BY <1>2, <3>3
    <3>6. \A y \in IndexMacs : s.map[y] = m => y = h[m]
      BY <1>4, <3>3
    <3>7. CASE m = new
      <4>1. HashOf(map2)[m] = 1
        BY <2>2, <2>3, <3>1, <3>7
      <4>2. m = old <=> s.hash[m] = 1
        BY <1>2, <2>2, <2>4, <3>1, <3>3, <3>6, <3>7
      <4>3. QED
        BY <3>1, <3>2, <3>4, <3>5, <3>7, <4>1, <4>2
    <3>8. CASE m # new /\ m = old
      <4>1. s.hash[m] = 1
        BY <1>2, <2>2, <3>1, <3>8
      <4>2. ~ \E y \in IndexMacs : map2[y] = m
        BY <1>2, <2>2, <2>3, <3>6, <3>8
      <4>3. HashOf(map2)[m] = 0
        BY <3>1, <4>2
      <4>4. QED
        BY <3>2, <3>4, <3>5, <3>8, <4>1, <4>3
    <3>9. CASE m # new /\ m # old
      <4>1. (\E y \in IndexMacs : map2[y] = m) <=> \E y \in IndexMacs : s.map[y] = m
        BY <1>2, <2>2, <2>3, <3>9
      <4>2. HashOf(map2)[m] = s.hash[m]
        BY <3>1, <4>1
      <4>3. QED
        BY <1>3, <3>2, <3>4, <3>5, <3>9, <4>2
    <3>10. QED
      BY <3>7, <3>8, <3>9
  <2>7. HashOf(map2) \in [Macs -> Int]
    BY <2>2, HashType
  <2>8. hash2 = HashOf(map2)
    BY <2>2, <2>6, <2>7
  <2>9. QED
    BY <1>1, <1>2, <2>5, <2>8 DEF Honest
<1>7. QED
  BY <1>5, <1>6

(* A hash tells the values apart, since each has its place: the state that    *)
(* is committed to is one.                                                   *)
LEMMA SameHash ==
  ASSUME NEW h \in Homes, NEW n \in Nat, NEW s, Honest(h, n, s), NEW r, Honest(h, n, r),
         SnapshotMac(s) = SnapshotMac(r)
  PROVE  s = r
<1>1. /\ s \in AnyState /\ r \in AnyState /\ s.hash = r.hash /\ s.version = r.version
      /\ s.map \in [IndexMacs -> 0..MaxMacs] /\ r.map \in [IndexMacs -> 0..MaxMacs]
  BY DEF Honest, AnyState, SnapshotMac
<1>2. ASSUME NEW a, NEW b, Honest(h, n, a), Honest(h, n, b), a.hash = b.hash,
             NEW x \in IndexMacs, a.map[x] # 0
      PROVE  b.map[x] = a.map[x]
  <2>1. /\ a.map \in [IndexMacs -> 0..MaxMacs] /\ b.map \in [IndexMacs -> 0..MaxMacs]
    BY <1>2 DEF Honest, AnyState
  <2>2. PICK m : m = a.map[x]
    OBVIOUS
  <2>3. m \in Macs /\ h[m] = x
    BY <1>2, <2>1, <2>2, AppStateAssumption DEF Honest, Fits, Macs
  <2>4. a.hash[m] = 1
    <3>1. HashOf(a.map)[m] = 1
      BY <2>1, <2>2, <2>3, HashType
    <3>2. QED
      BY <1>2, <3>1 DEF Honest
  <2>5. PICK y \in IndexMacs : b.map[y] = m
    BY <1>2, <2>1, <2>3, <2>4, HashType DEF Honest
  <2>6. h[m] = y
    BY <1>2, <2>3, <2>5 DEF Honest, Fits, Macs
  <2>7. QED
    BY <2>2, <2>3, <2>5, <2>6
<1>3. \A x \in IndexMacs : s.map[x] = r.map[x]
  BY <1>1, <1>2
<1>4. s.map = r.map
  BY <1>1, <1>3
<1>5. QED
  BY <1>1, <1>4 DEF AnyState

-----------------------------------------------------------------------------
(* The states along the patches of an answer.  The function of Along exists  *)
(* because it does up to any length, which is shown of the least length for  *)
(* which it would not.                                                       *)

LEMMA Least ==
  ASSUME NEW n \in Nat, NEW T \in SUBSET (0..n), T # {}
  PROVE  \E i \in T : \A j \in T : i <= j
<1>1. T \subseteq Nat
  OBVIOUS
<1>2. PICK i \in T : \A j \in T : ~ (<<j, i>> \in OpToRel(<, Nat))
  BY <1>1, NatLessThanWellFounded, WFMin
<1>3. ASSUME NEW j \in T PROVE ~ (j < i)
  BY <1>1, <1>2, Zenon DEF OpToRel
<1>4. QED
  BY <1>1, <1>3

Walk(s, ps, n, f) ==
    /\ f \in [0..n -> AnyState] /\ f[0] = s
    /\ \A i \in 1..n : f[i] = Mix(f[i - 1], ps[i])

LEMMA WalkExists ==
  ASSUME NEW s \in AnyState, NEW ps \in Seq(Logs), NEW n \in 0..Len(ps)
  PROVE  \E f : Walk(s, ps, n, f)
<1> DEFINE T == {k \in 0..Len(ps) : ~ \E f : Walk(s, ps, k, f)}
<1>1. Len(ps) \in Nat /\ T \in SUBSET (0..Len(ps))
  OBVIOUS
<1>2. ASSUME T # {} PROVE FALSE
  <2>1. PICK k \in T : \A j \in T : k <= j
    BY <1>1, <1>2, Least
  <2>2. CASE k = 0
    <3>1. Walk(s, ps, 0, [i \in 0..0 |-> s])
      BY DEF Walk
    <3>2. QED
      BY <2>1, <2>2, <3>1
  <2>3. CASE k # 0
    <3>1. k \in 1..Len(ps) /\ k - 1 \in 0..Len(ps) /\ k - 1 \notin T
      BY <1>1, <2>1, <2>3
    <3>2. PICK f : Walk(s, ps, k - 1, f)
      BY <3>1
    <3>3. f[k - 1] \in AnyState /\ ps[k] \in Logs
      BY <3>1, <3>2 DEF Walk
    <3>4. Mix(f[k - 1], ps[k]) \in AnyState
      BY <3>3, MixType DEF Logs
    <3>5. PICK g : g = [i \in 0..k |-> IF i = k THEN Mix(f[k - 1], ps[k]) ELSE f[i]]
      OBVIOUS
    <3>6. g \in [0..k -> AnyState] /\ g[0] = s
      BY <3>1, <3>2, <3>4, <3>5 DEF Walk
    <3>7. ASSUME NEW i \in 1..k PROVE g[i] = Mix(g[i - 1], ps[i])
      <4>1. g[i - 1] = f[i - 1]
        BY <3>1, <3>5
      <4>2. CASE i = k
        BY <3>1, <3>5, <4>1, <4>2
      <4>3. CASE i # k
        BY <3>1, <3>2, <3>5, <4>1, <4>3 DEF Walk
      <4>4. QED
        BY <4>2, <4>3
    <3>8. Walk(s, ps, k, g)
      BY <3>6, <3>7 DEF Walk
    <3>9. QED
      BY <2>1, <3>8
  <2>4. QED
    BY <2>2, <2>3
<1>3. QED
  BY <1>2

LEMMA AlongWalks ==
  ASSUME NEW s \in AnyState, NEW ps \in Seq(Logs)
  PROVE  Walk(s, ps, Len(ps), Along(s, ps))
<1>1. PICK n : n = Len(ps)
  OBVIOUS
<1>2. n \in Nat
  BY <1>1
<1>3. PICK f : Walk(s, ps, n, f)
  BY <1>1, <1>2, WalkExists
<1> DEFINE Eq(g) == g = [i \in 0..n |-> IF i = 0 THEN s ELSE Mix(g[i - 1], ps[i])]
<1>4. Eq(f)
  BY <1>2, <1>3 DEF Walk
<1>5. Along(s, ps) = CHOOSE g : Eq(g)
  BY <1>1 DEF Along
<1>6. Eq(Along(s, ps))
  BY <1>4, <1>5
<1>7. ASSUME NEW g, Eq(g) PROVE \A i \in 0..n : g[i] = f[i]
  <2> DEFINE T == {i \in 0..n : g[i] # f[i]}
  <2>1. ASSUME T # {} PROVE FALSE
    <3>1. PICK k \in T : \A j \in T : k <= j
      BY <1>2, <2>1, Least
    <3>2. k # 0
      BY <1>2, <1>3, <1>7, <3>1 DEF Walk
    <3>3. k \in 1..n /\ k - 1 \in 0..n /\ k - 1 \notin T
      BY <1>2, <3>1, <3>2
    <3>4. g[k] = Mix(g[k - 1], ps[k]) /\ f[k] = Mix(f[k - 1], ps[k])
      BY <1>3, <1>7, <3>2, <3>3 DEF Walk
    <3>5. QED
      BY <3>1, <3>3, <3>4
  <2>2. QED
    BY <2>1
<1>8. Along(s, ps) = f
  <2>1. PICK g : g = Along(s, ps)
    OBVIOUS
  <2>2. Eq(g)
    BY <1>6, <2>1
  <2>3. \A i \in 0..n : g[i] = f[i]
    BY <1>7, <2>2
  <2>4. g = [i \in 0..n |-> g[i]] /\ f = [i \in 0..n |-> f[i]]
    BY <1>3, <2>2 DEF Walk
  <2>5. QED
    BY <2>1, <2>3, <2>4
<1>9. QED
  BY <1>1, <1>3, <1>8

(* The states of a walk are honest, and are those of a log it follows.       *)

LEMMA WalkHonest ==
  ASSUME NEW h \in Homes, NEW n \in Nat, NEW s, Honest(h, n, s), NEW ps \in Seq(Logs), NEW f,
         Walk(s, ps, Len(ps), f), \A i \in 1..Len(ps) : Mutates(h, n, ps[i])
  PROVE  \A i \in 0..Len(ps) : Honest(h, n, f[i])
<1> DEFINE T == {i \in 0..Len(ps) : ~Honest(h, n, f[i])}
<1>1. ASSUME T # {} PROVE FALSE
  <2>1. Len(ps) \in Nat
    OBVIOUS
  <2>2. PICK k \in T : \A j \in T : k <= j
    BY <1>1, <2>1, Least
  <2>3. k # 0
    BY <2>2 DEF Walk
  <2>4. k \in 1..Len(ps) /\ k - 1 \in 0..Len(ps) /\ k - 1 \notin T
    BY <2>1, <2>2, <2>3
  <2>5. Honest(h, n, f[k - 1]) /\ Mutates(h, n, ps[k]) /\ f[k] = Mix(f[k - 1], ps[k])
    BY <2>4 DEF Walk
  <2>6. Honest(h, n, f[k])
    BY <2>5, MixHonest
  <2>7. QED
    BY <2>2, <2>6
<1>2. QED
  BY <1>1

LEMMA WalkIsLog ==
  ASSUME NEW h \in Homes, NEW n \in Nat, NEW l, History(h, n, l), NEW s \in AnyState, Had(l, s),
         NEW ps \in Seq(Logs), Follows(l, s, ps), NEW f, Walk(s, ps, Len(ps), f)
  PROVE  Had(l, f[Len(ps)])
<1>1. s.version \in Nat /\ Len(ps) \in Nat /\ l \in Seq(Logs) /\ Len(l) \in Nat
  BY DEF AnyState, History
<1>2. CASE ps = << >>
  <2>1. Len(ps) = 0 /\ f[0] = s
    BY <1>2 DEF Walk
  <2>2. QED
    BY <2>1
<1>3. CASE ps # << >>
  <2>1. PICK v : v = s.version
    OBVIOUS
  <2>2. v \in Nat /\ v + Len(ps) <= Len(l) /\ \A i \in 1..Len(ps) : ps[i] = l[v + i]
    BY <1>1, <1>3, <2>1 DEF Follows
  <2> DEFINE T == {i \in 0..Len(ps) : f[i] # After(l, v + i)}
  <2>3. ASSUME T # {} PROVE FALSE
    <3>1. PICK k \in T : \A j \in T : k <= j
      BY <1>1, <2>3, Least
    <3>2. k # 0
      BY <2>1, <2>2, <3>1 DEF Walk, Had
    <3>3. k \in 1..Len(ps) /\ k - 1 \in 0..Len(ps) /\ k - 1 \notin T
      BY <1>1, <3>1, <3>2
    <3>4. f[k - 1] = After(l, v + k - 1) /\ f[k] = Mix(f[k - 1], ps[k]) /\ ps[k] = l[v + k]
      <4>1. v + (k - 1) = v + k - 1
        BY <2>2, <3>3
      <4>2. QED
        BY <2>2, <3>3, <4>1 DEF Walk
    <3>5. v + k \in 1..Len(l)
      BY <1>1, <2>2, <3>3
    <3>6. l[v + k].after = Mix(After(l, v + k - 1), l[v + k]) /\ v + k # 0
      <4>1. v + k # 0 /\ v + k - 1 = (v + k) - 1
        BY <2>2, <3>3
      <4>2. QED
        BY <3>5, <4>1 DEF History
    <3>7. f[k] = After(l, v + k)
      BY <3>4, <3>6 DEF After
    <3>8. QED
      BY <3>1, <3>7
  <2>4. PICK k : k = v + Len(ps)
    OBVIOUS
  <2>5. f[Len(ps)] = After(l, k) /\ k \in 1..Len(l)
    <3>1. Len(ps) # 0
      BY <1>3
    <3>2. QED
      BY <1>1, <2>2, <2>3, <2>4, <3>1
  <2>6. After(l, k).version = k
    BY <2>5 DEF History, After
  <2>7. QED
    BY <2>5, <2>6 DEF Had
<1>4. QED
  BY <1>2, <1>3

LEMMA WalkVersion ==
  ASSUME NEW s \in AnyState, NEW ps \in Seq(Logs), NEW f, Walk(s, ps, Len(ps), f)
  PROVE  \A i \in 0..Len(ps) : f[i].version = s.version + i
<1>1. Len(ps) \in Nat /\ s.version \in Nat
  BY DEF AnyState
<1> DEFINE T == {i \in 0..Len(ps) : f[i].version # s.version + i}
<1>2. ASSUME T # {} PROVE FALSE
  <2>1. PICK k \in T : \A j \in T : k <= j
    BY <1>1, <1>2, Least
  <2>2. k # 0
    BY <1>1, <2>1 DEF Walk
  <2>3. k \in 1..Len(ps) /\ k - 1 \in 0..Len(ps) /\ k - 1 \notin T
    BY <1>1, <2>1, <2>2
  <2>4. f[k - 1] \in AnyState /\ ps[k] \in Logs /\ f[k] = Mix(f[k - 1], ps[k])
    BY <2>3 DEF Walk
  <2>5. f[k].version = f[k - 1].version + 1
    BY <2>4, MixType DEF Logs
  <2>6. f[k - 1].version = s.version + (k - 1)
    BY <2>3
  <2>7. QED
    BY <1>1, <2>1, <2>3, <2>5, <2>6
<1>3. QED
  BY <1>2

LEMMA DecodedVersion ==
  ASSUME NEW r \in Reply, NEW c
  PROVE  Decoded(c, r).version = r.start.version + Len(r.patches)
<1>1. PICK s, ps, f : s = r.start /\ ps = r.patches /\ f = Along(r.start, r.patches)
  OBVIOUS
<1>2. s \in AnyState /\ ps \in Seq(Logs) /\ Len(ps) \in 0..Len(ps)
  BY <1>1 DEF Reply
<1>3. Walk(s, ps, Len(ps), f)
  BY <1>1, <1>2, AlongWalks
<1>4. f[Len(ps)].version = s.version + Len(ps)
  BY <1>2, <1>3, WalkVersion
<1>5. QED
  BY <1>1, <1>4 DEF Decoded

LEMMA DecodedFits ==
  ASSUME NEW h \in Homes, NEW n \in Nat, NEW l, History(h, n, l), NEW r, Answers(h, n, l, r), NEW c
  PROVE  /\ Honest(h, n, Decoded(c, r))
         /\ Had(l, r.start) => Had(l, Decoded(c, r))
<1>1. PICK s, ps, f : s = r.start /\ ps = r.patches /\ f = Along(r.start, r.patches)
  OBVIOUS
<1>2. s \in AnyState /\ ps \in Seq(Logs) /\ Honest(h, n, s) /\ Follows(l, s, ps)
      /\ \A i \in 1..Len(ps) : Mutates(h, n, ps[i])
  BY <1>1 DEF Answers, Reply
<1>3. Walk(s, ps, Len(ps), f)
  BY <1>1, <1>2, AlongWalks
<1>4. Honest(h, n, f[Len(ps)])
  BY <1>2, <1>3, WalkHonest
<1>5. Had(l, s) => Had(l, f[Len(ps)])
  BY <1>2, <1>3, WalkIsLog
<1>6. QED
  BY <1>1, <1>4, <1>5 DEF Decoded

-----------------------------------------------------------------------------
(* The least and the greatest. *)

LEMMA MaxOfTwo ==
  ASSUME NEW a \in Int, NEW b \in Int
  PROVE  Max({a, b}) = IF a >= b THEN a ELSE b
<1>1. PICK m : m = IF a >= b THEN a ELSE b
  OBVIOUS
<1>2. m \in {a, b} /\ \A y \in {a, b} : m >= y
  BY <1>1
<1>3. \A x \in {a, b} : (\A y \in {a, b} : x >= y) => x = m
  BY <1>1
<1>4. QED
  BY <1>1, <1>2, <1>3 DEF Max

LEMMA MinOfTwo ==
  ASSUME NEW a \in Int, NEW b \in Int
  PROVE  Min({a, b}) = IF a <= b THEN a ELSE b
<1>1. PICK m : m = IF a <= b THEN a ELSE b
  OBVIOUS
<1>2. m \in {a, b} /\ \A y \in {a, b} : m <= y
  BY <1>1
<1>3. \A x \in {a, b} : (\A y \in {a, b} : x <= y) => x = m
  BY <1>1
<1>4. QED
  BY <1>1, <1>2, <1>3 DEF Min

LEMMA MinIsIn ==
  ASSUME NEW T \in SUBSET Cols, T # {}
  PROVE  Min(T) \in T
<1>1. T \in SUBSET (0..NCols) /\ NCols \in Nat
  BY AppStateAssumption DEF Cols
<1>2. \E x \in T : \A y \in T : x <= y
  BY <1>1, Least
<1>3. QED
  BY <1>2 DEF Min

(* What the server answers: without more to come, up to the end of its log.  *)
LEMMA AnswerFits ==
  ASSUME NEW h \in Homes, NEW n \in Nat, NEW c \in Cols, History(h, n, log[c]),
         NEW from, Honest(h, n, from)
  PROVE  /\ Answers(h, n, log[c], Answer(c, from))
         /\ from.version <= Len(log[c]) /\ ~Answer(c, from).more =>
               Answer(c, from).start.version + Len(Answer(c, from).patches) = Len(log[c])
<1>1. PICK l, v, len : l = log[c] /\ v = from.version /\ len = Len(log[c])
  OBVIOUS
<1>2. l \in Seq(Logs) /\ len \in Nat /\ len = Len(l) /\ v \in Nat /\ from \in AnyState /\ Page \in Nat \ {0}
  BY <1>1, AppStateAssumption DEF History, Honest, AnyState
<1>3. PICK base : base = IF v = 0 THEN (IF len - 1 >= 0 THEN len - 1 ELSE 0) ELSE v
  OBVIOUS
<1>4. base \in Nat /\ (base # v => v = 0 /\ base <= len)
  BY <1>2, <1>3
<1>5. PICK last : last = IF base + Page <= len THEN base + Page ELSE len
  OBVIOUS
<1>6. last \in Nat /\ last <= len /\ (base <= len => base <= last)
  BY <1>2, <1>4, <1>5
<1>7. PICK r, ps :
        /\ r = Answer(c, from) /\ ps = SubSeq(l, base + 1, last)
  OBVIOUS
<1>8. base = IF from.version = 0 THEN Max({0, Len(log[c]) - 1}) ELSE from.version
  <2>1. Max({0, len - 1}) = IF len - 1 >= 0 THEN len - 1 ELSE 0
    <3>1. Max({0, len - 1}) = IF 0 >= len - 1 THEN 0 ELSE len - 1
      BY <1>2, MaxOfTwo
    <3>2. QED
      BY <1>2, <3>1
  <2>2. QED
    BY <1>1, <1>3, <2>1
<1>9. last = Min({base + Page, Len(log[c])})
  BY <1>1, <1>2, <1>4, <1>5, MinOfTwo
<1>10. PICK start, ks :
        /\ start = (IF base = v THEN from ELSE Truth(c, base))
        /\ ks = IF base = from.version THEN {}
                ELSE {log[c][w].key : w \in {w \in 1..base : Holds(Truth(c, base), log[c][w])}}
  OBVIOUS
<1>11. r = [start |-> start, keys |-> ks, patches |-> ps, more |-> last < len]
  BY <1>1, <1>7, <1>8, <1>9, <1>10 DEF Answer
<1>12. ASSUME base # v PROVE base \in 1..len \/ (base = 0 /\ len = 0)
  BY <1>2, <1>4, <1>12
<1>13. Honest(h, n, start) /\ start.version = base
  <2>1. CASE base = v
    BY <1>1, <1>10, <2>1
  <2>2. CASE base # v
    <3>1. base \in 1..len
      BY <1>2, <1>3, <1>4, <2>2
    <3>2. start = l[base].after
      BY <1>1, <1>2, <1>10, <2>2, <3>1 DEF Truth
    <3>3. QED
      BY <1>1, <3>1, <3>2 DEF History
  <2>3. QED
    BY <2>1, <2>2
<1>14. ks \in SUBSET (1..MaxKeys)
  <2>1. CASE base = v
    BY <1>1, <1>10, <2>1
  <2>2. CASE base # v
    <3>1. \A w \in 1..base : l[w] \in Logs
      BY <1>1, <1>2, <1>4, <2>2
    <3>2. QED
      BY <1>1, <1>10, <2>2, <3>1 DEF Logs
  <2>3. QED
    BY <2>1, <2>2
<1>15. /\ ps \in Seq(Logs) /\ Len(ps) \in Nat
       /\ Len(ps) = IF base + 1 <= last THEN last - base ELSE 0
       /\ \A i \in 1..Len(ps) : ps[i] = l[base + i]
  BY <1>2, <1>4, <1>6, <1>7, SubSeqProperties
<1>16. r \in Reply
  BY <1>11, <1>13, <1>14, <1>15 DEF Reply, Honest
<1>17. Follows(l, start, ps)
  <2>1. CASE Len(ps) = 0
    BY <1>15, <2>1 DEF Follows
  <2>2. CASE Len(ps) # 0
    BY <1>2, <1>4, <1>6, <1>13, <1>15, <2>2 DEF Follows
  <2>3. QED
    BY <2>1, <2>2
<1>18. \A i \in 1..Len(ps) : Mutates(h, n, ps[i])
  <2>1. ASSUME NEW i \in 1..Len(ps) PROVE base + i \in 1..Len(l)
    BY <1>2, <1>4, <1>6, <1>15, <2>1
  <2>2. QED
    BY <1>1, <1>15, <2>1 DEF History
<1>19. Answers(h, n, l, r)
  <2>1. r.start = start /\ r.patches = ps
    BY <1>11
  <2>2. QED
    BY <1>13, <1>16, <1>17, <1>18, <2>1 DEF Answers
<1>20. v <= len /\ ~r.more => r.start.version + Len(r.patches) = len
  <2> SUFFICES ASSUME v <= len, ~r.more PROVE r.start.version + Len(r.patches) = len
    OBVIOUS
  <2>1. r.start = start /\ r.patches = ps /\ ~(last < len)
    BY <1>11
  <2>2. last = len /\ base <= len
    BY <1>2, <1>4, <1>6, <2>1
  <2>3. base + Len(ps) = len
    BY <1>2, <1>4, <1>15, <2>2
  <2>4. QED
    BY <1>13, <2>1, <2>3
<1>21. QED
  BY <1>1, <1>7, <1>19, <1>20

-----------------------------------------------------------------------------
(* Logs only grow, and new MACs move none that was there.                    *)

Extends(l, l2) == Len(l) <= Len(l2) /\ \A v \in 1..Len(l) : l2[v] = l[v]
Knows(h, n, h2, n2) == n <= n2 /\ \A m \in Macs : m <= n => h2[m] = h[m]

LEMMA HonestLater ==
  ASSUME NEW h \in Homes, NEW n \in Nat, NEW h2 \in Homes, NEW n2 \in Nat, Knows(h, n, h2, n2),
         NEW s, Honest(h, n, s)
  PROVE  Honest(h2, n2, s)
<1>1. s \in AnyState /\ s.hash = HashOf(s.map) /\ s.map \in [IndexMacs -> 0..MaxMacs]
  BY DEF Honest, AnyState
<1>2. ASSUME NEW x \in IndexMacs, s.map[x] # 0 PROVE s.map[x] <= n2 /\ h2[s.map[x]] = x
  <2>1. s.map[x] \in Macs /\ s.map[x] <= n /\ h[s.map[x]] = x
    BY <1>1, <1>2, AppStateAssumption DEF Honest, Fits, Macs
  <2>2. QED
    BY <2>1 DEF Knows, Macs
<1>3. QED
  BY <1>1, <1>2 DEF Honest, Fits

LEMMA MutatesLater ==
  ASSUME NEW h \in Homes, NEW n \in Nat, NEW h2 \in Homes, NEW n2 \in Nat, Knows(h, n, h2, n2),
         NEW p, Mutates(h, n, p)
  PROVE  Mutates(h2, n2, p)
  BY DEF Mutates, Knows, Macs

LEMMA HistoryLater ==
  ASSUME NEW h \in Homes, NEW n \in Nat, NEW h2 \in Homes, NEW n2 \in Nat, Knows(h, n, h2, n2),
         NEW l, History(h, n, l)
  PROVE  History(h2, n2, l)
<1>1. ASSUME NEW v \in 1..Len(l) PROVE Mutates(h2, n2, l[v]) /\ Honest(h2, n2, l[v].after)
  <2>1. Mutates(h, n, l[v]) /\ Honest(h, n, l[v].after)
    BY DEF History
  <2>2. QED
    BY <2>1, MutatesLater, HonestLater
<1>2. QED
  BY <1>1 DEF History

LEMMA HadLater ==
  ASSUME NEW l \in Seq(Logs), NEW l2 \in Seq(Logs), Extends(l, l2), NEW s \in AnyState, Had(l, s)
  PROVE  Had(l2, s)
<1>1. s.version \in Nat /\ Len(l) \in Nat /\ Len(l2) \in Nat /\ s.version <= Len(l) /\ s = After(l, s.version)
  BY DEF Had, AnyState
<1>2. After(l2, s.version) = After(l, s.version)
  BY <1>1 DEF After, Extends
<1>3. QED
  BY <1>1, <1>2 DEF Had, Extends

LEMMA AnswersLater ==
  ASSUME NEW h \in Homes, NEW n \in Nat, NEW h2 \in Homes, NEW n2 \in Nat, Knows(h, n, h2, n2),
         NEW l \in Seq(Logs), NEW l2 \in Seq(Logs), Extends(l, l2), NEW r, Answers(h, n, l, r)
  PROVE  Answers(h2, n2, l2, r)
<1>1. PICK s, ps : s = r.start /\ ps = r.patches
  OBVIOUS
<1>2. /\ r \in Reply /\ Honest(h, n, s) /\ Follows(l, s, ps) /\ ps \in Seq(Logs) /\ s \in AnyState
      /\ \A i \in 1..Len(ps) : Mutates(h, n, ps[i])
  BY <1>1 DEF Answers, Reply
<1>3. Honest(h2, n2, s)
  BY <1>2, HonestLater
<1>4. \A i \in 1..Len(ps) : Mutates(h2, n2, ps[i])
  BY <1>2, MutatesLater
<1>5. Follows(l2, s, ps)
  <2>1. CASE ps = << >>
    BY <2>1 DEF Follows
  <2>2. CASE ps # << >>
    <3>1. s.version \in Nat /\ Len(ps) \in Nat /\ Len(l) \in Nat /\ Len(l2) \in Nat
      BY <1>2 DEF AnyState
    <3>2. s.version + Len(ps) <= Len(l) /\ \A i \in 1..Len(ps) : ps[i] = l[s.version + i]
      BY <1>2, <2>2 DEF Follows
    <3>3. s.version + Len(ps) <= Len(l2)
      BY <3>1, <3>2 DEF Extends
    <3>4. ASSUME NEW i \in 1..Len(ps) PROVE ps[i] = l2[s.version + i]
      <4>1. s.version + i \in 1..Len(l)
        BY <3>1, <3>2
      <4>2. QED
        BY <3>2, <4>1 DEF Extends
    <3>5. QED
      BY <3>3, <3>4 DEF Follows
  <2>3. QED
    BY <2>1, <2>2
<1>6. QED
  BY <1>1, <1>2, <1>3, <1>4, <1>5 DEF Answers

Grown(lg, lg2) == \A c \in Cols : lg[c] \in Seq(Logs) /\ lg2[c] \in Seq(Logs) /\ Extends(lg[c], lg2[c])

LEMMA TaskLater ==
  ASSUME NEW h \in Homes, NEW n \in Nat, NEW h2 \in Homes, NEW n2 \in Nat, Knows(h, n, h2, n2),
         NEW lg, NEW lg2, Grown(lg, lg2), NEW task, TaskFits(h, n, lg, task)
  PROVE  TaskFits(h2, n2, lg2, task)
<1>1. CASE task = Idle
  BY <1>1 DEF TaskFits
<1>2. CASE ResyncFits(h, n, lg, task)
  <2>1. task.names \subseteq Cols /\ \A c \in task.names : Honest(h2, n2, task.from[c])
    <3>1. \A c \in task.names : Honest(h, n, task.from[c])
      BY <1>2 DEF ResyncFits
    <3>2. task.names \subseteq Cols
      BY <1>2 DEF ResyncFits, Resync
    <3>3. QED
      BY <3>1, <3>2, HonestLater
  <2>2. ASSUME task.phase = "answered", NEW c \in task.names
        PROVE  Answers(h2, n2, lg2[c], task.reply[c])
    <3>1. Answers(h, n, lg[c], task.reply[c])
      BY <1>2, <2>2 DEF ResyncFits
    <3>2. lg[c] \in Seq(Logs) /\ lg2[c] \in Seq(Logs) /\ Extends(lg[c], lg2[c])
      BY <2>1, <2>2 DEF Grown
    <3>3. QED
      BY <3>1, <3>2, AnswersLater
  <2>3. ResyncFits(h2, n2, lg2, task)
    BY <1>2, <2>1, <2>2 DEF ResyncFits
  <2>4. QED
    BY <2>3 DEF TaskFits
<1>3. CASE PushFits(h, n, lg, task)
  <2>1. task.col \in Cols /\ task.next \in AnyState /\ Mutates(h, n, task.patch) /\ Honest(h, n, task.next)
    BY <1>3 DEF PushFits, Push
  <2>2. Mutates(h2, n2, task.patch) /\ Honest(h2, n2, task.next)
    BY <2>1, MutatesLater, HonestLater
  <2>3. task.taken => Had(lg2[task.col], task.next)
    <3>1. lg[task.col] \in Seq(Logs) /\ lg2[task.col] \in Seq(Logs) /\ Extends(lg[task.col], lg2[task.col])
      BY <2>1 DEF Grown
    <3>2. QED
      BY <1>3, <2>1, <3>1, HadLater DEF PushFits
  <2>4. PushFits(h2, n2, lg2, task)
    BY <1>3, <2>2, <2>3 DEF PushFits
  <2>5. QED
    BY <2>4 DEF TaskFits
<1>4. QED
  BY <1>1, <1>2, <1>3 DEF TaskFits

(* A patch more in a log: the state after it is the one before it, mixed.    *)
LEMMA LoggedFits ==
  ASSUME NEW h \in Homes, NEW n \in Nat, NEW c \in Cols, History(h, n, log[c]),
         NEW p \in Patched, Mutates(h, n, p)
  PROVE  /\ Logged(c, p) \in Seq(Logs) /\ History(h, n, Logged(c, p)) /\ Extends(log[c], Logged(c, p))
         /\ Len(Logged(c, p)) = Len(log[c]) + 1
         /\ After(Logged(c, p), Len(log[c]) + 1) = Mix(Truth(c, Len(log[c])), p)
<1>1. PICK l, k, s, e, l2 :
        l = log[c] /\ k = Len(l) /\ s = Truth(c, k) /\ e = Entry(s, p) /\ l2 = Logged(c, p)
  OBVIOUS
<1>2. l \in Seq(Logs) /\ k \in Nat
  BY <1>1 DEF History
<1>3. s = After(l, k) /\ Honest(h, n, s) /\ s.version = k
  <2>1. CASE k = 0
    <3>1. s = NewState
      BY <1>1, <2>1 DEF Truth
    <3>2. QED
      BY <2>1, <3>1, NewHonest DEF After, NewState
  <2>2. CASE k # 0
    BY <1>1, <1>2, <2>2 DEF Truth, After, History
  <2>3. QED
    BY <2>1, <2>2
<1>4. PICK s2 : s2 = Mix(s, p)
  OBVIOUS
<1>5. Honest(h, n, s2) /\ s2.version = k + 1 /\ s2 \in AnyState
  BY <1>3, <1>4, MixHonest DEF Honest
<1>6. /\ e \in Logs /\ e.after = s2 /\ e.op = p.op /\ e.idx = p.idx /\ e.key = p.key /\ e.mac = p.mac
  BY <1>1, <1>4, <1>5 DEF Entry, Logs, Patched
<1>7. Mutates(h, n, e) /\ Mix(s, e) = s2
  BY <1>4, <1>6 DEF Mutates, IndexMac, Mix
<1>8. l2 = Append(l, e)
  BY <1>1 DEF Logged
<1>9. /\ l2 \in Seq(Logs) /\ Len(l2) = k + 1 /\ l2[k + 1] = e /\ \A v \in 1..k : l2[v] = l[v]
  BY <1>1, <1>2, <1>6, <1>8
<1>10. Extends(l, l2)
  BY <1>1, <1>2, <1>9 DEF Extends
<1>11. After(l2, k + 1) = s2 /\ \A v \in 0..k : After(l2, v) = After(l, v)
  BY <1>2, <1>6, <1>9 DEF After
<1>12. ASSUME NEW v \in 1..k + 1
       PROVE  /\ Mutates(h, n, l2[v]) /\ Honest(h, n, l2[v].after)
              /\ l2[v].after = Mix(After(l2, v - 1), l2[v]) /\ l2[v].after.version = v
  <2>1. CASE v = k + 1
    <3>1. v - 1 = k /\ k \in 0..k /\ l2[v] = e
      BY <1>2, <1>9, <2>1
    <3>2. After(l2, v - 1) = s
      BY <1>3, <1>11, <3>1
    <3>3. QED
      BY <1>5, <1>6, <1>7, <2>1, <3>1, <3>2
  <2>2. CASE v # k + 1
    <3>1. v \in 1..Len(l) /\ v - 1 \in 0..k /\ l2[v] = l[v]
      BY <1>1, <1>2, <1>9, <2>2
    <3>2. After(l2, v - 1) = After(l, v - 1)
      BY <1>11, <3>1
    <3>3. QED
      BY <1>1, <3>1, <3>2 DEF History
  <2>3. QED
    BY <2>1, <2>2
<1>13. History(h, n, l2)
  BY <1>9, <1>12 DEF History
<1>14. QED
  BY <1>1, <1>4, <1>9, <1>10, <1>11, <1>13

-----------------------------------------------------------------------------
(* What a step must show of what it changes.                                 *)

LEMMA StepFits ==
  ASSUME Bounds, HadInv, NEW h \in Homes, HomeInv(h), NEW h2 \in Homes, Knows(h, macs, h2, macs'),
         macs' \in 0..MaxMacs, have' \in 0..uses', uses' \in 1..MaxKeys, notes' \subseteq Cols,
         log' \in [Cols -> Seq(Logs)], stored' \in [Cols -> AnyState],
         tasks' \in [Tasks -> {Idle} \union Resync \union Push],
         \A c \in Cols : log'[c] = log[c] \/ (Extends(log[c], log'[c]) /\ History(h2, macs', log'[c])),
         \A c \in Cols : stored'[c] = stored[c] \/ Honest(h2, macs', stored'[c]),
         \A c \in Cols \ diverged' : (stored'[c] = stored[c] /\ c \notin diverged) \/ Had(log'[c], stored'[c]),
         \A t \in Tasks : tasks'[t] = tasks[t] \/ TaskFits(h2, macs', log', tasks'[t])
  PROVE  Inv'
<1>1. macs \in Nat /\ macs' \in Nat
  BY DEF Bounds
<1>2. \A c \in Cols : /\ log[c] \in Seq(Logs) /\ log'[c] \in Seq(Logs) /\ stored[c] \in AnyState
                      /\ Extends(log[c], log'[c])
  BY DEF Bounds, Extends
<1>3. Grown(log, log')
  BY <1>2 DEF Grown
<1>4. ASSUME NEW c \in Cols PROVE History(h2, macs', log'[c]) /\ Honest(h2, macs', stored'[c])
  <2>1. History(h, macs, log[c]) /\ Honest(h, macs, stored[c])
    BY DEF HomeInv
  <2>2. History(h2, macs', log[c]) /\ Honest(h2, macs', stored[c])
    BY <1>1, <2>1, HistoryLater, HonestLater
  <2>3. QED
    BY <2>2
<1>5. ASSUME NEW t \in Tasks PROVE TaskFits(h2, macs', log', tasks'[t])
  <2>1. TaskFits(h, macs, log, tasks[t])
    BY DEF HomeInv
  <2>2. TaskFits(h2, macs', log', tasks[t])
    BY <1>1, <1>3, <2>1, TaskLater
  <2>3. QED
    BY <2>2
<1>6. ASSUME NEW c \in Cols \ diverged' PROVE Had(log'[c], stored'[c])
  <2>1. CASE stored'[c] = stored[c] /\ c \notin diverged
    BY <1>2, <2>1, HadLater DEF HadInv
  <2>2. QED
    BY <2>1
<1>7. Bounds' /\ HadInv'
  BY <1>6 DEF Bounds, HadInv
<1>8. HomeInv(h2)'
  BY <1>4, <1>5 DEF HomeInv
<1>9. QED
  BY <1>7, <1>8 DEF Inv

(* A step that changes calls, and no MAC, log or state.                      *)
LEMMA CallStep ==
  ASSUME Bounds, HadInv, NEW h \in Homes, HomeInv(h), UNCHANGED <<macs, uses, log, stored, diverged>>,
         have' \in 0..uses', notes' \subseteq Cols,
         tasks' \in [Tasks -> {Idle} \union Resync \union Push],
         \A t \in Tasks : tasks'[t] = tasks[t] \/ TaskFits(h, macs, log, tasks'[t])
  PROVE  Inv'
<1>1. Knows(h, macs, h, macs')
  BY DEF Knows, Bounds
<1>2. \A t \in Tasks : tasks'[t] = tasks[t] \/ TaskFits(h, macs', log', tasks'[t])
  OBVIOUS
<1>3. \A c \in Cols \ diverged' : stored'[c] = stored[c] /\ c \notin diverged
  OBVIOUS
<1>4. \A c \in Cols : stored'[c] = stored[c] /\ log'[c] = log[c]
  OBVIOUS
<1>5. /\ macs' \in 0..MaxMacs /\ uses' \in 1..MaxKeys
      /\ log' \in [Cols -> Seq(Logs)] /\ stored' \in [Cols -> AnyState]
  BY DEF Bounds
<1>6. QED
  BY <1>1, <1>2, <1>3, <1>4, <1>5, StepFits

LEMMA TaskMember ==
  ASSUME NEW h, NEW n, NEW lg, NEW task, TaskFits(h, n, lg, task)
  PROVE  task \in {Idle} \union Resync \union Push
  BY DEF TaskFits, ResyncFits, PushFits

LEMMA OneCall ==
  ASSUME Bounds, HadInv, NEW h \in Homes, HomeInv(h), UNCHANGED <<macs, uses, log, stored, diverged>>,
         have' \in 0..uses', notes' \subseteq Cols, NEW t \in Tasks, NEW task,
         tasks' = [tasks EXCEPT ![t] = task], TaskFits(h, macs, log, task)
  PROVE  Inv'
<1>1. task \in {Idle} \union Resync \union Push
  BY TaskMember
<1>2. tasks' \in [Tasks -> {Idle} \union Resync \union Push]
  BY <1>1 DEF Bounds
<1>3. \A u \in Tasks : tasks'[u] = tasks[u] \/ TaskFits(h, macs, log, tasks'[u])
  BY DEF Bounds
<1>4. QED
  BY <1>2, <1>3, CallStep

LEMMA TaskKinds ==
  ASSUME NEW h, NEW n, NEW lg, NEW task, TaskFits(h, n, lg, task)
  PROVE  /\ task.kind = "resync" => ResyncFits(h, n, lg, task)
         /\ task.kind = "push" => PushFits(h, n, lg, task)
  BY DEF TaskFits, Idle, ResyncFits, PushFits, Resync, Push

LEMMA InitInv == Init => Inv
<1> SUFFICES ASSUME Init PROVE Inv
  OBVIOUS
<1>1. PICK h : h = [m \in Macs |-> <<1, 1>>]
  OBVIOUS
<1>2. h \in Homes /\ 0 \in Nat
  BY <1>1, AppStateAssumption DEF Homes, IndexMacs, Idx
<1>3. NewState \in AnyState /\ Honest(h, 0, NewState)
  BY <1>2, NewHonest
<1>4. << >> \in Seq(Logs) /\ Len(<< >>) = 0
  OBVIOUS
<1>5. History(h, 0, << >>)
  BY <1>4 DEF History
<1>6. Had(<< >>, NewState)
  BY <1>4 DEF Had, After, NewState
<1>7. HadInv
  BY <1>6 DEF Init, HadInv
<1>8. HomeInv(h)
  BY <1>3, <1>5 DEF Init, HomeInv, TaskFits
<1>9. Bounds
  BY <1>3, <1>4, AppStateAssumption DEF Init, Bounds
<1>10. QED
  BY <1>2, <1>7, <1>8, <1>9 DEF Inv

-----------------------------------------------------------------------------
(* Keys, restarts, and the start and the end of calls.                       *)

LEMMA ShareKeysKeeps == Inv /\ ShareKeys => Inv'
<1> SUFFICES ASSUME Inv, ShareKeys PROVE Inv'
  OBVIOUS
<1>1. PICK h \in Homes : HomeInv(h)
  BY DEF Inv
<1>2. have' = uses /\ UNCHANGED <<macs, uses, log, stored, diverged, notes, tasks>>
  BY DEF ShareKeys
<1>3. /\ have' \in 0..uses' /\ notes' \subseteq Cols
      /\ tasks' \in [Tasks -> {Idle} \union Resync \union Push]
  BY <1>2 DEF Inv, Bounds
<1>4. QED
  BY <1>1, <1>2, <1>3, CallStep DEF Inv

LEMMA RestartKeeps == Inv /\ Restart => Inv'
<1> SUFFICES ASSUME Inv, Restart PROVE Inv'
  OBVIOUS
<1>1. PICK h \in Homes : HomeInv(h)
  BY DEF Inv
<1>2. tasks' = [t \in Tasks |-> Idle] /\ UNCHANGED <<macs, uses, log, stored, diverged, notes, have>>
  BY DEF Restart
<1>3. \A t \in Tasks : TaskFits(h, macs, log, tasks'[t])
  BY <1>2 DEF TaskFits
<1>4. /\ have' \in 0..uses' /\ notes' \subseteq Cols
      /\ tasks' \in [Tasks -> {Idle} \union Resync \union Push]
  BY <1>2 DEF Inv, Bounds
<1>5. QED
  BY <1>1, <1>2, <1>3, <1>4, CallStep DEF Inv

(* A resync that asks from states that are honest.                           *)
AskingFrom(names, st) ==
    [kind |-> "resync", phase |-> "asked", names |-> names, left |-> names, more |-> FALSE,
     from |-> [c \in names |-> st[c]], reply |-> << >>]

LEMMA AskingFits ==
  ASSUME NEW h, NEW n, NEW lg, NEW names \in SUBSET Cols, names # {},
         NEW st, \A c \in names : Honest(h, n, st[c])
  PROVE  TaskFits(h, n, lg, AskingFrom(names, st))
<1>1. PICK task, from : task = AskingFrom(names, st) /\ from = [c \in names |-> st[c]]
  OBVIOUS
<1>2. from \in [names -> AnyState] /\ \A c \in names : from[c] = st[c]
  BY <1>1 DEF Honest
<1>3. task = [kind |-> "resync", phase |-> "asked", names |-> names, left |-> names, more |-> FALSE,
              from |-> from, reply |-> << >>]
  BY <1>1 DEF AskingFrom
<1>4. task \in Resync
  BY <1>2, <1>3 DEF Resync
<1>5. /\ task.left = names /\ task.names = names /\ task.phase = "asked" /\ task.from = from
  BY <1>3
<1>6. ResyncFits(h, n, lg, task)
  BY <1>2, <1>4, <1>5 DEF ResyncFits
<1>7. QED
  BY <1>1, <1>6 DEF TaskFits

LEMMA StartResyncKeeps ==
  ASSUME Inv, NEW t \in Tasks, NEW names \in SUBSET Cols, names # {}, StartResync(t, names),
         notes' \subseteq notes
  PROVE  Inv'
<1>1. PICK h \in Homes : HomeInv(h)
  BY DEF Inv
<1>2. UNCHANGED <<macs, uses, log, stored, diverged, have>> /\ have' \in 0..uses' /\ notes' \subseteq Cols
  BY DEF StartResync, Inv, Bounds
<1>3. CASE have = 0
  <2>1. tasks' = tasks /\ tasks' \in [Tasks -> {Idle} \union Resync \union Push]
    BY <1>3 DEF StartResync, Inv, Bounds
  <2>2. QED
    BY <1>1, <1>2, <2>1, CallStep DEF Inv
<1>4. CASE have # 0
  <2>1. tasks' = [tasks EXCEPT ![t] = AskingFrom(names, stored)]
    BY <1>4 DEF StartResync, Asking, AskingFrom
  <2>2. \A c \in names : Honest(h, macs, stored[c])
    BY <1>1 DEF HomeInv
  <2>3. TaskFits(h, macs, log, AskingFrom(names, stored))
    BY <2>2, AskingFits
  <2>4. QED
    BY <1>1, <1>2, <2>1, <2>3, OneCall DEF Inv
<1>5. QED
  BY <1>3, <1>4

LEMMA HandleNoteKeeps == ASSUME NEW t \in Tasks PROVE Inv /\ HandleNote(t) => Inv'
<1> SUFFICES ASSUME Inv, HandleNote(t) PROVE Inv'
  OBVIOUS
<1>1. PICK c \in notes : StartResync(t, {c}) /\ notes' = notes \ {c}
  BY DEF HandleNote
<1>2. {c} \in SUBSET Cols /\ {c} # {} /\ notes' \subseteq notes
  BY <1>1 DEF Inv, Bounds
<1>3. QED
  BY <1>1, <1>2, StartResyncKeeps

LEMMA ResyncAllKeeps == ASSUME NEW t \in Tasks PROVE Inv /\ ResyncAll(t) => Inv'
<1> SUFFICES ASSUME Inv, ResyncAll(t) PROVE Inv'
  OBVIOUS
<1>1. StartResync(t, Cols) /\ notes' = notes
  BY DEF ResyncAll
<1>2. Cols # {}
  BY AppStateAssumption DEF Cols
<1>3. QED
  BY <1>1, <1>2, StartResyncKeeps

(* A call that fails or throws is over.                                      *)
LEMMA CallEnds ==
  ASSUME NEW t \in Tasks
  PROVE  Inv /\ (ResyncFails(t) \/ ApplyThrows(t) \/ PushFails(t)) => Inv'
<1> SUFFICES ASSUME Inv, ResyncFails(t) \/ ApplyThrows(t) \/ PushFails(t) PROVE Inv'
  OBVIOUS
<1>1. PICK h \in Homes : HomeInv(h)
  BY DEF Inv
<1>2. /\ tasks' = [tasks EXCEPT ![t] = Idle] /\ UNCHANGED <<macs, uses, log, stored, diverged, have, notes>>
  BY DEF ResyncFails, ApplyThrows, PushFails
<1>3. TaskFits(h, macs, log, Idle)
  BY DEF TaskFits
<1>4. have' \in 0..uses' /\ notes' \subseteq Cols
  BY <1>2 DEF Inv, Bounds
<1>5. QED
  BY <1>1, <1>2, <1>3, <1>4, OneCall DEF Inv

LEMMA ServerAnswersKeeps == ASSUME NEW t \in Tasks PROVE Inv /\ ServerAnswers(t) => Inv'
<1> SUFFICES ASSUME Inv, ServerAnswers(t) PROVE Inv'
  OBVIOUS
<1>1. PICK h \in Homes : HomeInv(h)
  BY DEF Inv
<1>2. PICK old, reply, task :
        /\ old = tasks[t] /\ reply = [c \in old.names |-> Answer(c, old.from[c])]
        /\ task = [old EXCEPT !.phase = "answered", !.reply = reply]
  OBVIOUS
<1>3. ResyncFits(h, macs, log, old)
  BY <1>1, <1>2, TaskKinds DEF ServerAnswers, HomeInv
<1>4. /\ tasks' = [tasks EXCEPT ![t] = task]
      /\ UNCHANGED <<macs, uses, log, stored, diverged, have, notes>>
  BY <1>2 DEF ServerAnswers
<1>5. old \in Resync /\ old.names \subseteq Cols
  BY <1>3 DEF ResyncFits, Resync
<1>6. ASSUME NEW c \in old.names PROVE Answers(h, macs, log[c], Answer(c, old.from[c]))
  <2>1. c \in Cols /\ Honest(h, macs, old.from[c]) /\ History(h, macs, log[c])
    BY <1>1, <1>3, <1>5 DEF ResyncFits, HomeInv
  <2>2. QED
    BY <2>1, AnswerFits DEF Inv, Bounds
<1>7. reply \in [old.names -> Reply] /\ \A c \in old.names : Answers(h, macs, log[c], reply[c])
  BY <1>2, <1>6 DEF Answers
<1>8. /\ task \in Resync /\ task.left = old.left /\ task.names = old.names /\ task.from = old.from
      /\ task.reply = reply
  <2>1. reply \in UNION {[D -> Reply] : D \in SUBSET Cols}
    BY <1>5, <1>7
  <2>2. task = [kind |-> old.kind, phase |-> "answered", names |-> old.names, left |-> old.left,
                more |-> old.more, from |-> old.from, reply |-> reply]
    BY <1>2, <1>5 DEF Resync
  <2>3. /\ old.kind \in {"resync"} /\ old.names \in SUBSET Cols /\ old.left \in SUBSET Cols
        /\ old.more \in BOOLEAN /\ old.from \in UNION {[D -> AnyState] : D \in SUBSET Cols}
    BY <1>5 DEF Resync
  <2>4. task \in Resync
    BY <2>1, <2>2, <2>3 DEF Resync
  <2>5. QED
    BY <2>2, <2>4
<1>9. ResyncFits(h, macs, log, task)
  BY <1>3, <1>7, <1>8 DEF ResyncFits
<1>10. TaskFits(h, macs, log, task)
  BY <1>9 DEF TaskFits
<1>11. have' \in 0..uses' /\ notes' \subseteq Cols
  BY <1>4 DEF Inv, Bounds
<1>12. QED
  BY <1>1, <1>4, <1>10, <1>11, OneCall DEF Inv

-----------------------------------------------------------------------------
(* New mutations. *)

LEMMA NewMac ==
  ASSUME NEW h \in Homes, NEW n \in Nat, n + 1 \in Macs, NEW x \in IndexMacs
  PROVE  \E h2 \in Homes : Knows(h, n, h2, n + 1) /\ h2[n + 1] = x
<1>1. PICK h2 : h2 = [h EXCEPT ![n + 1] = x]
  OBVIOUS
<1>2. h2 \in Homes /\ h2[n + 1] = x
  BY <1>1 DEF Homes
<1>3. \A m \in Macs : m <= n => h2[m] = h[m]
  BY <1>1 DEF Homes, Macs
<1>4. QED
  BY <1>2, <1>3 DEF Knows

(* A patch carries its mutation, and the state that it leads to is committed *)
(* to.                                                                       *)
LEMMA PatchFits ==
  ASSUME NEW h \in Homes, NEW n \in Nat, NEW s, Honest(h, n, s), NEW m, Mutates(h, n, m)
  PROVE  /\ Patch(s, m) \in Patched /\ Mutates(h, n, Patch(s, m))
         /\ Patch(s, m).commits = SnapshotMac(Mix(s, Patch(s, m)))
         /\ Honest(h, n, Mix(s, Patch(s, m)))
<1>1. PICK s2, p, commits : s2 = Mix(s, m) /\ p = Patch(s, m) /\ commits = SnapshotMac(s2)
  OBVIOUS
<1>2. Honest(h, n, s2)
  BY <1>1, MixHonest
<1>3. commits \in Commits
  BY <1>1, <1>2 DEF Honest, AnyState, SnapshotMac, Commits
<1>4. p = [op |-> m.op, idx |-> m.idx, key |-> m.key, mac |-> m.mac, commits |-> commits]
  BY <1>1 DEF Patch
<1>5. p \in Patched
  BY <1>3, <1>4 DEF Patched, Mutates
<1>6. p.op = m.op /\ p.idx = m.idx /\ p.key = m.key /\ p.mac = m.mac /\ p.commits = commits
  BY <1>4
<1>7. Mutates(h, n, p) /\ Mix(s, p) = s2
  BY <1>1, <1>6 DEF Mutates, IndexMac, Mix
<1>8. QED
  BY <1>1, <1>2, <1>5, <1>6, <1>7

LEMMA TruthHonest ==
  ASSUME NEW h \in Homes, NEW n \in Nat, NEW c \in Cols, History(h, n, log[c])
  PROVE  /\ Truth(c, Len(log[c])) = After(log[c], Len(log[c]))
         /\ Honest(h, n, Truth(c, Len(log[c])))
<1>1. PICK l, k, s : l = log[c] /\ k = Len(l) /\ s = Truth(c, k)
  OBVIOUS
<1>2. k \in Nat /\ History(h, n, l)
  BY <1>1 DEF History
<1>3. s = After(l, k)
  BY <1>1 DEF Truth, After
<1>4. CASE k = 0
  <2>1. s = NewState
    BY <1>3, <1>4 DEF After
  <2>2. QED
    BY <1>1, <1>3, <2>1, NewHonest
<1>5. CASE k # 0
  <2>1. s = l[k].after /\ k \in 1..Len(l)
    BY <1>1, <1>2, <1>3, <1>5 DEF After
  <2>2. Honest(h, n, s)
    BY <1>2, <2>1 DEF History
  <2>3. QED
    BY <1>1, <1>3, <2>2
<1>6. QED
  BY <1>4, <1>5

LEMMA OtherPatchKeeps ==
  ASSUME NEW c \in Cols, NEW op \in {"SET", "REMOVE"}, NEW i \in Idx, NEW key \in 1..MaxKeys
  PROVE  Inv /\ OtherPatch(c, op, i, key) => Inv'
<1> SUFFICES ASSUME Inv, OtherPatch(c, op, i, key) PROVE Inv'
  OBVIOUS
<1>1. PICK h \in Homes : HomeInv(h)
  BY DEF Inv
<1>2. PICK m, s, p :
        /\ m = [op |-> op, idx |-> i, key |-> key, mac |-> macs + 1]
        /\ s = Truth(c, Len(log[c])) /\ p = Patch(s, m)
  OBVIOUS
<1>3. /\ macs < MaxMacs /\ macs' = macs + 1 /\ notes' = notes \union {c} /\ uses' = Max({uses, key})
      /\ UNCHANGED <<stored, tasks, have, diverged>>
  BY DEF OtherPatch
<1>4. log' = [log EXCEPT ![c] = Logged(c, p)]
  BY <1>2 DEF OtherPatch, Inv, Bounds
<1>5. macs \in Nat /\ macs' \in 0..MaxMacs /\ macs' \in Nat /\ macs + 1 \in Macs
  BY <1>3, AppStateAssumption DEF Inv, Bounds, Macs
<1>6. PICK h2 \in Homes : Knows(h, macs, h2, macs') /\ h2[macs + 1] = <<i, key>>
  <2>1. <<i, key>> \in IndexMacs
    BY DEF IndexMacs
  <2>2. \E h2 \in Homes : Knows(h, macs, h2, macs + 1) /\ h2[macs + 1] = <<i, key>>
    BY <1>1, <1>5, <2>1, NewMac
  <2>3. QED
    BY <1>3, <2>2
<1>7. Mutates(h2, macs', m)
  BY <1>2, <1>3, <1>5, <1>6 DEF Mutates, IndexMac, Ops
<1>8. History(h2, macs', log[c])
  BY <1>1, <1>5, <1>6, HistoryLater DEF HomeInv
<1>9. Honest(h2, macs', s)
  BY <1>2, <1>5, <1>8, TruthHonest
<1>10. p \in Patched /\ Mutates(h2, macs', p)
  BY <1>2, <1>5, <1>7, <1>9, PatchFits
<1>11. /\ Logged(c, p) \in Seq(Logs) /\ History(h2, macs', Logged(c, p)) /\ Extends(log[c], Logged(c, p))
  BY <1>5, <1>8, <1>10, LoggedFits
<1>12. log' \in [Cols -> Seq(Logs)]
  BY <1>4, <1>11 DEF Inv, Bounds
<1>13. \A d \in Cols : log'[d] = log[d] \/ (Extends(log[d], log'[d]) /\ History(h2, macs', log'[d]))
  BY <1>4, <1>11 DEF Inv, Bounds
<1>14. have' \in 0..uses' /\ uses' \in 1..MaxKeys
  <2>1. uses' = IF uses >= key THEN uses ELSE key
    BY <1>3, MaxOfTwo DEF Inv, Bounds
  <2>2. QED
    BY <1>3, <2>1 DEF Inv, Bounds
<1>15. /\ notes' \subseteq Cols /\ stored' \in [Cols -> AnyState]
       /\ tasks' \in [Tasks -> {Idle} \union Resync \union Push]
  BY <1>3 DEF Inv, Bounds
<1>16. /\ \A d \in Cols : stored'[d] = stored[d] /\ \A t \in Tasks : tasks'[t] = tasks[t]
       /\ diverged' = diverged
  BY <1>3
<1>17. QED
  BY <1>1, <1>5, <1>6, <1>12, <1>13, <1>14, <1>15, <1>16, StepFits DEF Inv

LEMMA StartPushKeeps ==
  ASSUME NEW t \in Tasks, NEW c \in Pushed, NEW i \in Idx
  PROVE  Inv /\ StartPush(t, c, i) => Inv'
<1> SUFFICES ASSUME Inv, StartPush(t, c, i) PROVE Inv'
  OBVIOUS
<1>1. PICK h \in Homes : HomeInv(h)
  BY DEF Inv
<1>2. PICK m, s, p, next, task :
        /\ m = Modified(i, macs + 1) /\ s = stored[c] /\ p = Patch(s, m) /\ next = Mix(s, p)
        /\ task = [kind |-> "push", phase |-> "asked", col |-> c, patch |-> p, taken |-> FALSE,
                   base |-> s.version, next |-> next]
  OBVIOUS
<1>3. /\ have > 0 /\ macs < MaxMacs /\ macs' = macs + 1
      /\ UNCHANGED <<log, stored, have, uses, notes, diverged>>
  BY DEF StartPush
<1>4. tasks' = [tasks EXCEPT ![t] = task]
  BY <1>2 DEF StartPush
<1>5. macs \in Nat /\ macs' \in 0..MaxMacs /\ macs' \in Nat /\ macs + 1 \in Macs
  BY <1>3, AppStateAssumption DEF Inv, Bounds, Macs
<1>6. c \in Cols /\ have \in 1..MaxKeys
  BY <1>3, AppStateAssumption DEF Inv, Bounds, Cols
<1>7. PICK h2 \in Homes : Knows(h, macs, h2, macs') /\ h2[macs + 1] = <<i, have>>
  <2>1. <<i, have>> \in IndexMacs
    BY <1>6 DEF IndexMacs
  <2>2. \E h2 \in Homes : Knows(h, macs, h2, macs + 1) /\ h2[macs + 1] = <<i, have>>
    BY <1>1, <1>5, <2>1, NewMac
  <2>3. QED
    BY <1>3, <2>2
<1>8. Mutates(h2, macs', m)
  BY <1>2, <1>3, <1>5, <1>6, <1>7 DEF Mutates, IndexMac, Ops, Modified
<1>9. Honest(h2, macs', s) /\ s.version \in Nat
  <2>1. Honest(h, macs, s)
    BY <1>1, <1>2, <1>6 DEF HomeInv
  <2>2. QED
    BY <1>5, <1>7, <2>1, HonestLater DEF Honest, AnyState
<1>10. /\ p \in Patched /\ Mutates(h2, macs', p) /\ p.commits = SnapshotMac(next)
       /\ Honest(h2, macs', next) /\ next \in AnyState
  BY <1>2, <1>5, <1>8, <1>9, PatchFits DEF Honest
<1>11. task \in Push
  BY <1>2, <1>6, <1>9, <1>10 DEF Push
<1>12. PushFits(h2, macs', log', task)
  <2>1. task.patch = p /\ task.next = next /\ task.taken = FALSE
    BY <1>2
  <2>2. QED
    BY <1>10, <1>11, <2>1 DEF PushFits
<1>13. \A u \in Tasks : tasks'[u] = tasks[u] \/ TaskFits(h2, macs', log', tasks'[u])
  BY <1>4, <1>12 DEF TaskFits, Inv, Bounds
<1>14. tasks' \in [Tasks -> {Idle} \union Resync \union Push]
  BY <1>4, <1>11 DEF Inv, Bounds
<1>15. /\ notes' \subseteq Cols /\ stored' \in [Cols -> AnyState] /\ log' \in [Cols -> Seq(Logs)]
       /\ have' \in 0..uses' /\ uses' \in 1..MaxKeys
  BY <1>3 DEF Inv, Bounds
<1>16. /\ \A d \in Cols : stored'[d] = stored[d] /\ log'[d] = log[d]
       /\ diverged' = diverged
  BY <1>3
<1>17. QED
  BY <1>1, <1>5, <1>7, <1>13, <1>14, <1>15, <1>16, StepFits DEF Inv

-----------------------------------------------------------------------------
(* What is saved. *)

LEMMA SaveFits ==
  ASSUME Bounds, HadInv, NEW h \in Homes, HomeInv(h), UNCHANGED <<macs, uses, have, log, notes>>,
         NEW c \in Cols, NEW s, Honest(h, macs, s), stored' = [stored EXCEPT ![c] = s],
         NEW told, told => Had(log[c], s), Tells(c, s, told),
         NEW t \in Tasks, NEW task, TaskFits(h, macs, log, task), tasks' = [tasks EXCEPT ![t] = task]
  PROVE  Inv'
<1>1. s \in AnyState /\ stored' \in [Cols -> AnyState]
  BY DEF Bounds, Honest
<1>2. \A d \in Cols : stored'[d] = stored[d] \/ Honest(h, macs', stored'[d])
  BY DEF Bounds
<1>3. ASSUME NEW d \in Cols \ diverged'
      PROVE  (stored'[d] = stored[d] /\ d \notin diverged) \/ Had(log'[d], stored'[d])
  <2>1. Sound(c, s) => Had(log[c], s)
    BY DEF Sound, Had, Truth, After
  <2>2. d \notin diverged
    BY DEF Tells
  <2>3. CASE d = c
    <3>1. told \/ Sound(c, s)
      BY <2>3 DEF Tells
    <3>2. stored'[d] = s
      BY <2>3 DEF Bounds
    <3>3. QED
      BY <2>1, <2>3, <3>1, <3>2
  <2>4. CASE d # c
    BY <2>2, <2>4 DEF Bounds
  <2>5. QED
    BY <2>3, <2>4
<1>4. task \in {Idle} \union Resync \union Push
  BY TaskMember
<1>5. tasks' \in [Tasks -> {Idle} \union Resync \union Push]
  BY <1>4 DEF Bounds
<1>6. \A u \in Tasks : tasks'[u] = tasks[u] \/ TaskFits(h, macs', log', tasks'[u])
  BY DEF Bounds
<1>7. Knows(h, macs, h, macs')
  BY DEF Knows, Bounds
<1>8. /\ macs' \in 0..MaxMacs /\ uses' \in 1..MaxKeys /\ have' \in 0..uses' /\ notes' \subseteq Cols
      /\ log' \in [Cols -> Seq(Logs)]
  BY DEF Bounds
<1>9. \A d \in Cols : log'[d] = log[d]
  OBVIOUS
<1>10. QED
  BY <1>1, <1>2, <1>3, <1>5, <1>6, <1>7, <1>8, <1>9, StepFits

LEMMA SavePushKeeps == ASSUME NEW t \in Tasks PROVE Inv /\ SavePush(t) => Inv'
<1> SUFFICES ASSUME Inv, SavePush(t) PROVE Inv'
  OBVIOUS
<1>1. PICK h \in Homes : HomeInv(h)
  BY DEF Inv
<1>2. PICK old, c, next : old = tasks[t] /\ c = old.col /\ next = old.next
  OBVIOUS
<1>3. PushFits(h, macs, log, old)
  BY <1>1, <1>2, TaskKinds DEF SavePush, HomeInv
<1>4. /\ stored' = [stored EXCEPT ![c] = next] /\ Tells(c, next, old.taken)
      /\ tasks' = [tasks EXCEPT ![t] = Idle] /\ UNCHANGED <<macs, uses, have, log, notes>>
  BY <1>2 DEF SavePush
<1>5. c \in Cols /\ Honest(h, macs, next) /\ (old.taken => Had(log[c], next))
  BY <1>2, <1>3 DEF PushFits, Push
<1>6. TaskFits(h, macs, log, Idle)
  BY DEF TaskFits
<1>7. QED
  BY <1>1, <1>4, <1>5, <1>6, SaveFits DEF Inv

LEMMA ServerTakesKeeps == ASSUME NEW t \in Tasks PROVE Inv /\ ServerTakes(t) => Inv'
<1> SUFFICES ASSUME Inv, ServerTakes(t) PROVE Inv'
  OBVIOUS
<1>1. PICK h \in Homes : HomeInv(h)
  BY DEF Inv
<1>2. PICK old, c, p, next, s, s2, takes, taken, task :
        /\ old = tasks[t] /\ c = old.col /\ p = old.patch /\ next = old.next
        /\ s = Truth(c, Len(log[c])) /\ s2 = Mix(s, p) /\ takes = (old.base = Len(log[c]))
        /\ taken = (takes /\ p.commits = SnapshotMac(s2))
        /\ task = [old EXCEPT !.phase = "answered", !.taken = taken]
  OBVIOUS
<1>3. PushFits(h, macs, log, old) /\ old \in Push
  BY <1>1, <1>2, TaskKinds DEF ServerTakes, HomeInv, PushFits
<1>4. /\ log' = (IF takes THEN [log EXCEPT ![c] = Logged(c, p)] ELSE log)
      /\ tasks' = [tasks EXCEPT ![t] = task]
      /\ UNCHANGED <<macs, uses, have, stored, notes, diverged>>
  BY <1>2 DEF ServerTakes
<1>5. /\ c \in Cols /\ p \in Patched /\ Mutates(h, macs, p) /\ Honest(h, macs, next) /\ next \in AnyState
      /\ p.commits = SnapshotMac(next) /\ macs \in Nat
  BY <1>2, <1>3 DEF PushFits, Push, Inv, Bounds
<1>6. History(h, macs, log[c])
  BY <1>1, <1>5 DEF HomeInv
<1>7. /\ Logged(c, p) \in Seq(Logs) /\ History(h, macs, Logged(c, p)) /\ Extends(log[c], Logged(c, p))
      /\ Len(Logged(c, p)) = Len(log[c]) + 1 /\ After(Logged(c, p), Len(log[c]) + 1) = s2
  BY <1>2, <1>5, <1>6, LoggedFits
<1>8. taken => Had(log'[c], next)
  <2> SUFFICES ASSUME taken PROVE Had(log'[c], next)
    OBVIOUS
  <2>1. log'[c] = Logged(c, p)
    BY <1>2, <1>4, <1>5 DEF Inv, Bounds
  <2>2. Honest(h, macs, s2)
    BY <1>2, <1>5, <1>6, TruthHonest, MixHonest
  <2>3. SnapshotMac(s2) = SnapshotMac(next)
    BY <1>2, <1>5
  <2>4. next = s2
    BY <1>5, <2>2, <2>3, SameHash
  <2>5. Len(log[c]) \in Nat
    BY <1>6 DEF History
  <2>6. PICK l, k : l = Logged(c, p) /\ k = Len(log[c]) + 1
    OBVIOUS
  <2>7. k \in 1..Len(l) /\ After(l, k) = s2 /\ History(h, macs, l)
    BY <1>7, <2>5, <2>6
  <2>8. s2.version = k
    BY <2>7 DEF After, History
  <2>9. QED
    BY <2>1, <2>4, <2>6, <2>7, <2>8 DEF Had
<1>9. task \in Push
  <2>1. taken \in BOOLEAN
    BY <1>2
  <2>2. task = [kind |-> old.kind, phase |-> "answered", col |-> old.col, patch |-> old.patch,
                taken |-> taken, base |-> old.base, next |-> old.next]
    BY <1>2, <1>3 DEF Push
  <2>3. /\ old.kind \in {"push"} /\ old.col \in Cols /\ old.patch \in Patched /\ old.base \in Nat
        /\ old.next \in AnyState
    BY <1>3 DEF Push
  <2>4. QED
    BY <2>1, <2>2, <2>3 DEF Push
<1>10. task.patch = p /\ task.next = next /\ task.taken = taken /\ task.col = c
  BY <1>2, <1>3 DEF Push
<1>11. PushFits(h, macs', log', task)
  BY <1>4, <1>5, <1>8, <1>9, <1>10 DEF PushFits
<1>12. \A u \in Tasks : tasks'[u] = tasks[u] \/ TaskFits(h, macs', log', tasks'[u])
  BY <1>4, <1>11 DEF TaskFits, Inv, Bounds
<1>13. tasks' \in [Tasks -> {Idle} \union Resync \union Push]
  BY <1>4, <1>9 DEF Inv, Bounds
<1>14. log' \in [Cols -> Seq(Logs)]
  BY <1>4, <1>7 DEF Inv, Bounds
<1>15. \A d \in Cols : log'[d] = log[d] \/ (Extends(log[d], log'[d]) /\ History(h, macs', log'[d]))
  BY <1>4, <1>7 DEF Inv, Bounds
<1>16. /\ notes' \subseteq Cols /\ stored' \in [Cols -> AnyState] /\ macs' \in 0..MaxMacs
       /\ have' \in 0..uses' /\ uses' \in 1..MaxKeys /\ Knows(h, macs, h, macs')
  BY <1>4, <1>5 DEF Inv, Bounds, Knows
<1>17. \A d \in Cols : stored'[d] = stored[d] /\ (d \notin diverged' => d \notin diverged)
  BY <1>4
<1>18. QED
  BY <1>1, <1>12, <1>13, <1>14, <1>15, <1>16, <1>17, StepFits DEF Inv

(* What is left of a resync after one of its collections, or the next pages. *)
LEMMA LeftFits ==
  ASSUME NEW h, NEW n, NEW lg, NEW old, ResyncFits(h, n, lg, old), NEW left, left # {},
         left \subseteq old.left, NEW more \in BOOLEAN
  PROVE  TaskFits(h, n, lg, [old EXCEPT !.left = left, !.more = more])
<1>1. PICK task : task = [old EXCEPT !.left = left, !.more = more]
  OBVIOUS
<1>2. old \in Resync /\ old.left \subseteq old.names
  BY DEF ResyncFits
<1>3. task = [kind |-> old.kind, phase |-> old.phase, names |-> old.names, left |-> left,
              more |-> more, from |-> old.from, reply |-> old.reply]
  BY <1>1, <1>2 DEF Resync
<1>4. /\ old.kind \in {"resync"} /\ old.phase \in {"asked", "answered"} /\ old.names \in SUBSET Cols
      /\ left \in SUBSET Cols /\ old.from \in UNION {[D -> AnyState] : D \in SUBSET Cols}
      /\ old.reply \in {<< >>} \union UNION {[D -> Reply] : D \in SUBSET Cols}
  BY <1>2 DEF Resync
<1>5. task \in Resync
  BY <1>3, <1>4 DEF Resync
<1>6. /\ task.left = left /\ task.names = old.names /\ task.phase = old.phase /\ task.from = old.from
      /\ task.reply = old.reply
  BY <1>3
<1>7. ResyncFits(h, n, lg, task)
  BY <1>2, <1>5, <1>6 DEF ResyncFits
<1>8. QED
  BY <1>1, <1>7 DEF TaskFits

LEMMA AskingAgain ==
  ASSUME NEW names, NEW st
  PROVE  [Asking(names) EXCEPT !.from = [c \in names |-> st[c]]] = AskingFrom(names, st)
<1>1. PICK a, b, no, none, q, r :
        /\ a = [c \in names |-> stored[c]] /\ b = [c \in names |-> st[c]] /\ no = FALSE /\ none = << >>
        /\ q = Asking(names) /\ r = AskingFrom(names, st)
  OBVIOUS
<1>2. q = [kind |-> "resync", phase |-> "asked", names |-> names, left |-> names, more |-> no,
           from |-> a, reply |-> none]
  BY <1>1 DEF Asking
<1>3. r = [kind |-> "resync", phase |-> "asked", names |-> names, left |-> names, more |-> no,
           from |-> b, reply |-> none]
  BY <1>1 DEF AskingFrom
<1>4. [q EXCEPT !.from = b] = r
  BY <1>2, <1>3
<1>5. QED
  BY <1>1, <1>4

LEMMA ApplyKeeps == ASSUME NEW t \in Tasks PROVE Inv /\ Apply(t) => Inv'
<1> SUFFICES ASSUME Inv, Apply(t) PROVE Inv'
  OBVIOUS
<1>1. PICK h \in Homes : HomeInv(h)
  BY DEF Inv
<1>2. PICK old, c, r, new, left, more :
        /\ old = tasks[t] /\ c = Min(old.left) /\ r = old.reply[c] /\ new = Decoded(c, r)
        /\ left = old.left \ {c} /\ more = (old.more \/ r.more)
  OBVIOUS
<1>3. ResyncFits(h, macs, log, old) /\ old.phase = "answered"
  BY <1>1, <1>2, TaskKinds DEF Apply, HomeInv
<1>4. /\ stored' = [stored EXCEPT ![c] = new]
      /\ tasks' = (IF left = {} THEN AfterLast(t, more)
                   ELSE [tasks EXCEPT ![t].left = left, ![t].more = more])
      /\ Tells(c, new, Sound(c, r.start)) /\ UNCHANGED <<macs, uses, have, log, notes>>
  BY <1>2 DEF Apply
<1>5. old.left \in SUBSET Cols /\ old.left # {} /\ old.names \in SUBSET Cols /\ old.left \subseteq old.names
  BY <1>3 DEF ResyncFits, Resync
<1>6. c \in old.left /\ c \in Cols /\ old.names # {}
  BY <1>2, <1>5, MinIsIn
<1>7. Answers(h, macs, log[c], r) /\ History(h, macs, log[c]) /\ macs \in Nat
  BY <1>1, <1>2, <1>3, <1>5, <1>6 DEF ResyncFits, HomeInv, Inv, Bounds
<1>8. Honest(h, macs, new) /\ (Had(log[c], r.start) => Had(log[c], new))
  BY <1>2, <1>7, DecodedFits
<1>9. Sound(c, r.start) => Had(log[c], new)
  BY <1>8 DEF Sound, Had, Truth, After
<1>10. PICK task, st :
         /\ st = stored'
         /\ task = IF left = {} THEN (IF more THEN AskingFrom(old.names, st) ELSE Idle)
                   ELSE [old EXCEPT !.left = left, !.more = more]
  OBVIOUS
<1>11. tasks' = [tasks EXCEPT ![t] = task]
  <2>1. CASE left = {}
    <3>1. AfterLast(t, more) = [tasks EXCEPT ![t] =
             IF more THEN [Asking(old.names) EXCEPT !.from = [d \in old.names |-> st[d]]] ELSE Idle]
      BY <1>2, <1>10 DEF AfterLast
    <3>2. [Asking(old.names) EXCEPT !.from = [d \in old.names |-> st[d]]] = AskingFrom(old.names, st)
      BY AskingAgain
    <3>3. AfterLast(t, more) = [tasks EXCEPT ![t] = IF more THEN AskingFrom(old.names, st) ELSE Idle]
      BY <3>1, <3>2
    <3>4. QED
      BY <1>4, <1>10, <2>1, <3>3
  <2>2. CASE left # {}
    BY <1>2, <1>4, <1>10, <2>2
  <2>3. QED
    BY <2>1, <2>2
<1>12. TaskFits(h, macs, log, task)
  <2>1. CASE left # {}
    <3>1. more \in BOOLEAN /\ left \subseteq old.left
      BY <1>2
    <3>2. TaskFits(h, macs, log, [old EXCEPT !.left = left, !.more = more])
      BY <1>3, <2>1, <3>1, LeftFits
    <3>3. QED
      BY <1>10, <2>1, <3>2
  <2>2. CASE left = {} /\ more
    <3>1. ASSUME NEW d \in old.names PROVE Honest(h, macs, st[d])
      <4>1. d \in Cols /\ Honest(h, macs, stored[d]) /\ stored \in [Cols -> AnyState]
        BY <1>1, <1>5, <3>1 DEF HomeInv, Inv, Bounds
      <4>2. st[d] = stored[d] \/ st[d] = new
        BY <1>4, <1>10, <4>1
      <4>3. QED
        BY <1>8, <4>1, <4>2
    <3>2. TaskFits(h, macs, log, AskingFrom(old.names, st))
      BY <1>5, <1>6, <3>1, AskingFits
    <3>3. QED
      BY <1>10, <2>2, <3>2
  <2>3. CASE left = {} /\ ~more
    BY <1>10, <2>3 DEF TaskFits
  <2>4. QED
    BY <2>1, <2>2, <2>3
<1>13. QED
  BY <1>1, <1>4, <1>6, <1>8, <1>9, <1>11, <1>12, SaveFits DEF Inv

-----------------------------------------------------------------------------
(* Every step. *)

LEMMA UnchangedKeeps == Inv /\ UNCHANGED vars => Inv'
<1> SUFFICES ASSUME Inv, UNCHANGED vars PROVE Inv'
  OBVIOUS
<1>1. PICK h \in Homes : HomeInv(h)
  BY DEF Inv
<1>2. UNCHANGED <<macs, uses, log, stored, diverged, have, notes, tasks>>
  BY DEF vars
<1>3. /\ have' \in 0..uses' /\ notes' \subseteq Cols
      /\ tasks' \in [Tasks -> {Idle} \union Resync \union Push]
  BY <1>2 DEF Inv, Bounds
<1>4. QED
  BY <1>1, <1>2, <1>3, CallStep DEF Inv

LEMMA Inductive == Inv /\ [Next]_vars => Inv'
<1> SUFFICES ASSUME Inv, [Next]_vars PROVE Inv'
  OBVIOUS
<1>1. CASE UNCHANGED vars
  BY <1>1, UnchangedKeeps
<1>2. ASSUME NEW c \in Cols, NEW op \in {"SET", "REMOVE"}, NEW i \in Idx, NEW key \in 1..MaxKeys,
             OtherPatch(c, op, i, key)
      PROVE  Inv'
  BY <1>2, OtherPatchKeeps
<1>3. ASSUME NEW t \in Tasks, HandleNote(t) \/ ResyncAll(t) PROVE Inv'
  BY <1>3, HandleNoteKeeps, ResyncAllKeeps
<1>4. ASSUME NEW t \in Tasks, ServerAnswers(t) PROVE Inv'
  BY <1>4, ServerAnswersKeeps
<1>5. ASSUME NEW t \in Tasks, ResyncFails(t) \/ ApplyThrows(t) \/ PushFails(t) PROVE Inv'
  BY <1>5, CallEnds
<1>6. ASSUME NEW t \in Tasks, Apply(t) PROVE Inv'
  BY <1>6, ApplyKeeps
<1>7. ASSUME NEW t \in Tasks, ServerTakes(t) PROVE Inv'
  BY <1>7, ServerTakesKeeps
<1>8. ASSUME NEW t \in Tasks, SavePush(t) PROVE Inv'
  BY <1>8, SavePushKeeps
<1>9. ASSUME NEW t \in Tasks, NEW c \in Pushed, NEW i \in Idx, StartPush(t, c, i) PROVE Inv'
  BY <1>9, StartPushKeeps
<1>10. CASE ShareKeys
  BY <1>10, ShareKeysKeeps
<1>11. CASE Restart
  BY <1>11, RestartKeeps
<1>12. QED
  BY <1>1, <1>2, <1>3, <1>4, <1>5, <1>6, <1>7, <1>8, <1>9, <1>10, <1>11 DEF Next

(* The invariant, by induction over the steps. *)
LEMMA Invariance == Spec => []Inv
<1>1. Init => Inv
  BY InitInv
<1>2. Inv /\ [Next]_vars => Inv'
  BY Inductive
<1>3. QED
  BY <1>1, <1>2, PTL DEF Spec

(* The LT-hash of a stored state is that of its values, for any number of    *)
(* collections, concurrent resyncs and pushes, and for any patches: mix      *)
(* (appstate/lt-hash.ts) takes out exactly what it replaces.                 *)
THEOREM HashOfMapHolds == Spec => []HashOfMap
<1>1. Inv => HashOfMap
  BY DEF Inv, HomeInv, Honest, HashOfMap
<1>2. QED
  BY <1>1, Invariance, PTL

(* What resync and pushPatch (appstate/layer.ts) store of a collection is    *)
(* what the server's log had at that version, whatever they interleave with  *)
(* and wherever they fail, unless a push was saved that the server refused:  *)
(* the hash a patch commits to leaves one set of values for it.              *)
THEOREM StateIsHistoryHolds == Spec => []StateIsHistory
<1>1. Inv => StateIsHistory
  <2> SUFFICES ASSUME Inv, NEW c \in Cols \ diverged PROVE Sound(c, stored[c])
    BY DEF StateIsHistory
  <2>1. Had(log[c], stored[c])
    BY DEF Inv, HadInv
  <2>2. QED
    BY <2>1 DEF Had, Sound, Truth, After
<1>2. QED
  BY <1>1, Invariance, PTL

-----------------------------------------------------------------------------
(* Who brings a collection up to date.  A resync does so as long as it has   *)
(* not asked, has been told of more, or holds an answer that reaches the end *)
(* of the log; a push, once the server took it and no other came after.      *)

ResyncOwes(task, c, len) ==
    /\ task.kind = "resync" /\ c \in task.names
    /\ \/ task.phase = "asked"
       \/ task.phase = "answered" /\ task.reply[c].more
       \/ task.phase = "answered" /\ c \in task.left /\ Decoded(c, task.reply[c]).version = len
PushOwes(task, c, len) ==
    /\ task.kind = "push" /\ task.phase = "answered" /\ task.col = c
    /\ task.taken /\ task.next.version = len
Owes(task, c, len) == ResyncOwes(task, c, len) \/ PushOwes(task, c, len)

Brought(c) == c \in notes \/ todo \/ \E t \in Tasks : Owes(tasks[t], c, Len(log[c]))
Current(c) == stored[c].version = Len(log[c])
OwedInv == \A c \in Cols \ (diverged \union excused) : Current(c) \/ Brought(c)

(* Why a call can be trusted with that: it remembers that there is more, and *)
(* what it started from was in the log.                                      *)
Remembers(lg, div, task) ==
    /\ task.kind = "resync" =>
          /\ task.phase = "asked" => task.left = task.names
          /\ task.phase = "answered" =>
                \A c \in task.names \ task.left : task.reply[c].more => task.more
          /\ \A c \in task.names \ div : task.from[c].version <= Len(lg[c])
    /\ task.kind = "push" =>
          /\ task.next.version = task.base + 1
          /\ task.phase = "asked" /\ task.col \notin div =>
                /\ task.base <= Len(lg[task.col])
                /\ task.next = Mix(After(lg[task.col], task.base), task.patch)

(* Without a key nothing is asked for.                                       *)
KeyInv == have = 0 => ~todo /\ \A t \in Tasks : tasks[t] = Idle

SyncInv == KeyInv /\ (\A t \in Tasks : Remembers(log, diverged, tasks[t])) /\ OwedInv

LEMMA IdleOwesNothing ==
  ASSUME NEW c, NEW len
  PROVE  ~Owes(Idle, c, len)
  BY DEF Owes, ResyncOwes, PushOwes, Idle

LEMMA IdleRemembers ==
  ASSUME NEW lg, NEW div
  PROVE  Remembers(lg, div, Idle)
  BY DEF Remembers, Idle

LEMMA RemembersLater ==
  ASSUME NEW h, NEW n, NEW lg, NEW lg2, Grown(lg, lg2), NEW div, NEW div2, div \subseteq div2,
         NEW task, TaskFits(h, n, lg, task), Remembers(lg, div, task)
  PROVE  Remembers(lg2, div2, task)
<1>1. CASE task = Idle
  BY <1>1, IdleRemembers
<1>2. CASE ResyncFits(h, n, lg, task)
  <2>1. task.kind = "resync" /\ task.names \subseteq Cols
        /\ \A c \in task.names : task.from[c] \in AnyState
    BY <1>2 DEF ResyncFits, Resync
  <2>2. ASSUME NEW c \in task.names \ div2 PROVE task.from[c].version <= Len(lg2[c])
    <3>1. task.from[c].version <= Len(lg[c])
      BY <2>1 DEF Remembers
    <3>2. Len(lg[c]) <= Len(lg2[c]) /\ Len(lg[c]) \in Nat /\ Len(lg2[c]) \in Nat
      BY <2>1 DEF Grown, Extends
    <3>3. task.from[c].version \in Nat
      BY <2>1 DEF AnyState
    <3>4. QED
      BY <3>1, <3>2, <3>3
  <2>3. QED
    BY <2>1, <2>2 DEF Remembers
<1>3. CASE PushFits(h, n, lg, task)
  <2>1. task.kind = "push" /\ task.col \in Cols /\ task.base \in Nat
    BY <1>3 DEF PushFits, Push
  <2>2. ASSUME task.phase = "asked", task.col \notin div2
        PROVE  /\ task.base <= Len(lg2[task.col])
               /\ task.next = Mix(After(lg2[task.col], task.base), task.patch)
    <3>1. PICK l, l2 : l = lg[task.col] /\ l2 = lg2[task.col]
      OBVIOUS
    <3>2. task.base <= Len(l) /\ task.next = Mix(After(l, task.base), task.patch)
      BY <2>1, <2>2, <3>1 DEF Remembers
    <3>3. Len(l) <= Len(l2) /\ Len(l) \in Nat /\ Len(l2) \in Nat /\ \A v \in 1..Len(l) : l2[v] = l[v]
      BY <2>1, <3>1 DEF Grown, Extends
    <3>4. After(l2, task.base) = After(l, task.base)
      BY <2>1, <3>2, <3>3 DEF After
    <3>5. QED
      BY <2>1, <3>1, <3>2, <3>3, <3>4
  <2>3. QED
    BY <2>1, <2>2 DEF Remembers
<1>4. QED
  BY <1>1, <1>2, <1>3 DEF TaskFits

(* What a step must show of it. *)
LEMMA SyncStep ==
  ASSUME Inv, SyncInv, Grown(log, log'), diverged \subseteq diverged', NEW t \in Tasks, NEW task,
         tasks' = [tasks EXCEPT ![t] = task], have' = have, todo' => have > 0,
         task = Idle \/ (have > 0 /\ Remembers(log', diverged', task)),
         OwedInv'
  PROVE  SyncInv'
<1>1. PICK h \in Homes : HomeInv(h)
  BY DEF Inv
<1>2. \A u \in Tasks : u # t => tasks'[u] = tasks[u]
  BY DEF Inv, Bounds
<1>3. tasks'[t] = task
  BY DEF Inv, Bounds
<1>4. KeyInv'
  BY <1>2, <1>3 DEF KeyInv, SyncInv, Inv, Bounds
<1>5. ASSUME NEW u \in Tasks PROVE Remembers(log', diverged', tasks'[u])
  <2>1. CASE u = t
    BY <1>3, <2>1, IdleRemembers
  <2>2. CASE u # t
    <3>1. TaskFits(h, macs, log, tasks[u]) /\ Remembers(log, diverged, tasks[u])
      BY <1>1 DEF HomeInv, SyncInv
    <3>2. Remembers(log', diverged', tasks[u])
      BY <3>1, RemembersLater
    <3>3. QED
      BY <1>2, <2>2, <3>2
  <2>3. QED
    BY <2>1, <2>2
<1>6. QED
  BY <1>4, <1>5 DEF SyncInv

LEMMA StillBrought ==
  ASSUME tasks \in [Tasks -> {Idle} \union Resync \union Push], NEW t \in Tasks, NEW task,
         tasks' = [tasks EXCEPT ![t] = task], NEW c \in Cols, Brought(c), log'[c] = log[c],
         c \in notes => c \in notes' \/ Owes(task, c, Len(log[c])),
         todo => todo' \/ Owes(task, c, Len(log[c])),
         Owes(tasks[t], c, Len(log[c])) => Owes(task, c, Len(log[c]))
  PROVE  Brought(c)'
<1>1. tasks'[t] = task /\ \A u \in Tasks : u # t => tasks'[u] = tasks[u]
  OBVIOUS
<1>2. CASE c \in notes'
  BY <1>2 DEF Brought
<1>3. CASE todo'
  BY <1>3 DEF Brought
<1>4. CASE Owes(task, c, Len(log[c]))
  <2>1. Owes(tasks'[t], c, Len(log'[c]))
    BY <1>1, <1>4
  <2>2. QED
    BY <2>1 DEF Brought
<1>5. CASE \E u \in Tasks : u # t /\ Owes(tasks[u], c, Len(log[c]))
  <2>1. PICK u \in Tasks : u # t /\ Owes(tasks[u], c, Len(log[c]))
    BY <1>5
  <2>2. Owes(tasks'[u], c, Len(log'[c]))
    BY <1>1, <2>1
  <2>3. QED
    BY <2>2 DEF Brought
<1>6. QED
  BY <1>2, <1>3, <1>4, <1>5 DEF Brought

(* Where neither a log nor a state changes.                                  *)
LEMMA OnlyCalls ==
  ASSUME Inv, SyncInv, UNCHANGED <<log, stored, diverged, have>>, excused \subseteq excused',
         NEW t \in Tasks, NEW task, tasks' = [tasks EXCEPT ![t] = task], todo' => todo,
         task = Idle \/ (have > 0 /\ Remembers(log, diverged, task)),
         \A c \in Cols \ (diverged \union excused') :
            /\ c \in notes => c \in notes' \/ Owes(task, c, Len(log[c]))
            /\ todo => todo' \/ Owes(task, c, Len(log[c]))
            /\ Owes(tasks[t], c, Len(log[c])) => Owes(task, c, Len(log[c]))
  PROVE  SyncInv'
<1>1. tasks \in [Tasks -> {Idle} \union Resync \union Push] /\ Grown(log, log')
  BY DEF Inv, Bounds, Grown, Extends
<1>2. ASSUME NEW c \in Cols \ (diverged' \union excused') PROVE Current(c)' \/ Brought(c)'
  <2>1. Current(c) \/ Brought(c)
    BY DEF SyncInv, OwedInv
  <2>2. CASE Current(c)
    BY <2>2 DEF Current
  <2>3. CASE Brought(c)
    <3>1. /\ c \in notes => c \in notes' \/ Owes(task, c, Len(log[c]))
          /\ todo => todo' \/ Owes(task, c, Len(log[c]))
          /\ Owes(tasks[t], c, Len(log[c])) => Owes(task, c, Len(log[c]))
          /\ log'[c] = log[c] /\ c \in Cols
      OBVIOUS
    <3>2. Brought(c)'
      BY <1>1, <2>3, <3>1, StillBrought
    <3>3. QED
      BY <3>2
  <2>4. QED
    BY <2>1, <2>2, <2>3
<1>3. OwedInv'
  BY <1>2 DEF OwedInv
<1>4. todo' => have > 0
  BY DEF SyncInv, KeyInv, Inv, Bounds
<1>5. task = Idle \/ (have > 0 /\ Remembers(log', diverged', task))
  OBVIOUS
<1>6. have' = have /\ diverged \subseteq diverged'
  OBVIOUS
<1>7. QED
  BY <1>1, <1>3, <1>4, <1>5, <1>6, SyncStep

LEMMA ShareKeysSync == Inv /\ Inv' /\ SyncInv /\ ShareKeys => SyncInv'
<1> SUFFICES ASSUME Inv, Inv', SyncInv, ShareKeys PROVE SyncInv'
  OBVIOUS
<1>1. /\ have' = uses /\ todo' = TRUE /\ UNCHANGED <<log, stored, diverged, tasks>>
  BY DEF ShareKeys
<1>2. KeyInv'
  BY <1>1 DEF KeyInv, Inv, Bounds
<1>3. OwedInv'
  BY <1>1 DEF OwedInv, Brought
<1>4. \A t \in Tasks : Remembers(log', diverged', tasks'[t])
  BY <1>1 DEF SyncInv
<1>5. QED
  BY <1>2, <1>3, <1>4 DEF SyncInv

(* A restart forgets the calls, and owes a resync of all for them.           *)
LEMMA RestartSync == Inv /\ Inv' /\ SyncInv /\ Restart => SyncInv'
<1> SUFFICES ASSUME Inv, Inv', SyncInv, Restart PROVE SyncInv'
  OBVIOUS
<1>1. /\ tasks' = [t \in Tasks |-> Idle] /\ todo' = (have > 0)
      /\ UNCHANGED <<log, stored, diverged, excused, have, notes>>
  BY DEF Restart
<1>2. have \in Nat
  BY DEF Inv, Bounds
<1>3. KeyInv'
  <2>1. \A t \in Tasks : tasks'[t] = Idle
    BY <1>1
  <2>2. have' = 0 => ~(have > 0)
    BY <1>1
  <2>3. have' = 0 => ~todo'
    BY <1>1, <2>2
  <2>4. QED
    BY <2>1, <2>3 DEF KeyInv
<1>4. \A t \in Tasks : Remembers(log', diverged', tasks'[t])
  BY <1>1, IdleRemembers
<1>5. ASSUME NEW c \in Cols \ (diverged' \union excused') PROVE Current(c)' \/ Brought(c)'
  <2>1. CASE have > 0
    BY <1>1, <2>1 DEF Brought
  <2>2. CASE ~(have > 0)
    <3>1. ~todo /\ \A t \in Tasks : tasks[t] = Idle
      BY <1>2, <2>2 DEF SyncInv, KeyInv
    <3>2. Current(c) \/ c \in notes
      BY <1>1, <3>1, IdleOwesNothing DEF SyncInv, OwedInv, Brought
    <3>3. QED
      BY <1>1, <3>2 DEF Current, Brought
  <2>3. QED
    BY <2>1, <2>2
<1>6. QED
  BY <1>3, <1>4, <1>5 DEF SyncInv, OwedInv

LEMMA AskingRemembers ==
  ASSUME NEW h, NEW n, NEW lg, NEW div, NEW names \in SUBSET Cols, NEW st,
         \A c \in names \ div : st[c].version <= Len(lg[c])
  PROVE  /\ Remembers(lg, div, AskingFrom(names, st))
         /\ \A c \in names : \A len : Owes(AskingFrom(names, st), c, len)
<1>1. PICK task, from : task = AskingFrom(names, st) /\ from = [c \in names |-> st[c]]
  OBVIOUS
<1>2. \A c \in names : from[c] = st[c]
  BY <1>1
<1>3. task = [kind |-> "resync", phase |-> "asked", names |-> names, left |-> names, more |-> FALSE,
              from |-> from, reply |-> << >>]
  BY <1>1 DEF AskingFrom
<1>4. /\ task.left = names /\ task.names = names /\ task.phase = "asked" /\ task.from = from
      /\ task.kind = "resync"
  BY <1>3
<1>5. Remembers(lg, div, task)
  BY <1>2, <1>4 DEF Remembers
<1>6. \A c \in names : \A len : Owes(task, c, len)
  BY <1>4 DEF Owes, ResyncOwes
<1>7. QED
  BY <1>1, <1>5, <1>6

(* What a resync that starts is told to do, it owes; without a key it is     *)
(* excused.                                                                  *)
LEMMA StartResyncSync ==
  ASSUME Inv, SyncInv, NEW t \in Tasks, NEW names \in SUBSET Cols, StartResync(t, names),
         notes \ names \subseteq notes', todo' => todo, todo /\ ~todo' => names = Cols
  PROVE  SyncInv'
<1>1. /\ tasks[t] = Idle /\ UNCHANGED <<log, stored, diverged, have>> /\ have \in Nat
      /\ excused \subseteq excused'
  BY DEF StartResync, Inv, Bounds
<1>2. CASE have = 0
  <2>1. tasks' = [tasks EXCEPT ![t] = Idle] /\ names \subseteq excused'
    BY <1>1, <1>2 DEF StartResync, Inv, Bounds
  <2>2. ~todo
    BY <1>2 DEF SyncInv, KeyInv
  <2>3. \A c \in Cols \ (diverged \union excused') :
            /\ c \in notes => c \in notes' \/ Owes(Idle, c, Len(log[c]))
            /\ todo => todo' \/ Owes(Idle, c, Len(log[c]))
            /\ Owes(tasks[t], c, Len(log[c])) => Owes(Idle, c, Len(log[c]))
    BY <1>1, <2>1, <2>2
  <2>4. QED
    BY <1>1, <2>1, <2>3, OnlyCalls
<1>3. CASE have # 0
  <2>1. PICK task : task = AskingFrom(names, stored)
    OBVIOUS
  <2>2. tasks' = [tasks EXCEPT ![t] = task]
    BY <1>3, <2>1 DEF StartResync, Asking, AskingFrom
  <2>3. \A c \in names \ diverged : stored[c].version <= Len(log[c])
    BY DEF Inv, HadInv, Had
  <2>4. Remembers(log, diverged, task) /\ \A c \in names : Owes(task, c, Len(log[c]))
    BY <2>1, <2>3, AskingRemembers
  <2>5. \A c \in Cols \ (diverged \union excused') :
            /\ c \in notes => c \in notes' \/ Owes(task, c, Len(log[c]))
            /\ todo => todo' \/ Owes(task, c, Len(log[c]))
            /\ Owes(tasks[t], c, Len(log[c])) => Owes(task, c, Len(log[c]))
    BY <1>1, <2>4, IdleOwesNothing
  <2>6. have > 0
    BY <1>1, <1>3
  <2>7. QED
    BY <1>1, <2>2, <2>4, <2>5, <2>6, OnlyCalls
<1>4. QED
  BY <1>2, <1>3

LEMMA StartsSync == ASSUME NEW t \in Tasks
                    PROVE Inv /\ SyncInv /\ (HandleNote(t) \/ ResyncAll(t)) => SyncInv'
<1> SUFFICES ASSUME Inv, SyncInv, HandleNote(t) \/ ResyncAll(t) PROVE SyncInv'
  OBVIOUS
<1>1. CASE HandleNote(t)
  <2>1. PICK c \in notes : StartResync(t, {c}) /\ notes' = notes \ {c} /\ todo' = todo
    BY <1>1 DEF HandleNote
  <2>2. {c} \in SUBSET Cols
    BY DEF Inv, Bounds
  <2>3. notes \ {c} \subseteq notes' /\ (todo' => todo) /\ (todo /\ ~todo' => {c} = Cols)
    BY <2>1
  <2>4. QED
    BY <2>1, <2>2, <2>3, StartResyncSync
<1>2. CASE ResyncAll(t)
  <2>1. StartResync(t, Cols) /\ notes' = notes /\ todo' = FALSE
    BY <1>2 DEF ResyncAll
  <2>2. notes \ Cols \subseteq notes' /\ (todo' => todo) /\ (todo /\ ~todo' => Cols = Cols)
    BY <2>1
  <2>3. QED
    BY <2>1, <2>2, StartResyncSync
<1>3. QED
  BY <1>1, <1>2

(* A call that ends without its work is excused from it.                     *)
LEMMA EndsSync == ASSUME NEW t \in Tasks
    PROVE Inv /\ SyncInv /\ (ResyncFails(t) \/ ApplyThrows(t) \/ PushFails(t)) => SyncInv'
<1> SUFFICES ASSUME Inv, SyncInv, ResyncFails(t) \/ ApplyThrows(t) \/ PushFails(t) PROVE SyncInv'
  OBVIOUS
<1>1. /\ tasks' = [tasks EXCEPT ![t] = Idle] /\ excused \subseteq excused'
      /\ UNCHANGED <<log, stored, diverged, have, notes, todo>>
  BY DEF ResyncFails, ApplyThrows, PushFails
<1>2. ASSUME NEW c \in Cols \ (diverged \union excused') PROVE ~Owes(tasks[t], c, Len(log[c]))
  <2>1. CASE ResyncFails(t)
    BY <2>1 DEF ResyncFails, Owes, ResyncOwes, PushOwes
  <2>2. CASE ApplyThrows(t)
    BY <2>2 DEF ApplyThrows, Owes, ResyncOwes, PushOwes
  <2>3. CASE PushFails(t)
    BY <2>3 DEF PushFails, Owes, ResyncOwes, PushOwes
  <2>4. QED
    BY <2>1, <2>2, <2>3
<1>3. \A c \in Cols \ (diverged \union excused') :
            /\ c \in notes => c \in notes' \/ Owes(Idle, c, Len(log[c]))
            /\ todo => todo' \/ Owes(Idle, c, Len(log[c]))
            /\ Owes(tasks[t], c, Len(log[c])) => Owes(Idle, c, Len(log[c]))
  BY <1>1, <1>2
<1>4. UNCHANGED <<log, stored, diverged, have>> /\ (todo' => todo)
  BY <1>1
<1>5. QED
  BY <1>1, <1>3, <1>4, OnlyCalls

LEMMA AnsweredSync == ASSUME NEW t \in Tasks PROVE Inv /\ SyncInv /\ ServerAnswers(t) => SyncInv'
<1> SUFFICES ASSUME Inv, SyncInv, ServerAnswers(t) PROVE SyncInv'
  OBVIOUS
<1>1. PICK h \in Homes : HomeInv(h)
  BY DEF Inv
<1>2. PICK old, reply, task :
        /\ old = tasks[t] /\ reply = [c \in old.names |-> Answer(c, old.from[c])]
        /\ task = [old EXCEPT !.phase = "answered", !.reply = reply]
  OBVIOUS
<1>3. ResyncFits(h, macs, log, old) /\ old.phase = "asked" /\ old.kind = "resync"
  BY <1>1, <1>2, TaskKinds DEF ServerAnswers, HomeInv
<1>4. /\ tasks' = [tasks EXCEPT ![t] = task]
      /\ UNCHANGED <<log, stored, diverged, excused, have, notes, todo>>
  BY <1>2 DEF ServerAnswers
<1>5. old \in Resync /\ old.names \subseteq Cols
  BY <1>3 DEF ResyncFits, Resync
<1>6. Remembers(log, diverged, old)
  BY <1>2 DEF SyncInv
<1>7. /\ task.kind = "resync" /\ task.phase = "answered" /\ task.names = old.names
      /\ task.left = old.names /\ task.from = old.from /\ task.reply = reply
  BY <1>2, <1>3, <1>5, <1>6 DEF Resync, Remembers
<1>8. Remembers(log, diverged, task)
  BY <1>3, <1>6, <1>7 DEF Remembers
<1>9. ASSUME NEW c \in Cols \ diverged, Owes(old, c, Len(log[c])) PROVE Owes(task, c, Len(log[c]))
  <2>1. c \in old.names
    BY <1>3, <1>9 DEF Owes, ResyncOwes, PushOwes
  <2>2. PICK from, r : from = old.from[c] /\ r = Answer(c, from)
    OBVIOUS
  <2>3. from.version <= Len(log[c]) /\ Honest(h, macs, from) /\ History(h, macs, log[c]) /\ macs \in Nat
    BY <1>1, <1>3, <1>6, <2>1, <2>2 DEF Remembers, ResyncFits, HomeInv, Inv, Bounds
  <2>4. r \in Reply /\ (~r.more => r.start.version + Len(r.patches) = Len(log[c]))
    BY <2>2, <2>3, AnswerFits DEF Answers
  <2>5. r.more \/ Decoded(c, r).version = Len(log[c])
    BY <2>4, DecodedVersion
  <2>6. task.reply[c] = r
    BY <1>2, <1>7, <2>1, <2>2
  <2>7. QED
    BY <1>7, <2>1, <2>5, <2>6 DEF Owes, ResyncOwes
<1>10. have > 0
  <2>1. tasks[t] # Idle
    BY <1>2, <1>3 DEF Idle
  <2>2. QED
    BY <2>1 DEF SyncInv, KeyInv, Inv, Bounds
<1>11. \A c \in Cols \ (diverged \union excused') :
            /\ c \in notes => c \in notes' \/ Owes(task, c, Len(log[c]))
            /\ todo => todo' \/ Owes(task, c, Len(log[c]))
            /\ Owes(tasks[t], c, Len(log[c])) => Owes(task, c, Len(log[c]))
  BY <1>2, <1>4, <1>9
<1>12. /\ UNCHANGED <<log, stored, diverged, have>> /\ excused \subseteq excused' /\ (todo' => todo)
  BY <1>4
<1>13. QED
  BY <1>4, <1>8, <1>10, <1>11, <1>12, OnlyCalls

LEMMA StartPushSync ==
  ASSUME NEW t \in Tasks, NEW c \in Pushed, NEW i \in Idx
  PROVE  Inv /\ SyncInv /\ StartPush(t, c, i) => SyncInv'
<1> SUFFICES ASSUME Inv, SyncInv, StartPush(t, c, i) PROVE SyncInv'
  OBVIOUS
<1>1. PICK m, s, p, next, task :
        /\ m = Modified(i, macs + 1) /\ s = stored[c] /\ p = Patch(s, m) /\ next = Mix(s, p)
        /\ task = [kind |-> "push", phase |-> "asked", col |-> c, patch |-> p, taken |-> FALSE,
                   base |-> s.version, next |-> next]
  OBVIOUS
<1>2. /\ tasks[t] = Idle /\ have > 0 /\ macs < MaxMacs
      /\ UNCHANGED <<log, stored, have, notes, todo, diverged, excused>>
  BY DEF StartPush
<1>3. tasks' = [tasks EXCEPT ![t] = task]
  BY <1>1 DEF StartPush
<1>4. c \in Cols /\ have \in 1..MaxKeys /\ macs + 1 \in Macs
  BY <1>2, AppStateAssumption DEF Inv, Bounds, Cols, Macs
<1>5. s \in AnyState
  BY <1>1, <1>4 DEF Inv, Bounds
<1>6. p.op = "SET" /\ p.idx = i /\ p.key = have /\ p.mac = macs + 1
  BY <1>1 DEF Patch, Modified
<1>7. next.version = s.version + 1
  BY <1>1, <1>4, <1>5, <1>6, MixType DEF Ops
<1>8. /\ task.kind = "push" /\ task.phase = "asked" /\ task.col = c /\ task.patch = p
      /\ task.base = s.version /\ task.next = next
  BY <1>1
<1>9. c \notin diverged => s.version <= Len(log[c]) /\ s = After(log[c], s.version)
  BY <1>1, <1>4 DEF Inv, HadInv, Had
<1>10. Remembers(log, diverged, task)
  BY <1>1, <1>7, <1>8, <1>9 DEF Remembers
<1>11. \A d \in Cols \ (diverged \union excused') :
            /\ d \in notes => d \in notes' \/ Owes(task, d, Len(log[d]))
            /\ todo => todo' \/ Owes(task, d, Len(log[d]))
            /\ Owes(tasks[t], d, Len(log[d])) => Owes(task, d, Len(log[d]))
  BY <1>2, IdleOwesNothing
<1>12. /\ UNCHANGED <<log, stored, diverged, have>> /\ excused \subseteq excused' /\ (todo' => todo)
  BY <1>2
<1>13. QED
  BY <1>2, <1>3, <1>10, <1>11, <1>12, OnlyCalls

LEMMA OtherPatchSync ==
  ASSUME NEW c \in Cols, NEW op \in {"SET", "REMOVE"}, NEW i \in Idx, NEW key \in 1..MaxKeys
  PROVE  Inv /\ Inv' /\ SyncInv /\ OtherPatch(c, op, i, key) => SyncInv'
<1> SUFFICES ASSUME Inv, Inv', SyncInv, OtherPatch(c, op, i, key) PROVE SyncInv'
  OBVIOUS
<1>1. PICK h \in Homes : HomeInv(h)
  BY DEF Inv
<1>2. PICK p : p = Patch(Truth(c, Len(log[c])),
                         [op |-> op, idx |-> i, key |-> key, mac |-> macs + 1])
  OBVIOUS
<1>3. /\ notes' = notes \union {c} /\ UNCHANGED <<stored, tasks, have, todo, diverged, excused>>
  BY DEF OtherPatch
<1>4. log' = [log EXCEPT ![c] = Logged(c, p)]
  BY <1>2 DEF OtherPatch, Inv, Bounds
<1>5. PICK e : Logged(c, p) = Append(log[c], e)
  BY DEF Logged
<1>6. \A d \in Cols : d # c => log'[d] = log[d]
  BY <1>4 DEF Inv, Bounds
<1>7. log'[c] = Append(log[c], e) /\ log \in [Cols -> Seq(Logs)] /\ log' \in [Cols -> Seq(Logs)]
  BY <1>4, <1>5 DEF Inv, Bounds
<1>8. Extends(log[c], log'[c])
  <2>1. PICK l, l2 : l = log[c] /\ l2 = log'[c]
    OBVIOUS
  <2>2. l \in Seq(Logs) /\ l2 \in Seq(Logs) /\ l2 = Append(l, e)
    BY <1>7, <2>1
  <2>3. Extends(l, l2)
    BY <2>2, AppendProperties DEF Extends
  <2>4. QED
    BY <2>1, <2>3
<1>9. Grown(log, log')
  <2>1. ASSUME NEW d \in Cols
        PROVE  log[d] \in Seq(Logs) /\ log'[d] \in Seq(Logs) /\ Extends(log[d], log[d])
    <3>1. log[d] \in Seq(Logs) /\ log'[d] \in Seq(Logs) /\ Len(log[d]) \in Nat
      BY <1>7
    <3>2. QED
      BY <3>1 DEF Extends
  <2>2. QED
    BY <1>6, <1>8, <2>1 DEF Grown
<1>10. ASSUME NEW u \in Tasks PROVE Remembers(log', diverged', tasks'[u])
  <2>1. TaskFits(h, macs, log, tasks[u]) /\ Remembers(log, diverged, tasks[u])
    BY <1>1 DEF HomeInv, SyncInv
  <2>2. Remembers(log', diverged', tasks[u])
    BY <1>3, <1>9, <2>1, RemembersLater
  <2>3. QED
    BY <1>3, <2>2
<1>11. ASSUME NEW d \in Cols \ (diverged' \union excused') PROVE Current(d)' \/ Brought(d)'
  <2>1. CASE d = c
    BY <1>3, <2>1 DEF Brought
  <2>2. CASE d # c
    <3>1. Current(d) \/ Brought(d)
      BY <1>3 DEF SyncInv, OwedInv
    <3>2. log'[d] = log[d]
      BY <1>6, <2>2
    <3>3. QED
      BY <1>3, <3>1, <3>2 DEF Current, Brought
  <2>3. QED
    BY <2>1, <2>2
<1>12. KeyInv'
  BY <1>3 DEF SyncInv, KeyInv
<1>13. QED
  BY <1>10, <1>11, <1>12 DEF SyncInv, OwedInv

LEMMA ServerTakesSync == ASSUME NEW t \in Tasks PROVE Inv /\ Inv' /\ SyncInv /\ ServerTakes(t) => SyncInv'
<1> SUFFICES ASSUME Inv, Inv', SyncInv, ServerTakes(t) PROVE SyncInv'
  OBVIOUS
<1>1. PICK h \in Homes : HomeInv(h)
  BY DEF Inv
<1>2. PICK old, c, p, next, s, s2, takes, taken, task :
        /\ old = tasks[t] /\ c = old.col /\ p = old.patch /\ next = old.next
        /\ s = Truth(c, Len(log[c])) /\ s2 = Mix(s, p) /\ takes = (old.base = Len(log[c]))
        /\ taken = (takes /\ p.commits = SnapshotMac(s2))
        /\ task = [old EXCEPT !.phase = "answered", !.taken = taken]
  OBVIOUS
<1>3. PushFits(h, macs, log, old) /\ old \in Push /\ old.phase = "asked" /\ old.kind = "push"
  BY <1>1, <1>2, TaskKinds DEF ServerTakes, HomeInv, PushFits
<1>4. /\ log' = (IF takes THEN [log EXCEPT ![c] = Logged(c, p)] ELSE log)
      /\ tasks' = [tasks EXCEPT ![t] = task]
      /\ UNCHANGED <<have, stored, notes, todo, diverged, excused>>
  BY <1>2 DEF ServerTakes
<1>5. /\ task.kind = "push" /\ task.phase = "answered" /\ task.col = c /\ task.next = next
      /\ task.base = old.base /\ task.taken = taken
  BY <1>2, <1>3 DEF Push
<1>6. Remembers(log, diverged, old) /\ c \in Cols
  BY <1>2, <1>3 DEF SyncInv, Push
<1>7. Remembers(log', diverged', task)
  BY <1>2, <1>3, <1>5, <1>6 DEF Remembers
<1>8. ~Owes(old, c, Len(log[c])) /\ \A d : ~Owes(old, d, Len(log[d]))
  BY <1>3 DEF Owes, ResyncOwes, PushOwes
<1>9. PICK e : Logged(c, p) = Append(log[c], e)
  BY DEF Logged
<1>10. log \in [Cols -> Seq(Logs)] /\ log' \in [Cols -> Seq(Logs)]
       /\ tasks \in [Tasks -> {Idle} \union Resync \union Push]
  BY DEF Inv, Bounds
<1>11. /\ \A d \in Cols : d # c \/ ~takes => log'[d] = log[d]
       /\ takes => log'[c] = Append(log[c], e)
  BY <1>4, <1>6, <1>9, <1>10
<1>12. ASSUME takes PROVE Len(log'[c]) = Len(log[c]) + 1 /\ Extends(log[c], log'[c])
  <2>1. PICK l, l2 : l = log[c] /\ l2 = log'[c]
    OBVIOUS
  <2>2. l \in Seq(Logs) /\ l2 \in Seq(Logs) /\ l2 = Append(l, e)
    BY <1>6, <1>10, <1>11, <1>12, <2>1
  <2>3. Len(l2) = Len(l) + 1 /\ Extends(l, l2)
    BY <2>2, AppendProperties DEF Extends
  <2>4. QED
    BY <2>1, <2>3
<1>13. Grown(log, log')
  <2>1. ASSUME NEW d \in Cols
        PROVE  log[d] \in Seq(Logs) /\ log'[d] \in Seq(Logs) /\ Extends(log[d], log[d])
    <3>1. log[d] \in Seq(Logs) /\ log'[d] \in Seq(Logs) /\ Len(log[d]) \in Nat
      BY <1>10
    <3>2. QED
      BY <3>1 DEF Extends
  <2>2. QED
    BY <1>11, <1>12, <2>1 DEF Grown
<1>14. ASSUME takes, c \notin diverged PROVE Owes(task, c, Len(log'[c]))
  <2>1. next = Mix(After(log[c], Len(log[c])), p) /\ next.version = Len(log[c]) + 1
    BY <1>2, <1>3, <1>6, <1>14 DEF Remembers
  <2>2. After(log[c], Len(log[c])) = s
    BY <1>2 DEF After, Truth
  <2>3. next = s2
    BY <1>2, <2>1, <2>2
  <2>4. p.commits = SnapshotMac(next)
    BY <1>2, <1>3 DEF PushFits
  <2>5. task.taken
    BY <1>2, <1>5, <1>14, <2>3, <2>4
  <2>6. task.next.version = Len(log'[c])
    BY <1>5, <1>12, <1>14, <2>1
  <2>7. QED
    BY <1>5, <2>5, <2>6 DEF Owes, PushOwes
<1>15. ASSUME NEW d \in Cols \ (diverged' \union excused') PROVE Current(d)' \/ Brought(d)'
  <2>1. CASE d = c /\ takes
    <3>1. Owes(tasks'[t], c, Len(log'[c]))
      BY <1>4, <1>10, <1>14, <2>1
    <3>2. QED
      BY <2>1, <3>1 DEF Brought
  <2>2. CASE ~(d = c /\ takes)
    <3>1. Current(d) \/ Brought(d)
      BY <1>4 DEF SyncInv, OwedInv
    <3>2. log'[d] = log[d]
      BY <1>11, <2>2
    <3>3. CASE Current(d)
      BY <1>4, <3>2, <3>3 DEF Current
    <3>4. CASE Brought(d)
      <4>1. Brought(d)'
        BY <1>2, <1>4, <1>8, <1>10, <3>2, <3>4, StillBrought
      <4>2. QED
        BY <4>1
    <3>5. QED
      BY <3>1, <3>3, <3>4
  <2>3. QED
    BY <2>1, <2>2
<1>16. have > 0
  <2>1. tasks[t] # Idle
    BY <1>2, <1>3 DEF Idle
  <2>2. QED
    BY <2>1 DEF SyncInv, KeyInv, Inv, Bounds
<1>17. OwedInv'
  BY <1>15 DEF OwedInv
<1>18. have' = have /\ diverged \subseteq diverged' /\ (todo' => have > 0)
  BY <1>4, <1>16
<1>19. QED
  BY <1>4, <1>7, <1>13, <1>16, <1>17, <1>18, SyncStep

(* A state is saved: it is current, or no older than the one before, or its  *)
(* collection is excused.                                                    *)
Excuses(c, s) ==
    /\ \A d \in Cols : d # c /\ d \notin excused' => d \notin excused
    /\ c \notin excused' => s.version = Len(log[c]) \/ (s.version >= stored[c].version /\ c \notin excused)
HandsOver(t, task, c, s) ==
    \A d \in Cols : Owes(tasks[t], d, Len(log[d])) =>
        Owes(task, d, Len(log[d])) \/ (d = c /\ s.version = Len(log[c]))
Serves(task) == task = Idle \/ (have > 0 /\ Remembers(log', diverged', task))

LEMMA SaveSync ==
  ASSUME Inv, Inv', SyncInv, UNCHANGED <<log, have, notes, todo>>, diverged \subseteq diverged',
         NEW c \in Cols, NEW s, stored' = [stored EXCEPT ![c] = s], s \in AnyState,
         Excuses(c, s), NEW t \in Tasks, NEW task, tasks' = [tasks EXCEPT ![t] = task], Serves(task),
         HandsOver(t, task, c, s)
  PROVE  SyncInv'
<1>1. /\ log \in [Cols -> Seq(Logs)] /\ tasks \in [Tasks -> {Idle} \union Resync \union Push]
      /\ stored \in [Cols -> AnyState]
  BY DEF Inv, Bounds
<1>2. stored'[c] = s /\ \A d \in Cols : d # c => stored'[d] = stored[d]
  BY <1>1
<1>3. Grown(log, log')
  <2>1. \A d \in Cols : Len(log[d]) \in Nat
    BY <1>1
  <2>2. QED
    BY <1>1, <2>1 DEF Grown, Extends
<1>4. ASSUME NEW d \in Cols \ (diverged' \union excused') PROVE Current(d)' \/ Brought(d)'
  <2>1. CASE d = c /\ s.version = Len(log[c])
    BY <1>2, <2>1 DEF Current
  <2>2. CASE ~(d = c /\ s.version = Len(log[c]))
    <3>1. d \notin excused /\ d \notin diverged /\ (d = c => s.version >= stored[c].version)
      BY <2>2 DEF Excuses
    <3>2. Current(d) \/ Brought(d)
      BY <3>1 DEF SyncInv, OwedInv
    <3>3. CASE Current(d)
      <4>1. CASE d = c
        <5>1. s.version <= Len(log[c])
          BY <1>2, <4>1 DEF Inv, HadInv, Had
        <5>2. s.version \in Nat /\ Len(log[c]) \in Nat
          BY <1>1 DEF AnyState
        <5>3. s.version = Len(log[c])
          BY <3>1, <3>3, <4>1, <5>1, <5>2 DEF Current
        <5>4. QED
          BY <2>2, <4>1, <5>3
      <4>2. CASE d # c
        BY <1>2, <3>3, <4>2 DEF Current
      <4>3. QED
        BY <4>1, <4>2
    <3>4. CASE Brought(d)
      <4>1. /\ log'[d] = log[d] /\ (d \in notes => d \in notes') /\ (todo => todo')
            /\ Owes(tasks[t], d, Len(log[d])) => Owes(task, d, Len(log[d]))
        BY <2>2 DEF HandsOver
      <4>2. Brought(d)'
        BY <1>1, <3>4, <4>1, StillBrought
      <4>3. QED
        BY <4>2
    <3>5. QED
      BY <3>2, <3>3, <3>4
  <2>3. QED
    BY <2>1, <2>2
<1>5. OwedInv'
  BY <1>4 DEF OwedInv
<1>6. todo' => have > 0
  BY DEF SyncInv, KeyInv, Inv, Bounds
<1>7. have' = have /\ (task = Idle \/ (have > 0 /\ Remembers(log', diverged', task)))
  BY DEF Serves
<1>8. QED
  BY <1>3, <1>5, <1>6, <1>7, SyncStep

LEMMA SavePushSync == ASSUME NEW t \in Tasks PROVE Inv /\ Inv' /\ SyncInv /\ SavePush(t) => SyncInv'
<1> SUFFICES ASSUME Inv, Inv', SyncInv, SavePush(t) PROVE SyncInv'
  OBVIOUS
<1>1. PICK h \in Homes : HomeInv(h)
  BY DEF Inv
<1>2. PICK old, c, next : old = tasks[t] /\ c = old.col /\ next = old.next
  OBVIOUS
<1>3. PushFits(h, macs, log, old) /\ old.kind = "push"
  BY <1>1, <1>2, TaskKinds DEF SavePush, HomeInv
<1>4. /\ stored' = [stored EXCEPT ![c] = next] /\ tasks' = [tasks EXCEPT ![t] = Idle]
      /\ UNCHANGED <<log, have, notes, todo>> /\ diverged \subseteq diverged'
      /\ excused' = (IF next.version < stored[c].version THEN excused \union {c} ELSE excused)
  BY <1>2 DEF SavePush, Tells
<1>5. c \in Cols /\ next \in AnyState /\ stored[c] \in AnyState
  BY <1>2, <1>3 DEF PushFits, Push, Inv, Bounds
<1>6. /\ \A d \in Cols : d # c /\ d \notin excused' => d \notin excused
      /\ c \notin excused' => next.version >= stored[c].version /\ c \notin excused
  BY <1>4, <1>5 DEF AnyState
<1>7. HandsOver(t, Idle, c, next)
  BY <1>2, <1>3 DEF HandsOver, Owes, ResyncOwes, PushOwes
<1>8. Excuses(c, next) /\ Serves(Idle)
  BY <1>6 DEF Excuses, Serves
<1>9. UNCHANGED <<log, have, notes, todo>> /\ diverged \subseteq diverged'
  BY <1>4
<1>10. QED
  BY <1>4, <1>5, <1>7, <1>8, <1>9, SaveSync

LEMMA ApplySync == ASSUME NEW t \in Tasks PROVE Inv /\ Inv' /\ SyncInv /\ Apply(t) => SyncInv'
<1> SUFFICES ASSUME Inv, Inv', SyncInv, Apply(t) PROVE SyncInv'
  OBVIOUS
<1>1. PICK h \in Homes : HomeInv(h)
  BY DEF Inv
<1>2. PICK old, c, r, new, left, more :
        /\ old = tasks[t] /\ c = Min(old.left) /\ r = old.reply[c] /\ new = Decoded(c, r)
        /\ left = old.left \ {c} /\ more = (old.more \/ r.more)
  OBVIOUS
<1>3. ResyncFits(h, macs, log, old) /\ old.phase = "answered" /\ old.kind = "resync"
  BY <1>1, <1>2, TaskKinds DEF Apply, HomeInv
<1>4. /\ stored' = [stored EXCEPT ![c] = new]
      /\ tasks' = (IF left = {} THEN AfterLast(t, more)
                   ELSE [tasks EXCEPT ![t].left = left, ![t].more = more])
      /\ excused' = (IF new.version = Len(log[c]) THEN excused \ {c}
                     ELSE IF new.version < stored[c].version THEN excused \union {c}
                     ELSE excused)
      /\ diverged \subseteq diverged' /\ UNCHANGED <<log, have, notes, todo>>
  BY <1>2 DEF Apply, Tells
<1>5. old.left \in SUBSET Cols /\ old.left # {} /\ old.names \in SUBSET Cols /\ old.left \subseteq old.names
  BY <1>3 DEF ResyncFits, Resync
<1>6. c \in old.left /\ c \in Cols /\ c \in old.names
  BY <1>2, <1>5, MinIsIn
<1>7. Answers(h, macs, log[c], r) /\ History(h, macs, log[c]) /\ macs \in Nat
  BY <1>1, <1>2, <1>3, <1>5, <1>6 DEF ResyncFits, HomeInv, Inv, Bounds
<1>8. new \in AnyState /\ stored[c] \in AnyState
  BY <1>2, <1>6, <1>7, DecodedFits DEF Honest, Inv, Bounds
<1>9. Excuses(c, new)
  BY <1>4, <1>8 DEF Excuses, AnyState
<1>10. PICK st : st = stored'
  OBVIOUS
<1>11. Remembers(log, diverged, old)
  BY <1>2 DEF SyncInv
<1>12. have > 0
  <2>1. tasks[t] # Idle
    BY <1>2, <1>3 DEF Idle
  <2>2. QED
    BY <2>1 DEF SyncInv, KeyInv, Inv, Bounds
<1>13. \A d \in Cols : Owes(old, d, Len(log[d])) =>
          /\ d \in old.names
          /\ old.reply[d].more \/ (d \in old.left /\ Decoded(d, old.reply[d]).version = Len(log[d]))
  BY <1>3 DEF Owes, ResyncOwes, PushOwes
<1>14. UNCHANGED <<log, have, notes, todo>> /\ diverged \subseteq diverged'
  BY <1>4
<1>15. CASE left # {}
  <2>1. PICK task : task = [old EXCEPT !.left = left, !.more = more]
    OBVIOUS
  <2>2. tasks' = [tasks EXCEPT ![t] = task]
    BY <1>2, <1>4, <1>15, <2>1
  <2>3. /\ task.kind = "resync" /\ task.phase = "answered" /\ task.names = old.names
        /\ task.left = left /\ task.more = more /\ task.from = old.from /\ task.reply = old.reply
    BY <1>3, <2>1 DEF ResyncFits, Resync
  <2>4. ASSUME NEW d \in old.names \ left, old.reply[d].more PROVE more
    BY <1>2, <1>3, <1>11, <2>4 DEF Remembers
  <2>5. \A d \in old.names \ diverged' : old.from[d].version <= Len(log'[d])
    BY <1>3, <1>11, <1>14 DEF Remembers
  <2>6. Serves(task)
    BY <1>12, <2>3, <2>4, <2>5 DEF Serves, Remembers
  <2>7. HandsOver(t, task, c, new)
    BY <1>2, <1>13, <2>3 DEF HandsOver, Owes, ResyncOwes
  <2>8. QED
    BY <1>4, <1>6, <1>8, <1>9, <1>14, <2>2, <2>6, <2>7, SaveSync
<1>16. CASE left = {} /\ more
  <2>1. PICK task : task = AskingFrom(old.names, st)
    OBVIOUS
  <2>2. tasks' = [tasks EXCEPT ![t] = task]
    <3>1. AfterLast(t, more) = [tasks EXCEPT ![t] =
             [Asking(old.names) EXCEPT !.from = [d \in old.names |-> st[d]]]]
      BY <1>2, <1>10, <1>16 DEF AfterLast
    <3>2. [Asking(old.names) EXCEPT !.from = [d \in old.names |-> st[d]]] = AskingFrom(old.names, st)
      BY AskingAgain
    <3>3. QED
      BY <1>4, <1>16, <2>1, <3>1, <3>2
  <2>3. \A d \in old.names \ diverged' : st[d].version <= Len(log'[d])
    BY <1>5, <1>10 DEF Inv, HadInv, Had
  <2>4. PICK lg, div : lg = log' /\ div = diverged'
    OBVIOUS
  <2>5. Remembers(lg, div, task) /\ \A d \in old.names : Owes(task, d, Len(log[d]))
    BY <1>5, <2>1, <2>3, <2>4, AskingRemembers
  <2>6. Serves(task)
    BY <1>12, <2>4, <2>5 DEF Serves
  <2>7. HandsOver(t, task, c, new)
    BY <1>2, <1>13, <2>5 DEF HandsOver
  <2>8. QED
    BY <1>4, <1>6, <1>8, <1>9, <1>14, <2>2, <2>6, <2>7, SaveSync
<1>17. CASE left = {} /\ ~more
  <2>1. tasks' = [tasks EXCEPT ![t] = Idle]
    BY <1>4, <1>17 DEF AfterLast
  <2>2. Serves(Idle)
    BY DEF Serves
  <2>3. \A d \in old.names : d # c => d \notin old.left /\ ~old.reply[d].more
    BY <1>2, <1>3, <1>11, <1>17 DEF Remembers
  <2>4. HandsOver(t, Idle, c, new)
    BY <1>2, <1>13, <1>17, <2>3 DEF HandsOver
  <2>5. QED
    BY <1>4, <1>6, <1>8, <1>9, <1>14, <2>1, <2>2, <2>4, SaveSync
<1>18. QED
  BY <1>2, <1>15, <1>16, <1>17

LEMMA SyncInductive == Inv /\ Inv' /\ SyncInv /\ [Next]_vars => SyncInv'
<1> SUFFICES ASSUME Inv, Inv', SyncInv, [Next]_vars PROVE SyncInv'
  OBVIOUS
<1>1. CASE UNCHANGED vars
  BY <1>1 DEF vars, SyncInv, KeyInv, OwedInv, Current, Brought
<1>2. ASSUME NEW c \in Cols, NEW op \in {"SET", "REMOVE"}, NEW i \in Idx, NEW key \in 1..MaxKeys,
             OtherPatch(c, op, i, key)
      PROVE  SyncInv'
  BY <1>2, OtherPatchSync
<1>3. ASSUME NEW t \in Tasks, HandleNote(t) \/ ResyncAll(t) PROVE SyncInv'
  BY <1>3, StartsSync
<1>4. ASSUME NEW t \in Tasks, ServerAnswers(t) PROVE SyncInv'
  BY <1>4, AnsweredSync
<1>5. ASSUME NEW t \in Tasks, ResyncFails(t) \/ ApplyThrows(t) \/ PushFails(t) PROVE SyncInv'
  BY <1>5, EndsSync
<1>6. ASSUME NEW t \in Tasks, Apply(t) PROVE SyncInv'
  BY <1>6, ApplySync
<1>7. ASSUME NEW t \in Tasks, ServerTakes(t) PROVE SyncInv'
  BY <1>7, ServerTakesSync
<1>8. ASSUME NEW t \in Tasks, SavePush(t) PROVE SyncInv'
  BY <1>8, SavePushSync
<1>9. ASSUME NEW t \in Tasks, NEW c \in Pushed, NEW i \in Idx, StartPush(t, c, i) PROVE SyncInv'
  BY <1>9, StartPushSync
<1>10. CASE ShareKeys
  BY <1>10, ShareKeysSync
<1>11. CASE Restart
  BY <1>11, RestartSync
<1>12. QED
  BY <1>1, <1>2, <1>3, <1>4, <1>5, <1>6, <1>7, <1>8, <1>9, <1>10, <1>11 DEF Next

LEMMA InitSync == Init => SyncInv
<1> SUFFICES ASSUME Init PROVE SyncInv
  OBVIOUS
<1>1. KeyInv
  BY DEF Init, KeyInv
<1>2. \A t \in Tasks : Remembers(log, diverged, tasks[t])
  BY IdleRemembers DEF Init
<1>3. \A c \in Cols : Current(c)
  <2>1. Len(<< >>) = 0
    OBVIOUS
  <2>2. QED
    BY <2>1 DEF Init, Current, NewState
<1>4. QED
  BY <1>1, <1>2, <1>3 DEF SyncInv, OwedInv

(* Once nothing is asked, told or owed any more, a collection is at the       *)
(* server's version, for any number of concurrent resyncs and pushes,         *)
(* pages, failures and restarts, unless its last resync was cut short or an  *)
(* older state was saved over a newer one (appstate/layer.ts resync with its *)
(* has_more_patches, and the server_sync notifications of client.ts).        *)
THEOREM SyncedWhenQuietHolds == Spec => []SyncedWhenQuiet
<1>1. Init => SyncInv
  BY InitSync
<1>2. Inv /\ Inv' /\ SyncInv /\ [Next]_vars => SyncInv'
  BY SyncInductive
<1>3. SyncInv => SyncedWhenQuiet
  BY IdleOwesNothing DEF SyncInv, OwedInv, Brought, Current, SyncedWhenQuiet, Quiet
<1>4. QED
  BY <1>1, <1>2, <1>3, Invariance, PTL DEF Spec

-----------------------------------------------------------------------------
(* The values of an index along a log: a patch of another index leaves them, *)
(* and every value came with a patch.                                        *)

LEMMA MixMoves ==
  ASSUME NEW s \in AnyState, NEW p, p.op \in Ops, p.idx \in Idx, p.key \in 1..MaxKeys, p.mac \in Macs
  PROVE  /\ \A x \in IndexMacs : x # IndexMac(p) => Mix(s, p).map[x] = s.map[x]
         /\ p.op = "SET" => Mix(s, p).map[IndexMac(p)] = p.mac
         /\ Mix(s, p).map[IndexMac(p)] \in {0, p.mac}
<1>1. IndexMac(p) \in IndexMacs /\ s.map \in [IndexMacs -> 0..MaxMacs]
  BY DEF IndexMac, IndexMacs, AnyState
<1>2. PICK x, new, map2 :
        x = IndexMac(p) /\ new = (IF p.op = "SET" THEN p.mac ELSE 0) /\ map2 = Mix(s, p).map
  OBVIOUS
<1>3. CASE p.op = "REMOVE" /\ s.map[x] = 0
  <2>1. map2 = s.map
    BY <1>2, <1>3 DEF Mix, AnyState
  <2>2. QED
    BY <1>2, <1>3, <2>1
<1>4. CASE ~(p.op = "REMOVE" /\ s.map[x] = 0)
  <2>1. map2 = [s.map EXCEPT ![x] = new]
    BY <1>2, <1>4 DEF Mix
  <2>2. map2[x] = new /\ \A y \in IndexMacs : y # x => map2[y] = s.map[y]
    BY <1>1, <1>2, <2>1
  <2>3. QED
    BY <1>2, <2>2
<1>5. QED
  BY <1>3, <1>4

LEMMA AfterHonest ==
  ASSUME NEW h \in Homes, NEW n \in Nat, NEW l, History(h, n, l), NEW v \in 0..Len(l)
  PROVE  Honest(h, n, After(l, v)) /\ After(l, v).version = v /\ After(l, v) \in AnyState
<1>1. CASE v = 0
  BY <1>1, NewHonest DEF After, NewState
<1>2. CASE v # 0
  <2>1. v \in 1..Len(l)
    BY <1>2 DEF History
  <2>2. After(l, v) = l[v].after
    BY <1>2 DEF After
  <2>3. QED
    BY <2>1, <2>2 DEF History, Honest
<1>3. QED
  BY <1>1, <1>2

Untouched(l, v, w, i) == \A u \in v + 1..w : l[u].idx # i

LEMMA RecordsStay ==
  ASSUME NEW h \in Homes, NEW n \in Nat, NEW l, History(h, n, l), NEW i \in Idx,
         NEW w \in 0..Len(l), NEW v \in 0..w, Untouched(l, v, w, i)
  PROVE  /\ \A k \in 1..MaxKeys : After(l, w).map[<<i, k>>] = After(l, v).map[<<i, k>>]
         /\ Records(After(l, w), i) = Records(After(l, v), i)
<1> DEFINE T == {u \in 0..w : v <= u /\ \E k \in 1..MaxKeys :
                                 After(l, u).map[<<i, k>>] # After(l, v).map[<<i, k>>]}
<1>1. Len(l) \in Nat /\ w \in Nat /\ v \in Nat
  BY DEF History
<1>2. ASSUME T # {} PROVE FALSE
  <2>1. PICK u \in T : \A j \in T : u <= j
    BY <1>1, <1>2, Least
  <2>2. u # v
    BY <2>1
  <2>3. u \in v + 1..w /\ u \in 1..Len(l) /\ u - 1 \in 0..Len(l) /\ u - 1 \in 0..w /\ v <= u - 1
        /\ u - 1 \notin T
    BY <1>1, <2>1, <2>2
  <2>4. PICK s, p, s2 : s = After(l, u - 1) /\ p = l[u] /\ s2 = After(l, u)
    OBVIOUS
  <2>5. s2 = Mix(s, p) /\ Mutates(h, n, p)
    <3>1. u # 0
      BY <2>3
    <3>2. QED
      BY <2>3, <2>4, <3>1 DEF History, After
  <2>6. s \in AnyState
    BY <2>3, <2>4, AfterHonest
  <2>7. p.idx # i
    BY <2>3, <2>4 DEF Untouched
  <2>8. ASSUME NEW k \in 1..MaxKeys PROVE s2.map[<<i, k>>] = s.map[<<i, k>>]
    <3>1. <<i, k>> \in IndexMacs /\ <<i, k>> # IndexMac(p)
      BY <2>7 DEF IndexMacs, IndexMac
    <3>2. QED
      BY <2>5, <2>6, <3>1, MixMoves DEF Mutates
  <2>9. \A k \in 1..MaxKeys : s.map[<<i, k>>] = After(l, v).map[<<i, k>>]
    BY <2>3, <2>4
  <2>10. QED
    BY <2>1, <2>4, <2>8, <2>9
<1>3. \A k \in 1..MaxKeys : After(l, w).map[<<i, k>>] = After(l, v).map[<<i, k>>]
  BY <1>1, <1>2
<1>4. QED
  BY <1>3 DEF Records

(* The last patch of an index that sets it is among its values.              *)
LastSet(l, ver, i, v) ==
    /\ v \in 1..ver /\ l[v].idx = i /\ l[v].op = "SET"
    /\ Untouched(l, v, ver, i)

LEMMA SetShows ==
  ASSUME NEW h \in Homes, NEW n \in Nat, NEW l, History(h, n, l), NEW i \in Idx,
         NEW ver \in 0..Len(l), NEW v, LastSet(l, ver, i, v)
  PROVE  l[v].mac \in Records(After(l, ver), i)
<1>1. Len(l) \in Nat /\ ver \in Nat /\ v \in 1..ver /\ v \in 1..Len(l) /\ v \in 0..ver
      /\ v - 1 \in 0..Len(l) /\ v # 0
  BY DEF History, LastSet
<1>2. PICK p, s, k, m : p = l[v] /\ s = After(l, v - 1) /\ k = p.key /\ m = p.mac
  OBVIOUS
<1>3. After(l, v) = Mix(s, p) /\ Mutates(h, n, p) /\ s \in AnyState /\ p.op = "SET" /\ p.idx = i
  BY <1>1, <1>2, AfterHonest DEF History, After, LastSet
<1>4. k \in 1..MaxKeys /\ m \in Macs /\ m # 0
  BY <1>2, <1>3 DEF Mutates, Macs
<1>5. After(l, v).map[<<i, k>>] = m
  BY <1>2, <1>3, MixMoves DEF Mutates, IndexMac
<1>6. After(l, ver).map[<<i, k>>] = m
  BY <1>1, <1>4, <1>5, RecordsStay DEF LastSet
<1>7. QED
  BY <1>2, <1>4, <1>6 DEF Records

LEMMA CameWithPatch ==
  ASSUME NEW h \in Homes, NEW n \in Nat, NEW l, History(h, n, l), NEW v \in 0..Len(l),
         NEW x \in IndexMacs, After(l, v).map[x] # 0
  PROVE  \E w \in 1..v : l[w].mac = After(l, v).map[x]
<1> DEFINE T == {u \in 0..Len(l) : After(l, u).map[x] # 0 /\
                                   ~ \E w \in 1..u : l[w].mac = After(l, u).map[x]}
<1>1. Len(l) \in Nat
  BY DEF History
<1>2. ASSUME T # {} PROVE FALSE
  <2>1. PICK u \in T : \A j \in T : u <= j
    BY <1>1, <1>2, Least
  <2>2. u # 0
    BY <2>1 DEF After, NewState
  <2>3. u \in 1..Len(l) /\ u - 1 \in 0..Len(l) /\ u - 1 \notin T
    BY <1>1, <2>1, <2>2
  <2>4. PICK s, p, s2 : s = After(l, u - 1) /\ p = l[u] /\ s2 = After(l, u)
    OBVIOUS
  <2>5. s2 = Mix(s, p) /\ Mutates(h, n, p)
    BY <2>2, <2>3, <2>4 DEF History, After
  <2>6. s \in AnyState
    BY <2>3, <2>4, AfterHonest
  <2>7. s2.map[x] = s.map[x] \/ s2.map[x] \in {0, p.mac}
    BY <2>5, <2>6, MixMoves DEF Mutates
  <2>8. s2.map[x] # 0 /\ s2.map[x] # p.mac
    BY <2>1, <2>3, <2>4
  <2>9. PICK w \in 1..u - 1 : l[w].mac = s.map[x]
    BY <2>3, <2>4, <2>7, <2>8
  <2>10. w \in 1..u
    BY <2>3
  <2>11. QED
    BY <2>1, <2>4, <2>7, <2>8, <2>9, <2>10
<1>3. QED
  BY <1>2

LEMMA RecordsFinite ==
  ASSUME NEW s \in AnyState, NEW i \in Idx
  PROVE  /\ Records(s, i) \subseteq 1..MaxMacs /\ IsFiniteSet(Records(s, i))
         /\ Cardinality(Records(s, i)) = 1 => \E x : Records(s, i) = {x}
<1>1. \A k \in 1..MaxKeys : s.map[<<i, k>>] \in 0..MaxMacs
  BY DEF AnyState, IndexMacs
<1>2. Records(s, i) \subseteq 1..MaxMacs
  <2> SUFFICES ASSUME NEW x \in Records(s, i) PROVE x \in 1..MaxMacs
    OBVIOUS
  <2>1. x # 0 /\ \E k \in 1..MaxKeys : x = s.map[<<i, k>>]
    BY Zenon DEF Records
  <2>2. PICK k \in 1..MaxKeys : x = s.map[<<i, k>>]
    BY <2>1
  <2>3. x \in 0..MaxMacs
    BY <1>1, <2>2
  <2>4. QED
    BY <2>1, <2>3, AppStateAssumption
<1>3. IsFiniteSet(1..MaxMacs)
  BY FS_Interval, AppStateAssumption
<1>4. IsFiniteSet(Records(s, i))
  BY <1>2, <1>3, FS_Subset
<1>5. QED
  BY <1>2, <1>4, FS_Singleton


-----------------------------------------------------------------------------
(* The events of a page: the last patch of an index shows, an index without   *)
(* one is left as it was.                                                    *)

IsView(vw) == vw = [i \in Idx |-> vw[i]]
Replay(v0, ps, n, f) ==
    /\ f = [k \in 0..n |-> f[k]] /\ f[0] = v0
    /\ \A k \in 1..n : f[k] = [f[k - 1] EXCEPT ![ps[k].idx] = ps[k].mac]
Shown(v0, ps, k, vw) ==
    /\ IsView(vw)
    /\ \A i \in Idx :
          /\ (\A u \in 1..k : ps[u].idx # i) => vw[i] = v0[i]
          /\ \A j \in 1..k : ps[j].idx = i /\ (\A u \in j + 1..k : ps[u].idx # i) => vw[i] = ps[j].mac

LEMMA ReplayExists ==
  ASSUME NEW v0, NEW ps, NEW n \in Nat
  PROVE  \E f : Replay(v0, ps, n, f)
<1> DEFINE T == {k \in 0..n : ~ \E f : Replay(v0, ps, k, f)}
<1>1. ASSUME T # {} PROVE FALSE
  <2>1. PICK k \in T : \A j \in T : k <= j
    BY <1>1, Least
  <2>2. CASE k = 0
    <3>1. Replay(v0, ps, 0, [i \in 0..0 |-> v0])
      BY DEF Replay
    <3>2. QED
      BY <2>1, <2>2, <3>1
  <2>3. CASE k # 0
    <3>1. k \in 1..n /\ k - 1 \in 0..n /\ k - 1 \notin T
      BY <2>1, <2>3
    <3>2. PICK f : Replay(v0, ps, k - 1, f)
      BY <3>1
    <3>3. PICK last : last = [f[k - 1] EXCEPT ![ps[k].idx] = ps[k].mac]
      OBVIOUS
    <3>4. PICK g : g = [i \in 0..k |-> IF i = k THEN last ELSE f[i]]
      OBVIOUS
    <3>5. g = [i \in 0..k |-> g[i]] /\ g[0] = v0 /\ g[k] = last /\ \A i \in 0..k - 1 : g[i] = f[i]
      BY <3>1, <3>2, <3>4 DEF Replay
    <3>6. ASSUME NEW i \in 1..k PROVE g[i] = [g[i - 1] EXCEPT ![ps[i].idx] = ps[i].mac]
      <4>1. i - 1 \in 0..k - 1 /\ (i # k => i \in 1..k - 1 /\ i \in 0..k - 1)
        BY <3>1
      <4>2. g[i - 1] = f[i - 1]
        BY <3>5, <4>1
      <4>3. CASE i = k
        BY <3>3, <3>5, <4>2, <4>3
      <4>4. CASE i # k
        <5>1. f[i] = [f[i - 1] EXCEPT ![ps[i].idx] = ps[i].mac]
          BY <3>2, <4>1, <4>4 DEF Replay
        <5>2. QED
          BY <3>5, <4>1, <4>2, <4>4, <5>1
      <4>5. QED
        BY <4>3, <4>4
    <3>7. Replay(v0, ps, k, g)
      BY <3>5, <3>6 DEF Replay
    <3>8. QED
      BY <2>1, <3>7
  <2>4. QED
    BY <2>2, <2>3
<1>2. QED
  BY <1>1

LEMMA ReplayShows ==
  ASSUME NEW v0, IsView(v0), NEW ps \in Seq(Logs), NEW f, Replay(v0, ps, Len(ps), f)
  PROVE  Shown(v0, ps, Len(ps), f[Len(ps)])
<1> DEFINE T == {k \in 0..Len(ps) : ~Shown(v0, ps, k, f[k])}
<1>1. Len(ps) \in Nat
  OBVIOUS
<1>2. ASSUME T # {} PROVE FALSE
  <2>1. PICK k \in T : \A j \in T : k <= j
    BY <1>1, <1>2, Least
  <2>2. Shown(v0, ps, 0, f[0])
    BY DEF Shown, Replay
  <2>3. k \in 1..Len(ps) /\ k - 1 \in 0..Len(ps) /\ k - 1 \notin T
    BY <1>1, <2>1, <2>2
  <2>4. PICK a, b, x, m : a = f[k - 1] /\ b = f[k] /\ x = ps[k].idx /\ m = ps[k].mac
    OBVIOUS
  <2>5. b = [a EXCEPT ![x] = m] /\ Shown(v0, ps, k - 1, a)
    <3>1. b = [a EXCEPT ![x] = m]
      BY <2>3, <2>4 DEF Replay
    <3>2. QED
      BY <2>3, <2>4, <3>1
  <2>6. x \in Idx
    <3>1. ps[k] \in Logs
      BY <2>3
    <3>2. QED
      BY <2>4, <3>1 DEF Logs
  <2>7. IsView(a)
    BY <2>5 DEF Shown
  <2>8. IsView(b) /\ b[x] = m /\ \A i \in Idx : i # x => b[i] = a[i]
    BY <2>5, <2>6, <2>7 DEF IsView
  <2>9. ASSUME NEW i \in Idx, \A u \in 1..k : ps[u].idx # i PROVE b[i] = v0[i]
    <3>1. i # x /\ \A u \in 1..k - 1 : ps[u].idx # i
      BY <2>3, <2>4, <2>9
    <3>2. QED
      BY <2>5, <2>8, <3>1 DEF Shown
  <2>10. ASSUME NEW i \in Idx, NEW j \in 1..k, ps[j].idx = i, \A u \in j + 1..k : ps[u].idx # i
         PROVE  b[i] = ps[j].mac
    <3>1. CASE j = k
      BY <2>4, <2>8, <2>10, <3>1
    <3>2. CASE j # k
      <4>1. j \in 1..k - 1 /\ i # x /\ \A u \in j + 1..k - 1 : ps[u].idx # i
        BY <2>3, <2>4, <2>10, <3>2
      <4>2. QED
        BY <2>5, <2>8, <2>10, <4>1 DEF Shown
    <3>3. QED
      BY <3>1, <3>2
  <2>11. Shown(v0, ps, k, b)
    BY <2>8, <2>9, <2>10 DEF Shown
  <2>12. QED
    BY <2>1, <2>4, <2>11
<1>3. QED
  BY <1>1, <1>2

LEMMA MaxOfOne ==
  ASSUME NEW m \in Int
  PROVE  Max({m}) = m
  BY DEF Max

(* What the patches of an answer start from: the view, or that of a snapshot.*)
ShownFirst(vw, start, from, sh) ==
    /\ start = from => sh = vw
    /\ start # from => \A i \in Idx : \A m \in Macs : Records(start, i) = {m} => sh[i] = m

LEMMA EmittedShows ==
  ASSUME NEW vw, IsView(vw), NEW start, NEW from, NEW ps \in Seq(Logs)
  PROVE  \E sh : /\ ShownFirst(vw, start, from, sh)
                 /\ Shown(sh, ps, Len(ps), Emitted(vw, start, from, ps))
<1> DEFINE Seen == IF start = from THEN vw
                   ELSE [i \in Idx |-> Max(Records(start, i) \union
                                           (IF Records(start, i) = {} THEN {vw[i]} ELSE {}))]
<1>1. PICK n, sh : n = Len(ps) /\ sh = Seen
  OBVIOUS
<1> DEFINE At(g, k) == IF k = 0 THEN sh ELSE [g[k - 1] EXCEPT ![ps[k].idx] = ps[k].mac]
           Eq(g) == g = [k \in 0..n |-> At(g, k)]
<1>2. n \in Nat
  BY <1>1
<1>3. PICK f : Replay(sh, ps, n, f)
  BY <1>2, ReplayExists
<1>4. Eq(f)
  <2>1. \A k \in 0..n : f[k] = At(f, k)
    <3>1. ASSUME NEW k \in 0..n, k # 0 PROVE f[k] = At(f, k)
      <4>1. k \in 1..n
        BY <1>2, <3>1
      <4>2. QED
        BY <1>3, <3>1, <4>1 DEF Replay
    <3>2. f[0] = At(f, 0)
      BY <1>3 DEF Replay
    <3>3. QED
      BY <3>1, <3>2
  <2>2. f = [k \in 0..n |-> f[k]]
    BY <1>3 DEF Replay
  <2> HIDE DEF At
  <2>3. QED
    BY <2>1, <2>2
<1>5. PICK g : g = CHOOSE e : Eq(e)
  OBVIOUS
<1>6. Eq(g)
  BY <1>4, <1>5
<1>7. Replay(sh, ps, n, g)
  <2>1. \A k \in 0..n : g[k] = At(g, k)
    <3> HIDE DEF At
    <3>1. QED
      BY <1>6
  <2>2. g = [k \in 0..n |-> g[k]]
    <3> HIDE DEF At
    <3>1. QED
      BY <1>6, <2>1
  <2>3. g[0] = sh
    <3>1. 0 \in 0..n
      BY <1>2
    <3>2. g[0] = At(g, 0)
      BY <2>1, <3>1, Zenon
    <3>3. At(g, 0) = sh
      OBVIOUS
    <3>4. QED
      BY <3>2, <3>3, Zenon
  <2>4. ASSUME NEW k \in 1..n PROVE g[k] = [g[k - 1] EXCEPT ![ps[k].idx] = ps[k].mac]
    <3>1. k \in 0..n /\ k # 0
      BY <1>2
    <3>2. g[k] = At(g, k)
      BY <2>1, <3>1
    <3>3. QED
      BY <3>1, <3>2
  <2>5. QED
    BY <2>2, <2>3, <2>4 DEF Replay
<1>8. Emitted(vw, start, from, ps) = g[n]
  BY <1>1, <1>5 DEF Emitted
<1>9. IsView(sh)
  BY <1>1 DEF IsView
<1>10. Shown(sh, ps, n, g[n])
  BY <1>1, <1>7, <1>9, ReplayShows
<1>11. ASSUME start # from, NEW i \in Idx, NEW m \in Macs, Records(start, i) = {m} PROVE sh[i] = m
  <2>1. sh[i] = Max({m} \union {})
    BY <1>1, <1>11
  <2>2. {m} \union {} = {m} /\ m \in Int
    BY DEF Macs
  <2>3. QED
    BY <2>1, <2>2, MaxOfOne
<1>12. ShownFirst(vw, start, from, sh)
  BY <1>1, <1>11 DEF ShownFirst
<1>13. QED
  BY <1>1, <1>8, <1>10, <1>12

(* A view shows a version of a log: of an index with one record, which was   *)
(* set last and is not touched by what follows, it has that record.  (Of the *)
(* others a snapshot whose patches did not decode may have shown more.)      *)
Shows(l, ver, vw) ==
    \A i \in Idx : \A v \in 1..ver :
        LastSet(l, ver, i, v) /\ Untouched(l, ver, Len(l), i) /\ Records(After(l, ver), i) = {l[v].mac} => vw[i] = l[v].mac

LEMMA ShowsLater ==
  ASSUME NEW l \in Seq(Logs), NEW l2 \in Seq(Logs), Extends(l, l2), NEW ver \in 0..Len(l), NEW vw,
         Shows(l, ver, vw)
  PROVE  Shows(l2, ver, vw)
<1>1. Len(l) \in Nat /\ Len(l2) \in Nat /\ \A v \in 1..ver : l2[v] = l[v]
  BY DEF Extends
<1>2. After(l2, ver) = After(l, ver)
  BY <1>1 DEF After
<1>3. ASSUME NEW i \in Idx, NEW v \in 1..ver, LastSet(l2, ver, i, v) PROVE LastSet(l, ver, i, v)
  BY <1>1, <1>3 DEF LastSet, Untouched
<1>4. ASSUME NEW i \in Idx, Untouched(l2, ver, Len(l2), i) PROVE Untouched(l, ver, Len(l), i)
  <2>1. \A u \in ver + 1..Len(l) : u \in ver + 1..Len(l2) /\ l2[u] = l[u]
    BY <1>1 DEF Extends
  <2>2. QED
    BY <1>4, <2>1 DEF Untouched
<1>5. QED
  BY <1>1, <1>2, <1>3, <1>4 DEF Shows

LEMMA UntouchedOn ==
  ASSUME NEW l, NEW a \in Nat, NEW b \in Nat, NEW d \in Nat, a <= b, b <= d, NEW i
  PROVE  Untouched(l, a, b, i) /\ Untouched(l, b, d, i) <=> Untouched(l, a, d, i)
<1>1. \A u \in a + 1..d : u \in a + 1..b \/ u \in b + 1..d
  OBVIOUS
<1>2. (\A u \in a + 1..b : u \in a + 1..d) /\ \A u \in b + 1..d : u \in a + 1..d
  OBVIOUS
<1>3. QED
  BY <1>1, <1>2 DEF Untouched

(* A snapshot alone, of a version that is not older, keeps it.               *)
LEMMA SnapshotShows ==
  ASSUME NEW h \in Homes, NEW n \in Nat, NEW l, History(h, n, l), NEW start \in AnyState,
         Had(l, start), NEW from, start # from, NEW ver \in 0..Len(l), ver <= start.version,
         NEW vw, IsView(vw), Shows(l, ver, vw)
  PROVE  /\ IsView(Emitted(vw, start, from, << >>))
         /\ Shows(l, ver, Emitted(vw, start, from, << >>))
<1>1. PICK sv, ps, e : sv = start.version /\ ps = << >> /\ e = Emitted(vw, start, from, ps)
  OBVIOUS
<1>2. Len(l) \in Nat /\ ver \in Nat /\ sv \in 0..Len(l) /\ ver \in 0..sv /\ start = After(l, sv)
  BY <1>1 DEF History, Had, AnyState
<1>3. ps \in Seq(Logs) /\ Len(ps) = 0
  BY <1>1
<1>4. PICK sh : ShownFirst(vw, start, from, sh) /\ Shown(sh, ps, Len(ps), e)
  BY <1>1, <1>3, EmittedShows
<1>5. IsView(e) /\ \A i \in Idx : e[i] = sh[i]
  BY <1>3, <1>4 DEF Shown
<1>6. ASSUME NEW i \in Idx, NEW v \in 1..ver, LastSet(l, ver, i, v), Untouched(l, ver, Len(l), i),
             Records(After(l, ver), i) = {l[v].mac}
      PROVE  e[i] = l[v].mac
  <2>1. v \in 1..Len(l) /\ l[v].mac \in Macs
    BY <1>2 DEF History, Mutates
  <2>2. Untouched(l, ver, sv, i)
    BY <1>2, <1>6, UntouchedOn
  <2>3. /\ \A k \in 1..MaxKeys : After(l, sv).map[<<i, k>>] = After(l, ver).map[<<i, k>>]
        /\ Records(After(l, sv), i) = Records(After(l, ver), i)
    BY <1>2, <2>2, RecordsStay
  <2>4. Records(start, i) = {l[v].mac}
    BY <1>2, <1>6, <2>3
  <2>5. sh[i] = l[v].mac
    BY <1>4, <2>1, <2>4 DEF ShownFirst
  <2>6. QED
    BY <1>5, <2>5
<1>7. QED
  BY <1>1, <1>5, <1>6 DEF Shows

(* A page keeps it, unless its state is older than the one it replaces.      *)
LEMMA PageShows ==
  ASSUME NEW h \in Homes, NEW n \in Nat, NEW l, History(h, n, l), NEW c, NEW r, Answers(h, n, l, r),
         Had(l, r.start), NEW from \in AnyState, NEW ver \in 0..Len(l), NEW vw, IsView(vw),
         Shows(l, ver, vw), from.version <= ver, ver <= Decoded(c, r).version
  PROVE  /\ IsView(Emitted(vw, r.start, from, r.patches))
         /\ Shows(l, Decoded(c, r).version, Emitted(vw, r.start, from, r.patches))
<1>1. PICK s, ps, new, nv, sv, e :
        /\ s = r.start /\ ps = r.patches /\ new = Decoded(c, r) /\ nv = new.version
        /\ sv = s.version /\ e = Emitted(vw, s, from, ps)
  OBVIOUS
<1>2. /\ s \in AnyState /\ ps \in Seq(Logs) /\ Follows(l, s, ps) /\ r \in Reply /\ Len(l) \in Nat
      /\ ver \in Nat /\ sv \in Nat /\ from.version \in Nat
  BY <1>1 DEF Answers, Reply, AnyState, History
<1>3. Had(l, new) /\ nv = sv + Len(ps)
  BY <1>1, <1>2, DecodedFits, DecodedVersion
<1>4. Len(ps) \in Nat /\ nv \in 0..Len(l) /\ sv \in 0..nv /\ ver \in 0..nv /\ s = After(l, sv)
  <2>1. Len(ps) \in Nat
    BY <1>2
  <2>2. QED
    BY <1>1, <1>2, <1>3, <2>1 DEF Had
<1>5. \A u \in 1..Len(ps) : ps[u] = l[sv + u]
  BY <1>1, <1>2 DEF Follows
<1>6. PICK sh : ShownFirst(vw, s, from, sh) /\ Shown(sh, ps, Len(ps), e)
  BY <1>1, <1>2, EmittedShows
<1>7. ASSUME NEW i \in Idx, NEW v \in 1..nv, LastSet(l, nv, i, v), Untouched(l, nv, Len(l), i),
             Records(After(l, nv), i) = {l[v].mac}
      PROVE  e[i] = l[v].mac
  <2>1. v \in 1..Len(l) /\ l[v].mac \in Macs
    BY <1>2, <1>4 DEF History, Mutates
  <2>2. l[v].idx = i /\ \A u \in v + 1..nv : l[u].idx # i
    BY <1>7 DEF LastSet, Untouched
  <2>3. CASE v > sv
    <3>1. PICK j : j = v - sv
      OBVIOUS
    <3>2. j \in 1..Len(ps) /\ v = sv + j
      BY <1>2, <1>3, <1>4, <2>3, <3>1
    <3>3. ASSUME NEW u \in j + 1..Len(ps) PROVE ps[u].idx # i
      <4>1. u \in 1..Len(ps) /\ sv + u \in v + 1..nv
        BY <1>2, <1>3, <1>4, <3>2
      <4>2. QED
        BY <1>5, <2>2, <4>1
    <3>4. ps[j] = l[v]
      BY <1>5, <3>2
    <3>5. QED
      BY <1>6, <2>2, <3>2, <3>3, <3>4 DEF Shown
  <2>4. CASE v <= sv
    <3>1. ASSUME NEW u \in 1..Len(ps) PROVE ps[u].idx # i
      <4>1. sv + u \in v + 1..nv
        BY <1>2, <1>3, <1>4, <2>4
      <4>2. QED
        BY <1>5, <2>2, <4>1
    <3>2. e[i] = sh[i]
      BY <1>6, <3>1 DEF Shown
    <3>3. CASE s = from
      <4>1. v \in 1..ver /\ Untouched(l, ver, nv, i) /\ LastSet(l, ver, i, v)
        <5>1. v \in 1..ver /\ \A u \in ver + 1..nv : u \in v + 1..nv
          BY <1>1, <1>2, <1>4, <2>4, <3>3
        <5>2. \A u \in v + 1..ver : u \in v + 1..nv
          BY <1>2, <1>4
        <5>3. QED
          BY <1>7, <2>2, <5>1, <5>2 DEF LastSet, Untouched
      <4>2. Records(After(l, ver), i) = Records(After(l, nv), i)
        <5>1. nv \in 0..Len(l) /\ ver \in 0..nv /\ Untouched(l, ver, nv, i)
          BY <1>4, <4>1
        <5>2. /\ \A k \in 1..MaxKeys : After(l, nv).map[<<i, k>>] = After(l, ver).map[<<i, k>>]
              /\ Records(After(l, nv), i) = Records(After(l, ver), i)
          BY <5>1, RecordsStay
        <5>3. QED
          BY <5>2
      <4>3. vw[i] = l[v].mac
        <5>1. Untouched(l, ver, Len(l), i)
          <6>1. nv \in Nat /\ ver <= nv /\ nv <= Len(l)
            BY <1>2, <1>4
          <6>2. QED
            BY <1>2, <1>7, <4>1, <6>1, UntouchedOn
        <5>2. QED
          BY <1>7, <4>1, <4>2, <5>1 DEF Shows
      <4>4. QED
        BY <1>6, <3>2, <3>3, <4>3 DEF ShownFirst
    <3>4. CASE s # from
      <4>1. Untouched(l, sv, nv, i)
        <5>1. \A u \in sv + 1..nv : u \in v + 1..nv
          BY <1>2, <1>4, <2>4
        <5>2. QED
          BY <2>2, <5>1 DEF Untouched
      <4>2. Records(s, i) = Records(After(l, nv), i)
        <5>1. nv \in 0..Len(l) /\ sv \in 0..nv
          BY <1>4
        <5>2. /\ \A k \in 1..MaxKeys : After(l, nv).map[<<i, k>>] = After(l, sv).map[<<i, k>>]
              /\ Records(After(l, nv), i) = Records(After(l, sv), i)
          BY <4>1, <5>1, RecordsStay
        <5>3. QED
          BY <1>4, <5>2
      <4>3. QED
        BY <1>6, <1>7, <2>1, <3>2, <3>4, <4>2 DEF ShownFirst
    <3>5. QED
      BY <3>3, <3>4
  <2>5. QED
    BY <1>2, <1>4, <2>3, <2>4
<1>8. IsView(e)
  BY <1>6 DEF Shown
<1>9. QED
  BY <1>1, <1>7, <1>8 DEF Shows

(* No patch of a log has the MAC of a push but the one it made.              *)
Fresh(l, p, base) == \A v \in 1..Len(l) : l[v].mac = p.mac => v = base + 1 /\ l[v].idx = p.idx

LEMMA PushShows ==
  ASSUME NEW h \in Homes, NEW n \in Nat, NEW l, History(h, n, l), NEW p, Mutates(h, n, p),
         NEW base \in Nat, Fresh(l, p, base), NEW next \in AnyState, Had(l, next),
         next.version = base + 1, next.map[IndexMac(p)] = p.mac,
         NEW ver \in 0..Len(l), NEW vw, IsView(vw), Shows(l, ver, vw), base <= ver, ver <= base + 1
  PROVE  /\ IsView([vw EXCEPT ![p.idx] = p.mac])
         /\ Shows(l, next.version, [vw EXCEPT ![p.idx] = p.mac])
<1>1. PICK e, x, nv : e = [vw EXCEPT ![p.idx] = p.mac] /\ x = IndexMac(p) /\ nv = base + 1
  OBVIOUS
<1>2. Len(l) \in Nat /\ ver \in Nat /\ nv \in 1..Len(l) /\ nv \in 0..Len(l) /\ ver \in 0..nv /\ base = nv - 1
  BY <1>1 DEF History, Had
<1>3. next = After(l, nv) /\ x \in IndexMacs /\ p.idx \in Idx /\ p.mac \in Macs /\ p.mac # 0
  BY <1>1 DEF Had, Mutates, IndexMac, IndexMacs, Macs
<1>4. After(l, nv).map[x] = p.mac
  BY <1>1, <1>3
<1>5. PICK w \in 1..nv : l[w].mac = p.mac
  <2>1. After(l, nv).map[x] # 0
    BY <1>3, <1>4
  <2>2. \E w \in 1..nv : l[w].mac = After(l, nv).map[x]
    BY <1>2, <1>3, <2>1, CameWithPatch
  <2>3. QED
    BY <1>4, <2>2
<1>6. l[nv].mac = p.mac /\ l[nv].idx = p.idx
  <2>1. w \in 1..Len(l)
    BY <1>2
  <2>2. w = nv /\ l[w].idx = p.idx
    BY <1>1, <1>5, <2>1 DEF Fresh
  <2>3. QED
    BY <1>5, <2>2
<1>7. IsView(e) /\ e[p.idx] = p.mac /\ \A i \in Idx : i # p.idx => e[i] = vw[i]
  BY <1>1, <1>3 DEF IsView
<1>8. ASSUME NEW i \in Idx, NEW v \in 1..nv, LastSet(l, nv, i, v), Untouched(l, nv, Len(l), i),
             Records(After(l, nv), i) = {l[v].mac}
      PROVE  e[i] = l[v].mac
  <2>1. l[v].idx = i /\ \A u \in v + 1..nv : l[u].idx # i
    BY <1>8 DEF LastSet, Untouched
  <2>2. CASE v = nv
    BY <1>6, <1>7, <2>1, <2>2
  <2>3. CASE v # nv
    <3>1. nv \in v + 1..nv /\ v \in 1..ver
      BY <1>2, <2>3
    <3>2. i # p.idx
      BY <1>6, <2>1, <3>1
    <3>3. Untouched(l, ver, nv, i) /\ LastSet(l, ver, i, v)
      <4>1. (\A u \in ver + 1..nv : u \in v + 1..nv) /\ \A u \in v + 1..ver : u \in v + 1..nv
        BY <1>2, <3>1
      <4>2. QED
        BY <1>8, <2>1, <3>1, <4>1 DEF LastSet, Untouched
    <3>4. Records(After(l, ver), i) = Records(After(l, nv), i)
      <4>1. nv \in 0..Len(l) /\ ver \in 0..nv
        BY <1>2
      <4>2. /\ \A k \in 1..MaxKeys : After(l, nv).map[<<i, k>>] = After(l, ver).map[<<i, k>>]
            /\ Records(After(l, nv), i) = Records(After(l, ver), i)
        BY <3>3, <4>1, RecordsStay
      <4>3. QED
        BY <4>2
    <3>5. vw[i] = l[v].mac
      <4>1. Untouched(l, ver, Len(l), i)
        <5>1. nv \in Nat /\ ver <= nv /\ nv <= Len(l) /\ Len(l) \in Nat
          BY <1>2
        <5>2. QED
          BY <1>2, <1>8, <3>3, <5>1, UntouchedOn
      <4>2. QED
        BY <1>8, <3>1, <3>3, <3>4, <4>1 DEF Shows
    <3>6. QED
      BY <1>7, <3>2, <3>5
  <2>4. QED
    BY <2>2, <2>3
<1>9. QED
  BY <1>1, <1>7, <1>8 DEF Shows

-----------------------------------------------------------------------------
(* What the listener holds.  The calls in progress started from states that   *)
(* the log had and that no newer one was saved over; each push has a MAC of   *)
(* its own.                                                                  *)

ResyncBegan(lg, st, div, over, task) ==
    /\ \A c \in task.names \ div :
          /\ Had(lg[c], task.from[c])
          /\ task.phase = "answered" => Had(lg[c], task.reply[c].start)
    /\ \A c \in task.names \ over : task.from[c].version <= st[c].version
PushBegan(lg, st, over, task) ==
    /\ task.next.map[IndexMac(task.patch)] = task.patch.mac
    /\ Fresh(lg[task.col], task.patch, task.base)
    /\ task.col \notin over => task.base <= st[task.col].version
Began(lg, st, div, over, task) ==
    /\ task.kind = "resync" => ResyncBegan(lg, st, div, over, task)
    /\ task.kind = "push" => PushBegan(lg, st, over, task)

IsViews(vws) == vws = [c \in Cols |-> vws[c]] /\ \A c \in Cols : IsView(vws[c])
Apart(ts) ==
    \A t, u \in Tasks : t # u /\ ts[t].kind = "push" /\ ts[u].kind = "push" => ts[t].patch.mac # ts[u].patch.mac
ShowsInv == \A c \in Cols \ (diverged \union overlapped) : Shows(log[c], stored[c].version, view[c])

ViewInv ==
    /\ IsViews(view) /\ Apart(tasks) /\ ShowsInv
    /\ \A t \in Tasks : Began(log, stored, diverged, overlapped, tasks[t])

(* No version goes back where it is not noted, and no other patch has the     *)
(* MAC of a call.                                                            *)
Forward(st, st2, over2) ==
    \A c \in Cols : /\ st[c].version \in Nat /\ st2[c].version \in Nat
                    /\ c \notin over2 => st[c].version <= st2[c].version
NotOf(lg, lg2, task) ==
    task.kind = "push" => \A v \in 1..Len(lg2[task.col]) :
        v > Len(lg[task.col]) => lg2[task.col][v].mac # task.patch.mac

LEMMA IdleBegan ==
  ASSUME NEW lg, NEW st, NEW div, NEW over
  PROVE  Began(lg, st, div, over, Idle)
  BY DEF Began, Idle

LEMMA BeganLater ==
  ASSUME NEW h, NEW n, NEW lg, NEW lg2, Grown(lg, lg2), NEW div, NEW div2, div \subseteq div2,
         NEW st, NEW st2, NEW over, NEW over2, over \subseteq over2, Forward(st, st2, over2),
         NEW task, TaskFits(h, n, lg, task), NotOf(lg, lg2, task), Began(lg, st, div, over, task)
  PROVE  Began(lg2, st2, div2, over2, task)
<1>1. CASE task = Idle
  BY <1>1, IdleBegan
<1>2. CASE ResyncFits(h, n, lg, task)
  <2>1. /\ task.kind = "resync" /\ task.names \subseteq Cols
        /\ \A c \in task.names : task.from[c] \in AnyState
        /\ task.phase = "answered" => \A c \in task.names : task.reply[c].start \in AnyState
    BY <1>2 DEF ResyncFits, Resync, Reply
  <2>2. ResyncBegan(lg, st, div, over, task)
    BY <2>1 DEF Began
  <2>3. ASSUME NEW c \in task.names \ div2
        PROVE  /\ Had(lg2[c], task.from[c])
               /\ task.phase = "answered" => Had(lg2[c], task.reply[c].start)
    <3>1. Had(lg[c], task.from[c]) /\ (task.phase = "answered" => Had(lg[c], task.reply[c].start))
      BY <2>2 DEF ResyncBegan
    <3>2. lg[c] \in Seq(Logs) /\ lg2[c] \in Seq(Logs) /\ Extends(lg[c], lg2[c])
      BY <2>1 DEF Grown
    <3>3. QED
      BY <2>1, <3>1, <3>2, HadLater
  <2>4. ASSUME NEW c \in task.names \ over2 PROVE task.from[c].version <= st2[c].version
    <3>1. task.from[c].version <= st[c].version /\ task.from[c].version \in Nat
      BY <2>1, <2>2 DEF ResyncBegan, AnyState
    <3>2. st[c].version <= st2[c].version /\ st[c].version \in Nat /\ st2[c].version \in Nat
      BY <2>1 DEF Forward
    <3>3. QED
      BY <3>1, <3>2
  <2>5. ResyncBegan(lg2, st2, div2, over2, task)
    BY <2>3, <2>4 DEF ResyncBegan
  <2>6. QED
    BY <2>1, <2>5 DEF Began
<1>3. CASE PushFits(h, n, lg, task)
  <2>1. task.kind = "push" /\ task.col \in Cols /\ task.base \in Nat
    BY <1>3 DEF PushFits, Push
  <2>2. PushBegan(lg, st, over, task)
    BY <2>1 DEF Began
  <2>3. PICK l, l2, p, base : l = lg[task.col] /\ l2 = lg2[task.col] /\ p = task.patch /\ base = task.base
    OBVIOUS
  <2>4. /\ l \in Seq(Logs) /\ l2 \in Seq(Logs) /\ \A v \in 1..Len(l) : l2[v] = l[v]
        /\ Fresh(l, p, base) /\ \A v \in 1..Len(l2) : v > Len(l) => l2[v].mac # p.mac
    BY <2>1, <2>2, <2>3 DEF Grown, Extends, PushBegan, NotOf
  <2>5. Fresh(l2, p, base)
    <3>1. Len(l) \in Nat /\ Len(l2) \in Nat
      BY <2>4
    <3>2. ASSUME NEW v \in 1..Len(l2), l2[v].mac = p.mac PROVE v = base + 1 /\ l2[v].idx = p.idx
      <4>1. v \in 1..Len(l)
        BY <2>4, <3>1, <3>2
      <4>2. QED
        BY <2>4, <3>2, <4>1 DEF Fresh
    <3>3. QED
      BY <3>2 DEF Fresh
  <2>6. task.col \notin over2 => task.base <= st2[task.col].version
    <3> SUFFICES ASSUME task.col \notin over2 PROVE task.base <= st2[task.col].version
      OBVIOUS
    <3>1. task.base <= st[task.col].version
      BY <2>2 DEF PushBegan
    <3>2. /\ st[task.col].version <= st2[task.col].version
          /\ st[task.col].version \in Nat /\ st2[task.col].version \in Nat
      BY <2>1 DEF Forward
    <3>3. QED
      BY <2>1, <3>1, <3>2
  <2>7. PushBegan(lg2, st2, over2, task)
    BY <2>2, <2>3, <2>5, <2>6 DEF PushBegan
  <2>8. QED
    BY <2>1, <2>7 DEF Began
<1>4. QED
  BY <1>1, <1>2, <1>3 DEF TaskFits

(* What a step must show of it. *)
ViewsShown == \A c \in Cols \ (diverged' \union overlapped') :
              \/ stored'[c] = stored[c] /\ view'[c] = view[c]
              \/ Shows(log'[c], stored'[c].version, view'[c])
CallsBegan == \A u \in Tasks : \/ tasks'[u] = tasks[u] /\ NotOf(log, log', tasks[u])
                               \/ Began(log', stored', diverged', overlapped', tasks'[u])

LEMMA ViewStep ==
  ASSUME Inv, ViewInv, Grown(log, log'), diverged \subseteq diverged', overlapped \subseteq overlapped',
         Forward(stored, stored', overlapped'), IsViews(view'), Apart(tasks'), CallsBegan, ViewsShown
  PROVE  ViewInv'
<1>1. PICK h \in Homes : HomeInv(h)
  BY DEF Inv
<1>2. ASSUME NEW u \in Tasks PROVE Began(log', stored', diverged', overlapped', tasks'[u])
  <2>1. CASE tasks'[u] = tasks[u] /\ NotOf(log, log', tasks[u])
    <3>1. TaskFits(h, macs, log, tasks[u]) /\ Began(log, stored, diverged, overlapped, tasks[u])
      BY <1>1 DEF HomeInv, ViewInv
    <3>2. Began(log', stored', diverged', overlapped', tasks[u])
      BY <2>1, <3>1, BeganLater
    <3>3. QED
      BY <2>1, <3>2
  <2>2. QED
    BY <2>1 DEF CallsBegan
<1>3. ASSUME NEW c \in Cols \ (diverged' \union overlapped')
      PROVE  Shows(log'[c], stored'[c].version, view'[c])
  <2>1. CASE stored'[c] = stored[c] /\ view'[c] = view[c]
    <3>1. PICK l, l2, ver, vw : l = log[c] /\ l2 = log'[c] /\ ver = stored[c].version /\ vw = view[c]
      OBVIOUS
    <3>2. l \in Seq(Logs) /\ l2 \in Seq(Logs) /\ Extends(l, l2)
      BY <3>1 DEF Grown
    <3>3. Had(l, stored[c]) /\ stored[c] \in AnyState
      BY <3>1 DEF Inv, HadInv, Bounds
    <3>4. ver \in 0..Len(l)
      BY <3>1, <3>2, <3>3 DEF Had, AnyState
    <3>5. Shows(l, ver, vw)
      BY <3>1 DEF ViewInv, ShowsInv
    <3>6. Shows(l2, ver, vw)
      BY <3>2, <3>4, <3>5, ShowsLater
    <3>7. QED
      BY <2>1, <3>1, <3>6
  <2>2. QED
    BY <2>1 DEF ViewsShown
<1>4. ShowsInv'
  BY <1>3 DEF ShowsInv
<1>5. QED
  BY <1>2, <1>4 DEF ViewInv

(* A step that changes no call, log, state or view.                          *)
LEMMA SameView == ViewInv /\ UNCHANGED <<log, stored, tasks, view, diverged, overlapped>> => ViewInv'
  BY DEF ViewInv, IsViews, IsView, Apart, ShowsInv, Shows

LEMMA ApartStep ==
  ASSUME Bounds, Apart(tasks), NEW t \in Tasks, NEW task, tasks' = [tasks EXCEPT ![t] = task],
         task.kind = "push" => \A u \in Tasks : u # t /\ tasks[u].kind = "push" =>
                                   tasks[u].patch.mac # task.patch.mac
  PROVE  Apart(tasks')
<1>1. tasks'[t] = task /\ \A u \in Tasks : u # t => tasks'[u] = tasks[u]
  BY DEF Bounds
<1>2. QED
  BY <1>1 DEF Apart

(* A step of one call that changes neither a state nor a view.               *)
LEMMA CallView ==
  ASSUME Inv, ViewInv, Grown(log, log'), UNCHANGED <<stored, view, diverged, overlapped>>,
         NEW t \in Tasks, NEW task, tasks' = [tasks EXCEPT ![t] = task], Apart(tasks'),
         \A u \in Tasks : u # t => NotOf(log, log', tasks[u]),
         Began(log', stored, diverged, overlapped, task)
  PROVE  ViewInv'
<1>1. tasks'[t] = task /\ \A u \in Tasks : u # t => tasks'[u] = tasks[u]
  BY DEF Inv, Bounds
<1>2. CallsBegan
  BY <1>1 DEF CallsBegan
<1>3. ViewsShown
  BY DEF ViewsShown
<1>4. Forward(stored, stored', overlapped')
  BY DEF Forward, Inv, Bounds, AnyState
<1>5. IsViews(view') /\ diverged \subseteq diverged' /\ overlapped \subseteq overlapped'
  BY DEF ViewInv, IsViews, IsView
<1>6. QED
  BY <1>2, <1>3, <1>4, <1>5, ViewStep

LEMMA SameLogs ==
  ASSUME Bounds, log' = log
  PROVE  Grown(log, log') /\ \A task : NotOf(log, log', task) \/ task.kind # "push" \/ task.col \notin Cols
<1>1. \A c \in Cols : log[c] \in Seq(Logs) /\ Len(log[c]) \in Nat
  BY DEF Bounds
<1>2. Grown(log, log')
  BY <1>1 DEF Grown, Extends
<1>3. ASSUME NEW task, task.kind = "push", task.col \in Cols PROVE NotOf(log, log', task)
  BY <1>1, <1>3 DEF NotOf
<1>4. QED
  BY <1>2, <1>3

LEMMA QuietCallView ==
  ASSUME Inv, ViewInv, UNCHANGED <<log, stored, view, diverged, overlapped>>,
         NEW t \in Tasks, NEW task, tasks' = [tasks EXCEPT ![t] = task],
         task.kind = "push" => \A u \in Tasks : u # t /\ tasks[u].kind = "push" =>
                                   tasks[u].patch.mac # task.patch.mac,
         Began(log, stored, diverged, overlapped, task)
  PROVE  ViewInv'
<1>1. PICK h \in Homes : HomeInv(h)
  BY DEF Inv
<1>2. Apart(tasks')
  BY ApartStep DEF Inv, ViewInv
<1>3. ASSUME NEW u \in Tasks PROVE NotOf(log, log', tasks[u])
  <2>1. tasks[u].kind = "push" => tasks[u].col \in Cols
    BY <1>1, TaskKinds DEF HomeInv, PushFits, Push
  <2>2. QED
    BY <2>1, SameLogs DEF Inv, NotOf
<1>4. Grown(log, log')
  BY SameLogs DEF Inv
<1>5. QED
  BY <1>2, <1>3, <1>4, CallView

LEMMA AskingBegan ==
  ASSUME NEW lg, NEW st, NEW div, NEW over, NEW names \in SUBSET Cols,
         \A c \in names : st[c].version \in Nat, \A c \in names \ div : Had(lg[c], st[c])
  PROVE  Began(lg, st, div, over, AskingFrom(names, st))
<1>1. PICK task, from : task = AskingFrom(names, st) /\ from = [c \in names |-> st[c]]
  OBVIOUS
<1>2. \A c \in names : from[c] = st[c]
  BY <1>1
<1>3. task = [kind |-> "resync", phase |-> "asked", names |-> names, left |-> names, more |-> FALSE,
              from |-> from, reply |-> << >>]
  BY <1>1 DEF AskingFrom
<1>4. task.names = names /\ task.phase = "asked" /\ task.from = from /\ task.kind = "resync"
  BY <1>3
<1>5. ResyncBegan(lg, st, div, over, task)
  BY <1>2, <1>4 DEF ResyncBegan
<1>6. QED
  BY <1>1, <1>4, <1>5 DEF Began

LEMMA RestartView == Inv /\ ViewInv /\ Restart => ViewInv'
<1> SUFFICES ASSUME Inv, ViewInv, Restart PROVE ViewInv'
  OBVIOUS
<1>1. tasks' = [t \in Tasks |-> Idle] /\ UNCHANGED <<log, stored, view, diverged, overlapped>>
  BY DEF Restart
<1>2. CallsBegan
  BY <1>1, IdleBegan DEF CallsBegan
<1>3. Apart(tasks')
  BY <1>1 DEF Apart, Idle
<1>4. Grown(log, log')
  BY <1>1, SameLogs DEF Inv
<1>5. Forward(stored, stored', overlapped')
  BY <1>1 DEF Forward, Inv, Bounds, AnyState
<1>6. IsViews(view') /\ ViewsShown
  BY <1>1 DEF ViewInv, IsViews, IsView, ViewsShown
<1>7. diverged \subseteq diverged' /\ overlapped \subseteq overlapped'
  BY <1>1
<1>8. QED
  BY <1>2, <1>3, <1>4, <1>5, <1>6, <1>7, ViewStep

LEMMA StartResyncView ==
  ASSUME Inv, ViewInv, NEW t \in Tasks, NEW names \in SUBSET Cols, StartResync(t, names)
  PROVE  ViewInv'
<1>1. UNCHANGED <<log, stored, view, diverged, overlapped>>
  BY DEF StartResync
<1>2. CASE have = 0
  BY <1>1, <1>2, SameView DEF StartResync
<1>3. CASE have # 0
  <2>1. PICK task : task = AskingFrom(names, stored)
    OBVIOUS
  <2>2. tasks' = [tasks EXCEPT ![t] = task]
    BY <1>3, <2>1 DEF StartResync, Asking, AskingFrom
  <2>3. \A c \in names : stored[c].version \in Nat
    BY DEF Inv, Bounds, AnyState
  <2>4. \A c \in names \ diverged : Had(log[c], stored[c])
    BY DEF Inv, HadInv
  <2>5. Began(log, stored, diverged, overlapped, task)
    BY <2>1, <2>3, <2>4, AskingBegan
  <2>6. task.kind # "push"
    BY <2>1 DEF AskingFrom
  <2>7. QED
    BY <1>1, <2>2, <2>5, <2>6, QuietCallView
<1>4. QED
  BY <1>2, <1>3

LEMMA StartsView == ASSUME NEW t \in Tasks
                    PROVE Inv /\ ViewInv /\ (HandleNote(t) \/ ResyncAll(t)) => ViewInv'
<1> SUFFICES ASSUME Inv, ViewInv, HandleNote(t) \/ ResyncAll(t) PROVE ViewInv'
  OBVIOUS
<1>1. CASE HandleNote(t)
  <2>1. PICK c \in notes : StartResync(t, {c})
    BY <1>1 DEF HandleNote
  <2>2. {c} \in SUBSET Cols
    BY DEF Inv, Bounds
  <2>3. QED
    BY <2>1, <2>2, StartResyncView
<1>2. CASE ResyncAll(t)
  BY <1>2, StartResyncView DEF ResyncAll
<1>3. QED
  BY <1>1, <1>2

LEMMA EndsView == ASSUME NEW t \in Tasks
    PROVE Inv /\ ViewInv /\ (ResyncFails(t) \/ PushFails(t)) => ViewInv'
<1> SUFFICES ASSUME Inv, ViewInv, ResyncFails(t) \/ PushFails(t) PROVE ViewInv'
  OBVIOUS
<1>1. tasks' = [tasks EXCEPT ![t] = Idle] /\ UNCHANGED <<log, stored, view, diverged, overlapped>>
  BY DEF ResyncFails, PushFails
<1>2. Idle.kind # "push"
  BY DEF Idle
<1>3. QED
  BY <1>1, <1>2, IdleBegan, QuietCallView

(* A resync that throws may have shown a snapshot, but saved nothing of it.  *)
LEMMA ThrowsView == ASSUME NEW t \in Tasks PROVE Inv /\ ViewInv /\ ApplyThrows(t) => ViewInv'
<1> SUFFICES ASSUME Inv, ViewInv, ApplyThrows(t) PROVE ViewInv'
  OBVIOUS
<1>1. PICK h \in Homes : HomeInv(h)
  BY DEF Inv
<1>2. PICK old, c, r, from, vw :
        /\ old = tasks[t] /\ c = Min(old.left) /\ r = old.reply[c] /\ from = old.from[c]
        /\ vw = Emitted(view[c], r.start, from, << >>)
  OBVIOUS
<1>3. ResyncFits(h, macs, log, old) /\ old.phase = "answered" /\ old.kind = "resync"
  BY <1>1, <1>2, TaskKinds DEF ApplyThrows, HomeInv
<1>4. IsViews(view) /\ Began(log, stored, diverged, overlapped, old)
  BY <1>2 DEF ViewInv
<1>5. old \in Resync /\ old.left \in SUBSET Cols /\ old.left # {} /\ old.names \in SUBSET Cols
      /\ old.left \subseteq old.names
  BY <1>3 DEF ResyncFits, Resync
<1>6. c \in old.left /\ c \in Cols /\ c \in old.names
  BY <1>2, <1>5, MinIsIn
<1>7. /\ tasks' = [tasks EXCEPT ![t] = Idle] /\ UNCHANGED <<log, stored, diverged>>
      /\ overlapped \subseteq overlapped'
      /\ \/ view' = view
         \/ /\ view' = [view EXCEPT ![c] = vw] /\ r.start # from
            /\ r.start.version < stored[c].version => c \in overlapped'
  BY <1>2 DEF ApplyThrows
<1>8. /\ History(h, macs, log[c]) /\ macs \in Nat /\ r.start \in AnyState /\ IsView(view[c])
  BY <1>1, <1>2, <1>3, <1>4, <1>5, <1>6 DEF ResyncFits, Answers, Reply, HomeInv, Inv, Bounds, IsViews
<1>9. IsView(vw)
  <2>1. << >> \in Seq(Logs)
    OBVIOUS
  <2>2. PICK sh : Shown(sh, << >>, Len(<< >>), Emitted(view[c], r.start, from, << >>))
    BY <1>8, <2>1, EmittedShows
  <2>3. QED
    BY <1>2, <2>2 DEF Shown
<1>10. ResyncBegan(log, stored, diverged, overlapped, old)
  BY <1>3, <1>4 DEF Began
<1>11. ASSUME view' = [view EXCEPT ![c] = vw], r.start # from,
              r.start.version < stored[c].version => c \in overlapped',
              c \notin diverged \union overlapped'
       PROVE  Shows(log[c], stored[c].version, vw)
  <2>1. c \notin diverged /\ c \notin overlapped /\ ~(r.start.version < stored[c].version)
    BY <1>7, <1>11
  <2>2. Had(log[c], r.start)
    BY <1>2, <1>3, <1>6, <1>10, <2>1 DEF ResyncBegan
  <2>3. PICK l, ver : l = log[c] /\ ver = stored[c].version
    OBVIOUS
  <2>4. History(h, macs, l) /\ Had(l, stored[c]) /\ stored[c] \in AnyState
    BY <1>6, <1>8, <2>1, <2>3 DEF Inv, Bounds, HadInv
  <2>5. ver \in 0..Len(l) /\ ver <= r.start.version
    BY <1>8, <2>1, <2>3, <2>4 DEF Had, AnyState, History
  <2>6. Shows(l, ver, view[c])
    BY <1>6, <2>1, <2>3 DEF ViewInv, ShowsInv
  <2>7. Shows(l, ver, Emitted(view[c], r.start, from, << >>))
    BY <1>8, <1>11, <2>2, <2>3, <2>4, <2>5, <2>6, SnapshotShows
  <2>8. QED
    BY <1>2, <2>3, <2>7
<1>12. ViewsShown /\ IsViews(view')
  <2>1. CASE view' = view
    BY <1>4, <1>7, <2>1 DEF ViewsShown
  <2>2. CASE view' # view
    <3>1. /\ view' = [view EXCEPT ![c] = vw] /\ r.start # from
          /\ r.start.version < stored[c].version => c \in overlapped'
      BY <1>7, <2>2
    <3>2. view'[c] = vw /\ \A d \in Cols : d # c => view'[d] = view[d]
      BY <1>4, <1>6, <3>1 DEF IsViews
    <3>3. IsViews(view')
      BY <1>4, <1>9, <3>1, <3>2 DEF IsViews
    <3>4. c \notin diverged \union overlapped' => Shows(log[c], stored[c].version, vw)
      BY <1>11, <3>1
    <3>5. ViewsShown
      BY <1>7, <3>2, <3>4 DEF ViewsShown
    <3>6. QED
      BY <3>3, <3>5
  <2>3. QED
    BY <2>1, <2>2
<1>13. CallsBegan
  <2>1. tasks'[t] = Idle /\ \A u \in Tasks : u # t => tasks'[u] = tasks[u]
    BY <1>7 DEF Inv, Bounds
  <2>2. ASSUME NEW u \in Tasks PROVE NotOf(log, log', tasks[u])
    <3>1. tasks[u].kind = "push" => tasks[u].col \in Cols
      BY <1>1, TaskKinds DEF HomeInv, PushFits, Push
    <3>2. QED
      BY <1>7, <3>1, SameLogs DEF Inv, NotOf
  <2>3. QED
    BY <2>1, <2>2, IdleBegan DEF CallsBegan
<1>14. Apart(tasks')
  <2>1. Idle.kind # "push"
    BY DEF Idle
  <2>2. QED
    BY <1>7, <2>1, ApartStep DEF Inv, ViewInv
<1>15. Grown(log, log') /\ Forward(stored, stored', overlapped')
  <2>1. Grown(log, log')
    BY <1>7, SameLogs DEF Inv
  <2>2. Forward(stored, stored', overlapped')
    BY <1>7 DEF Forward, Inv, Bounds, AnyState
  <2>3. QED
    BY <2>1, <2>2
<1>16. QED
  BY <1>7, <1>12, <1>13, <1>14, <1>15, ViewStep

LEMMA TruthHad ==
  ASSUME NEW h \in Homes, NEW n \in Nat, NEW c \in Cols, History(h, n, log[c]),
         NEW v \in 0..Len(log[c])
  PROVE  Had(log[c], Truth(c, v))
<1>1. Truth(c, v) = After(log[c], v)
  BY DEF Truth, After
<1>2. After(log[c], v).version = v
  BY AfterHonest
<1>3. Len(log[c]) \in Nat
  BY DEF History
<1>4. QED
  BY <1>1, <1>2, <1>3 DEF Had

(* An answer starts from the state of the request or from one of the log.    *)
LEMMA AnswerStarts ==
  ASSUME NEW h \in Homes, NEW n \in Nat, NEW c \in Cols, History(h, n, log[c]),
         NEW from \in AnyState, Had(log[c], from)
  PROVE  Had(log[c], Answer(c, from).start)
<1>1. PICK v, len : v = from.version /\ len = Len(log[c])
  OBVIOUS
<1>2. len \in Nat /\ v \in Nat
  BY <1>1 DEF History, AnyState
<1>3. PICK base : base = IF v = 0 THEN (IF len - 1 >= 0 THEN len - 1 ELSE 0) ELSE v
  OBVIOUS
<1>4. Max({0, len - 1}) = IF len - 1 >= 0 THEN len - 1 ELSE 0
  <2>1. Max({0, len - 1}) = IF 0 >= len - 1 THEN 0 ELSE len - 1
    BY <1>2, MaxOfTwo
  <2>2. QED
    BY <1>2, <2>1
<1>5. base = IF from.version = 0 THEN Max({0, Len(log[c]) - 1}) ELSE from.version
  BY <1>1, <1>3, <1>4
<1>6. Answer(c, from).start = IF base = v THEN from ELSE Truth(c, base)
  BY <1>1, <1>5 DEF Answer
<1>7. base # v => base \in 0..len
  BY <1>2, <1>3
<1>8. QED
  BY <1>1, <1>6, <1>7, TruthHad

LEMMA AnsweredView == ASSUME NEW t \in Tasks PROVE Inv /\ ViewInv /\ ServerAnswers(t) => ViewInv'
<1> SUFFICES ASSUME Inv, ViewInv, ServerAnswers(t) PROVE ViewInv'
  OBVIOUS
<1>1. PICK h \in Homes : HomeInv(h)
  BY DEF Inv
<1>2. PICK old, reply, task :
        /\ old = tasks[t] /\ reply = [c \in old.names |-> Answer(c, old.from[c])]
        /\ task = [old EXCEPT !.phase = "answered", !.reply = reply]
  OBVIOUS
<1>3. ResyncFits(h, macs, log, old) /\ old.kind = "resync" /\ macs \in Nat
  BY <1>1, <1>2, TaskKinds DEF ServerAnswers, HomeInv, Inv, Bounds
<1>4. tasks' = [tasks EXCEPT ![t] = task] /\ UNCHANGED <<log, stored, view, diverged, overlapped>>
  BY <1>2 DEF ServerAnswers
<1>5. old \in Resync /\ old.names \subseteq Cols
  BY <1>3 DEF ResyncFits, Resync
<1>6. /\ task.kind = "resync" /\ task.names = old.names /\ task.from = old.from /\ task.reply = reply
  BY <1>2, <1>3, <1>5 DEF Resync
<1>7. ResyncBegan(log, stored, diverged, overlapped, old)
  BY <1>2, <1>3 DEF ViewInv, Began
<1>8. ASSUME NEW c \in old.names \ diverged PROVE Had(log[c], reply[c].start)
  <2>1. c \in Cols /\ old.from[c] \in AnyState /\ History(h, macs, log[c])
    BY <1>1, <1>3, <1>5 DEF ResyncFits, HomeInv
  <2>2. Had(log[c], old.from[c])
    BY <1>7 DEF ResyncBegan
  <2>3. Had(log[c], Answer(c, old.from[c]).start)
    BY <1>3, <2>1, <2>2, AnswerStarts
  <2>4. QED
    BY <1>2, <2>3
<1>9. ResyncBegan(log, stored, diverged, overlapped, task)
  BY <1>6, <1>7, <1>8 DEF ResyncBegan
<1>10. Began(log, stored, diverged, overlapped, task)
  BY <1>6, <1>9 DEF Began
<1>11. task.kind # "push"
  BY <1>6
<1>12. QED
  BY <1>4, <1>10, <1>11, QuietCallView

(* The MAC of a call was made before.                                        *)
LEMMA MacsMade ==
  ASSUME Bounds, NEW h \in Homes, HomeInv(h), NEW u \in Tasks, tasks[u].kind = "push"
  PROVE  /\ tasks[u].col \in Cols /\ tasks[u].patch.mac \in Nat /\ tasks[u].patch.mac <= macs
         /\ PushFits(h, macs, log, tasks[u])
<1>1. PushFits(h, macs, log, tasks[u])
  BY TaskKinds DEF HomeInv
<1>2. QED
  BY <1>1 DEF PushFits, Push, Mutates, Macs

LEMMA StartPushView ==
  ASSUME NEW t \in Tasks, NEW c \in Pushed, NEW i \in Idx
  PROVE  Inv /\ ViewInv /\ StartPush(t, c, i) => ViewInv'
<1> SUFFICES ASSUME Inv, ViewInv, StartPush(t, c, i) PROVE ViewInv'
  OBVIOUS
<1>1. PICK h \in Homes : HomeInv(h)
  BY DEF Inv
<1>2. PICK m, s, p, next, task :
        /\ m = Modified(i, macs + 1) /\ s = stored[c] /\ p = Patch(s, m) /\ next = Mix(s, p)
        /\ task = [kind |-> "push", phase |-> "asked", col |-> c, patch |-> p, taken |-> FALSE,
                   base |-> s.version, next |-> next]
  OBVIOUS
<1>3. have > 0 /\ macs < MaxMacs /\ UNCHANGED <<log, stored, view, diverged, overlapped>>
  BY DEF StartPush
<1>4. tasks' = [tasks EXCEPT ![t] = task]
  BY <1>2 DEF StartPush
<1>5. c \in Cols /\ have \in 1..MaxKeys /\ macs + 1 \in Macs /\ macs \in Nat
  BY <1>3, AppStateAssumption DEF Inv, Bounds, Cols, Macs
<1>6. s \in AnyState /\ s.version \in Nat
  BY <1>2, <1>5 DEF Inv, Bounds, AnyState
<1>7. p.op = "SET" /\ p.idx = i /\ p.key = have /\ p.mac = macs + 1
  BY <1>2 DEF Patch, Modified
<1>8. next.map[IndexMac(p)] = p.mac
  BY <1>2, <1>5, <1>6, <1>7, MixMoves DEF Ops
<1>9. /\ task.kind = "push" /\ task.col = c /\ task.patch = p /\ task.base = s.version /\ task.next = next
  BY <1>2
<1>10. Fresh(log[c], p, s.version)
  <2>1. History(h, macs, log[c])
    BY <1>1, <1>5 DEF HomeInv
  <2>2. \A v \in 1..Len(log[c]) : log[c][v].mac <= macs /\ log[c][v].mac \in Nat
    BY <2>1 DEF History, Mutates, Macs
  <2>3. \A v \in 1..Len(log[c]) : log[c][v].mac # p.mac
    BY <1>5, <1>7, <2>2
  <2>4. QED
    BY <2>3 DEF Fresh
<1>11. task.base <= stored[c].version
  BY <1>2, <1>6, <1>9
<1>12. PushBegan(log, stored, overlapped, task)
  BY <1>8, <1>9, <1>10, <1>11 DEF PushBegan
<1>13. Began(log, stored, diverged, overlapped, task)
  BY <1>9, <1>12 DEF Began
<1>14. \A u \in Tasks : u # t /\ tasks[u].kind = "push" => tasks[u].patch.mac # task.patch.mac
  <2>1. ASSUME NEW u \in Tasks, tasks[u].kind = "push" PROVE tasks[u].patch.mac # p.mac
    <3>1. tasks[u].patch.mac \in Nat /\ tasks[u].patch.mac <= macs
      BY <1>1, <2>1, MacsMade DEF Inv
    <3>2. QED
      BY <1>5, <1>7, <3>1
  <2>2. QED
    BY <1>9, <2>1
<1>15. QED
  BY <1>3, <1>4, <1>13, <1>14, QuietCallView

LEMMA AppendNotOf ==
  ASSUME NEW lg, NEW lg2, \A d \in Cols : lg[d] \in Seq(Logs), NEW c \in Cols, NEW e,
         lg2[c] = Append(lg[c], e), \A d \in Cols : d # c => lg2[d] = lg[d], NEW task,
         task.kind = "push" => task.col \in Cols /\ (task.col = c => e.mac # task.patch.mac)
  PROVE  NotOf(lg, lg2, task)
<1> SUFFICES ASSUME task.kind = "push", NEW v \in 1..Len(lg2[task.col]), v > Len(lg[task.col])
             PROVE  lg2[task.col][v].mac # task.patch.mac
  BY DEF NotOf
<1>1. PICK l, l2 : l = lg[task.col] /\ l2 = lg2[task.col]
  OBVIOUS
<1>2. l \in Seq(Logs) /\ Len(l) \in Nat
  BY <1>1
<1>3. task.col = c
  BY <1>1, <1>2
<1>4. l2 = Append(l, e)
  BY <1>1, <1>3
<1>5. Len(l2) = Len(l) + 1 /\ l2[Len(l) + 1] = e
  BY <1>2, <1>4, AppendProperties
<1>6. v = Len(l) + 1
  BY <1>1, <1>2, <1>5
<1>7. QED
  BY <1>1, <1>3, <1>5, <1>6

LEMMA AppendGrows ==
  ASSUME NEW lg \in [Cols -> Seq(Logs)], NEW lg2 \in [Cols -> Seq(Logs)], NEW c \in Cols, NEW e,
         lg2[c] = Append(lg[c], e), \A d \in Cols : d # c => lg2[d] = lg[d]
  PROVE  Grown(lg, lg2)
<1>1. PICK l, l2 : l = lg[c] /\ l2 = lg2[c]
  OBVIOUS
<1>2. l \in Seq(Logs) /\ l2 \in Seq(Logs) /\ l2 = Append(l, e)
  BY <1>1
<1>3. Extends(l, l2)
  <2>1. Len(l2) = Len(l) + 1 /\ \A v \in 1..Len(l) : l2[v] = l[v]
    BY <1>2, AppendProperties
  <2>2. QED
    BY <1>2, <2>1 DEF Extends
<1>4. ASSUME NEW d \in Cols, d # c PROVE Extends(lg[d], lg2[d])
  <2>1. lg2[d] = lg[d] /\ Len(lg[d]) \in Nat
    BY <1>4
  <2>2. QED
    BY <2>1 DEF Extends
<1>5. QED
  BY <1>1, <1>3, <1>4 DEF Grown

LEMMA OtherPatchView ==
  ASSUME NEW c \in Cols, NEW op \in {"SET", "REMOVE"}, NEW i \in Idx, NEW key \in 1..MaxKeys
  PROVE  Inv /\ Inv' /\ ViewInv /\ OtherPatch(c, op, i, key) => ViewInv'
<1> SUFFICES ASSUME Inv, Inv', ViewInv, OtherPatch(c, op, i, key) PROVE ViewInv'
  OBVIOUS
<1>1. PICK h \in Homes : HomeInv(h)
  BY DEF Inv
<1>2. PICK m, s, p : /\ m = [op |-> op, idx |-> i, key |-> key, mac |-> macs + 1]
                     /\ s = Truth(c, Len(log[c])) /\ p = Patch(s, m)
  OBVIOUS
<1>3. UNCHANGED <<stored, tasks, view, diverged, overlapped>>
  BY DEF OtherPatch
<1>4. log' = [log EXCEPT ![c] = Logged(c, p)]
  BY <1>2 DEF OtherPatch, Inv, Bounds
<1>5. PICK e : e = Entry(s, p)
  OBVIOUS
<1>6. e.mac = macs + 1
  BY <1>2, <1>5 DEF Entry, Patch
<1>7. log \in [Cols -> Seq(Logs)] /\ log' \in [Cols -> Seq(Logs)]
  BY DEF Inv, Bounds
<1>8. log'[c] = Append(log[c], e) /\ \A d \in Cols : d # c => log'[d] = log[d]
  BY <1>2, <1>4, <1>5, <1>7 DEF Logged
<1>9. Grown(log, log')
  BY <1>7, <1>8, AppendGrows
<1>10. ASSUME NEW u \in Tasks PROVE NotOf(log, log', tasks[u])
  <2>1. ASSUME tasks[u].kind = "push" PROVE tasks[u].col \in Cols /\ e.mac # tasks[u].patch.mac
    <3>1. tasks[u].col \in Cols /\ tasks[u].patch.mac \in Nat /\ tasks[u].patch.mac <= macs
      BY <1>1, <2>1, MacsMade DEF Inv
    <3>2. macs \in Nat
      BY DEF Inv, Bounds
    <3>3. QED
      BY <1>6, <3>1, <3>2
  <2>2. QED
    BY <1>7, <1>8, <2>1, AppendNotOf
<1>11. CallsBegan
  BY <1>3, <1>10 DEF CallsBegan
<1>12. Forward(stored, stored', overlapped')
  BY <1>3 DEF Forward, Inv, Bounds, AnyState
<1>13. IsViews(view') /\ ViewsShown /\ Apart(tasks')
  BY <1>3 DEF ViewInv, IsViews, IsView, ViewsShown
<1>14. diverged \subseteq diverged' /\ overlapped \subseteq overlapped'
  BY <1>3
<1>15. QED
  BY <1>9, <1>11, <1>12, <1>13, <1>14, ViewStep

LEMMA ServerTakesView == ASSUME NEW t \in Tasks
                         PROVE Inv /\ Inv' /\ ViewInv /\ ServerTakes(t) => ViewInv'
<1> SUFFICES ASSUME Inv, Inv', ViewInv, ServerTakes(t) PROVE ViewInv'
  OBVIOUS
<1>1. PICK h \in Homes : HomeInv(h)
  BY DEF Inv
<1>2. PICK old, c, p, s, takes, taken, task :
        /\ old = tasks[t] /\ c = old.col /\ p = old.patch
        /\ s = Truth(c, Len(log[c])) /\ takes = (old.base = Len(log[c]))
        /\ taken = (takes /\ p.commits = SnapshotMac(Mix(s, p)))
        /\ task = [old EXCEPT !.phase = "answered", !.taken = taken]
  OBVIOUS
<1>3. /\ old.kind = "push" /\ PushFits(h, macs, log, old) /\ old \in Push
      /\ c \in Cols /\ old.base \in Nat
  <2>1. old.kind = "push" /\ PushFits(h, macs, log, old)
    BY <1>1, <1>2, MacsMade DEF ServerTakes, Inv
  <2>2. QED
    BY <1>2, <2>1 DEF PushFits, Push
<1>4. /\ log' = (IF takes THEN [log EXCEPT ![c] = Logged(c, p)] ELSE log)
      /\ tasks' = [tasks EXCEPT ![t] = task] /\ UNCHANGED <<stored, view, diverged, overlapped>>
  BY <1>2 DEF ServerTakes
<1>5. /\ task.kind = "push" /\ task.col = c /\ task.patch = p /\ task.base = old.base
      /\ task.next = old.next
  BY <1>2, <1>3 DEF Push
<1>6. PushBegan(log, stored, overlapped, old)
  BY <1>2, <1>3 DEF ViewInv, Began
<1>7. \A u \in Tasks : u # t /\ tasks[u].kind = "push" => tasks[u].patch.mac # task.patch.mac
  BY <1>2, <1>3, <1>5 DEF ViewInv, Apart
<1>8. CASE ~takes
  <2>1. log' = log
    BY <1>4, <1>8
  <2>2. PushBegan(log, stored, overlapped, task)
    BY <1>2, <1>5, <1>6 DEF PushBegan
  <2>3. Began(log, stored, diverged, overlapped, task)
    BY <1>5, <2>2 DEF Began
  <2>4. QED
    BY <1>4, <1>7, <2>1, <2>3, QuietCallView
<1>9. CASE takes
  <2>1. PICK e : e = Entry(s, p)
    OBVIOUS
  <2>2. e.mac = p.mac /\ e.idx = p.idx
    BY <2>1 DEF Entry
  <2>3. log \in [Cols -> Seq(Logs)] /\ log' \in [Cols -> Seq(Logs)] /\ c \in Cols
    BY <1>3 DEF Inv, Bounds
  <2>4. log' = [log EXCEPT ![c] = Append(log[c], e)]
    BY <1>2, <1>4, <1>9, <2>1 DEF Logged
  <2>5. log'[c] = Append(log[c], e) /\ \A d \in Cols : d # c => log'[d] = log[d]
    BY <1>3, <2>3, <2>4
  <2>6. Grown(log, log') /\ Len(log'[c]) = Len(log[c]) + 1 /\ log'[c][Len(log[c]) + 1] = e
    <3>1. Grown(log, log')
      BY <2>3, <2>5, AppendGrows
    <3>2. PICK l : l = log[c] /\ l \in Seq(Logs)
      BY <2>3
    <3>3. Len(Append(l, e)) = Len(l) + 1 /\ Append(l, e)[Len(l) + 1] = e
      BY <3>2, AppendProperties
    <3>4. QED
      BY <2>5, <3>1, <3>2, <3>3
  <2>7. ASSUME NEW u \in Tasks, u # t PROVE NotOf(log, log', tasks[u])
    <3>1. tasks[u].kind = "push" => tasks[u].col \in Cols /\ e.mac # tasks[u].patch.mac
      BY <1>1, <1>5, <1>7, <2>2, <2>7, MacsMade DEF Inv
    <3>2. QED
      BY <2>3, <2>5, <3>1, AppendNotOf
  <2>8. Fresh(log'[c], p, old.base)
    <3>1. PICK l, l2 : l = log[c] /\ l2 = log'[c]
      OBVIOUS
    <3>2. /\ Len(l) \in Nat /\ Len(l2) = Len(l) + 1 /\ l2[Len(l) + 1] = e
          /\ \A v \in 1..Len(l) : l2[v] = l[v]
      BY <1>3, <2>3, <2>6, <3>1 DEF Grown, Extends
    <3>3. Fresh(l, p, old.base) /\ old.base = Len(l)
      BY <1>2, <1>6, <1>9, <3>1 DEF PushBegan
    <3>4. ASSUME NEW v \in 1..Len(l2), l2[v].mac = p.mac PROVE v = old.base + 1 /\ l2[v].idx = p.idx
      <4>1. CASE v = Len(l) + 1
        BY <2>2, <3>2, <3>3, <4>1
      <4>2. CASE v # Len(l) + 1
        <5>1. v \in 1..Len(l)
          BY <3>2, <4>2
        <5>2. QED
          BY <3>2, <3>3, <3>4, <5>1 DEF Fresh
      <4>3. QED
        BY <4>1, <4>2
    <3>5. QED
      BY <3>1, <3>4 DEF Fresh
  <2>9. PushBegan(log', stored, overlapped, task)
    BY <1>2, <1>5, <1>6, <2>8 DEF PushBegan
  <2>10. Began(log', stored, diverged, overlapped, task)
    BY <1>5, <2>9 DEF Began
  <2>11. Apart(tasks')
    BY <1>4, <1>7, ApartStep DEF Inv, ViewInv
  <2>12. QED
    BY <1>4, <2>6, <2>7, <2>10, <2>11, CallView
<1>10. QED
  BY <1>8, <1>9

(* A state is saved and shown.                                               *)
LEMMA SaveView ==
  ASSUME Inv, ViewInv, log' = log, NEW c \in Cols, NEW s \in AnyState, NEW true, NEW vw, IsView(vw),
         stored' = [stored EXCEPT ![c] = s], view' = [view EXCEPT ![c] = vw], Tells(c, s, true),
         c \notin diverged' \union overlapped' => Shows(log[c], s.version, vw),
         NEW t \in Tasks, NEW task, tasks' = [tasks EXCEPT ![t] = task], task.kind # "push",
         Began(log', stored', diverged', overlapped', task)
  PROVE  ViewInv'
<1>1. PICK h \in Homes : HomeInv(h)
  BY DEF Inv
<1>2. tasks'[t] = task /\ \A u \in Tasks : u # t => tasks'[u] = tasks[u]
  BY DEF Inv, Bounds
<1>3. stored'[c] = s /\ \A d \in Cols : d # c => stored'[d] = stored[d]
  BY DEF Inv, Bounds
<1>4. IsViews(view)
  BY DEF ViewInv
<1>5. view'[c] = vw /\ \A d \in Cols : d # c => view'[d] = view[d]
  BY <1>4 DEF IsViews
<1>6. IsViews(view')
  BY <1>4 DEF IsViews
<1>7. diverged \subseteq diverged' /\ overlapped \subseteq overlapped'
  BY DEF Tells
<1>8. \A d \in Cols : stored[d].version \in Nat /\ s.version \in Nat
  BY DEF Inv, Bounds, AnyState
<1>9. Forward(stored, stored', overlapped')
  <2>1. c \notin overlapped' => ~(s.version < stored[c].version)
    BY DEF Tells
  <2>2. QED
    BY <1>3, <1>8, <2>1 DEF Forward
<1>10. ASSUME NEW u \in Tasks PROVE NotOf(log, log', tasks[u])
  <2>1. tasks[u].kind = "push" => tasks[u].col \in Cols
    BY <1>1, MacsMade DEF Inv
  <2>2. QED
    BY <2>1, SameLogs DEF Inv, NotOf
<1>11. CallsBegan
  BY <1>2, <1>10 DEF CallsBegan
<1>12. ViewsShown
  BY <1>3, <1>5 DEF ViewsShown
<1>13. Apart(tasks')
  BY ApartStep DEF Inv, ViewInv
<1>14. Grown(log, log')
  BY SameLogs DEF Inv
<1>15. QED
  BY <1>6, <1>7, <1>9, <1>11, <1>12, <1>13, <1>14, ViewStep

LEMMA SavePushView == ASSUME NEW t \in Tasks
                      PROVE Inv /\ SyncInv /\ ViewInv /\ SavePush(t) => ViewInv'
<1> SUFFICES ASSUME Inv, SyncInv, ViewInv, SavePush(t) PROVE ViewInv'
  OBVIOUS
<1>1. PICK h \in Homes : HomeInv(h)
  BY DEF Inv
<1>2. PICK old, c, p, next, vw :
        /\ old = tasks[t] /\ c = old.col /\ next = old.next /\ p = old.patch
        /\ vw = [view[c] EXCEPT ![p.idx] = p.mac]
  OBVIOUS
<1>3. old.kind = "push" /\ PushFits(h, macs, log, old)
  BY <1>1, <1>2, MacsMade DEF SavePush, Inv
<1>4. c \in Cols /\ next \in AnyState /\ old.base \in Nat /\ Mutates(h, macs, p)
  BY <1>2, <1>3 DEF PushFits, Push
<1>5. IsViews(view)
  BY DEF ViewInv
<1>6. /\ stored' = [stored EXCEPT ![c] = next] /\ Tells(c, next, old.taken) /\ log' = log
      /\ tasks' = [tasks EXCEPT ![t] = Idle] /\ view' = [view EXCEPT ![c][p.idx] = p.mac]
  BY <1>2 DEF SavePush, ShowsOwn
<1>7. view' = [view EXCEPT ![c] = vw]
  BY <1>2, <1>6
<1>8. PushBegan(log, stored, overlapped, old) /\ next.version = old.base + 1
  BY <1>2, <1>3 DEF ViewInv, Began, SyncInv, Remembers
<1>9. p.idx \in Idx /\ IsView(view[c])
  BY <1>4, <1>5 DEF Mutates, IsViews
<1>10. IsView(vw)
  BY <1>2, <1>9 DEF IsView
<1>11. ASSUME c \notin diverged' \union overlapped' PROVE Shows(log[c], next.version, vw)
  <2>1. c \notin diverged /\ c \notin overlapped /\ ~(next.version < stored[c].version)
        /\ (old.taken \/ Sound(c, next))
    BY <1>6, <1>11 DEF Tells
  <2>2. Had(log[c], next)
    BY <1>2, <1>3, <2>1 DEF PushFits, Sound, Had, Truth, After
  <2>3. PICK l, ver : l = log[c] /\ ver = stored[c].version
    OBVIOUS
  <2>4. History(h, macs, l) /\ macs \in Nat /\ Had(l, stored[c]) /\ stored[c] \in AnyState
    BY <1>1, <1>4, <2>1, <2>3 DEF HomeInv, Inv, Bounds, HadInv
  <2>5. ver \in 0..Len(l)
    BY <2>3, <2>4 DEF Had, AnyState, History
  <2>6. Shows(l, ver, view[c])
    BY <1>4, <2>1, <2>3 DEF ViewInv, ShowsInv
  <2>7. old.base <= ver /\ ver <= old.base + 1
    <3>1. old.base <= ver
      BY <1>2, <1>8, <2>1, <2>3 DEF PushBegan
    <3>2. ver \in Nat
      BY <2>5
    <3>3. QED
      BY <1>4, <1>8, <2>1, <2>3, <3>1, <3>2
  <2>8. Fresh(l, p, old.base) /\ next.map[IndexMac(p)] = p.mac
    BY <1>2, <1>8, <2>3 DEF PushBegan
  <2>9. Shows(l, next.version, [view[c] EXCEPT ![p.idx] = p.mac])
    BY <1>4, <1>8, <1>9, <2>2, <2>3, <2>4, <2>5, <2>6, <2>7, <2>8, PushShows
  <2>10. QED
    BY <1>2, <2>3, <2>9
<1>12. Began(log', stored', diverged', overlapped', Idle) /\ Idle.kind # "push"
  BY IdleBegan DEF Idle
<1>13. QED
  BY <1>4, <1>6, <1>7, <1>10, <1>11, <1>12, SaveView

LEMMA ApplyView == ASSUME NEW t \in Tasks PROVE Inv /\ Inv' /\ ViewInv /\ Apply(t) => ViewInv'
<1> SUFFICES ASSUME Inv, Inv', ViewInv, Apply(t) PROVE ViewInv'
  OBVIOUS
<1>1. PICK h \in Homes : HomeInv(h)
  BY DEF Inv
<1>2. PICK old, c, r, new, left, more, from, vw :
        /\ old = tasks[t] /\ c = Min(old.left) /\ r = old.reply[c] /\ new = Decoded(c, r)
        /\ left = old.left \ {c} /\ more = (old.more \/ r.more) /\ from = old.from[c]
        /\ vw = Emitted(view[c], r.start, from, r.patches)
  OBVIOUS
<1>3. ResyncFits(h, macs, log, old) /\ old.phase = "answered" /\ old.kind = "resync"
  BY <1>1, <1>2, TaskKinds DEF Apply, HomeInv
<1>4. IsViews(view) /\ Began(log, stored, diverged, overlapped, old)
  BY <1>2 DEF ViewInv
<1>5. old \in Resync /\ old.left \in SUBSET Cols /\ old.left # {} /\ old.names \in SUBSET Cols
      /\ old.left \subseteq old.names
  BY <1>3 DEF ResyncFits, Resync
<1>6. c \in old.left /\ c \in Cols /\ c \in old.names
  BY <1>2, <1>5, MinIsIn
<1>7. /\ stored' = [stored EXCEPT ![c] = new] /\ view' = [view EXCEPT ![c] = vw] /\ log' = log
      /\ tasks' = (IF left = {} THEN AfterLast(t, more)
                   ELSE [tasks EXCEPT ![t].left = left, ![t].more = more])
      /\ Tells(c, new, Sound(c, r.start))
  BY <1>2, <1>4, <1>6 DEF Apply, IsViews
<1>8. /\ Answers(h, macs, log[c], r) /\ History(h, macs, log[c]) /\ macs \in Nat /\ from \in AnyState
      /\ IsView(view[c])
  BY <1>1, <1>2, <1>3, <1>4, <1>5, <1>6 DEF ResyncFits, HomeInv, Inv, Bounds, IsViews
<1>9. new \in AnyState
  BY <1>2, <1>8, DecodedFits DEF Honest
<1>10. IsView(vw)
  <2>1. r.patches \in Seq(Logs)
    BY <1>8 DEF Answers, Reply
  <2>2. PICK sh : Shown(sh, r.patches, Len(r.patches), Emitted(view[c], r.start, from, r.patches))
    BY <1>8, <2>1, EmittedShows
  <2>3. QED
    BY <1>2, <2>2 DEF Shown
<1>11. ResyncBegan(log, stored, diverged, overlapped, old)
  BY <1>3, <1>4 DEF Began
<1>12. ASSUME c \notin diverged' \union overlapped' PROVE Shows(log[c], new.version, vw)
  <2>1. c \notin diverged /\ c \notin overlapped /\ ~(new.version < stored[c].version)
    BY <1>7, <1>12 DEF Tells
  <2>2. Had(log[c], r.start) /\ from.version <= stored[c].version
    BY <1>2, <1>3, <1>6, <1>11, <2>1 DEF ResyncBegan
  <2>3. PICK l, ver : l = log[c] /\ ver = stored[c].version
    OBVIOUS
  <2>4. History(h, macs, l) /\ Had(l, stored[c]) /\ stored[c] \in AnyState
    BY <1>6, <1>8, <2>1, <2>3 DEF Inv, Bounds, HadInv
  <2>5. ver \in 0..Len(l) /\ ver <= new.version
    BY <1>9, <2>1, <2>3, <2>4 DEF Had, AnyState, History
  <2>6. Shows(l, ver, view[c])
    BY <1>6, <2>1, <2>3 DEF ViewInv, ShowsInv
  <2>7. Shows(l, Decoded(c, r).version, Emitted(view[c], r.start, from, r.patches))
    BY <1>2, <1>8, <2>2, <2>3, <2>4, <2>5, <2>6, PageShows
  <2>8. QED
    BY <1>2, <2>3, <2>7
<1>13. PICK task, st :
         /\ st = stored'
         /\ task = IF left = {} THEN (IF more THEN AskingFrom(old.names, st) ELSE Idle)
                   ELSE [old EXCEPT !.left = left, !.more = more]
  OBVIOUS
<1>14. tasks' = [tasks EXCEPT ![t] = task]
  <2>1. CASE left = {}
    <3>1. AfterLast(t, more) = [tasks EXCEPT ![t] =
             IF more THEN [Asking(old.names) EXCEPT !.from = [d \in old.names |-> st[d]]] ELSE Idle]
      BY <1>2, <1>13 DEF AfterLast
    <3>2. [Asking(old.names) EXCEPT !.from = [d \in old.names |-> st[d]]] = AskingFrom(old.names, st)
      BY AskingAgain
    <3>3. AfterLast(t, more) = [tasks EXCEPT ![t] = IF more THEN AskingFrom(old.names, st) ELSE Idle]
      BY <3>1, <3>2
    <3>4. QED
      BY <1>7, <1>13, <2>1, <3>3
  <2>2. CASE left # {}
    BY <1>2, <1>7, <1>13, <2>2
  <2>3. QED
    BY <2>1, <2>2
<1>15. Began(log', stored', diverged', overlapped', task) /\ task.kind # "push"
  <2>1. CASE left # {}
    <3>1. /\ task.kind = "resync" /\ task.phase = old.phase /\ task.names = old.names
          /\ task.from = old.from /\ task.reply = old.reply
      BY <1>3, <1>5, <1>13, <2>1 DEF Resync
    <3>2. Forward(stored, stored', overlapped')
      <4>1. stored'[c] = new /\ \A d \in Cols : d # c => stored'[d] = stored[d]
        BY <1>7 DEF Inv, Bounds
      <4>2. \A d \in Cols : stored[d].version \in Nat /\ new.version \in Nat
        BY <1>9 DEF Inv, Bounds, AnyState
      <4>3. c \notin overlapped' => ~(new.version < stored[c].version)
        BY <1>7 DEF Tells
      <4>4. QED
        BY <4>1, <4>2, <4>3 DEF Forward
    <3>3. Grown(log, log') /\ diverged \subseteq diverged' /\ overlapped \subseteq overlapped'
      BY <1>7, SameLogs DEF Inv, Tells
    <3>4. NotOf(log, log', old) /\ TaskFits(h, macs, log, old)
      BY <1>3 DEF NotOf, TaskFits
    <3>5. Began(log', stored', diverged', overlapped', old)
      BY <1>4, <3>2, <3>3, <3>4, BeganLater
    <3>6. ResyncBegan(log', stored', diverged', overlapped', task)
      BY <1>3, <3>1, <3>5 DEF Began, ResyncBegan
    <3>7. QED
      BY <3>1, <3>6 DEF Began
  <2>2. CASE left = {} /\ more
    <3>1. \A d \in old.names : st[d].version \in Nat
      BY <1>5, <1>13 DEF Inv, Bounds, AnyState
    <3>2. \A d \in old.names \ diverged' : Had(log'[d], st[d])
      BY <1>5, <1>13 DEF Inv, HadInv
    <3>3. Began(log', st, diverged', overlapped', AskingFrom(old.names, st))
      BY <1>5, <3>1, <3>2, AskingBegan
    <3>4. AskingFrom(old.names, st).kind = "resync"
      BY DEF AskingFrom
    <3>5. QED
      BY <1>13, <2>2, <3>3, <3>4
  <2>3. CASE left = {} /\ ~more
    BY <1>13, <2>3, IdleBegan DEF Idle
  <2>4. QED
    BY <2>1, <2>2, <2>3
<1>16. QED
  BY <1>6, <1>7, <1>9, <1>10, <1>12, <1>14, <1>15, SaveView

LEMMA ViewInductive == Inv /\ Inv' /\ SyncInv /\ ViewInv /\ [Next]_vars => ViewInv'
<1> SUFFICES ASSUME Inv, Inv', SyncInv, ViewInv, [Next]_vars PROVE ViewInv'
  OBVIOUS
<1>1. CASE UNCHANGED vars
  BY <1>1, SameView DEF vars
<1>2. ASSUME NEW c \in Cols, NEW op \in {"SET", "REMOVE"}, NEW i \in Idx, NEW key \in 1..MaxKeys,
             OtherPatch(c, op, i, key)
      PROVE  ViewInv'
  BY <1>2, OtherPatchView
<1>3. ASSUME NEW t \in Tasks, HandleNote(t) \/ ResyncAll(t) PROVE ViewInv'
  BY <1>3, StartsView
<1>4. ASSUME NEW t \in Tasks, ServerAnswers(t) PROVE ViewInv'
  BY <1>4, AnsweredView
<1>5. ASSUME NEW t \in Tasks, ResyncFails(t) \/ PushFails(t) \/ ApplyThrows(t) PROVE ViewInv'
  BY <1>5, EndsView, ThrowsView
<1>6. ASSUME NEW t \in Tasks, Apply(t) PROVE ViewInv'
  BY <1>6, ApplyView
<1>7. ASSUME NEW t \in Tasks, ServerTakes(t) PROVE ViewInv'
  BY <1>7, ServerTakesView
<1>8. ASSUME NEW t \in Tasks, SavePush(t) PROVE ViewInv'
  BY <1>8, SavePushView
<1>9. ASSUME NEW t \in Tasks, NEW c \in Pushed, NEW i \in Idx, StartPush(t, c, i) PROVE ViewInv'
  BY <1>9, StartPushView
<1>10. CASE ShareKeys
  BY <1>10, SameView DEF ShareKeys
<1>11. CASE Restart
  BY <1>11, RestartView
<1>12. QED
  BY <1>1, <1>2, <1>3, <1>4, <1>5, <1>6, <1>7, <1>8, <1>9, <1>10, <1>11 DEF Next

LEMMA InitView == Init => ViewInv
<1> SUFFICES ASSUME Init PROVE ViewInv
  OBVIOUS
<1>1. IsViews(view)
  <2>1. view = [c \in Cols |-> view[c]] /\ \A c \in Cols : view[c] = [i \in Idx |-> 0]
    BY DEF Init
  <2>2. QED
    BY <2>1 DEF IsViews, IsView
<1>2. \A t \in Tasks : tasks[t] = Idle
  BY DEF Init
<1>3. Apart(tasks) /\ \A t \in Tasks : Began(log, stored, diverged, overlapped, tasks[t])
  BY <1>2, IdleBegan DEF Apart, Idle
<1>4. \A c \in Cols : stored[c].version = 0
  BY DEF Init, NewState
<1>5. ShowsInv
  BY <1>4 DEF ShowsInv, Shows
<1>6. QED
  BY <1>1, <1>3, <1>5 DEF ViewInv

LEMMA ShownAtLast == Inv /\ SyncInv /\ ViewInv => ViewFollows
<1> SUFFICES ASSUME Inv, SyncInv, ViewInv, Quiet,
                    NEW c \in Cols \ (diverged \union excused \union overlapped), NEW i \in Idx,
                    SetLast(c, i), Cardinality(Records(stored[c], i)) = 1
             PROVE  Records(stored[c], i) = {view[c][i]}
  BY DEF ViewFollows
<1>1. PICK h \in Homes : HomeInv(h)
  BY DEF Inv
<1>2. PICK l, s, len : l = log[c] /\ s = stored[c] /\ len = Len(log[c])
  OBVIOUS
<1>3. /\ History(h, macs, l) /\ macs \in Nat /\ l \in Seq(Logs) /\ len \in Nat /\ len = Len(l)
      /\ s \in AnyState /\ Had(l, s)
  BY <1>1, <1>2 DEF HomeInv, Inv, Bounds, HadInv
<1>4. s.version = len
  BY <1>2, IdleOwesNothing DEF SyncInv, OwedInv, Brought, Current, Quiet
<1>5. s = After(l, len)
  BY <1>3, <1>4 DEF Had
<1>6. PICK v \in 1..len : LastSet(l, len, i, v)
  <2>1. PICK v \in DOMAIN l : /\ l[v].idx = i /\ l[v].op = "SET"
                              /\ \A w \in DOMAIN l : w > v => l[w].idx # i
    BY <1>2 DEF SetLast
  <2>2. v \in 1..len /\ \A w \in v + 1..len : w \in DOMAIN l /\ w > v
    BY <1>3, <2>1
  <2>3. LastSet(l, len, i, v)
    BY <2>1, <2>2 DEF LastSet, Untouched
  <2>4. QED
    BY <2>2, <2>3
<1>7. PICK x : Records(s, i) = {x}
  BY <1>2, <1>3, RecordsFinite
<1>8. l[v].mac \in Records(After(l, len), i)
  <2>1. len \in 0..Len(l)
    BY <1>3
  <2>2. QED
    BY <1>3, <1>6, <2>1, SetShows
<1>9. Records(After(l, len), i) = {l[v].mac}
  BY <1>5, <1>7, <1>8
<1>10. Shows(l, len, view[c]) /\ Untouched(l, len, Len(l), i)
  BY <1>2, <1>3, <1>4 DEF ViewInv, ShowsInv, Untouched
<1>11. view[c][i] = l[v].mac
  BY <1>6, <1>9, <1>10 DEF Shows
<1>12. QED
  BY <1>2, <1>5, <1>9, <1>11

(* With nothing outstanding, a listener that keeps the last event of each     *)
(* index holds the server's value of it, where the index has one record and   *)
(* was set last: pages emit what they apply, from the state they asked from   *)
(* (appstate/layer.ts applyMutations), and a push emits its own patch.       *)
THEOREM ViewFollowsHolds == Spec => []ViewFollows
<1>1. Init => Inv /\ SyncInv /\ ViewInv
  BY InitInv, InitSync, InitView
<1>2. Inv /\ SyncInv /\ ViewInv /\ [Next]_vars => Inv' /\ SyncInv' /\ ViewInv'
  BY Inductive, SyncInductive, ViewInductive
<1>3. Inv /\ SyncInv /\ ViewInv => ViewFollows
  BY ShownAtLast
<1>4. QED
  BY <1>1, <1>2, <1>3, PTL DEF Spec
=============================================================================
