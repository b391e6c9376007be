--------------------------- MODULE AuthLog_proofs ---------------------------
(* What holds of the credential log for every set of keys and values, every  *)
(* batch size, compaction threshold and file length: the invariants of its   *)
(* file and its index, that saved credentials never vanish, and that it      *)
(* implements the map of DurableMap.                                         *)
EXTENDS AuthLog, FiniteSetTheorems, SequenceTheorems, WellFoundedInduction, NaturalsInduction, TLAPS

----------------------------------------------------------------------------
(* Positions in a sequence. *)

LEMMA LastIndex ==
    ASSUME NEW n \in Nat, NEW T \in SUBSET (1..n), T # {}
    PROVE  \E i \in T : \A j \in T : j <= i
<1> DEFINE U == {n - i : i \in T}
<1>1. U \subseteq Nat
  OBVIOUS
<1>2. U # {}
  <2>1. PICK i \in T : TRUE
    OBVIOUS
  <2>2. n - i \in U
    BY <2>1
  <2>3. QED
    BY <2>2
<1>3. PICK u \in U : \A v \in U : ~ (<<v, u>> \in OpToRel(<, Nat))
  BY <1>1, <1>2, NatLessThanWellFounded, WFMin
<1>4. PICK i \in T : u = n - i
  BY <1>3
<1>5. ASSUME NEW j \in T PROVE j <= i
  <2>1. n - j \in U
    OBVIOUS
  <2>2. ~ (n - j < n - i)
    <3>1. n - j \in Nat /\ n - i \in Nat
      BY <1>1, <2>1, <1>3, <1>4
    <3>2. ~ (<<n - j, n - i>> \in OpToRel(<, Nat))
      BY <1>3, <1>4, <2>1, Zenon
    <3>3. QED
      BY <3>1, <3>2, Zenon DEF OpToRel
  <2>3. QED
    BY <2>2
<1>6. QED
  BY <1>4, <1>5

LEMMA FirstIndex ==
    ASSUME NEW n \in Nat, NEW T \in SUBSET (1..n), T # {}
    PROVE  \E i \in T : \A j \in T : i <= j
<1>1. T \subseteq Nat
  OBVIOUS
<1>2. PICK i \in T : \A j \in T : ~ (<<j, i>> \in OpToRel(<, Nat))
  BY <1>1, NatLessThanWellFounded, WFMin
<1>3. ASSUME NEW j \in T PROVE ~ (j < i)
  BY <1>1, <1>2, Zenon DEF OpToRel
<1>4. QED
  BY <1>1, <1>3

----------------------------------------------------------------------------
(* Apply: the last record of a key counts. *)

LEMMA ApplyLast ==
    ASSUME NEW m, NEW b \in Seq(Chunk), NEW k \in Keys, NEW i \in 1..Len(b),
           b[i] \in Rec, b[i].key = k,
           \A j \in 1..Len(b) : b[j] \in Rec /\ b[j].key = k => j <= i
    PROVE  Apply(m, b)[k] = b[i].val
<1> DEFINE at == {j \in 1..Len(b) : b[j] \in Rec /\ b[j].key = k}
<1>1. i \in at /\ \A j \in at : j <= i
  OBVIOUS
<1>2. (CHOOSE x \in at : \A j \in at : j <= x) = i
  <2>1. \A x \in at : (\A j \in at : j <= x) => x = i
    BY <1>1
  <2>2. QED
    BY <1>1, <2>1
<1>3. QED
  BY <1>1, <1>2 DEF Apply

LEMMA ApplyNone ==
    ASSUME NEW m, NEW b \in Seq(Chunk), NEW k \in Keys,
           \A j \in 1..Len(b) : ~ (b[j] \in Rec /\ b[j].key = k)
    PROVE  Apply(m, b)[k] = m[k]
<1>1. {j \in 1..Len(b) : b[j] \in Rec /\ b[j].key = k} = {}
  OBVIOUS
<1>2. QED
  BY <1>1 DEF Apply

LEMMA LastOfKey ==
    ASSUME NEW b \in Seq(Chunk), NEW k \in Keys,
           \E j \in 1..Len(b) : b[j] \in Rec /\ b[j].key = k
    PROVE  \E i \in 1..Len(b) :
              /\ b[i] \in Rec /\ b[i].key = k
              /\ \A j \in 1..Len(b) : b[j] \in Rec /\ b[j].key = k => j <= i
<1> DEFINE at == {j \in 1..Len(b) : b[j] \in Rec /\ b[j].key = k}
<1>1. at \in SUBSET (1..Len(b)) /\ at # {} /\ Len(b) \in Nat
  OBVIOUS
<1>2. PICK i \in at : \A j \in at : j <= i
  BY <1>1, LastIndex
<1>3. QED
  BY <1>2

LEMMA ApplyType ==
    ASSUME NEW m \in [Keys -> Vals \union {None}], NEW b \in Seq(Chunk)
    PROVE  Apply(m, b) \in [Keys -> Vals \union {None}]
<1>1. Apply(m, b) = [k \in Keys |-> Apply(m, b)[k]]
  BY DEF Apply
<1>2. ASSUME NEW k \in Keys PROVE Apply(m, b)[k] \in Vals \union {None}
  <2>1. CASE \E j \in 1..Len(b) : b[j] \in Rec /\ b[j].key = k
    <3>1. PICK i \in 1..Len(b) :
              /\ b[i] \in Rec /\ b[i].key = k
              /\ \A j \in 1..Len(b) : b[j] \in Rec /\ b[j].key = k => j <= i
      BY <2>1, LastOfKey
    <3>2. Apply(m, b)[k] = b[i].val
      BY <3>1, ApplyLast
    <3>3. QED
      BY <3>1, <3>2 DEF Rec
  <2>2. CASE \A j \in 1..Len(b) : ~ (b[j] \in Rec /\ b[j].key = k)
    BY <2>2, ApplyNone
  <2>3. QED
    BY <2>1, <2>2
<1>3. QED
  BY <1>1, <1>2

LEMMA ApplyExt ==
    ASSUME NEW m, NEW n, NEW a, NEW b, \A k \in Keys : Apply(m, a)[k] = Apply(n, b)[k]
    PROVE  Apply(m, a) = Apply(n, b)
<1>1. Apply(m, a) = [k \in Keys |-> Apply(m, a)[k]]
  BY SMT DEF Apply
<1>2. Apply(n, b) = [k \in Keys |-> Apply(n, b)[k]]
  BY SMT DEF Apply
<1>3. QED
  BY <1>1, <1>2, Zenon

\* Replaying a log is replaying its parts.
LEMMA ApplyConcat ==
    ASSUME NEW m \in [Keys -> Vals \union {None}], NEW a \in Seq(Chunk), NEW b \in Seq(Chunk)
    PROVE  Apply(m, a \o b) = Apply(Apply(m, a), b)
<1>1. PICK c \in Seq(Chunk) : c = a \o b
  BY ConcatProperties
<1>2. /\ Len(a) \in Nat /\ Len(b) \in Nat /\ Len(c) = Len(a) + Len(b)
  BY <1>1, ConcatProperties
<1>3. \A i \in 1..Len(a) : i \in 1..Len(c) /\ c[i] = a[i]
  BY <1>1, ConcatProperties
<1>4. \A i \in 1..Len(b) : Len(a) + i \in 1..Len(c) /\ c[Len(a) + i] = b[i]
  BY <1>1, ConcatProperties
<1>5. \A i \in 1..Len(c) : i \in 1..Len(a) \/ (i - Len(a) \in 1..Len(b) /\ c[i] = b[i - Len(a)])
  BY <1>1, ConcatProperties
<1>6. ASSUME NEW k \in Keys PROVE Apply(m, c)[k] = Apply(Apply(m, a), b)[k]
  <2>1. CASE \E j \in 1..Len(b) : b[j] \in Rec /\ b[j].key = k
    <3>1. PICK i \in 1..Len(b) :
              /\ b[i] \in Rec /\ b[i].key = k
              /\ \A j \in 1..Len(b) : b[j] \in Rec /\ b[j].key = k => j <= i
      BY <2>1, LastOfKey
    <3>2. Apply(Apply(m, a), b)[k] = b[i].val
      BY <3>1, ApplyLast
    <3>3. PICK l \in 1..Len(c) : l = Len(a) + i /\ c[l] = b[i]
      BY <1>4
    <3>4. ASSUME NEW j \in 1..Len(c), c[j] \in Rec /\ c[j].key = k PROVE j <= l
      <4>1. CASE j \in 1..Len(a)
        BY <4>1, <1>2, <3>3
      <4>2. CASE j - Len(a) \in 1..Len(b) /\ c[j] = b[j - Len(a)]
        <5>1. j - Len(a) <= i
          BY <3>1, <3>4, <4>2
        <5>2. QED
          BY <5>1, <1>2, <3>3
      <4>3. QED
        BY <4>1, <4>2, <1>5
    <3>5. Apply(m, c)[k] = c[l].val
      BY <3>1, <3>3, <3>4, ApplyLast
    <3>6. QED
      BY <3>2, <3>3, <3>5
  <2>2. CASE /\ \A j \in 1..Len(b) : ~ (b[j] \in Rec /\ b[j].key = k)
             /\ \E j \in 1..Len(a) : a[j] \in Rec /\ a[j].key = k
    <3>1. PICK i \in 1..Len(a) :
              /\ a[i] \in Rec /\ a[i].key = k
              /\ \A j \in 1..Len(a) : a[j] \in Rec /\ a[j].key = k => j <= i
      BY <2>2, LastOfKey
    <3>2. Apply(Apply(m, a), b)[k] = Apply(m, a)[k]
      BY <2>2, ApplyNone
    <3>3. Apply(m, a)[k] = a[i].val
      BY <3>1, ApplyLast
    <3>4. i \in 1..Len(c) /\ c[i] = a[i]
      BY <1>3
    <3>5. ASSUME NEW j \in 1..Len(c), c[j] \in Rec /\ c[j].key = k PROVE j <= i
      <4>1. CASE j \in 1..Len(a)
        BY <4>1, <1>3, <3>1, <3>5
      <4>2. CASE j - Len(a) \in 1..Len(b) /\ c[j] = b[j - Len(a)]
        BY <4>2, <2>2, <3>5
      <4>3. QED
        BY <4>1, <4>2, <1>5
    <3>6. Apply(m, c)[k] = c[i].val
      BY <3>1, <3>4, <3>5, ApplyLast
    <3>7. QED
      BY <3>2, <3>3, <3>4, <3>6
  <2>3. CASE /\ \A j \in 1..Len(b) : ~ (b[j] \in Rec /\ b[j].key = k)
             /\ \A j \in 1..Len(a) : ~ (a[j] \in Rec /\ a[j].key = k)
    <3>1. ASSUME NEW j \in 1..Len(c) PROVE ~ (c[j] \in Rec /\ c[j].key = k)
      <4>1. CASE j \in 1..Len(a)
        BY <4>1, <1>3, <2>3
      <4>2. CASE j - Len(a) \in 1..Len(b) /\ c[j] = b[j - Len(a)]
        BY <4>2, <2>3
      <4>3. QED
        BY <4>1, <4>2, <1>5
    <3>2. Apply(m, c)[k] = m[k]
      BY <3>1, ApplyNone
    <3>3. Apply(Apply(m, a), b)[k] = Apply(m, a)[k] /\ Apply(m, a)[k] = m[k]
      BY <2>3, ApplyNone
    <3>4. QED
      BY <3>2, <3>3
  <2>4. QED
    BY <2>1, <2>2, <2>3
<1>7. QED
  BY <1>1, <1>6, ApplyExt

LEMMA ApplyEmpty ==
    ASSUME NEW m \in [Keys -> Vals \union {None}], NEW b \in Seq(Chunk),
           \A i \in 1..Len(b) : b[i] \notin Rec
    PROVE  Apply(m, b) = m
<1>1. ASSUME NEW k \in Keys PROVE Apply(m, b)[k] = m[k]
  BY ApplyNone
<1>2. Apply(m, b) = [k \in Keys |-> Apply(m, b)[k]]
  BY DEF Apply
<1>3. QED
  BY <1>1, <1>2

----------------------------------------------------------------------------
(* GoodPart: what precedes the first broken record. *)

LEMMA FirstBroken ==
    ASSUME NEW f \in Seq(Chunk), Broken(f) # {}
    PROVE  \E i \in 1..Len(f) : /\ i \in Broken(f) /\ \A j \in Broken(f) : i <= j
                                /\ GoodPart(f) = SubSeq(f, 1, i - 1)
<1>1. Broken(f) \in SUBSET (1..Len(f)) /\ Len(f) \in Nat
  BY DEF Broken
<1>2. PICK i \in Broken(f) : \A j \in Broken(f) : i <= j
  BY <1>1, FirstIndex
<1>3. \A x \in Broken(f) : (\A j \in Broken(f) : x <= j) => x = i
  BY <1>1, <1>2
<1>4. (CHOOSE x \in Broken(f) : \A j \in Broken(f) : x <= j) = i
  BY <1>2, <1>3
<1>5. QED
  BY <1>1, <1>2, <1>4 DEF GoodPart

LEMMA PrefixType ==
    ASSUME NEW S, NEW f \in Seq(S), NEW n \in 0..Len(f)
    PROVE  /\ SubSeq(f, 1, n) \in Seq(S) /\ Len(SubSeq(f, 1, n)) = n
           /\ \A i \in 1..n : SubSeq(f, 1, n)[i] = f[i]
<1>1. \A i \in 1..n : f[i] \in S
  OBVIOUS
<1>2. n \in Int /\ Len(f) \in Nat
  OBVIOUS
<1>3. QED
  BY <1>1, <1>2, SubSeqProperties

LEMMA GoodPartType ==
    ASSUME NEW f \in Seq(Chunk)
    PROVE  /\ GoodPart(f) \in Seq(Chunk)
           /\ Broken(GoodPart(f)) = {}
           /\ GoodPart(GoodPart(f)) = GoodPart(f)
           /\ Headed(f) => Headed(GoodPart(f))
<1>1. CASE Broken(f) = {}
  BY <1>1 DEF GoodPart
<1>2. CASE Broken(f) # {}
  <2>1. PICK i \in 1..Len(f) : /\ i \in Broken(f) /\ \A j \in Broken(f) : i <= j
                               /\ GoodPart(f) = SubSeq(f, 1, i - 1)
    BY <1>2, FirstBroken
  <2>2. PICK g : g = GoodPart(f)
    OBVIOUS
  <2>3. i - 1 \in 0..Len(f)
    OBVIOUS
  <2>4. g \in Seq(Chunk) /\ Len(g) = i - 1 /\ \A j \in 1..(i - 1) : g[j] = f[j]
    BY <2>1, <2>2, <2>3, PrefixType
  <2>5. Broken(g) = {}
    <3>1. ASSUME NEW j \in Broken(g) PROVE FALSE
      <4>1. j \in 1..(i - 1) /\ j \in 1..Len(f) /\ g[j] \in {Stub, Torn}
        BY <2>4 DEF Broken
      <4>2. j \in Broken(f)
        BY <4>1, <2>4 DEF Broken
      <4>3. QED
        BY <4>1, <4>2, <2>1
    <3>2. QED
      BY <3>1
  <2>6. GoodPart(g) = g
    BY <2>5 DEF GoodPart
  <2>7. ASSUME Headed(f) PROVE Headed(g)
    <3>1. f[1] = Magic
      BY <2>7 DEF Headed
    <3>2. i # 1
      BY <2>1, <3>1, ChunksAssumption DEF Broken
    <3>3. Len(g) # 0 /\ g[1] = Magic
      BY <2>4, <3>1, <3>2
    <3>4. QED
      BY <2>4, <3>3 DEF Headed
  <2>8. QED
    BY <2>2, <2>4, <2>5, <2>6, <2>7
<1>3. QED
  BY <1>1, <1>2

LEMMA BrokenConcat ==
    ASSUME NEW f \in Seq(Chunk), NEW w \in Seq(Chunk)
    PROVE  /\ \A i \in Broken(f) : i \in Broken(f \o w)
           /\ \A i \in Broken(w) : Len(f) + i \in Broken(f \o w)
           /\ \A i \in Broken(f \o w) : i \in Broken(f) \/ i - Len(f) \in Broken(w)
<1>1. PICK c \in Seq(Chunk) : c = f \o w
  BY ConcatProperties
<1>2. \A i \in 1..Len(f) : i \in 1..Len(c) /\ c[i] = f[i]
  BY <1>1, ConcatProperties
<1>3. \A i \in 1..Len(w) : Len(f) + i \in 1..Len(c) /\ c[Len(f) + i] = w[i]
  BY <1>1, ConcatProperties
<1>4. \A i \in 1..Len(c) : \/ i \in 1..Len(f) /\ c[i] = f[i]
                           \/ i - Len(f) \in 1..Len(w) /\ c[i] = w[i - Len(f)]
  BY <1>1, ConcatProperties
<1>5. \A i \in Broken(f) : i \in Broken(c)
  BY <1>2 DEF Broken
<1>6. \A i \in Broken(w) : Len(f) + i \in Broken(c)
  BY <1>3 DEF Broken
<1>7. ASSUME NEW i \in Broken(c) PROVE i \in Broken(f) \/ i - Len(f) \in Broken(w)
  <2>1. i \in 1..Len(c) /\ c[i] \in {Stub, Torn}
    BY DEF Broken
  <2>2. QED
    BY <1>4, <2>1 DEF Broken
<1>8. QED
  BY <1>1, <1>5, <1>6, <1>7

LEMMA PrefixConcat ==
    ASSUME NEW f \in Seq(Chunk), NEW w \in Seq(Chunk)
    PROVE  /\ \A n \in 0..Len(f) : SubSeq(f \o w, 1, n) = SubSeq(f, 1, n)
           /\ \A n \in 0..Len(w) : SubSeq(f \o w, 1, Len(f) + n) = f \o SubSeq(w, 1, n)
<1>1. PICK c \in Seq(Chunk) : c = f \o w
  BY ConcatProperties
<1>2. Len(c) = Len(f) + Len(w) /\ Len(f) \in Nat /\ Len(w) \in Nat
  BY <1>1, ConcatProperties
<1>3. \A i \in 1..Len(c) : c[i] = IF i <= Len(f) THEN f[i] ELSE w[i - Len(f)]
  BY <1>1, <1>2, ConcatProperties
<1>4. ASSUME NEW n \in 0..Len(f) PROVE SubSeq(c, 1, n) = SubSeq(f, 1, n)
  <2>1. n \in 0..Len(c)
    BY <1>2
  <2>2. /\ SubSeq(c, 1, n) \in Seq(Chunk) /\ Len(SubSeq(c, 1, n)) = n
        /\ \A i \in 1..n : SubSeq(c, 1, n)[i] = c[i]
    BY <2>1, PrefixType
  <2>3. /\ SubSeq(f, 1, n) \in Seq(Chunk) /\ Len(SubSeq(f, 1, n)) = n
        /\ \A i \in 1..n : SubSeq(f, 1, n)[i] = f[i]
    BY PrefixType
  <2>4. \A i \in 1..n : c[i] = f[i]
    BY <1>2, <1>3
  <2>5. PICK s \in Seq(Chunk) : s = SubSeq(c, 1, n) /\ Len(s) = n /\ \A i \in 1..n : s[i] = c[i]
    BY <2>2
  <2>6. PICK t \in Seq(Chunk) : t = SubSeq(f, 1, n) /\ Len(t) = n /\ \A i \in 1..n : t[i] = f[i]
    BY <2>3
  <2>7. Len(s) = n /\ Len(t) = n /\ \A i \in 1..n : s[i] = t[i]
    BY <2>4, <2>5, <2>6
  <2>8. s = t
    BY <2>7, SeqEqual
  <2>9. QED
    BY <2>5, <2>6, <2>8
<1>5. ASSUME NEW n \in 0..Len(w) PROVE SubSeq(c, 1, Len(f) + n) = f \o SubSeq(w, 1, n)
  <2>1. Len(f) + n \in 0..Len(c)
    BY <1>2
  <2>2. /\ SubSeq(c, 1, Len(f) + n) \in Seq(Chunk) /\ Len(SubSeq(c, 1, Len(f) + n)) = Len(f) + n
        /\ \A i \in 1..(Len(f) + n) : SubSeq(c, 1, Len(f) + n)[i] = c[i]
    BY <2>1, PrefixType
  <2>3. PICK p \in Seq(Chunk) : p = SubSeq(w, 1, n) /\ Len(p) = n /\ \A i \in 1..n : p[i] = w[i]
    BY PrefixType
  <2>4. PICK q \in Seq(Chunk) : /\ q = f \o p /\ Len(q) = Len(f) + n
           /\ \A i \in 1..(Len(f) + n) : q[i] = IF i <= Len(f) THEN f[i] ELSE p[i - Len(f)]
    <3>1. /\ f \o p \in Seq(Chunk) /\ Len(f \o p) = Len(f) + Len(p)
          /\ \A i \in 1..(Len(f) + Len(p)) : (f \o p)[i] = IF i <= Len(f) THEN f[i] ELSE p[i - Len(f)]
      BY ConcatProperties
    <3>2. PICK q \in Seq(Chunk) : q = f \o p
      BY <3>1
    <3>3. QED
      BY <2>3, <3>1, <3>2
  <2>5. ASSUME NEW i \in 1..(Len(f) + n) PROVE c[i] = q[i]
    <3>1. i \in 1..Len(c)
      BY <1>2
    <3>2. CASE i <= Len(f)
      BY <3>1, <3>2, <1>3, <2>4
    <3>3. CASE ~ (i <= Len(f))
      <4>1. i - Len(f) \in 1..n
        BY <3>3, <1>2
      <4>2. QED
        BY <4>1, <3>1, <3>3, <1>3, <2>3, <2>4
    <3>4. QED
      BY <3>2, <3>3
  <2>6. \A i \in 1..(Len(f) + n) : SubSeq(c, 1, Len(f) + n)[i] = q[i]
    BY <2>2, <2>5
  <2>7. QED
    BY <2>2, <2>3, <2>4, <2>6, SeqEqual
<1>6. QED
  BY <1>1, <1>4, <1>5

LEMMA GoodPartConcat ==
    ASSUME NEW f \in Seq(Chunk), NEW w \in Seq(Chunk)
    PROVE  GoodPart(f \o w) = IF Broken(f) = {} THEN f \o GoodPart(w) ELSE GoodPart(f)
<1>1. PICK c \in Seq(Chunk) : c = f \o w
  BY ConcatProperties
<1>2. Len(c) = Len(f) + Len(w) /\ Len(f) \in Nat /\ Len(w) \in Nat
  BY <1>1, ConcatProperties
<1>3. /\ \A i \in Broken(f) : i \in Broken(c)
      /\ \A i \in Broken(w) : Len(f) + i \in Broken(c)
      /\ \A i \in Broken(c) : i \in Broken(f) \/ i - Len(f) \in Broken(w)
  BY <1>1, BrokenConcat
<1>4. CASE Broken(f) # {}
  <2>1. PICK i \in 1..Len(f) : /\ i \in Broken(f) /\ \A j \in Broken(f) : i <= j
                               /\ GoodPart(f) = SubSeq(f, 1, i - 1)
    BY <1>4, FirstBroken
  <2>2. PICK k \in 1..Len(c) : /\ k \in Broken(c) /\ \A j \in Broken(c) : k <= j
                               /\ GoodPart(c) = SubSeq(c, 1, k - 1)
    BY <2>1, <1>3, FirstBroken
  <2>3. k <= i
    BY <2>1, <2>2, <1>3
  <2>4. k \in Broken(f)
    <3>1. ASSUME k - Len(f) \in Broken(w) PROVE FALSE
      <4>1. k - Len(f) >= 1
        BY <3>1, <1>2 DEF Broken
      <4>2. QED
        BY <4>1, <2>1, <2>3, <1>2
    <3>2. QED
      BY <3>1, <2>2, <1>3
  <2>5. k = i
    BY <2>1, <2>3, <2>4, <1>2
  <2>6. SubSeq(c, 1, i - 1) = SubSeq(f, 1, i - 1)
    <3>1. i - 1 \in 0..Len(f)
      BY <1>2
    <3>2. QED
      BY <3>1, <1>1, PrefixConcat
  <2>7. QED
    BY <1>1, <1>4, <2>1, <2>2, <2>5, <2>6
<1>5. CASE Broken(f) = {} /\ Broken(w) = {}
  <2>1. Broken(c) = {}
    BY <1>3, <1>5
  <2>2. QED
    BY <1>1, <1>5, <2>1 DEF GoodPart
<1>6. CASE Broken(f) = {} /\ Broken(w) # {}
  <2>1. PICK i \in 1..Len(w) : /\ i \in Broken(w) /\ \A j \in Broken(w) : i <= j
                               /\ GoodPart(w) = SubSeq(w, 1, i - 1)
    BY <1>6, FirstBroken
  <2>2. PICK k \in 1..Len(c) : /\ k \in Broken(c) /\ \A j \in Broken(c) : k <= j
                               /\ GoodPart(c) = SubSeq(c, 1, k - 1)
    BY <2>1, <1>3, FirstBroken
  <2>3. k <= Len(f) + i
    BY <2>1, <2>2, <1>3
  <2>4. k - Len(f) \in Broken(w)
    BY <2>2, <1>3, <1>6
  <2>5. i <= k - Len(f)
    BY <2>1, <2>4
  <2>6. k - 1 = Len(f) + (i - 1) /\ i - 1 \in 0..Len(w)
    BY <2>3, <2>5, <1>2
  <2>7. SubSeq(c, 1, Len(f) + (i - 1)) = f \o SubSeq(w, 1, i - 1)
    BY <2>6, <1>1, PrefixConcat
  <2>8. QED
    BY <1>1, <1>6, <2>1, <2>2, <2>6, <2>7
<1>7. QED
  BY <1>4, <1>5, <1>6

----------------------------------------------------------------------------
(* What an append, an open and a compaction make of the file. *)

LEMMA Chunks ==
    /\ \A r \in Rec : r \in Chunk /\ r # Magic /\ r # Stub /\ r # Torn
    /\ Magic \in Chunk /\ Stub \in Chunk /\ Torn \in Chunk /\ Magic \notin Rec
    /\ \A f \in Seq(Chunk) : f # None
    /\ \A b \in Seq(Rec) : b \in Seq(Chunk)
<1>1. \A r \in Rec : r \in Chunk /\ r # Magic /\ r # Stub /\ r # Torn
  BY FileAssumption DEF Chunk
<1>2. Magic \in Chunk /\ Stub \in Chunk /\ Torn \in Chunk /\ Magic \notin Rec
  BY FileAssumption DEF Chunk
<1>3. \A f \in Seq(Chunk) : f # None
  BY FileAssumption
<1>4. \A b \in Seq(Rec) : b \in Seq(Chunk)
  BY SeqMonotonic DEF Chunk
<1>5. QED
  BY <1>1, <1>2, <1>3, <1>4

LEMMA RecsWhole ==
    ASSUME NEW b \in Seq(Rec)
    PROVE  Broken(b) = {} /\ GoodPart(b) = b /\ (b # << >> => b[1] # Magic)
<1>1. \A i \in 1..Len(b) : b[i] \in Rec
  OBVIOUS
<1>2. Broken(b) = {}
  BY <1>1, Chunks DEF Broken
<1>3. b # << >> => b[1] # Magic
  BY <1>1, Chunks
<1>4. QED
  BY <1>2, <1>3 DEF GoodPart

LEMMA TailPiece ==
    ASSUME NEW t \in {<< >>, <<Stub>>, <<Torn>>}
    PROVE  /\ t \in Seq(Chunk) /\ GoodPart(t) = << >> /\ Broken(t) \subseteq {Len(t)}
           /\ t # << >> => t[1] # Magic /\ Broken(t) # {}
<1>1. CASE t = << >>
  BY <1>1 DEF GoodPart, Broken
<1>2. CASE t \in {<<Stub>>, <<Torn>>}
  <2>0. PICK x \in {Stub, Torn} : t = <<x>>
    BY <1>2
  <2>1. t \in Seq(Chunk) /\ Len(t) = 1 /\ t[1] = x /\ x # Magic
    BY <2>0, Chunks, ChunksAssumption
  <2>2. Broken(t) = {1}
    BY <2>1 DEF Broken
  <2>3. PICK i \in 1..Len(t) : i \in Broken(t) /\ GoodPart(t) = SubSeq(t, 1, i - 1)
    BY <2>1, <2>2, FirstBroken
  <2>4. GoodPart(t) = << >>
    BY <2>1, <2>3, SubSeqEmpty
  <2>5. QED
    BY <2>1, <2>2, <2>4
<1>3. QED
  BY <1>1, <1>2

LEMMA PieceOf ==
    ASSUME NEW b \in Seq(Rec), b # << >>, NEW w \in Pieces(b)
    PROVE  /\ w \in Seq(Chunk) /\ Broken(w) \subseteq {Len(w)}
           /\ w # << >> => w[1] # Magic
           /\ \E n \in 0..Len(b) : GoodPart(w) = SubSeq(b, 1, n)
<1>1. CASE w = b
  <2>1. SubSeq(b, 1, Len(b)) = b /\ Len(b) \in 0..Len(b)
    BY SubSeqFull
  <2>2. QED
    BY <1>1, <2>1, RecsWhole, Chunks
<1>2. CASE w # b
  <2>0. PICK n \in 0..(Len(b) - 1) : w \in {SubSeq(b, 1, n) \o t : t \in {<< >>, <<Stub>>, <<Torn>>}}
    BY <1>2, Zenon DEF Pieces
  <2>1. PICK t \in {<< >>, <<Stub>>, <<Torn>>} : w = SubSeq(b, 1, n) \o t
    BY <2>0, Zenon
  <2>2. n \in 0..Len(b)
    OBVIOUS
  <2>3. PICK p \in Seq(Rec) : p = SubSeq(b, 1, n)
    BY <2>2, PrefixType
  <2>4. p \in Seq(Chunk) /\ Broken(p) = {} /\ (p # << >> => p[1] # Magic)
    BY RecsWhole, Chunks
  <2>5. t \in Seq(Chunk) /\ GoodPart(t) = << >> /\ Broken(t) \subseteq {Len(t)} /\ (t # << >> => t[1] # Magic)
    BY TailPiece
  <2>6. w = p \o t
    BY <2>1, <2>3
  <2>7. /\ w \in Seq(Chunk) /\ Len(w) = Len(p) + Len(t)
        /\ Len(p) \in Nat /\ Len(t) \in Nat
        /\ \A i \in 1..(Len(p) + Len(t)) : w[i] = IF i <= Len(p) THEN p[i] ELSE t[i - Len(p)]
    BY <2>4, <2>5, <2>6, ConcatProperties
  <2>8. GoodPart(w) = p
    <3>1. GoodPart(w) = p \o << >>
      BY <2>4, <2>5, <2>6, GoodPartConcat
    <3>2. QED
      BY <3>1, <2>4, ConcatEmptySeq
  <2>9. Broken(w) \subseteq {Len(w)}
    <3>1. ASSUME NEW i \in Broken(w) PROVE i = Len(w)
      <4>1. i - Len(p) \in Broken(t)
        BY <2>4, <2>5, <2>6, BrokenConcat
      <4>2. i - Len(p) = Len(t)
        BY <4>1, <2>5
      <4>3. i \in Int
        BY <2>7 DEF Broken
      <4>4. QED
        BY <4>2, <4>3, <2>7
    <3>2. QED
      BY <3>1
  <2>10. ASSUME w # << >> PROVE w[1] # Magic
    <3>1. Len(w) # 0
      BY <2>7, <2>10, EmptySeq
    <3>2. CASE p = << >>
      <4>1. Len(p) = 0 /\ Len(t) # 0
        BY <3>1, <3>2, <2>7
      <4>2. w[1] = t[1] /\ t # << >>
        BY <4>1, <2>7
      <4>3. QED
        BY <4>2, <2>5
    <3>3. CASE p # << >>
      <4>1. Len(p) \in Nat \ {0}
        BY <3>3, <2>4, EmptySeq
      <4>2. w[1] = p[1]
        BY <4>1, <2>7
      <4>3. QED
        BY <3>3, <4>2, <2>4
    <3>4. QED
      BY <3>2, <3>3
  <2>11. QED
    BY <2>2, <2>3, <2>7, <2>8, <2>9, <2>10
<1>3. QED
  BY <1>1, <1>2

LEMMA ConcatHead ==
    ASSUME NEW f \in Seq(Chunk), NEW w \in Seq(Chunk)
    PROVE  /\ f \o w \in Seq(Chunk)
           /\ Headed(f) => Headed(f \o w)
           /\ ~Headed(f) /\ (w # << >> => w[1] # Magic) => ~Headed(f \o w)
<1>1. PICK c \in Seq(Chunk) : c = f \o w
  BY ConcatProperties
<1>2. /\ Len(c) = Len(f) + Len(w) /\ Len(f) \in Nat /\ Len(w) \in Nat
      /\ \A i \in 1..(Len(f) + Len(w)) : c[i] = IF i <= Len(f) THEN f[i] ELSE w[i - Len(f)]
  BY <1>1, ConcatProperties
<1>3. CASE f = << >>
  <2>1. c = w
    BY <1>1, <1>3, ConcatEmptySeq
  <2>2. QED
    BY <1>1, <1>3, <2>1 DEF Headed
<1>4. CASE f # << >>
  <2>1. Len(f) \in Nat \ {0}
    BY <1>4, EmptySeq
  <2>2. c[1] = f[1] /\ c # << >>
    BY <1>2, <2>1
  <2>3. QED
    BY <1>1, <1>4, <2>2 DEF Headed
<1>5. QED
  BY <1>3, <1>4

LEMMA RecoverType ==
    ASSUME NEW f, f = None \/ f \in Seq(Chunk)
    PROVE  Recover(f) \in [Keys -> Vals \union {None}]
<1>1. Empty \in [Keys -> Vals \union {None}]
  BY DEF Empty
<1>2. CASE f = None \/ ~Headed(f)
  BY <1>1, <1>2 DEF Recover
<1>3. CASE f \in Seq(Chunk) /\ Headed(f)
  <2>1. GoodPart(f) \in Seq(Chunk)
    BY <1>3, GoodPartType
  <2>2. Recover(f) = Apply(Empty, GoodPart(f))
    BY <1>3, Chunks DEF Recover
  <2>3. QED
    BY <1>1, <2>1, <2>2, ApplyType
<1>4. QED
  BY <1>2, <1>3

\* What a later open finds of a write `w` to the file `f`.
LEMMA RecoverConcat ==
    ASSUME NEW f \in Seq(Chunk), NEW w \in Seq(Chunk), Headed(f)
    PROVE  Recover(f \o w) = IF Broken(f) = {} THEN Apply(Recover(f), GoodPart(w)) ELSE Recover(f)
<1>1. f # None /\ f \o w # None /\ f \o w \in Seq(Chunk) /\ Headed(f \o w)
  BY ConcatHead, Chunks
<1>2. Recover(f) = Apply(Empty, GoodPart(f)) /\ Recover(f \o w) = Apply(Empty, GoodPart(f \o w))
  BY <1>1 DEF Recover
<1>3. CASE Broken(f) # {}
  BY <1>2, <1>3, GoodPartConcat
<1>4. CASE Broken(f) = {}
  <2>1. GoodPart(f \o w) = f \o GoodPart(w) /\ GoodPart(f) = f
    BY <1>4, GoodPartConcat DEF GoodPart
  <2>2. Empty \in [Keys -> Vals \union {None}] /\ GoodPart(w) \in Seq(Chunk)
    BY GoodPartType DEF Empty
  <2>3. Apply(Empty, f \o GoodPart(w)) = Apply(Apply(Empty, f), GoodPart(w))
    BY <2>2, ApplyConcat
  <2>4. QED
    BY <1>2, <1>4, <2>1, <2>3
<1>5. QED
  BY <1>3, <1>4

LEMMA RecoverHeadless ==
    ASSUME NEW f \in Seq(Chunk), NEW w \in Seq(Chunk), ~Headed(f), w # << >> => w[1] # Magic
    PROVE  Recover(f \o w) = Empty /\ Recover(f) = Empty
BY ConcatHead DEF Recover

\* Opening a file does not change what is found in it.
LEMMA TruncatedSame ==
    ASSUME NEW f \in Seq(Chunk), Short(f) \/ Headed(f)
    PROVE  /\ Truncated(f) \in Seq(Chunk) /\ Broken(Truncated(f)) = {}
           /\ Recover(Truncated(f)) = Recover(f)
           /\ Truncated(f) = IF Short(f) THEN << >> ELSE GoodPart(f)
           /\ ~Short(f) => Headed(Truncated(f))
           /\ Short(f) => Recover(f) = Empty
<1>1. CASE Short(f)
  <2>1. Truncated(f) = << >> /\ << >> \in Seq(Chunk) /\ Broken(<< >>) = {} /\ Recover(<< >>) = Empty
    BY <1>1 DEF Truncated, Broken, Recover, Headed
  <2>2. CASE ~Headed(f)
    BY <1>1, <2>1, <2>2 DEF Recover
  <2>3. CASE Headed(f)
    <3>1. f = <<Magic>>
      BY <1>1, <2>3, ChunksAssumption DEF Short, Headed
    <3>2. Len(f) = 1 /\ f[1] = Magic /\ f # None
      BY <3>1, Chunks
    <3>3. Broken(f) = {}
      BY <3>2, ChunksAssumption DEF Broken
    <3>4. Recover(f) = Apply(Empty, f)
      BY <2>3, <3>2, <3>3 DEF Recover, GoodPart
    <3>5. Empty \in [Keys -> Vals \union {None}] /\ \A i \in 1..Len(f) : f[i] \notin Rec
      BY <3>2, Chunks DEF Empty
    <3>6. QED
      BY <1>1, <2>1, <3>4, <3>5, ApplyEmpty
  <2>4. QED
    BY <2>2, <2>3
<1>2. CASE ~Short(f)
  <2>1. Truncated(f) = GoodPart(f)
    BY <1>2 DEF Truncated
  <2>2. /\ GoodPart(f) \in Seq(Chunk) /\ Broken(GoodPart(f)) = {} /\ Headed(GoodPart(f))
        /\ GoodPart(GoodPart(f)) = GoodPart(f)
    BY <1>2, GoodPartType
  <2>3. Recover(GoodPart(f)) = Recover(f)
    BY <1>2, <2>2, Chunks DEF Recover
  <2>4. QED
    BY <1>2, <2>1, <2>2, <2>3
<1>3. QED
  BY <1>1, <1>2

LEMMA LiveFinite ==
    ASSUME NEW m \in [Keys -> Vals \union {None}], NEW S \in SUBSET LiveRecs(m)
    PROVE  /\ IsFiniteSet(S) /\ Cardinality(S) \in Nat
           /\ \E s \in [1..Cardinality(S) -> S] :
                  \A r \in S : \E i \in 1..Cardinality(S) : s[i] = r
<1> DEFINE g == [r \in S |-> r.key]
<1>1. g \in [S -> Keys]
  BY DEF LiveRecs, Rec
<1>2. ASSUME NEW r \in S, NEW q \in S, g[r] = g[q] PROVE r = q
  <2>1. r \in Rec /\ q \in Rec /\ r.key = q.key /\ r.val = q.val
    BY <1>2 DEF LiveRecs
  <2>2. QED
    BY <2>1 DEF Rec
<1>3. g \in Injection(S, Keys)
  BY <1>1, <1>2 DEF Injection, IsInjective
<1>4. IsFiniteSet(S)
  BY <1>3, KeysAssumption, FS_Injection
<1>5. Cardinality(S) \in Nat /\ ExistsBijection(1..Cardinality(S), S)
  BY <1>4, FS_CardinalityType
<1>6. QED
  BY <1>4, <1>5 DEF ExistsBijection, Bijection, Surjection

\* A rewritten file holds the part of the map whose records it was given.
LEMMA ListingHolds ==
    ASSUME NEW m \in [Keys -> Vals \union {None}], NEW S \in SUBSET LiveRecs(m)
    PROVE  /\ Listing(S) \in Seq(Chunk) /\ Headed(Listing(S)) /\ Broken(Listing(S)) = {}
           /\ Recover(Listing(S)) =
                [k \in Keys |-> IF k \in {r.key : r \in S} THEN m[k] ELSE None]
<1>1. PICK n \in Nat : n = Cardinality(S)
  BY LiveFinite
<1>2. PICK s \in [1..n -> S] : /\ Listing(S) = <<Magic>> \o s
                               /\ \A r \in S : \E i \in 1..n : s[i] = r
  BY <1>1, LiveFinite DEF Listing
<1>3. s \in Seq(Rec) /\ Len(s) = n
  BY DEF LiveRecs
<1>4. s \in Seq(Chunk) /\ Broken(s) = {} /\ <<Magic>> \in Seq(Chunk)
  BY <1>3, RecsWhole, Chunks
<1>5. PICK h \in Seq(Chunk) : h = <<Magic>>
  BY <1>4
<1>6. Len(h) = 1 /\ h[1] = Magic
  BY <1>5
<1>7. Headed(h) /\ Broken(h) = {} /\ GoodPart(h) = h /\ h # None
  <2>1. h # << >> /\ h # None
    BY <1>5, <1>6, EmptySeq, Chunks
  <2>2. Broken(h) = {}
    BY <1>6, ChunksAssumption DEF Broken
  <2>3. QED
    BY <1>6, <2>1, <2>2 DEF Headed, GoodPart
<1>8. Recover(h) = Empty
  <2>1. Empty \in [Keys -> Vals \union {None}]
    BY DEF Empty
  <2>2. \A i \in 1..Len(h) : h[i] \notin Rec
    BY <1>6, Chunks
  <2>3. QED
    BY <1>7, <2>1, <2>2, ApplyEmpty DEF Recover
<1>9. GoodPart(s) = s
  BY <1>4 DEF GoodPart
<1>10. Listing(S) = h \o s /\ Listing(S) \in Seq(Chunk) /\ Headed(Listing(S))
  <2>1. Listing(S) = h \o s
    BY <1>2, <1>5
  <2>2. h \o s \in Seq(Chunk) /\ Headed(h \o s)
    BY <1>4, <1>7, ConcatHead
  <2>3. QED
    BY <2>1, <2>2
<1>11. Broken(h \o s) = {}
  BY <1>4, <1>7, BrokenConcat
<1>12. Recover(h \o s) = Apply(Empty, s)
  BY <1>4, <1>7, <1>8, <1>9, RecoverConcat
<1> DEFINE K == {r.key : r \in S}
<1>13. ASSUME NEW k \in Keys PROVE Apply(Empty, s)[k] = IF k \in K THEN m[k] ELSE None
  <2>1. \A i \in 1..Len(s) : s[i] \in Rec /\ s[i] \in S /\ s[i].val = m[s[i].key]
    BY <1>3 DEF LiveRecs
  <2>2. CASE k \notin K
    <3>1. \A i \in 1..Len(s) : ~ (s[i] \in Rec /\ s[i].key = k)
      BY <2>1, <2>2
    <3>2. Apply(Empty, s)[k] = Empty[k]
      BY <1>4, <3>1, ApplyNone
    <3>3. QED
      BY <2>2, <3>2 DEF Empty
  <2>3. CASE k \in K
    <3>1. PICK r \in S : r.key = k
      BY <2>3
    <3>2. PICK i \in 1..n : s[i] = r
      BY <1>2, <3>1
    <3>3. i \in 1..Len(s) /\ s[i] \in Rec /\ s[i].key = k
      BY <1>3, <3>1, <3>2, <2>1
    <3>4. PICK l \in 1..Len(s) :
              /\ s[l] \in Rec /\ s[l].key = k
              /\ \A j \in 1..Len(s) : s[j] \in Rec /\ s[j].key = k => j <= l
      BY <1>4, <3>3, LastOfKey
    <3>5. Apply(Empty, s)[k] = s[l].val
      BY <1>4, <3>4, ApplyLast
    <3>6. QED
      BY <2>1, <2>3, <3>4, <3>5
  <2>4. QED
    BY <2>2, <2>3
<1>14. Apply(Empty, s) = [k \in Keys |-> IF k \in K THEN m[k] ELSE None]
  <2>1. Apply(Empty, s) = [k \in Keys |-> Apply(Empty, s)[k]]
    BY SMT DEF Apply
  <2>2. QED
    BY <1>13, <2>1
<1>15. QED
  BY <1>10, <1>11, <1>12, <1>14

\* A compacted file holds exactly the map it was written from.
LEMMA SnapshotHolds ==
    ASSUME NEW m \in [Keys -> Vals \union {None}]
    PROVE  /\ Snapshot(m) \in Seq(Chunk) /\ Headed(Snapshot(m))
           /\ Broken(Snapshot(m)) = {} /\ Recover(Snapshot(m)) = m
<1> DEFINE S == LiveRecs(m)
<1>1. /\ Snapshot(m) \in Seq(Chunk) /\ Headed(Snapshot(m)) /\ Broken(Snapshot(m)) = {}
      /\ Recover(Snapshot(m)) = [k \in Keys |-> IF k \in {r.key : r \in S} THEN m[k] ELSE None]
  BY ListingHolds DEF Snapshot
<1>2. ASSUME NEW k \in Keys, m[k] # None PROVE k \in {r.key : r \in S}
  <2>1. [key |-> k, val |-> m[k]] \in S
    BY <1>2 DEF LiveRecs, Rec
  <2>2. QED
    BY <2>1
<1>3. [k \in Keys |-> IF k \in {r.key : r \in S} THEN m[k] ELSE None] = m
  BY <1>2
<1>4. QED
  BY <1>1, <1>3

LEMMA Submap ==
    ASSUME NEW m, NEW K \in SUBSET Keys
    PROVE  [k \in Keys |-> IF k \in K THEN m[k] ELSE None] \in Durable!Submaps(m)
BY DEF Durable!Submaps

\* One cut short holds a part of it.
LEMMA CutHolds ==
    ASSUME NEW m \in [Keys -> Vals \union {None}], NEW f \in CutSnapshots(m)
    PROVE  /\ f \in Seq(Chunk) /\ (Short(f) \/ Headed(f))
           /\ Recover(f) \in Durable!Submaps(m)
<1>1. CASE f = <<Stub>>
  <2>1. f \in Seq(Chunk) /\ Short(f) /\ ~Headed(f)
    BY <1>1, Chunks, ChunksAssumption DEF Short, Headed
  <2>2. Recover(f) = Empty
    BY <2>1 DEF Recover
  <2>3. PICK K \in SUBSET Keys : K = {}
    OBVIOUS
  <2>4. Empty \in Durable!Submaps(m)
    <3>1. Empty = [k \in Keys |-> IF k \in K THEN m[k] ELSE None]
      BY <2>3 DEF Empty
    <3>2. [k \in Keys |-> IF k \in K THEN m[k] ELSE None] \in Durable!Submaps(m)
      BY Submap, Zenon
    <3>3. QED
      BY <3>1, <3>2, Zenon
  <2>5. QED
    BY <2>1, <2>2, <2>4
<1>2. CASE f # <<Stub>>
  <2>0. f \in {Listing(S) \o t : S \in (SUBSET LiveRecs(m)) \ {LiveRecs(m)}, t \in {<< >>, <<Stub>>, <<Torn>>}}
    BY <1>2 DEF CutSnapshots
  <2>1. PICK S \in SUBSET LiveRecs(m), t \in {<< >>, <<Stub>>, <<Torn>>} : f = Listing(S) \o t
    BY <2>0
  <2>2. PICK g \in Seq(Chunk) : /\ g = Listing(S) /\ Headed(g) /\ Broken(g) = {}
           /\ Recover(g) = [k \in Keys |-> IF k \in {r.key : r \in S} THEN m[k] ELSE None]
    BY ListingHolds
  <2>3. t \in Seq(Chunk) /\ GoodPart(t) = << >>
    BY TailPiece
  <2>4. f = g \o t
    BY <2>1, <2>2
  <2>5. f \in Seq(Chunk) /\ Headed(f)
    BY <2>2, <2>3, <2>4, ConcatHead
  <2>6. Recover(f) = Apply(Recover(g), << >>)
    BY <2>2, <2>3, <2>4, RecoverConcat
  <2>7. Recover(g) \in [Keys -> Vals \union {None}]
    BY <2>2, RecoverType
  <2>8. << >> \in Seq(Chunk) /\ \A i \in 1..Len(<< >>) : << >>[i] \notin Rec
    OBVIOUS
  <2>9. Recover(f) = Recover(g)
    BY <2>6, <2>7, <2>8, ApplyEmpty
  <2>10. PICK K \in SUBSET Keys : K = {r.key : r \in S}
    BY DEF LiveRecs, Rec
  <2>11. Recover(g) \in Durable!Submaps(m)
    <3>1. Recover(g) = [k \in Keys |-> IF k \in K THEN m[k] ELSE None]
      BY <2>2, <2>10
    <3>2. [k \in Keys |-> IF k \in K THEN m[k] ELSE None] \in Durable!Submaps(m)
      BY Submap, Zenon
    <3>3. QED
      BY <3>1, <3>2, Zenon
  <2>12. QED
    BY <2>5, <2>9, <2>11
<1>3. QED
  BY <1>1, <1>2

----------------------------------------------------------------------------
(* Batches, and what is left of one in the file. *)

\* What keys.set() and creds() append: records of different keys, none of which
\* deletes the credentials.
IsBatch(b) ==
    /\ b \in Seq(Rec) /\ b # << >> /\ b \in Batches
    /\ \A i \in 1..Len(b) : b[i].key = Creds => b[i].val # None

LEMMA SetIsBatch ==
    ASSUME NEW b \in SetBatches PROVE IsBatch(b)
<1>1. PICK n \in 1..MaxBatch : b \in [1..n -> Rec]
  BY DEF SetBatches
<1>2. b \in Seq(Rec) /\ Len(b) = n /\ n \in Nat \ {0}
  BY <1>1, BatchAssumption
<1>3. b # << >>
  BY <1>2, EmptySeq
<1>4. b \in Batches
  BY Zenon DEF Batches
<1>5. \A i \in 1..Len(b) : b[i].key # Creds
  BY DEF SetBatches
<1>6. QED
  BY <1>2, <1>3, <1>4, <1>5 DEF IsBatch

\* A batch of the credentials is one record.
LEMMA CredsIsBatch ==
    ASSUME NEW b \in CredsBatches
    PROVE  /\ IsBatch(b) /\ Len(b) = 1
           /\ b[1] \in Rec /\ b[1].key = Creds /\ b[1].val # None
<1>1. PICK v \in Vals : b = <<[key |-> Creds, val |-> v]>>
  BY DEF CredsBatches
<1>2. PICK r \in Rec : r = [key |-> Creds, val |-> v]
  BY CredsAssumption DEF Rec
<1>3. v # None /\ b = <<r>> /\ b \in Seq(Rec)
  BY <1>1, <1>2, CredsAssumption
<1>4. Len(b) = 1 /\ b[1] = r
  BY <1>3
<1>5. b # << >>
  BY <1>3, <1>4, EmptySeq
<1>6. b \in Batches
  BY Zenon DEF Batches
<1>7. \A i \in 1..Len(b) : b[i].val # None
  BY <1>2, <1>3, <1>4
<1>8. QED
  BY <1>2, <1>3, <1>4, <1>5, <1>6, <1>7 DEF IsBatch

LEMMA CredsKept ==
    ASSUME NEW m \in [Keys -> Vals \union {None}], m[Creds] # None,
           NEW b \in Seq(Rec), \A i \in 1..Len(b) : b[i].key = Creds => b[i].val # None,
           NEW n \in 0..Len(b)
    PROVE  Apply(m, SubSeq(b, 1, n))[Creds] # None
<1>1. PICK p \in Seq(Rec) : p = SubSeq(b, 1, n) /\ Len(p) = n /\ \A i \in 1..n : p[i] = b[i]
  <2>1. /\ SubSeq(b, 1, n) \in Seq(Rec) /\ Len(SubSeq(b, 1, n)) = n
        /\ \A i \in 1..n : SubSeq(b, 1, n)[i] = b[i]
    BY PrefixType
  <2>2. QED
    BY <2>1, Zenon
<1>2. p \in Seq(Chunk) /\ Creds \in Keys
  BY Chunks, CredsAssumption
<1>3. \A i \in 1..Len(p) : p[i].key = Creds => p[i].val # None
  BY <1>1
<1>4. CASE \E j \in 1..Len(p) : p[j] \in Rec /\ p[j].key = Creds
  <2>1. PICK i \in 1..Len(p) :
            /\ p[i] \in Rec /\ p[i].key = Creds
            /\ \A j \in 1..Len(p) : p[j] \in Rec /\ p[j].key = Creds => j <= i
    BY <1>2, <1>4, LastOfKey
  <2>2. Apply(m, p)[Creds] = p[i].val
    BY <1>2, <2>1, ApplyLast
  <2>3. QED
    BY <1>1, <1>3, <2>1, <2>2
<1>5. CASE \A j \in 1..Len(p) : ~ (p[j] \in Rec /\ p[j].key = Creds)
  <2>1. Apply(m, p)[Creds] = m[Creds]
    BY <1>2, <1>5, ApplyNone
  <2>2. QED
    BY <1>1, <2>1
<1>6. QED
  BY <1>4, <1>5

LEMMA DurableApply ==
    ASSUME NEW m, NEW b \in Seq(Rec)
    PROVE  Durable!Apply(m, b) = Apply(m, b)
<1>1. \A i \in 1..Len(b) : b[i] \in Rec
  OBVIOUS
<1>2. ASSUME NEW k \in Keys PROVE Durable!Apply(m, b)[k] = Apply(m, b)[k]
  <2>1. {i \in 1..Len(b) : b[i].key = k} = {i \in 1..Len(b) : b[i] \in Rec /\ b[i].key = k}
    BY <1>1
  <2>2. PICK at : at = {i \in 1..Len(b) : b[i].key = k}
    OBVIOUS
  <2>3. Apply(m, b)[k] = IF at = {} THEN m[k] ELSE b[CHOOSE i \in at : \A j \in at : j <= i].val
    <3>1. at = {i \in 1..Len(b) : b[i] \in Rec /\ b[i].key = k}
      BY <2>1, <2>2, Zenon
    <3>2. QED
      BY <3>1 DEF Apply
  <2>4. Durable!Apply(m, b)[k] = IF at = {} THEN m[k] ELSE b[CHOOSE i \in at : \A j \in at : j <= i].val
    BY <2>2 DEF Durable!Apply
  <2>5. QED
    BY <2>3, <2>4
<1>3. Apply(m, b) = [k \in Keys |-> Apply(m, b)[k]]
  BY SMT DEF Apply
<1>4. Durable!Apply(m, b) = [k \in Keys |-> Durable!Apply(m, b)[k]]
  BY SMT DEF Durable!Apply
<1>5. QED
  BY <1>2, <1>3, <1>4, Zenon

\* The log holds credentials, whether or not an open reads it.
CredsIn(f) == Recover(f)[Creds] # None

\* A file to which a piece of a batch was written.
LEMMA Wrote ==
    ASSUME NEW f \in Seq(Chunk), NEW b, IsBatch(b), NEW w \in Pieces(b)
    PROVE  /\ f \o w \in Seq(Chunk)
           /\ Headed(f \o w) <=> Headed(f)
           /\ Broken(f) # {} => Broken(f \o w) # {}
           /\ Broken(f) = {} => Broken(f \o w) \subseteq {Len(f \o w)}
           /\ Headed(f) /\ Broken(f) = {} =>
                  \E n \in 0..Len(b) : /\ Recover(f \o w) = Apply(Recover(f), SubSeq(b, 1, n))
                                       /\ GoodPart(f \o w) = f \o SubSeq(b, 1, n)
           /\ ~ (Headed(f) /\ Broken(f) = {}) => Recover(f \o w) = Recover(f)
           /\ Broken(f) # {} => GoodPart(f \o w) = GoodPart(f)
           /\ CredsIn(f) => CredsIn(f \o w)
<1>1. /\ w \in Seq(Chunk) /\ Broken(w) \subseteq {Len(w)} /\ (w # << >> => w[1] # Magic)
      /\ \E n \in 0..Len(b) : GoodPart(w) = SubSeq(b, 1, n)
  BY PieceOf DEF IsBatch
<1>2. f \o w \in Seq(Chunk) /\ (Headed(f \o w) <=> Headed(f))
  BY <1>1, ConcatHead
<1>3. Broken(f) # {} => Broken(f \o w) # {}
  BY <1>1, BrokenConcat
<1>4. ASSUME Broken(f) = {}, NEW i \in Broken(f \o w) PROVE i = Len(f \o w)
  <2>1. i - Len(f) \in Broken(w)
    BY <1>1, <1>4, BrokenConcat
  <2>2. i - Len(f) = Len(w)
    BY <1>1, <2>1
  <2>3. i \in Int /\ Len(f) \in Nat /\ Len(f \o w) = Len(f) + Len(w) /\ Len(w) \in Nat
    BY <1>1, ConcatProperties DEF Broken
  <2>4. QED
    BY <2>2, <2>3
<1>5. ASSUME Headed(f), Broken(f) = {}
      PROVE  \E n \in 0..Len(b) : /\ Recover(f \o w) = Apply(Recover(f), SubSeq(b, 1, n))
                                  /\ GoodPart(f \o w) = f \o SubSeq(b, 1, n)
  <2>1. Recover(f \o w) = Apply(Recover(f), GoodPart(w)) /\ GoodPart(f \o w) = f \o GoodPart(w)
    BY <1>1, <1>5, RecoverConcat, GoodPartConcat
  <2>2. QED
    BY <1>1, <2>1
<1>6. ASSUME ~ (Headed(f) /\ Broken(f) = {}) PROVE Recover(f \o w) = Recover(f)
  <2>1. CASE Headed(f)
    BY <1>1, <1>6, <2>1, RecoverConcat
  <2>2. CASE ~Headed(f)
    BY <1>1, <2>2, RecoverHeadless
  <2>3. QED
    BY <2>1, <2>2
<1>7. ASSUME CredsIn(f) PROVE CredsIn(f \o w)
  <2>1. CASE Headed(f) /\ Broken(f) = {}
    <3>1. PICK n \in 0..Len(b) : Recover(f \o w) = Apply(Recover(f), SubSeq(b, 1, n))
      BY <1>5, <2>1
    <3>2. Recover(f) \in [Keys -> Vals \union {None}] /\ Recover(f)[Creds] # None
      BY <1>7, RecoverType DEF CredsIn
    <3>3. Apply(Recover(f), SubSeq(b, 1, n))[Creds] # None
      BY <3>2, CredsKept DEF IsBatch
    <3>4. QED
      BY <3>1, <3>3 DEF CredsIn
  <2>2. CASE ~ (Headed(f) /\ Broken(f) = {})
    BY <1>6, <1>7, <2>2 DEF CredsIn
  <2>3. QED
    BY <2>1, <2>2
<1>8. Broken(f) # {} => GoodPart(f \o w) = GoodPart(f)
  BY <1>1, GoodPartConcat
<1>9. QED
  BY <1>2, <1>3, <1>4, <1>5, <1>6, <1>7, <1>8

\* A file to which a whole batch was written.
LEMMA WroteWhole ==
    ASSUME NEW f \in Seq(Chunk), NEW b, IsBatch(b)
    PROVE  /\ b \in Pieces(b)
           /\ Broken(f) = {} => Broken(f \o b) = {}
           /\ Headed(f) /\ Broken(f) = {} => Recover(f \o b) = Apply(Recover(f), b)
<1>1. b \in Seq(Chunk) /\ Broken(b) = {} /\ GoodPart(b) = b
  BY RecsWhole, Chunks DEF IsBatch
<1>2. Broken(f) = {} => Broken(f \o b) = {}
  BY <1>1, BrokenConcat
<1>3. Headed(f) /\ Broken(f) = {} => Recover(f \o b) = Apply(Recover(f), b)
  BY <1>1, RecoverConcat
<1>4. b \in Pieces(b)
  BY Zenon DEF Pieces
<1>5. QED
  BY <1>2, <1>3, <1>4

LEMMA WritesPieces ==
    ASSUME NEW b, IsBatch(b), NEW w \in Writes(b)
    PROVE  w \in Pieces(b) /\ w # << >>
<1>1. b \in Pieces(b) /\ b # << >>
  BY Zenon DEF Pieces, IsBatch
<1>2. QED
  BY <1>1 DEF Writes

----------------------------------------------------------------------------
(* The inductive invariant. *)

(* The key comes before the log, and an open store has a log. *)
KeyInv ==
    /\ file # None => key = "ok"
    /\ pc # "down" => file # None
    /\ file = None => ~failed /\ ~filled /\ ~cut

DownInv == pc = "down" => mem = Empty

(* Between the read of the log and the credentials nothing has failed yet. *)
LoadedInv == pc = "loaded" => ~failed /\ (Headed(file) \/ (file = << >> /\ mem = Empty))

(* An open store has credentials in memory; the log has them too, or its first  *)
(* record is broken and hides all later ones.                                   *)
UpInv ==
    pc = "up" => /\ mem[Creds] # None
                 /\ ~cut /\ Headed(file) => CredsIn(file) \/ Broken(file) # {}

(* The first credentials are appended to an empty log only. *)
FreshInv ==
    ~cut /\ file # None /\ Headed(file) /\ ~CredsIn(file) => GoodPart(file) = <<Magic>>

(* Only a write after one that failed can fill a broken record. *)
FillInv == filled => failed

IInv ==
    /\ TypeOK /\ KeyInv /\ DownInv /\ LoadedInv /\ UpInv /\ FreshInv /\ FillInv
    /\ MemIsDisk /\ TearsAreTails

LEMMA InitInv == Init => IInv
<1> SUFFICES ASSUME Init PROVE IInv
  OBVIOUS
<1>1. /\ key \in {"absent", "ok"} /\ file = None /\ mem = Empty /\ pc = "down"
      /\ failed = FALSE /\ filled = FALSE /\ cut = FALSE
  BY DEF Init
<1>2. TypeOK
  BY <1>1 DEF TypeOK, Empty
<1>3. QED
  BY <1>1, <1>2 DEF IInv, KeyInv, DownInv, LoadedInv, UpInv, FreshInv, FillInv, MemIsDisk, TearsAreTails

\* What an open store and its file have in common.
LEMMA OpenFile ==
    ASSUME IInv, pc # "down"
    PROVE  /\ file \in Seq(Chunk) /\ file # None /\ key = "ok"
           /\ mem \in [Keys -> Vals \union {None}]
           /\ filled \in BOOLEAN /\ failed \in BOOLEAN /\ cut \in BOOLEAN
           /\ ~failed => Broken(file) = {} /\ ~filled
           /\ ~failed /\ ~cut /\ Headed(file) => Recover(file) = mem
           /\ Intact <=> ~filled /\ Headed(file) /\ Broken(file) = {}
BY DEF IInv, TypeOK, KeyInv, FillInv, MemIsDisk, TearsAreTails, Intact

LEMMA Flags ==
    /\ Refused \in BOOLEAN /\ Intact \in BOOLEAN
    /\ CredsIn(file) => HasCreds \/ Refused
    /\ HasCreds => CredsIn(file)
BY Zenon DEF Refused, Intact, CredsIn, HasCreds

----------------------------------------------------------------------------
(* Appends keep the invariant. *)

LEMMA BatchKeepsCreds ==
    ASSUME NEW m \in [Keys -> Vals \union {None}], m[Creds] # None, NEW b, IsBatch(b)
    PROVE  Apply(m, b) \in [Keys -> Vals \union {None}] /\ Apply(m, b)[Creds] # None
<1>1. b \in Seq(Rec) /\ b \in Seq(Chunk) /\ SubSeq(b, 1, Len(b)) = b /\ Len(b) \in 0..Len(b)
  BY Chunks, SubSeqFull DEF IsBatch
<1>2. Apply(m, SubSeq(b, 1, Len(b)))[Creds] # None
  BY <1>1, CredsKept DEF IsBatch
<1>3. QED
  BY <1>1, <1>2, ApplyType

\* What an append makes of the file of an open store.
LEMMA Extended ==
    ASSUME IInv, pc # "down", NEW b, IsBatch(b), NEW w \in Pieces(b), Extend(w)
    PROVE  /\ file' \in Seq(Chunk) /\ file' # None /\ filled' \in BOOLEAN
           /\ Headed(file') <=> Headed(file)
           /\ Broken(file) # {} => Broken(file') # {} /\ GoodPart(file') = GoodPart(file)
           /\ Broken(file) = {} => Broken(file') \subseteq {Len(file')} /\ filled' = filled
           /\ CredsIn(file) => CredsIn(file')
           /\ filled => filled'
           /\ ~failed => ~filled'
           /\ w = b /\ ~failed => Broken(file') = {}
           /\ w = b /\ ~failed /\ ~cut /\ Headed(file) => Recover(file') = Apply(mem, b)
<1>1. file' = file \o w /\ filled' \in Fills(w)
  BY Zenon DEF Extend
<1>2. /\ file \in Seq(Chunk) /\ filled \in BOOLEAN
      /\ ~failed => Broken(file) = {} /\ ~filled
      /\ ~failed /\ ~cut /\ Headed(file) => Recover(file) = mem
  BY OpenFile
<1>3. /\ file' \in Seq(Chunk)
      /\ Headed(file') <=> Headed(file)
      /\ Broken(file) # {} => Broken(file') # {} /\ GoodPart(file') = GoodPart(file)
      /\ Broken(file) = {} => Broken(file') \subseteq {Len(file')}
      /\ CredsIn(file) => CredsIn(file')
  BY <1>1, <1>2, Wrote
<1>4. /\ filled' \in BOOLEAN /\ (filled => filled')
      /\ Broken(file) = {} => filled' = filled
  BY <1>1, <1>2 DEF Fills
<1>5. /\ w = b /\ Broken(file) = {} => Broken(file') = {}
      /\ w = b /\ Broken(file) = {} /\ Headed(file) => Recover(file') = Apply(Recover(file), b)
  BY <1>1, <1>2, WroteWhole
<1>6. file' # None
  BY <1>3, Chunks
<1>7. QED
  BY <1>2, <1>3, <1>4, <1>5, <1>6

\* What a compaction makes of it.
LEMMA Compacted ==
    ASSUME IInv, NEW m \in [Keys -> Vals \union {None}], m[Creds] # None, file' = Snapshot(m)
    PROVE  /\ file' \in Seq(Chunk) /\ file' # None /\ Headed(file') /\ Broken(file') = {}
           /\ Recover(file') = m /\ CredsIn(file')
BY SnapshotHolds, Chunks DEF CredsIn

\* A compaction that was cut short voids all but the types of the variables.
LEMMA CutInv ==
    ASSUME IInv, pc # "down", NEW m \in [Keys -> Vals \union {None}], file' \in CutSnapshots(m),
           filled' = FALSE, failed' = TRUE, cut' = TRUE, pc' = "up", key' = key,
           mem' \in [Keys -> Vals \union {None}], mem'[Creds] # None
    PROVE  IInv'
<1>1. key = "ok"
  BY OpenFile
<1>2. file' \in Seq(Chunk) /\ file' # None
  BY CutHolds, Chunks
<1>3. TypeOK' /\ KeyInv' /\ DownInv' /\ LoadedInv'
  BY <1>1, <1>2 DEF TypeOK, KeyInv, DownInv, LoadedInv
<1>4. UpInv' /\ FreshInv' /\ FillInv' /\ MemIsDisk' /\ TearsAreTails'
  BY DEF UpInv, FreshInv, FillInv, MemIsDisk, TearsAreTails
<1>5. QED
  BY <1>3, <1>4 DEF IInv

\* While the store is up, what an append leaves hidden was hidden before it.
LEMMA ExtendedUp ==
    ASSUME IInv, pc = "up", NEW b, IsBatch(b), NEW w \in Pieces(b), Extend(w), cut' = cut
    PROVE  /\ ~cut' /\ Headed(file') => CredsIn(file') \/ Broken(file') # {}
           /\ FreshInv'
<1>1. /\ Headed(file') <=> Headed(file)
      /\ Broken(file) # {} => Broken(file') # {} /\ GoodPart(file') = GoodPart(file)
      /\ CredsIn(file) => CredsIn(file')
  BY Extended
<1>2. ~cut /\ Headed(file) => CredsIn(file) \/ Broken(file) # {}
  BY DEF IInv, UpInv
<1>3. ~cut /\ Headed(file) /\ ~CredsIn(file) => GoodPart(file) = <<Magic>>
  BY OpenFile DEF IInv, FreshInv
<1>4. QED
  BY <1>1, <1>2, <1>3 DEF FreshInv

LEMMA WrittenInv ==
    ASSUME IInv, pc = "up", NEW b, IsBatch(b), Written(b), UNCHANGED key
    PROVE  IInv' /\ (CredsIn(file) => CredsIn(file') \/ cut')
<1>1. mem' = Apply(mem, b) /\ pc' = "up" /\ key' = key
  BY Zenon DEF Written
<1>2. PICK w \in Writes(b) : MaybeCompact(w, mem', w = b)
  BY Zenon DEF Written
<1>3. w \in Pieces(b)
  BY <1>2, WritesPieces
<1>4. /\ file \in Seq(Chunk) /\ file # None /\ key = "ok" /\ mem \in [Keys -> Vals \union {None}]
      /\ failed \in BOOLEAN /\ cut \in BOOLEAN
  BY OpenFile
<1>5. mem[Creds] # None
  BY DEF IInv, UpInv
<1>6. mem' \in [Keys -> Vals \union {None}] /\ mem'[Creds] # None
  BY <1>1, <1>4, <1>5, BatchKeepsCreds
<1>7. CASE Extend(w) /\ failed' = (failed \/ ~(w = b)) /\ cut' = cut
  <2>1. /\ file' \in Seq(Chunk) /\ file' # None /\ filled' \in BOOLEAN
        /\ Headed(file') <=> Headed(file)
        /\ CredsIn(file) => CredsIn(file')
        /\ ~failed => ~filled'
        /\ w = b /\ ~failed => Broken(file') = {}
        /\ w = b /\ ~failed /\ ~cut /\ Headed(file) => Recover(file') = Apply(mem, b)
    BY <1>3, <1>7, Extended
  <2>2. failed' \in BOOLEAN /\ (~failed' => ~failed /\ w = b)
    BY <1>4, <1>7, Zenon
  <2>3. (~cut' /\ Headed(file') => CredsIn(file') \/ Broken(file') # {}) /\ FreshInv'
    BY <1>3, <1>7, ExtendedUp
  <2>4. TypeOK' /\ KeyInv' /\ DownInv' /\ LoadedInv' /\ FillInv'
    BY <1>1, <1>4, <1>6, <1>7, <2>1, <2>2 DEF TypeOK, KeyInv, DownInv, LoadedInv, FillInv
  <2>5. MemIsDisk'
    BY <1>1, <1>7, <2>1, <2>2 DEF MemIsDisk, Refused
  <2>6. UpInv' /\ TearsAreTails'
    BY <1>1, <1>6, <2>1, <2>2, <2>3 DEF UpInv, TearsAreTails
  <2>7. QED
    BY <2>1, <2>3, <2>4, <2>5, <2>6 DEF IInv
<1>8. CASE file' = Snapshot(mem') /\ filled' = FALSE /\ failed' = FALSE /\ cut' = cut
  <2>1. /\ file' \in Seq(Chunk) /\ file' # None /\ Headed(file') /\ Broken(file') = {}
        /\ Recover(file') = mem' /\ CredsIn(file')
    BY <1>6, <1>8, Compacted
  <2>2. TypeOK' /\ KeyInv' /\ DownInv' /\ LoadedInv' /\ FillInv'
    BY <1>1, <1>4, <1>6, <1>8, <2>1 DEF TypeOK, KeyInv, DownInv, LoadedInv, FillInv
  <2>3. UpInv' /\ FreshInv' /\ TearsAreTails'
    BY <1>1, <1>6, <2>1 DEF UpInv, FreshInv, TearsAreTails
  <2>4. MemIsDisk'
    BY <1>8, <2>1 DEF MemIsDisk, Refused
  <2>5. QED
    BY <2>1, <2>2, <2>3, <2>4 DEF IInv
<1>9. CASE file' \in CutSnapshots(mem') /\ filled' = FALSE /\ failed' = TRUE /\ cut' = TRUE
  <2>1. IInv'
    BY <1>1, <1>6, <1>9, CutInv
  <2>2. QED
    BY <1>9, <2>1
<1>10. QED
  BY <1>2, <1>7, <1>8, <1>9, Zenon DEF MaybeCompact

LEMMA WriteFailsInv ==
    ASSUME IInv, pc = "up", NEW b, IsBatch(b), WriteFails(b), UNCHANGED key
    PROVE  IInv' /\ (CredsIn(file) => CredsIn(file'))
<1>1. mem' = Apply(mem, b) /\ failed' = TRUE /\ pc' = "up" /\ cut' = cut /\ key' = key
  BY Zenon DEF WriteFails
<1>2. PICK w \in Pieces(b) : Extend(w)
  BY Zenon DEF WriteFails
<1>3. /\ file \in Seq(Chunk) /\ file # None /\ key = "ok" /\ mem \in [Keys -> Vals \union {None}]
      /\ cut \in BOOLEAN
  BY OpenFile
<1>4. mem[Creds] # None
  BY DEF IInv, UpInv
<1>5. mem' \in [Keys -> Vals \union {None}] /\ mem'[Creds] # None
  BY <1>1, <1>3, <1>4, BatchKeepsCreds
<1>6. /\ file' \in Seq(Chunk) /\ file' # None /\ filled' \in BOOLEAN
      /\ CredsIn(file) => CredsIn(file')
  BY <1>2, Extended
<1>7. (~cut' /\ Headed(file') => CredsIn(file') \/ Broken(file') # {}) /\ FreshInv'
  BY <1>1, <1>2, ExtendedUp
<1>8. TypeOK' /\ KeyInv' /\ DownInv' /\ LoadedInv' /\ FillInv'
  BY <1>1, <1>3, <1>5, <1>6 DEF TypeOK, KeyInv, DownInv, LoadedInv, FillInv
<1>9. UpInv' /\ MemIsDisk' /\ TearsAreTails'
  BY <1>1, <1>5, <1>7 DEF UpInv, MemIsDisk, TearsAreTails
<1>10. QED
  BY <1>6, <1>7, <1>8, <1>9 DEF IInv

LEMMA CrashInWriteInv ==
    ASSUME IInv, pc # "down", NEW b, IsBatch(b), CrashInWrite(b), UNCHANGED key, FreshInv'
    PROVE  IInv' /\ (CredsIn(file) => CredsIn(file'))
<1>1. mem' = Empty /\ failed' = failed /\ cut' = cut /\ pc' = "down" /\ key' = key
  BY Zenon DEF CrashInWrite
<1>2. PICK w \in Pieces(b) : Extend(w)
  BY Zenon DEF CrashInWrite
<1>3. /\ key = "ok" /\ failed \in BOOLEAN /\ cut \in BOOLEAN
      /\ ~failed => Broken(file) = {}
  BY OpenFile
<1>4. /\ file' \in Seq(Chunk) /\ file' # None /\ filled' \in BOOLEAN
      /\ CredsIn(file) => CredsIn(file')
      /\ Broken(file) = {} => Broken(file') \subseteq {Len(file')}
      /\ ~failed => ~filled'
  BY <1>2, Extended
<1>5. TypeOK' /\ KeyInv' /\ DownInv' /\ LoadedInv' /\ FillInv'
  BY <1>1, <1>3, <1>4 DEF TypeOK, KeyInv, DownInv, LoadedInv, FillInv, Empty
<1>6. UpInv' /\ MemIsDisk' /\ TearsAreTails'
  BY <1>1, <1>3, <1>4 DEF UpInv, MemIsDisk, TearsAreTails
<1>7. QED
  BY <1>4, <1>5, <1>6 DEF IInv

LEMMA AppendInv ==
    ASSUME IInv, NEW b, IsBatch(b), AppendRecords(b)
    PROVE  IInv' /\ (CredsIn(file) => CredsIn(file') \/ cut')
<1>1. pc = "up" /\ key' = key
  BY DEF AppendRecords
<1>2. CASE Written(b)
  BY <1>1, <1>2, WrittenInv
<1>3. CASE WriteFails(b)
  BY <1>1, <1>3, WriteFailsInv
<1>4. CASE CrashInWrite(b)
  <2>1. PICK w \in Pieces(b) : Extend(w)
    BY <1>4, Zenon DEF CrashInWrite
  <2>2. cut' = cut
    BY <1>4, Zenon DEF CrashInWrite
  <2>3. FreshInv'
    BY <1>1, <2>1, <2>2, ExtendedUp
  <2>4. QED
    BY <1>1, <1>4, <2>3, CrashInWriteInv
<1>5. QED
  BY <1>2, <1>3, <1>4 DEF AppendRecords

----------------------------------------------------------------------------
(* Opening the store keeps the invariant. *)

\* What an open finds when it has to make new credentials.
LEMMA NoCreds ==
    ASSUME IInv, pc = "loaded", mem[Creds] = None, ~cut
    PROVE  /\ file \in {<< >>, <<Magic>>} /\ Broken(file) = {} /\ GoodPart(file) = file
           /\ mem = Empty /\ Recover(file) = Empty /\ Len(file) < 2 /\ ~Refused
<1>1. /\ file \in Seq(Chunk) /\ file # None /\ ~failed /\ ~filled
      /\ Broken(file) = {} /\ GoodPart(file) = file
      /\ Headed(file) => Recover(file) = mem
  BY OpenFile DEF IInv, LoadedInv, GoodPart
<1>2. CASE Headed(file)
  <2>1. ~CredsIn(file)
    BY <1>1, <1>2 DEF CredsIn
  <2>2. file = <<Magic>>
    BY <1>1, <1>2, <2>1 DEF IInv, FreshInv
  <2>3. PICK f \in Seq(Chunk) : f = file /\ f = <<Magic>>
    BY <1>1, <2>2
  <2>4. Len(f) = 1 /\ f[1] = Magic
    BY <2>3
  <2>5. Empty \in [Keys -> Vals \union {None}] /\ \A i \in 1..Len(f) : f[i] \notin Rec
    BY <2>4, Chunks DEF Empty
  <2>6. Recover(file) = Empty
    BY <1>1, <1>2, <2>3, <2>5, ApplyEmpty DEF Recover
  <2>7. QED
    BY <1>1, <1>2, <2>2, <2>3, <2>4, <2>6 DEF Refused
<1>3. CASE ~Headed(file)
  <2>1. file = << >> /\ mem = Empty
    BY <1>3 DEF IInv, LoadedInv
  <2>2. Recover(file) = Empty
    BY <1>3 DEF Recover
  <2>3. Len(file) = 0
    BY <2>1
  <2>4. QED
    BY <1>1, <2>1, <2>2, <2>3 DEF Refused, Short
<1>4. QED
  BY <1>2, <1>3

LEMMA ResolveKeyInv == IInv /\ ResolveKey => IInv'
<1> SUFFICES ASSUME IInv, ResolveKey PROVE IInv'
  OBVIOUS
<1>1. pc = "down" /\ key = "absent" /\ key' \in {"ok", "short"} /\ UNCHANGED <<file, filled, mem, pc, failed, cut>>
  BY DEF ResolveKey
<1>2. file = None
  BY <1>1 DEF IInv, KeyInv
<1>3. TypeOK' /\ KeyInv' /\ DownInv' /\ FillInv'
  BY <1>1, <1>2 DEF IInv, TypeOK, KeyInv, DownInv, FillInv
<1>4. LoadedInv' /\ UpInv' /\ FreshInv' /\ MemIsDisk' /\ TearsAreTails'
  BY <1>1, <1>2 DEF LoadedInv, UpInv, FreshInv, MemIsDisk, TearsAreTails
<1>5. QED
  BY <1>3, <1>4 DEF IInv

\* The files an interrupted creation leaves, and the one it makes.
LEMMA NewFile ==
    /\ \A f \in {<< >>, <<Stub>>} : /\ f \in Seq(Chunk) /\ ~Headed(f)
                                    /\ Broken(f) \subseteq {Len(f)} /\ Short(f)
    /\ <<Magic>> \in Seq(Chunk) /\ Headed(<<Magic>>) /\ Broken(<<Magic>>) = {}
    /\ Recover(<<Magic>>) = Empty /\ GoodPart(<<Magic>>) = <<Magic>>
<1>1. << >> \in Seq(Chunk) /\ ~Headed(<< >>) /\ Broken(<< >>) \subseteq {Len(<< >>)}
  BY DEF Headed, Broken
<1>2. <<Stub>> \in Seq(Chunk) /\ ~Headed(<<Stub>>) /\ Broken(<<Stub>>) \subseteq {Len(<<Stub>>)}
  BY Chunks, ChunksAssumption DEF Headed, Broken
<1>3. PICK f \in Seq(Chunk) : f = <<Magic>>
  <2>1. <<Magic>> \in Seq(Chunk)
    BY Chunks
  <2>2. QED
    BY <2>1, Zenon
<1>4. Len(f) = 1 /\ f[1] = Magic
  BY <1>3
<1>5. f # << >> /\ f # None
  BY <1>4, EmptySeq, Chunks
<1>6. Headed(f) /\ Broken(f) = {}
  BY <1>4, <1>5, ChunksAssumption DEF Headed, Broken
<1>7. GoodPart(f) = f
  BY <1>6 DEF GoodPart
<1>8. Empty \in [Keys -> Vals \union {None}] /\ \A i \in 1..Len(f) : f[i] \notin Rec
  BY <1>4, Chunks DEF Empty
<1>9. Recover(f) = Empty
  BY <1>5, <1>6, <1>7, <1>8, ApplyEmpty DEF Recover
<1>10. QED
  BY <1>1, <1>2, <1>3, <1>6, <1>7, <1>9 DEF Short

LEMMA CreateInv == IInv /\ Create => IInv'
<1> SUFFICES ASSUME IInv, Create PROVE IInv'
  OBVIOUS
<1>1. pc = "down" /\ key = "ok" /\ file = None /\ UNCHANGED <<key, filled, mem, failed, cut>>
  BY DEF Create
<1>2. /\ mem = Empty /\ ~failed /\ ~filled /\ ~cut /\ mem \in [Keys -> Vals \union {None}]
      /\ failed \in BOOLEAN /\ filled \in BOOLEAN /\ cut \in BOOLEAN
  BY <1>1 DEF IInv, DownInv, KeyInv, TypeOK
<1>3. CASE file' = <<Magic>> /\ pc' = "loaded"
  <2>1. file' \in Seq(Chunk) /\ file' # None /\ Headed(file') /\ Broken(file') = {}
    BY <1>3, NewFile, Chunks
  <2>2. Recover(file') = Empty /\ GoodPart(file') = <<Magic>>
    BY <1>3, NewFile
  <2>3. TypeOK' /\ KeyInv' /\ DownInv' /\ LoadedInv' /\ FillInv'
    BY <1>1, <1>2, <1>3, <2>1 DEF TypeOK, KeyInv, DownInv, LoadedInv, FillInv
  <2>4. UpInv' /\ FreshInv' /\ TearsAreTails'
    BY <1>1, <1>2, <1>3, <2>1, <2>2 DEF UpInv, FreshInv, TearsAreTails
  <2>5. MemIsDisk'
    BY <1>1, <1>2, <2>1, <2>2 DEF MemIsDisk, Refused
  <2>6. QED
    BY <2>3, <2>4, <2>5 DEF IInv
<1>4. CASE file' \in {<< >>, <<Stub>>} /\ UNCHANGED pc
  <2>1. file' \in Seq(Chunk) /\ file' # None /\ ~Headed(file') /\ Broken(file') \subseteq {Len(file')}
    BY <1>4, NewFile, Chunks
  <2>2. TypeOK' /\ KeyInv' /\ DownInv' /\ LoadedInv' /\ FillInv'
    BY <1>1, <1>2, <1>4, <2>1 DEF TypeOK, KeyInv, DownInv, LoadedInv, FillInv
  <2>3. UpInv' /\ FreshInv' /\ MemIsDisk' /\ TearsAreTails'
    BY <1>1, <1>2, <1>4, <2>1 DEF UpInv, FreshInv, MemIsDisk, TearsAreTails
  <2>4. QED
    BY <2>2, <2>3 DEF IInv
<1>5. QED
  BY <1>3, <1>4 DEF Create

LEMMA LoadInv == IInv /\ Load => IInv' /\ (CredsIn(file) => CredsIn(file'))
<1> SUFFICES ASSUME IInv, Load PROVE IInv' /\ (CredsIn(file) => CredsIn(file'))
  OBVIOUS
<1>1. /\ pc = "down" /\ key = "ok" /\ file # None /\ (Short(file) \/ Headed(file)) /\ ~filled
      /\ file' = Truncated(file) /\ mem' = Recover(file') /\ pc' = "loaded" /\ key' = key
  BY DEF Load, Refused
<1>2. /\ failed' = FALSE /\ filled' = filled /\ cut' = cut
      /\ file \in Seq(Chunk) /\ cut \in BOOLEAN /\ filled \in BOOLEAN
  BY <1>1, Zenon DEF Load, IInv, TypeOK
<1>3. /\ file' \in Seq(Chunk) /\ file' # None /\ Broken(file') = {} /\ Recover(file') = Recover(file)
      /\ file' = IF Short(file) THEN << >> ELSE GoodPart(file)
      /\ ~Short(file) => Headed(file')
      /\ Short(file) => Recover(file) = Empty
  BY <1>1, <1>2, TruncatedSame, Chunks
<1>4. mem' \in [Keys -> Vals \union {None}]
  BY <1>1, <1>3, RecoverType
<1>5. Headed(file') \/ (file' = << >> /\ mem' = Empty)
  BY <1>1, <1>3
<1>6. ASSUME ~cut', Headed(file'), ~CredsIn(file') PROVE GoodPart(file') = <<Magic>>
  <2>1. ~Short(file)
    BY <1>3, <1>6 DEF Headed
  <2>2. ~CredsIn(file)
    BY <1>3, <1>6 DEF CredsIn
  <2>3. Headed(file) /\ ~cut
    BY <1>1, <1>2, <1>6, <2>1
  <2>4. GoodPart(file) = <<Magic>>
    BY <1>1, <2>2, <2>3 DEF IInv, FreshInv
  <2>5. file' = <<Magic>>
    BY <1>3, <2>1, <2>4
  <2>6. QED
    BY <2>5, NewFile
<1>7. TypeOK' /\ KeyInv' /\ DownInv' /\ LoadedInv' /\ FillInv'
  <2>1. TypeOK' /\ KeyInv'
    BY <1>1, <1>2, <1>3, <1>4 DEF TypeOK, KeyInv
  <2>2. DownInv' /\ LoadedInv' /\ FillInv'
    BY <1>1, <1>2, <1>5 DEF DownInv, LoadedInv, FillInv
  <2>3. QED
    BY <2>1, <2>2
<1>8. UpInv' /\ FreshInv' /\ TearsAreTails'
  BY <1>1, <1>2, <1>3, <1>6 DEF UpInv, FreshInv, TearsAreTails
<1>9. MemIsDisk'
  BY <1>1, <1>2 DEF MemIsDisk, Refused
<1>10. CredsIn(file) => CredsIn(file')
  BY <1>3 DEF CredsIn
<1>11. QED
  BY <1>7, <1>8, <1>9, <1>10 DEF IInv

LEMMA ReadyInv == IInv /\ Ready => IInv'
<1> SUFFICES ASSUME IInv, Ready PROVE IInv'
  OBVIOUS
<1>1. pc = "loaded" /\ mem[Creds] # None /\ pc' = "up" /\ UNCHANGED <<key, file, filled, mem, failed, cut>>
  BY DEF Ready
<1>2. /\ file \in Seq(Chunk) /\ file # None /\ key = "ok" /\ ~failed /\ Broken(file) = {}
      /\ ~cut /\ Headed(file) => Recover(file) = mem
  BY <1>1, OpenFile DEF IInv, LoadedInv
<1>3. ~cut /\ Headed(file) => CredsIn(file)
  BY <1>1, <1>2 DEF CredsIn
<1>4. TypeOK' /\ KeyInv' /\ DownInv' /\ LoadedInv' /\ FillInv'
  BY <1>1, <1>2 DEF IInv, TypeOK, KeyInv, DownInv, LoadedInv, FillInv
<1>5. UpInv' /\ FreshInv' /\ TearsAreTails'
  BY <1>1, <1>2, <1>3 DEF IInv, UpInv, FreshInv, TearsAreTails
<1>6. MemIsDisk'
  BY <1>1 DEF IInv, MemIsDisk, Refused
<1>7. QED
  BY <1>4, <1>5, <1>6 DEF IInv

LEMMA CrashInv == IInv /\ Crash => IInv'
<1> SUFFICES ASSUME IInv, Crash PROVE IInv'
  OBVIOUS
<1>1. pc # "down" /\ pc' = "down" /\ mem' = Empty /\ UNCHANGED <<key, file, filled, failed, cut>>
  BY DEF Crash
<1>2. /\ file \in Seq(Chunk) /\ file # None /\ key = "ok"
      /\ ~failed => Broken(file) = {}
  BY <1>1, OpenFile
<1>3. TypeOK' /\ KeyInv' /\ DownInv' /\ LoadedInv' /\ FillInv'
  BY <1>1, <1>2 DEF IInv, TypeOK, KeyInv, DownInv, LoadedInv, FillInv, Empty
<1>4. UpInv' /\ FreshInv' /\ MemIsDisk' /\ TearsAreTails'
  BY <1>1, <1>2 DEF IInv, UpInv, FreshInv, MemIsDisk, TearsAreTails
<1>5. QED
  BY <1>3, <1>4 DEF IInv

\* The first credentials do not fill an empty log.
LEMMA FirstSmall ==
    ASSUME IInv, pc = "loaded", mem[Creds] = None, ~cut, NEW b \in CredsBatches, NEW w \in Pieces(b)
    PROVE  ~TooBig(file \o w, mem)
<1>1. Len(file) < 2 /\ file \in Seq(Chunk)
  BY NoCreds, OpenFile
<1>2. IsBatch(b) /\ Len(b) = 1
  BY CredsIsBatch
<1>3. w \in Seq(Chunk) /\ Len(w) < 2 /\ Len(w) \in Nat
  <2>1. b \in Seq(Rec) /\ b # << >>
    BY <1>2 DEF IsBatch
  <2>2. w \in Seq(Chunk)
    BY <2>1, PieceOf
  <2>3. CASE w = b
    <3>1. Len(w) = 1
      BY <1>2, <2>3
    <3>2. QED
      BY <2>2, <3>1
  <2>4. CASE w # b
    <3>0. PICK n \in 0..(Len(b) - 1) : w \in {SubSeq(b, 1, n) \o t : t \in {<< >>, <<Stub>>, <<Torn>>}}
      BY <2>4, Zenon DEF Pieces
    <3>1. PICK t \in {<< >>, <<Stub>>, <<Torn>>} : w = SubSeq(b, 1, n) \o t
      BY <3>0, Zenon
    <3>2. n = 0
      BY <1>2
    <3>3. SubSeq(b, 1, n) = << >>
      BY <3>2, SubSeqEmpty
    <3>4. t \in Seq(Chunk)
      BY TailPiece
    <3>5. w = t
      BY <3>1, <3>3, <3>4, ConcatEmptySeq
    <3>6. Len(t) \in {0, 1}
      OBVIOUS
    <3>7. Len(w) \in {0, 1}
      BY <3>5, <3>6
    <3>8. \A l \in {0, 1} : l < 2 /\ l \in Nat
      OBVIOUS
    <3>9. QED
      BY <2>2, <3>7, <3>8, Zenon
  <2>5. QED
    BY <2>3, <2>4
<1>4. Len(file \o w) = Len(file) + Len(w) /\ Len(file) \in Nat
  BY <1>1, <1>3, ConcatProperties
<1>5. Len(file \o w) < CompactAt /\ Len(file \o w) \in Int /\ CompactAt \in Int
  BY <1>1, <1>3, <1>4, CompactAssumption
<1>6. ~ (Len(file \o w) >= CompactAt)
  BY <1>5
<1>7. QED
  BY <1>6 DEF TooBig

\* Only a log whose compaction was cut short is compacted at its first credentials.
LEMMA TooBigCut ==
    ASSUME IInv, pc = "loaded", mem[Creds] = None, NEW b \in CredsBatches, NEW w \in Pieces(b),
           TooBig(file \o w, mem)
    PROVE  cut
<1> SUFFICES ASSUME ~cut PROVE FALSE
  BY OpenFile
<1>1. QED
  BY FirstSmall

\* An empty log then holds the first credentials, or a broken piece of them.
LEMMA FirstExtended ==
    ASSUME IInv, pc = "loaded", mem[Creds] = None, ~cut, NEW b \in CredsBatches,
           NEW w \in Pieces(b), Extend(w)
    PROVE  /\ Headed(file') => \/ CredsIn(file') /\ Recover(file') = Apply(mem, b)
                               \/ GoodPart(file') = <<Magic>> /\ w # b
           /\ w # << >> /\ Headed(file') => CredsIn(file') \/ Broken(file') # {}
<1>1. /\ file \in {<< >>, <<Magic>>} /\ Broken(file) = {} /\ GoodPart(file) = file
      /\ mem = Empty /\ Recover(file) = Empty /\ Len(file) < 2
  BY NoCreds
<1>2. /\ IsBatch(b) /\ Len(b) = 1
      /\ b[1] \in Rec /\ b[1].key = Creds /\ b[1].val # None
  BY CredsIsBatch
<1>3. file \in Seq(Chunk) /\ file' = file \o w
  BY OpenFile, Zenon DEF Extend
<1>4. w \in Seq(Chunk) /\ \E n \in 0..Len(b) : GoodPart(w) = SubSeq(b, 1, n)
  BY <1>2, PieceOf DEF IsBatch
<1>5. b \in Seq(Chunk) /\ b \in Seq(Rec)
  BY <1>2, Chunks DEF IsBatch
<1>6. Apply(Empty, b)[Creds] # None
  <2>1. 1 \in 1..Len(b) /\ \A j \in 1..Len(b) : j <= 1
    BY <1>2
  <2>2. Creds \in Keys
    BY CredsAssumption
  <2>3. Apply(Empty, b)[Creds] = b[1].val
    BY <1>2, <1>5, <2>1, <2>2, ApplyLast
  <2>4. QED
    BY <1>2, <2>3
<1>8. ASSUME Headed(file')
      PROVE  /\ \/ CredsIn(file') /\ Recover(file') = Apply(mem, b)
                \/ GoodPart(file') = <<Magic>> /\ w # b
             /\ w # << >> => CredsIn(file') \/ Broken(file') # {}
  <2>1. Headed(file) /\ file = <<Magic>>
    <3>1. Headed(file)
      BY <1>2, <1>3, <1>8, Wrote
    <3>2. QED
      BY <1>1, <3>1 DEF Headed
  <2>2. Recover(file') = Apply(Empty, GoodPart(w)) /\ GoodPart(file') = file \o GoodPart(w)
    BY <1>1, <1>3, <1>4, <2>1, RecoverConcat, GoodPartConcat
  <2>3. PICK n \in 0..1 : GoodPart(w) = SubSeq(b, 1, n)
    BY <1>2, <1>4
  <2>4. CASE n = 1
    <3>1. GoodPart(w) = b
      BY <1>2, <1>5, <2>3, <2>4, SubSeqFull
    <3>2. Recover(file') = Apply(Empty, b)
      BY <2>2, <3>1
    <3>3. QED
      BY <1>1, <1>6, <3>2 DEF CredsIn
  <2>5. CASE n = 0
    <3>1. GoodPart(w) = << >>
      BY <2>3, <2>5, SubSeqEmpty
    <3>2. file \o << >> = file
      BY <1>3, ConcatEmptySeq
    <3>3. GoodPart(file') = <<Magic>>
      BY <2>1, <2>2, <3>1, <3>2
    <3>4. w # b
      BY <1>2, <3>1, RecsWhole DEF IsBatch
    <3>5. ASSUME w # << >> PROVE Broken(file') # {}
      <4>1. Broken(w) # {}
        BY <3>1, <3>5 DEF GoodPart
      <4>2. QED
        BY <1>3, <1>4, <4>1, BrokenConcat
    <3>6. QED
      BY <3>3, <3>4, <3>5
  <2>6. QED
    BY <2>4, <2>5
<1>9. QED
  BY <1>8

LEMMA FirstCredsInv == IInv /\ FirstCreds => IInv'
<1> SUFFICES ASSUME IInv, FirstCreds PROVE IInv'
  OBVIOUS
<1>1. pc = "loaded" /\ mem[Creds] = None /\ key' = key
  BY DEF FirstCreds
<1>2. PICK b \in CredsBatches : \/ /\ \E w \in Writes(b) : MaybeCompact(w, mem, w = b)
                                   /\ mem' = Apply(mem, b)
                                   /\ pc' = "up"
                                \/ CrashInWrite(b)
  BY Zenon DEF FirstCreds
<1>3. /\ IsBatch(b) /\ Len(b) = 1
      /\ b[1] \in Rec /\ b[1].key = Creds /\ b[1].val # None
  BY CredsIsBatch
<1>4. /\ file \in Seq(Chunk) /\ file # None /\ key = "ok" /\ mem \in [Keys -> Vals \union {None}]
      /\ failed \in BOOLEAN /\ cut \in BOOLEAN /\ ~failed /\ ~filled /\ Broken(file) = {}
  BY <1>1, OpenFile DEF IInv, LoadedInv
<1>5. ASSUME NEW w \in Writes(b), MaybeCompact(w, mem, w = b), mem' = Apply(mem, b), pc' = "up"
      PROVE  IInv'
  <2>1. w \in Pieces(b) /\ w # << >>
    BY <1>3, WritesPieces
  <2>2. mem' \in [Keys -> Vals \union {None}] /\ mem'[Creds] # None
    <3>1. b \in Seq(Chunk) /\ Creds \in Keys
      BY <1>3, Chunks, CredsAssumption DEF IsBatch
    <3>2. 1 \in 1..Len(b) /\ \A j \in 1..Len(b) : j <= 1
      BY <1>3
    <3>3. mem'[Creds] = b[1].val
      BY <1>3, <1>5, <3>1, <3>2, ApplyLast
    <3>4. QED
      BY <1>3, <1>4, <1>5, <3>1, <3>3, ApplyType
  <2>3. CASE Extend(w) /\ failed' = (failed \/ ~(w = b)) /\ cut' = cut
    <3>1. /\ file' \in Seq(Chunk) /\ file' # None /\ filled' \in BOOLEAN
          /\ ~failed => ~filled'
          /\ w = b /\ ~failed => Broken(file') = {}
      BY <1>1, <1>3, <2>1, <2>3, Extended
    <3>2. failed' \in BOOLEAN /\ (~failed' => ~failed /\ w = b)
      BY <1>4, <2>3, Zenon
    <3>3. ~cut' /\ Headed(file') => \/ CredsIn(file') /\ Recover(file') = Apply(mem, b)
                                    \/ GoodPart(file') = <<Magic>> /\ w # b
      BY <1>1, <2>1, <2>3, FirstExtended
    <3>4. ~cut' /\ Headed(file') => CredsIn(file') \/ Broken(file') # {}
      BY <1>1, <2>1, <2>3, FirstExtended
    <3>5. TypeOK' /\ KeyInv' /\ DownInv' /\ LoadedInv' /\ FillInv'
      BY <1>1, <1>4, <1>5, <2>2, <2>3, <3>1, <3>2 DEF TypeOK, KeyInv, DownInv, LoadedInv, FillInv
    <3>6. UpInv' /\ FreshInv' /\ TearsAreTails'
      BY <1>5, <2>2, <3>1, <3>2, <3>3, <3>4 DEF UpInv, FreshInv, TearsAreTails
    <3>7. MemIsDisk'
      BY <1>4, <1>5, <3>1, <3>2, <3>3 DEF MemIsDisk, Refused
    <3>8. QED
      BY <3>5, <3>6, <3>7 DEF IInv
  <2>4. CASE TooBig(file \o w, mem) /\ file' = Snapshot(mem) /\ filled' = FALSE /\ failed' = FALSE /\ cut' = cut
    <3>1. cut
      BY <1>1, <2>1, <2>4, TooBigCut
    <3>2. file' \in Seq(Chunk) /\ file' # None /\ Broken(file') = {}
      BY <1>4, <2>4, SnapshotHolds, Chunks
    <3>3. TypeOK' /\ KeyInv' /\ DownInv' /\ LoadedInv' /\ FillInv'
      BY <1>1, <1>4, <1>5, <2>2, <2>4, <3>2 DEF TypeOK, KeyInv, DownInv, LoadedInv, FillInv
    <3>4. UpInv' /\ FreshInv' /\ MemIsDisk' /\ TearsAreTails'
      BY <1>5, <2>2, <2>4, <3>1, <3>2 DEF UpInv, FreshInv, MemIsDisk, TearsAreTails
    <3>5. QED
      BY <3>3, <3>4 DEF IInv
  <2>5. CASE file' \in CutSnapshots(mem) /\ filled' = FALSE /\ failed' = TRUE /\ cut' = TRUE
    BY <1>1, <1>4, <1>5, <2>2, <2>5, CutInv
  <2>6. QED
    BY <1>5, <2>3, <2>4, <2>5, Zenon DEF MaybeCompact
<1>6. CASE CrashInWrite(b)
  <2>1. PICK w \in Pieces(b) : Extend(w)
    BY <1>6, Zenon DEF CrashInWrite
  <2>2. cut' = cut
    BY <1>6, Zenon DEF CrashInWrite
  <2>3. FreshInv'
    BY <1>1, <2>1, <2>2, FirstExtended DEF FreshInv
  <2>4. QED
    BY <1>1, <1>3, <1>6, <2>3, CrashInWriteInv
<1>7. QED
  BY <1>2, <1>5, <1>6

LEMMA NextInv == IInv /\ [Next]_vars => IInv'
<1> SUFFICES ASSUME IInv, [Next]_vars PROVE IInv'
  OBVIOUS
<1>1. CASE ResolveKey \/ Create \/ Load \/ Ready \/ FirstCreds \/ Crash
  BY <1>1, ResolveKeyInv, CreateInv, LoadInv, ReadyInv, FirstCredsInv, CrashInv
<1>2. CASE KeysSet \/ SaveCreds
  <2>1. PICK b \in SetBatches \union CredsBatches : AppendRecords(b)
    BY <1>2, Zenon DEF KeysSet, SaveCreds
  <2>2. QED
    BY <2>1, SetIsBatch, CredsIsBatch, AppendInv
<1>3. CASE UNCHANGED vars
  BY <1>3 DEF vars, IInv, TypeOK, KeyInv, DownInv, LoadedInv, UpInv, FreshInv, FillInv, MemIsDisk, TearsAreTails, Refused
<1>4. QED
  BY <1>1, <1>2, <1>3 DEF Next

LEMMA Inductive == Spec => []IInv
<1>1. Init => IInv
  BY InitInv
<1>2. IInv /\ [Next]_vars => IInv'
  BY NextInv
<1>3. QED
  BY <1>1, <1>2, PTL DEF Spec

(* The variables of the store have their types (fileAuthState). *)
THEOREM TypeCorrect == Spec => []TypeOK
<1>1. IInv => TypeOK
  BY DEF IInv
<1>2. QED
  BY <1>1, Inductive, PTL

(* What a process reads is what a restart would find, unless a write of it     *)
(* failed or fell short or the log has no magic: readLog undoes what append    *)
(* and compact did.                                                            *)
THEOREM MemoryIsDisk == Spec => []MemIsDisk
<1>1. IInv => MemIsDisk
  BY DEF IInv
<1>2. QED
  BY <1>1, Inductive, PTL

(* Crashes alone leave at most one broken record, at the end of the log, and  *)
(* only until fileAuthState() opens it again.                                 *)
THEOREM TornTails == Spec => []TearsAreTails
<1>1. IInv => TearsAreTails
  BY DEF IInv
<1>2. QED
  BY <1>1, Inductive, PTL

(* A key file that a crash cut short locks nothing away (resolveKey).         *)
THEOREM ShortKeyHarmless == Spec => []ShortKeyLocksNothing
<1>1. IInv => ShortKeyLocksNothing
  BY DEF IInv, KeyInv, ShortKeyLocksNothing
<1>2. QED
  BY <1>1, Inductive, PTL


----------------------------------------------------------------------------
(* Credentials never vanish. *)

\* What follows a file that is refused leaves it refused.
LEMMA RefusedStays ==
    ASSUME IInv, pc # "down", NEW b, IsBatch(b), NEW w \in Pieces(b), Extend(w), Refused
    PROVE  Refused'
<1>1. file \in Seq(Chunk) /\ file # None /\ file' = file \o w /\ w \in Seq(Chunk)
  BY OpenFile, PieceOf, Zenon DEF Extend, IsBatch
<1>2. /\ filled => filled'
      /\ file' # None /\ (Headed(file') <=> Headed(file))
  BY Extended
<1>3. CASE filled
  BY <1>2, <1>3 DEF Refused
<1>4. CASE ~Short(file) /\ ~Headed(file)
  <2>1. ASSUME Short(file') PROVE FALSE
    <3>1. Len(file) \in Nat \ {0}
      BY <1>1, <1>4, EmptySeq DEF Short
    <3>2. /\ Len(file') = Len(file) + Len(w) /\ Len(w) \in Nat
          /\ file'[1] = file[1] /\ file' \in Seq(Chunk)
      BY <1>1, <3>1, ConcatProperties
    <3>3. file' \in {<< >>, <<Magic>>, <<Stub>>}
      BY <2>1 DEF Short
    <3>4. Len(file') \in {0, 1}
      BY <3>3
    <3>5. Len(w) = 0
      <4>1. \A x \in Nat \ {0}, y \in Nat : x + y \in {0, 1} => y = 0
        OBVIOUS
      <4>2. QED
        BY <3>1, <3>2, <3>4, <4>1, Zenon
    <3>6. w = << >>
      BY <1>1, <3>5, EmptySeq
    <3>7. file' = file
      BY <1>1, <3>6, ConcatEmptySeq
    <3>8. QED
      BY <1>4, <2>1, <3>7
  <2>2. QED
    BY <1>2, <1>4, <2>1 DEF Refused
<1>5. QED
  BY <1>3, <1>4 DEF Refused

LEMMA AppendCreds ==
    ASSUME IInv, NEW b, IsBatch(b), AppendRecords(b), HasCreds \/ Refused
    PROVE  HasCreds' \/ Refused' \/ cut'
<1>1. pc = "up" /\ key' = key
  BY DEF AppendRecords
<1>2. CredsIn(file') => HasCreds' \/ Refused'
  BY Zenon DEF CredsIn, HasCreds
<1>3. CASE HasCreds
  <2>1. CredsIn(file)
    BY <1>3, Flags
  <2>2. QED
    BY <1>2, <2>1, AppendInv
<1>4. CASE Refused
  <2>1. ASSUME NEW w \in Pieces(b), Extend(w) PROVE Refused'
    BY <1>1, <1>4, <2>1, RefusedStays
  <2>2. CASE WriteFails(b) \/ CrashInWrite(b)
    BY <2>1, <2>2, Zenon DEF WriteFails, CrashInWrite
  <2>3. CASE Written(b)
    <3>1. PICK w \in Writes(b) : MaybeCompact(w, mem', w = b)
      BY <2>3, Zenon DEF Written
    <3>2. w \in Pieces(b) /\ mem' = Apply(mem, b)
      BY <2>3, <3>1, WritesPieces, Zenon DEF Written
    <3>3. mem \in [Keys -> Vals \union {None}] /\ mem[Creds] # None
      BY <1>1, OpenFile DEF IInv, UpInv
    <3>4. mem' \in [Keys -> Vals \union {None}] /\ mem'[Creds] # None
      BY <3>2, <3>3, BatchKeepsCreds
    <3>5. CASE file' = Snapshot(mem')
      BY <1>2, <3>4, <3>5, Compacted
    <3>6. CASE Extend(w) \/ cut' = TRUE
      BY <2>1, <3>2, <3>6
    <3>7. QED
      BY <3>1, <3>5, <3>6, Zenon DEF MaybeCompact
  <2>4. QED
    BY <2>2, <2>3 DEF AppendRecords
<1>5. QED
  BY <1>3, <1>4

LEMMA CredsStep ==
    ASSUME IInv, [Next]_vars, HasCreds \/ Refused PROVE HasCreds' \/ Refused' \/ cut'
<1>1. CASE ResolveKey \/ Ready \/ Crash \/ UNCHANGED vars
  BY <1>1 DEF ResolveKey, Ready, Crash, vars, HasCreds, Refused
<1>2. CASE Create
  <2>1. file = None /\ ~filled /\ Recover(file) = Empty
    BY <1>2 DEF Create, Recover, IInv, KeyInv
  <2>2. QED
    BY <2>1, CredsAssumption DEF HasCreds, Refused, Empty
<1>3. CASE Load
  <2>1. CredsIn(file)
    BY <1>3, Flags DEF Load
  <2>2. CredsIn(file')
    BY <1>3, <2>1, LoadInv
  <2>3. QED
    BY <2>2, Zenon DEF CredsIn, HasCreds
<1>4. CASE FirstCreds
  <2>1. pc = "loaded" /\ mem[Creds] = None
    BY <1>4 DEF FirstCreds
  <2>2. CASE cut
    BY <1>4, <2>2, Zenon DEF FirstCreds, CrashInWrite, MaybeCompact
  <2>3. CASE ~cut
    <3>1. ~Refused /\ Recover(file) = Empty
      BY <2>1, <2>3, NoCreds
    <3>2. QED
      BY <3>1, CredsAssumption DEF HasCreds, Empty
  <2>4. QED
    BY <2>2, <2>3
<1>5. CASE KeysSet \/ SaveCreds
  <2>1. PICK b \in SetBatches \union CredsBatches : AppendRecords(b)
    BY <1>5, Zenon DEF KeysSet, SaveCreds
  <2>2. QED
    BY <2>1, SetIsBatch, CredsIsBatch, AppendCreds
<1>6. QED
  BY <1>1, <1>2, <1>3, <1>4, <1>5 DEF Next

(* Once a restart would find credentials, every later one finds some or is    *)
(* refused, through crashes, failed and short appends, truncations and whole  *)
(* compactions: nothing but a compaction cut short makes the store look new.  *)
THEOREM CredsStay == Spec => CredsNeverVanish
<1>1. IInv /\ [Next]_vars => [HasCreds \/ Refused => HasCreds' \/ Refused' \/ cut']_vars
  BY CredsStep
<1>2. QED
  BY <1>1, Inductive, PTL DEF Spec, CredsNeverVanish

----------------------------------------------------------------------------
(* The log implements the map of DurableMap, step by step. *)

\* An intact store is one that an open reads.
LEMMA FoundIs ==
    /\ Intact => Found = Recover(file) /\ ~Refused
    /\ Intact' => Found' = Recover(file') /\ ~Refused'
    /\ ~Refused => Found = Recover(file)
    /\ ~Refused' => Found' = Recover(file')
    /\ Refused' => Found' = Lost
    /\ Refused => Found = Lost
    /\ Intact \in BOOLEAN /\ Intact' \in BOOLEAN
BY Zenon DEF Intact, Refused, Found

LEMMA NotLost ==
    ASSUME NEW f, f = None \/ f \in Seq(Chunk)
    PROVE  Recover(f) # Lost
BY RecoverType, LostAssumption

\* What the next open finds after an append.
LEMMA ExtendMaps ==
    ASSUME IInv, pc # "down", NEW b, IsBatch(b), NEW w \in Pieces(b), Extend(w)
    PROVE  /\ ~Intact => Found' \in {Found, Lost}
           /\ Intact => \E n \in 0..Len(b) : Found' = Apply(Found, SubSeq(b, 1, n))
           /\ Intact /\ w = b => Found' = Apply(Found, b)
           /\ file' # None /\ file' \in Seq(Chunk)
           /\ Intact' /\ pc' # "down" => Intact
           /\ Intact /\ pc' = "down" => Intact'
           /\ Intact /\ w = b => Intact'
<1>1. /\ file \in Seq(Chunk) /\ file # None /\ filled \in BOOLEAN
      /\ Intact <=> ~filled /\ Headed(file) /\ Broken(file) = {}
  BY OpenFile
<1>2. /\ file' \in Seq(Chunk) /\ file' # None /\ filled' \in BOOLEAN
      /\ Headed(file') <=> Headed(file)
      /\ Broken(file) # {} => Broken(file') # {}
      /\ Broken(file) = {} => Broken(file') \subseteq {Len(file')} /\ filled' = filled
      /\ filled => filled'
  BY Extended
<1>3. file' = file \o w
  BY Zenon DEF Extend
<1>4. ~ (Headed(file) /\ Broken(file) = {}) => Recover(file') = Recover(file)
  BY <1>1, <1>3, Wrote
<1>5. Headed(file) /\ Broken(file) = {} =>
          \E n \in 0..Len(b) : Recover(file') = Apply(Recover(file), SubSeq(b, 1, n))
  <2>1. Headed(file) /\ Broken(file) = {} =>
          \E n \in 0..Len(b) : Recover(file \o w) = Apply(Recover(file), SubSeq(b, 1, n))
    BY <1>1, Wrote
  <2>2. QED
    BY <1>3, <2>1
<1>6. w = b => /\ Broken(file) = {} => Broken(file') = {}
               /\ Headed(file) /\ Broken(file) = {} => Recover(file') = Apply(Recover(file), b)
  BY <1>1, <1>3, WroteWhole
<1>7. Refused => Refused'
  BY RefusedStays
<1>8. Intact => ~Refused' /\ Found = Recover(file) /\ Found' = Recover(file')
  <2>1. Intact => ~Refused'
    BY <1>1, <1>2, Zenon DEF Refused
  <2>2. QED
    BY <2>1, FoundIs
<1>9. ~Intact => Found' \in {Found, Lost}
  <2>1. ~Intact => Refused' \/ Recover(file') = Recover(file)
    BY <1>1, <1>2, <1>4, Zenon DEF Refused
  <2>2. QED
    BY <1>7, <2>1, FoundIs
<1>10. Intact => \E n \in 0..Len(b) : Found' = Apply(Found, SubSeq(b, 1, n))
  BY <1>1, <1>5, <1>8
<1>11. Intact /\ w = b => Found' = Apply(Found, b)
  BY <1>1, <1>6, <1>8
<1>12. Intact' /\ pc' # "down" => Intact
  <2>1. Intact' /\ pc' # "down" => ~filled' /\ Headed(file') /\ Broken(file') = {}
    BY <1>2 DEF Intact
  <2>2. QED
    BY <1>1, <1>2, <2>1
<1>13. Intact /\ pc' = "down" => Intact'
  BY <1>1, <1>2 DEF Intact
<1>14. Intact /\ w = b => Intact'
  BY <1>1, <1>2, <1>6 DEF Intact
<1>15. QED
  BY <1>2, <1>9, <1>10, <1>11, <1>12, <1>13, <1>14

\* In the terms of the map: the write is completed to some part.
LEMMA ExtendPartly ==
    ASSUME IInv, pc # "down", NEW b, IsBatch(b), NEW w \in Pieces(b), Extend(w)
    PROVE  Durable!DPartly(b)
<1>1. file \in Seq(Chunk)
  BY OpenFile
<1>2. CASE ~Intact
  <2>1. Found' \in {Found, Lost}
    BY <1>2, ExtendMaps
  <2>2. QED
    BY <1>2, <2>1 DEF Durable!DPartly
<1>3. CASE Intact
  <2>1. PICK n \in 0..Len(b) : Found' = Apply(Found, SubSeq(b, 1, n))
    BY <1>3, ExtendMaps
  <2>2. b \in Seq(Rec) /\ SubSeq(b, 1, n) \in Seq(Rec)
    BY PrefixType DEF IsBatch
  <2>3. Found' = Durable!Apply(Found, SubSeq(b, 1, n))
    BY <2>1, <2>2, DurableApply
  <2>4. CASE n = 0
    <3>1. SubSeq(b, 1, n) = << >>
      BY <2>4, SubSeqEmpty
    <3>2. Found \in [Keys -> Vals \union {None}]
      BY <1>1, <1>3, FoundIs, RecoverType
    <3>3. << >> \in Seq(Chunk) /\ \A i \in 1..Len(<< >>) : << >>[i] \notin Rec
      OBVIOUS
    <3>4. Apply(Found, << >>) = Found
      BY <3>2, <3>3, ApplyEmpty
    <3>5. Found' = Found
      BY <2>1, <3>1, <3>4
    <3>6. QED
      BY <3>5, Zenon DEF Durable!DPartly
  <2>5. CASE n \in 1..Len(b)
    BY <1>3, <2>3, <2>5, Zenon DEF Durable!DPartly
  <2>6. QED
    BY <2>4, <2>5
<1>4. QED
  BY <1>2, <1>3

LEMMA MapInit == Init => Durable!DInit
<1> SUFFICES ASSUME Init PROVE Durable!DInit
  OBVIOUS
<1>1. file = None /\ mem = Empty /\ pc = "down" /\ filled = FALSE /\ cut = FALSE
  BY DEF Init
<1>2. Empty = Durable!Empty
  BY DEF Empty, Durable!Empty
<1>3. Found = Empty /\ Intact = TRUE
  BY <1>1, Zenon DEF Found, Refused, Recover, Intact
<1>4. QED
  BY <1>1, <1>2, <1>3, Zenon DEF Durable!DInit

\* An append that returns, or throws, and is not followed by a compaction.
LEMMA SmallMaps ==
    ASSUME IInv, pc # "down", pc' # "down", NEW b, IsBatch(b), NEW w \in Pieces(b), Extend(w),
           mem' = Apply(mem, b), cut' = cut
    PROVE  Durable!DNext
<1>1. b \in Batches /\ Durable!Apply(mem, b) = Apply(mem, b) /\ Durable!Apply(Found, b) = Apply(Found, b)
  BY DurableApply DEF IsBatch
<1>2. /\ ~Intact => Found' \in {Found, Lost}
      /\ Intact /\ w = b => Found' = Apply(Found, b)
      /\ Intact' => Intact
      /\ Intact /\ w = b => Intact'
  BY ExtendMaps
<1>3. Intact \in BOOLEAN /\ Intact' \in BOOLEAN
  BY FoundIs
<1>4. CASE w = b
  <2>1. Intact' = Intact
    BY <1>2, <1>3, <1>4
  <2>2. Durable!DWrite(b)
    BY <1>1, <1>2, <1>4, <2>1 DEF Durable!DWrite
  <2>3. QED
    BY <1>1, <2>2, Zenon DEF Durable!DNext, Durable!DSet
<1>5. CASE w # b
  <2>1. Intact' \in {Intact, FALSE}
    BY <1>2, <1>3
  <2>2. Durable!DPartly(b)
    BY ExtendPartly
  <2>3. Durable!DWriteFails(b)
    BY <2>1, <2>2, Zenon DEF Durable!DWriteFails
  <2>4. QED
    BY <1>1, <2>3, Zenon DEF Durable!DNext, Durable!DSet
<1>6. QED
  BY <1>4, <1>5

\* One that is: the map is written anew, or a part of it.
LEMMA BigMaps ==
    ASSUME IInv, pc # "down", pc' = "up", NEW b, IsBatch(b), mem' = Apply(mem, b),
           file' \in Seq(Chunk), filled' = FALSE, Short(file') \/ Headed(file'),
           \/ /\ Recover(file') = mem' /\ cut' = cut
              /\ Headed(file') /\ Broken(file') = {}
           \/ Recover(file') \in Durable!Submaps(mem') /\ cut' = TRUE
    PROVE  Durable!DNext
<1>1. b \in Batches /\ Durable!Apply(mem, b) = Apply(mem, b)
  BY DurableApply DEF IsBatch
<1>2. Found' = Recover(file') /\ Intact' \in BOOLEAN
  <2>1. ~Refused'
    BY Zenon DEF Refused
  <2>2. QED
    BY <2>1, FoundIs
<1>3. CASE Recover(file') = mem' /\ cut' = cut /\ Headed(file') /\ Broken(file') = {}
  <2>1. Intact'
    BY <1>3 DEF Intact
  <2>2. Intact' = TRUE
    BY <1>2, <2>1
  <2>3. Durable!DRewrite
    BY <1>2, <1>3, <2>2, Zenon DEF Durable!DRewrite
  <2>4. QED
    BY <1>1, <2>3, Zenon DEF Durable!DNext, Durable!DSet
<1>4. CASE Recover(file') \in Durable!Submaps(mem') /\ cut' = TRUE
  <2>1. Durable!DRewriteShort
    BY <1>2, <1>4, Zenon DEF Durable!DRewriteShort
  <2>2. pc' # "down"
    OBVIOUS
  <2>3. QED
    BY <1>1, <2>1, <2>2, Zenon DEF Durable!DNext, Durable!DSet
<1>5. QED
  BY <1>3, <1>4

LEMMA WrittenMaps ==
    ASSUME IInv, pc = "up", NEW b, IsBatch(b), Written(b)
    PROVE  Durable!DNext
<1>1. mem' = Apply(mem, b) /\ pc' = "up"
  BY Zenon DEF Written
<1>2. PICK w \in Writes(b) : MaybeCompact(w, mem', w = b)
  BY Zenon DEF Written
<1>3. w \in Pieces(b)
  BY <1>2, WritesPieces
<1>4. mem[Creds] # None /\ mem \in [Keys -> Vals \union {None}]
  BY OpenFile DEF IInv, UpInv
<1>5. mem' \in [Keys -> Vals \union {None}] /\ mem'[Creds] # None
  BY <1>1, <1>4, BatchKeepsCreds
<1>6. CASE Extend(w) /\ cut' = cut
  BY <1>1, <1>3, <1>6, SmallMaps
<1>7. CASE filled' = FALSE /\ file' = Snapshot(mem') /\ cut' = cut
  <2>1. /\ file' \in Seq(Chunk) /\ Headed(file') /\ Broken(file') = {}
        /\ Recover(file') = mem'
    BY <1>5, <1>7, Compacted
  <2>2. QED
    BY <1>1, <1>7, <2>1, BigMaps
<1>8. CASE filled' = FALSE /\ file' \in CutSnapshots(mem') /\ cut' = TRUE
  <2>1. /\ file' \in Seq(Chunk) /\ (Short(file') \/ Headed(file'))
        /\ Recover(file') \in Durable!Submaps(mem')
    BY <1>5, <1>8, CutHolds
  <2>2. QED
    BY <1>1, <1>8, <2>1, BigMaps
<1>9. QED
  BY <1>2, <1>6, <1>7, <1>8, Zenon DEF MaybeCompact

LEMMA CrashInWriteMaps ==
    ASSUME IInv, pc # "down", NEW b, IsBatch(b), CrashInWrite(b)
    PROVE  Durable!DNext
<1>1. mem' = Empty /\ pc' = "down" /\ cut' = cut
  BY Zenon DEF CrashInWrite
<1>2. PICK w \in Pieces(b) : Extend(w)
  BY Zenon DEF CrashInWrite
<1>3. b \in Batches /\ Durable!DPartly(b)
  BY <1>2, ExtendPartly DEF IsBatch
<1>4. (Intact => Intact') /\ file' \in Seq(Chunk)
  BY <1>1, <1>2, ExtendMaps
<1>5. Intact' => Found' # Lost
  BY <1>4, FoundIs, NotLost
<1>6. Intact' = Intact \/ (Intact' = TRUE /\ Found' # Lost)
  BY <1>4, <1>5, FoundIs
<1>7. mem' = Durable!Empty
  BY <1>1 DEF Empty, Durable!Empty
<1>8. Durable!DCrash(b)
  BY <1>1, <1>3, <1>6, <1>7, Zenon DEF Durable!DCrash
<1>9. QED
  BY <1>3, <1>8, Zenon DEF Durable!DNext

LEMMA AppendMaps ==
    ASSUME IInv, NEW b, IsBatch(b), AppendRecords(b)
    PROVE  Durable!DNext
<1>1. pc = "up"
  BY DEF AppendRecords
<1>2. CASE Written(b)
  BY <1>1, <1>2, WrittenMaps
<1>3. CASE WriteFails(b)
  <2>1. mem' = Apply(mem, b) /\ pc' = pc /\ cut' = cut
    BY <1>3, Zenon DEF WriteFails
  <2>2. PICK w \in Pieces(b) : Extend(w)
    BY <1>3, Zenon DEF WriteFails
  <2>3. QED
    BY <1>1, <2>1, <2>2, SmallMaps
<1>4. CASE CrashInWrite(b)
  BY <1>1, <1>4, CrashInWriteMaps
<1>5. QED
  BY <1>2, <1>3, <1>4 DEF AppendRecords

\* A crash between two writes.
LEMMA CrashMaps == IInv /\ Crash => Durable!DNext
<1> SUFFICES ASSUME IInv, Crash PROVE Durable!DNext
  OBVIOUS
<1>1. pc # "down" /\ pc' = "down" /\ mem' = Empty /\ file' = file /\ filled' = filled /\ cut' = cut
  BY DEF Crash
<1>2. /\ file \in Seq(Chunk)
      /\ Intact <=> ~filled /\ Headed(file) /\ Broken(file) = {}
  BY <1>1, OpenFile
<1>3. Intact => Intact'
  BY <1>1, <1>2 DEF Intact
<1>4. Intact' = Intact \/ (Intact' = TRUE /\ Found' # Lost)
  BY <1>1, <1>2, <1>3, FoundIs, NotLost
<1>5. Found' = Found
  BY <1>1, Zenon DEF Found, Refused
<1>6. Durable!DPartly(<< >>)
  BY <1>5, Zenon DEF Durable!DPartly
<1>7. mem' = Durable!Empty
  BY <1>1 DEF Empty, Durable!Empty
<1>8. Durable!DCrash(<< >>)
  BY <1>1, <1>4, <1>6, <1>7, Zenon DEF Durable!DCrash
<1>9. QED
  BY <1>8, Zenon DEF Durable!DNext

LEMMA LoadMaps == IInv /\ Load => Durable!DNext
<1> SUFFICES ASSUME IInv, Load PROVE Durable!DNext
  OBVIOUS
<1>1. /\ pc = "down" /\ file # None /\ ~Refused /\ ~filled /\ filled' = filled /\ cut' = cut
      /\ Short(file) \/ Headed(file)
      /\ file' = Truncated(file) /\ mem' = Recover(file') /\ pc' = "loaded"
  BY DEF Load, Refused
<1>2. file \in Seq(Chunk)
  BY <1>1 DEF IInv, TypeOK
<1>3. /\ Broken(file') = {} /\ Recover(file') = Recover(file)
      /\ ~Short(file) => Headed(file')
      /\ Short(file) => Recover(file) = Empty
      /\ Short(file) => file' = << >>
  BY <1>1, <1>2, TruncatedSame
<1>4. Short(file') \/ Headed(file')
  BY <1>3 DEF Short
<1>5. Found = Recover(file) /\ Found' = Recover(file)
  <2>1. ~Refused'
    BY <1>1, <1>4, Zenon DEF Refused
  <2>2. QED
    BY <1>1, <1>3, <2>1, FoundIs
<1>6. Headed(file') => Intact'
  BY <1>1, <1>3 DEF Intact
<1>7. Intact' = TRUE \/ (Found = Durable!Empty /\ Intact' = FALSE)
  <2>1. Intact' \/ Found = Empty
    BY <1>3, <1>5, <1>6
  <2>2. QED
    BY <2>1, FoundIs DEF Empty, Durable!Empty
<1>8. Found # Lost
  BY <1>2, <1>5, NotLost
<1>9. mem' = Found
  BY <1>1, <1>3, <1>5
<1>10. Durable!DOpen
  BY <1>1, <1>5, <1>7, <1>8, <1>9, Zenon DEF Durable!DOpen
<1>11. QED
  BY <1>10, Zenon DEF Durable!DNext

LEMMA CreateMaps == IInv /\ Create => [Durable!DNext]_(Durable!dvars)
<1> SUFFICES ASSUME IInv, Create PROVE [Durable!DNext]_(Durable!dvars)
  OBVIOUS
<1>1. pc = "down" /\ file = None /\ filled' = filled /\ mem' = mem /\ cut' = cut
  BY DEF Create
<1>2. mem = Empty /\ Recover(file) = Empty /\ ~filled
  BY <1>1 DEF IInv, DownInv, KeyInv, Recover
<1>3. Found = Empty /\ Found # Lost
  <2>1. ~Refused
    BY <1>1, <1>2, Zenon DEF Refused
  <2>2. QED
    BY <1>1, <1>2, <2>1, FoundIs, NotLost
<1>4. CASE file' = <<Magic>> /\ pc' = "loaded"
  <2>1. Recover(file') = Empty /\ Headed(file') /\ Broken(file') = {}
    BY <1>4, NewFile
  <2>2. Intact'
    BY <1>1, <1>2, <1>4, <2>1 DEF Intact
  <2>3. Intact' = TRUE /\ Found' = Found /\ mem' = Found
    BY <1>1, <1>2, <1>3, <2>1, <2>2, FoundIs
  <2>4. Durable!DOpen
    BY <1>1, <1>3, <1>4, <2>3, Zenon DEF Durable!DOpen
  <2>5. QED
    BY <2>4, Zenon DEF Durable!DNext
<1>5. CASE file' \in {<< >>, <<Stub>>} /\ UNCHANGED pc
  <2>1. ~Headed(file') /\ Short(file')
    BY <1>5, NewFile
  <2>2. Recover(file') = Empty
    BY <2>1 DEF Recover
  <2>3. Intact /\ Intact'
    BY <1>1, <1>2, <1>5, <2>1 DEF Intact
  <2>4. Intact' = Intact /\ Found' = Found
    BY <1>3, <2>2, <2>3, FoundIs
  <2>5. (pc # "down")' = (pc # "down") /\ mem' = mem
    BY <1>1, <1>5
  <2>6. QED
    BY <1>1, <2>4, <2>5, Zenon DEF Durable!dvars
<1>6. QED
  BY <1>4, <1>5 DEF Create

LEMMA SubmapGrows ==
    ASSUME NEW m, NEW n, NEW c, NEW x \in Durable!Submaps(m),
           m = [k \in Keys |-> IF k \in Keys \ {c} THEN n[k] ELSE None]
    PROVE  x \in Durable!Submaps(n)
<1>1. PICK K \in SUBSET Keys : x = [k \in Keys |-> IF k \in K THEN m[k] ELSE None]
  BY DEF Durable!Submaps
<1>2. PICK L \in SUBSET Keys : L = K \ {c}
  OBVIOUS
<1>3. x = [k \in Keys |-> IF k \in L THEN n[k] ELSE None]
  BY <1>1, <1>2
<1>4. [k \in Keys |-> IF k \in L THEN n[k] ELSE None] \in Durable!Submaps(n)
  BY Submap, Zenon
<1>5. QED
  BY <1>3, <1>4, Zenon

LEMMA FirstCredsMaps == IInv /\ FirstCreds => Durable!DNext
<1> SUFFICES ASSUME IInv, FirstCreds PROVE Durable!DNext
  OBVIOUS
<1>1. pc = "loaded" /\ mem[Creds] = None
  BY DEF FirstCreds
<1>2. PICK b \in CredsBatches : \/ /\ \E w \in Writes(b) : MaybeCompact(w, mem, w = b)
                                   /\ mem' = Apply(mem, b)
                                   /\ pc' = "up"
                                \/ CrashInWrite(b)
  BY Zenon DEF FirstCreds
<1>3. /\ IsBatch(b) /\ Len(b) = 1
      /\ b[1] \in Rec /\ b[1].key = Creds /\ b[1].val # None
  BY CredsIsBatch
<1>4. mem \in [Keys -> Vals \union {None}]
  BY <1>1, OpenFile
<1>5. CASE CrashInWrite(b)
  BY <1>1, <1>3, <1>5, CrashInWriteMaps
<1>6. ASSUME NEW w \in Writes(b), MaybeCompact(w, mem, w = b), mem' = Apply(mem, b), pc' = "up"
      PROVE  Durable!DNext
  <2>1. w \in Pieces(b)
    BY <1>3, WritesPieces
  <2>2. CASE Extend(w) /\ cut' = cut
    BY <1>1, <1>3, <1>6, <2>1, <2>2, SmallMaps
  <2>3. mem = [k \in Keys |-> IF k \in Keys \ {Creds} THEN mem'[k] ELSE None]
    <3>1. b \in Seq(Chunk)
      BY <1>3, Chunks DEF IsBatch
    <3>2. ASSUME NEW k \in Keys, k # Creds PROVE mem'[k] = mem[k]
      <4>1. \A j \in 1..Len(b) : ~ (b[j] \in Rec /\ b[j].key = k)
        BY <1>3, <3>2
      <4>2. QED
        BY <1>6, <3>1, <4>1, ApplyNone
    <3>3. QED
      BY <1>1, <1>4, <3>2
  <2>4. CASE TooBig(file \o w, mem) /\ filled' = FALSE /\ file' = Snapshot(mem) /\ cut' = cut
    <3>1. cut' = TRUE
      <4>1. cut
        BY <1>1, <2>1, <2>4, TooBigCut
      <4>2. cut \in BOOLEAN
        BY <1>1, OpenFile
      <4>3. QED
        BY <2>4, <4>1, <4>2
    <3>2. file' \in Seq(Chunk) /\ Headed(file') /\ Recover(file') = mem
      BY <1>4, <2>4, SnapshotHolds
    <3>3. PICK K \in SUBSET Keys : K = Keys \ {Creds}
      OBVIOUS
    <3>4. [k \in Keys |-> IF k \in K THEN mem'[k] ELSE None] \in Durable!Submaps(mem')
      BY Submap, Zenon
    <3>5. Recover(file') \in Durable!Submaps(mem')
      BY <2>3, <3>2, <3>3, <3>4, Zenon
    <3>6. QED
      BY <1>1, <1>3, <1>6, <2>4, <3>1, <3>2, <3>5, BigMaps
  <2>5. CASE filled' = FALSE /\ file' \in CutSnapshots(mem) /\ cut' = TRUE
    <3>1. /\ file' \in Seq(Chunk) /\ (Short(file') \/ Headed(file'))
          /\ Recover(file') \in Durable!Submaps(mem)
      BY <1>4, <2>5, CutHolds
    <3>2. Recover(file') \in Durable!Submaps(mem')
      BY <2>3, <3>1, SubmapGrows
    <3>3. QED
      BY <1>1, <1>3, <1>6, <2>5, <3>1, <3>2, BigMaps
  <2>6. QED
    BY <1>6, <2>2, <2>4, <2>5, Zenon DEF MaybeCompact
<1>7. QED
  BY <1>2, <1>5, <1>6

LEMMA MapStep == IInv /\ [Next]_vars => [Durable!DNext]_(Durable!dvars)
<1> SUFFICES ASSUME IInv, [Next]_vars PROVE [Durable!DNext]_(Durable!dvars)
  OBVIOUS
<1>1. CASE ResolveKey \/ Ready \/ UNCHANGED vars
  <2>1. /\ file' = file /\ mem' = mem /\ filled' = filled /\ cut' = cut
        /\ pc' = "down" <=> pc = "down"
    BY <1>1 DEF ResolveKey, Ready, vars
  <2>2. Found' = Found
    BY <2>1, Zenon DEF Found, Refused
  <2>3. Intact' <=> Intact
    BY <2>1, Zenon DEF Intact
  <2>4. Intact' = Intact
    BY <2>3, FoundIs
  <2>5. (pc # "down")' = (pc # "down")
    BY <2>1
  <2>6. QED
    BY <2>1, <2>2, <2>4, <2>5, Zenon DEF Durable!dvars
<1>2. CASE Create
  BY <1>2, CreateMaps
<1>3. CASE Load
  BY <1>3, LoadMaps
<1>4. CASE FirstCreds
  BY <1>4, FirstCredsMaps
<1>5. CASE Crash
  BY <1>5, CrashMaps
<1>6. CASE KeysSet \/ SaveCreds
  <2>1. PICK b \in SetBatches \union CredsBatches : AppendRecords(b)
    BY <1>6, Zenon DEF KeysSet, SaveCreds
  <2>2. QED
    BY <2>1, SetIsBatch, CredsIsBatch, AppendMaps
<1>7. QED
  BY <1>1, <1>2, <1>3, <1>4, <1>5, <1>6 DEF Next

(* The log implements the map that survives crashes: what it promises its     *)
(* callers (DurableMap) holds of every behaviour of auth/file-state.ts.       *)
THEOREM LogIsDurableMap == Spec => ImplementsMap
<1>1. Init => Durable!DInit
  BY MapInit
<1>2. IInv /\ [Next]_vars => [Durable!DNext]_(Durable!dvars)
  BY MapStep
<1>3. QED
  BY <1>1, <1>2, Inductive, PTL DEF Spec, ImplementsMap, Durable!DSpec
=============================================================================
