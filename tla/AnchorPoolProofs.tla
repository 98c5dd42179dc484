--------------------------- MODULE AnchorPoolProofs ---------------------------
(***************************************************************************)
(* Theorems about AnchorPool, for any number of messages and nodes, any    *)
(* lengths, any limit of the pool and any window.                          *)
(***************************************************************************)
EXTENDS AnchorPool, SequenceTheorems, WellFoundedInduction, TLAPS

-----------------------------------------------------------------------------
(* Buckets as sequences of keys.                                           *)

\* No key is there twice.
Unique(s) == \A i, j \in DOMAIN s : s[i] = s[j] => i = j

\* d[key] = ... adds the key if it is not there.
LEMMA WithKeyIs ==
    ASSUME NEW s \in Seq(Msgs), Unique(s), NEW m \in Msgs
    PROVE  /\ WithKey(s, m) \in Seq(Msgs) /\ Unique(WithKey(s, m))
           /\ ToSet(WithKey(s, m)) = ToSet(s) \cup {m}
           /\ Len(WithKey(s, m)) = Len(s) + (IF m \in ToSet(s) THEN 0 ELSE 1)
<1>1. Len(s) \in Nat /\ DOMAIN s = 1 .. Len(s)
  BY LenProperties
<1>2. CASE m \in ToSet(s)
  BY <1>1, <1>2 DEF WithKey
<1>3. CASE m \notin ToSet(s)
  <2> DEFINE t == Append(s, m)
  <2>1. /\ t \in Seq(Msgs) /\ Len(t) = Len(s) + 1
        /\ \A i \in 1 .. Len(s) : t[i] = s[i]
        /\ t[Len(s) + 1] = m
    BY AppendProperties
  <2>2. DOMAIN t = 1 .. Len(s) + 1
    BY <2>1, LenProperties
  <2> HIDE DEF t
  <2>3. \A i \in 1 .. Len(s) : s[i] # m
    BY <1>1, <1>3 DEF ToSet
  <2>4. Unique(t)
    BY <1>1, <2>1, <2>2, <2>3 DEF Unique
  <2>5. ToSet(t) = ToSet(s) \cup {m}
    <3>1. ASSUME NEW x \in ToSet(t) PROVE x \in ToSet(s) \cup {m}
      BY <1>1, <2>1, <2>2 DEF ToSet
    <3>2. ASSUME NEW x \in ToSet(s) PROVE x \in ToSet(t)
      BY <1>1, <2>1, <2>2 DEF ToSet
    <3>3. m \in ToSet(t)
      <4>1. Len(s) + 1 \in DOMAIN t
        BY <1>1, <2>2
      <4> QED BY <2>1, <4>1 DEF ToSet
    <3> QED BY <3>1, <3>2, <3>3
  <2> QED BY <1>3, <2>1, <2>4, <2>5 DEF WithKey, t
<1> QED BY <1>2, <1>3

\* del d[key] closes the gap.
LEMMA WithoutKeyIs ==
    ASSUME NEW s \in Seq(Msgs), Unique(s), NEW m \in Msgs
    PROVE  /\ WithoutKey(s, m) \in Seq(Msgs) /\ Unique(WithoutKey(s, m))
           /\ ToSet(WithoutKey(s, m)) = ToSet(s) \ {m}
           /\ Len(WithoutKey(s, m)) = Len(s) - (IF m \in ToSet(s) THEN 1 ELSE 0)
<1>1. Len(s) \in Nat /\ DOMAIN s = 1 .. Len(s)
  BY LenProperties
<1>2. CASE m \notin ToSet(s)
  BY <1>1, <1>2 DEF WithoutKey
<1>3. CASE m \in ToSet(s)
  <2> DEFINE c == CHOOSE i \in DOMAIN s : s[i] = m
             left == SubSeq(s, 1, c - 1)
             right == SubSeq(s, c + 1, Len(s))
             t == left \o right
  <2>1. WithoutKey(s, m) = t
    BY <1>3 DEF WithoutKey, RemoveAt
  <2>2. c \in 1 .. Len(s) /\ s[c] = m
    BY <1>1, <1>3 DEF ToSet
  <2> HIDE DEF c
  <2>3. \A i \in 1 .. Len(s) : s[i] \in Msgs
    BY ElementOfSeq
  <2>4. /\ left \in Seq(Msgs) /\ Len(left) = c - 1
        /\ \A i \in 1 .. c - 1 : left[i] = s[i]
    <3> DEFINE z == c - 1
    <3>1. z \in Int /\ (1 <= z => z - 1 + 1 = c - 1) /\ (~ 1 <= z => c - 1 = 0)
          /\ z - 1 + 1 = c - 1
      BY <2>2
    <3>2. \A i \in 1 .. z : s[i] \in Msgs
      BY <1>1, <2>2, <2>3
    <3>3. \A i \in 1 .. z : 1 + i - 1 = i
      BY <2>2
    <3> HIDE DEF z
    <3>4. /\ SubSeq(s, 1, z) \in Seq(Msgs)
          /\ Len(SubSeq(s, 1, z)) = IF 1 <= z THEN z - 1 + 1 ELSE 0
          /\ \A i \in 1 .. z - 1 + 1 : SubSeq(s, 1, z)[i] = s[1 + i - 1]
      BY <3>1, <3>2, SubSeqProperties
    <3> QED BY <3>1, <3>3, <3>4 DEF z
  <2>5. /\ right \in Seq(Msgs) /\ Len(right) = Len(s) - c
        /\ \A i \in 1 .. Len(s) - c : right[i] = s[c + i]
    <3> DEFINE a == c + 1
               z == Len(s)
    <3>1. a \in Int /\ z \in Int /\ z - a + 1 = Len(s) - c /\ (a <= z \/ Len(s) - c = 0)
      <4>1. c \in Int /\ z \in Int /\ c <= z
        BY <1>1, <2>2
      <4> HIDE DEF z
      <4>2. z - a + 1 = z - c /\ (a <= z \/ z - c = 0) /\ a \in Int
        BY <4>1
      <4> QED BY <4>1, <4>2 DEF z
    <3>2. \A i \in a .. z : s[i] \in Msgs
      BY <1>1, <2>2, <2>3
    <3>3. \A i \in 1 .. Len(s) - c : a + i - 1 = c + i
      BY <1>1, <2>2
    <3> HIDE DEF a, z
    <3>4. /\ SubSeq(s, a, z) \in Seq(Msgs)
          /\ Len(SubSeq(s, a, z)) = IF a <= z THEN z - a + 1 ELSE 0
          /\ \A i \in 1 .. z - a + 1 : SubSeq(s, a, z)[i] = s[a + i - 1]
      BY <3>1, <3>2, SubSeqProperties
    <3> QED BY <3>1, <3>3, <3>4 DEF a, z
  <2> HIDE DEF left, right
  <2>6. /\ t \in Seq(Msgs) /\ Len(t) = Len(s) - 1
        /\ \A i \in 1 .. Len(s) - 1 : t[i] = IF i < c THEN s[i] ELSE s[i + 1]
    <3>1. t \in Seq(Msgs) /\ Len(t) = Len(left) + Len(right)
      BY <2>4, <2>5, ConcatProperties
    <3>2. \A i \in 1 .. Len(left) + Len(right) :
             t[i] = IF i <= Len(left) THEN left[i] ELSE right[i - Len(left)]
      BY <2>4, <2>5, ConcatProperties
    <3> HIDE DEF t
    <3>3. Len(left) + Len(right) = Len(s) - 1
      BY <1>1, <2>2, <2>4, <2>5
    <3>4. ASSUME NEW i \in 1 .. Len(s) - 1
          PROVE  t[i] = IF i < c THEN s[i] ELSE s[i + 1]
      <4>1. CASE i < c
        BY <1>1, <2>2, <2>4, <3>2, <3>3, <4>1
      <4>2. CASE ~(i < c)
        <5>1. i - (c - 1) \in 1 .. Len(s) - c /\ c + (i - (c - 1)) = i + 1 /\ ~(i <= c - 1)
          BY <1>1, <2>2, <4>2
        <5>2. t[i] = right[i - (c - 1)]
          BY <2>4, <3>2, <3>3, <5>1
        <5> QED BY <2>5, <4>2, <5>1, <5>2
      <4> QED BY <4>1, <4>2
    <3> QED BY <3>1, <3>3, <3>4
  <2> HIDE DEF t
  <2>7. DOMAIN t = 1 .. Len(s) - 1
    BY <2>6, LenProperties
  <2>8. Unique(t)
    <3> SUFFICES ASSUME NEW i \in DOMAIN t, NEW j \in DOMAIN t, t[i] = t[j]
                 PROVE  i = j
      BY DEF Unique
    <3> DEFINE f(x) == IF x < c THEN x ELSE x + 1
    <3>1. f(i) \in DOMAIN s /\ f(j) \in DOMAIN s /\ t[i] = s[f(i)] /\ t[j] = s[f(j)]
      BY <1>1, <2>2, <2>6, <2>7
    <3>2. f(i) = f(j)
      BY <3>1 DEF Unique
    <3> QED BY <1>1, <2>2, <2>7, <3>2
  <2>9. ToSet(t) = ToSet(s) \ {m}
    <3>1. ASSUME NEW i \in DOMAIN t PROVE t[i] \in ToSet(s) \ {m}
      <4> DEFINE f == IF i < c THEN i ELSE i + 1
      <4>1. f \in DOMAIN s /\ t[i] = s[f] /\ f # c
        BY <1>1, <2>2, <2>6, <2>7
      <4> HIDE DEF f
      <4>2. s[f] # m
        BY <1>1, <2>2, <4>1 DEF Unique
      <4> QED BY <4>1, <4>2 DEF ToSet
    <3>2. ASSUME NEW i \in DOMAIN s, s[i] # m PROVE s[i] \in ToSet(t)
      <4> DEFINE f == IF i < c THEN i ELSE i - 1
      <4>1. i # c
        BY <2>2, <3>2
      <4>2. f \in DOMAIN t /\ t[f] = s[i]
        BY <1>1, <2>2, <2>6, <2>7, <4>1
      <4> HIDE DEF f
      <4> QED BY <4>2 DEF ToSet
    <3> QED BY <3>1, <3>2 DEF ToSet
  <2> QED BY <1>3, <2>1, <2>6, <2>8, <2>9
<1> QED BY <1>2, <1>3

\* A set of numbers that is not empty has a smallest one.
LEMMA Smallest ==
    ASSUME NEW T \in SUBSET Nat, T # {}
    PROVE  \E x \in T : \A y \in T : x <= y
<1>1. PICK x \in T : \A y \in T : ~(<<y, x>> \in OpToRel(<, Nat))
  BY NatLessThanWellFounded, WFMin
<1>2. \A y \in T : ~(y < x)
  BY <1>1 DEF OpToRel
<1> QED BY <1>2

-----------------------------------------------------------------------------
(* The inductive invariant.                                                *)

\* The keys of both buckets are unique, and deltas belong to anchors.
KeysInv ==
    /\ Unique(anchors) /\ Unique(info)
    /\ \A m \in Msgs : deltas[m] # {} => m \in ToSet(anchors)

\* An input is measured once, so its anchor has the length it had then.
SizesInv == kind = "input" => \A m \in ToSet(anchors) : len[m] = size[m] /\ emb[m] = size[m]

IInv ==
    /\ TypeOK /\ KeysInv /\ SizesInv
    /\ ResponsePoolBounded /\ BooksAgree /\ CountsAreReal /\ NoOrphans

\* The keys of a bucket are messages.
LEMMA KeysAreMsgs ==
    ASSUME TypeOK
    PROVE  ToSet(anchors) \subseteq Msgs /\ ToSet(info) \subseteq Msgs
<1>1. ASSUME NEW s \in Seq(Msgs) PROVE ToSet(s) \subseteq Msgs
  BY ElementOfSeq, LenProperties DEF ToSet
<1> QED BY <1>1 DEF TypeOK

\* update_anchor has a victim as soon as the info bucket has a key: it is among
\* the oldest, and of those none was activated less.
LEMMA VictimIs ==
    ASSUME TypeOK, info # <<>>
    PROVE  /\ Victim \in ToSet(Oldest(info))
           /\ \E c \in DOMAIN info \cap 1 .. Window : Victim = info[c]
           /\ \A j \in DOMAIN info \cap 1 .. Window : count[Victim] <= count[info[j]]
<1> DEFINE w == Oldest(info)
           n == IF Len(info) < Window THEN Len(info) ELSE Window
           least == {i \in DOMAIN w : \A j \in DOMAIN w : count[w[i]] <= count[w[j]]}
           c == CHOOSE i \in least : \A j \in least : i <= j
<1>1. /\ info \in Seq(Msgs) /\ Len(info) \in Nat \ {0} /\ DOMAIN info = 1 .. Len(info)
      /\ Window \in Nat \ {0}
  BY EmptySeq, LenProperties, PoolAssumption DEF TypeOK
<1>2. n \in 1 .. Len(info) /\ DOMAIN info \cap 1 .. Window = 1 .. n
  BY <1>1
<1>3. w = SubSeq(info, 1, n)
  BY DEF Oldest
<1> HIDE DEF n, w
<1>4. DOMAIN w = 1 .. n /\ \A i \in 1 .. n : w[i] = info[i]
  <2>1. \A i \in 1 .. n : info[i] \in Msgs
    BY <1>1, <1>2, ElementOfSeq
  <2>2. /\ SubSeq(info, 1, n) \in Seq(Msgs)
        /\ Len(SubSeq(info, 1, n)) = n
        /\ \A i \in 1 .. n : SubSeq(info, 1, n)[i] = info[i]
    <3>1. n \in Int /\ 1 <= n /\ n - 1 + 1 = n /\ \A i \in 1 .. n : 1 + i - 1 = i
      BY <1>2
    <3> QED BY <2>1, <3>1, SubSeqProperties
  <2> QED BY <1>3, <2>2, LenProperties
<1>5. \A i \in 1 .. n : count[w[i]] \in Nat
  BY <1>1, <1>2, <1>4, ElementOfSeq DEF TypeOK
<1>6. least # {}
  <2> DEFINE C == {count[w[i]] : i \in 1 .. n}
  <2>1. C \in SUBSET Nat /\ C # {}
    BY <1>2, <1>5
  <2>2. PICK x \in C : \A y \in C : x <= y
    BY <2>1, Smallest
  <2> QED BY <1>4, <2>2
<1>7. least \in SUBSET Nat
  BY <1>4
<1>8. \E i \in least : \A j \in least : i <= j
  <2> HIDE DEF least
  <2> QED BY <1>6, <1>7, Smallest
<1>9. c \in least
  BY <1>8
<1>10. Victim = w[c]
  BY DEF Victim, w
<1> HIDE DEF c
<1>11. c \in 1 .. n /\ \A j \in 1 .. n : count[w[c]] <= count[w[j]]
  BY <1>4, <1>9
<1> HIDE DEF least
<1>12. Victim \in ToSet(w)
  BY <1>4, <1>10, <1>11 DEF ToSet
<1> QED BY <1>2, <1>4, <1>10, <1>11, <1>12 DEF w

\* The message that update_anchor drops, if any.
Gone == IF Evicts THEN {Victim} ELSE {}

LEMMA GoneIs ==
    ASSUME TypeOK
    PROVE  /\ Gone \subseteq ToSet(info) /\ Gone \subseteq Msgs
           /\ Evicts => Victim \in Msgs /\ Gone = {Victim}
           /\ ~Evicts => Gone = {}
<1>1. CASE Evicts
  <2>1. PICK c \in DOMAIN info : Victim = info[c]
    BY <1>1, VictimIs DEF Evicts
  <2>2. Victim \in ToSet(info)
    BY <2>1 DEF ToSet
  <2> QED BY <1>1, <2>2, KeysAreMsgs DEF Gone
<1>2. CASE ~Evicts
  BY <1>2 DEF Gone
<1> QED BY <1>1, <1>2

LEMMA LeftIs ==
    ASSUME TypeOK, NEW s \in Seq(Msgs), Unique(s)
    PROVE  /\ Left(s) \in Seq(Msgs) /\ Unique(Left(s))
           /\ ToSet(Left(s)) = ToSet(s) \ Gone
           /\ ~Evicts => Left(s) = s
           /\ Evicts /\ Victim \in ToSet(s) => Len(Left(s)) = Len(s) - 1
<1>1. CASE Evicts
  BY <1>1, GoneIs, WithoutKeyIs DEF Left
<1>2. CASE ~Evicts
  BY <1>2, GoneIs DEF Left
<1> QED BY <1>1, <1>2

-----------------------------------------------------------------------------
(* A dense prefill.                                                        *)

\* What set_anchor does, message by message.
LEMMA SetAnchorIs ==
    ASSUME TypeOK, KeysInv, NEW n \in Nodes, NEW m \in Msgs, SetAnchor(n, m), UNCHANGED kind
    PROVE  /\ TypeOK'
           /\ anchors' = WithKey(Left(anchors), m)
           /\ Unique(anchors') /\ ToSet(anchors') = (ToSet(anchors) \ Gone) \cup {m}
           /\ Unique(info')
           /\ ToSet(info') = (ToSet(info) \ Gone) \cup (IF Stored(m) THEN {} ELSE {m})
           /\ \A x \in Msgs \ {m} :
                 /\ emb'[x] = IF x \in Gone THEN 0 ELSE emb[x]
                 /\ len'[x] = IF x \in Gone THEN 0 ELSE len[x]
                 /\ deltas'[x] = IF x \in Gone THEN {} ELSE deltas[x]
                 /\ count'[x] = IF x \in Gone THEN 0 ELSE count[x]
                 /\ hits'[x] = IF x \in Gone THEN 0 ELSE hits[x]
                 /\ global'[x] = IF x \in Gone THEN -1 ELSE global[x]
           /\ emb'[m] = size[m] /\ size[m] # 0 /\ size' = size
           /\ Stored(m) <=> m \in ToSet(anchors) \ Gone
           /\ Stored(m) => /\ len'[m] = len[m] /\ count'[m] = count[m] /\ hits'[m] = hits[m]
                           /\ global'[m] = global[m] /\ deltas'[m] = deltas[m] \cup {n}
           /\ ~Stored(m) => /\ len'[m] = size[m] /\ count'[m] = 0 /\ hits'[m] = 0
                            /\ global'[m] # -1
                            /\ global[m] = -1 => global'[m] = 0
                            /\ m \in Gone => global'[m] = 0
<1> DEFINE N0 == Range0(Sizes)
           N1 == Nat \cup {-1}
           N2 == SUBSET Nodes
           ce == Cleared(emb, 0)
           cl == Cleared(len, 0)
           cc == Cleared(count, 0)
           ch == Cleared(hits, 0)
           cg == Cleared(global, -1)
           cd == Cleared(deltas, {})
<1>1. /\ ce \in [Msgs -> N0] /\ \A x \in Msgs : ce[x] = IF x \in Gone THEN 0 ELSE emb[x]
      /\ cl \in [Msgs -> N0] /\ \A x \in Msgs : cl[x] = IF x \in Gone THEN 0 ELSE len[x]
  <2>1. emb \in [Msgs -> N0] /\ len \in [Msgs -> N0] /\ 0 \in N0
    BY DEF TypeOK, Range0
  <2> HIDE DEF N0
  <2>2. /\ ce \in [Msgs -> N0]
        /\ \A x \in Msgs : ce[x] = IF x \in Gone THEN 0 ELSE emb[x]
    BY <2>1, GoneIs DEF Cleared
  <2>3. /\ cl \in [Msgs -> N0]
        /\ \A x \in Msgs : cl[x] = IF x \in Gone THEN 0 ELSE len[x]
    BY <2>1, GoneIs DEF Cleared
  <2> QED BY <2>2, <2>3
<1>2. /\ cc \in [Msgs -> Nat] /\ \A x \in Msgs : cc[x] = IF x \in Gone THEN 0 ELSE count[x]
      /\ ch \in [Msgs -> Nat] /\ \A x \in Msgs : ch[x] = IF x \in Gone THEN 0 ELSE hits[x]
  <2>1. count \in [Msgs -> Nat] /\ hits \in [Msgs -> Nat] /\ 0 \in Nat
    BY DEF TypeOK
  <2>2. /\ cc \in [Msgs -> Nat]
        /\ \A x \in Msgs : cc[x] = IF x \in Gone THEN 0 ELSE count[x]
    BY <2>1, GoneIs DEF Cleared
  <2>3. /\ ch \in [Msgs -> Nat]
        /\ \A x \in Msgs : ch[x] = IF x \in Gone THEN 0 ELSE hits[x]
    BY <2>1, GoneIs DEF Cleared
  <2> QED BY <2>2, <2>3
<1>3. cg \in [Msgs -> N1] /\ \A x \in Msgs : cg[x] = IF x \in Gone THEN -1 ELSE global[x]
  <2>1. global \in [Msgs -> N1] /\ -1 \in N1
    BY DEF TypeOK
  <2> HIDE DEF N1
  <2>2. /\ cg \in [Msgs -> N1]
        /\ \A x \in Msgs : cg[x] = IF x \in Gone THEN -1 ELSE global[x]
    BY <2>1, GoneIs DEF Cleared
  <2> QED BY <2>2
<1>4. /\ cd \in [Msgs -> N2]
      /\ \A x \in Msgs : cd[x] = IF x \in Gone THEN {} ELSE deltas[x]
  <2>1. deltas \in [Msgs -> N2] /\ {} \in N2
    BY DEF TypeOK
  <2> HIDE DEF N2
  <2>2. /\ cd \in [Msgs -> N2]
        /\ \A x \in Msgs : cd[x] = IF x \in Gone THEN {} ELSE deltas[x]
    BY <2>1, GoneIs DEF Cleared
  <2> QED BY <2>2
<1>5. /\ Left(anchors) \in Seq(Msgs) /\ Unique(Left(anchors))
      /\ ToSet(Left(anchors)) = ToSet(anchors) \ Gone
      /\ Left(info) \in Seq(Msgs) /\ Unique(Left(info))
      /\ ToSet(Left(info)) = ToSet(info) \ Gone
  BY LeftIs DEF TypeOK, KeysInv
<1>6. /\ anchors' = WithKey(Left(anchors), m)
      /\ anchors' \in Seq(Msgs) /\ Unique(anchors')
      /\ ToSet(anchors') = (ToSet(anchors) \ Gone) \cup {m}
  <2>1. anchors' = WithKey(Left(anchors), m)
    BY DEF SetAnchor
  <2> QED BY <1>5, <2>1, WithKeyIs
<1>7. Stored(m) <=> m \in ToSet(anchors) \ Gone
  BY <1>5 DEF Stored
<1>8. /\ emb' = [ce EXCEPT ![m] = size[m]] /\ size[m] # 0 /\ size' = size /\ flag' = flag
      /\ size[m] \in N0
  BY DEF SetAnchor, TypeOK
<1>9. CASE Stored(m)
  <2>1. /\ info' = Left(info) /\ count' = cc /\ len' = cl /\ global' = cg /\ hits' = ch
        /\ deltas' = [cd EXCEPT ![m] = cd[m] \cup {n}]
    BY <1>9 DEF SetAnchor, Updated
  <2> HIDE DEF ce, cl, cc, ch, cg, cd, N0, N1
  <2>2. TypeOK'
    <3>1. emb' \in [Msgs -> N0] /\ deltas' \in [Msgs -> SUBSET Nodes]
      BY <1>1, <1>4, <1>8, <2>1
    <3> QED BY <1>1, <1>2, <1>3, <1>5, <1>6, <1>8, <2>1, <3>1 DEF TypeOK, N0, N1, SetAnchor
  <2> QED BY <1>1, <1>2, <1>3, <1>4, <1>5, <1>6, <1>7, <1>8, <1>9, <2>1, <2>2
<1>10. CASE ~Stored(m)
  <2>1. /\ info' = WithKey(Left(info), m) /\ count' = [cc EXCEPT ![m] = 0]
        /\ len' = [cl EXCEPT ![m] = size[m]]
        /\ global' = [cg EXCEPT ![m] = IF cg[m] = -1 THEN 0 ELSE cg[m]]
        /\ hits' = [ch EXCEPT ![m] = 0]
        /\ deltas' = [cd EXCEPT ![m] = {n}]
    BY <1>10 DEF SetAnchor
  <2> HIDE DEF ce, cl, cc, ch, cg, cd, N0
  <2>2. /\ info' \in Seq(Msgs) /\ Unique(info')
        /\ ToSet(info') = (ToSet(info) \ Gone) \cup {m}
    BY <1>5, <2>1, WithKeyIs
  <2>3. (IF cg[m] = -1 THEN 0 ELSE cg[m]) \in N1 /\ (IF cg[m] = -1 THEN 0 ELSE cg[m]) # -1
    BY <1>3
  <2> HIDE DEF N1
  <2>4. TypeOK'
    <3>1. emb' \in [Msgs -> N0] /\ len' \in [Msgs -> N0] /\ deltas' \in [Msgs -> SUBSET Nodes]
      BY <1>1, <1>4, <1>8, <2>1
    <3>2. count' \in [Msgs -> Nat] /\ hits' \in [Msgs -> Nat] /\ global' \in [Msgs -> N1]
      BY <1>2, <1>3, <2>1, <2>3
    <3> QED BY <1>6, <1>8, <2>2, <3>1, <3>2 DEF TypeOK, N0, N1, SetAnchor
  <2> QED BY <1>1, <1>2, <1>3, <1>4, <1>6, <1>7, <1>8, <1>10, <2>1, <2>2, <2>3, <2>4
<1> QED BY <1>9, <1>10

\* A dense prefill keeps the books: the dropped message leaves every bucket, the
\* materialised one is in all of them.
LEMMA SetAnchorKeeps ==
    ASSUME IInv, NEW n \in Nodes, NEW m \in Msgs, SetAnchor(n, m), UNCHANGED kind
    PROVE  IInv'
<1> USE DEF IInv
<1>1. TypeOK'
  BY SetAnchorIs
<1>2. KeysInv'
  <2>1. \A x \in Msgs : deltas'[x] # {} => x \in ToSet(anchors')
    <3>1. ASSUME NEW x \in Msgs \ {m}, deltas'[x] # {} PROVE x \in ToSet(anchors) \ Gone
      BY <3>1, SetAnchorIs DEF KeysInv
    <3> QED BY <3>1, SetAnchorIs
  <2> QED BY <2>1, SetAnchorIs DEF KeysInv
<1>3. SizesInv'
  <2> SUFFICES ASSUME kind = "input", NEW x \in ToSet(anchors')
               PROVE  len'[x] = size'[x] /\ emb'[x] = size'[x]
    BY DEF SizesInv
  <2>1. CASE x = m
    BY <2>1, SetAnchorIs DEF SizesInv
  <2>2. CASE x # m
    <3>1. x \in ToSet(anchors) \ Gone /\ x \in Msgs \ {m}
      BY <2>2, SetAnchorIs, KeysAreMsgs
    <3> QED BY <3>1, SetAnchorIs DEF SizesInv
  <2> QED BY <2>1, <2>2
<1>4. NoOrphans'
  <2> SUFFICES ASSUME NEW x \in ToSet(anchors')
               PROVE  x \in ToSet(info') /\ len'[x] # 0 /\ global'[x] # -1
    BY DEF NoOrphans
  <2>1. CASE x = m
    <3>1. CASE Stored(m)
      <4>1. m \in ToSet(anchors) \ Gone
        BY <3>1, SetAnchorIs
      <4> QED BY <2>1, <3>1, <4>1, SetAnchorIs DEF NoOrphans
    <3>2. CASE ~Stored(m)
      BY <2>1, <3>2, SetAnchorIs
    <3> QED BY <3>1, <3>2
  <2>2. CASE x # m
    <3>1. x \in ToSet(anchors) \ Gone /\ x \in Msgs \ {m}
      BY <2>2, SetAnchorIs, KeysAreMsgs
    <3>2. x \in ToSet(info') /\ len'[x] = len[x] /\ global'[x] = global[x]
      BY <3>1, SetAnchorIs DEF NoOrphans
    <3> QED BY <3>1, <3>2 DEF NoOrphans
  <2> QED BY <2>1, <2>2
<1>5. ResponsePoolBounded'
  <2> SUFFICES ASSUME kind = "response" PROVE Len(anchors') <= MaxAnchors + 1
    BY DEF ResponsePoolBounded
  <2>1. /\ info = anchors /\ anchors \in Seq(Msgs) /\ Unique(anchors)
        /\ Len(anchors) \in Nat /\ Len(anchors) <= MaxAnchors + 1 /\ MaxAnchors \in Nat
    BY PoolAssumption, LenProperties DEF BooksAgree, KeysInv, ResponsePoolBounded, TypeOK
  <2>2. Left(anchors) \in Seq(Msgs) /\ Unique(Left(anchors)) /\ Len(Left(anchors)) \in Nat
    BY <2>1, LeftIs, LenProperties
  <2>3. Len(Left(anchors)) <= MaxAnchors
    <3>1. CASE OverStore
      <4>1. Evicts
        BY <2>1, <3>1, EmptySeq DEF Evicts, OverStore
      <4>2. Victim \in ToSet(anchors)
        BY <2>1, <4>1, GoneIs
      <4>3. Len(Left(anchors)) = Len(anchors) - 1
        BY <2>1, <4>1, <4>2, LeftIs
      <4> QED BY <2>1, <4>3
    <3>2. CASE ~OverStore
      <4>1. Left(anchors) = anchors /\ ~(Len(anchors) > MaxAnchors)
        BY <2>1, <3>2, LeftIs DEF Evicts, OverStore
      <4> QED BY <2>1, <4>1
    <3> QED BY <3>1, <3>2
  <2>4. anchors' = WithKey(Left(anchors), m)
    BY SetAnchorIs
  <2>5. Len(anchors') = Len(Left(anchors)) + (IF m \in ToSet(Left(anchors)) THEN 0 ELSE 1)
    BY <2>2, <2>4, WithKeyIs
  <2> QED BY <2>1, <2>2, <2>3, <2>5
<1>6. BooksAgree'
  <2> SUFFICES ASSUME kind = "response"
               PROVE  /\ info' = anchors'
                      /\ \A x \in Msgs : /\ x \in ToSet(anchors') <=> len'[x] # 0
                                         /\ x \in ToSet(anchors') <=> emb'[x] # 0
                                         /\ x \in ToSet(anchors') <=> global'[x] # -1
    BY DEF BooksAgree
  <2>1. info = anchors
    BY DEF BooksAgree
  <2>2. info' = anchors'
    <3>1. CASE Stored(m)
      BY <2>1, <3>1 DEF SetAnchor, Stored, WithKey
    <3>2. CASE ~Stored(m)
      BY <2>1, <3>2 DEF SetAnchor
    <3> QED BY <3>1, <3>2
  <2>3. ASSUME NEW x \in Msgs \ {m}
        PROVE  /\ x \in ToSet(anchors') <=> len'[x] # 0
               /\ x \in ToSet(anchors') <=> emb'[x] # 0
               /\ x \in ToSet(anchors') <=> global'[x] # -1
    <3>1. x \in ToSet(anchors') <=> x \in ToSet(anchors) \ Gone
      BY SetAnchorIs
    <3> QED BY <3>1, SetAnchorIs DEF BooksAgree
  <2>4. /\ m \in ToSet(anchors') /\ len'[m] # 0 /\ emb'[m] # 0 /\ global'[m] # -1
    <3>1. m \in ToSet(anchors')
      BY SetAnchorIs
    <3> QED BY <1>4, <3>1, SetAnchorIs DEF NoOrphans
  <2> QED BY <2>2, <2>3, <2>4
<1>7. CountsAreReal'
  <2> SUFFICES ASSUME kind = "response", NEW x \in ToSet(anchors')
               PROVE  count'[x] = hits'[x] /\ global'[x] = hits'[x]
    BY DEF CountsAreReal
  <2>1. CASE x = m
    <3>1. CASE Stored(m)
      <4>1. m \in ToSet(anchors)
        BY <3>1, SetAnchorIs
      <4> QED BY <2>1, <3>1, <4>1, SetAnchorIs DEF CountsAreReal
    <3>2. CASE ~Stored(m)
      <4>1. m \in Gone \/ global[m] = -1
        BY <3>2, SetAnchorIs DEF BooksAgree
      <4> QED BY <2>1, <3>2, <4>1, SetAnchorIs
    <3> QED BY <3>1, <3>2
  <2>2. CASE x # m
    <3>1. x \in ToSet(anchors) \ Gone /\ x \in Msgs \ {m}
      BY <2>2, SetAnchorIs, KeysAreMsgs
    <3> QED BY <3>1, SetAnchorIs DEF CountsAreReal
  <2> QED BY <2>1, <2>2
<1> QED BY <1>1, <1>2, <1>3, <1>4, <1>5, <1>6, <1>7

-----------------------------------------------------------------------------
(* A prediction.                                                           *)

\* An anchor's message is not measured again if it is an input.
LEMMA MeasuredIs ==
    ASSUME IInv, NEW m \in Msgs, NEW k \in Sizes, Measured(m, k)
    PROVE  /\ size' \in [Msgs -> Range0(Sizes)]
           /\ kind = "input" => m \notin ToSet(anchors)
           /\ \A x \in Msgs \ {m} : size'[x] = size[x]
<1>1. size' \in [Msgs -> Range0(Sizes)] /\ \A x \in Msgs \ {m} : size'[x] = size[x]
  BY DEF Measured, IInv, TypeOK, Range0
<1>2. kind = "input" => m \notin ToSet(anchors)
  BY DEF Measured, IInv, SizesInv, NoOrphans
<1> QED BY <1>1, <1>2

LEMMA PredictNewKeeps ==
    ASSUME IInv, NEW m \in Msgs, PredictNew(m), UNCHANGED kind
    PROVE  IInv'
<1> USE DEF IInv
<1>1. PICK k \in Sizes : Measured(m, k)
  BY DEF PredictNew
<1>2. UNCHANGED <<anchors, emb, deltas, len, hits>> /\ flag' = [flag EXCEPT ![m] = TRUE]
  BY DEF PredictNew
<1>3. CASE kind = "input"
  <2>1. /\ info' = WithKey(info, m)
        /\ count' = [count EXCEPT ![m] = 0] /\ global' = [global EXCEPT ![m] = 0]
    BY <1>3 DEF PredictNew
  <2>2. /\ info' \in Seq(Msgs) /\ Unique(info') /\ ToSet(info') = ToSet(info) \cup {m}
    BY <2>1, WithKeyIs DEF TypeOK, KeysInv
  <2>3. TypeOK'
    BY <1>1, <1>2, <2>1, <2>2, MeasuredIs DEF TypeOK
  <2>4. KeysInv' /\ SizesInv'
    BY <1>1, <1>2, <2>2, MeasuredIs, KeysAreMsgs DEF KeysInv, SizesInv
  <2>5. NoOrphans'
    <3>1. \A x \in Msgs : global[x] # -1 => global'[x] # -1
      BY <2>1 DEF TypeOK
    <3> QED BY <1>2, <2>2, <3>1, KeysAreMsgs DEF NoOrphans
  <2>6. ResponsePoolBounded' /\ BooksAgree' /\ CountsAreReal'
    BY <1>3 DEF ResponsePoolBounded, BooksAgree, CountsAreReal
  <2> QED BY <2>3, <2>4, <2>5, <2>6
<1>4. CASE kind # "input"
  <2>1. UNCHANGED <<info, count, global>>
    BY <1>4 DEF PredictNew
  <2>2. TypeOK'
    BY <1>1, <1>2, <2>1, MeasuredIs DEF TypeOK
  <2>3. KeysInv' /\ SizesInv' /\ NoOrphans' /\ ResponsePoolBounded' /\ BooksAgree' /\ CountsAreReal'
    BY <1>2, <1>4, <2>1 DEF KeysInv, SizesInv, NoOrphans, ResponsePoolBounded, BooksAgree, CountsAreReal
  <2> QED BY <2>2, <2>3
<1> QED BY <1>3, <1>4

\* For a response, the positions of the anchor bucket are those of the info
\* bucket, and the anchors that were selected are the ones credited.
LEMMA PredictSharedKeeps ==
    ASSUME IInv, NEW m \in Msgs, PredictShared(m), UNCHANGED kind
    PROVE  IInv'
<1> USE DEF IInv
<1>1. PICK k \in Sizes, S \in SUBSET DOMAIN anchors :
         /\ Measured(m, k)
         /\ count' = [x \in Msgs |-> count[x] + (IF x \in Credited(S) THEN 1 ELSE 0)]
         /\ hits' = [x \in Msgs |->
                        hits[x] + (IF \E i \in S : anchors[i] = x THEN 1 ELSE 0)]
  BY DEF PredictShared, Available
<1>2. /\ UNCHANGED <<anchors, emb, deltas, len, info>> /\ flag' = [flag EXCEPT ![m] = FALSE]
      /\ global' = [x \in Msgs |-> IF x \in ToSet(info) THEN count'[x] ELSE global[x]]
  BY DEF PredictShared
<1>3. TypeOK'
  <2>1. count' \in [Msgs -> Nat] /\ hits' \in [Msgs -> Nat]
    BY <1>1 DEF TypeOK
  <2>2. global' \in [Msgs -> Nat \cup {-1}]
    BY <1>2, <2>1 DEF TypeOK
  <2> QED BY <1>1, <1>2, <2>1, <2>2, MeasuredIs DEF TypeOK
<1>4. KeysInv' /\ SizesInv' /\ ResponsePoolBounded'
  BY <1>1, <1>2, MeasuredIs, KeysAreMsgs DEF KeysInv, SizesInv, ResponsePoolBounded
<1>5. \A x \in ToSet(info) : global'[x] = count'[x] /\ global'[x] # -1
  <2>1. \A x \in ToSet(info) : count'[x] \in Nat
    BY <1>3, KeysAreMsgs DEF TypeOK
  <2> QED BY <1>2, <2>1, KeysAreMsgs
<1>6. NoOrphans'
  BY <1>2, <1>5 DEF NoOrphans
<1>7. BooksAgree'
  <2> SUFFICES ASSUME kind = "response"
               PROVE  \A x \in Msgs : x \in ToSet(anchors) <=> global'[x] # -1
    BY <1>2 DEF BooksAgree
  <2> QED BY <1>2, <1>5 DEF BooksAgree
<1>8. CountsAreReal'
  <2> SUFFICES ASSUME kind = "response", NEW x \in ToSet(anchors)
               PROVE  count'[x] = hits'[x] /\ global'[x] = hits'[x]
    BY <1>2 DEF CountsAreReal
  <2>1. info = anchors /\ count[x] = hits[x] /\ x \in Msgs
    BY KeysAreMsgs DEF BooksAgree, CountsAreReal
  <2>2. x \in Credited(S) <=> \E i \in S : anchors[i] = x
    BY <2>1 DEF Credited
  <2>3. count'[x] = hits'[x]
    BY <1>1, <2>1, <2>2
  <2> QED BY <1>5, <2>1, <2>3
<1> QED BY <1>3, <1>4, <1>6, <1>7, <1>8

LEMMA PurgeKeeps ==
    ASSUME IInv, NEW n \in Nodes, NEW m \in Msgs, PurgeDeltas(n, m), UNCHANGED kind
    PROVE  IInv'
<1> USE DEF IInv, PurgeDeltas
<1>1. TypeOK'
  BY DEF TypeOK
<1>2. KeysInv'
  BY DEF TypeOK, KeysInv
<1>3. SizesInv' /\ ResponsePoolBounded' /\ BooksAgree' /\ CountsAreReal' /\ NoOrphans'
  BY DEF SizesInv, ResponsePoolBounded, BooksAgree, CountsAreReal, NoOrphans
<1> QED BY <1>1, <1>2, <1>3

LEMMA InitHolds == Init => IInv
<1> SUFFICES ASSUME Init PROVE IInv
  OBVIOUS
<1>1. TypeOK
  BY DEF Init, TypeOK, Range0
<1>2. ToSet(anchors) = {} /\ ToSet(info) = {} /\ info = anchors /\ Unique(anchors)
  BY DEF Init, ToSet, Unique
<1>3. KeysInv /\ SizesInv /\ NoOrphans /\ CountsAreReal
  BY <1>2 DEF Init, KeysInv, SizesInv, NoOrphans, CountsAreReal
<1>4. ResponsePoolBounded
  BY PoolAssumption DEF Init, ResponsePoolBounded
<1>5. BooksAgree
  BY <1>2 DEF Init, BooksAgree
<1> QED BY <1>1, <1>3, <1>4, <1>5 DEF IInv

LEMMA NextKeeps == IInv /\ [Next]_vars => IInv'
<1> SUFFICES ASSUME IInv, [Next]_vars PROVE IInv'
  OBVIOUS
<1>1. CASE UNCHANGED vars
  BY <1>1 DEF vars, IInv, TypeOK, KeysInv, SizesInv, ResponsePoolBounded, BooksAgree, CountsAreReal,
     NoOrphans
<1>2. CASE Next
  BY <1>2, PredictNewKeeps, PredictSharedKeeps, SetAnchorKeeps, PurgeKeeps DEF Next
<1> QED BY <1>1, <1>2

LEMMA Inductive == Spec => []IInv
BY InitHolds, NextKeeps, PTL DEF Spec

-----------------------------------------------------------------------------
(* The theorems.                                                           *)

\* The buckets keep their types, and update_anchor always finds its victim.
THEOREM TypeCorrect == Spec => []TypeOK
BY Inductive, PTL DEF IInv

\* set_anchor trims by at most one, and yet the pool of a response placeholder
\* never has more than one anchor above max_anchor_num.
THEOREM PoolIsBounded == Spec => []ResponsePoolBounded
BY Inductive, PTL DEF IInv

\* The buckets of a response placeholder have the same keys in the same order,
\* which predict_as_anchor and update_anchor rely on when they pair positions.
THEOREM BooksAlwaysAgree == Spec => []BooksAgree
BY Inductive, PTL DEF IInv

\* The counts that decide about an eviction are those of real selections.
THEOREM CountsStayReal == Spec => []CountsAreReal
BY Inductive, PTL DEF IInv

\* Whatever the kind of placeholder, every anchor is in the info bucket with a
\* length and a count, though info entries come before their anchors.
THEOREM NoAnchorIsOrphan == Spec => []NoOrphans
BY Inductive, PTL DEF IInv

\* The recorded length of an input's anchor is that of its tensors.
THEOREM LengthsStayCurrent == Spec => []LengthsCurrent
<1>1. IInv => LengthsCurrent
  BY DEF IInv, SizesInv, LengthsCurrent
<1> QED BY <1>1, Inductive, PTL

\* Only update_anchor drops an anchor of a response placeholder, one of the
\* oldest, and none of those was selected less often.
THEOREM LeastUsedGoes == Spec => EvictsLeastUsed
<1> DEFINE Fair == kind = "response" => \A m \in ToSet(anchors) \ ToSet(anchors') :
                      LET oldest == {anchors[i] : i \in DOMAIN anchors \cap 1..Window}
                      IN  m \in oldest /\ \A x \in oldest : hits[m] <= hits[x]
<1>1. IInv /\ [Next]_vars => [Fair]_vars
  <2> SUFFICES ASSUME IInv, Next, kind = "response", NEW m \in ToSet(anchors) \ ToSet(anchors')
               PROVE  LET oldest == {anchors[i] : i \in DOMAIN anchors \cap 1..Window}
                      IN  m \in oldest /\ \A x \in oldest : hits[m] <= hits[x]
    OBVIOUS
  <2>1. PICK n \in Nodes, a \in Msgs : SetAnchor(n, a) /\ UNCHANGED kind
    BY DEF Next, PredictNew, PredictShared, PurgeDeltas
  <2>2. m \in Gone
    BY <2>1, SetAnchorIs DEF IInv
  <2>3. Evicts /\ m = Victim
    BY <2>2 DEF Gone
  <2>4. info = anchors /\ TypeOK /\ info # <<>>
    BY <2>3 DEF IInv, BooksAgree, Evicts
  <2>5. PICK c \in DOMAIN anchors \cap 1 .. Window : m = anchors[c]
    BY <2>3, <2>4, VictimIs
  <2>6. \A j \in DOMAIN anchors \cap 1 .. Window : count[m] <= count[anchors[j]]
    BY <2>3, <2>4, VictimIs
  <2>7. \A j \in DOMAIN anchors : count[anchors[j]] = hits[anchors[j]]
    BY DEF IInv, CountsAreReal, ToSet
  <2> QED BY <2>5, <2>6, <2>7
<1> QED BY <1>1, Inductive, PTL DEF Spec, EvictsLeastUsed

\* A node that stores its deltas for a message does not take those of the other
\* nodes away: deltas go when they are purged, or with the message that is dropped.
THEOREM OtherDeltasStay == Spec => KeepsOtherDeltas
<1> DEFINE Kept == \A m \in Msgs, n \in Nodes :
                      n \in deltas[m] /\ n \notin deltas'[m] =>
                          \/ deltas' = [deltas EXCEPT ![m] = @ \ {n}]
                          \/ m \in ToSet(Oldest(info)) /\ OverStore
<1>1. IInv /\ [Next]_vars => [Kept]_vars
  <2> SUFFICES ASSUME IInv, Next, NEW m \in Msgs, NEW n \in Nodes,
                      n \in deltas[m], n \notin deltas'[m]
               PROVE  \/ deltas' = [deltas EXCEPT ![m] = @ \ {n}]
                      \/ m \in ToSet(Oldest(info)) /\ OverStore
    OBVIOUS
  <2>1. ASSUME NEW p \in Nodes, NEW a \in Msgs, PurgeDeltas(p, a)
        PROVE  deltas' = [deltas EXCEPT ![m] = @ \ {n}]
    <3>1. a = m /\ p = n
      BY <2>1 DEF PurgeDeltas, IInv, TypeOK
    <3> QED BY <2>1, <3>1 DEF PurgeDeltas
  <2>2. ASSUME NEW p \in Nodes, NEW a \in Msgs, SetAnchor(p, a), UNCHANGED kind
        PROVE  m \in ToSet(Oldest(info)) /\ OverStore
    <3>1. m \in ToSet(anchors)
      BY DEF IInv, KeysInv
    <3>2. m \in Gone
      BY <2>2, <3>1, SetAnchorIs DEF IInv
    <3>3. Evicts /\ m = Victim
      BY <3>2 DEF Gone
    <3>4. TypeOK /\ info # <<>>
      BY <3>3 DEF IInv, Evicts
    <3>5. m \in ToSet(Oldest(info))
      BY <3>3, <3>4, VictimIs
    <3> QED BY <3>3, <3>5 DEF Evicts
  <2> QED BY <2>1, <2>2 DEF Next, PredictNew, PredictShared
<1> QED BY <1>1, Inductive, PTL DEF Spec, KeepsOtherDeltas

=============================================================================
