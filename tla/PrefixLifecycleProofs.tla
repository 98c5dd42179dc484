----------------------- MODULE PrefixLifecycleProofs -----------------------
(***************************************************************************)
(* Theorems about PrefixLifecycle and ConsumerSlots, for any static texts, *)
(* contents and messages, any number of turns and any min_reuse_len.       *)
(***************************************************************************)
EXTENDS ConsumerSlots, SequenceTheorems, NaturalsInduction, WellFoundedInduction, TLAPS

-----------------------------------------------------------------------------
(* Sets of numbers, and sequences cut or compared.                         *)

\* A set of numbers that is not empty has a smallest one.
LEMMA Smallest ==
    ASSUME NEW T \in SUBSET Nat, T # {}
    PROVE  Min(T) \in T /\ \A y \in T : Min(T) <= y
<1>1. PICK x \in T : \A y \in T : ~(<<y, x>> \in OpToRel(<, Nat))
  BY NatLessThanWellFounded, WFMin
<1>2. \A y \in T : ~(y < x)
  BY <1>1 DEF OpToRel
<1>3. \A y \in T : x <= y
  BY <1>2
<1> QED BY <1>3 DEF Min

\* A set of numbers up to N that is not empty has a largest one.
LEMMA Largest ==
    ASSUME NEW N \in Nat, NEW T \in SUBSET (0 .. N), T # {}
    PROVE  Max(T) \in T /\ \A y \in T : Max(T) >= y
<1> DEFINE U == {N - x : x \in T}
<1>1. U \in SUBSET Nat /\ U # {}
  <2>1. \A x \in T : N - x \in Nat
    OBVIOUS
  <2>2. PICK x \in T : TRUE
    OBVIOUS
  <2>3. N - x \in U
    OBVIOUS
  <2> QED BY <2>1, <2>3
<1> HIDE DEF U
<1>2. Min(U) \in U /\ \A y \in U : Min(U) <= y
  BY <1>1, Smallest
<1>3. PICK x \in T : Min(U) = N - x
  BY <1>2 DEF U
<1>4. \A y \in T : N - x <= N - y
  BY <1>2, <1>3 DEF U
<1>5. \A y \in T : x >= y
  BY <1>4
<1> QED BY <1>5 DEF Max

\* What holds of 0, and goes from each number to the next, holds up to n.
LEMMA Climb ==
    ASSUME NEW n \in Nat, NEW T, 0 \in T,
           \A k \in 0 .. n : k \in T /\ k < n => k + 1 \in T
    PROVE  \A k \in 0 .. n : k \in T
<1> DEFINE B == {k \in 0 .. n : k \notin T}
<1> SUFFICES ASSUME B # {} PROVE FALSE
  OBVIOUS
<1>1. B \in SUBSET Nat
  OBVIOUS
<1>2. PICK b \in B : \A y \in B : b <= y
  BY <1>1, Smallest
<1>3. b # 0 /\ b \in 0 .. n /\ b \notin T
  OBVIOUS
<1>4. b - 1 \in 0 .. n /\ b - 1 < b /\ b - 1 < n /\ (b - 1) + 1 = b
  BY <1>3
<1>5. b - 1 \in T
  BY <1>2, <1>4
<1> QED BY <1>3, <1>4, <1>5

\* Two sequences that agree up to n have the same first n elements.
LEMMA SameStart ==
    ASSUME NEW s, NEW t, NEW n \in Nat, \A i \in 1 .. n : s[i] = t[i]
    PROVE  SubSeq(s, 1, n) = SubSeq(t, 1, n)
<1> DEFINE S == {s[i] : i \in 1 .. n}
           u == SubSeq(s, 1, n)
           v == SubSeq(t, 1, n)
<1>1. \A i \in 1 .. n : s[i] \in S /\ t[i] \in S
  OBVIOUS
<1> HIDE DEF S
<1>2. 1 \in Int /\ n \in Int /\ n - 1 + 1 = n /\ (IF 1 <= n THEN n - 1 + 1 ELSE 0) = n
      /\ \A i \in 1 .. n : 1 + i - 1 = i
  OBVIOUS
<1>3. u \in Seq(S) /\ Len(u) = n /\ \A i \in 1 .. n : u[i] = s[i]
  BY <1>1, <1>2, SubSeqProperties
<1>4. v \in Seq(S) /\ Len(v) = n /\ \A i \in 1 .. n : v[i] = t[i]
  BY <1>1, <1>2, SubSeqProperties
<1> HIDE DEF u, v
<1>5. u = v
  BY <1>3, <1>4, SeqEqual
<1> QED BY <1>5 DEF u, v

\* The first n elements of a sequence.
LEMMA FirstOf ==
    ASSUME NEW S, NEW s \in Seq(S), NEW n \in 0 .. Len(s)
    PROVE  /\ SubSeq(s, 1, n) \in Seq(S) /\ Len(SubSeq(s, 1, n)) = n
           /\ \A i \in 1 .. n : SubSeq(s, 1, n)[i] = s[i]
<1>1. Len(s) \in Nat
  BY LenProperties
<1>2. n \in Int /\ n \in Nat /\ n - 1 + 1 = n /\ (IF 1 <= n THEN n - 1 + 1 ELSE 0) = n
      /\ \A i \in 1 .. n : 1 + i - 1 = i /\ i \in 1 .. Len(s)
  BY <1>1
<1>3. \A i \in 1 .. n : s[i] \in S
  BY <1>2, ElementOfSeq
<1> QED BY <1>2, <1>3, SubSeqProperties

\* A function on 1 .. c is a sequence of length c.
LEMMA LengthOf ==
    ASSUME NEW c \in Nat, NEW S, NEW f \in [1 .. c -> S]
    PROVE  f \in Seq(S) /\ Len(f) = c /\ DOMAIN f = 1 .. c
<1>1. f \in Seq(S)
  BY SeqDef
<1>2. Len(f) \in Nat /\ DOMAIN f = 1 .. Len(f)
  BY <1>1, LenProperties
<1>3. DOMAIN f = 1 .. c
  OBVIOUS
<1>4. Len(f) = c
  BY <1>2, <1>3
<1> QED BY <1>1, <1>3, <1>4

-----------------------------------------------------------------------------
(* Where the text spans of a prompt start.                                 *)

Names == {"sep", "end", "open", "assistant", "tool"}
           \cup UNION {{StaticNames[s][i] : i \in DOMAIN StaticNames[s]} : s \in Statics}
Token == Nat \X Names

\* q lists the starts of text spans among the first n places of ids, in order.
ListsStarts(ids, n, q) ==
    /\ q \in Seq(Nat)
    /\ \A j \in 1 .. Len(q) : q[j] < n /\ IsStart(ids, q[j])
    /\ \A a \in 0 .. n - 1 : IsStart(ids, a) => \E j \in 1 .. Len(q) : q[j] = a
    /\ \A j, l \in 1 .. Len(q) : j < l => q[j] < q[l]

\* One place more is looked at.
LEMMA ListMore ==
    ASSUME NEW ids, NEW n \in Nat, NEW q, ListsStarts(ids, n, q)
    PROVE  ListsStarts(ids, n + 1, IF IsStart(ids, n) THEN Append(q, n) ELSE q)
<1>1. q \in Seq(Nat) /\ Len(q) \in Nat
  BY LenProperties DEF ListsStarts
<1>2. \A j \in 1 .. Len(q) : q[j] \in Nat /\ q[j] < n
  BY <1>1, ElementOfSeq DEF ListsStarts
<1>3. \A a \in 0 .. (n + 1) - 1 : a = n \/ a \in 0 .. n - 1
  OBVIOUS
<1>4. CASE ~IsStart(ids, n)
  <2>1. \A a \in 0 .. (n + 1) - 1 : IsStart(ids, a) => \E j \in 1 .. Len(q) : q[j] = a
    BY <1>3, <1>4 DEF ListsStarts
  <2>2. \A j \in 1 .. Len(q) : q[j] < n + 1
    BY <1>2
  <2> QED BY <1>4, <2>1, <2>2 DEF ListsStarts
<1>5. CASE IsStart(ids, n)
  <2> DEFINE r == Append(q, n)
  <2>1. /\ r \in Seq(Nat) /\ Len(r) = Len(q) + 1
        /\ \A j \in 1 .. Len(q) : r[j] = q[j]
        /\ r[Len(q) + 1] = n
    BY <1>1, AppendProperties
  <2> HIDE DEF r
  <2>2. \A j \in 1 .. Len(r) : j \in 1 .. Len(q) \/ j = Len(q) + 1
    BY <1>1, <2>1
  <2>3. ASSUME NEW j \in 1 .. Len(r)
        PROVE  r[j] < n + 1 /\ IsStart(ids, r[j])
    <3>1. CASE j = Len(q) + 1
      BY <1>5, <2>1, <3>1
    <3>2. CASE j \in 1 .. Len(q)
      <4>1. r[j] = q[j] /\ q[j] < n /\ q[j] \in Nat /\ IsStart(ids, q[j])
        BY <1>2, <2>1, <3>2 DEF ListsStarts
      <4> QED BY <4>1
    <3> QED BY <2>2, <3>1, <3>2
  <2>4. ASSUME NEW a \in 0 .. (n + 1) - 1, IsStart(ids, a)
        PROVE  \E j \in 1 .. Len(r) : r[j] = a
    <3>1. CASE a = n
      <4>1. Len(q) + 1 \in 1 .. Len(r)
        BY <1>1, <2>1
      <4> QED BY <2>1, <3>1, <4>1
    <3>2. CASE a # n
      <4>1. PICK j \in 1 .. Len(q) : q[j] = a
        BY <1>3, <2>4, <3>2 DEF ListsStarts
      <4>2. j \in 1 .. Len(r) /\ r[j] = a
        BY <1>1, <2>1, <4>1
      <4> QED BY <4>2
    <3> QED BY <3>1, <3>2
  <2>5. ASSUME NEW j \in 1 .. Len(r), NEW l \in 1 .. Len(r), j < l
        PROVE  r[j] < r[l]
    <3>1. j \in 1 .. Len(q)
      BY <1>1, <2>1, <2>5
    <3>2. CASE l = Len(q) + 1
      BY <1>2, <2>1, <3>1, <3>2
    <3>3. CASE l \in 1 .. Len(q)
      BY <2>1, <2>5, <3>1, <3>3 DEF ListsStarts
    <3> QED BY <2>2, <3>2, <3>3
  <2>6. ListsStarts(ids, n + 1, r)
    BY <2>1, <2>3, <2>4, <2>5 DEF ListsStarts
  <2> QED BY <1>5, <2>6 DEF r
<1> QED BY <1>4, <1>5

\* What the recursion of Starts defines, up to n.
Looks(ids, n, it) ==
    it = [i \in 0 .. n |->
            IF i = 0 THEN <<>>
            ELSE IF IsStart(ids, i - 1) THEN Append(it[i - 1], i - 1) ELSE it[i - 1]]

\* There is such a function.
LEMMA LooksExist ==
    ASSUME NEW ids, NEW n \in Nat
    PROVE  \E it : Looks(ids, n, it)
<1> DEFINE T == {m \in 0 .. n : \E it : Looks(ids, m, it)}
<1>1. 0 \in T
  <2> DEFINE one == [i \in 0 .. 0 |-> <<>>]
  <2>1. \A i \in 0 .. 0 : i = 0
    OBVIOUS
  <2>2. one = [i \in 0 .. 0 |->
                 IF i = 0 THEN <<>>
                 ELSE IF IsStart(ids, i - 1) THEN Append(one[i - 1], i - 1) ELSE one[i - 1]]
    BY <2>1
  <2>3. Looks(ids, 0, one)
    BY <2>2 DEF Looks
  <2> HIDE DEF one
  <2>4. 0 \in 0 .. n
    OBVIOUS
  <2> QED BY <2>3, <2>4
<1>2. ASSUME NEW m \in 0 .. n, m \in T, m < n
      PROVE  m + 1 \in T
  <2>1. PICK it : Looks(ids, m, it)
    BY <1>2
  <2> DEFINE next == IF IsStart(ids, m) THEN Append(it[m], m) ELSE it[m]
             more == [i \in 0 .. m + 1 |-> IF i = m + 1 THEN next ELSE it[i]]
             like == [i \in 0 .. m + 1 |->
                        IF i = 0 THEN <<>>
                        ELSE IF IsStart(ids, i - 1) THEN Append(more[i - 1], i - 1)
                        ELSE more[i - 1]]
  <2>2. ASSUME NEW i \in 0 .. m + 1
        PROVE  more[i] = like[i]
    <3>1. CASE i = m + 1
      <4>1. i # 0 /\ i - 1 = m /\ m # m + 1 /\ m \in 0 .. m + 1
        BY <3>1
      <4>2. more[i] = next /\ more[i - 1] = it[m]
        BY <3>1, <4>1
      <4>3. like[i] = IF IsStart(ids, m) THEN Append(it[m], m) ELSE it[m]
        BY <4>1, <4>2
      <4> QED BY <4>2, <4>3
    <3>2. CASE i # m + 1 /\ i # 0
      <4>1. i \in 0 .. m /\ i - 1 \in 0 .. m + 1 /\ i - 1 # m + 1
        BY <3>2
      <4>2. more[i] = it[i] /\ more[i - 1] = it[i - 1]
        BY <3>2, <4>1
      <4>3. it[i] = IF IsStart(ids, i - 1) THEN Append(it[i - 1], i - 1) ELSE it[i - 1]
        BY <2>1, <3>2, <4>1 DEF Looks
      <4> QED BY <3>2, <4>2, <4>3
    <3>3. CASE i = 0
      <4>1. 0 \in 0 .. m /\ 0 # m + 1
        BY <1>2
      <4>2. it[0] = <<>>
        BY <2>1, <4>1 DEF Looks
      <4> QED BY <3>3, <4>1, <4>2
    <3> QED BY <3>1, <3>2, <3>3
  <2>3. more = like
    <3>1. more = [i \in 0 .. m + 1 |-> more[i]] /\ like = [i \in 0 .. m + 1 |-> like[i]]
      OBVIOUS
    <3> HIDE DEF more, like
    <3> QED BY <2>2, <3>1
  <2>4. Looks(ids, m + 1, more)
    BY <2>3 DEF Looks
  <2> HIDE DEF more
  <2>5. m + 1 \in 0 .. n
    BY <1>2
  <2> QED BY <2>4, <2>5
<1> HIDE DEF T
<1>3. \A k \in 0 .. n : k \in T
  BY <1>1, <1>2, Climb
<1> QED BY <1>3 DEF T

\* Starts lists the starts of all text spans.
LEMMA StartsAreListed ==
    ASSUME NEW ids, Len(ids) \in Nat
    PROVE  ListsStarts(ids, Len(ids), Starts(ids))
<1> DEFINE n == Len(ids)
           it == CHOOSE it : Looks(ids, n, it)
<1>1. Looks(ids, n, it)
  BY LooksExist
<1>2. Starts(ids) = it[n]
  BY DEF Starts, Looks
<1> HIDE DEF it
<1> DEFINE T == {m \in 0 .. n : ListsStarts(ids, m, it[m])}
<1>3. 0 \in T
  <2>1. 0 \in 0 .. n
    OBVIOUS
  <2>2. it[0] = <<>>
    BY <1>1, <2>1 DEF Looks
  <2>3. <<>> \in Seq(Nat) /\ Len(<<>>) = 0
    OBVIOUS
  <2>4. ListsStarts(ids, 0, <<>>)
    BY <2>3 DEF ListsStarts
  <2> QED BY <2>1, <2>2, <2>4
<1>4. ASSUME NEW m \in 0 .. n, m \in T, m < n
      PROVE  m + 1 \in T
  <2>1. m + 1 \in 0 .. n /\ m + 1 # 0 /\ (m + 1) - 1 = m /\ m \in Nat
    BY <1>4
  <2>2. it[m + 1] = IF IsStart(ids, m) THEN Append(it[m], m) ELSE it[m]
    BY <1>1, <2>1 DEF Looks
  <2>3. ListsStarts(ids, m + 1, it[m + 1])
    BY <1>4, <2>1, <2>2, ListMore
  <2> QED BY <2>1, <2>3
<1> HIDE DEF T
<1>5. \A k \in 0 .. n : k \in T
  BY <1>3, <1>4, Climb
<1>6. n \in T
  BY <1>5
<1> QED BY <1>2, <1>6 DEF T

\* A prompt that is like another one at its first n places has the same starts
\* there, and then maybe more.
LEMMA SameStarts ==
    ASSUME NEW old, NEW new, NEW n \in Nat, NEW m \in Nat, n <= m, NEW p, NEW q,
           ListsStarts(old, n, p), ListsStarts(new, m, q),
           \A a \in 0 .. n - 1 : IsStart(old, a) <=> IsStart(new, a)
    PROVE  \A l \in 1 .. Len(p) : l \in 1 .. Len(q) /\ q[l] = p[l]
<1>1. /\ Len(p) \in Nat /\ Len(q) \in Nat
      /\ \A j \in 1 .. Len(p) : p[j] \in Nat
      /\ \A j \in 1 .. Len(q) : q[j] \in Nat
  BY LenProperties, ElementOfSeq DEF ListsStarts
<1> DEFINE Up(r) == \A j, l \in 1 .. Len(r) : j < l => r[j] < r[l]
<1>14. Up(p) /\ Up(q)
  BY DEF ListsStarts
<1>15. /\ \A j \in 1 .. Len(p) : p[j] < n /\ IsStart(old, p[j])
       /\ \A j \in 1 .. Len(q) : IsStart(new, q[j])
  BY DEF ListsStarts
<1> DEFINE T == {k \in 0 .. Len(p) : \A l \in 1 .. k : l \in 1 .. Len(q) /\ q[l] = p[l]}
<1>2. 0 \in T
  BY <1>1
<1>3. ASSUME NEW k \in 0 .. Len(p), k \in T, k < Len(p)
      PROVE  k + 1 \in T
  <2> DEFINE j == k + 1
  <2>1. j \in 1 .. Len(p) /\ \A l \in 1 .. j : l = j \/ l \in 1 .. k
    BY <1>1, <1>3
  <2>2. p[j] < n /\ IsStart(old, p[j]) /\ p[j] \in 0 .. n - 1
    BY <1>1, <2>1 DEF ListsStarts
  <2>3. IsStart(new, p[j]) /\ p[j] \in 0 .. m - 1
    BY <2>2
  <2>4. PICK l \in 1 .. Len(q) : q[l] = p[j]
    BY <2>3 DEF ListsStarts
  <2>5. \A i \in 1 .. k : i \in 1 .. Len(q) /\ q[i] = p[i] /\ i \in 1 .. Len(p) /\ p[i] < p[j]
    <3> SUFFICES ASSUME NEW i \in 1 .. k
                 PROVE  i \in 1 .. Len(q) /\ q[i] = p[i] /\ i \in 1 .. Len(p) /\ p[i] < p[j]
      OBVIOUS
    <3>1. i \in 1 .. Len(p) /\ i < j
      BY <1>1, <1>3
    <3>2. i \in 1 .. Len(q) /\ q[i] = p[i]
      BY <1>3
    <3>3. p[i] < p[j]
      BY <1>14, <2>1, <3>1
    <3> QED BY <3>1, <3>2, <3>3
  <2>6. l >= j
    <3>1. SUFFICES ASSUME l \in 1 .. k PROVE FALSE
      BY <1>3, <2>4
    <3>2. q[l] = p[l] /\ p[l] < p[j] /\ p[l] \in Nat
      BY <1>1, <2>5, <3>1
    <3> QED BY <2>4, <3>2
  <2>7. j \in 1 .. Len(q) /\ (j = l \/ q[j] < q[l])
    <3>1. j \in 1 .. Len(q)
      BY <1>1, <2>1, <2>4, <2>6
    <3>2. j = l \/ j < l
      BY <1>1, <2>1, <2>4, <2>6
    <3> QED BY <1>14, <3>1, <3>2
  <2>8. ~(q[j] < q[l])
    <3> SUFFICES ASSUME q[j] < q[l] PROVE FALSE
      OBVIOUS
    <3>0. q[j] \in Nat /\ IsStart(new, q[j]) /\ q[l] \in Nat
      BY <1>1, <1>15, <2>7
    <3>1. q[j] \in 0 .. n - 1 /\ IsStart(new, q[j])
      BY <2>2, <2>4, <3>0
    <3>2. PICK i \in 1 .. Len(p) : p[i] = q[j]
      BY <3>1 DEF ListsStarts
    <3>3. CASE i \in 1 .. k
      <4>1. i < j /\ i \in 1 .. Len(q) /\ q[i] = p[i]
        BY <2>5, <3>3
      <4>2. q[i] < q[j] /\ q[i] \in Nat
        BY <1>14, <1>1, <2>7, <4>1
      <4> QED BY <3>2, <4>1, <4>2
    <3>4. CASE i >= j
      <4>1. i = j \/ p[j] < p[i]
        <5>1. i = j \/ j < i
          BY <2>1, <3>2, <3>4
        <5> QED BY <1>14, <2>1, <3>2, <5>1
      <4> QED BY <1>1, <2>4, <2>1, <3>2, <4>1
    <3> QED BY <1>3, <3>2, <3>3, <3>4
  <2>9. q[j] = p[j]
    BY <2>4, <2>7, <2>8
  <2>10. \A i \in 1 .. j : i \in 1 .. Len(q) /\ q[i] = p[i]
    BY <2>1, <2>5, <2>7, <2>9
  <2>11. j \in 0 .. Len(p)
    BY <2>1
  <2> QED BY <2>10, <2>11
<1> HIDE DEF T
<1>4. \A k \in 0 .. Len(p) : k \in T
  BY <1>1, <1>2, <1>3, Climb
<1>5. Len(p) \in T
  BY <1>1, <1>4
<1> QED BY <1>5 DEF T

-----------------------------------------------------------------------------
(* The layout of a prompt with n turns.                                    *)

Body(s, n) == Len(StaticNames[s]) + 4 * n
Ids(s, n) == Tokens(Canonical(s, n))

\* A token of the turns from the m-th on: a separator or a placeholder.
OfTurns(m, n) == {<<0, "sep">>} \cup ((m .. n) \X {"assistant", "tool"})

LEMMA TurnTokenIs ==
    ASSUME NEW n \in Nat, NEW k \in 1 .. 4 * n, NEW s
    PROVE  /\ TurnToken(Canonical(s, n).turns, k) = TurnToken([i \in Nat |-> i], k)
           /\ TurnToken([i \in Nat |-> i], k) \in OfTurns(((k - 1) \div 4) + 1, n)
<1> DEFINE q == ((k - 1) \div 4) + 1
           r == ((k - 1) % 4) + 1
           turns == [i \in 1 .. n |-> i]
<1>1. q \in 1 .. n /\ r \in 1 .. 4 /\ q \in q .. n
  OBVIOUS
<1>2. Canonical(s, n).turns = turns
  BY DEF Canonical
<1>3. TurnToken(turns, k) = TurnTokens(turns[q])[r]
      /\ TurnToken([i \in Nat |-> i], k) = TurnTokens([i \in Nat |-> i][q])[r]
  BY DEF TurnToken
<1> HIDE DEF q, r
<1>4. turns[q] = q /\ [i \in Nat |-> i][q] = q
  BY <1>1
<1>5. TurnTokens(q)[r] \in OfTurns(q, n)
  <2>1. r = 1 \/ r = 2 \/ r = 3 \/ r = 4
    BY <1>1
  <2>2. <<q, "assistant">> \in OfTurns(q, n) /\ <<q, "tool">> \in OfTurns(q, n)
        /\ <<0, "sep">> \in OfTurns(q, n)
    BY <1>1 DEF OfTurns
  <2>3. /\ TurnTokens(q)[1] = <<0, "sep">> /\ TurnTokens(q)[2] = <<q, "assistant">>
        /\ TurnTokens(q)[3] = <<0, "sep">> /\ TurnTokens(q)[4] = <<q, "tool">>
    BY DEF TurnTokens
  <2> QED BY <2>1, <2>2, <2>3
<1> QED BY <1>2, <1>3, <1>4, <1>5 DEF q

TurnTok(k) == TurnToken([i \in Nat |-> i], k)

\* A prompt is its static text, its turns, and the generation prompt.
LEMMA IdsAre ==
    ASSUME NEW s \in Statics, NEW n \in Nat
    PROVE  /\ Len(StaticNames[s]) \in Nat /\ Body(s, n) \in Nat
           /\ Ids(s, n) \in Seq(Token) /\ Len(Ids(s, n)) = Body(s, n) + 2
           /\ \A i \in 1 .. Len(StaticNames[s]) : Ids(s, n)[i] = <<0, StaticNames[s][i]>>
           /\ \A k \in 1 .. 4 * n : Ids(s, n)[Len(StaticNames[s]) + k] = TurnTok(k)
           /\ Ids(s, n)[Body(s, n) + 1] = <<0, "end">>
           /\ Ids(s, n)[Body(s, n) + 2] = <<0, "open">>
<1> DEFINE head == StaticNames[s]
           H == Len(head)
           a == [i \in DOMAIN head |-> <<0, head[i]>>]
           t == Canonical(s, n)
           b == [k \in 1 .. 4 * n |-> TurnToken(t.turns, k)]
           c == << <<0, "end">>, <<0, "open">> >>
<1>1. head \in Seq(STRING)
  BY PrefixAssumption
<1>2. H \in Nat /\ DOMAIN head = 1 .. H
  BY <1>1, LenProperties
<1>3. a \in [1 .. H -> Token]
  <2>1. \A i \in 1 .. H : head[i] \in Names
    BY <1>2 DEF Names
  <2> HIDE DEF H, head
  <2>2. \A i \in 1 .. H : <<0, head[i]>> \in Token
    BY <2>1 DEF Token
  <2> QED BY <1>2, <2>2
<1> HIDE DEF head, H
<1>4. a \in Seq(Token) /\ Len(a) = H
  BY <1>2, <1>3, LengthOf
<1>5. t.turns = [i \in 1 .. n |-> i] /\ t.static = s
  BY DEF Canonical
<1>6. Len(t.turns) = n
  <2>1. [i \in 1 .. n |-> i] \in [1 .. n -> Nat]
    OBVIOUS
  <2> QED BY <1>5, <2>1, LengthOf
<1>7. \A k \in 1 .. 4 * n : TurnToken(t.turns, k) = TurnTok(k)
  BY TurnTokenIs DEF TurnTok
<1>8. \A k \in 1 .. 4 * n : TurnTok(k) \in Token
  <2> SUFFICES ASSUME NEW k \in 1 .. 4 * n PROVE TurnTok(k) \in Token
    OBVIOUS
  <2>1. ((k - 1) \div 4) + 1 \in Nat
    OBVIOUS
  <2>2. TurnTok(k) \in OfTurns(((k - 1) \div 4) + 1, n)
    BY TurnTokenIs DEF TurnTok
  <2>3. \A q \in Nat : q .. n \subseteq Nat
    OBVIOUS
  <2>4. 0 \in Nat
    OBVIOUS
  <2>5. ASSUME NEW q \in Nat, NEW x \in OfTurns(q, n) PROVE x \in Token
    <3>1. x = <<0, "sep">> \/ \E i \in q .. n : x = <<i, "assistant">> \/ x = <<i, "tool">>
      BY DEF OfTurns
    <3>2. \A i \in q .. n : i \in Nat
      BY <2>3
    <3> QED BY <2>4, <3>1, <3>2 DEF Token, Names
  <2> QED BY <2>1, <2>2, <2>5
<1>9. b \in [1 .. 4 * n -> Token]
  BY <1>7, <1>8
<1>10. 4 * n \in Nat
  OBVIOUS
<1>11. b \in Seq(Token) /\ Len(b) = 4 * n
  BY <1>9, <1>10, LengthOf
<1>12. c \in Seq(Token) /\ Len(c) = 2 /\ c[1] = <<0, "end">> /\ c[2] = <<0, "open">>
  <2>1. 0 \in Nat
    OBVIOUS
  <2>2. <<0, "end">> \in Token /\ <<0, "open">> \in Token
    BY DEF Token, Names
  <2> QED BY <2>2
<1>13. Ids(s, n) = a \o b \o c
  BY <1>5, <1>6 DEF Ids, Tokens, head
<1>14. \A i \in 1 .. H : a[i] = <<0, head[i]>>
  BY <1>2
<1>15. \A k \in 1 .. 4 * n : b[k] = TurnTok(k)
  BY <1>7
<1> DEFINE ab == a \o b
           abc == ab \o c
<1> HIDE DEF a, b, c, t
<1>16. /\ ab \in Seq(Token) /\ Len(ab) = H + 4 * n
       /\ \A i \in 1 .. H + 4 * n : ab[i] = IF i <= H THEN a[i] ELSE b[i - H]
  <2>1. /\ ab \in Seq(Token) /\ Len(ab) = Len(a) + Len(b)
        /\ \A i \in 1 .. Len(a) + Len(b) : ab[i] = IF i <= Len(a) THEN a[i] ELSE b[i - Len(a)]
    BY <1>4, <1>11, ConcatProperties
  <2> QED BY <1>2, <1>4, <1>11, <2>1
<1> HIDE DEF ab
<1>17. /\ abc \in Seq(Token) /\ Len(abc) = H + 4 * n + 2
       /\ \A i \in 1 .. H + 4 * n + 2 :
             abc[i] = IF i <= H + 4 * n THEN ab[i] ELSE c[i - (H + 4 * n)]
  <2>1. /\ abc \in Seq(Token) /\ Len(abc) = Len(ab) + Len(c)
        /\ \A i \in 1 .. Len(ab) + Len(c) :
              abc[i] = IF i <= Len(ab) THEN ab[i] ELSE c[i - Len(ab)]
    BY <1>12, <1>16, ConcatProperties
  <2>2. Len(ab) = H + 4 * n /\ Len(c) = 2
    BY <1>12, <1>16
  <2> QED BY <1>2, <2>1, <2>2
<1>18. Ids(s, n) = abc
  BY <1>13 DEF ab
<1> HIDE DEF abc
<1>19. \A i \in 1 .. H : abc[i] = a[i]
  BY <1>2, <1>16, <1>17
<1>20. \A k \in 1 .. 4 * n : abc[H + k] = b[k]
  <2> SUFFICES ASSUME NEW k \in 1 .. 4 * n PROVE abc[H + k] = b[k]
    OBVIOUS
  <2>1. /\ H + k \in 1 .. H + 4 * n /\ H + k \in 1 .. H + 4 * n + 2
        /\ ~(H + k <= H) /\ (H + k) - H = k /\ H + k <= H + 4 * n
    BY <1>2
  <2> QED BY <1>16, <1>17, <2>1
<1>21. abc[H + 4 * n + 1] = c[1] /\ abc[H + 4 * n + 2] = c[2]
  <2>1. /\ (H + 4 * n + 1) - (H + 4 * n) = 1 /\ (H + 4 * n + 2) - (H + 4 * n) = 2
        /\ H + 4 * n + 1 \in 1 .. H + 4 * n + 2 /\ H + 4 * n + 2 \in 1 .. H + 4 * n + 2
        /\ ~(H + 4 * n + 1 <= H + 4 * n) /\ ~(H + 4 * n + 2 <= H + 4 * n)
    BY <1>2
  <2> QED BY <1>17, <2>1
<1>22. Body(s, n) = H + 4 * n /\ H + 4 * n \in Nat
  <2>1. Body(s, n) = H + 4 * n
    BY DEF Body, H, head
  <2>2. H + 4 * n \in Nat
    BY <1>2
  <2> QED BY <2>1, <2>2
<1>23. \A i \in 1 .. H : Ids(s, n)[i] = <<0, head[i]>>
  BY <1>14, <1>18, <1>19
<1>24. \A k \in 1 .. 4 * n : Ids(s, n)[H + k] = TurnTok(k)
  BY <1>15, <1>18, <1>20
<1> QED BY <1>2, <1>12, <1>17, <1>18, <1>21, <1>22, <1>23, <1>24 DEF H, head

\* The length of a prompt's body, apart from what its tokens are.
LEMMA BodyIs ==
    ASSUME NEW s \in Statics, NEW n \in Nat
    PROVE  /\ Len(StaticNames[s]) \in Nat /\ Body(s, n) \in Nat
           /\ Body(s, n) = Len(StaticNames[s]) + 4 * n
<1>1. Len(StaticNames[s]) \in Nat /\ Body(s, n) \in Nat
  BY IdsAre
<1>2. Body(s, n) = Len(StaticNames[s]) + 4 * n
  BY DEF Body
<1> QED BY <1>1, <1>2

\* Prompts of one static text agree as far as both have turns.
LEMMA IdsAgree ==
    ASSUME NEW s \in Statics, NEW m \in Nat, NEW n \in Nat,
           NEW i \in 1 .. Body(s, m), i <= Body(s, n)
    PROVE  Ids(s, m)[i] = Ids(s, n)[i]
<1> DEFINE H == Len(StaticNames[s])
<1>1. /\ H \in Nat /\ Body(s, m) \in Nat /\ Body(s, n) \in Nat
      /\ Body(s, m) = H + 4 * m /\ Body(s, n) = H + 4 * n
  BY BodyIs
<1>h. H = Len(StaticNames[s])
  OBVIOUS
<1> HIDE DEF H
<1>2. CASE i <= H
  <2>1. i \in 1 .. H
    BY <1>1, <1>2
  <2>2. Ids(s, m)[i] = <<0, StaticNames[s][i]>>
    BY <1>h, <2>1, IdsAre
  <2>3. Ids(s, n)[i] = <<0, StaticNames[s][i]>>
    BY <1>h, <2>1, IdsAre
  <2> QED BY <2>2, <2>3
<1>3. CASE i > H
  <2>1. PICK k \in 1 .. 4 * m : i = H + k
    <3>1. i - H \in 1 .. 4 * m /\ i = H + (i - H)
      BY <1>1, <1>3
    <3> QED BY <3>1
  <2>2. k \in 1 .. 4 * n
    BY <1>1, <2>1
  <2>3. Ids(s, m)[H + k] = TurnTok(k)
    BY <1>h, <2>1, IdsAre
  <2>4. Ids(s, n)[H + k] = TurnTok(k)
    BY <1>h, <2>2, IdsAre
  <2> QED BY <2>1, <2>3, <2>4
<1> QED BY <1>1, <1>2, <1>3

\* Behind what it shares with a prompt of m turns, a longer one has more turns.
LEMMA IdsGoOn ==
    ASSUME NEW s \in Statics, NEW m \in Nat, NEW n \in Nat, m < n
    PROVE  /\ Body(s, m) + 4 <= Body(s, n)
           /\ Ids(s, n)[Body(s, m) + 1] = <<0, "sep">>
           /\ Ids(s, n)[Body(s, m) + 2] = <<m + 1, "assistant">>
           /\ \A i \in Body(s, m) + 1 .. Body(s, n) : Ids(s, n)[i] \in OfTurns(m + 1, n)
<1> DEFINE H == Len(StaticNames[s])
<1>1. /\ H \in Nat /\ Body(s, m) \in Nat /\ Body(s, n) \in Nat
      /\ Body(s, m) = H + 4 * m /\ Body(s, n) = H + 4 * n
  BY BodyIs
<1>h. H = Len(StaticNames[s])
  OBVIOUS
<1> HIDE DEF H
<1>2. 4 * m + 1 \in 1 .. 4 * n /\ 4 * m + 2 \in 1 .. 4 * n /\ H + 4 * m + 4 <= H + 4 * n
  BY <1>1
<1>3. /\ ((4 * m + 1) - 1) \div 4 = m /\ ((4 * m + 1) - 1) % 4 = 0
      /\ ((4 * m + 2) - 1) \div 4 = m /\ ((4 * m + 2) - 1) % 4 = 1
  OBVIOUS
<1>4. TurnTok(4 * m + 1) = <<0, "sep">> /\ TurnTok(4 * m + 2) = <<m + 1, "assistant">>
  <2>1. [i \in Nat |-> i][m + 1] = m + 1 /\ 0 + 1 = 1 /\ 1 + 1 = 2
    OBVIOUS
  <2>2. TurnTok(4 * m + 1) = TurnTokens(m + 1)[1] /\ TurnTok(4 * m + 2) = TurnTokens(m + 1)[2]
    BY <1>3, <2>1 DEF TurnTok, TurnToken
  <2> QED BY <2>2 DEF TurnTokens
<1>5. Ids(s, n)[H + (4 * m + 1)] = <<0, "sep">> /\ Ids(s, n)[H + (4 * m + 2)] = <<m + 1, "assistant">>
  BY <1>h, <1>2, <1>4, IdsAre
<1>6. H + (4 * m + 1) = Body(s, m) + 1 /\ H + (4 * m + 2) = Body(s, m) + 2
  BY <1>1
<1>7. ASSUME NEW i \in Body(s, m) + 1 .. Body(s, n)
      PROVE  Ids(s, n)[i] \in OfTurns(m + 1, n)
  <2>1. PICK k \in 4 * m + 1 .. 4 * n : i = H + k
    <3>1. i - H \in 4 * m + 1 .. 4 * n /\ i = H + (i - H)
      BY <1>1
    <3> QED BY <3>1
  <2>2. k \in 1 .. 4 * n /\ ((k - 1) \div 4) + 1 >= m + 1 /\ ((k - 1) \div 4) + 1 \in Nat
    BY <2>1
  <2>3. Ids(s, n)[i] = TurnTok(k)
    BY <1>h, <2>1, <2>2, IdsAre
  <2>4. TurnTok(k) \in OfTurns(((k - 1) \div 4) + 1, n)
    BY <2>2, TurnTokenIs DEF TurnTok
  <2>5. \A q \in Nat : q >= m + 1 => OfTurns(q, n) \subseteq OfTurns(m + 1, n)
    BY DEF OfTurns
  <2> QED BY <2>2, <2>3, <2>4, <2>5
<1> QED BY <1>1, <1>2, <1>5, <1>6, <1>7

\* The placeholders of a prompt are those of its turns and the upstream one, and
\* it ends with text.
LEMMA PhsOfIds ==
    ASSUME NEW s \in Statics, NEW n \in Nat, NEW i \in 1 .. Body(s, n) + 2
    PROVE  /\ IsPh(Ids(s, n)[i]) =>
                /\ i <= Body(s, n)
                /\ Ids(s, n)[i] \in {Upstream} \cup ((1 .. n) \X {"assistant", "tool"})
           /\ i > Body(s, n) => ~IsPh(Ids(s, n)[i])
<1> DEFINE H == Len(StaticNames[s])
<1>1. /\ H \in Nat /\ Body(s, n) \in Nat /\ Body(s, 0) \in Nat /\ 0 \in Nat
      /\ Body(s, n) = H + 4 * n /\ Body(s, 0) = H
  <2>1. 0 \in Nat
    OBVIOUS
  <2>2. H \in Nat /\ Body(s, n) \in Nat /\ Body(s, n) = H + 4 * n
    BY BodyIs
  <2>3. H \in Nat /\ Body(s, 0) \in Nat /\ Body(s, 0) = H + 4 * 0
    BY <2>1, BodyIs
  <2>4. H + 4 * 0 = H
    BY <2>2
  <2> QED BY <2>1, <2>2, <2>3, <2>4
<1>h. H = Len(StaticNames[s])
  OBVIOUS
<1> HIDE DEF H
<1>2. ~IsPh(<<0, "end">>) /\ ~IsPh(<<0, "open">>) /\ ~IsPh(<<0, "sep">>)
  BY DEF IsPh, Upstream
<1>3. i > Body(s, n) => ~IsPh(Ids(s, n)[i])
  <2>1. i > Body(s, n) => i = Body(s, n) + 1 \/ i = Body(s, n) + 2
    BY <1>1
  <2>2. Ids(s, n)[Body(s, n) + 1] = <<0, "end">> /\ Ids(s, n)[Body(s, n) + 2] = <<0, "open">>
    BY IdsAre
  <2> QED BY <1>2, <2>1, <2>2
<1>4. CASE i <= H
  <2>1. i \in 1 .. H
    BY <1>1, <1>4
  <2>2. Ids(s, n)[i] = <<0, StaticNames[s][i]>>
    BY <1>h, <2>1, IdsAre
  <2>3. IsPh(Ids(s, n)[i]) => Ids(s, n)[i] = Upstream
    BY <2>2 DEF IsPh
  <2> QED BY <1>1, <1>3, <1>4, <2>3
<1>5. CASE i > H /\ i <= Body(s, n)
  <2>1. 0 < n /\ i \in Body(s, 0) + 1 .. Body(s, n) /\ 0 + 1 = 1
    BY <1>1, <1>5
  <2>2. Ids(s, n)[i] \in OfTurns(1, n)
    BY <1>1, <2>1, IdsGoOn
  <2>3. IsPh(Ids(s, n)[i]) => Ids(s, n)[i] \in (1 .. n) \X {"assistant", "tool"}
    BY <1>2, <2>2 DEF OfTurns
  <2> QED BY <1>3, <1>5, <2>3
<1> QED BY <1>1, <1>3, <1>4, <1>5

-----------------------------------------------------------------------------
(* The text spans of a prompt.                                             *)

\* A text span ends before a placeholder or with the prompt, and has none.
LEMMA TextEndIs ==
    ASSUME NEW ids, Len(ids) \in Nat, NEW a \in 0 .. Len(ids) - 1, IsStart(ids, a)
    PROVE  /\ TextEnd(ids, a) \in a + 1 .. Len(ids)
           /\ TextEnd(ids, a) < Len(ids) => IsPh(ids[TextEnd(ids, a) + 1])
           /\ \A i \in a + 1 .. TextEnd(ids, a) : ~IsPh(ids[i])
           /\ \A b \in a + 1 .. Len(ids) :
                 (b < Len(ids) => IsPh(ids[b + 1])) => TextEnd(ids, a) <= b
<1> DEFINE L == Len(ids)
           T == {b \in a + 1 .. L : b < L => IsPh(ids[b + 1])}
           e == TextEnd(ids, a)
<1>1. L \in Nat /\ L \in a + 1 .. L
  OBVIOUS
<1>2. T \in SUBSET Nat /\ L \in T
  BY <1>1
<1>3. e = Min(T)
  BY DEF TextEnd
<1> HIDE DEF e
<1>4. e \in T /\ \A b \in T : e <= b
  <2> HIDE DEF T
  <2> QED BY <1>2, <1>3, Smallest
<1>5. e \in a + 1 .. L /\ (e < L => IsPh(ids[e + 1]))
  BY <1>4
<1>6. ASSUME NEW i \in a + 1 .. e
      PROVE  ~IsPh(ids[i])
  <2>1. CASE i = a + 1
    BY <2>1 DEF IsStart
  <2>2. CASE i # a + 1
    <3>1. i - 1 \in a + 1 .. L /\ i - 1 < e /\ (i - 1) + 1 = i
      BY <1>5, <2>2
    <3>2. i - 1 \notin T
      <4> SUFFICES ASSUME i - 1 \in T PROVE FALSE
        OBVIOUS
      <4>1. e <= i - 1
        <5> HIDE DEF T
        <5> QED BY <1>4
      <4>2. e \in Int /\ i - 1 \in Int
        BY <1>5
      <4> QED BY <3>1, <4>1, <4>2
    <3>3. i - 1 < L
      BY <1>5, <3>1
    <3> QED BY <3>1, <3>2, <3>3
  <2> QED BY <2>1, <2>2
<1>7. \A b \in a + 1 .. L : (b < L => IsPh(ids[b + 1])) => e <= b
  BY <1>4
<1> QED BY <1>5, <1>6, <1>7 DEF e

\* Behind a placeholder, as at the beginning, there is text if the prompt ends so.
LEMMA TextBehind ==
    ASSUME NEW ids, Len(ids) \in Nat, NEW i \in 0 .. Len(ids) - 1,
           i = 0 \/ IsPh(ids[i]), ~IsPh(ids[Len(ids)])
    PROVE  \E a \in i .. Len(ids) - 1 : IsStart(ids, a)
<1> DEFINE L == Len(ids)
           T == {j \in i + 1 .. L : ~IsPh(ids[j])}
           j == Min(T)
<1>1. T \in SUBSET Nat /\ L \in T
  OBVIOUS
<1>2. j \in T /\ \A k \in T : j <= k
  <2> HIDE DEF T
  <2> QED BY <1>1, Smallest
<1> HIDE DEF j
<1>3. j \in i + 1 .. L /\ ~IsPh(ids[j]) /\ j - 1 \in i .. L - 1 /\ (j - 1) + 1 = j
  BY <1>2
<1>4. j - 1 > 0 => IsPh(ids[j - 1])
  <2>1. CASE j - 1 = i
    BY <1>3, <2>1
  <2>2. CASE j - 1 # i
    <3>1. j - 1 \in i + 1 .. L /\ j - 1 < j
      BY <1>3, <2>2
    <3>2. j - 1 \notin T
      BY <1>2, <1>3, <3>1
    <3> QED BY <3>1, <3>2
  <2> QED BY <2>1, <2>2
<1>5. IsStart(ids, j - 1)
  BY <1>3, <1>4 DEF IsStart
<1> QED BY <1>3, <1>5

\* The spans of a prompt, by their starts.
LEMMA SpansAre ==
    ASSUME NEW ids, Len(ids) \in Nat
    PROVE  /\ Len(Starts(ids)) \in Nat /\ Len(Spans(ids)) = Len(Starts(ids))
           /\ DOMAIN Spans(ids) = 1 .. Len(Starts(ids))
           /\ \A k \in 1 .. Len(Starts(ids)) :
                 /\ Starts(ids)[k] \in 0 .. Len(ids) - 1
                 /\ IsStart(ids, Starts(ids)[k])
                 /\ Spans(ids)[k] = SpanFrom(ids, Starts(ids)[k])
<1> DEFINE q == Starts(ids)
           c == Len(q)
           spans == Spans(ids)
<1>1. ListsStarts(ids, Len(ids), q)
  BY StartsAreListed
<1>2. q \in Seq(Nat)
  BY <1>1 DEF ListsStarts
<1>3. c \in Nat /\ DOMAIN q = 1 .. c /\ \A k \in 1 .. c : q[k] \in Nat
  BY <1>2, LenProperties, ElementOfSeq
<1>4. \A k \in 1 .. c : q[k] < Len(ids) /\ IsStart(ids, q[k])
  BY <1>1 DEF ListsStarts
<1>5. spans = [k \in 1 .. c |-> SpanFrom(ids, q[k])]
  BY <1>3 DEF Spans
<1> HIDE DEF q, spans, c
<1>6. DOMAIN spans = 1 .. c /\ \A k \in 1 .. c : spans[k] = SpanFrom(ids, q[k])
  BY <1>5
<1>7. spans \in [1 .. c -> {SpanFrom(ids, q[k]) : k \in 1 .. c}]
  BY <1>5
<1>8. Len(spans) = c
  BY <1>3, <1>7, LengthOf
<1>9. \A k \in 1 .. c : q[k] \in 0 .. Len(ids) - 1
  BY <1>3, <1>4
<1> QED BY <1>3, <1>4, <1>6, <1>8, <1>9 DEF q, spans, c

\* A prompt that ends with text has a span.
LEMMA SpansExist ==
    ASSUME NEW ids, Len(ids) \in Nat \ {0}, ~IsPh(ids[Len(ids)])
    PROVE  Len(Spans(ids)) > 0
<1>1. 0 \in 0 .. Len(ids) - 1
  OBVIOUS
<1>2. PICK a \in 0 .. Len(ids) - 1 : IsStart(ids, a)
  BY <1>1, TextBehind
<1>3. ListsStarts(ids, Len(ids), Starts(ids))
  BY StartsAreListed
<1>4. \E j \in 1 .. Len(Starts(ids)) : Starts(ids)[j] = a
  BY <1>2, <1>3 DEF ListsStarts
<1>5. Len(Starts(ids)) \in Nat /\ Len(Spans(ids)) = Len(Starts(ids))
  BY SpansAre
<1> QED BY <1>4, <1>5

\* Where a span lies, and what it has.
LEMMA SpanIs ==
    ASSUME NEW ids, Len(ids) \in Nat, NEW k \in 1 .. Len(Spans(ids))
    PROVE  /\ Spans(ids)[k].start \in 0 .. Len(ids) - 1
           /\ Spans(ids)[k].start = Starts(ids)[k]
           /\ Spans(ids)[k].end \in Spans(ids)[k].start + 1 .. Len(ids)
           /\ Spans(ids)[k].end < Len(ids) => IsPh(ids[Spans(ids)[k].end + 1])
           /\ \A i \in Spans(ids)[k].start + 1 .. Spans(ids)[k].end : ~IsPh(ids[i])
           /\ \A b \in Spans(ids)[k].start + 1 .. Len(ids) :
                 (b < Len(ids) => IsPh(ids[b + 1])) => Spans(ids)[k].end <= b
<1>1. k \in 1 .. Len(Starts(ids))
  BY SpansAre
<1> DEFINE a == Starts(ids)[k]
           r == Spans(ids)[k]
<1>2. a \in 0 .. Len(ids) - 1 /\ IsStart(ids, a) /\ r = SpanFrom(ids, a)
  BY <1>1, SpansAre
<1> HIDE DEF a, r
<1>3. r.start = a /\ r.end = TextEnd(ids, a)
  BY <1>2 DEF SpanFrom
<1>4. /\ TextEnd(ids, a) \in a + 1 .. Len(ids)
      /\ TextEnd(ids, a) < Len(ids) => IsPh(ids[TextEnd(ids, a) + 1])
      /\ \A i \in a + 1 .. TextEnd(ids, a) : ~IsPh(ids[i])
      /\ \A b \in a + 1 .. Len(ids) :
            (b < Len(ids) => IsPh(ids[b + 1])) => TextEnd(ids, a) <= b
  BY <1>2, TextEndIs
<1>5. /\ r.start \in 0 .. Len(ids) - 1 /\ r.start = a
      /\ r.end \in r.start + 1 .. Len(ids)
      /\ r.end < Len(ids) => IsPh(ids[r.end + 1])
      /\ \A i \in r.start + 1 .. r.end : ~IsPh(ids[i])
      /\ \A b \in r.start + 1 .. Len(ids) : (b < Len(ids) => IsPh(ids[b + 1])) => r.end <= b
  BY <1>2, <1>3, <1>4
<1> QED BY <1>5 DEF a, r

\* Every span but the last is followed by a placeholder.
LEMMA InnerSpan ==
    ASSUME NEW ids, Len(ids) \in Nat, NEW k \in 1 .. Len(Spans(ids)), k < Len(Spans(ids))
    PROVE  Spans(ids)[k].end < Len(ids) /\ IsPh(ids[Spans(ids)[k].end + 1])
<1> DEFINE q == Starts(ids)
           a == q[k]
           c == q[k + 1]
           e == Spans(ids)[k].end
<1>1. Len(q) \in Nat /\ Len(Spans(ids)) = Len(q)
  BY SpansAre
<1>2. k \in 1 .. Len(q) /\ k + 1 \in 1 .. Len(q) /\ k < k + 1
  BY <1>1
<1>3. ListsStarts(ids, Len(ids), q)
  BY StartsAreListed
<1>4. a < c
  BY <1>2, <1>3 DEF ListsStarts
<1>5. /\ a \in 0 .. Len(ids) - 1 /\ IsStart(ids, a)
      /\ c \in 0 .. Len(ids) - 1 /\ IsStart(ids, c)
  BY <1>2, SpansAre
<1>6. /\ Spans(ids)[k].start = a
      /\ e \in Spans(ids)[k].start + 1 .. Len(ids)
      /\ e < Len(ids) => IsPh(ids[e + 1])
      /\ \A b \in Spans(ids)[k].start + 1 .. Len(ids) :
            (b < Len(ids) => IsPh(ids[b + 1])) => e <= b
  BY SpanIs
<1> HIDE DEF a, c, e
<1>7. IsPh(ids[c]) /\ ~IsPh(ids[a + 1]) /\ a + 1 # c /\ c > 0
  BY <1>4, <1>5 DEF IsStart
<1>8. c - 1 \in a + 1 .. Len(ids) /\ c - 1 < Len(ids) /\ (c - 1) + 1 = c
  BY <1>4, <1>5, <1>7
<1>9. e <= c - 1
  BY <1>6, <1>7, <1>8
<1>10. e < Len(ids)
  BY <1>6, <1>8, <1>9, <1>5
<1> QED BY <1>6, <1>10 DEF e

\* The last span ends with the prompt.
LEMMA LastSpan ==
    ASSUME NEW ids, Len(ids) \in Nat, ~IsPh(ids[Len(ids)]),
           NEW k \in 1 .. Len(Spans(ids)), k = Len(Spans(ids))
    PROVE  Spans(ids)[k].end = Len(ids)
<1> DEFINE q == Starts(ids)
           a == q[k]
           e == Spans(ids)[k].end
<1>1. Len(q) \in Nat /\ Len(Spans(ids)) = Len(q)
  BY SpansAre
<1>2. ListsStarts(ids, Len(ids), q)
  BY StartsAreListed
<1>3. /\ Spans(ids)[k].start = a /\ Spans(ids)[k].start \in 0 .. Len(ids) - 1
      /\ e \in Spans(ids)[k].start + 1 .. Len(ids)
      /\ e < Len(ids) => IsPh(ids[e + 1])
  BY SpanIs
<1> HIDE DEF a, e
<1> SUFFICES ASSUME e < Len(ids) PROVE FALSE
  BY <1>3 DEF e
<1>4. IsPh(ids[e + 1]) /\ e + 1 \in 0 .. Len(ids) - 1
  <2>1. IsPh(ids[e + 1])
    BY <1>3
  <2>2. e + 1 # Len(ids)
    BY <2>1
  <2> QED BY <1>3, <2>1, <2>2
<1>5. PICK b \in e + 1 .. Len(ids) - 1 : IsStart(ids, b)
  BY <1>4, TextBehind
<1>6. b \in 0 .. Len(ids) - 1 /\ a < b
  BY <1>3, <1>4, <1>5
<1>7. PICK l \in 1 .. Len(q) : q[l] = b
  BY <1>2, <1>5, <1>6 DEF ListsStarts
<1>8. l < k \/ l = k
  BY <1>1, <1>7
<1>9. l < k => q[l] < a
  BY <1>1, <1>2, <1>7 DEF ListsStarts, a
<1>10. l = k => q[l] = a
  BY DEF a
<1> QED BY <1>3, <1>6, <1>7, <1>8, <1>9, <1>10

-----------------------------------------------------------------------------
(* The inductive invariant.                                                *)

IsBucket(b) ==
    b = [prefix |-> b.prefix, phs |-> b.phs, spans |-> b.spans, ids |-> b.ids,
         base |-> b.base, template |-> b.template, count |-> b.count,
         hash |-> b.hash, topology |-> b.topology]

\* The KV of a prompt: its tokens, the generation prompt apart (a cut prefix
\* ends with other tokens).
BaseOf(base, s, n) ==
    /\ base \in Seq(Token) /\ Len(base) = Body(s, n) + 2
    /\ \A i \in 1 .. Body(s, n) : base[i] = Ids(s, n)[i]

\* The bucket holds the prefix of the static text s with n turns.
LaidFor(b, s, n) ==
    /\ b.template = Canonical(s, n) /\ b.count = n /\ b.hash = s /\ b.topology = <<s, n>>
    /\ b.ids = Ids(s, n) /\ b.spans = Spans(b.ids) /\ b.phs = Placeholders(b.ids)
    /\ Len(b.prefix) = Len(b.spans)
    /\ BaseOf(b.base, s, n)

Templates == {Canonical(s, n) : s \in Statics \cup {NoStatic}, n \in 0 .. MaxTurn}

ExactLeft(b) == \A j \in 1 .. Len(b.prefix) - 1 : b.prefix[j] = SubSeq(b.ids, 1, b.spans[j].end)

BucketOK(b) ==
    /\ IsBucket(b)
    /\ b.template \in Templates
    /\ b.count \in 0 .. MaxTurn
    /\ DOMAIN b.phs \subseteq TurnPhs \cup {Upstream}
    /\ b.prefix = <<>> \/ Len(b.prefix) = Len(b.spans)
    /\ ExactLeft(b)

\* Only a trim, which has changed the template, leaves a prefix that is not laid out.
Settled(b) == b.prefix # <<>> => \E s \in Statics, n \in 0 .. MaxTurn : LaidFor(b, s, n)

\* Tool results have the tokens of their content.
SlotsOK(sl) ==
    /\ sl \in [Messages -> [TurnPhs -> Slot]]
    /\ \A m \in Messages, ph \in TurnPhs : ph[2] = "tool" => sl[m][ph].ids = sl[m][ph].hash

FreshFor(sl, req) ==
    \A ph \in TurnPhs : ph[1] <= req.turns => sl[req.message][ph].hash = req.content[ph[1]]

FillOK(j, b) ==
    /\ j.phase = "fill" /\ j.req \in Requests /\ j.again \in BOOLEAN
    /\ j = Filling(j.req, j.again)
    /\ LaidFor(b, j.req.static, j.req.turns)

ReadyOK(j, b, sl) ==
    /\ j.phase = "ready" /\ j.req \in Requests
    /\ LaidFor(b, j.req.static, j.req.turns) /\ FreshFor(sl, j.req)

\* A pass for a request, on the bucket (an append) or on nothing.
ForwardOK(j, b) ==
    /\ j.phase = "forward" /\ j.req \in Requests /\ j.again \in BOOLEAN
    /\ j.how \in {"prepare", "append_all", "append"}
    /\ j.template = Canonical(j.req.static, j.req.turns)
    /\ BaseOf(j.base, j.req.static, j.req.turns)
    /\ j.how = "append" =>
          /\ j.req.turns - 1 \in 0 .. MaxTurn
          /\ LaidFor(b, j.req.static, j.req.turns - 1)

TrimOK(j) ==
    /\ j.phase = "forward" /\ j.how = "trim" /\ j.req.turns = 0
    /\ \E s \in Statics : j.template = Canonical(s, 0) /\ BaseOf(j.base, s, 0)

IInv ==
    /\ initialized \in BOOLEAN
    /\ BucketOK(bucket)
    /\ SlotsOK(slots)
    /\ \/ job = Idle /\ Settled(bucket)
       \/ FillOK(job, bucket) /\ Settled(bucket)
       \/ ReadyOK(job, bucket, slots) /\ Settled(bucket)
       \/ ForwardOK(job, bucket) /\ Settled(bucket)
       \/ TrimOK(job)

\* A segment of an older prefix that is kept, and one that is cut from the KV of the
\* new prompt, are exact in any place but the last.
LEMMA SegmentsAreExact ==
    ASSUME NEW s \in Statics, NEW n \in Nat, NEW base, BaseOf(base, s, n), NEW frozen, NEW old,
           old.prefix = <<>> \/ \E m \in Nat : LaidFor(old, s, m) /\ ExactLeft(old)
    PROVE  /\ Len(Segments(old, Spans(Ids(s, n)), base, frozen)) = Len(Spans(Ids(s, n)))
           /\ \A j \in 1 .. Len(Spans(Ids(s, n))) - 1 :
                 Segments(old, Spans(Ids(s, n)), base, frozen)[j]
                   = SubSeq(Ids(s, n), 1, Spans(Ids(s, n))[j].end)
<1> DEFINE ids == Ids(s, n)
           B == Body(s, n)
           spans == Spans(ids)
           c == Len(spans)
           segs == Segments(old, spans, base, frozen)
<1>1. Len(ids) = B + 2 /\ B \in Nat /\ Len(ids) \in Nat
  BY IdsAre
<1>2. c \in Nat /\ DOMAIN spans = 1 .. c
  BY <1>1, SpansAre
<1>3. \A i \in 1 .. B : base[i] = ids[i]
  BY DEF BaseOf
<1>4. \A j \in 1 .. c :
         segs[j] = IF /\ old.prefix # <<>> /\ j <= frozen /\ j <= Len(old.spans)
                      /\ old.spans[j] = spans[j]
                   THEN old.prefix[j] ELSE SubSeq(base, 1, spans[j].end)
  BY <1>2 DEF Segments
<1>5. Len(segs) = c
  <2>1. segs \in [1 .. c -> {segs[j] : j \in 1 .. c}]
    BY <1>2 DEF Segments
  <2> HIDE DEF segs, c
  <2> QED BY <1>2, <2>1, LengthOf
<1>6. ASSUME NEW j \in 1 .. c - 1
      PROVE  segs[j] = SubSeq(ids, 1, spans[j].end)
  <2> DEFINE e == spans[j].end
  <2>1. j \in 1 .. c /\ j < c
    BY <1>2
  <2>2. e < Len(ids) /\ IsPh(ids[e + 1])
    BY <1>1, <2>1, InnerSpan
  <2>3. spans[j].start \in 0 .. Len(ids) - 1 /\ e \in spans[j].start + 1 .. Len(ids)
    BY <1>1, <2>1, SpanIs
  <2>4. \A i \in spans[j].start + 1 .. e : ~IsPh(ids[i])
    BY <1>1, <2>1, SpanIs
  <2>5. e \in Nat /\ e \in spans[j].start + 1 .. e /\ e + 1 \in 1 .. B + 2 /\ e > 0
    <3> DEFINE a == spans[j].start
    <3>1. Len(ids) = B + 2 /\ B \in Nat
      BY <1>1
    <3>2. a \in 0 .. Len(ids) - 1 /\ e \in a + 1 .. Len(ids) /\ e < Len(ids)
      BY <2>2, <2>3
    <3> HIDE DEF a, e, ids, B
    <3>3. e \in Nat /\ e \in a + 1 .. e /\ e + 1 \in 1 .. B + 2 /\ e > 0
      BY <3>1, <3>2
    <3> QED BY <3>3 DEF a
  <2>6. e + 1 <= B
    BY <2>2, <2>5, PhsOfIds
  <2>7. ~IsPh(ids[e])
    BY <2>4, <2>5
  <2> HIDE DEF ids, spans, c, B, segs
  <2>8. CASE old.prefix # <<>> /\ j <= Len(old.spans) /\ old.spans[j] = spans[j]
                /\ segs[j] = old.prefix[j]
    <3>1. PICK m \in Nat : LaidFor(old, s, m) /\ ExactLeft(old)
      BY <2>8
    <3> DEFINE was == Ids(s, m)
               A == Body(s, m)
    <3>2. /\ old.ids = was /\ old.spans = Spans(was) /\ Len(old.prefix) = Len(Spans(was))
      BY <3>1 DEF LaidFor
    <3>3. Len(was) = A + 2 /\ A \in Nat /\ Len(was) \in Nat /\ ~IsPh(was[A + 2])
      <4>1. Len(was) = A + 2 /\ A \in Nat
        BY IdsAre
      <4>2. A + 2 \in 1 .. A + 2 /\ A + 2 > A
        BY <4>1
      <4> QED BY <4>1, <4>2, PhsOfIds
    <3>4. Len(Spans(was)) \in Nat
      BY <3>3, SpansAre
    <3>5. j \in 1 .. Len(Spans(was)) /\ Spans(was)[j].end = e
      BY <2>1, <2>8, <3>2, <3>4
    <3>6. j # Len(Spans(was))
      <4> SUFFICES ASSUME j = Len(Spans(was)) PROVE FALSE
        OBVIOUS
      <4>1. e = A + 2
        BY <3>3, <3>5, LastSpan
      <4>2. m < n
        <5> DEFINE h == Len(StaticNames[s])
        <5>1. h \in Nat /\ A = h + 4 * m /\ B = h + 4 * n
          BY BodyIs DEF B
        <5> HIDE DEF h, A, e
        <5> QED BY <2>6, <4>1, <5>1
      <4>3. ids[A + 2] = <<m + 1, "assistant">>
        BY <4>2, IdsGoOn DEF ids
      <4>4. IsPh(<<m + 1, "assistant">>)
        BY DEF IsPh
      <4> QED BY <2>7, <4>1, <4>3, <4>4
    <3>7. j < Len(Spans(was)) /\ j \in 1 .. Len(old.prefix) - 1
      BY <3>2, <3>4, <3>5, <3>6
    <3>8. old.prefix[j] = SubSeq(was, 1, e)
      BY <3>1, <3>2, <3>5, <3>7 DEF ExactLeft
    <3>9. e < Len(was) /\ IsPh(was[e + 1])
      BY <3>3, <3>5, <3>7, InnerSpan
    <3>10. e + 1 \in 1 .. A + 2
      BY <2>5, <3>3, <3>9
    <3>11. e + 1 <= A
      BY <3>9, <3>10, PhsOfIds
    <3>12. \A i \in 1 .. e : was[i] = ids[i]
      <4> SUFFICES ASSUME NEW i \in 1 .. e PROVE was[i] = ids[i]
        OBVIOUS
      <4>1. i \in 1 .. A /\ i <= B
        <5>1. i \in Nat /\ i >= 1 /\ i <= e /\ e \in Nat
          BY <2>5
        <5>2. A \in Nat /\ B \in Nat /\ e + 1 <= A /\ e + 1 <= B
          BY <1>1, <2>6, <3>3, <3>11
        <5> HIDE DEF A, e
        <5> QED BY <5>1, <5>2
      <4> QED BY <4>1, IdsAgree DEF ids, B
    <3>13. SubSeq(was, 1, e) = SubSeq(ids, 1, e)
      <4> HIDE DEF was, e
      <4> QED BY <2>5, <3>12, SameStart
    <3> QED BY <2>8, <3>8, <3>13
  <2>9. CASE segs[j] = SubSeq(base, 1, e)
    <3>1. \A i \in 1 .. e : base[i] = ids[i]
      BY <1>1, <1>3, <2>5, <2>6
    <3>2. SubSeq(base, 1, e) = SubSeq(ids, 1, e)
      <4> HIDE DEF e
      <4> QED BY <2>5, <3>1, SameStart
    <3> QED BY <2>9, <3>2
  <2> QED BY <1>4, <2>1, <2>8, <2>9
<1> QED BY <1>5, <1>6

-----------------------------------------------------------------------------
(* An append leaves the placeholders it had where they are.                *)

PlacesOf(ids, ph) == {i \in DOMAIN ids : ids[i] = ph}
At(ids, ph) == Max(PlacesOf(ids, ph))
Follows(ids, ph, k) ==
    /\ k \in DOMAIN Spans(ids)
    /\ Spans(ids)[k].start >= At(ids, ph)
    /\ \A l \in 1 .. k - 1 : Spans(ids)[l].start < At(ids, ph)
PhsIn(ids) == {ids[i] : i \in {j \in DOMAIN ids : IsPh(ids[j])}}

LEMMA PlaceholdersAre ==
    ASSUME NEW ids
    PROVE  /\ DOMAIN Placeholders(ids) = PhsIn(ids)
           /\ \A ph \in PhsIn(ids) :
                 Placeholders(ids)[ph] = [start |-> At(ids, ph) - 1, end |-> At(ids, ph),
                                          pf |-> CHOOSE k : Follows(ids, ph, k)]
<1> DEFINE d == Placeholders(ids)
<1>1. d = [ph \in PhsIn(ids) |->
              [start |-> At(ids, ph) - 1, end |-> At(ids, ph),
               pf |-> CHOOSE k \in DOMAIN Spans(ids) :
                          /\ Spans(ids)[k].start >= At(ids, ph)
                          /\ \A l \in 1 .. k - 1 : Spans(ids)[l].start < At(ids, ph)]]
  BY DEF Placeholders, PhsIn, At, PlacesOf
<1>2. \A ph \in PhsIn(ids) :
         (CHOOSE k \in DOMAIN Spans(ids) :
              /\ Spans(ids)[k].start >= At(ids, ph)
              /\ \A l \in 1 .. k - 1 : Spans(ids)[l].start < At(ids, ph))
           = CHOOSE k : Follows(ids, ph, k)
  BY DEF Follows
<1> QED BY <1>1, <1>2

\* Where the spans of a prompt start, those of the prompt with one more turn do.
LEMMA StartsStay ==
    ASSUME NEW s \in Statics, NEW m \in Nat
    PROVE  \A l \in 1 .. Len(Starts(Ids(s, m))) :
              /\ l \in 1 .. Len(Starts(Ids(s, m + 1)))
              /\ Starts(Ids(s, m + 1))[l] = Starts(Ids(s, m))[l]
<1> DEFINE old == Ids(s, m)
           new == Ids(s, m + 1)
           A == Body(s, m)
           B == Body(s, m + 1)
<1>0. m + 1 \in Nat /\ m < m + 1
  OBVIOUS
<1>1. /\ Len(old) = A + 2 /\ A \in Nat /\ Len(old) \in Nat
      /\ Len(new) = B + 2 /\ B \in Nat /\ Len(new) \in Nat
  <2>1. Len(old) = A + 2 /\ A \in Nat
    BY IdsAre
  <2>2. Len(new) = B + 2 /\ B \in Nat
    BY <1>0, IdsAre
  <2> QED BY <2>1, <2>2
<1>2. A + 4 <= B /\ new[A + 1] = <<0, "sep">> /\ new[A + 2] = <<m + 1, "assistant">>
  BY <1>0, IdsGoOn
<1>3. old[A + 1] = <<0, "end">> /\ old[A + 2] = <<0, "open">>
  BY IdsAre
<1>4. \A i \in 1 .. A : old[i] = new[i]
  <2> SUFFICES ASSUME NEW i \in 1 .. A PROVE old[i] = new[i]
    OBVIOUS
  <2>1. i <= B
    BY <1>1, <1>2
  <2> QED BY <1>0, <2>1, IdsAgree
<1>5. ListsStarts(old, Len(old), Starts(old)) /\ ListsStarts(new, Len(new), Starts(new))
  BY <1>1, StartsAreListed
<1> HIDE DEF old, new, A, B
<1>6. ~IsPh(old[A + 1]) /\ ~IsPh(old[A + 2]) /\ ~IsPh(new[A + 1]) /\ IsPh(new[A + 2])
  BY <1>2, <1>3 DEF IsPh, Upstream
<1>7. \A a \in 0 .. Len(old) - 1 : IsStart(old, a) <=> IsStart(new, a)
  <2> SUFFICES ASSUME NEW a \in 0 .. A + 1 PROVE IsStart(old, a) <=> IsStart(new, a)
    BY <1>1
  <2>1. CASE a < A
    <3>1. a + 1 \in 1 .. A /\ (a > 0 => a \in 1 .. A)
      BY <1>1, <2>1
    <3> QED BY <1>4, <3>1 DEF IsStart
  <2>2. CASE a = A
    <3>1. a > 0 => a \in 1 .. A
      BY <1>1, <2>2
    <3> QED BY <1>4, <1>6, <2>2, <3>1 DEF IsStart
  <2>3. CASE a = A + 1
    <3>1. a > 0 /\ a + 1 = A + 2
      BY <1>1, <2>3
    <3> QED BY <1>6, <2>3, <3>1 DEF IsStart
  <2> QED BY <1>1, <2>1, <2>2, <2>3
<1>8. Len(old) <= Len(new)
  BY <1>1, <1>2
<1>9. \A l \in 1 .. Len(Starts(old)) :
         l \in 1 .. Len(Starts(new)) /\ Starts(new)[l] = Starts(old)[l]
  <2> DEFINE p == Starts(old)
             q == Starts(new)
             n == Len(old)
             k == Len(new)
  <2>1. n \in Nat /\ k \in Nat /\ n <= k /\ ListsStarts(old, n, p) /\ ListsStarts(new, k, q)
    BY <1>1, <1>5, <1>8
  <2>2. \A a \in 0 .. n - 1 : IsStart(old, a) <=> IsStart(new, a)
    BY <1>7
  <2> HIDE DEF p, q, n, k
  <2>3. \A l \in 1 .. Len(p) : l \in 1 .. Len(q) /\ q[l] = p[l]
    BY <2>1, <2>2, SameStarts
  <2> QED BY <2>3 DEF p, q
<1> QED BY <1>9 DEF old, new

LEMMA PlaceholdersStay ==
    ASSUME NEW s \in Statics, NEW m \in Nat
    PROVE  KeptBefore(Placeholders(Ids(s, m)), Placeholders(Ids(s, m + 1)))
             = Placeholders(Ids(s, m + 1))
<1> DEFINE old == Ids(s, m)
           new == Ids(s, m + 1)
           A == Body(s, m)
           B == Body(s, m + 1)
<1>0. m + 1 \in Nat /\ m < m + 1
  OBVIOUS
<1>1. /\ Len(old) = A + 2 /\ A \in Nat /\ Len(old) \in Nat /\ DOMAIN old = 1 .. A + 2
      /\ Len(new) = B + 2 /\ B \in Nat /\ Len(new) \in Nat /\ DOMAIN new = 1 .. B + 2
      /\ A + 4 <= B
  BY <1>0, IdsAre, IdsGoOn, LenProperties
<1>2. \A i \in 1 .. A : old[i] = new[i]
  <2> SUFFICES ASSUME NEW i \in 1 .. A PROVE old[i] = new[i]
    OBVIOUS
  <2>1. i <= B
    BY <1>1
  <2> QED BY <1>0, <2>1, IdsAgree
<1>3. \A i \in 1 .. A + 2 : IsPh(old[i]) => i <= A /\ old[i] \in {Upstream} \cup ((1 .. m) \X {"assistant", "tool"})
  BY PhsOfIds
<1>4. \A i \in A + 1 .. B + 2 :
         IsPh(new[i]) => new[i] \notin {Upstream} \cup ((1 .. m) \X {"assistant", "tool"})
  <2> SUFFICES ASSUME NEW i \in A + 1 .. B + 2, IsPh(new[i])
               PROVE  new[i] \notin {Upstream} \cup ((1 .. m) \X {"assistant", "tool"})
    OBVIOUS
  <2>1. i \in 1 .. B + 2
    BY <1>1
  <2>2. i <= B
    BY <1>0, <2>1, PhsOfIds
  <2>3. i \in A + 1 .. B
    BY <1>1, <2>1, <2>2
  <2>4. new[i] \in OfTurns(m + 1, m + 1)
    BY <1>0, <2>3, IdsGoOn
  <2>5. ~IsPh(<<0, "sep">>)
    BY DEF IsPh, Upstream
  <2>6. new[i] \in (m + 1 .. m + 1) \X {"assistant", "tool"}
    BY <2>4, <2>5 DEF OfTurns
  <2>7. new[i][1] = m + 1
    BY <2>6
  <2>8. m + 1 # 0 /\ m + 1 \notin 1 .. m
    OBVIOUS
  <2> QED BY <2>7, <2>8 DEF Upstream
<1> HIDE DEF old, new, A, B
<1>5. ASSUME NEW ph \in PhsIn(old)
      PROVE  /\ ph \in PhsIn(new) /\ PlacesOf(old, ph) = PlacesOf(new, ph)
             /\ At(old, ph) \in 1 .. A /\ At(old, ph) = At(new, ph) /\ IsPh(old[At(old, ph)])
  <2>1. PICK i \in 1 .. A + 2 : old[i] = ph /\ IsPh(ph)
    BY <1>1 DEF PhsIn
  <2>2. i \in 1 .. A /\ ph \in {Upstream} \cup ((1 .. m) \X {"assistant", "tool"})
    BY <1>1, <1>3, <2>1
  <2>3. i \in 1 .. B + 2 /\ new[i] = ph
    BY <1>1, <1>2, <2>1, <2>2
  <2>4. ph \in PhsIn(new)
    BY <1>1, <2>1, <2>3 DEF PhsIn
  <2>5. PlacesOf(old, ph) \subseteq 1 .. A
    BY <1>1, <1>3, <2>1 DEF PlacesOf
  <2>6. PlacesOf(new, ph) \subseteq 1 .. A
    <3> SUFFICES ASSUME NEW j \in 1 .. B + 2, new[j] = ph PROVE j \in 1 .. A
      BY <1>1 DEF PlacesOf
    <3>1. j \notin A + 1 .. B + 2
      BY <1>4, <2>1, <2>2
    <3> QED BY <1>1, <3>1
  <2>7. 1 .. A \subseteq 1 .. A + 2 /\ 1 .. A \subseteq 1 .. B + 2
    BY <1>1
  <2>8. PlacesOf(old, ph) = PlacesOf(new, ph)
    BY <1>1, <1>2, <2>5, <2>6, <2>7 DEF PlacesOf
  <2>9. i \in PlacesOf(old, ph) /\ PlacesOf(old, ph) \in SUBSET (0 .. A)
    BY <1>1, <2>1, <2>5 DEF PlacesOf
  <2>10. At(old, ph) \in PlacesOf(old, ph)
    BY <1>1, <2>9, Largest DEF At
  <2>11. old[At(old, ph)] = ph
    BY <2>10 DEF PlacesOf
  <2>12. At(old, ph) = At(new, ph)
    BY <2>8 DEF At
  <2> QED BY <2>1, <2>4, <2>5, <2>8, <2>10, <2>11, <2>12
<1>6. \A l \in 1 .. Len(Starts(old)) :
         l \in 1 .. Len(Starts(new)) /\ Starts(new)[l] = Starts(old)[l]
  BY StartsStay DEF old, new
<1>7. /\ Len(Starts(old)) \in Nat /\ Len(Starts(new)) \in Nat
      /\ DOMAIN Spans(old) = 1 .. Len(Starts(old)) /\ DOMAIN Spans(new) = 1 .. Len(Starts(new))
      /\ \A k \in 1 .. Len(Starts(old)) : Spans(old)[k].start = Starts(old)[k]
      /\ \A k \in 1 .. Len(Starts(new)) : Spans(new)[k].start = Starts(new)[k]
  <2>1. /\ Len(Starts(old)) \in Nat /\ Len(Starts(new)) \in Nat
        /\ DOMAIN Spans(old) = 1 .. Len(Starts(old)) /\ DOMAIN Spans(new) = 1 .. Len(Starts(new))
        /\ Len(Spans(old)) = Len(Starts(old)) /\ Len(Spans(new)) = Len(Starts(new))
    BY <1>1, SpansAre
  <2> QED BY <1>1, <2>1, SpanIs
<1>8. ASSUME NEW ph \in PhsIn(old)
      PROVE  \A k : Follows(old, ph, k) <=> Follows(new, ph, k)
  <2> DEFINE at == At(old, ph)
             p == Starts(old)
             q == Starts(new)
             F(r, k) == /\ k \in 1 .. Len(r) /\ r[k] >= at
                        /\ \A l \in 1 .. k - 1 : r[l] < at
  <2>1. /\ \A k : Follows(old, ph, k) <=> F(p, k)
        /\ \A k : Follows(new, ph, k) <=> F(q, k)
    <3> SUFFICES ASSUME NEW k
                 PROVE  /\ Follows(old, ph, k) <=> F(p, k)
                        /\ Follows(new, ph, k) <=> F(q, k)
      OBVIOUS
    <3>1. /\ k \in 1 .. Len(p) => 1 .. k - 1 \subseteq 1 .. Len(p)
          /\ k \in 1 .. Len(q) => 1 .. k - 1 \subseteq 1 .. Len(q)
      BY <1>7
    <3>2. At(new, ph) = at
      BY <1>5
    <3>3. Follows(old, ph, k) <=> F(p, k)
      BY <1>7, <3>1 DEF Follows
    <3>4. Follows(new, ph, k) <=> F(q, k)
      BY <1>7, <3>1, <3>2 DEF Follows
    <3> QED BY <3>3, <3>4
  <2>2. PICK l \in 1 .. Len(p) : p[l] >= at
    <3>1. at \in 0 .. Len(old) - 1 /\ IsPh(old[at]) /\ at \in Nat
      BY <1>1, <1>5
    <3>2. ~IsPh(old[Len(old)])
      <4>1. A + 2 \in 1 .. A + 2 /\ A + 2 > A
        BY <1>1
      <4> QED BY <1>1, <4>1, PhsOfIds DEF old, A
    <3>3. PICK a \in at .. Len(old) - 1 : IsStart(old, a)
      BY <1>1, <3>1, <3>2, TextBehind
    <3>4. a \in 0 .. Len(old) - 1 /\ a >= at
      BY <3>1, <3>3, <1>1
    <3>5. \E l \in 1 .. Len(p) : p[l] = a
      BY <1>1, <3>3, <3>4, StartsAreListed DEF ListsStarts
    <3> QED BY <3>4, <3>5
  <2>3. at \in Nat /\ \A k \in 1 .. Len(p) : p[k] \in Nat
    BY <1>1, <1>5, SpansAre
  <2> HIDE DEF p, q, at
  <2>4. ASSUME NEW k \in 1 .. Len(q), \A j \in 1 .. k - 1 : q[j] < at
        PROVE  k \in 1 .. Len(p)
    <3>1. ~(l < k)
      <4> SUFFICES ASSUME l < k PROVE FALSE
        OBVIOUS
      <4>1. l \in 1 .. k - 1
        BY <1>7 DEF p, q
      <4>2. q[l] < at /\ q[l] = p[l]
        BY <1>6, <2>4, <4>1 DEF p, q
      <4>3. p[l] \in Nat
        BY <2>3
      <4> QED BY <2>2, <2>3, <4>2, <4>3
    <3> QED BY <1>7, <3>1 DEF p, q
  <2>5. \A k : F(p, k) => F(q, k)
    <3>1. \A k \in 1 .. Len(p) : 1 .. k - 1 \subseteq 1 .. Len(p)
      BY <1>7 DEF p
    <3> QED BY <1>6, <3>1 DEF p, q
  <2>6. \A k : F(q, k) => F(p, k)
    <3> SUFFICES ASSUME NEW k, F(q, k) PROVE F(p, k)
      OBVIOUS
    <3>1. k \in 1 .. Len(p)
      BY <2>4
    <3>2. 1 .. k - 1 \subseteq 1 .. Len(p)
      BY <1>7, <3>1 DEF p
    <3> QED BY <1>6, <3>1, <3>2 DEF p, q
  <2> QED BY <2>1, <2>5, <2>6
<1>9. ASSUME NEW ph \in PhsIn(old)
      PROVE  Placeholders(old)[ph] = Placeholders(new)[ph]
  <2>1. (CHOOSE k : Follows(old, ph, k)) = CHOOSE k : Follows(new, ph, k)
    BY <1>8
  <2>2. ph \in PhsIn(new) /\ At(old, ph) = At(new, ph)
    BY <1>5
  <2>3. Placeholders(old)[ph] = [start |-> At(old, ph) - 1, end |-> At(old, ph),
                                 pf |-> CHOOSE k : Follows(old, ph, k)]
    BY PlaceholdersAre
  <2>4. Placeholders(new)[ph] = [start |-> At(new, ph) - 1, end |-> At(new, ph),
                                 pf |-> CHOOSE k : Follows(new, ph, k)]
    BY <2>2, PlaceholdersAre
  <2> QED BY <2>1, <2>2, <2>3, <2>4
<1> DEFINE d == Placeholders(old)
           g == Placeholders(new)
<1>10. DOMAIN d = PhsIn(old) /\ DOMAIN g = PhsIn(new)
  BY PlaceholdersAre
<1>11. PhsIn(old) \subseteq PhsIn(new) /\ \A ph \in PhsIn(old) : d[ph] = g[ph]
  BY <1>5, <1>9
<1>12. g = [ph \in PhsIn(new) |-> g[ph]]
  BY DEF Placeholders, PhsIn
<1> HIDE DEF d, g
<1>13. KeptBefore(d, g) = g
  BY <1>10, <1>11, <1>12 DEF KeptBefore
<1> QED BY <1>13 DEF d, g, old, new

-----------------------------------------------------------------------------
(* What is committed, and what is dropped.                                 *)

LEMMA Bounds == MaxTurn \in Nat
  BY PrefixAssumption, Zenon

LEMMA NoStaticIs == NoStatic \notin Statics
  BY PrefixAssumption, Zenon DEF NoStatic

LEMMA TemplateIs ==
    ASSUME NEW s \in Statics \cup {NoStatic}, NEW n \in 0 .. MaxTurn
    PROVE  Canonical(s, n) \in Templates
  BY DEF Templates

LEMMA RequestIs ==
    ASSUME NEW req \in Requests
    PROVE  /\ req.static \in Statics /\ req.turns \in 0 .. MaxTurn /\ req.turns \in Nat
           /\ req.content \in [1 .. req.turns -> Contents]
           /\ req.message \in Messages /\ req.reuse \in BOOLEAN
<1>1. PICK n \in 0 .. MaxTurn :
         req \in [static : Statics, turns : {n}, content : [1 .. n -> Contents],
                  message : Messages, reuse : BOOLEAN]
  BY DEF Requests
<1>2. n \in Nat
  BY Bounds
<1> QED BY <1>1, <1>2

LEMMA PlaceholdersOfTurns ==
    ASSUME NEW s \in Statics, NEW n \in 0 .. MaxTurn
    PROVE  DOMAIN Placeholders(Ids(s, n)) \subseteq TurnPhs \cup {Upstream}
<1>1. n \in Nat /\ MaxTurn \in Nat /\ 1 .. n \subseteq 1 .. MaxTurn
  BY Bounds
<1>2. Len(Ids(s, n)) = Body(s, n) + 2 /\ DOMAIN Ids(s, n) = 1 .. Body(s, n) + 2
  BY <1>1, IdsAre, LenProperties
<1>3. \A i \in 1 .. Body(s, n) + 2 :
         IsPh(Ids(s, n)[i]) =>
           Ids(s, n)[i] \in {Upstream} \cup ((1 .. n) \X {"assistant", "tool"})
  BY <1>1, PhsOfIds
<1>4. (1 .. n) \X {"assistant", "tool"} \subseteq TurnPhs
  BY <1>1 DEF TurnPhs
<1>5. DOMAIN Placeholders(Ids(s, n)) = PhsIn(Ids(s, n))
  BY PlaceholdersAre
<1>6. ASSUME NEW ph \in PhsIn(Ids(s, n))
      PROVE  ph \in TurnPhs \cup {Upstream}
  <2>1. PICK i \in 1 .. Body(s, n) + 2 : Ids(s, n)[i] = ph /\ IsPh(Ids(s, n)[i])
    BY <1>2 DEF PhsIn
  <2> QED BY <1>3, <1>4, <2>1
<1> QED BY <1>5, <1>6

LEMMA CommitLaysOut ==
    ASSUME NEW s \in Statics, NEW n \in 0 .. MaxTurn, NEW base, BaseOf(base, s, n), NEW segs,
           Len(segs) = Len(Spans(Ids(s, n))),
           \A j \in 1 .. Len(Spans(Ids(s, n))) - 1 :
              segs[j] = SubSeq(Ids(s, n), 1, Spans(Ids(s, n))[j].end),
           NEW b, b = Committed(Canonical(s, n), base, segs, Placeholders(Ids(s, n)), n)
    PROVE  BucketOK(b) /\ LaidFor(b, s, n) /\ Settled(b)
<1>1. Canonical(s, n).static = s
  BY DEF Canonical
<1>2. b = [prefix |-> segs, phs |-> Placeholders(Ids(s, n)), spans |-> Spans(Ids(s, n)),
           ids |-> Ids(s, n), base |-> base, template |-> Canonical(s, n), count |-> n,
           hash |-> s, topology |-> <<s, n>>]
  BY <1>1 DEF Committed, Ids
<1>3. /\ b.prefix = segs /\ b.phs = Placeholders(Ids(s, n)) /\ b.spans = Spans(Ids(s, n))
      /\ b.ids = Ids(s, n) /\ b.base = base /\ b.template = Canonical(s, n) /\ b.count = n
      /\ b.hash = s /\ b.topology = <<s, n>>
  BY <1>2
<1>4. LaidFor(b, s, n)
  BY <1>3 DEF LaidFor
<1>5. IsBucket(b)
  BY <1>2, <1>3 DEF IsBucket
<1>6. b.template \in Templates
  BY <1>3, TemplateIs
<1>7. DOMAIN b.phs \subseteq TurnPhs \cup {Upstream}
  BY <1>3, PlaceholdersOfTurns
<1>8. ExactLeft(b)
  BY <1>3 DEF ExactLeft
<1>9. BucketOK(b)
  BY <1>3, <1>5, <1>6, <1>7, <1>8 DEF BucketOK
<1>10. Settled(b)
  BY <1>4 DEF Settled
<1> QED BY <1>4, <1>9, <1>10

LEMMA NoPrefixIsExact == \A b : b.prefix = <<>> => ExactLeft(b) /\ Settled(b)
<1>1. Len(<<>>) = 0
  OBVIOUS
<1>2. 1 .. 0 - 1 = {}
  OBVIOUS
<1> QED BY <1>1, <1>2 DEF ExactLeft, Settled

LEMMA BlankIs == BucketOK(Blank) /\ Settled(Blank) /\ Blank.prefix = <<>> /\ Blank.phs = NoPhs
<1>1. /\ Blank.prefix = <<>> /\ Blank.phs = NoPhs /\ Blank.template = NoTemplate
      /\ Blank.count = 0 /\ IsBucket(Blank)
  BY DEF Blank, IsBucket
<1>2. 0 \in 0 .. MaxTurn
  BY Bounds
<1>3. Blank.template \in Templates
  <2>1. Blank.template = Canonical(NoStatic, 0)
    BY <1>1 DEF NoTemplate
  <2>2. NoStatic \in Statics \cup {NoStatic}
    OBVIOUS
  <2> QED BY <1>2, <2>1, <2>2, TemplateIs
<1>4. DOMAIN Blank.phs = {}
  BY <1>1 DEF NoPhs
<1> QED BY <1>1, <1>2, <1>3, <1>4, NoPrefixIsExact DEF BucketOK

LEMMA DropIs ==
    ASSUME NEW b, BucketOK(b), NEW d, d = [b EXCEPT !.prefix = <<>>, !.phs = NoPhs]
    PROVE  BucketOK(d) /\ Settled(d) /\ d.prefix = <<>>
<1>1. b = [prefix |-> b.prefix, phs |-> b.phs, spans |-> b.spans, ids |-> b.ids,
           base |-> b.base, template |-> b.template, count |-> b.count,
           hash |-> b.hash, topology |-> b.topology]
  BY DEF BucketOK, IsBucket
<1>2. d = [prefix |-> <<>>, phs |-> NoPhs, spans |-> b.spans, ids |-> b.ids,
           base |-> b.base, template |-> b.template, count |-> b.count,
           hash |-> b.hash, topology |-> b.topology]
  BY <1>1
<1>3. d.prefix = <<>> /\ d.phs = NoPhs /\ d.template = b.template /\ d.count = b.count /\ IsBucket(d)
  BY <1>2 DEF IsBucket
<1>4. DOMAIN d.phs = {}
  BY <1>3 DEF NoPhs
<1> QED BY <1>3, <1>4, NoPrefixIsExact DEF BucketOK

-----------------------------------------------------------------------------
(* The KV of a prompt.                                                     *)

LEMMA WholeBase ==
    ASSUME NEW s \in Statics, NEW n \in Nat
    PROVE  BaseOf(Tokens(Canonical(s, n)), s, n)
  BY IdsAre DEF BaseOf, Ids

LEMMA CutBase ==
    ASSUME NEW s \in Statics, NEW m \in Nat, NEW n \in Nat, NEW base, BaseOf(base, s, m),
           Len(Ids(s, n)) < Len(Ids(s, m))
    PROVE  BaseOf(SubSeq(base, 1, Len(Ids(s, n))), s, n)
<1> DEFINE A == Body(s, m)
           B == Body(s, n)
           H == Len(StaticNames[s])
<1>1. Len(Ids(s, m)) = A + 2 /\ A \in Nat /\ H \in Nat /\ A = H + 4 * m
  BY IdsAre, BodyIs
<1>2. Len(Ids(s, n)) = B + 2 /\ B \in Nat /\ B = H + 4 * n
  BY IdsAre, BodyIs
<1>3. base \in Seq(Token) /\ Len(base) = A + 2 /\ \A i \in 1 .. A : base[i] = Ids(s, m)[i]
  BY DEF BaseOf
<1> HIDE DEF A, B, H
<1>4. B < A /\ B + 2 \in 0 .. Len(base)
  BY <1>1, <1>2, <1>3
<1>5. /\ SubSeq(base, 1, B + 2) \in Seq(Token) /\ Len(SubSeq(base, 1, B + 2)) = B + 2
      /\ \A i \in 1 .. B + 2 : SubSeq(base, 1, B + 2)[i] = base[i]
  BY <1>3, <1>4, FirstOf
<1>6. ASSUME NEW i \in 1 .. B
      PROVE  SubSeq(base, 1, B + 2)[i] = Ids(s, n)[i]
  <2>1. i \in 1 .. B + 2 /\ i \in 1 .. A /\ i <= A
    BY <1>1, <1>2, <1>4
  <2>2. Ids(s, m)[i] = Ids(s, n)[i]
    BY <2>1, IdsAgree DEF A, B
  <2> QED BY <1>3, <1>5, <2>1, <2>2
<1> QED BY <1>2, <1>5, <1>6 DEF BaseOf, B

\* The old and the new prompt of an append part where the old one ends its text.
LEMMA SharedIs ==
    ASSUME NEW s \in Statics, NEW m \in Nat
    PROVE  /\ SharedLen(Ids(s, m), Ids(s, m + 1)) \in 0 .. Body(s, m)
<1> DEFINE old == Ids(s, m)
           new == Ids(s, m + 1)
           A == Body(s, m)
           B == Body(s, m + 1)
           L == Len(old)
           T == {n \in 0 .. L : n <= Len(new) /\ SubSeq(old, 1, n) = SubSeq(new, 1, n)}
           d == SharedLen(old, new)
<1>0. m + 1 \in Nat /\ m < m + 1
  OBVIOUS
<1>1. L = A + 2 /\ A \in Nat /\ L \in Nat /\ old \in Seq(Token) /\ old[A + 1] = <<0, "end">>
  BY IdsAre
<1>2. Len(new) = B + 2 /\ B \in Nat /\ new \in Seq(Token)
  BY <1>0, IdsAre
<1>3. new[A + 1] = <<0, "sep">> /\ A + 4 <= B
  BY <1>0, IdsGoOn
<1>4. d = Max(T)
  BY DEF SharedLen
<1> HIDE DEF old, new, A, B, L, d
<1>5. 0 \in T
  <2>1. 0 \in 0 .. L /\ 0 <= Len(new) /\ \A i \in 1 .. 0 : old[i] = new[i]
    BY <1>1, <1>2
  <2>2. SubSeq(old, 1, 0) = SubSeq(new, 1, 0)
    BY <2>1, SameStart
  <2> QED BY <2>1, <2>2
<1>6. T \in SUBSET (0 .. L)
  OBVIOUS
<1>7. d \in T
  <2> HIDE DEF T
  <2> QED BY <1>1, <1>4, <1>5, <1>6, Largest
<1>8. d \in 0 .. L /\ d <= Len(new) /\ SubSeq(old, 1, d) = SubSeq(new, 1, d)
  BY <1>7
<1>9. ~(A < d)
  <2> SUFFICES ASSUME A < d PROVE FALSE
    OBVIOUS
  <2>1. A + 1 \in 1 .. d /\ d \in 0 .. Len(old) /\ d \in 0 .. Len(new)
    BY <1>1, <1>2, <1>8 DEF L
  <2>2. SubSeq(old, 1, d)[A + 1] = old[A + 1] /\ SubSeq(new, 1, d)[A + 1] = new[A + 1]
    BY <1>1, <1>2, <2>1, FirstOf
  <2> QED BY <1>1, <1>3, <1>8, <2>2
<1> QED BY <1>1, <1>8, <1>9 DEF old, new, A, B, L, d

LEMMA AppendBase ==
    ASSUME NEW s \in Statics, NEW m \in Nat, NEW base, BaseOf(base, s, m), NEW shared,
           shared = SharedLen(Ids(s, m), Ids(s, m + 1))
    PROVE  BaseOf(SubSeq(base, 1, shared)
                    \o SubSeq(Ids(s, m + 1), shared + 1, Len(Ids(s, m + 1))), s, m + 1)
<1> DEFINE old == Ids(s, m)
           new == Ids(s, m + 1)
           A == Body(s, m)
           B == Body(s, m + 1)
           x == SubSeq(base, 1, shared)
           y == SubSeq(new, shared + 1, Len(new))
<1>0. m + 1 \in Nat /\ m < m + 1
  OBVIOUS
<1>1. /\ A \in Nat /\ shared \in 0 .. A
  BY IdsAre, SharedIs
<1>2. Len(new) = B + 2 /\ B \in Nat /\ new \in Seq(Token) /\ A + 4 <= B
  BY <1>0, IdsAre, IdsGoOn
<1>3. base \in Seq(Token) /\ Len(base) = A + 2 /\ \A i \in 1 .. A : base[i] = old[i]
  BY DEF BaseOf
<1>4. \A i \in 1 .. A : old[i] = new[i]
  <2> SUFFICES ASSUME NEW i \in 1 .. A PROVE old[i] = new[i]
    OBVIOUS
  <2>1. i <= B
    BY <1>1, <1>2
  <2> QED BY <1>0, <2>1, IdsAgree
<1> HIDE DEF old, new, A, B
<1>5. x \in Seq(Token) /\ Len(x) = shared /\ \A i \in 1 .. shared : x[i] = base[i]
  <2>1. shared \in 0 .. Len(base)
    BY <1>1, <1>3
  <2> QED BY <1>3, <2>1, FirstOf
<1>6. y \in Seq(Token) /\ Len(y) = B + 2 - shared
      /\ \A i \in 1 .. B + 2 - shared : y[i] = new[shared + i]
  <2> DEFINE k == shared + 1
             l == Len(new)
  <2>0. k = shared + 1 /\ l = B + 2 /\ shared \in Nat /\ shared <= B
    BY <1>1, <1>2
  <2>1. k \in 1 .. l + 1 /\ l \in k - 1 .. l
    BY <1>1, <1>2
  <2>2. \A i \in k .. l : new[i] \in Token
    BY <1>1, <1>2, <2>1, ElementOfSeq
  <2>3. k \in Int /\ l \in Int /\ (IF k <= l THEN l - k + 1 ELSE 0) = B + 2 - shared
        /\ \A i \in 1 .. B + 2 - shared : k + i - 1 = shared + i
    <3> HIDE DEF k, l
    <3>1. B \in Nat /\ shared \in Nat
      BY <1>2, <2>0
    <3>2. k \in Int /\ l \in Int /\ k <= l /\ l - k + 1 = B + 2 - shared
      BY <2>0, <3>1
    <3>3. \A i \in 1 .. B + 2 - shared : k + i - 1 = shared + i
      BY <2>0, <3>1
    <3> QED BY <3>2, <3>3
  <2>4. y = SubSeq(new, k, l)
    OBVIOUS
  <2> HIDE DEF k, l, y
  <2>5. /\ SubSeq(new, k, l) \in Seq(Token)
        /\ Len(SubSeq(new, k, l)) = IF k <= l THEN l - k + 1 ELSE 0
        /\ \A i \in 1 .. (IF k <= l THEN l - k + 1 ELSE 0) : SubSeq(new, k, l)[i] = new[k + i - 1]
    BY <2>2, <2>3, SubSeqProperties
  <2> QED BY <2>3, <2>4, <2>5
<1> HIDE DEF x, y
<1>7. /\ x \o y \in Seq(Token) /\ Len(x \o y) = Len(x) + Len(y)
      /\ \A i \in 1 .. Len(x) + Len(y) : (x \o y)[i] = IF i <= Len(x) THEN x[i] ELSE y[i - Len(x)]
  BY <1>5, <1>6, ConcatProperties
<1>8. Len(x \o y) = B + 2
  BY <1>1, <1>2, <1>5, <1>6, <1>7
<1>9. ASSUME NEW i \in 1 .. B
      PROVE  (x \o y)[i] = new[i]
  <2>1. i \in 1 .. Len(x) + Len(y)
    <3>1. Len(x) + Len(y) = B + 2 /\ B \in Nat
      BY <1>2, <1>7, <1>8
    <3> QED BY <3>1
  <2>2. CASE i <= shared
    <3>1. i \in 1 .. shared /\ i \in 1 .. A
      BY <1>1, <2>2
    <3> QED BY <1>3, <1>4, <1>5, <1>7, <2>1, <2>2, <3>1
  <2>3. CASE i > shared
    <3>1. i - shared \in 1 .. B + 2 - shared /\ shared + (i - shared) = i /\ ~(i <= shared)
      BY <1>1, <1>2, <2>3
    <3> QED BY <1>5, <1>6, <1>7, <2>1, <3>1
  <2>4. i <= shared \/ i > shared
    BY <1>1
  <2> QED BY <2>2, <2>3, <2>4
<1>10. BaseOf(x \o y, s, m + 1)
  BY <1>7, <1>8, <1>9 DEF BaseOf, B, new
<1> QED BY <1>10 DEF x, y, new

LEMMA MergeIs ==
    ASSUME NEW s, NEW m \in Nat
    PROVE  Merge(Canonical(s, m), m + 1) = Canonical(s, m + 1)
<1> DEFINE t == [i \in 1 .. m |-> i]
           u == [i \in 1 .. m + 1 |-> i]
<1>1. t \in [1 .. m -> Nat] /\ u \in [1 .. m + 1 -> Nat] /\ m + 1 \in Nat
  OBVIOUS
<1>2. t \in Seq(Nat) /\ Len(t) = m /\ u \in Seq(Nat) /\ Len(u) = m + 1
  BY <1>1, LengthOf
<1>3. \A i \in 1 .. m : t[i] = i
  OBVIOUS
<1>4. \A i \in 1 .. m + 1 : u[i] = i
  OBVIOUS
<1>5. Canonical(s, m) = [static |-> s, turns |-> t] /\ Canonical(s, m + 1) = [static |-> s, turns |-> u]
  BY DEF Canonical
<1> HIDE DEF t, u
<1>6. t # <<>> => Last(t) # m + 1
  <2> SUFFICES ASSUME t # <<>> PROVE Last(t) # m + 1
    OBVIOUS
  <2>1. m # 0
    BY <1>2, EmptySeq
  <2>2. Last(t) = t[m] /\ m \in 1 .. m /\ m # m + 1
    BY <1>2, <2>1 DEF Last
  <2> QED BY <1>3, <2>2
<1>7. Append(t, m + 1) = u
  <2>1. /\ Append(t, m + 1) \in Seq(Nat) /\ Len(Append(t, m + 1)) = m + 1
        /\ \A i \in 1 .. m : Append(t, m + 1)[i] = t[i]
        /\ Append(t, m + 1)[m + 1] = m + 1
    BY <1>1, <1>2, AppendProperties
  <2>2. \A i \in 1 .. m + 1 : i \in 1 .. m \/ i = m + 1
    OBVIOUS
  <2>3. \A i \in 1 .. m + 1 : Append(t, m + 1)[i] = u[i]
    BY <1>3, <1>4, <2>1, <2>2
  <2> QED BY <1>2, <2>1, <2>3, SeqEqual
<1>8. Merge([static |-> s, turns |-> t], m + 1) = [static |-> s, turns |-> u]
  BY <1>6, <1>7 DEF Merge
<1> QED BY <1>5, <1>8

-----------------------------------------------------------------------------
(* The slots.                                                              *)

LEMMA NoneIs == None \in Slot /\ None.ids = None.hash
  BY DEF None, Slot

LEMMA NoSlotsOK == SlotsOK(NoSlots)
  BY NoneIs DEF SlotsOK, NoSlots

LEMMA CutSlotsOK ==
    ASSUME SlotsOK(slots), NEW message \in Messages, NEW n
    PROVE  SlotsOK(WithoutTurnsFrom(message, n))
<1> DEFINE row == [ph \in TurnPhs |-> IF ph[1] >= n THEN None ELSE slots[message][ph]]
           new == WithoutTurnsFrom(message, n)
<1>1. slots \in [Messages -> [TurnPhs -> Slot]]
      /\ \A m \in Messages, ph \in TurnPhs : ph[2] = "tool" => slots[m][ph].ids = slots[m][ph].hash
  BY DEF SlotsOK
<1>2. new = [slots EXCEPT ![message] = row]
  BY DEF WithoutTurnsFrom
<1>3. \A ph \in TurnPhs : row[ph] \in Slot /\ (ph[2] = "tool" => row[ph].ids = row[ph].hash)
  BY <1>1, NoneIs
<1>4. row \in [TurnPhs -> Slot]
  BY <1>3
<1> HIDE DEF row, new
<1>5. new \in [Messages -> [TurnPhs -> Slot]]
  BY <1>1, <1>2, <1>4
<1>6. \A m \in Messages : new[m] = IF m = message THEN row ELSE slots[m]
  BY <1>1, <1>2
<1>7. \A m \in Messages, ph \in TurnPhs : ph[2] = "tool" => new[m][ph].ids = new[m][ph].hash
  BY <1>1, <1>3, <1>6
<1>8. SlotsOK(new)
  BY <1>5, <1>7 DEF SlotsOK
<1> QED BY <1>8 DEF new

LEMMA NewSlotIs ==
    ASSUME NEW slot \in Slot, NEW ph \in TurnPhs, NEW content \in Contents,
           ph[2] = "tool" => slot.ids = slot.hash
    PROVE  /\ NewSlot(slot, ph, content) \in Slot
           /\ NewSlot(slot, ph, content).hash = content
           /\ ph[2] = "tool" => NewSlot(slot, ph, content).ids = NewSlot(slot, ph, content).hash
<1> DEFINE new == NewSlot(slot, ph, content)
<1>1. CASE slot.hash = content
  BY <1>1 DEF NewSlot
<1>2. CASE slot.hash # content /\ ph[2] = "assistant" /\ slot # None
  <2>1. new = [slot EXCEPT !.hash = content] /\ ph[2] # "tool"
    BY <1>2 DEF NewSlot
  <2>2. slot \in [hash : Contents, ids : Contents]
    BY <1>2 DEF Slot
  <2>3. new \in [hash : Contents, ids : Contents] /\ new.hash = content
    BY <2>1, <2>2
  <2> QED BY <2>1, <2>3 DEF Slot
<1>3. CASE slot.hash # content /\ ~(ph[2] = "assistant" /\ slot # None)
  <2>1. new = [hash |-> content, ids |-> content]
    BY <1>3 DEF NewSlot
  <2> QED BY <2>1 DEF Slot
<1> QED BY <1>1, <1>2, <1>3

LEMMA FilledSlotsOK ==
    ASSUME SlotsOK(slots), NEW req \in Requests, NEW phs
    PROVE  /\ SlotsOK(Filled(req, phs))
           /\ phs = TurnPhs => FreshFor(Filled(req, phs), req)
<1> DEFINE message == req.message
           old == slots[message]
           row == [ph \in TurnPhs |-> IF ph \in phs /\ ph[1] <= req.turns
                                      THEN NewSlot(old[ph], ph, req.content[ph[1]])
                                      ELSE old[ph]]
           new == Filled(req, phs)
<1>1. slots \in [Messages -> [TurnPhs -> Slot]]
      /\ \A m \in Messages, ph \in TurnPhs : ph[2] = "tool" => slots[m][ph].ids = slots[m][ph].hash
  BY DEF SlotsOK
<1>2. new = [slots EXCEPT ![message] = row]
  BY DEF Filled
<1>3. /\ message \in Messages /\ req.turns \in Nat
      /\ req.content \in [1 .. req.turns -> Contents]
  BY RequestIs
<1>4. old \in [TurnPhs -> Slot] /\ \A ph \in TurnPhs : ph[2] = "tool" => old[ph].ids = old[ph].hash
  BY <1>1, <1>3
<1> HIDE DEF old, message, new
<1>5. ASSUME NEW ph \in TurnPhs, ph[1] <= req.turns
      PROVE  req.content[ph[1]] \in Contents
  <2>1. ph[1] \in Nat /\ ph[1] >= 1
    <3>1. ph[1] \in 1 .. MaxTurn
      BY DEF TurnPhs
    <3> QED BY <3>1, Bounds
  <2>2. ph[1] \in 1 .. req.turns
    BY <1>3, <1>5, <2>1
  <2> QED BY <1>3, <2>2
<1>6. ASSUME NEW ph \in TurnPhs
      PROVE  /\ row[ph] \in Slot /\ (ph[2] = "tool" => row[ph].ids = row[ph].hash)
             /\ ph \in phs /\ ph[1] <= req.turns => row[ph].hash = req.content[ph[1]]
  <2>1. CASE ph \in phs /\ ph[1] <= req.turns
    <3>1. row[ph] = NewSlot(old[ph], ph, req.content[ph[1]])
      BY <2>1
    <3>2. req.content[ph[1]] \in Contents
      BY <1>5, <2>1
    <3> HIDE DEF row
    <3> QED BY <1>4, <3>1, <3>2, NewSlotIs
  <2>2. CASE ~(ph \in phs /\ ph[1] <= req.turns)
    <3>1. row[ph] = old[ph]
      BY <2>2
    <3> HIDE DEF row
    <3> QED BY <1>4, <2>2, <3>1
  <2> QED BY <2>1, <2>2
<1>7. row \in [TurnPhs -> Slot]
  <2>1. row = [ph \in TurnPhs |-> row[ph]]
    OBVIOUS
  <2> HIDE DEF row
  <2> QED BY <1>6, <2>1
<1> HIDE DEF row
<1>8. new \in [Messages -> [TurnPhs -> Slot]]
  BY <1>1, <1>2, <1>3, <1>7
<1>9. \A m \in Messages : new[m] = IF m = message THEN row ELSE slots[m]
  BY <1>1, <1>2
<1>10. \A m \in Messages, ph \in TurnPhs : ph[2] = "tool" => new[m][ph].ids = new[m][ph].hash
  BY <1>1, <1>6, <1>9
<1>11. SlotsOK(new)
  BY <1>8, <1>10 DEF SlotsOK
<1>12. phs = TurnPhs => FreshFor(new, req)
  BY <1>3, <1>6, <1>9 DEF FreshFor, message
<1> QED BY <1>11, <1>12 DEF new

-----------------------------------------------------------------------------
(* The plan.                                                               *)

\* A prefix that is reused, extended or cut is that of the request's static text.
LEMMA PlanIs ==
    ASSUME Settled(bucket), NEW req \in Requests,
           Plan(req) \in {"noop", "append_turn", "rewind_turns"}
    PROVE  \E m \in 0 .. MaxTurn :
              /\ LaidFor(bucket, req.static, m)
              /\ Plan(req) = "noop" => req.turns = m
              /\ Plan(req) = "append_turn" => req.turns = m + 1
<1>1. /\ ~(LacksUpstream(req) \/ ~Initialized)
      /\ bucket.hash \in {NoStatic, req.static}
      /\ Plan(req) = "noop" => req.turns = bucket.count
      /\ Plan(req) = "append_turn" => req.turns = bucket.count + 1
  <2>1. ~(LacksUpstream(req) \/ ~Initialized)
    BY DEF Plan
  <2>2. bucket.hash \in {NoStatic, req.static}
    BY <2>1 DEF Plan
  <2>3. Plan(req) = CASE req.turns < bucket.count -> "rewind_turns"
           [] req.turns = bucket.count ->
                IF bucket.topology \notin {<<NoStatic, 0>>, <<req.static, req.turns>>}
                THEN "static_rebuild"
                ELSE IF req.turns = 0 /\ TurnsListed # {} THEN "rewind_turns" ELSE "noop"
           [] req.turns = bucket.count + 1 -> "append_turn"
           [] OTHER -> "static_rebuild"
    BY <2>1, <2>2 DEF Plan
  <2> QED BY <2>1, <2>2, <2>3
<1>2. bucket.prefix # <<>>
  BY <1>1 DEF Initialized
<1>3. PICK s \in Statics, m \in 0 .. MaxTurn : LaidFor(bucket, s, m)
  BY <1>2 DEF Settled
<1>4. bucket.hash = s /\ bucket.count = m
  BY <1>3 DEF LaidFor
<1>5. s = req.static
  BY <1>1, <1>4, NoStaticIs
<1> QED BY <1>1, <1>3, <1>4, <1>5

-----------------------------------------------------------------------------
(* The steps.                                                              *)

LEMMA JobFields ==
    /\ Idle.phase = "idle"
    /\ \A req, again :
          /\ Filling(req, again).phase = "fill"
          /\ Filling(req, again).req = req /\ Filling(req, again).again = again
  BY DEF Idle, Filling

LEMMA ForwardFields ==
    ASSUME NEW req, NEW how, NEW template, NEW base, NEW frozen, NEW again,
           NEW f, f = Forward(req, how, template, base, frozen, again)
    PROVE  /\ f.phase = "forward" /\ f.req = req /\ f.how = how /\ f.template = template
           /\ f.base = base /\ f.frozen = frozen /\ f.again = again
  BY DEF Forward

\* Between two requests the prefix is laid out, or there is none.
LEMMA IdleMeans ==
    ASSUME IInv, job = Idle
    PROVE  BucketOK(bucket) /\ Settled(bucket) /\ SlotsOK(slots) /\ initialized \in BOOLEAN
<1>1. job.phase = "idle"
  BY JobFields
<1> QED BY <1>1 DEF IInv, FillOK, ReadyOK, ForwardOK, TrimOK

LEMMA FillingOK ==
    ASSUME NEW req \in Requests, NEW again \in BOOLEAN, NEW b, LaidFor(b, req.static, req.turns)
    PROVE  FillOK(Filling(req, again), b)
  BY JobFields DEF FillOK

LEMMA PrepareOK ==
    ASSUME NEW req \in Requests, NEW again \in BOOLEAN, NEW b, NEW how \in {"prepare", "append_all"}
    PROVE  ForwardOK(Prepare(req, how, Canonical(req.static, req.turns), again), b)
<1>1. req.static \in Statics /\ req.turns \in Nat
  BY RequestIs
<1>2. BaseOf(Tokens(Canonical(req.static, req.turns)), req.static, req.turns)
  BY <1>1, WholeBase
<1>3. \A f : f = Prepare(req, how, Canonical(req.static, req.turns), again) =>
         /\ f.phase = "forward" /\ f.req = req /\ f.how = how
         /\ f.template = Canonical(req.static, req.turns)
         /\ f.base = Tokens(Canonical(req.static, req.turns)) /\ f.again = again
  BY ForwardFields DEF Prepare
<1> QED BY <1>2, <1>3 DEF ForwardOK

LEMMA NoopKeeps ==
    ASSUME IInv, NEW req \in Requests, AskNoop(req)
    PROVE  IInv'
<1>1. BucketOK(bucket) /\ Settled(bucket) /\ SlotsOK(slots) /\ initialized \in BOOLEAN
  BY IdleMeans DEF AskNoop
<1>2. LaidFor(bucket, req.static, req.turns)
  BY <1>1, PlanIs DEF AskNoop
<1>3. job' = Filling(req, FALSE) /\ UNCHANGED <<bucket, initialized, slots>>
  BY DEF AskNoop
<1>4. FillOK(job', bucket')
  BY <1>2, <1>3, FillingOK
<1>5. BucketOK(bucket') /\ Settled(bucket') /\ SlotsOK(slots') /\ initialized' \in BOOLEAN
  BY <1>1, <1>3
<1> QED BY <1>4, <1>5 DEF IInv

LEMMA AppendKeeps ==
    ASSUME IInv, NEW req \in Requests, AskAppend(req)
    PROVE  IInv'
<1>1. BucketOK(bucket) /\ Settled(bucket) /\ SlotsOK(slots) /\ initialized \in BOOLEAN
  BY IdleMeans DEF AskAppend
<1>2. PICK m \in 0 .. MaxTurn : LaidFor(bucket, req.static, m) /\ req.turns = m + 1
  BY <1>1, PlanIs DEF AskAppend
<1>3. req.static \in Statics /\ m \in Nat /\ req.turns - 1 = m
  BY <1>2, Bounds, RequestIs
<1> DEFINE template == Merge(bucket.template, req.turns)
           ids == Tokens(template)
           shared == SharedLen(bucket.ids, ids)
           frozen == FrozenCount(bucket.spans, Spans(ids))
           base == SubSeq(bucket.base, 1, shared) \o SubSeq(ids, shared + 1, Len(ids))
<1>4. UNCHANGED <<bucket, initialized, slots>>
      /\ \/ job' = Forward(req, "append", template, base, frozen, FALSE)
         \/ job' = Prepare(req, "append_all", template, FALSE)
  BY DEF AskAppend
<1>5. bucket.template = Canonical(req.static, m) /\ bucket.ids = Ids(req.static, m)
      /\ BaseOf(bucket.base, req.static, m)
  BY <1>2 DEF LaidFor
<1>6. template = Canonical(req.static, req.turns)
  BY <1>2, <1>3, <1>5, MergeIs
<1>7. ids = Ids(req.static, m + 1)
  BY <1>2, <1>6 DEF Ids
<1>8. shared = SharedLen(Ids(req.static, m), Ids(req.static, m + 1))
  BY <1>5, <1>7
<1> HIDE DEF template, ids, shared, frozen
<1>9. BaseOf(base, req.static, m + 1)
  BY <1>3, <1>5, <1>7, <1>8, AppendBase
<1> HIDE DEF base
<1>10. ForwardOK(job', bucket')
  <2>1. CASE job' = Forward(req, "append", template, base, frozen, FALSE)
    <3>1. /\ job'.phase = "forward" /\ job'.req = req /\ job'.how = "append"
          /\ job'.template = template /\ job'.base = base /\ job'.again = FALSE
      BY <2>1 DEF Forward
    <3>2. BaseOf(base, req.static, req.turns) /\ bucket' = bucket
      BY <1>2, <1>4, <1>9
    <3>3. req.turns - 1 \in 0 .. MaxTurn /\ LaidFor(bucket, req.static, req.turns - 1)
      BY <1>2, <1>3
    <3> QED BY <1>6, <3>1, <3>2, <3>3 DEF ForwardOK
  <2>2. CASE job' = Prepare(req, "append_all", template, FALSE)
    BY <1>6, <2>2, PrepareOK
  <2> QED BY <1>4, <2>1, <2>2
<1>11. BucketOK(bucket') /\ Settled(bucket') /\ SlotsOK(slots') /\ initialized' \in BOOLEAN
  BY <1>1, <1>4
<1> QED BY <1>10, <1>11 DEF IInv

LEMMA DropKeeps == 
    ASSUME BucketOK(bucket)
    PROVE  BucketOK(DropPrefix) /\ Settled(DropPrefix)
  BY DropIs DEF DropPrefix

LEMMA RewindKeeps ==
    ASSUME IInv, NEW req \in Requests, AskRewind(req)
    PROVE  IInv'
<1>1. BucketOK(bucket) /\ Settled(bucket) /\ SlotsOK(slots) /\ initialized \in BOOLEAN
  BY IdleMeans DEF AskRewind
<1>2. PICK m \in 0 .. MaxTurn : LaidFor(bucket, req.static, m)
  BY <1>1, PlanIs DEF AskRewind
<1>3. /\ req.static \in Statics /\ req.turns \in Nat /\ req.turns \in 0 .. MaxTurn
      /\ req.message \in Messages /\ m \in Nat
  BY Bounds, RequestIs
<1> DEFINE template == Canonical(req.static, req.turns)
           ids == Tokens(template)
           frozen == FrozenCount(bucket.spans, Spans(ids))
           base == SubSeq(bucket.base, 1, Len(ids))
           segs == Segments(bucket, Spans(ids), base, frozen)
           cut == Committed(template, base, segs, Placeholders(ids), req.turns)
<1>4. /\ slots' = WithoutTurnsFrom(req.message, 0)
      /\ \/ /\ Len(ids) < Len(bucket.ids)
            /\ bucket' = cut /\ initialized' = TRUE
            /\ job' = Idle \/ job' = Filling(req, FALSE)
         \/ /\ bucket' = DropPrefix /\ initialized' = FALSE
            /\ job' = Prepare(req, "prepare", template, FALSE)
  BY DEF AskRewind
<1>5. ids = Ids(req.static, req.turns)
  BY DEF Ids
<1>6. SlotsOK(slots')
  BY <1>1, <1>3, <1>4, CutSlotsOK
<1> HIDE DEF ids, frozen, base, segs, cut, template
<1>7. CASE /\ Len(ids) < Len(bucket.ids)
           /\ bucket' = cut /\ initialized' = TRUE
           /\ job' = Idle \/ job' = Filling(req, FALSE)
  <2>1. bucket.ids = Ids(req.static, m) /\ BaseOf(bucket.base, req.static, m)
    BY <1>2 DEF LaidFor
  <2>2. BaseOf(base, req.static, req.turns)
    <3>1. Len(Ids(req.static, req.turns)) < Len(Ids(req.static, m))
      BY <1>5, <1>7, <2>1
    <3> QED BY <1>3, <1>5, <2>1, <3>1, CutBase DEF base
  <2>3. ExactLeft(bucket)
    BY <1>1 DEF BucketOK
  <2>4. /\ Len(segs) = Len(Spans(ids))
        /\ \A j \in 1 .. Len(Spans(ids)) - 1 : segs[j] = SubSeq(ids, 1, Spans(ids)[j].end)
    BY <1>2, <1>3, <1>5, <2>2, <2>3, SegmentsAreExact DEF segs
  <2>5. cut = Committed(Canonical(req.static, req.turns), base, segs,
                        Placeholders(Ids(req.static, req.turns)), req.turns)
    BY <1>5 DEF cut, template
  <2>6. BucketOK(cut) /\ LaidFor(cut, req.static, req.turns) /\ Settled(cut)
    BY <1>3, <1>5, <2>2, <2>4, <2>5, CommitLaysOut
  <2>7. job' = Idle \/ FillOK(job', bucket')
    BY <1>7, <2>6, FillingOK
  <2>8. BucketOK(bucket') /\ Settled(bucket') /\ initialized' \in BOOLEAN
    BY <1>7, <2>6
  <2> QED BY <1>6, <2>7, <2>8 DEF IInv
<1>8. CASE /\ bucket' = DropPrefix /\ initialized' = FALSE
           /\ job' = Prepare(req, "prepare", template, FALSE)
  <2>1. ForwardOK(job', bucket')
    BY <1>8, PrepareOK DEF template
  <2>2. BucketOK(bucket') /\ Settled(bucket') /\ initialized' \in BOOLEAN
    BY <1>1, <1>8, DropKeeps
  <2> QED BY <1>6, <2>1, <2>2 DEF IInv
<1> QED BY <1>4, <1>7, <1>8

LEMMA RebuildKeeps ==
    ASSUME IInv, NEW req \in Requests, AskRebuild(req)
    PROVE  IInv'
<1>1. BucketOK(bucket) /\ Settled(bucket) /\ SlotsOK(slots) /\ initialized \in BOOLEAN
  BY IdleMeans DEF AskRebuild
<1>2. req.message \in Messages
  BY RequestIs
<1>3. /\ job' = Prepare(req, "prepare", Canonical(req.static, req.turns), FALSE)
      /\ \/ bucket' = DropPrefix \/ bucket' = Blank \/ bucket' = bucket
      /\ initialized' \in BOOLEAN
      /\ \/ slots' = WithoutTurnsFrom(req.message, 0) \/ slots' = NoSlots \/ slots' = slots
  <2>1. job' = Prepare(req, "prepare", Canonical(req.static, req.turns), FALSE)
    BY DEF AskRebuild
  <2>2. CASE Plan(req) = "static_rebuild"
    BY <2>1, <2>2 DEF AskRebuild
  <2>3. CASE Plan(req) # "static_rebuild"
    <3>1. /\ bucket' = IF Initialized THEN Blank ELSE bucket
          /\ initialized' = (initialized /\ ~Initialized)
          /\ slots' = IF Initialized THEN NoSlots ELSE slots
      BY <2>3 DEF AskRebuild
    <3>2. initialized' \in BOOLEAN
      BY <3>1
    <3> QED BY <2>1, <3>1, <3>2
  <2> QED BY <2>2, <2>3
<1>4. ForwardOK(job', bucket')
  BY <1>3, PrepareOK
<1>5. BucketOK(bucket') /\ Settled(bucket')
  BY <1>1, <1>3, DropKeeps, BlankIs
<1>6. SlotsOK(slots')
  BY <1>1, <1>2, <1>3, CutSlotsOK, NoSlotsOK
<1> QED BY <1>3, <1>4, <1>5, <1>6 DEF IInv

LEMMA FillKeeps ==
    ASSUME IInv, Fill
    PROVE  IInv'
<1>1. /\ BucketOK(bucket) /\ Settled(bucket) /\ SlotsOK(slots) /\ initialized \in BOOLEAN
      /\ FillOK(job, bucket)
  <2>1. job.phase = "fill"
    BY DEF Fill
  <2> QED BY <2>1, JobFields DEF IInv, ReadyOK, ForwardOK, TrimOK
<1> DEFINE req == job.req
           filled == Filled(req, TurnPhs)
<1>2. req \in Requests /\ LaidFor(bucket, req.static, req.turns)
  BY <1>1 DEF FillOK
<1>3. req.message \in Messages
  BY <1>2, RequestIs
<1>4. \/ /\ bucket' = DropPrefix /\ initialized' = FALSE
         /\ slots' = WithoutTurnsFrom(req.message, 0)
         /\ job' = Prepare(req, "prepare", Canonical(req.static, req.turns), TRUE)
      \/ /\ slots' = filled /\ job' = [phase |-> "ready", req |-> req]
         /\ UNCHANGED <<bucket, initialized>>
  BY DEF Fill
<1>5. SlotsOK(filled) /\ FreshFor(filled, req)
  <2> HIDE DEF req
  <2> QED BY <1>1, <1>2, FilledSlotsOK
<1> HIDE DEF req, filled
<1>6. CASE /\ bucket' = DropPrefix /\ initialized' = FALSE
           /\ slots' = WithoutTurnsFrom(req.message, 0)
           /\ job' = Prepare(req, "prepare", Canonical(req.static, req.turns), TRUE)
  <2>1. ForwardOK(job', bucket')
    BY <1>2, <1>6, PrepareOK
  <2>2. BucketOK(bucket') /\ Settled(bucket') /\ initialized' \in BOOLEAN
    BY <1>1, <1>6, DropKeeps
  <2>3. SlotsOK(slots')
    BY <1>1, <1>3, <1>6, CutSlotsOK
  <2> QED BY <2>1, <2>2, <2>3 DEF IInv
<1>7. CASE /\ slots' = filled /\ job' = [phase |-> "ready", req |-> req]
           /\ UNCHANGED <<bucket, initialized>>
  <2>1. ReadyOK(job', bucket', slots')
    BY <1>2, <1>5, <1>7 DEF ReadyOK
  <2>2. BucketOK(bucket') /\ Settled(bucket') /\ initialized' \in BOOLEAN /\ SlotsOK(slots')
    BY <1>1, <1>5, <1>7
  <2> QED BY <2>1, <2>2 DEF IInv
<1> QED BY <1>4, <1>6, <1>7

LEMMA ForwardedKeeps ==
    ASSUME IInv, Forwarded
    PROVE  IInv'
<1>1. /\ BucketOK(bucket) /\ SlotsOK(slots) /\ job.phase = "forward"
      /\ (ForwardOK(job, bucket) /\ Settled(bucket)) \/ TrimOK(job)
  <2>1. job.phase = "forward"
    BY DEF Forwarded
  <2> QED BY <2>1, JobFields DEF IInv, FillOK, ReadyOK
<1> DEFINE ids == Tokens(job.template)
           old == IF job.how = "append" THEN bucket ELSE Blank
           segs == Segments(old, Spans(ids), job.base, job.frozen)
           phs == KeptBefore(old.phs, Placeholders(ids))
           new == Committed(job.template, job.base, segs, phs, job.req.turns)
<1>2. /\ bucket' = new /\ initialized' = TRUE
      /\ slots' = IF job.how \in {"append", "append_all"}
                  THEN WithoutTurnsFrom(job.req.message, bucket.count) ELSE slots
      /\ job' = IF job.how = "trim" THEN Idle ELSE Filling(job.req, job.again)
  BY DEF Forwarded
<1> HIDE DEF new, segs, phs, ids, old
\* What a pass commits, for the static text and the number of turns it was for.
<1>3. ASSUME NEW s \in Statics, NEW n \in 0 .. MaxTurn,
             job.template = Canonical(s, n), job.req.turns = n, BaseOf(job.base, s, n),
             \/ job.how # "append"
             \/ \E m \in Nat : LaidFor(bucket, s, m) /\ n = m + 1
      PROVE  BucketOK(new) /\ LaidFor(new, s, n) /\ Settled(new)
  <2>1. ids = Ids(s, n)
    BY <1>3 DEF ids, Ids
  <2>2. n \in Nat
    BY Bounds
  <2>3. old.prefix = <<>> \/ \E m \in Nat : LaidFor(old, s, m) /\ ExactLeft(old)
    <3>1. CASE job.how # "append"
      BY <3>1, BlankIs DEF old
    <3>2. CASE job.how = "append"
      BY <1>1, <1>3, <3>2 DEF old, BucketOK
    <3> QED BY <3>1, <3>2
  <2>4. /\ Len(segs) = Len(Spans(Ids(s, n)))
        /\ \A j \in 1 .. Len(Spans(Ids(s, n))) - 1 :
              segs[j] = SubSeq(Ids(s, n), 1, Spans(Ids(s, n))[j].end)
    BY <1>3, <2>1, <2>2, <2>3, SegmentsAreExact DEF segs
  <2>5. phs = Placeholders(Ids(s, n))
    <3>1. CASE job.how # "append"
      <4>1. old.phs = NoPhs
        BY <3>1, BlankIs DEF old
      <4>2. DOMAIN NoPhs = {}
        BY DEF NoPhs
      <4> DEFINE g == Placeholders(Ids(s, n))
      <4>3. g = [ph \in DOMAIN g |-> g[ph]]
        BY DEF Placeholders
      <4> HIDE DEF g
      <4>4. KeptBefore(NoPhs, g) = g
        BY <4>2, <4>3 DEF KeptBefore
      <4> QED BY <2>1, <4>1, <4>4 DEF phs, g
    <3>2. CASE job.how = "append"
      <4>1. PICK m \in Nat : LaidFor(bucket, s, m) /\ n = m + 1
        BY <1>3, <3>2
      <4>2. old.phs = Placeholders(Ids(s, m))
        BY <3>2, <4>1 DEF old, LaidFor
      <4> QED BY <2>1, <4>1, <4>2, PlaceholdersStay DEF phs
    <3> QED BY <3>1, <3>2
  <2>6. new = Committed(Canonical(s, n), job.base, segs, Placeholders(Ids(s, n)), n)
    BY <1>3, <2>5 DEF new
  <2> QED BY <1>3, <2>4, <2>6, CommitLaysOut
<1>4. CASE ForwardOK(job, bucket) /\ Settled(bucket)
  <2>1. /\ job.req \in Requests /\ job.again \in BOOLEAN
        /\ job.how \in {"prepare", "append_all", "append"}
        /\ job.template = Canonical(job.req.static, job.req.turns)
        /\ BaseOf(job.base, job.req.static, job.req.turns)
        /\ job.how = "append" =>
              /\ job.req.turns - 1 \in 0 .. MaxTurn
              /\ LaidFor(bucket, job.req.static, job.req.turns - 1)
    BY <1>4 DEF ForwardOK
  <2>2. /\ job.req.static \in Statics /\ job.req.turns \in 0 .. MaxTurn /\ job.req.turns \in Nat
        /\ job.req.message \in Messages
    BY <2>1, RequestIs
  <2>3. \/ job.how # "append"
        \/ \E m \in Nat : LaidFor(bucket, job.req.static, m) /\ job.req.turns = m + 1
    <3> SUFFICES ASSUME job.how = "append"
                 PROVE  \E m \in Nat : LaidFor(bucket, job.req.static, m) /\ job.req.turns = m + 1
      OBVIOUS
    <3>1. job.req.turns - 1 \in Nat /\ job.req.turns = (job.req.turns - 1) + 1
      BY <2>1, <2>2
    <3> QED BY <2>1, <3>1
  <2>4. BucketOK(new) /\ LaidFor(new, job.req.static, job.req.turns) /\ Settled(new)
    BY <1>3, <2>1, <2>2, <2>3
  <2>5. job' = Filling(job.req, job.again)
    BY <1>2, <2>1
  <2>6. FillOK(job', bucket')
    BY <1>2, <2>1, <2>4, <2>5, FillingOK
  <2>7. SlotsOK(slots')
    BY <1>1, <1>2, <2>2, CutSlotsOK
  <2> QED BY <1>2, <2>4, <2>6, <2>7 DEF IInv
<1>5. CASE TrimOK(job)
  <2>1. PICK s \in Statics : job.template = Canonical(s, 0) /\ BaseOf(job.base, s, 0)
    BY <1>5 DEF TrimOK
  <2>2. job.how = "trim" /\ job.req.turns = 0 /\ 0 \in 0 .. MaxTurn
    BY <1>5, Bounds DEF TrimOK
  <2>3. BucketOK(new) /\ Settled(new)
    BY <1>3, <2>1, <2>2
  <2>4. job' = Idle /\ slots' = slots
    BY <1>2, <2>2
  <2> QED BY <1>1, <1>2, <2>3, <2>4 DEF IInv
<1> QED BY <1>1, <1>4, <1>5

LEMMA AnswerKeeps ==
    ASSUME IInv, Answer
    PROVE  IInv'
<1>1. job.phase = "ready" /\ job' = Idle /\ UNCHANGED <<bucket, initialized, slots>>
  BY DEF Answer
<1>2. Settled(bucket)
  BY <1>1, JobFields DEF IInv, FillOK, ForwardOK, TrimOK
<1> QED BY <1>1, <1>2 DEF IInv

LEMMA FailForwardKeeps ==
    ASSUME IInv, FailForward
    PROVE  IInv'
<1>1. /\ job.phase = "forward" /\ job.how # "trim"
      /\ job' = Idle /\ UNCHANGED <<bucket, initialized, slots>>
  BY DEF FailForward
<1>2. Settled(bucket)
  BY <1>1, JobFields DEF IInv, FillOK, ReadyOK, TrimOK
<1> QED BY <1>1, <1>2 DEF IInv

LEMMA FailFillKeeps ==
    ASSUME IInv, FailFill
    PROVE  IInv'
<1>1. job.phase = "fill" /\ job' = Idle /\ UNCHANGED <<bucket, initialized>>
  BY DEF FailFill
<1>2. \E phs : slots' = Filled(job.req, phs)
  BY DEF FailFill
<1>3. SlotsOK(slots) /\ FillOK(job, bucket) /\ Settled(bucket)
  BY <1>1, JobFields DEF IInv, ReadyOK, ForwardOK, TrimOK
<1>4. job.req \in Requests
  BY <1>3 DEF FillOK
<1>5. SlotsOK(slots')
  BY <1>2, <1>3, <1>4, FilledSlotsOK
<1> QED BY <1>1, <1>3, <1>5 DEF IInv

Fields(p, h, sp, i, ba, t, c, ha, to) ==
    [prefix |-> p, phs |-> h, spans |-> sp, ids |-> i, base |-> ba, template |-> t,
     count |-> c, hash |-> ha, topology |-> to]

LEMMA FieldsSet ==
    \A p, h, sp, i, ba, t, c, ha, to, x :
       /\ [Fields(p, h, sp, i, ba, t, c, ha, to) EXCEPT !.template = x]
            = Fields(p, h, sp, i, ba, x, c, ha, to)
       /\ [Fields(p, h, sp, i, ba, t, c, ha, to) EXCEPT !.count = x]
            = Fields(p, h, sp, i, ba, t, x, ha, to)
       /\ [Fields(p, h, sp, i, ba, t, c, ha, to) EXCEPT !.hash = x]
            = Fields(p, h, sp, i, ba, t, c, x, to)
       /\ [Fields(p, h, sp, i, ba, t, c, ha, to) EXCEPT !.topology = x]
            = Fields(p, h, sp, i, ba, t, c, ha, x)
  BY DEF Fields

LEMMA ClearIs ==
    ASSUME NEW b, IsBucket(b), NEW template
    PROVE  [b EXCEPT !.template = template, !.count = 0,
                     !.hash = NoStatic, !.topology = <<NoStatic, 0>>]
             = Fields(b.prefix, b.phs, b.spans, b.ids, b.base, template, 0, NoStatic, <<NoStatic, 0>>)
<1>1. b = Fields(b.prefix, b.phs, b.spans, b.ids, b.base, b.template, b.count, b.hash, b.topology)
  BY DEF IsBucket, Fields
<1>2. [b EXCEPT !.template = template, !.count = 0,
                !.hash = NoStatic, !.topology = <<NoStatic, 0>>]
        = [[[[b EXCEPT !.template = template] EXCEPT !.count = 0]
                EXCEPT !.hash = NoStatic] EXCEPT !.topology = <<NoStatic, 0>>]
  OBVIOUS
<1>3. [b EXCEPT !.template = template]
        = Fields(b.prefix, b.phs, b.spans, b.ids, b.base, template, b.count, b.hash, b.topology)
  BY <1>1, FieldsSet
<1> DEFINE b1 == [b EXCEPT !.template = template]
           b2 == [b1 EXCEPT !.count = 0]
           b3 == [b2 EXCEPT !.hash = NoStatic]
<1>4. b2 = Fields(b.prefix, b.phs, b.spans, b.ids, b.base, template, 0, b.hash, b.topology)
  <2>1. b1 = Fields(b.prefix, b.phs, b.spans, b.ids, b.base, template, b.count, b.hash, b.topology)
    BY <1>3
  <2> HIDE DEF b1
  <2> QED BY <2>1, FieldsSet
<1>5. b3 = Fields(b.prefix, b.phs, b.spans, b.ids, b.base, template, 0, NoStatic, b.topology)
  <2> HIDE DEF b2
  <2> QED BY <1>4, FieldsSet
<1>6. [b3 EXCEPT !.topology = <<NoStatic, 0>>]
        = Fields(b.prefix, b.phs, b.spans, b.ids, b.base, template, 0, NoStatic, <<NoStatic, 0>>)
  <2> HIDE DEF b3
  <2> QED BY <1>5, FieldsSet
<1> QED BY <1>2, <1>6

LEMMA TrimKeeps ==
    ASSUME IInv, Trim
    PROVE  IInv'
<1>1. BucketOK(bucket) /\ Settled(bucket) /\ SlotsOK(slots) /\ initialized \in BOOLEAN
  BY IdleMeans DEF Trim
<1> DEFINE template == [bucket.template EXCEPT !.turns = <<>>]
           cleared == [bucket EXCEPT !.template = template, !.count = 0,
                                     !.hash = NoStatic, !.topology = <<NoStatic, 0>>]
           dropped == [cleared EXCEPT !.prefix = <<>>, !.phs = NoPhs]
<1>2. /\ slots' = NoSlots
      /\ \/ /\ template.static \in Statics
            /\ bucket' = cleared /\ initialized' = initialized
            /\ job' = Prepare([turns |-> 0], "trim", template, FALSE)
         \/ /\ bucket' = dropped /\ initialized' = FALSE /\ job' = job
  BY DEF Trim
<1>3. PICK s \in Statics \cup {NoStatic}, n \in 0 .. MaxTurn : bucket.template = Canonical(s, n)
  <2>1. bucket.template \in Templates
    BY <1>1 DEF BucketOK
  <2> QED BY <2>1 DEF Templates
<1>4. template = Canonical(s, 0)
  <2>1. [i \in 1 .. 0 |-> i] = <<>>
    <3> DEFINE f == [i \in 1 .. 0 |-> i]
    <3>1. f \in [1 .. 0 -> Nat] /\ 0 \in Nat
      OBVIOUS
    <3>2. f \in Seq(Nat) /\ Len(f) = 0
      BY <3>1, LengthOf
    <3> QED BY <3>2, EmptySeq
  <2>2. bucket.template = [static |-> s, turns |-> [i \in 1 .. n |-> i]]
    BY <1>3 DEF Canonical
  <2>3. template = [static |-> s, turns |-> <<>>]
    BY <2>2
  <2> QED BY <2>1, <2>3 DEF Canonical
<1>5. template.static = s /\ 0 \in 0 .. MaxTurn /\ 0 \in Nat
  BY <1>4, Bounds DEF Canonical
<1>6. /\ IsBucket(cleared) /\ cleared.prefix = bucket.prefix /\ cleared.phs = bucket.phs
      /\ cleared.spans = bucket.spans /\ cleared.ids = bucket.ids
      /\ cleared.template = template /\ cleared.count = 0
  <2>1. IsBucket(bucket)
    BY <1>1 DEF BucketOK
  <2> HIDE DEF template
  <2>2. cleared = Fields(bucket.prefix, bucket.phs, bucket.spans, bucket.ids, bucket.base,
                         template, 0, NoStatic, <<NoStatic, 0>>)
    BY <2>1, ClearIs
  <2> HIDE DEF cleared
  <2> QED BY <2>2 DEF IsBucket, Fields
<1> HIDE DEF cleared, template
<1>7. BucketOK(cleared)
  <2>1. cleared.template \in Templates
    BY <1>4, <1>5, <1>6, TemplateIs
  <2> QED BY <1>1, <1>5, <1>6, <2>1 DEF BucketOK, ExactLeft
<1>8. BucketOK(dropped) /\ Settled(dropped)
  BY <1>7, DropIs
<1> HIDE DEF dropped
<1>9. SlotsOK(slots')
  BY <1>2, NoSlotsOK
<1>10. CASE /\ template.static \in Statics
            /\ bucket' = cleared /\ initialized' = initialized
            /\ job' = Prepare([turns |-> 0], "trim", template, FALSE)
  <2>1. s \in Statics
    BY <1>5, <1>10
  <2>2. /\ job'.phase = "forward" /\ job'.how = "trim" /\ job'.req = [turns |-> 0]
        /\ job'.template = template /\ job'.base = Tokens(template)
    BY <1>10 DEF Prepare, Forward
  <2>3. BaseOf(job'.base, s, 0)
    BY <1>4, <1>5, <2>1, <2>2, WholeBase
  <2>4. TrimOK(job')
    BY <1>4, <2>1, <2>2, <2>3 DEF TrimOK
  <2> QED BY <1>1, <1>7, <1>9, <1>10, <2>4 DEF IInv
<1>11. CASE bucket' = dropped /\ initialized' = FALSE /\ job' = job
  <2>1. job = Idle
    BY DEF Trim
  <2> QED BY <1>8, <1>9, <1>11, <2>1 DEF IInv
<1> QED BY <1>2, <1>10, <1>11

LEMMA ResetKeeps ==
    ASSUME IInv, Reset
    PROVE  IInv'
  BY BlankIs, NoSlotsOK DEF Reset, IInv

LEMMA InitHolds == Init => IInv
  BY BlankIs, NoSlotsOK DEF Init, IInv

LEMMA NextKeeps == IInv /\ [Next]_vars => IInv'
<1> SUFFICES ASSUME IInv, [Next]_vars PROVE IInv'
  OBVIOUS
<1>1. ASSUME NEW req \in Requests, AskNoop(req) PROVE IInv'
  BY <1>1, NoopKeeps
<1>2. ASSUME NEW req \in Requests, AskAppend(req) PROVE IInv'
  BY <1>2, AppendKeeps
<1>3. ASSUME NEW req \in Requests, AskRewind(req) PROVE IInv'
  BY <1>3, RewindKeeps
<1>4. ASSUME NEW req \in Requests, AskRebuild(req) PROVE IInv'
  BY <1>4, RebuildKeeps
<1>5. CASE Forwarded
  BY <1>5, ForwardedKeeps
<1>6. CASE Fill
  BY <1>6, FillKeeps
<1>7. CASE Answer
  BY <1>7, AnswerKeeps
<1>8. CASE FailForward
  BY <1>8, FailForwardKeeps
<1>9. CASE FailFill
  BY <1>9, FailFillKeeps
<1>10. CASE Trim
  BY <1>10, TrimKeeps
<1>11. CASE Reset
  BY <1>11, ResetKeeps
<1>12. CASE UNCHANGED vars
  BY <1>12 DEF vars, IInv
<1> QED BY <1>1, <1>2, <1>3, <1>4, <1>5, <1>6, <1>7, <1>8, <1>9, <1>10, <1>11, <1>12 DEF Next

-----------------------------------------------------------------------------
(* The theorems.                                                           *)

LEMMA Inductive == Spec => []IInv
<1> QED BY InitHolds, NextKeeps, PTL DEF Spec

\* A segment per text span and a record per placeholder, whatever was done to the
\* bucket and whichever of the two forwards or the trim failed.
LEMMA TypeOfInvariant == IInv => TypeOK
<1> SUFFICES ASSUME IInv PROVE TypeOK
  OBVIOUS
<1>1. /\ initialized \in BOOLEAN
      /\ slots \in [Messages -> [TurnPhs -> Slot]]
      /\ bucket.prefix = <<>> \/ Len(bucket.prefix) = Len(bucket.spans)
      /\ bucket.count \in 0 .. MaxTurn
      /\ DOMAIN bucket.phs \subseteq TurnPhs \cup {Upstream}
  BY DEF IInv, BucketOK, SlotsOK
<1>2. job.phase \in {"idle", "forward", "fill", "ready"}
  BY JobFields DEF IInv, FillOK, ReadyOK, ForwardOK, TrimOK
<1> QED BY <1>1, <1>2 DEF TypeOK

LEMMA ExactOfInvariant == IInv => LeftSpansExact
  BY DEF IInv, BucketOK, ExactLeft, LeftSpansExact, KvIsExact

LEMMA ReadyMeans ==
    ASSUME IInv, job.phase = "ready"
    PROVE  ReadyOK(job, bucket, slots)
  BY JobFields DEF IInv, FillOK, ForwardOK, TrimOK

LEMMA AnswersOfInvariant == IInv => AnswersRequest
<1> SUFFICES ASSUME IInv, job.phase = "ready"
             PROVE  /\ bucket.template = Canonical(job.req.static, job.req.turns)
                    /\ bucket.count = job.req.turns
                    /\ bucket.ids = Tokens(bucket.template)
                    /\ bucket.spans = Spans(bucket.ids)
                    /\ bucket.phs = Placeholders(bucket.ids)
  BY DEF AnswersRequest
<1> QED BY ReadyMeans DEF ReadyOK, LaidFor, Ids

LEMMA FreshOfInvariant == IInv => TurnsFresh
<1> SUFFICES ASSUME IInv, job.phase = "ready", NEW ph \in CurrentTurns
             PROVE  /\ slots[job.req.message][ph].hash = job.req.content[ph[1]]
                    /\ ph[2] = "tool" =>
                          slots[job.req.message][ph].ids = slots[job.req.message][ph].hash
  BY DEF TurnsFresh
<1>1. job.req \in Requests /\ FreshFor(slots, job.req)
  BY ReadyMeans DEF ReadyOK
<1>2. ph \in DOMAIN bucket.phs /\ ph[1] > 0 /\ ph[1] <= job.req.turns
  BY DEF CurrentTurns, TurnsListed
<1>3. ph \in TurnPhs
  <2>1. DOMAIN bucket.phs \subseteq TurnPhs \cup {Upstream}
    BY DEF IInv, BucketOK
  <2>2. ph # Upstream
    BY <1>2 DEF Upstream
  <2> QED BY <1>2, <2>1, <2>2
<1>4. job.req.message \in Messages
  BY <1>1, RequestIs
<1>5. ph[2] = "tool" => slots[job.req.message][ph].ids = slots[job.req.message][ph].hash
  BY <1>3, <1>4 DEF IInv, SlotsOK
<1> QED BY <1>1, <1>2, <1>3, <1>5 DEF FreshFor

\* The bucket's parts fit together through every append, cut, rebuild, trim, reset and
\* failure: a KV segment per text span, a record per placeholder of the template.
THEOREM TypeCorrect == Spec => []TypeOK
<1> QED BY Inductive, TypeOfInvariant, PTL

\* However a prefix was built, extended, cut and reused, the KV of every text span but
\* the last is that of the prompt's tokens up to there (_materialize_prefix_segments).
THEOREM LeftSpansAreExact == Spec => []LeftSpansExact
<1> QED BY Inductive, ExactOfInvariant, PTL

\* When a request starts to generate, the prefix is the one that a rebuild from scratch
\* would have laid out for it (_ensure_prefix, _commit_prefix_bucket).
THEOREM PrefixAnswersRequest == Spec => []AnswersRequest
<1> QED BY Inductive, AnswersOfInvariant, PTL

\* When a request starts to generate, the slot of every turn placeholder is for the
\* content of this request (materialize_turn_placeholders).
THEOREM TurnsAreFresh == Spec => []TurnsFresh
<1> QED BY Inductive, FreshOfInvariant, PTL

-----------------------------------------------------------------------------
(* With the slots of a consumer.                                           *)

\* The steps of the prefix that ConsumerSlots lets happen are those of PrefixLifecycle,
\* and the rest of its steps leave the prefix alone.
LEMMA StepOfPrefix == [SlotsNext]_allVars => [Next]_vars
<1> SUFFICES ASSUME [SlotsNext]_allVars PROVE [Next]_vars
  OBVIOUS
<1>1. ASSUME NEW req \in Requests,
             \/ NoopWithSlots(req) \/ AppendWithSlots(req)
             \/ RewindWithSlots(req) \/ RebuildWithSlots(req)
      PROVE  Next
  BY <1>1 DEF NoopWithSlots, AppendWithSlots, RewindWithSlots, RebuildWithSlots, Next
<1>2. CASE \/ ForwardedWithSlots \/ FillWithSlots \/ Generate \/ FailForward
           \/ FailFillWithSlots \/ Trim \/ ResetWithSlots
  BY <1>2 DEF ForwardedWithSlots, FillWithSlots, Generate, FailFillWithSlots, ResetWithSlots, Next
<1>3. CASE AnsweredAnew
  BY <1>3 DEF AnsweredAnew
<1>4. CASE UNCHANGED allVars
  BY <1>4 DEF allVars
<1> QED BY <1>1, <1>2, <1>3, <1>4 DEF SlotsNext

\* The composed system keeps what the prefix alone keeps: the registries of slots add
\* no step to it.
THEOREM SlotsKeepPrefix ==
    SlotsSpec => [](TypeOK /\ LeftSpansExact /\ AnswersRequest /\ TurnsFresh)
<1>1. SlotsInit => Init
  BY DEF SlotsInit
<1>2. SlotsSpec => Spec
  BY <1>1, StepOfPrefix, PTL DEF SlotsSpec, Spec
<1> QED BY <1>2, TypeCorrect, LeftSpansAreExact, PrefixAnswersRequest, TurnsAreFresh, PTL


-----------------------------------------------------------------------------
(* Where a slot was made.                                                  *)

\* The placeholders of a prompt are where they were with fewer turns.
LEMMA PlacesGoOn ==
    ASSUME NEW s \in Statics, NEW m \in Nat, NEW k \in Nat,
           NEW ph \in DOMAIN Placeholders(Ids(s, m))
    PROVE  /\ ph \in DOMAIN Placeholders(Ids(s, m + k))
           /\ Placeholders(Ids(s, m + k))[ph] = Placeholders(Ids(s, m))[ph]
<1> DEFINE P(n) == Placeholders(Ids(s, n))
           T == {j \in 0 .. k : ph \in DOMAIN P(m + j) /\ P(m + j)[ph] = P(m)[ph]}
<1>1. 0 \in T
  <2>1. m + 0 = m /\ 0 \in 0 .. k
    OBVIOUS
  <2> QED BY <2>1
<1>2. ASSUME NEW j \in 0 .. k, j \in T, j < k
      PROVE  j + 1 \in T
  <2>1. m + j \in Nat /\ j + 1 \in 0 .. k /\ m + (j + 1) = (m + j) + 1
    BY <1>2
  <2>2. KeptBefore(P(m + j), P((m + j) + 1)) = P((m + j) + 1)
    BY <2>1, PlaceholdersStay
  <2>3. ph \in DOMAIN P(m + j) /\ P(m + j)[ph] = P(m)[ph]
    BY <1>2
  <2> HIDE DEF P
  <2>4. /\ ph \in DOMAIN KeptBefore(P(m + j), P((m + j) + 1))
        /\ KeptBefore(P(m + j), P((m + j) + 1))[ph] = P(m + j)[ph]
    BY <2>3 DEF KeptBefore
  <2>5. ph \in DOMAIN P(m + (j + 1)) /\ P(m + (j + 1))[ph] = P(m)[ph]
    BY <2>1, <2>2, <2>3, <2>4
  <2> QED BY <2>1, <2>5
<1> HIDE DEF T
<1>3. \A j \in 0 .. k : j \in T
  BY <1>1, <1>2, Climb
<1>4. k \in T
  BY <1>3
<1> QED BY <1>4 DEF T

\* A placeholder stands in the body of its prompt.
LEMMA PlaceIs ==
    ASSUME NEW s \in Statics, NEW n \in Nat, NEW ph \in DOMAIN Placeholders(Ids(s, n))
    PROVE  /\ Placeholders(Ids(s, n))[ph].start \in Nat
           /\ Placeholders(Ids(s, n))[ph].start + 1 \in 1 .. Body(s, n)
           /\ Ids(s, n)[Placeholders(Ids(s, n))[ph].start + 1] = ph
           /\ ph \in {Upstream} \cup ((1 .. n) \X {"assistant", "tool"})
<1> DEFINE ids == Ids(s, n)
           T == PlacesOf(ids, ph)
           L == Body(s, n) + 2
<1>1. Body(s, n) \in Nat /\ L \in Nat /\ DOMAIN ids = 1 .. L
  BY IdsAre, LenProperties
<1>2. ph \in PhsIn(ids) /\ Placeholders(ids)[ph].start = At(ids, ph) - 1
  <2>1. /\ DOMAIN Placeholders(ids) = PhsIn(ids)
        /\ \A p \in PhsIn(ids) : \E pf :
              Placeholders(ids)[p] = [start |-> At(ids, p) - 1, end |-> At(ids, p), pf |-> pf]
    BY PlaceholdersAre
  <2>2. ph \in PhsIn(ids)
    BY <2>1
  <2>3. PICK pf : Placeholders(ids)[ph] = [start |-> At(ids, ph) - 1, end |-> At(ids, ph), pf |-> pf]
    BY <2>1, <2>2
  <2> QED BY <2>2, <2>3
<1>3. PICK i \in 1 .. L : ids[i] = ph /\ IsPh(ids[i])
  BY <1>1, <1>2 DEF PhsIn
<1>4. T \in SUBSET (0 .. L) /\ T # {}
  BY <1>1, <1>3 DEF PlacesOf
<1>5. Max(T) \in T
  <2> HIDE DEF T, L
  <2> QED BY <1>1, <1>4, Largest
<1> DEFINE a == Max(T)
<1>6. a \in 1 .. L /\ ids[a] = ph /\ IsPh(ids[a])
  <2>1. a \in DOMAIN ids /\ ids[a] = ph
    BY <1>5 DEF PlacesOf
  <2> QED BY <1>1, <1>3, <2>1
<1>7. a <= Body(s, n) /\ ph \in {Upstream} \cup ((1 .. n) \X {"assistant", "tool"})
  <2> HIDE DEF a
  <2> QED BY <1>6, PhsOfIds
<1>8. Placeholders(ids)[ph].start = a - 1
  BY <1>2 DEF At
<1> HIDE DEF a
<1>9. a - 1 \in Nat /\ (a - 1) + 1 = a /\ a \in 1 .. Body(s, n)
  BY <1>1, <1>6, <1>7
<1> QED BY <1>6, <1>7, <1>8, <1>9

\* In all prompts of one static text a placeholder has one place, behind the same tokens.
LEMMA PlaceIsOne ==
    ASSUME NEW s \in Statics, NEW m \in Nat, NEW n \in Nat,
           NEW ph \in DOMAIN Placeholders(Ids(s, m)), ph \in DOMAIN Placeholders(Ids(s, n))
    PROVE  /\ Placeholders(Ids(s, n))[ph].start = Placeholders(Ids(s, m))[ph].start
           /\ SubSeq(Ids(s, m), 1, Placeholders(Ids(s, m))[ph].start)
                = SubSeq(Ids(s, n), 1, Placeholders(Ids(s, m))[ph].start)
<1> DEFINE a == Placeholders(Ids(s, m))[ph].start
<1>1. Placeholders(Ids(s, n))[ph] = Placeholders(Ids(s, m))[ph]
  <2>1. CASE m <= n
    <3>1. n - m \in Nat /\ m + (n - m) = n
      BY <2>1
    <3> QED BY <3>1, PlacesGoOn
  <2>2. CASE n <= m
    <3>1. m - n \in Nat /\ n + (m - n) = m
      BY <2>2
    <3> QED BY <3>1, PlacesGoOn
  <2> QED BY <2>1, <2>2
<1>2. a \in Nat /\ a + 1 \in 1 .. Body(s, m) /\ a + 1 \in 1 .. Body(s, n)
  BY <1>1, PlaceIs
<1>3. Body(s, m) \in Nat /\ Body(s, n) \in Nat
  BY BodyIs
<1>4. \A i \in 1 .. a : Ids(s, m)[i] = Ids(s, n)[i]
  <2> SUFFICES ASSUME NEW i \in 1 .. a PROVE Ids(s, m)[i] = Ids(s, n)[i]
    OBVIOUS
  <2>1. i \in 1 .. Body(s, m) /\ i <= Body(s, n)
    BY <1>2, <1>3
  <2> QED BY <2>1, IdsAgree
<1>5. SubSeq(Ids(s, m), 1, a) = SubSeq(Ids(s, n), 1, a)
  BY <1>2, <1>4, SameStart
<1> QED BY <1>1, <1>5

\* The tokens left of a placeholder are those its KV was computed from.
LEMMA LeftIsLaid ==
    ASSUME NEW s \in Statics, NEW n \in Nat, NEW b, LaidFor(b, s, n), NEW ph \in DOMAIN b.phs
    PROVE  LeftOf(b, b.phs[ph].start) = SubSeq(Ids(s, n), 1, b.phs[ph].start)
<1>1. b.phs = Placeholders(Ids(s, n)) /\ BaseOf(b.base, s, n)
  BY DEF LaidFor
<1> DEFINE a == b.phs[ph].start
<1>2. a \in Nat /\ a + 1 \in 1 .. Body(s, n) /\ Body(s, n) \in Nat
  BY <1>1, PlaceIs, BodyIs
<1>3. \A i \in 1 .. a : b.base[i] = Ids(s, n)[i]
  <2> HIDE DEF a
  <2> SUFFICES ASSUME NEW i \in 1 .. a PROVE b.base[i] = Ids(s, n)[i]
    OBVIOUS
  <2>1. i \in 1 .. Body(s, n)
    BY <1>2
  <2> QED BY <1>1, <2>1 DEF BaseOf
<1> HIDE DEF a
<1>4. SubSeq(b.base, 1, a) = SubSeq(Ids(s, n), 1, a)
  BY <1>2, <1>3, SameStart
<1> QED BY <1>4 DEF a, LeftOf

\* A prompt lists the placeholders of all its turns.
LEMMA TurnsAreListed ==
    ASSUME NEW s \in Statics, NEW n \in Nat, NEW ph \in (1 .. n) \X {"assistant", "tool"}
    PROVE  ph \in DOMAIN Placeholders(Ids(s, n))
<1> DEFINE H == Len(StaticNames[s])
           t == ph[1]
           k == IF ph[2] = "assistant" THEN 4 * (t - 1) + 2 ELSE 4 * (t - 1) + 4
<1>1. t \in 1 .. n /\ ph[2] \in {"assistant", "tool"} /\ ph = <<t, ph[2]>>
  OBVIOUS
<1>2. k \in 1 .. 4 * n
  <2> HIDE DEF t
  <2> QED BY <1>1
<1>3. H \in Nat /\ Body(s, n) = H + 4 * n /\ Body(s, n) \in Nat
  BY BodyIs
<1>4. TurnTok(k) = ph
  <2> DEFINE f == [i \in Nat |-> i]
  <2> HIDE DEF t
  <2>1. f[t] = t
    BY <1>1
  <2>2. CASE ph[2] = "assistant"
    <3>1. k = 4 * (t - 1) + 2
      BY <2>2
    <3>2. ((k - 1) \div 4) + 1 = t /\ ((k - 1) % 4) + 1 = 2
      BY <1>1, <3>1
    <3>3. TurnToken(f, k) = TurnTokens(f[t])[2]
      BY <3>2 DEF TurnToken
    <3>4. TurnTokens(t)[2] = <<t, "assistant">>
      BY DEF TurnTokens
    <3> QED BY <1>1, <2>1, <2>2, <3>3, <3>4 DEF TurnTok
  <2>3. CASE ph[2] = "tool"
    <3>1. k = 4 * (t - 1) + 4
      BY <2>3
    <3>2. ((k - 1) \div 4) + 1 = t /\ ((k - 1) % 4) + 1 = 4
      BY <1>1, <3>1
    <3>3. TurnToken(f, k) = TurnTokens(f[t])[4]
      BY <3>2 DEF TurnToken
    <3>4. TurnTokens(t)[4] = <<t, "tool">>
      BY DEF TurnTokens
    <3> QED BY <1>1, <2>1, <2>3, <3>3, <3>4 DEF TurnTok
  <2> QED BY <1>1, <2>2, <2>3
<1> HIDE DEF k, H, t
<1>5. Ids(s, n)[H + k] = ph
  BY <1>2, <1>4, IdsAre DEF H
<1>6. H + k \in DOMAIN Ids(s, n)
  <2>1. DOMAIN Ids(s, n) = 1 .. Body(s, n) + 2
    BY IdsAre, LenProperties
  <2> QED BY <1>2, <1>3, <2>1
<1>7. IsPh(ph)
  BY <1>1 DEF IsPh, t
<1>8. ph \in PhsIn(Ids(s, n))
  BY <1>5, <1>6, <1>7 DEF PhsIn
<1> QED BY <1>8, PlaceholdersAre

\* Only a static text that names the agent before has a placeholder for it.
LEMMA UpstreamIsNamed ==
    ASSUME NEW s \in Statics, NEW n \in Nat, Upstream \in DOMAIN Placeholders(Ids(s, n))
    PROVE  HasUpstream(s)
<1> DEFINE H == Len(StaticNames[s])
           i == Placeholders(Ids(s, n))[Upstream].start + 1
<1>1. i \in 1 .. Body(s, n) /\ Ids(s, n)[i] = Upstream
  BY PlaceIs
<1>2. H \in Nat /\ Body(s, n) = H + 4 * n
  BY BodyIs
<1> HIDE DEF i
<1>3. CASE i <= H
  <2>1. i \in 1 .. H
    BY <1>1, <1>2, <1>3
  <2>2. Ids(s, n)[i] = <<0, StaticNames[s][i]>>
    BY <2>1, IdsAre
  <2>3. DOMAIN StaticNames[s] = 1 .. H
    <3>1. StaticNames[s] \in Seq(STRING)
      BY PrefixAssumption, Zenon
    <3> QED BY <3>1, LenProperties
  <2> QED BY <1>1, <2>1, <2>2, <2>3 DEF HasUpstream
<1>4. CASE i > H
  <2>0. 0 \in Nat
    OBVIOUS
  <2>1. Body(s, 0) = H
    <3>1. Body(s, 0) = H + 4 * 0
      BY <2>0, BodyIs
    <3> QED BY <1>2, <3>1
  <2> HIDE DEF H
  <2>2. 0 < n
    <3> DEFINE B == Body(s, n)
    <3>1. i \in 1 .. B /\ B = H + 4 * n /\ i > H /\ H \in Nat
      BY <1>1, <1>2, <1>4
    <3> HIDE DEF B
    <3> QED BY <3>1
  <2>3. i \in Body(s, 0) + 1 .. Body(s, n)
    <3> DEFINE B == Body(s, n)
    <3>1. i \in 1 .. B /\ B = H + 4 * n /\ i > H /\ H \in Nat
      BY <1>1, <1>2, <1>4
    <3> HIDE DEF B
    <3>2. i \in H + 1 .. B
      BY <3>1
    <3> QED BY <2>1, <3>2 DEF B
  <2>4. Ids(s, n)[i] \in OfTurns(0 + 1, n)
    BY <2>0, <2>2, <2>3, IdsGoOn
  <2>5. 0 + 1 = 1 /\ \A t \in 1 .. n : t # 0
    OBVIOUS
  <2> QED BY <1>1, <2>4, <2>5 DEF OfTurns, Upstream
<1> QED BY <1>1, <1>2, <1>3, <1>4

-----------------------------------------------------------------------------
(* The inductive invariant of the registries, beside that of the prefix.   *)

Key(req) == <<req.message, req.static, req.reuse, req.turns>>

\* A request for the message with this static text may leave slots.
Tied(message, s) == \E a \in Asked : a[1] = message /\ a[2] = s /\ ~Bare(a)

\* The slot was made at the place of ph in a prompt of the message, behind its tokens.
LaidSlot(message, ph, slot) ==
    \E s \in Statics, n \in Nat :
        /\ Tied(message, s)
        /\ ph \in DOMAIN Placeholders(Ids(s, n))
        /\ slot.start = Placeholders(Ids(s, n))[ph].start
        /\ slot.left = SubSeq(Ids(s, n), 1, slot.start)

IsRow(row) == row = [ph \in TurnPhs |-> row[ph]]
IsRows(c) == c = [m \in Messages |-> [ph \in TurnPhs |-> c[m][ph]]]

ConsumerOK(c) ==
    /\ IsRows(c)
    /\ \A m \in Messages, ph \in TurnPhs : \A slot \in c[m][ph] : LaidSlot(m, ph, slot)

UpstreamOK(u) ==
    /\ u = [m \in Messages |-> u[m]]
    /\ \A m \in Messages : \A slot \in u[m] : LaidSlot(m, Upstream, slot)

\* A turn that has a content has a slot for it.
MadeFor(c, sl) ==
    \A m \in Messages, ph \in TurnPhs :
        sl[m][ph] # None => \E slot \in c[m][ph] : slot.hash = sl[m][ph].hash

AskedOK(j) ==
    j.phase \in {"fill", "ready"} \/ (j.phase = "forward" /\ j.how # "trim") => Key(j.req) \in Asked

SlotsInv == ConsumerOK(consumer) /\ UpstreamOK(upSlots) /\ MadeFor(consumer, slots) /\ AskedOK(job)

\* A request whose prompt has a placeholder may leave slots.
LEMMA AskedTies ==
    ASSUME NEW req \in Requests, Key(req) \in Asked,
           NEW ph \in DOMAIN Placeholders(Ids(req.static, req.turns))
    PROVE  Tied(req.message, req.static)
<1>1. req.static \in Statics /\ req.turns \in Nat
  BY RequestIs
<1>2. ph \in {Upstream} \cup ((1 .. req.turns) \X {"assistant", "tool"})
  BY <1>1, PlaceIs
<1>3. Key(req)[1] = req.message /\ Key(req)[2] = req.static /\ Key(req)[4] = req.turns
  BY DEF Key
<1>4. ~Bare(Key(req))
  <2>1. CASE ph = Upstream
    BY <1>1, <1>3, <2>1, UpstreamIsNamed DEF Bare
  <2>2. CASE ph \in (1 .. req.turns) \X {"assistant", "tool"}
    <3>1. req.turns # 0
      BY <1>1, <2>2
    <3> QED BY <1>3, <3>1 DEF Bare
  <2> QED BY <1>2, <2>1, <2>2
<1> QED BY <1>3, <1>4 DEF Tied

\* A slot made on a prefix is laid for its request.
LEMMA MadeHere ==
    ASSUME NEW req \in Requests, Key(req) \in Asked, NEW b, LaidFor(b, req.static, req.turns),
           NEW ph \in DOMAIN b.phs,
           NEW slot, slot.start = b.phs[ph].start, slot.left = LeftOf(b, slot.start)
    PROVE  LaidSlot(req.message, ph, slot)
<1>1. req.static \in Statics /\ req.turns \in Nat
  BY RequestIs
<1>2. b.phs = Placeholders(Ids(req.static, req.turns))
  BY DEF LaidFor
<1>3. Tied(req.message, req.static)
  BY <1>2, AskedTies
<1>4. slot.left = SubSeq(Ids(req.static, req.turns), 1, slot.start)
  BY <1>1, LeftIsLaid
<1> QED BY <1>1, <1>2, <1>3, <1>4 DEF LaidSlot

\* As a message has one static text, its slots are where its prompt has their placeholder.
LEMMA StillHere ==
    ASSUME OneStatic, NEW req \in Requests, Key(req) \in Asked,
           NEW b, LaidFor(b, req.static, req.turns), NEW ph \in DOMAIN b.phs,
           NEW slot, LaidSlot(req.message, ph, slot)
    PROVE  slot.start = b.phs[ph].start /\ slot.left = SubSeq(b.ids, 1, slot.start)
<1>1. req.static \in Statics /\ req.turns \in Nat
  BY RequestIs
<1>2. b.phs = Placeholders(Ids(req.static, req.turns)) /\ b.ids = Ids(req.static, req.turns)
  BY DEF LaidFor
<1>3. PICK s \in Statics, n \in Nat :
        /\ Tied(req.message, s)
        /\ ph \in DOMAIN Placeholders(Ids(s, n))
        /\ slot.start = Placeholders(Ids(s, n))[ph].start
        /\ slot.left = SubSeq(Ids(s, n), 1, slot.start)
  BY DEF LaidSlot
<1>4. Tied(req.message, req.static)
  BY <1>2, AskedTies
<1>5. s = req.static
  BY <1>3, <1>4 DEF Tied, OneStatic
<1>6. ph \in DOMAIN Placeholders(Ids(s, n)) /\ ph \in DOMAIN Placeholders(Ids(s, req.turns))
  BY <1>2, <1>3, <1>5
<1>7. /\ Placeholders(Ids(s, req.turns))[ph].start = slot.start
      /\ SubSeq(Ids(s, n), 1, slot.start) = SubSeq(Ids(s, req.turns), 1, slot.start)
  <2>1. slot.start = Placeholders(Ids(s, n))[ph].start
    BY <1>3
  <2>2. /\ Placeholders(Ids(s, req.turns))[ph].start = Placeholders(Ids(s, n))[ph].start
        /\ SubSeq(Ids(s, n), 1, Placeholders(Ids(s, n))[ph].start)
             = SubSeq(Ids(s, req.turns), 1, Placeholders(Ids(s, n))[ph].start)
    <3> DEFINE k == req.turns
    <3>1. k \in Nat
      BY <1>1
    <3> HIDE DEF k
    <3>2. ph \in DOMAIN Placeholders(Ids(s, k))
      BY <1>6 DEF k
    <3> QED BY <1>6, <3>1, <3>2, PlaceIsOne DEF k
  <2> QED BY <2>1, <2>2
<1> QED BY <1>2, <1>3, <1>5, <1>7

\* The row of one message is replaced.
SetRow(c, message, row) == [c EXCEPT ![message] = row]

LEMMA RowSet ==
    ASSUME NEW c, IsRows(c), NEW message \in Messages, NEW row, IsRow(row)
    PROVE  /\ IsRows(SetRow(c, message, row))
           /\ \A m \in Messages :
                 SetRow(c, message, row)[m] = IF m = message THEN row ELSE c[m]
<1> DEFINE d == [c EXCEPT ![message] = row]
<1>1. \A m \in Messages : c[m] = [ph \in TurnPhs |-> c[m][ph]]
  BY DEF IsRows
<1>2. DOMAIN c = Messages
  BY DEF IsRows
<1>3. \A m \in Messages : d[m] = IF m = message THEN row ELSE c[m]
  BY <1>2
<1>4. d = [m \in Messages |-> d[m]]
  BY <1>2
<1>5. \A m \in Messages : d[m] = [ph \in TurnPhs |-> d[m][ph]]
  <2> SUFFICES ASSUME NEW m \in Messages PROVE d[m] = [ph \in TurnPhs |-> d[m][ph]]
    OBVIOUS
  <2>1. CASE m = message
    <3>1. d[m] = row
      BY <1>3, <2>1
    <3> QED BY <3>1 DEF IsRow
  <2>2. CASE m # message
    <3>1. d[m] = c[m]
      BY <1>3, <2>2
    <3> QED BY <1>1, <3>1
  <2> QED BY <2>1, <2>2
<1>6. IsRows(d)
  <2> HIDE DEF d
  <2> QED BY <1>4, <1>5, Zenon DEF IsRows
<1> QED BY <1>3, <1>6 DEF SetRow

LEMMA PurgedKeeps ==
    ASSUME ConsumerOK(consumer), MadeFor(consumer, slots), SlotsOK(slots),
           NEW message \in Messages, NEW n
    PROVE  /\ ConsumerOK(PurgedFrom(message, n))
           /\ MadeFor(PurgedFrom(message, n), WithoutTurnsFrom(message, n))
<1> DEFINE row == [ph \in TurnPhs |-> IF ph[1] >= n THEN {} ELSE consumer[message][ph]]
           line == [ph \in TurnPhs |-> IF ph[1] >= n THEN None ELSE slots[message][ph]]
           c == PurgedFrom(message, n)
           sl == WithoutTurnsFrom(message, n)
<1>1. c = SetRow(consumer, message, row) /\ IsRows(consumer)
  BY DEF PurgedFrom, ConsumerOK, SetRow
<1>2. sl = [slots EXCEPT ![message] = line] /\ DOMAIN slots = Messages
  BY DEF WithoutTurnsFrom, SlotsOK
<1>3. /\ IsRow(row)
      /\ \A ph \in TurnPhs : row[ph] = IF ph[1] >= n THEN {} ELSE consumer[message][ph]
  BY DEF IsRow
<1>4. \A ph \in TurnPhs : line[ph] = IF ph[1] >= n THEN None ELSE slots[message][ph]
  OBVIOUS
<1> HIDE DEF row, line, c, sl
<1>5. IsRows(c) /\ \A m \in Messages : c[m] = IF m = message THEN row ELSE consumer[m]
  BY <1>1, <1>3, RowSet
<1>6. \A m \in Messages : sl[m] = IF m = message THEN line ELSE slots[m]
  BY <1>2
<1>7. ASSUME NEW m \in Messages, NEW ph \in TurnPhs
      PROVE  /\ \A slot \in c[m][ph] : LaidSlot(m, ph, slot)
             /\ sl[m][ph] # None => \E slot \in c[m][ph] : slot.hash = sl[m][ph].hash
  <2>1. /\ \A slot \in consumer[m][ph] : LaidSlot(m, ph, slot)
        /\ slots[m][ph] # None => \E slot \in consumer[m][ph] : slot.hash = slots[m][ph].hash
    BY DEF ConsumerOK, MadeFor
  <2>2. \/ c[m][ph] = {} /\ sl[m][ph] = None
        \/ c[m][ph] = consumer[m][ph] /\ sl[m][ph] = slots[m][ph]
    <3>1. CASE m # message
      BY <1>5, <1>6, <3>1
    <3>2. CASE m = message
      BY <1>3, <1>4, <1>5, <1>6, <3>2
    <3> QED BY <3>1, <3>2
  <2> QED BY <2>1, <2>2
<1>8. ConsumerOK(c) /\ MadeFor(c, sl)
  BY <1>5, <1>7 DEF ConsumerOK, MadeFor
<1> QED BY <1>8 DEF c, sl

\* With the slots of the turns gone, the registry may stay.
LEMMA NoneMade ==
    ASSUME NEW c
    PROVE  MadeFor(c, NoSlots)
<1>1. \A m \in Messages, ph \in TurnPhs : NoSlots[m][ph] = None
  BY DEF NoSlots
<1> QED BY <1>1 DEF MadeFor

\* Put keeps a slot per content, of those at the same place, and adds the new one.
LEMMA PutIs ==
    ASSUME NEW kept, NEW slot
    PROVE  /\ slot \in Put(kept, slot)
           /\ \A s \in Put(kept, slot) : s = slot \/ s \in kept
  BY DEF Put

\* The contents of a request get their slots, on the prefix of the request.
LEMMA MaterializedKeeps ==
    ASSUME ConsumerOK(consumer), MadeFor(consumer, slots), SlotsOK(slots),
           NEW req \in Requests, Key(req) \in Asked, LaidFor(bucket, req.static, req.turns),
           NEW phs
    PROVE  /\ ConsumerOK(Materialized(req.message, Filled(req, phs)[req.message]))
           /\ MadeFor(Materialized(req.message, Filled(req, phs)[req.message]), Filled(req, phs))
<1> DEFINE message == req.message
           old == slots[message]
           line == [ph \in TurnPhs |-> IF ph \in phs /\ ph[1] <= req.turns
                                       THEN NewSlot(old[ph], ph, req.content[ph[1]])
                                       ELSE old[ph]]
           row == [ph \in TurnPhs |->
                      IF line[ph] # old[ph] /\ ph \in DOMAIN bucket.phs
                      THEN Put(consumer[message][ph], SlotAt(ph, line[ph]))
                      ELSE consumer[message][ph]]
           sl == Filled(req, phs)
           c == Materialized(message, sl[message])
<1>0. message \in Messages /\ req.static \in Statics /\ req.turns \in Nat
  BY RequestIs
<1>1. sl = [slots EXCEPT ![message] = line] /\ DOMAIN slots = Messages
  BY DEF Filled, SlotsOK
<1> HIDE DEF line, sl
<1>2. \A m \in Messages : sl[m] = IF m = message THEN line ELSE slots[m]
  BY <1>1
<1>3. sl[message] = line
  BY <1>0, <1>2
<1>4. c = SetRow(consumer, message, row) /\ IsRows(consumer)
  BY <1>3 DEF Materialized, ConsumerOK, SetRow
<1>5. IsRow(row)
  BY DEF IsRow
<1>6. ASSUME NEW ph \in TurnPhs
      PROVE  \/ /\ line[ph] = old[ph] /\ row[ph] = consumer[message][ph]
             \/ /\ ph \in DOMAIN bucket.phs
                /\ row[ph] = Put(consumer[message][ph], SlotAt(ph, line[ph]))
  <2>1. CASE ph[1] <= req.turns
    <3>1. ph \in (1 .. req.turns) \X {"assistant", "tool"}
      <4>1. ph[1] \in Nat /\ ph[1] >= 1 /\ ph[2] \in {"assistant", "tool"} /\ ph = <<ph[1], ph[2]>>
        <5>1. ph[1] \in 1 .. MaxTurn /\ ph[2] \in {"assistant", "tool"} /\ ph = <<ph[1], ph[2]>>
          BY DEF TurnPhs
        <5> QED BY <5>1, Bounds
      <4>2. ph[1] \in 1 .. req.turns
        BY <1>0, <2>1, <4>1
      <4> QED BY <4>1, <4>2
    <3>2. ph \in DOMAIN Placeholders(Ids(req.static, req.turns))
      BY <1>0, <3>1, TurnsAreListed
    <3>3. ph \in DOMAIN bucket.phs
      BY <3>2 DEF LaidFor
    <3> QED BY <3>3
  <2>2. CASE ~(ph[1] <= req.turns)
    <3>1. line[ph] = old[ph]
      BY <2>2 DEF line
    <3> QED BY <3>1
  <2> QED BY <2>1, <2>2
<1> HIDE DEF row, c
<1>7. IsRows(c) /\ \A m \in Messages : c[m] = IF m = message THEN row ELSE consumer[m]
  BY <1>0, <1>4, <1>5, RowSet
<1>8. ASSUME NEW m \in Messages, NEW ph \in TurnPhs
      PROVE  /\ \A slot \in c[m][ph] : LaidSlot(m, ph, slot)
             /\ sl[m][ph] # None => \E slot \in c[m][ph] : slot.hash = sl[m][ph].hash
  <2>1. /\ \A slot \in consumer[m][ph] : LaidSlot(m, ph, slot)
        /\ slots[m][ph] # None => \E slot \in consumer[m][ph] : slot.hash = slots[m][ph].hash
    BY DEF ConsumerOK, MadeFor
  <2>2. CASE c[m][ph] = consumer[m][ph] /\ sl[m][ph] = slots[m][ph]
    BY <2>1, <2>2
  <2>3. CASE /\ m = message /\ ph \in DOMAIN bucket.phs
             /\ c[m][ph] = Put(consumer[m][ph], SlotAt(ph, sl[m][ph]))
    <3> DEFINE new == SlotAt(ph, sl[m][ph])
    <3>1. /\ new.hash = sl[m][ph].hash /\ new.start = bucket.phs[ph].start
          /\ new.left = LeftOf(bucket, new.start)
      BY DEF SlotAt
    <3> HIDE DEF new
    <3>2. LaidSlot(req.message, ph, new)
      BY <2>3, <3>1, MadeHere
    <3>3. new \in c[m][ph] /\ \A s \in c[m][ph] : s = new \/ s \in consumer[m][ph]
      BY <2>3, PutIs DEF new
    <3> QED BY <2>1, <2>3, <3>1, <3>2, <3>3
  <2>4. CASE m # message
    BY <1>2, <1>7, <2>2, <2>4
  <2>5. CASE m = message
    <3>1. c[m] = row /\ sl[m] = line /\ slots[m] = old /\ consumer[m] = consumer[message]
      BY <1>2, <1>7, <2>5
    <3> QED BY <1>6, <2>2, <2>3, <2>5, <3>1
  <2> QED BY <2>4, <2>5
<1>9. ConsumerOK(c) /\ MadeFor(c, sl)
  BY <1>7, <1>8 DEF ConsumerOK, MadeFor
<1> QED BY <1>9 DEF c, sl

\* Before a generation, missing slots are made on the prefix of the request.
LEMMA EnsuredKeeps ==
    ASSUME ConsumerOK(consumer), MadeFor(consumer, slots),
           DOMAIN bucket.phs \subseteq TurnPhs \cup {Upstream},
           NEW req \in Requests, Key(req) \in Asked, LaidFor(bucket, req.static, req.turns)
    PROVE  /\ ConsumerOK([consumer EXCEPT ![req.message] = Ensured(req.message)])
           /\ MadeFor([consumer EXCEPT ![req.message] = Ensured(req.message)], slots)
           /\ \A ph \in TurnPhs : \A slot \in Ensured(req.message)[ph] : LaidSlot(req.message, ph, slot)
           /\ \A ph \in TurnPhs : consumer[req.message][ph] \subseteq Ensured(req.message)[ph]
<1> DEFINE message == req.message
           row == Ensured(message)
           c == SetRow(consumer, message, row)
<1>0. message \in Messages
  BY RequestIs
<1>1. ASSUME NEW ph \in TurnPhs
      PROVE  /\ \A slot \in row[ph] : LaidSlot(message, ph, slot)
             /\ consumer[message][ph] \subseteq row[ph]
  <2> DEFINE kept == consumer[message][ph]
             new == SlotAt(ph, slots[message][ph])
  <2>1. row[ph] = IF ph \in Looked(message) /\ \A s \in kept : ~SameKey(s, new)
                  THEN kept \cup {new} ELSE kept
    BY DEF Ensured
  <2>2. \A slot \in kept : LaidSlot(message, ph, slot)
    BY <1>0 DEF ConsumerOK
  <2>3. ph \in Looked(message) => LaidSlot(message, ph, new)
    <3> SUFFICES ASSUME ph \in Looked(message) PROVE LaidSlot(message, ph, new)
      OBVIOUS
    <3>1. ph \in DOMAIN bucket.phs
      BY DEF Looked, TurnsListed
    <3>2. new.start = bucket.phs[ph].start /\ new.left = LeftOf(bucket, new.start)
      BY DEF SlotAt
    <3> HIDE DEF new
    <3> QED BY <3>1, <3>2, MadeHere
  <2> HIDE DEF kept, new, row
  <2>4. row[ph] = kept \/ (ph \in Looked(message) /\ row[ph] = kept \cup {new})
    BY <2>1
  <2>5. (\A slot \in row[ph] : LaidSlot(message, ph, slot)) /\ kept \subseteq row[ph]
    BY <2>2, <2>3, <2>4
  <2> QED BY <2>5 DEF kept
<1>2. IsRow(row) /\ IsRows(consumer)
  BY DEF Ensured, IsRow, ConsumerOK
<1> HIDE DEF row, c
<1>3. IsRows(c) /\ \A m \in Messages : c[m] = IF m = message THEN row ELSE consumer[m]
  BY <1>0, <1>2, RowSet DEF c
<1>4. ASSUME NEW m \in Messages, NEW ph \in TurnPhs
      PROVE  /\ \A slot \in c[m][ph] : LaidSlot(m, ph, slot)
             /\ slots[m][ph] # None => \E slot \in c[m][ph] : slot.hash = slots[m][ph].hash
  <2>1. /\ \A slot \in consumer[m][ph] : LaidSlot(m, ph, slot)
        /\ slots[m][ph] # None => \E slot \in consumer[m][ph] : slot.hash = slots[m][ph].hash
    BY DEF ConsumerOK, MadeFor
  <2>2. CASE m # message
    <3>1. c[m] = consumer[m]
      BY <1>3, <2>2
    <3> QED BY <2>1, <3>1
  <2>3. CASE m = message
    <3>1. c[m] = row
      BY <1>3, <2>3
    <3> QED BY <1>1, <2>1, <2>3, <3>1
  <2> QED BY <2>2, <2>3
<1>5. ConsumerOK(c) /\ MadeFor(c, slots)
  BY <1>3, <1>4 DEF ConsumerOK, MadeFor
<1>6. c = [consumer EXCEPT ![message] = Ensured(message)]
  BY DEF c, row, SetRow
<1> QED BY <1>1, <1>5, <1>6 DEF row

\* The slot of the answer of the agent before is made on the prefix of the request.
LEMMA UpstreamKeeps ==
    ASSUME UpstreamOK(upSlots), NEW req \in Requests, Key(req) \in Asked,
           NEW b, LaidFor(b, req.static, req.turns)
    PROVE  UpstreamOK(UpstreamEnsured(b, req.message))
<1> DEFINE message == req.message
           u == UpstreamEnsured(b, message)
           new == UpstreamSlot(b, message)
<1>0. message \in Messages
  BY RequestIs
<1>1. upSlots = [m \in Messages |-> upSlots[m]] /\ DOMAIN upSlots = Messages
      /\ \A m \in Messages : \A slot \in upSlots[m] : LaidSlot(m, Upstream, slot)
  BY DEF UpstreamOK
<1>2. \/ u = upSlots
      \/ Upstream \in DOMAIN b.phs /\ u = [upSlots EXCEPT ![message] = @ \cup {new}]
  BY DEF UpstreamEnsured
<1>3. Upstream \in DOMAIN b.phs => LaidSlot(message, Upstream, new)
  <2> SUFFICES ASSUME Upstream \in DOMAIN b.phs PROVE LaidSlot(message, Upstream, new)
    OBVIOUS
  <2>1. new.start = b.phs[Upstream].start /\ new.left = LeftOf(b, new.start)
    BY DEF UpstreamSlot
  <2> HIDE DEF new
  <2> QED BY <2>1, MadeHere
<1> HIDE DEF u, new
<1>4. CASE u = upSlots
  BY <1>4 DEF u
<1>5. CASE Upstream \in DOMAIN b.phs /\ u = [upSlots EXCEPT ![message] = @ \cup {new}]
  <2>1. u = [m \in Messages |-> u[m]]
    BY <1>1, <1>5
  <2>2. \A m \in Messages : u[m] = IF m = message THEN upSlots[m] \cup {new} ELSE upSlots[m]
    BY <1>1, <1>5
  <2>3. \A m \in Messages : \A slot \in u[m] : LaidSlot(m, Upstream, slot)
    BY <1>1, <1>3, <1>5, <2>2
  <2>4. UpstreamOK(u)
    BY <2>1, <2>3 DEF UpstreamOK
  <2> QED BY <2>4 DEF u
<1> QED BY <1>2, <1>4, <1>5

-----------------------------------------------------------------------------
(* The steps, with the slots.                                              *)

LEMMA FillMeans ==
    ASSUME IInv, job.phase = "fill"
    PROVE  FillOK(job, bucket) /\ job.req \in Requests
  BY JobFields DEF IInv, ReadyOK, ForwardOK, TrimOK, FillOK

LEMMA ForwardMeans ==
    ASSUME IInv, job.phase = "forward", job.how # "trim"
    PROVE  ForwardOK(job, bucket) /\ job.req \in Requests
  BY JobFields DEF IInv, FillOK, ReadyOK, ForwardOK, TrimOK

LEMMA IdleAsks == AskedOK(Idle)
  BY DEF Idle, AskedOK

LEMMA FillingAsks ==
    ASSUME NEW req, Key(req) \in Asked, NEW again
    PROVE  AskedOK(Filling(req, again))
  BY JobFields DEF AskedOK

LEMMA ForwardAsks ==
    ASSUME NEW req, Key(req) \in Asked, NEW how, NEW template, NEW base, NEW frozen, NEW again
    PROVE  AskedOK(Forward(req, how, template, base, frozen, again))
  BY DEF AskedOK, Forward

\* The upstream slots of a message are dropped, or of all.
LEMMA UpstreamDropped ==
    ASSUME UpstreamOK(upSlots), NEW u, u = [m \in Messages |-> u[m]],
           \A m \in Messages : u[m] = {} \/ u[m] = upSlots[m]
    PROVE  UpstreamOK(u)
  BY DEF UpstreamOK

LEMMA SlotsNoop ==
    ASSUME IInv, SlotsInv, NEW req \in Requests, Key(req) \in Asked, NoopWithSlots(req)
    PROVE  SlotsInv'
<1>1. BucketOK(bucket) /\ Settled(bucket)
  BY IdleMeans DEF NoopWithSlots, AskNoop
<1>2. LaidFor(bucket, req.static, req.turns)
  BY <1>1, PlanIs DEF NoopWithSlots, AskNoop
<1>3. job' = Filling(req, FALSE) /\ consumer' = consumer /\ slots' = slots
      /\ (upSlots' = upSlots \/ upSlots' = UpstreamEnsured(bucket, req.message))
  BY DEF NoopWithSlots, AskNoop
<1>4. UpstreamOK(upSlots')
  BY <1>2, <1>3, UpstreamKeeps DEF SlotsInv
<1>5. AskedOK(job')
  BY <1>3, FillingAsks
<1>6. ConsumerOK(consumer') /\ MadeFor(consumer', slots')
  BY <1>3 DEF SlotsInv
<1> QED BY <1>4, <1>5, <1>6 DEF SlotsInv

LEMMA SlotsAppend ==
    ASSUME IInv, SlotsInv, NEW req \in Requests, Key(req) \in Asked, AppendWithSlots(req)
    PROVE  SlotsInv'
<1>1. consumer' = consumer /\ upSlots' = upSlots /\ slots' = slots
  BY DEF AppendWithSlots, AskAppend, slotVars
<1>2. \E how, template, base, frozen : job' = Forward(req, how, template, base, frozen, FALSE)
  BY DEF AppendWithSlots, AskAppend, Prepare
<1>3. AskedOK(job')
  BY <1>2, ForwardAsks
<1> QED BY <1>1, <1>3 DEF SlotsInv

LEMMA SlotsRewind ==
    ASSUME IInv, IInv', SlotsInv, NEW req \in Requests, Key(req) \in Asked, RewindWithSlots(req)
    PROVE  SlotsInv'
<1>0. req.message \in Messages
  BY RequestIs
<1>1. /\ consumer' = PurgedFrom(req.message, 0) /\ slots' = WithoutTurnsFrom(req.message, 0)
      /\ \/ job'.phase = "forward" /\ upSlots' = [upSlots EXCEPT ![req.message] = {}]
         \/ /\ job'.phase # "forward"
            /\ upSlots' = IF req.reuse /\ req.turns = 0
                          THEN UpstreamEnsured(bucket', req.message) ELSE upSlots
      /\ \/ job' = IF req.reuse /\ req.turns > 0 THEN Idle ELSE Filling(req, FALSE)
         \/ job' = Prepare(req, "prepare", Canonical(req.static, req.turns), FALSE)
  BY DEF RewindWithSlots, AskRewind
<1>2. ConsumerOK(consumer') /\ MadeFor(consumer', slots')
  BY <1>0, <1>1, PurgedKeeps DEF SlotsInv, IInv
<1>3. AskedOK(job')
  BY <1>1, IdleAsks, FillingAsks, ForwardAsks DEF Prepare
<1>4. UpstreamOK(upSlots')
  <2>1. CASE upSlots' = [upSlots EXCEPT ![req.message] = {}]
    <3>1. upSlots = [m \in Messages |-> upSlots[m]]
      BY DEF SlotsInv, UpstreamOK
    <3>2. DOMAIN upSlots = Messages
      BY <3>1
    <3>3. /\ upSlots' = [m \in Messages |-> upSlots'[m]]
          /\ \A m \in Messages : upSlots'[m] = {} \/ upSlots'[m] = upSlots[m]
      BY <2>1, <3>2
    <3> QED BY <3>3, UpstreamDropped DEF SlotsInv
  <2>2. CASE upSlots' = upSlots
    BY <2>2 DEF SlotsInv
  <2>3. CASE /\ job'.phase # "forward" /\ req.turns = 0
             /\ upSlots' = UpstreamEnsured(bucket', req.message)
    <3>1. job' = Filling(req, FALSE)
      <4>1. ~(req.turns > 0)
        BY <2>3
      <4>2. Prepare(req, "prepare", Canonical(req.static, req.turns), FALSE).phase = "forward"
        BY DEF Prepare, Forward
      <4> QED BY <1>1, <2>3, <4>1, <4>2
    <3>2. job'.phase = "fill" /\ job'.req = req
      BY <3>1, JobFields
    <3>3. LaidFor(bucket', req.static, req.turns)
      <4>1. FillOK(job', bucket')
        BY <3>2, JobFields DEF IInv, ReadyOK, ForwardOK, TrimOK
      <4> QED BY <3>2, <4>1 DEF FillOK
    <3> QED BY <2>3, <3>3, UpstreamKeeps DEF SlotsInv
  <2> QED BY <1>1, <2>1, <2>2, <2>3
<1> QED BY <1>2, <1>3, <1>4 DEF SlotsInv

LEMMA SlotsRebuild ==
    ASSUME IInv, SlotsInv, NEW req \in Requests, Key(req) \in Asked, RebuildWithSlots(req)
    PROVE  SlotsInv'
<1>0. req.message \in Messages
  BY RequestIs
<1>1. /\ \/ consumer' = PurgedFrom(req.message, 0) /\ slots' = WithoutTurnsFrom(req.message, 0)
         \/ consumer' = consumer /\ (slots' = NoSlots \/ slots' = slots)
      /\ job' = Prepare(req, "prepare", Canonical(req.static, req.turns), FALSE)
      /\ upSlots' = UpstreamPurged(req)
  BY DEF RebuildWithSlots, AskRebuild
<1>2. ConsumerOK(consumer') /\ MadeFor(consumer', slots')
  BY <1>0, <1>1, PurgedKeeps, NoneMade DEF SlotsInv, IInv
<1>3. AskedOK(job')
  BY <1>1, ForwardAsks DEF Prepare
<1>4. /\ upSlots' = [m \in Messages |-> upSlots'[m]]
      /\ \A m \in Messages : upSlots'[m] = {} \/ upSlots'[m] = upSlots[m]
  BY <1>1 DEF UpstreamPurged
<1>5. UpstreamOK(upSlots')
  BY <1>4, UpstreamDropped DEF SlotsInv
<1> QED BY <1>2, <1>3, <1>5 DEF SlotsInv

LEMMA SlotsForwarded ==
    ASSUME IInv, SlotsInv, ForwardedWithSlots
    PROVE  SlotsInv'
<1>1. /\ job.phase = "forward" /\ upSlots' = upSlots
      /\ \/ /\ job.how \in {"append", "append_all"}
            /\ consumer' = PurgedFrom(job.req.message, bucket.count)
            /\ slots' = WithoutTurnsFrom(job.req.message, bucket.count)
         \/ consumer' = consumer /\ slots' = slots
      /\ job' = IF job.how = "trim" THEN Idle ELSE Filling(job.req, job.again)
  BY DEF ForwardedWithSlots, Forwarded
<1>2. ConsumerOK(consumer') /\ MadeFor(consumer', slots')
  <2>1. CASE job.how \in {"append", "append_all"}
    <3>1. job.how # "trim"
      BY <2>1
    <3>2. job.req.message \in Messages
      BY <1>1, <3>1, ForwardMeans, RequestIs
    <3> QED BY <1>1, <3>2, PurgedKeeps DEF SlotsInv, IInv
  <2>2. CASE job.how \notin {"append", "append_all"}
    BY <1>1, <2>2 DEF SlotsInv
  <2> QED BY <2>1, <2>2
<1>3. AskedOK(job')
  <2>1. CASE job.how = "trim"
    BY <1>1, <2>1, IdleAsks
  <2>2. CASE job.how # "trim"
    <3>1. Key(job.req) \in Asked
      BY <1>1, <2>2 DEF SlotsInv, AskedOK
    <3> QED BY <1>1, <2>2, <3>1, FillingAsks
  <2> QED BY <2>1, <2>2
<1> QED BY <1>1, <1>2, <1>3 DEF SlotsInv

LEMMA SlotsFill ==
    ASSUME IInv, SlotsInv, FillWithSlots
    PROVE  SlotsInv'
<1>1. job.phase = "fill" /\ upSlots' = upSlots
  BY DEF FillWithSlots, Fill
<1>2. FillOK(job, bucket) /\ job.req \in Requests /\ Key(job.req) \in Asked
  BY <1>1, FillMeans DEF SlotsInv, AskedOK
<1>3. job.req.message \in Messages /\ LaidFor(bucket, job.req.static, job.req.turns)
  BY <1>2, RequestIs DEF FillOK
<1>4. \/ /\ slots' = WithoutTurnsFrom(job.req.message, 0)
         /\ job' = Prepare(job.req, "prepare", Canonical(job.req.static, job.req.turns), TRUE)
      \/ slots' = Filled(job.req, TurnPhs) /\ job' = [phase |-> "ready", req |-> job.req]
  BY DEF FillWithSlots, Fill
<1>5. CASE /\ slots' = WithoutTurnsFrom(job.req.message, 0)
           /\ job' = Prepare(job.req, "prepare", Canonical(job.req.static, job.req.turns), TRUE)
  <2>1. job'.phase = "forward"
    BY <1>5 DEF Prepare, Forward
  <2>2. consumer' = PurgedFrom(job.req.message, 0)
    BY <2>1 DEF FillWithSlots
  <2>3. ConsumerOK(consumer') /\ MadeFor(consumer', slots')
    BY <1>3, <1>5, <2>2, PurgedKeeps DEF SlotsInv, IInv
  <2>4. AskedOK(job')
    BY <1>2, <1>5, ForwardAsks DEF Prepare
  <2> QED BY <1>1, <2>3, <2>4 DEF SlotsInv
<1>6. CASE slots' = Filled(job.req, TurnPhs) /\ job' = [phase |-> "ready", req |-> job.req]
  <2>1. job'.phase = "ready" /\ job'.req = job.req
    BY <1>6
  <2>2. consumer' = Materialized(job.req.message, slots'[job.req.message])
    BY <2>1 DEF FillWithSlots
  <2>3. ConsumerOK(consumer') /\ MadeFor(consumer', slots')
    BY <1>2, <1>3, <1>6, <2>2, MaterializedKeeps DEF SlotsInv, IInv
  <2>4. AskedOK(job')
    BY <1>2, <2>1 DEF AskedOK
  <2> QED BY <1>1, <2>3, <2>4 DEF SlotsInv
<1> QED BY <1>4, <1>5, <1>6

LEMMA SlotsFailFill ==
    ASSUME IInv, SlotsInv, FailFillWithSlots
    PROVE  SlotsInv'
<1>1. /\ job.phase = "fill" /\ upSlots' = upSlots /\ job' = Idle
      /\ consumer' = Materialized(job.req.message, slots'[job.req.message])
  BY DEF FailFillWithSlots, FailFill
<1>2. PICK phs : slots' = Filled(job.req, phs)
  BY DEF FailFillWithSlots, FailFill
<1>3. FillOK(job, bucket) /\ job.req \in Requests /\ Key(job.req) \in Asked
  BY <1>1, FillMeans DEF SlotsInv, AskedOK
<1>4. LaidFor(bucket, job.req.static, job.req.turns)
  BY <1>3 DEF FillOK
<1>5. ConsumerOK(consumer') /\ MadeFor(consumer', slots')
  BY <1>1, <1>2, <1>3, <1>4, MaterializedKeeps DEF SlotsInv, IInv
<1> QED BY <1>1, <1>5, IdleAsks DEF SlotsInv

LEMMA SlotsGenerate ==
    ASSUME IInv, SlotsInv, Generate
    PROVE  SlotsInv'
<1>1. /\ job.phase = "ready" /\ job' = Idle /\ slots' = slots
      /\ consumer' = [consumer EXCEPT ![job.req.message] = Ensured(job.req.message)]
      /\ upSlots' = UpstreamEnsured(bucket, job.req.message)
  BY DEF Generate, Answer
<1>2. job.req \in Requests /\ LaidFor(bucket, job.req.static, job.req.turns) /\ Key(job.req) \in Asked
  BY <1>1, ReadyMeans DEF SlotsInv, AskedOK, ReadyOK
<1>3. DOMAIN bucket.phs \subseteq TurnPhs \cup {Upstream}
  BY DEF IInv, BucketOK
<1>4. ConsumerOK(consumer') /\ MadeFor(consumer', slots')
  BY <1>1, <1>2, <1>3, EnsuredKeeps DEF SlotsInv
<1>5. UpstreamOK(upSlots')
  BY <1>1, <1>2, UpstreamKeeps DEF SlotsInv
<1> QED BY <1>1, <1>4, <1>5, IdleAsks DEF SlotsInv

LEMMA SlotsTrim ==
    ASSUME IInv, SlotsInv, Trim, UNCHANGED slotVars
    PROVE  SlotsInv'
<1>1. consumer' = consumer /\ upSlots' = upSlots /\ slots' = NoSlots /\ job = Idle
  BY DEF Trim, slotVars
<1>2. job' = job \/ \E template : job' = Prepare([turns |-> 0], "trim", template, FALSE)
  BY DEF Trim
<1>3. AskedOK(job')
  <2>1. ASSUME NEW template, job' = Prepare([turns |-> 0], "trim", template, FALSE)
        PROVE  AskedOK(job')
    <3>1. job'.phase = "forward" /\ job'.how = "trim"
      BY <2>1 DEF Prepare, Forward
    <3> QED BY <3>1 DEF AskedOK
  <2> QED BY <1>1, <1>2, <2>1, IdleAsks
<1> QED BY <1>1, <1>3, NoneMade DEF SlotsInv

LEMMA SlotsReset ==
    ASSUME SlotsInv, ResetWithSlots
    PROVE  SlotsInv'
<1>1. /\ consumer' = consumer /\ slots' = NoSlots /\ job' = job
      /\ upSlots' = [m \in Messages |-> {}]
  BY DEF ResetWithSlots, Reset
<1>2. UpstreamOK(upSlots')
  BY <1>1 DEF UpstreamOK
<1> QED BY <1>1, <1>2, NoneMade DEF SlotsInv

LEMMA SlotsBegin == SlotsInit => SlotsInv
<1> SUFFICES ASSUME SlotsInit PROVE SlotsInv
  OBVIOUS
<1>1. /\ consumer = [m \in Messages |-> [ph \in TurnPhs |-> {}]]
      /\ upSlots = [m \in Messages |-> {}] /\ slots = NoSlots /\ job = Idle
  BY DEF SlotsInit, Init
<1>2. ConsumerOK(consumer)
  BY <1>1 DEF ConsumerOK, IsRows
<1>3. UpstreamOK(upSlots)
  BY <1>1 DEF UpstreamOK
<1> QED BY <1>1, <1>2, <1>3, NoneMade, IdleAsks DEF SlotsInv

LEMMA SlotsStep == IInv /\ IInv' /\ SlotsInv /\ [SlotsNext]_allVars => SlotsInv'
<1> SUFFICES ASSUME IInv, IInv', SlotsInv, [SlotsNext]_allVars PROVE SlotsInv'
  OBVIOUS
<1>1. ASSUME NEW req \in Requests,
             <<req.message, req.static, req.reuse, req.turns>> \in Asked,
             \/ NoopWithSlots(req) \/ AppendWithSlots(req)
             \/ RewindWithSlots(req) \/ RebuildWithSlots(req)
      PROVE  SlotsInv'
  <2>1. Key(req) \in Asked
    BY <1>1 DEF Key
  <2> QED BY <1>1, <2>1, SlotsNoop, SlotsAppend, SlotsRewind, SlotsRebuild
<1>2. CASE ForwardedWithSlots
  BY <1>2, SlotsForwarded
<1>3. CASE FillWithSlots
  BY <1>3, SlotsFill
<1>4. CASE Generate
  BY <1>4, SlotsGenerate
<1>5. CASE FailForward /\ UNCHANGED slotVars
  BY <1>5, IdleAsks DEF FailForward, slotVars, SlotsInv
<1>6. CASE FailFillWithSlots
  BY <1>6, SlotsFailFill
<1>7. CASE Trim /\ UNCHANGED slotVars
  BY <1>7, SlotsTrim
<1>8. CASE ResetWithSlots
  BY <1>8, SlotsReset
<1>9. CASE AnsweredAnew
  BY <1>9 DEF AnsweredAnew, vars, SlotsInv
<1>10. CASE UNCHANGED allVars
  BY <1>10 DEF allVars, vars, slotVars, SlotsInv
<1> QED BY <1>1, <1>2, <1>3, <1>4, <1>5, <1>6, <1>7, <1>8, <1>9, <1>10 DEF SlotsNext

\* At a generation, every slot is where the prompt has its placeholder.
LEMMA ReadyWith ==
    ASSUME IInv, SlotsInv, job.phase = "ready"
    PROVE  /\ job.req \in Requests /\ Key(job.req) \in Asked
           /\ job.req.message \in Messages /\ job.req.turns \in 0 .. MaxTurn
           /\ LaidFor(bucket, job.req.static, job.req.turns)
           /\ FreshFor(slots, job.req)
<1>1. ReadyOK(job, bucket, slots)
  BY ReadyMeans
<1>2. job.req \in Requests
  BY <1>1 DEF ReadyOK
<1>3. Key(job.req) \in Asked
  BY DEF SlotsInv, AskedOK
<1> QED BY <1>1, <1>2, <1>3, RequestIs DEF ReadyOK

\* The turns a prompt lists are those of its request, and have a content.
LEMMA ListedIs ==
    ASSUME IInv, SlotsInv, job.phase = "ready", NEW ph \in TurnsListed
    PROVE  /\ ph \in TurnPhs /\ ph \in DOMAIN bucket.phs
           /\ slots[job.req.message][ph].hash = job.req.content[ph[1]]
           /\ slots[job.req.message][ph] # None
<1> DEFINE n == job.req.turns
<1>1. /\ job.req \in Requests /\ job.req.static \in Statics /\ n \in 0 .. MaxTurn /\ n \in Nat
      /\ job.req.content \in [1 .. n -> Contents]
      /\ LaidFor(bucket, job.req.static, n) /\ FreshFor(slots, job.req)
  BY ReadyWith, RequestIs
<1>2. ph \in DOMAIN bucket.phs /\ ph[1] > 0
  BY DEF TurnsListed
<1>3. ph \in DOMAIN Placeholders(Ids(job.req.static, n))
  BY <1>1, <1>2 DEF LaidFor
<1> HIDE DEF n
<1>4. ph \in {Upstream} \cup ((1 .. n) \X {"assistant", "tool"})
  BY <1>1, <1>3, PlaceIs DEF n
<1>5. ph \in (1 .. n) \X {"assistant", "tool"}
  BY <1>2, <1>4 DEF Upstream
<1>6. ph[1] \in 1 .. n /\ ph \in TurnPhs
  BY <1>1, <1>5, Bounds DEF TurnPhs
<1>7. slots[job.req.message][ph].hash = job.req.content[ph[1]]
  BY <1>1, <1>6 DEF FreshFor, n
<1>8. slots[job.req.message][ph].hash \in Contents
  BY <1>1, <1>6, <1>7 DEF n
<1>9. None.hash \notin Contents
  <2>1. None.hash = "none"
    BY DEF None
  <2> QED BY <2>1, PrefixAssumption, Zenon
<1>10. slots[job.req.message][ph] # None
  BY <1>8, <1>9
<1> QED BY <1>2, <1>6, <1>7, <1>10

LEMMA TurnsOfInvariant ==
    ASSUME OneStatic, IInv, SlotsInv
    PROVE  TurnSlotsCurrent
<1> SUFFICES ASSUME job.phase = "ready", NEW ph \in TurnsListed
             PROVE  LET found == Resolved(Ensured(job.req.message)[ph], ph, slots[job.req.message][ph])
                    IN  /\ found # {}
                        /\ \A slot \in found :
                              /\ slot.hash = job.req.content[ph[1]]
                              /\ slot.start = bucket.phs[ph].start
                              /\ LeftIsExact(slot)
  BY DEF TurnSlotsCurrent
<1> DEFINE message == job.req.message
           turn == slots[message][ph]
           kept == Ensured(message)[ph]
           exact == {s \in kept : SameKey(s, SlotAt(ph, turn))}
<1>1. /\ job.req \in Requests /\ Key(job.req) \in Asked /\ message \in Messages
      /\ LaidFor(bucket, job.req.static, job.req.turns)
  BY ReadyWith
<1>2. /\ ph \in TurnPhs /\ ph \in DOMAIN bucket.phs
      /\ turn.hash = job.req.content[ph[1]] /\ turn # None
  BY ListedIs
<1>3. SlotAt(ph, turn).hash = turn.hash /\ SlotAt(ph, turn).start = bucket.phs[ph].start
  BY DEF SlotAt
<1>4. DOMAIN bucket.phs \subseteq TurnPhs \cup {Upstream}
  BY DEF IInv, BucketOK
<1>5. /\ \A slot \in kept : LaidSlot(message, ph, slot)
      /\ consumer[message][ph] \subseteq kept
  BY <1>1, <1>2, <1>4, EnsuredKeeps DEF SlotsInv
<1>6. \A slot \in kept : /\ slot.start = bucket.phs[ph].start
                         /\ slot.left = SubSeq(bucket.ids, 1, slot.start)
  BY <1>1, <1>2, <1>5, StillHere
<1>7. PICK slot \in consumer[message][ph] : slot.hash = turn.hash
  BY <1>1, <1>2 DEF SlotsInv, MadeFor
<1>8. slot \in kept /\ slot.start = bucket.phs[ph].start
  BY <1>5, <1>6, <1>7
<1>9. slot \in exact
  BY <1>3, <1>7, <1>8 DEF SameKey
<1>10. Resolved(kept, ph, turn) = exact
  BY <1>9 DEF Resolved
<1>11. \A s \in exact : /\ s.hash = job.req.content[ph[1]]
                        /\ s.start = bucket.phs[ph].start
                        /\ LeftIsExact(s)
  BY <1>2, <1>3, <1>6 DEF SameKey, LeftIsExact
<1> QED BY <1>9, <1>10, <1>11

LEMMA UpstreamOfInvariant ==
    ASSUME OneStatic, IInv, SlotsInv
    PROVE  UpstreamCurrent
<1> SUFFICES ASSUME job.phase = "ready", Upstream \in DOMAIN bucket.phs
             PROVE  \E slot \in UpstreamResolved(job.req.message,
                                                 UpstreamEnsured(bucket, job.req.message)) :
                        LeftIsExact(slot)
  BY DEF UpstreamCurrent
<1> DEFINE message == job.req.message
           all == UpstreamEnsured(bucket, message)
<1>1. /\ job.req \in Requests /\ Key(job.req) \in Asked /\ message \in Messages
      /\ LaidFor(bucket, job.req.static, job.req.turns)
  BY ReadyWith
<1>2. UpstreamOK(all)
  BY <1>1, UpstreamKeeps DEF SlotsInv
<1>3. \E slot \in all[message] : slot.content = answer[message]
  <2>1. CASE \A s \in upSlots[message] : s.content # answer[message]
    <3>1. all = [upSlots EXCEPT ![message] = @ \cup {UpstreamSlot(bucket, message)}]
      BY <2>1 DEF UpstreamEnsured
    <3>2. upSlots = [m \in Messages |-> upSlots[m]]
      BY DEF SlotsInv, UpstreamOK
    <3>3. message \in DOMAIN upSlots
      BY <1>1, <3>2
    <3>4. UpstreamSlot(bucket, message) \in all[message]
      BY <3>1, <3>3
    <3>5. UpstreamSlot(bucket, message).content = answer[message]
      BY DEF UpstreamSlot
    <3> QED BY <3>4, <3>5
  <2>2. CASE \E s \in upSlots[message] : s.content = answer[message]
    <3>1. all = upSlots
      BY <2>2 DEF UpstreamEnsured
    <3> QED BY <2>2, <3>1
  <2> QED BY <2>1, <2>2
<1> HIDE DEF all
<1>4. PICK slot \in all[message] : slot.content = answer[message]
  BY <1>3
<1>5. LaidSlot(message, Upstream, slot)
  BY <1>1, <1>2, <1>4 DEF UpstreamOK
<1>6. slot.start = bucket.phs[Upstream].start /\ slot.left = SubSeq(bucket.ids, 1, slot.start)
  BY <1>1, <1>5, StillHere
<1>7. slot \in UpstreamResolved(message, all) /\ LeftIsExact(slot)
  BY <1>4, <1>6 DEF UpstreamResolved, LeftIsExact
<1> QED BY <1>7 DEF all

\* Where a message is asked with one static text (requests that leave no slots apart),
\* the KV a generation splices for its turns and for the answer of the agent before is
\* that of their content now, at their place and behind the tokens of the prompt now
\* (resolve_tool_consumer_slot, resolve_llm_branch_slot, _missing_consumer_upstream_slots).
THEOREM SlotsAreCurrent == ASSUME OneStatic PROVE SlotsSpec => []SlotsCurrent
<1>1. SlotsInit => IInv /\ SlotsInv
  BY InitHolds, SlotsBegin DEF SlotsInit
<1>2. IInv /\ SlotsInv /\ [SlotsNext]_allVars => IInv' /\ SlotsInv'
  BY StepOfPrefix, NextKeeps, SlotsStep
<1>3. IInv /\ SlotsInv => SlotsCurrent
  BY TurnsOfInvariant, UpstreamOfInvariant DEF SlotsCurrent
<1> QED BY <1>1, <1>2, <1>3, PTL DEF SlotsSpec

=============================================================================
