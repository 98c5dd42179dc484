--------------------------- MODULE GraphRunProofs ---------------------------
(***************************************************************************)
(* Theorems about GraphRun, for any number of agents, requests and rounds, *)
(* any masks and any teams: the four invariants the runs check.            *)
(*                                                                         *)
(* The graph is built from the masks by functions defined by recursion.    *)
(* What they compute is shown by induction over the numbers up to a bound  *)
(* (Climb), which an induction on the least counterexample gives: the      *)
(* edges kept contain no cycle, so that every pass can go on until it has  *)
(* passed every node.                                                      *)
(***************************************************************************)
EXTENDS GraphRun, SequenceTheorems, FiniteSetTheorems, WellFoundedInduction, TLAPS

-----------------------------------------------------------------------------
(* Induction up to a bound, and functions defined by recursion up to it.   *)

\* What holds of 0, and goes from each number to the next, holds up to n.
LEMMA Climb ==
  ASSUME NEW n \in Nat, NEW T, 0 \in T,
         \A k \in 0 .. n : k \in T /\ k < n => k + 1 \in T
  PROVE  \A k \in 0 .. n : k \in T
<1> DEFINE B == {k \in 0 .. n : k \notin T}
<1> SUFFICES ASSUME B # {} PROVE FALSE
  OBVIOUS
<1>1. B \in SUBSET Nat
  OBVIOUS
<1>2. PICK b \in B : \A y \in B : ~(<<y, b>> \in OpToRel(<, Nat))
  BY <1>1, NatLessThanWellFounded, WFMin
<1>3. \A y \in B : ~(y < b)
  BY <1>1, <1>2 DEF OpToRel
<1>4. b # 0 /\ b \in 0 .. n /\ b \notin T
  OBVIOUS
<1>5. b - 1 \in 0 .. n /\ b - 1 < b /\ b - 1 < n
  BY <1>4
<1>6. b - 1 \in T
  BY <1>3, <1>5
<1>7. (b - 1) + 1 = b
  BY <1>4
<1> QED BY <1>4, <1>5, <1>6, <1>7

\* it is b at 0, and f of k and of it at k - 1 at each k up to n.
IsIteration(it, n, S, b, f) ==
  /\ it \in [0 .. n -> S]
  /\ it[0] = b
  /\ \A k \in 1 .. n : it[k] = f[<<k, it[k - 1]>>]

\* A step can be taken n times.
LEMMA Iterates ==
  ASSUME NEW n \in Nat, NEW S, NEW b \in S, NEW f \in [(1 .. n) \X S -> S]
  PROVE  \E it : IsIteration(it, n, S, b, f)
<1> DEFINE Goes(m, it) == it[0] = b /\ \A k \in 1 .. m : it[k] = f[<<k, it[k - 1]>>]
           T == {m \in 0 .. n : \E it \in [0 .. m -> S] : Goes(m, it)}
<1>1. 0 \in T
  <2> DEFINE one == [k \in 0 .. 0 |-> b]
  <2>1. one \in [0 .. 0 -> S] /\ Goes(0, one)
    OBVIOUS
  <2> HIDE DEF one
  <2>2. \E it \in [0 .. 0 -> S] : Goes(0, it)
    BY <2>1
  <2> HIDE DEF Goes
  <2> QED BY <2>2
<1>2. ASSUME NEW m \in 0 .. n, m \in T, m < n
      PROVE  m + 1 \in T
  <2>1. PICK it \in [0 .. m -> S] : Goes(m, it)
    BY <1>2
  <2> DEFINE next == f[<<m + 1, it[m]>>]
             more == [k \in 0 .. m + 1 |-> IF k = m + 1 THEN next ELSE it[k]]
  <2>2. m \in 0 .. m /\ m + 1 \in 1 .. n
    BY <1>2
  <2>3. next \in S
    BY <2>2
  <2> HIDE DEF next
  <2>4. more \in [0 .. m + 1 -> S]
    BY <2>3
  <2>5. more[0] = b
    BY <2>1
  <2>6. ASSUME NEW k \in 1 .. m + 1
        PROVE  more[k] = f[<<k, more[k - 1]>>]
    <3>1. CASE k = m + 1
      <4>1. more[k] = next /\ k - 1 = m /\ more[k - 1] = it[m]
        BY <3>1
      <4> QED BY <3>1, <4>1 DEF next
    <3>2. CASE k # m + 1
      <4>1. k \in 1 .. m /\ k - 1 \in 0 .. m
        BY <3>2
      <4>2. more[k] = it[k] /\ more[k - 1] = it[k - 1]
        BY <4>1
      <4> QED BY <2>1, <4>1, <4>2
    <3> QED BY <3>1, <3>2
  <2> HIDE DEF more
  <2> QED BY <2>2, <2>4, <2>5, <2>6
<1> HIDE DEF T
<1>3. n \in T
  BY <1>1, <1>2, Climb
<1> QED BY <1>3 DEF T, IsIteration

-----------------------------------------------------------------------------
(* Reachability.                                                           *)

After(edges, found) == found \cup {e[2] : e \in {d \in edges : d[1] \in found}}

\* The successors of nodes are nodes.
LEMMA AfterType ==
  ASSUME NEW edges \in SUBSET (Nodes \X Nodes), NEW found \in SUBSET Nodes
  PROVE  After(edges, found) \in SUBSET Nodes /\ found \subseteq After(edges, found)
BY DEF After

\* Reach takes the successors of what it has found, N times.
LEMMA ReachGrows ==
  ASSUME NEW edges \in SUBSET (Nodes \X Nodes), NEW n \in Nodes
  PROVE  \E grow \in [0 .. N -> SUBSET Nodes] :
            /\ grow[0] = {n} /\ grow[N] = Reach(edges, n)
            /\ \A k \in 1 .. N : grow[k] = After(edges, grow[k - 1])
<1> DEFINE S == SUBSET Nodes
           f == [w \in (1 .. N) \X S |-> After(edges, w[2])]
           Def(grow) == [k \in 0 .. N |->
                           IF k = 0 THEN {n}
                           ELSE LET found == grow[k - 1]
                                IN found \cup {e[2] : e \in {d \in edges : d[1] \in found}}]
           grow == CHOOSE grow : grow = Def(grow)
<1>1. N \in Nat
  BY NAssumption
<1>2. f \in [(1 .. N) \X S -> S]
  BY AfterType
<1>3. {n} \in S
  OBVIOUS
<1>4. \A k \in 1 .. N, s \in S : f[<<k, s>>] = After(edges, s)
  OBVIOUS
<1> HIDE DEF f, S, grow, Def
<1>5. PICK it : IsIteration(it, N, S, {n}, f)
  BY <1>1, <1>2, <1>3, Iterates
<1>6. ASSUME NEW k \in 1 .. N
      PROVE  it[k - 1] \in S /\ it[k] = After(edges, it[k - 1])
  <2>1. k - 1 \in 0 .. N
    BY <1>1
  <2>2. it[k - 1] \in S
    BY <1>5, <2>1 DEF IsIteration
  <2> QED BY <1>4, <1>5, <2>2 DEF IsIteration
<1>7. it = Def(it)
  BY <1>1, <1>5, <1>6 DEF After, Def, IsIteration
<1>8. Reach(edges, n) = grow[N]
  BY DEF Reach, grow, Def
<1>9. grow = Def(grow)
  BY <1>7 DEF grow
<1>10. grow[0] = {n}
  BY <1>1, <1>9 DEF Def
<1>11. ASSUME NEW k \in 1 .. N
       PROVE  grow[k] = After(edges, grow[k - 1])
  <2>1. k \in 0 .. N /\ k # 0
    BY <1>1
  <2>2. grow[k] = grow[k - 1] \cup {e[2] : e \in {d \in edges : d[1] \in grow[k - 1]}}
    BY <1>9, <2>1, Zenon DEF Def
  <2> QED BY <2>2 DEF After
<1>12. \A k \in 0 .. N : grow[k] \in S
  <2> DEFINE T == {k \in 0 .. N : grow[k] \in S}
  <2>1. 0 \in T
    <3>1. 0 \in 0 .. N
      BY <1>1
    <3> QED BY <1>3, <1>10, <3>1, Zenon
  <2>2. ASSUME NEW k \in 0 .. N, k \in T, k < N
        PROVE  k + 1 \in T
    <3>1. k + 1 \in 1 .. N /\ (k + 1) - 1 = k
      BY <1>1, <2>2
    <3>2. grow[k + 1] = After(edges, grow[k])
      BY <1>11, <3>1
    <3>3. grow[k + 1] \in S
      BY <2>2, <3>2, AfterType DEF S
    <3> QED BY <3>1, <3>3
  <2> HIDE DEF T
  <2>3. \A k \in 0 .. N : k \in T
    BY <1>1, <2>1, <2>2, Climb
  <2> QED BY <2>3 DEF T
<1>13. grow \in [0 .. N -> S]
  <2>1. DOMAIN grow = 0 .. N /\ grow = [k \in 0 .. N |-> grow[k]]
    BY <1>9 DEF Def
  <2> QED BY <1>12, <2>1
<1> QED BY <1>8, <1>10, <1>11, <1>13 DEF S

\* There are N nodes; a set of nodes has at most as many, and a larger set has
\* more.
LEMMA NodesCount ==
  /\ IsFiniteSet(Nodes) /\ Cardinality(Nodes) = N
  /\ \A S \in SUBSET Nodes : IsFiniteSet(S) /\ Cardinality(S) \in 0 .. N
  /\ \A S, T \in SUBSET Nodes :
       S \subseteq T => \/ S = T
                        \/ Cardinality(S) < Cardinality(T)
<1>1. N \in Nat /\ N > 0
  BY NAssumption
<1>2. IsFiniteSet(Nodes) /\ Cardinality(Nodes) = N
  BY <1>1, FS_Interval DEF Nodes
<1>3. ASSUME NEW S \in SUBSET Nodes
      PROVE  IsFiniteSet(S) /\ Cardinality(S) \in 0 .. N
  BY <1>1, <1>2, FS_Subset, FS_CardinalityType
<1>4. ASSUME NEW S \in SUBSET Nodes, NEW T \in SUBSET Nodes, S \subseteq T
      PROVE  S = T \/ Cardinality(S) < Cardinality(T)
  <2>1. S \in SUBSET T
    BY <1>4
  <2>2. Cardinality(S) <= Cardinality(T) /\ (Cardinality(T) = Cardinality(S) => T = S)
    BY <1>3, <2>1, FS_Subset
  <2>3. Cardinality(S) \in 0 .. N /\ Cardinality(T) \in 0 .. N
    BY <1>3
  <2> QED BY <1>1, <2>2, <2>3
<1> QED BY <1>2, <1>3, <1>4

\* What is reached from a node are nodes, it among them, with all the
\* successors: N rounds are enough, because a round that finds nothing new is
\* the last that could, and every other finds one node more.
LEMMA ReachCloses ==
  ASSUME NEW edges \in SUBSET (Nodes \X Nodes), NEW n \in Nodes
  PROVE  /\ Reach(edges, n) \in SUBSET Nodes
         /\ n \in Reach(edges, n)
         /\ \A e \in edges : e[1] \in Reach(edges, n) => e[2] \in Reach(edges, n)
<1> PICK grow \in [0 .. N -> SUBSET Nodes] :
           /\ grow[0] = {n} /\ grow[N] = Reach(edges, n)
           /\ \A k \in 1 .. N : grow[k] = After(edges, grow[k - 1])
  BY ReachGrows
<1>1. N \in Nat
  BY NAssumption
<1> DEFINE T == {k \in 0 .. N : /\ n \in grow[k]
                                /\ \/ Cardinality(grow[k]) > k
                                   \/ After(edges, grow[k]) = grow[k]}
<1>2. 0 \in T
  <2>1. Cardinality({n}) = 1
    BY FS_Singleton
  <2>2. 0 \in 0 .. N
    BY <1>1
  <2>3. n \in grow[0] /\ Cardinality(grow[0]) > 0
    BY <2>1
  <2> QED BY <2>2, <2>3
<1>3. ASSUME NEW k \in 0 .. N, k \in T, k < N
      PROVE  k + 1 \in T
  <2>1. k + 1 \in 1 .. N /\ k + 1 \in 0 .. N /\ (k + 1) - 1 = k
    BY <1>1, <1>3
  <2>2. grow[k] \in SUBSET Nodes /\ grow[k + 1] \in SUBSET Nodes
    BY <2>1
  <2>3. grow[k + 1] = After(edges, grow[k])
    BY <2>1
  <2>4. grow[k] \subseteq grow[k + 1]
    BY <2>2, <2>3, AfterType
  <2>5. n \in grow[k + 1]
    BY <1>3, <2>4
  <2>6. CASE After(edges, grow[k]) = grow[k]
    BY <2>1, <2>3, <2>5, <2>6
  <2>7. CASE After(edges, grow[k]) # grow[k]
    <3>1. Cardinality(grow[k]) > k
      BY <1>3, <2>7
    <3>2. Cardinality(grow[k]) < Cardinality(grow[k + 1])
      BY <2>2, <2>3, <2>4, <2>7, NodesCount
    <3>3. Cardinality(grow[k]) \in Nat /\ Cardinality(grow[k + 1]) \in Nat
      BY <1>1, <2>2, NodesCount
    <3>4. Cardinality(grow[k + 1]) > k + 1
      BY <1>1, <3>1, <3>2, <3>3
    <3> QED BY <2>1, <2>5, <3>4
  <2> QED BY <2>6, <2>7
<1>4. N \in T
  <2> HIDE DEF T
  <2>1. \A k \in 0 .. N : k \in T
    BY <1>1, <1>2, <1>3, Climb
  <2> QED BY <1>1, <2>1
<1>5. grow[N] \in SUBSET Nodes
  BY <1>1
<1>6. Cardinality(grow[N]) \in 0 .. N
  BY <1>5, NodesCount
<1>7. n \in grow[N] /\ After(edges, grow[N]) = grow[N]
  BY <1>1, <1>4, <1>6
<1>8. \A e \in edges : e[1] \in grow[N] => e[2] \in grow[N]
  BY <1>7 DEF After
<1> QED BY <1>5, <1>7, <1>8

-----------------------------------------------------------------------------
(* The edges the masks give contain no cycle.                              *)

\* Every set of nodes has a first one: a node that none of them precedes.
Acyclic(edges) ==
  \A S \in SUBSET Nodes :
    S # {} => \E m \in S : \A p \in S : <<p, m>> \notin edges

\* An edge whose out-node is not reached from its in-node closes no cycle.
LEMMA EdgeKeepsAcyclic ==
  ASSUME NEW edges \in SUBSET (Nodes \X Nodes), Acyclic(edges),
         NEW o \in Nodes, NEW i \in Nodes, ~CheckCycle(edges, i, o)
  PROVE  Acyclic(edges \cup {<<o, i>>})
<1> DEFINE R == Reach(edges, i)
<1>1. /\ R \in SUBSET Nodes /\ i \in R /\ o \notin R
      /\ \A e \in edges : e[1] \in R => e[2] \in R
  BY ReachCloses DEF CheckCycle
<1> HIDE DEF R
<1> SUFFICES ASSUME NEW S \in SUBSET Nodes, S # {}
             PROVE  \E m \in S : \A p \in S : <<p, m>> \notin edges \cup {<<o, i>>}
  BY DEF Acyclic
<1>2. CASE S \subseteq R
  <2>1. PICK m \in S : \A p \in S : <<p, m>> \notin edges
    BY DEF Acyclic
  <2>2. \A p \in S : <<p, m>> # <<o, i>>
    BY <1>1, <1>2
  <2> QED BY <2>1, <2>2
<1>3. CASE ~(S \subseteq R)
  <2>1. S \ R \in SUBSET Nodes /\ S \ R # {}
    BY <1>3
  <2>2. PICK m \in S \ R : \A p \in S \ R : <<p, m>> \notin edges
    BY <2>1 DEF Acyclic
  <2>3. ASSUME NEW p \in S, <<p, m>> \in edges
        PROVE  FALSE
    <3>1. p \in R
      BY <2>2, <2>3
    <3>2. <<p, m>>[1] = p /\ <<p, m>>[2] = m
      OBVIOUS
    <3>3. m \in R
      BY <1>1, <2>3, <3>1, <3>2
    <3> QED BY <3>3
  <2>4. \A p \in S : <<p, m>> # <<o, i>>
    BY <1>1
  <2> QED BY <2>3, <2>4
<1> QED BY <1>2, <1>3

\* The pairs that are tried are pairs of nodes.
LEMMA PotentialType ==
  ASSUME NEW k \in 1 .. N * N
  PROVE  Potential(k) \in Nodes \X Nodes /\ Potential(k) = <<Potential(k)[1], Potential(k)[2]>>
<1>1. N \in Nat /\ N > 0 /\ N * N \in Nat
  BY NAssumption
<1> DEFINE q == (k - 1) \div N
           m == (k - 1) % N
<1>2. k - 1 \in Nat /\ k - 1 < N * N
  BY <1>1
<1>3. q \in Int /\ m \in 0 .. N - 1 /\ k - 1 = N * q + m
  BY <1>1, <1>2
<1> HIDE DEF q, m
<1>4. q >= 0
  <2>1. ASSUME q < 0 PROVE FALSE
    <3>1. N * q <= N * (-1)
      BY <1>1, <1>3, <2>1
    <3> QED BY <1>1, <1>2, <1>3, <3>1
  <2> QED BY <1>3, <2>1
<1>5. q < N
  <2>1. ASSUME q >= N PROVE FALSE
    <3>1. N * q >= N * N
      BY <1>1, <1>3, <2>1
    <3> QED BY <1>1, <1>2, <1>3, <3>1
  <2> QED BY <1>1, <1>3, <2>1
<1>6. q + 1 \in Nodes /\ m + 1 \in Nodes
  BY <1>1, <1>3, <1>4, <1>5 DEF Nodes
<1> QED BY <1>6 DEF Potential, q, m

\* Taking an edge unless it closes a cycle.
Take(mask, k, before) ==
  LET e == Potential(k)
  IN IF e \in mask /\ ~CheckCycle(before, e[2], e[1])
       THEN before \cup {e}
       ELSE before

\* The edges kept after any number of pairs are acyclic.
LEMMA TakeKeepsAcyclic ==
  ASSUME NEW mask, NEW k \in 1 .. N * N,
         NEW before \in SUBSET (Nodes \X Nodes)
  PROVE  /\ Take(mask, k, before) \in SUBSET (Nodes \X Nodes)
         /\ Acyclic(before) => Acyclic(Take(mask, k, before))
<1> DEFINE e == Potential(k)
<1>1. e \in Nodes \X Nodes /\ e = <<e[1], e[2]>>
  BY PotentialType
<1>2. e[1] \in Nodes /\ e[2] \in Nodes
  BY <1>1
<1>3. Take(mask, k, before) = IF e \in mask /\ ~CheckCycle(before, e[2], e[1])
                                THEN before \cup {e} ELSE before
  BY DEF Take
<1> HIDE DEF e
<1>4. ASSUME Acyclic(before), ~CheckCycle(before, e[2], e[1])
      PROVE  Acyclic(before \cup {e})
  BY <1>1, <1>2, <1>4, EdgeKeepsAcyclic
<1> QED BY <1>1, <1>3, <1>4

\* construct_spatial_connection keeps edges between nodes that contain no cycle.
THEOREM ConstructAcyclic ==
  ASSUME NEW mask
  PROVE  ConstructSpatial(mask) \in SUBSET (Nodes \X Nodes) /\ Acyclic(ConstructSpatial(mask))
<1> DEFINE S == SUBSET (Nodes \X Nodes)
           M == N * N
           f == [w \in (1 .. M) \X S |-> Take(mask, w[1], w[2])]
           Def(after) == [k \in 0 .. N * N |->
                            IF k = 0 THEN {}
                            ELSE LET e == Potential(k)
                                     before == after[k - 1]
                                 IN IF e \in mask /\ ~CheckCycle(before, e[2], e[1])
                                      THEN before \cup {e}
                                      ELSE before]
           after == CHOOSE after : after = Def(after)
<1>1. M \in Nat
  BY NAssumption
<1>2. f \in [(1 .. M) \X S -> S]
  BY TakeKeepsAcyclic
<1>3. {} \in S
  OBVIOUS
<1>4. \A k \in 1 .. M, s \in S : f[<<k, s>>] = Take(mask, k, s)
  OBVIOUS
<1>5. ConstructSpatial(mask) = after[M]
  BY DEF ConstructSpatial
<1>6. \A h : Def(h) = [k \in 0 .. M |-> IF k = 0 THEN {} ELSE Take(mask, k, h[k - 1])]
  BY DEF Take
<1> HIDE DEF f, S, M, Def, after
<1>7. PICK it : IsIteration(it, M, S, {}, f)
  BY <1>1, <1>2, <1>3, Iterates
<1>8. ASSUME NEW k \in 1 .. M
      PROVE  it[k] = Take(mask, k, it[k - 1])
  <2>1. k - 1 \in 0 .. M
    BY <1>1
  <2>2. it[k - 1] \in S
    BY <1>7, <2>1 DEF IsIteration
  <2> QED BY <1>4, <1>7, <2>2 DEF IsIteration
<1>9. it = Def(it)
  <2>1. it = [k \in 0 .. M |-> IF k = 0 THEN {} ELSE Take(mask, k, it[k - 1])]
    BY <1>1, <1>7, <1>8 DEF IsIteration
  <2> QED BY <1>6, <2>1
<1>10. after = Def(after)
  BY <1>9 DEF after
<1>11. after = [k \in 0 .. M |-> IF k = 0 THEN {} ELSE Take(mask, k, after[k - 1])]
  BY <1>6, <1>10
<1> DEFINE T == {k \in 0 .. M : after[k] \in S /\ Acyclic(after[k])}
<1>12. 0 \in T
  <2>1. 0 \in 0 .. M
    BY <1>1
  <2>2. after[0] = {}
    BY <1>11, <2>1
  <2>3. Acyclic({})
    BY DEF Acyclic
  <2> QED BY <1>3, <2>1, <2>2, <2>3
<1>13. ASSUME NEW k \in 0 .. M, k \in T, k < M
       PROVE  k + 1 \in T
  <2>1. k + 1 \in 1 .. M /\ k + 1 \in 0 .. M /\ k + 1 # 0 /\ (k + 1) - 1 = k
    BY <1>1, <1>13
  <2>2. after[k + 1] = Take(mask, k + 1, after[k])
    BY <1>11, <2>1
  <2>3. after[k] \in SUBSET (Nodes \X Nodes) /\ Acyclic(after[k])
    BY <1>13 DEF S
  <2>4. k + 1 \in 1 .. N * N
    BY <2>1 DEF M
  <2>5. after[k + 1] \in S /\ Acyclic(after[k + 1])
    BY <2>2, <2>3, <2>4, TakeKeepsAcyclic DEF S
  <2> QED BY <2>1, <2>5
<1>14. M \in T
  <2> HIDE DEF T
  <2>1. \A k \in 0 .. M : k \in T
    BY <1>1, <1>12, <1>13, Climb
  <2> QED BY <1>1, <2>1
<1> QED BY <1>5, <1>14 DEF S

-----------------------------------------------------------------------------
(* The queue a pass opens with.                                            *)

Members(seq) == {seq[i] : i \in 1 .. Len(seq)}
Once(seq) == \A i, j \in 1 .. Len(seq) : seq[i] = seq[j] => i = j

\* A sequence without repetitions lists a set.
Lists(seq, S) ==
  /\ seq \in Seq(S)
  /\ S = Members(seq)
  /\ Once(seq)

\* Appending a new member lists one member more.
LEMMA AppendLists ==
  ASSUME NEW S, NEW seq, Lists(seq, S), NEW x, x \notin S
  PROVE  Lists(Append(seq, x), S \cup {x})
<1> DEFINE more == Append(seq, x)
           U == S \cup {x}
<1>1. seq \in Seq(U) /\ Len(seq) \in Nat
  BY SeqMonotonic, LenProperties DEF Lists, Members, Once
<1>2. /\ more \in Seq(U) /\ Len(more) = Len(seq) + 1
      /\ \A i \in 1 .. Len(seq) : more[i] = seq[i]
      /\ more[Len(seq) + 1] = x
  BY <1>1, AppendProperties
<1> HIDE DEF more
<1>3. \A i \in 1 .. Len(more) : i = Len(seq) + 1 \/ i \in 1 .. Len(seq)
  BY <1>1, <1>2
<1>4. \A i \in 1 .. Len(seq) : seq[i] \in S /\ seq[i] # x /\ i \in 1 .. Len(more)
  BY <1>1, <1>2 DEF Lists, Members, Once
<1>5. U = {more[i] : i \in 1 .. Len(more)}
  <2>1. ASSUME NEW i \in 1 .. Len(more) PROVE more[i] \in U
    BY <1>2, <1>3, <1>4
  <2>2. ASSUME NEW u \in U PROVE \E i \in 1 .. Len(more) : u = more[i]
    <3>1. CASE u = x
      <4>1. Len(seq) + 1 \in 1 .. Len(more)
        BY <1>1, <1>2
      <4> QED BY <1>2, <3>1, <4>1
    <3>2. CASE u \in S
      <4>1. PICK i \in 1 .. Len(seq) : u = seq[i]
        BY <3>2 DEF Lists, Members, Once
      <4> QED BY <1>2, <1>4, <4>1
    <3> QED BY <3>1, <3>2
  <2> HIDE DEF U
  <2> QED BY <2>1, <2>2
<1>6. ASSUME NEW i \in 1 .. Len(more), NEW j \in 1 .. Len(more), more[i] = more[j]
      PROVE  i = j
  BY <1>2, <1>3, <1>4, <1>6 DEF Lists, Members, Once
<1> QED BY <1>2, <1>5, <1>6 DEF Lists, Members, Once, more

\* InOrder lists a set of nodes.
LEMMA InOrderLists ==
  ASSUME NEW S \in SUBSET Nodes
  PROVE  Lists(InOrder(S), S)
<1> DEFINE Q == Seq(Nodes)
           Put(k, seq) == IF k \in S THEN Append(seq, k) ELSE seq
           f == [w \in (1 .. N) \X Q |-> Put(w[1], w[2])]
           Def(upTo) == [k \in 0 .. N |->
                           IF k = 0 THEN <<>>
                           ELSE IF k \in S THEN Append(upTo[k - 1], k)
                           ELSE upTo[k - 1]]
           upTo == CHOOSE upTo : upTo = Def(upTo)
<1>1. N \in Nat
  BY NAssumption
<1>2. f \in [(1 .. N) \X Q -> Q]
  <2>1. ASSUME NEW k \in 1 .. N, NEW seq \in Q
        PROVE  Put(k, seq) \in Q
    BY AppendProperties
  <2> HIDE DEF Put, Q
  <2> QED BY <2>1
<1>3. <<>> \in Q
  OBVIOUS
<1>4. \A k \in 1 .. N, s \in Q : f[<<k, s>>] = Put(k, s)
  <2> HIDE DEF Put, Q
  <2> QED OBVIOUS
<1>5. InOrder(S) = upTo[N]
  BY DEF InOrder
<1>6. \A h : Def(h) = [k \in 0 .. N |-> IF k = 0 THEN <<>> ELSE Put(k, h[k - 1])]
  OBVIOUS
<1> HIDE DEF f, Q, Def, upTo, Put
<1>7. PICK it : IsIteration(it, N, Q, <<>>, f)
  BY <1>1, <1>2, <1>3, Iterates
<1>8. ASSUME NEW k \in 1 .. N
      PROVE  it[k] = Put(k, it[k - 1])
  <2>1. k - 1 \in 0 .. N
    BY <1>1
  <2>2. it[k - 1] \in Q
    BY <1>7, <2>1 DEF IsIteration
  <2> QED BY <1>4, <1>7, <2>2 DEF IsIteration
<1>9. it = Def(it)
  <2>1. it = [k \in 0 .. N |-> IF k = 0 THEN <<>> ELSE Put(k, it[k - 1])]
    BY <1>1, <1>7, <1>8 DEF IsIteration
  <2> QED BY <1>6, <2>1
<1>10. upTo = Def(upTo)
  BY <1>9 DEF upTo
<1>11. upTo = [k \in 0 .. N |-> IF k = 0 THEN <<>> ELSE Put(k, upTo[k - 1])]
  BY <1>6, <1>10
<1> DEFINE T == {k \in 0 .. N : Lists(upTo[k], S \cap (1 .. k))}
<1>12. 0 \in T
  <2>1. 0 \in 0 .. N
    BY <1>1
  <2>2. upTo[0] = <<>>
    BY <1>11, <2>1
  <2>3. Lists(<<>>, {})
    BY EmptySeq DEF Lists, Members, Once
  <2>4. S \cap (1 .. 0) = {}
    OBVIOUS
  <2> QED BY <2>1, <2>2, <2>3, <2>4
<1>13. ASSUME NEW k \in 0 .. N, k \in T, k < N
       PROVE  k + 1 \in T
  <2>1. k + 1 \in 1 .. N /\ k + 1 \in 0 .. N /\ k + 1 # 0 /\ (k + 1) - 1 = k
    BY <1>1, <1>13
  <2>2. upTo[k + 1] = Put(k + 1, upTo[k])
    BY <1>11, <2>1
  <2>3. Lists(upTo[k], S \cap (1 .. k))
    BY <1>13
  <2>4. CASE k + 1 \in S
    <3>1. S \cap (1 .. k + 1) = (S \cap (1 .. k)) \cup {k + 1}
      BY <1>1, <2>4
    <3>2. k + 1 \notin S \cap (1 .. k)
      BY <1>1
    <3>3. upTo[k + 1] = Append(upTo[k], k + 1)
      BY <2>2, <2>4 DEF Put
    <3>4. Lists(upTo[k + 1], (S \cap (1 .. k)) \cup {k + 1})
      BY <2>3, <3>2, <3>3, AppendLists
    <3> QED BY <2>1, <3>1, <3>4
  <2>5. CASE k + 1 \notin S
    <3>1. S \cap (1 .. k + 1) = S \cap (1 .. k)
      BY <1>1, <2>5
    <3> QED BY <2>1, <2>2, <2>3, <2>5, <3>1 DEF Put
  <2> QED BY <2>4, <2>5
<1>14. N \in T
  <2> HIDE DEF T
  <2>1. \A k \in 0 .. N : k \in T
    BY <1>1, <1>12, <1>13, Climb
  <2> QED BY <1>1, <2>1
<1>15. S \cap (1 .. N) = S
  BY DEF Nodes
<1> QED BY <1>5, <1>14, <1>15

\* What is at the head of a sequence without repetitions is not in the rest.
LEMMA HeadOnce ==
  ASSUME NEW S, NEW q \in Seq(S), q # <<>>, Once(q)
  PROVE  /\ Head(q) \in S /\ Tail(q) \in Seq(S) /\ Once(Tail(q))
         /\ Members(q) = Members(Tail(q)) \cup {Head(q)}
         /\ Head(q) \notin Members(Tail(q))
<1> DEFINE t == Tail(q)
<1>1. /\ Head(q) \in S /\ t \in Seq(S) /\ Len(t) = Len(q) - 1
      /\ \A i \in 1 .. Len(t) : t[i] = q[i + 1]
  BY HeadTailProperties
<1>2. Len(q) \in Nat /\ Len(q) > 0 /\ Len(t) \in Nat
  BY <1>1, EmptySeq, LenProperties
<1>3. Head(q) = q[1]
  OBVIOUS
<1> HIDE DEF t
<1>4. \A i \in 1 .. Len(t) : i + 1 \in 1 .. Len(q) /\ i + 1 # 1
  BY <1>1, <1>2
<1>5. \A i \in 1 .. Len(q) : i = 1 \/ (i - 1 \in 1 .. Len(t) /\ t[i - 1] = q[i])
  BY <1>1, <1>2
<1>6. 1 \in 1 .. Len(q)
  BY <1>2
<1>7. ASSUME NEW i \in 1 .. Len(t), NEW j \in 1 .. Len(t), t[i] = t[j]
      PROVE  i = j
  <2>1. i + 1 = j + 1
    BY <1>1, <1>4, <1>7 DEF Once
  <2> QED BY <2>1
<1>8. Members(q) = Members(t) \cup {q[1]}
  <2>1. ASSUME NEW x \in Members(q) PROVE x \in Members(t) \cup {q[1]}
    BY <1>5 DEF Members
  <2>2. ASSUME NEW x \in Members(t) PROVE x \in Members(q)
    BY <1>1, <1>4 DEF Members
  <2>3. q[1] \in Members(q)
    BY <1>6 DEF Members
  <2> QED BY <2>1, <2>2, <2>3
<1>9. q[1] \notin Members(t)
  BY <1>1, <1>4, <1>6 DEF Members, Once
<1> QED BY <1>1, <1>3, <1>7, <1>8, <1>9 DEF Once, t

\* Two sequences without repetitions and without a common member make one.
LEMMA ConcatOnce ==
  ASSUME NEW S, NEW a \in Seq(S), NEW b \in Seq(S), Once(a), Once(b),
         \A x \in Members(a) : x \notin Members(b)
  PROVE  /\ a \o b \in Seq(S) /\ Once(a \o b)
         /\ Members(a \o b) = Members(a) \cup Members(b)
<1> DEFINE c == a \o b
<1>1. /\ c \in Seq(S) /\ Len(c) = Len(a) + Len(b)
      /\ \A i \in 1 .. Len(a) + Len(b) :
           c[i] = IF i <= Len(a) THEN a[i] ELSE b[i - Len(a)]
  BY ConcatProperties
<1>2. Len(a) \in Nat /\ Len(b) \in Nat
  BY LenProperties
<1> HIDE DEF c
<1>3. ASSUME NEW i \in 1 .. Len(c)
      PROVE  \/ i \in 1 .. Len(a) /\ c[i] = a[i] /\ c[i] \in Members(a)
             \/ /\ i \notin 1 .. Len(a)
                /\ i - Len(a) \in 1 .. Len(b) /\ c[i] = b[i - Len(a)] /\ c[i] \in Members(b)
  BY <1>1, <1>2 DEF Members
<1>4. ASSUME NEW i \in 1 .. Len(a) PROVE i \in 1 .. Len(c) /\ c[i] = a[i]
  BY <1>1, <1>2
<1>5. ASSUME NEW i \in 1 .. Len(b)
      PROVE  i + Len(a) \in 1 .. Len(c) /\ c[i + Len(a)] = b[i]
  <2>1. i + Len(a) \in 1 .. Len(a) + Len(b) /\ ~(i + Len(a) <= Len(a)) /\ (i + Len(a)) - Len(a) = i
    BY <1>2
  <2> QED BY <1>1, <2>1
<1>6. Members(c) = Members(a) \cup Members(b)
  <2>1. ASSUME NEW x \in Members(c) PROVE x \in Members(a) \cup Members(b)
    BY <1>3 DEF Members
  <2>2. ASSUME NEW x \in Members(a) PROVE x \in Members(c)
    BY <1>4 DEF Members
  <2>3. ASSUME NEW x \in Members(b) PROVE x \in Members(c)
    BY <1>5 DEF Members
  <2> QED BY <2>1, <2>2, <2>3
<1>7. ASSUME NEW i \in 1 .. Len(c), NEW j \in 1 .. Len(c), c[i] = c[j]
      PROVE  i = j
  <2>1. CASE i \in 1 .. Len(a) /\ j \in 1 .. Len(a)
    BY <1>3, <1>7, <2>1 DEF Once
  <2>2. CASE i \notin 1 .. Len(a) /\ j \notin 1 .. Len(a)
    <3>1. i - Len(a) = j - Len(a)
      BY <1>3, <1>7, <2>2 DEF Once
    <3> QED BY <1>2, <3>1
  <2>3. CASE i \in 1 .. Len(a) /\ j \notin 1 .. Len(a)
    BY <1>3, <1>7, <2>3
  <2>4. CASE i \notin 1 .. Len(a) /\ j \in 1 .. Len(a)
    BY <1>3, <1>7, <2>4
  <2> QED BY <2>1, <2>2, <2>3, <2>4
<1>8. c \in Seq(S) /\ Once(c)
  BY <1>1, <1>7 DEF Once
<1> QED BY <1>6, <1>8 DEF c

\* A sequence of nodes without repetitions is no longer than there are nodes.
LEMMA OnceLength ==
  ASSUME NEW q \in Seq(Nodes), Once(q)
  PROVE  Len(q) <= N
<1>1. Len(q) \in Nat /\ q \in [1 .. Len(q) -> Nodes]
  BY LenProperties
<1>2. IsFiniteSet(1 .. Len(q)) /\ Cardinality(1 .. Len(q)) = Len(q)
  BY <1>1, FS_Interval
<1>3. SUFFICES ASSUME Len(q) > N PROVE FALSE
  BY <1>1, NAssumption
<1>4. Cardinality(Nodes) < Cardinality(1 .. Len(q)) /\ IsFiniteSet(Nodes)
  BY <1>2, <1>3, NodesCount
<1>5. \E x, y \in 1 .. Len(q) : x # y /\ q[x] = q[y]
  BY <1>1, <1>2, <1>4, FS_PigeonHole
<1> QED BY <1>5 DEF Once

-----------------------------------------------------------------------------
(* The inductive invariant.                                                *)

Rec ==
  [phase : Phases, round : 0 .. NumRounds - 1,
   spatial : SUBSET (Nodes \X All), temporal : SUBSET (Nodes \X Nodes),
   indeg : [Nodes -> 0 .. N], queue : Seq(All), node : {0} \cup All,
   tries : 0 .. MaxTries - 1,
   out : [All -> Outputs], mem : [All -> Outputs],
   seen : [spatial : SUBSET (Nodes \X Outputs), temporal : SUBSET (Nodes \X Outputs)],
   ran : Seq(All)]

\* The nodes a pass has behind it: nothing precedes them any more, and they
\* are neither queued nor running.
Passed(rec) ==
  {m \in Nodes : rec.indeg[m] = 0 /\ m \notin Members(rec.queue) /\ m # rec.node}

Ordered(edges, ran) ==
  \A i \in 1 .. Len(ran) : Predecessors(edges, ran[i]) \subseteq {ran[j] : j \in 1 .. i - 1}

\* A pass over the nodes: the in-degree of a node counts its predecessors that
\* have not been passed, and the queue holds nodes without any.
PassSound(rec, edges) ==
  rec.phase \in {"init", "round"} =>
    /\ rec.spatial = edges
    /\ Once(rec.queue)
    /\ \A m \in Members(rec.queue) : m \in Nodes /\ rec.indeg[m] = 0 /\ m # rec.node
    /\ rec.node # 0 => rec.node \in Nodes /\ rec.indeg[rec.node] = 0
    /\ \A m \in Nodes : rec.indeg[m] = Cardinality(Predecessors(edges, m) \ Passed(rec))

\* In a round, the nodes that ran are those passed and the one that runs.
RoundSound(rec, edges) ==
  rec.phase = "round" =>
    /\ Lists(rec.ran, Passed(rec) \cup ({rec.node} \ {0}))
    /\ Ordered(edges, rec.ran)

\* The decision node is alone in its queue; before it every node has run.
DecisionSound(rec, edges, hasDecision) ==
  rec.phase \in {"initDecision", "decision"} =>
    /\ hasDecision
    /\ rec.spatial = ConnectDecision(edges)
    /\ \/ rec.queue = <<Decision>> /\ rec.node = 0
       \/ rec.queue = <<>> /\ rec.node \in {0, Decision}
    /\ rec.phase = "decision" =>
         /\ Lists(rec.ran, IF rec.queue = <<>> THEN All ELSE Nodes)
         /\ Ordered(rec.spatial, rec.ran)

RestSound(rec) ==
  rec.phase \in {"idle", "done", "failed"} => rec.queue = <<>> /\ rec.node = 0

\* Node p has answered in this round, unless run has given it up.
Heard(rec, p, how) == rec.out[p] = rec.round \/ (how = "run" /\ rec.out[p] = Never)

\* What a node remembers in a round is its answer of the round before.
Recalled(mem, round, p, how) ==
  IF round = 0 THEN mem[p] = Never
               ELSE mem[p] = round - 1 \/ (how = "run" /\ mem[p] = Never)

OutputsSound(rec, how) ==
  /\ rec.phase \in {"idle", "init", "initDecision"} => rec.round = 0
  /\ rec.round = 0 => rec.temporal = {}
  /\ rec.phase \in {"idle", "init", "initDecision", "round"} =>
       \A p \in Nodes : Recalled(rec.mem, rec.round, p, how)
  /\ rec.phase = "round" => \A p \in Passed(rec) : Heard(rec, p, how)
  /\ rec.phase = "decision" => \A p \in Nodes : Heard(rec, p, how)

\* InputsCurrent of one request.
InputsSound(rec, how) ==
  rec.phase \in {"round", "decision"} /\ rec.node # 0 =>
    LET spatial == Predecessors(rec.spatial, rec.node) \X {rec.round}
        temporal == Predecessors(rec.temporal, rec.node) \X {rec.round - 1}
    IN /\ rec.seen.spatial \subseteq spatial
       /\ rec.seen.temporal \subseteq temporal
       /\ how # "run" => rec.seen = [spatial |-> spatial, temporal |-> temporal]

\* A node that runs has no output yet.
RunningSound(rec) == rec.node # 0 => rec.out[rec.node] = Never

Sound(rec, edges, how, hasDecision) ==
  /\ rec \in Rec
  /\ PassSound(rec, edges)
  /\ RoundSound(rec, edges)
  /\ DecisionSound(rec, edges, hasDecision)
  /\ RestSound(rec)
  /\ OutputsSound(rec, how)
  /\ InputsSound(rec, how)
  /\ RunningSound(rec)

-----------------------------------------------------------------------------
(* A pass over the nodes.                                                  *)

\* The numbers the state is made of.
LEMMA Numbers ==
  /\ N \in Nat /\ N > 0 /\ NumRounds \in Nat /\ NumRounds > 0
  /\ MaxTries \in Nat /\ MaxTries > 0
  /\ Nodes \subseteq All /\ Decision \in All /\ Decision \notin Nodes
  /\ \A m \in All : m \in Nodes \/ m = Decision
  /\ 0 \notin All /\ Never \in Outputs /\ Never \notin Nat
  /\ 0 .. NumRounds - 1 \subseteq Outputs /\ 0 \in 0 .. NumRounds - 1
  /\ 0 \in 0 .. MaxTries - 1
BY NAssumption, RoundsAssumption, TriesAssumption DEF Nodes, All, Decision, Outputs, Never

\* When nothing is queued and nothing runs, every node has been passed.
LEMMA PassComplete ==
  ASSUME NEW edges \in SUBSET (Nodes \X Nodes), Acyclic(edges),
         NEW rec \in Rec, rec.phase \in {"init", "round"}, PassSound(rec, edges),
         rec.node = 0, rec.queue = <<>>
  PROVE  Passed(rec) = Nodes
<1> DEFINE S == Nodes \ Passed(rec)
<1> SUFFICES ASSUME S # {} PROVE FALSE
  BY DEF Passed
<1>1. PICK m \in S : \A p \in S : <<p, m>> \notin edges
  BY DEF Acyclic
<1>2. Predecessors(edges, m) \ Passed(rec) = {}
  BY <1>1 DEF Predecessors
<1>3. rec.indeg[m] = 0
  BY <1>2, FS_EmptySet DEF PassSound
<1>4. m \notin Members(rec.queue)
  BY EmptySeq DEF Members
<1>5. m # rec.node
  BY Numbers
<1> QED BY <1>1, <1>3, <1>4, <1>5 DEF Passed

\* The node at the head of the queue has had all its predecessors passed.
LEMMA TakenPass ==
  ASSUME NEW edges \in SUBSET (Nodes \X Nodes), NEW rec \in Rec, NEW taken \in Rec,
         rec.phase \in {"init", "round"}, PassSound(rec, edges),
         rec.node = 0, rec.queue # <<>>,
         taken.phase = rec.phase, taken.spatial = rec.spatial, taken.indeg = rec.indeg,
         taken.queue = Tail(rec.queue), taken.node = Head(rec.queue)
  PROVE  /\ PassSound(taken, edges)
         /\ taken.node \in Nodes
         /\ taken.node \notin Passed(rec)
         /\ Passed(taken) = Passed(rec)
         /\ Predecessors(edges, taken.node) \subseteq Passed(rec)
<1> DEFINE n == Head(rec.queue)
<1>1. rec.queue \in Seq(All) /\ Once(rec.queue)
  BY DEF Rec, PassSound
<1>2. /\ n \in All /\ Once(Tail(rec.queue))
      /\ Members(rec.queue) = Members(Tail(rec.queue)) \cup {n}
      /\ n \notin Members(Tail(rec.queue))
  BY <1>1, HeadOnce
<1> HIDE DEF n
<1>3. n \in Nodes /\ rec.indeg[n] = 0 /\ n # 0
  BY <1>2, Numbers DEF PassSound
<1>4. Passed(taken) = Passed(rec)
  BY <1>2, <1>3, Numbers DEF Passed, n
<1>5. n \notin Passed(rec)
  BY <1>2 DEF Passed
<1>6. Predecessors(edges, n) \subseteq Passed(rec)
  <2> DEFINE L == Predecessors(edges, n) \ Passed(rec)
  <2>1. L \in SUBSET Nodes
    BY DEF Predecessors
  <2>2. Cardinality(L) = 0
    BY <1>3 DEF PassSound
  <2>3. IsFiniteSet(L)
    BY <2>1, NodesCount
  <2> HIDE DEF L
  <2>4. L = {}
    BY <2>2, <2>3, FS_EmptySet
  <2> QED BY <2>4 DEF L
<1>7. PassSound(taken, edges)
  <2>1. taken.node = n /\ taken.queue = Tail(rec.queue)
    BY DEF n
  <2>2. \A m \in Members(taken.queue) : m \in Nodes /\ rec.indeg[m] = 0 /\ m # n
    BY <1>2, <2>1 DEF PassSound
  <2>3. \A m \in Nodes : taken.indeg[m] = Cardinality(Predecessors(edges, m) \ Passed(taken))
    BY <1>4 DEF PassSound
  <2> QED BY <1>2, <1>3, <2>1, <2>2, <2>3 DEF PassSound
<1> QED BY <1>3, <1>4, <1>5, <1>6, <1>7 DEF n

\* When a node is done, it has been passed, and its successors without other
\* predecessors are queued.
LEMMA AfterPass ==
  ASSUME NEW edges \in SUBSET (Nodes \X Nodes), NEW rec \in Rec,
         rec.phase \in {"init", "round"}, PassSound(rec, edges), rec.node # 0
  PROVE  LET after == AfterNode(rec, rec.node)
         IN /\ after.indeg \in [Nodes -> 0 .. N] /\ after.queue \in Seq(All)
            /\ PassSound(after, edges)
            /\ Passed(after) = Passed(rec) \cup {rec.node}
<1> DEFINE n == rec.node
           after == AfterNode(rec, n)
           P(m) == Predecessors(edges, m)
           succ == {m \in Nodes : <<n, m>> \in rec.spatial}
           indeg == [m \in Nodes |-> IF m \in succ THEN rec.indeg[m] - 1 ELSE rec.indeg[m]]
           free == {m \in succ : indeg[m] = 0}
<1>1. /\ n \in Nodes /\ rec.indeg[n] = 0 /\ rec.spatial = edges /\ n # 0
      /\ rec.indeg \in [Nodes -> 0 .. N] /\ rec.queue \in Seq(All) /\ Once(rec.queue)
      /\ \A m \in Members(rec.queue) : m \in Nodes /\ rec.indeg[m] = 0 /\ m # n
  BY DEF PassSound, Rec
<1>2. /\ after.phase = rec.phase /\ after.spatial = rec.spatial /\ after.node = 0
      /\ after.indeg = indeg /\ after.queue = rec.queue \o InOrder(free)
  BY DEF AfterNode, Rec
<1> HIDE DEF after
<1>3. n \notin Passed(rec)
  BY DEF Passed
<1>4. \A m \in Nodes : rec.indeg[m] = Cardinality(P(m) \ Passed(rec))
  BY DEF PassSound
<1>5. ASSUME NEW m \in Nodes
      PROVE  indeg[m] = Cardinality(P(m) \ (Passed(rec) \cup {n})) /\ indeg[m] \in 0 .. N
  <2> DEFINE L == P(m) \ Passed(rec)
             M == P(m) \ (Passed(rec) \cup {n})
  <2>1. IsFiniteSet(L) /\ Cardinality(M) \in 0 .. N
    <3>1. L \in SUBSET Nodes /\ M \in SUBSET Nodes
      BY DEF Predecessors
    <3> QED BY <3>1, NodesCount
  <2>2. M = L \ {n}
    OBVIOUS
  <2>3. n \in L <=> m \in succ
    BY <1>1, <1>3 DEF Predecessors
  <2>4. rec.indeg[m] = Cardinality(L)
    BY <1>4
  <2>5. indeg[m] = IF m \in succ THEN rec.indeg[m] - 1 ELSE rec.indeg[m]
    OBVIOUS
  <2> HIDE DEF L, M, indeg
  <2>6. Cardinality(M) = IF n \in L THEN Cardinality(L) - 1 ELSE Cardinality(L)
    BY <2>1, <2>2, FS_RemoveElement
  <2>7. indeg[m] = Cardinality(M)
    BY <2>3, <2>4, <2>5, <2>6
  <2> QED BY <2>1, <2>7 DEF M
<1>6. ASSUME NEW m \in succ
      PROVE  rec.indeg[m] # 0
  <2>1. m \in Nodes /\ indeg[m] = rec.indeg[m] - 1
    OBVIOUS
  <2>2. indeg[m] \in 0 .. N
    BY <1>5, <2>1
  <2> HIDE DEF indeg
  <2> QED BY <2>1, <2>2, Numbers
<1>7. free \in SUBSET Nodes /\ \A m \in free : indeg[m] = 0 /\ rec.indeg[m] # 0
  BY <1>6
<1>8. Lists(InOrder(free), free)
  BY <1>7, InOrderLists
<1>9. \A m \in Nodes : indeg[m] = 0 <=> rec.indeg[m] = 0 \/ m \in free
  BY <1>6
<1>10. indeg \in [Nodes -> 0 .. N]
  BY <1>5
<1> HIDE DEF indeg, free, succ
<1>11. /\ after.queue \in Seq(All) /\ Once(after.queue)
       /\ Members(after.queue) = Members(rec.queue) \cup free
  <2>1. InOrder(free) \in Seq(All) /\ Once(InOrder(free)) /\ Members(InOrder(free)) = free
    <3>1. free \subseteq All
      BY <1>7, Numbers
    <3> QED BY <1>8, <3>1, SeqMonotonic DEF Lists
  <2>2. \A x \in Members(rec.queue) : x \notin Members(InOrder(free))
    BY <1>1, <1>7, <2>1
  <2> QED BY <1>1, <1>2, <2>1, <2>2, ConcatOnce
<1>12. Passed(after) = Passed(rec) \cup {n}
  <2>1. ASSUME NEW m \in Nodes
        PROVE  m \in Passed(after) <=> m \in Passed(rec) \/ m = n
    <3>1. m # 0
      BY Numbers
    <3>2. m \in Passed(after) <=> indeg[m] = 0 /\ m \notin Members(rec.queue) /\ m \notin free
      BY <1>2, <1>11, <3>1 DEF Passed
    <3>3. m \in Passed(rec) <=> rec.indeg[m] = 0 /\ m \notin Members(rec.queue) /\ m # n
      BY DEF Passed
    <3> QED BY <1>1, <1>7, <1>9, <3>2, <3>3
  <2>2. Passed(after) \subseteq Nodes /\ Passed(rec) \subseteq Nodes
    BY DEF Passed
  <2> QED BY <1>1, <2>1, <2>2
<1>13. PassSound(after, edges)
  <2>1. \A m \in Members(after.queue) : m \in Nodes /\ after.indeg[m] = 0 /\ m # after.node
    BY <1>1, <1>2, <1>7, <1>9, <1>11, Numbers
  <2>2. \A m \in Nodes : after.indeg[m] = Cardinality(Predecessors(edges, m) \ Passed(after))
    BY <1>2, <1>5, <1>12
  <2> QED BY <1>1, <1>2, <1>11, <2>1, <2>2 DEF PassSound
<1> QED BY <1>2, <1>10, <1>11, <1>12, <1>13 DEF after

-----------------------------------------------------------------------------
(* The operations on a request.                                            *)

\* The predecessors of a node are nodes, also when the decision node is
\* connected.
LEMMA PredecessorsAre ==
  ASSUME NEW edges \in SUBSET (Nodes \X Nodes)
  PROVE  /\ \A n \in All : Predecessors(edges, n) \in SUBSET Nodes
         /\ ConnectDecision(edges) \in SUBSET (Nodes \X All) /\ edges \in SUBSET (Nodes \X All)
         /\ Predecessors(ConnectDecision(edges), Decision) = Nodes
         /\ \A n \in Nodes : Predecessors(ConnectDecision(edges), n) = Predecessors(edges, n)
         /\ Predecessors(edges, Decision) = {}
         /\ {m \in Nodes : <<Decision, m>> \in ConnectDecision(edges)} = {}
BY Numbers DEF Predecessors, ConnectDecision

\* A pass opens with every node without predecessors queued and none passed.
LEMMA OpenSound ==
  ASSUME built \in SUBSET (Nodes \X Nodes), masks.temporal \in SUBSET (Nodes \X Nodes),
         NEW rec \in Rec, rec.node = 0,
         NEW phase \in {"init", "round"}, NEW round \in 0 .. NumRounds - 1,
         phase = "init" => round = 0,
         \A p \in Nodes : Recalled(rec.mem, round, p, mode)
  PROVE  LET open == Open(rec, phase, round)
         IN /\ Sound(open, built, mode, HasDecision)
            /\ open.phase = phase /\ open.round = round /\ open.node = 0
            /\ Passed(open) = {}
<1> DEFINE open == Open(rec, phase, round)
           indeg == [n \in Nodes |-> Cardinality(Predecessors(built, n))]
           free == {n \in Nodes : indeg[n] = 0}
           temporal == ConstructTemporal(round, built)
<1>1. temporal \in SUBSET (Nodes \X Nodes) /\ (round = 0 => temporal = {})
  BY DEF ConstructTemporal
<1>2. indeg \in [Nodes -> 0 .. N]
  BY PredecessorsAre, NodesCount, Numbers
<1>3. Lists(InOrder(free), free)
  BY InOrderLists
<1>4. InOrder(free) \in Seq(All)
  BY <1>3, SeqMonotonic, Numbers DEF Lists
<1>5. built \in SUBSET (Nodes \X All)
  BY PredecessorsAre
<1>6. open = [rec EXCEPT !.phase = phase, !.round = round, !.spatial = built,
                         !.temporal = temporal, !.indeg = indeg,
                         !.queue = InOrder(free), !.ran = <<>>]
  BY DEF Open
<1>7. \A m \in free : indeg[m] = 0
  OBVIOUS
<1>8. \A m \in Nodes : indeg[m] = Cardinality(Predecessors(built, m))
  OBVIOUS
<1>9. \A m \in Nodes : indeg[m] = 0 => m \in free
  OBVIOUS
<1>10. free \subseteq Nodes
  OBVIOUS
<1> HIDE DEF open, indeg, free, temporal
<1>11. phase \in Phases /\ <<>> \in Seq(All)
  BY DEF Phases
<1>12. open \in Rec
  BY <1>1, <1>2, <1>4, <1>5, <1>6, <1>11 DEF Rec
<1>13. /\ open.phase = phase /\ open.round = round /\ open.spatial = built
       /\ open.temporal = temporal /\ open.indeg = indeg /\ open.queue = InOrder(free)
       /\ open.ran = <<>> /\ open.node = 0 /\ open.mem = rec.mem
  BY <1>6 DEF Rec
<1>14. Members(open.queue) = free /\ Once(open.queue)
  BY <1>3, <1>13 DEF Lists
<1>15. Passed(open) = {}
  BY <1>9, <1>13, <1>14 DEF Passed
<1>16. PassSound(open, built)
  <2>1. \A m \in Nodes : Predecessors(built, m) \ {} = Predecessors(built, m)
    OBVIOUS
  <2>2. \A m \in Members(open.queue) : m \in Nodes /\ open.indeg[m] = 0 /\ m # 0
    BY <1>7, <1>10, <1>13, <1>14, Numbers
  <2>3. \A m \in Nodes : open.indeg[m] = Cardinality(Predecessors(built, m) \ Passed(open))
    BY <1>8, <1>13, <1>15, <2>1
  <2> QED BY <1>13, <1>14, <2>2, <2>3 DEF PassSound
<1>17. RoundSound(open, built)
  <2>1. Lists(<<>>, {})
    BY EmptySeq DEF Lists, Members, Once
  <2>2. Passed(open) \cup ({open.node} \ {0}) = {}
    BY <1>13, <1>15
  <2>3. Ordered(built, <<>>)
    BY EmptySeq DEF Ordered
  <2> QED BY <1>13, <2>1, <2>2, <2>3 DEF RoundSound
<1>18. DecisionSound(open, built, HasDecision) /\ RestSound(open)
  BY <1>13 DEF DecisionSound, RestSound
<1>19. OutputsSound(open, mode)
  BY <1>1, <1>13, <1>15 DEF OutputsSound
<1>20. InputsSound(open, mode) /\ RunningSound(open)
  BY <1>13 DEF InputsSound, RunningSound
<1> QED BY <1>12, <1>13, <1>15, <1>16, <1>17, <1>18, <1>19, <1>20 DEF Sound, open

\* The copy of a request that has not begun.
LEMMA NewGraphSound ==
  Sound(NewGraph, built, mode, HasDecision)
<1>1. NewGraph \in Rec
  <2>1. <<>> \in Seq(All) /\ "idle" \in Phases
    BY DEF Phases
  <2>2. [n \in Nodes |-> 0] \in [Nodes -> 0 .. N] /\ [n \in All |-> Never] \in [All -> Outputs]
    BY Numbers
  <2> QED BY <2>1, <2>2, Numbers DEF NewGraph, Rec
<1>2. /\ NewGraph.phase = "idle" /\ NewGraph.round = 0 /\ NewGraph.temporal = {}
      /\ NewGraph.queue = <<>> /\ NewGraph.node = 0
      /\ NewGraph.mem = [n \in All |-> Never]
  BY DEF NewGraph
<1> QED
  BY <1>1, <1>2, Numbers
     DEF Sound, PassSound, RoundSound, DecisionSound, RestSound, OutputsSound, InputsSound,
         RunningSound, Recalled

\* A record that differs from another in its phase, memories and queue only.
CarriedOver(rec, old) ==
  /\ rec \in Rec
  /\ rec.round = old.round /\ rec.spatial = old.spatial /\ rec.temporal = old.temporal
  /\ rec.out = old.out /\ rec.node = old.node /\ rec.ran = old.ran

\* A record of the request that waits with an empty queue.
Waits(rec) ==
  /\ rec \in Rec /\ Sound(rec, built, mode, HasDecision)
  /\ rec.node = 0 /\ rec.queue = <<>>

\* A record of the request with the decision node queued.
Opened(rec, old, phase) ==
  /\ Sound(rec, built, mode, HasDecision)
  /\ rec.phase = phase /\ rec.round = old.round /\ rec.node = 0
  /\ rec.queue = <<Decision>>

\* The decision phase that comes after the pass of a record.
Opens(old, rec, phase) ==
  \/ old.phase = "init" /\ phase = "initDecision" /\ rec.mem = old.mem
  \/ old.phase = "round" /\ phase = "decision"

\* When the pass is complete, the decision node is queued.
LEMMA OpenDecisionSound ==
  ASSUME built \in SUBSET (Nodes \X Nodes), Acyclic(built), HasDecision,
         NEW old, NEW rec, NEW phase,
         Waits(old), CarriedOver(rec, old), Opens(old, rec, phase)
  PROVE  Opened(OpenDecision(rec, phase), old, phase)
<1> DEFINE open == OpenDecision(rec, phase)
<1> USE DEF CarriedOver, Opens, Waits, Opened
<1>1. old.spatial = built /\ old.phase \in {"init", "round"}
  BY DEF Sound, PassSound
<1>2. Passed(old) = Nodes
  BY <1>1, PassComplete DEF Sound
<1>3. open \in Rec
  <2>1. phase \in Phases
    BY DEF Phases
  <2>2. <<Decision>> \in Seq(All)
    BY Numbers
  <2>3. ConnectDecision(rec.spatial) \in SUBSET (Nodes \X All)
    BY <1>1, PredecessorsAre
  <2> QED BY <2>1, <2>2, <2>3 DEF Rec, OpenDecision
<1>4. /\ open.phase = phase /\ open.round = old.round /\ open.node = 0
      /\ open.queue = <<Decision>> /\ open.spatial = ConnectDecision(built)
      /\ open.temporal = old.temporal /\ open.mem = rec.mem /\ open.out = old.out
      /\ open.ran = old.ran
  BY <1>1 DEF OpenDecision, Rec
<1> HIDE DEF open
<1>5. phase = "decision" => Lists(open.ran, Nodes) /\ Ordered(open.spatial, open.ran)
  <2> SUFFICES ASSUME phase = "decision" PROVE Lists(open.ran, Nodes) /\ Ordered(open.spatial, open.ran)
    OBVIOUS
  <2>1. old.phase = "round"
    OBVIOUS
  <2>2. Nodes \cup ({0} \ {0}) = Nodes
    OBVIOUS
  <2>3. Lists(old.ran, Nodes) /\ Ordered(built, old.ran)
    BY <1>2, <2>1, <2>2 DEF Sound, RoundSound
  <2>4. \A i \in 1 .. Len(old.ran) : old.ran[i] \in Nodes
    BY <2>3 DEF Lists, Members
  <2>5. \A i \in 1 .. Len(old.ran) :
          Predecessors(ConnectDecision(built), old.ran[i]) = Predecessors(built, old.ran[i])
    BY <2>4, PredecessorsAre
  <2>6. Ordered(ConnectDecision(built), old.ran)
    BY <2>3, <2>5 DEF Ordered
  <2> QED BY <1>4, <2>3, <2>6
<1>6. DecisionSound(open, built, HasDecision)
  BY <1>4, <1>5 DEF DecisionSound
<1>7. PassSound(open, built) /\ RoundSound(open, built) /\ RestSound(open)
  BY <1>4 DEF PassSound, RoundSound, RestSound
<1>8. OutputsSound(open, mode)
  <2>1. CASE old.phase = "init" /\ phase = "initDecision" /\ rec.mem = old.mem
    BY <1>4, <2>1 DEF Sound, OutputsSound
  <2>2. CASE old.phase = "round" /\ phase = "decision"
    <3>1. \A p \in Nodes : Heard(old, p, mode)
      BY <1>2, <2>2 DEF Sound, OutputsSound
    <3>2. \A p \in Nodes : Heard(open, p, mode)
      BY <1>4, <3>1 DEF Heard
    <3>3. old.round = 0 => old.temporal = {}
      BY DEF Sound, OutputsSound
    <3> QED BY <1>4, <2>2, <3>2, <3>3 DEF OutputsSound
  <2> QED BY <2>1, <2>2
<1>9. InputsSound(open, mode) /\ RunningSound(open)
  BY <1>4 DEF InputsSound, RunningSound
<1> QED BY <1>3, <1>4, <1>6, <1>7, <1>8, <1>9 DEF Sound, open

Taken(rec) ==
  LET n == Head(rec.queue)
  IN [rec EXCEPT !.queue = Tail(@), !.node = n, !.out[n] = Never]

\* The nodes that have nothing left to do before the next node in the queue.
Before(rec) == IF rec.phase \in {"init", "round"} THEN Passed(rec) ELSE Nodes

\* The node taken from the queue has only predecessors that are done.
LEMMA TakenIs ==
  ASSUME built \in SUBSET (Nodes \X Nodes),
         NEW rec \in Rec, Sound(rec, built, mode, HasDecision), rec.node = 0, rec.queue # <<>>
  PROVE  LET taken == Taken(rec)
         IN /\ taken \in Rec
            /\ taken.phase = rec.phase /\ taken.round = rec.round
            /\ taken.spatial = rec.spatial /\ taken.temporal = rec.temporal
            /\ taken.indeg = rec.indeg /\ taken.mem = rec.mem /\ taken.ran = rec.ran
            /\ taken.queue = Tail(rec.queue) /\ taken.node = Head(rec.queue)
            /\ taken.node \in All /\ taken.node # 0
            /\ taken.out[taken.node] = Never
            /\ \A p \in All : p # taken.node => taken.out[p] = rec.out[p]
            /\ taken.phase \in {"init", "initDecision", "round", "decision"}
            /\ PassSound(taken, built)
            /\ taken.phase \in {"init", "round"} =>
                 /\ taken.node \in Nodes /\ Passed(taken) = Passed(rec)
            /\ taken.phase \in {"initDecision", "decision"} =>
                 /\ taken.node = Decision /\ taken.queue = <<>> /\ rec.queue = <<Decision>>
            /\ Predecessors(taken.spatial, taken.node) \subseteq Before(rec)
            /\ taken.node \notin Before(rec)
<1> DEFINE taken == Taken(rec)
<1>1. Head(rec.queue) \in All /\ Tail(rec.queue) \in Seq(All)
  BY HeadTailProperties DEF Rec
<1>2. rec.phase \in Phases
  BY DEF Rec
<1>3. taken \in Rec
  BY <1>1, Numbers DEF Taken, Rec
<1>4. /\ taken.phase = rec.phase /\ taken.round = rec.round
      /\ taken.spatial = rec.spatial /\ taken.temporal = rec.temporal
      /\ taken.indeg = rec.indeg /\ taken.mem = rec.mem /\ taken.ran = rec.ran
      /\ taken.queue = Tail(rec.queue) /\ taken.node = Head(rec.queue)
  BY DEF Taken, Rec
<1>5. /\ taken.out[taken.node] = Never
      /\ \A p \in All : p # taken.node => taken.out[p] = rec.out[p]
  BY <1>1 DEF Taken, Rec
<1> HIDE DEF taken
<1>6. taken.phase \in {"init", "initDecision", "round", "decision"}
  BY <1>2, <1>4 DEF Sound, RestSound, Phases
<1>7. CASE taken.phase \in {"init", "round"}
  <2>1. PassSound(rec, built) /\ rec.phase \in {"init", "round"}
    BY <1>4, <1>7 DEF Sound
  <2>2. /\ PassSound(taken, built) /\ taken.node \in Nodes
        /\ taken.node \notin Passed(rec) /\ Passed(taken) = Passed(rec)
        /\ Predecessors(built, taken.node) \subseteq Passed(rec)
    BY <1>3, <1>4, <2>1, TakenPass
  <2>3. taken.spatial = built
    BY <1>4, <2>1 DEF PassSound
  <2> QED BY <1>1, <1>3, <1>4, <1>5, <1>7, <2>2, <2>3, Numbers DEF Before, taken
<1>8. CASE taken.phase \in {"initDecision", "decision"}
  <2>1. rec.queue = <<Decision>> /\ rec.spatial = ConnectDecision(built)
    BY <1>4, <1>8 DEF Sound, DecisionSound
  <2>2. Head(rec.queue) = Decision /\ Tail(rec.queue) = <<>>
    BY <2>1
  <2>3. Predecessors(rec.spatial, Decision) = Nodes
    BY <2>1, PredecessorsAre
  <2>4. PassSound(taken, built)
    BY <1>8 DEF PassSound
  <2> QED BY <1>1, <1>3, <1>4, <1>5, <1>8, <2>1, <2>2, <2>3, <2>4, Numbers DEF Before, taken
<1> QED BY <1>6, <1>7, <1>8

\* In an initialization pass, that is all.
LEMMA TakenSound ==
  ASSUME built \in SUBSET (Nodes \X Nodes),
         NEW rec \in Rec, Sound(rec, built, mode, HasDecision), rec.node = 0, rec.queue # <<>>,
         rec.phase \in {"init", "initDecision"}
  PROVE  Sound(Taken(rec), built, mode, HasDecision)
<1> DEFINE taken == Taken(rec)
<1>1. /\ taken \in Rec
      /\ taken.phase = rec.phase /\ taken.round = rec.round
      /\ taken.spatial = rec.spatial /\ taken.temporal = rec.temporal
      /\ taken.mem = rec.mem /\ taken.out[taken.node] = Never
      /\ PassSound(taken, built)
      /\ taken.phase \in {"initDecision", "decision"} =>
           taken.node = Decision /\ taken.queue = <<>>
  BY TakenIs
<1> HIDE DEF taken
<1>2. DecisionSound(taken, built, HasDecision)
  BY <1>1 DEF Sound, DecisionSound
<1>3. OutputsSound(taken, mode)
  BY <1>1 DEF Sound, OutputsSound
<1>4. RoundSound(taken, built) /\ RestSound(taken) /\ InputsSound(taken, mode) /\ RunningSound(taken)
  BY <1>1 DEF RoundSound, RestSound, InputsSound, RunningSound
<1> QED BY <1>1, <1>2, <1>3, <1>4 DEF Sound, taken

Inputs(rec) ==
  [spatial |-> SpatialInfo(rec, rec.node), temporal |-> TemporalInfo(rec, rec.node)]

Started(rec) ==
  [Taken(rec) EXCEPT !.seen = Inputs(Taken(rec)), !.ran = Append(@, Taken(rec).node)]

\* Who comes next in the order has its predecessors before it.
LEMMA AppendOrdered ==
  ASSUME NEW edges, NEW S, NEW seq, Lists(seq, S), Ordered(edges, seq),
         NEW x, x \notin S, Predecessors(edges, x) \subseteq S
  PROVE  Ordered(edges, Append(seq, x))
<1> DEFINE more == Append(seq, x)
<1>1. seq \in Seq(S \cup {x}) /\ Len(seq) \in Nat
  BY SeqMonotonic, LenProperties DEF Lists
<1>2. /\ Len(more) = Len(seq) + 1
      /\ \A i \in 1 .. Len(seq) : more[i] = seq[i]
      /\ more[Len(seq) + 1] = x
  BY <1>1, AppendProperties
<1> HIDE DEF more
<1>3. ASSUME NEW i \in 1 .. Len(more), NEW p \in Predecessors(edges, more[i])
      PROVE  \E j \in 1 .. i - 1 : p = more[j]
  <2>1. CASE i = Len(seq) + 1
    <3>1. PICK j \in 1 .. Len(seq) : p = seq[j]
      BY <1>2, <1>3, <2>1 DEF Lists, Members
    <3>2. j \in 1 .. i - 1
      BY <1>1, <2>1, <3>1
    <3> QED BY <1>2, <3>1, <3>2
  <2>2. CASE i # Len(seq) + 1
    <3>1. i \in 1 .. Len(seq)
      BY <1>1, <1>2, <2>2
    <3>2. PICK j \in 1 .. i - 1 : p = seq[j]
      BY <1>2, <1>3, <3>1 DEF Ordered
    <3>3. j \in 1 .. Len(seq)
      BY <1>1, <3>1, <3>2
    <3> QED BY <1>2, <3>2, <3>3
  <2> QED BY <2>1, <2>2
<1> QED BY <1>3 DEF Ordered, more

\* What a node is given: of its spatial predecessors the outputs of this round,
\* of the temporal ones those of the round before.
LEMMA InputsAre ==
  ASSUME built \in SUBSET (Nodes \X Nodes),
         NEW rec \in Rec, Sound(rec, built, mode, HasDecision), rec.node = 0, rec.queue # <<>>,
         rec.phase \in {"round", "decision"}
  PROVE  LET taken == Taken(rec)
             spatial == Predecessors(taken.spatial, taken.node) \X {taken.round}
             temporal == Predecessors(taken.temporal, taken.node) \X {taken.round - 1}
         IN /\ Inputs(taken) \in [spatial : SUBSET (Nodes \X Outputs),
                                  temporal : SUBSET (Nodes \X Outputs)]
            /\ Inputs(taken).spatial \subseteq spatial
            /\ Inputs(taken).temporal \subseteq temporal
            /\ mode # "run" => Inputs(taken) = [spatial |-> spatial, temporal |-> temporal]
            /\ \A p \in Before(rec) : Heard(taken, p, mode)
<1> DEFINE taken == Taken(rec)
           n == taken.node
           S == Predecessors(taken.spatial, n)
           U == Predecessors(taken.temporal, n)
           spatial == S \X {taken.round}
           temporal == U \X {taken.round - 1}
<1>1. /\ taken \in Rec /\ taken.phase = rec.phase /\ taken.round = rec.round
      /\ taken.temporal = rec.temporal /\ taken.mem = rec.mem
      /\ n \in All /\ n \notin Before(rec)
      /\ \A p \in All : p # n => taken.out[p] = rec.out[p]
      /\ S \subseteq Before(rec)
      /\ taken.phase \in {"initDecision", "decision"} => n = Decision
  BY TakenIs
<1> HIDE DEF taken
<1>2. /\ taken.round \in 0 .. NumRounds - 1 /\ taken.round # Never
      /\ taken.temporal \subseteq Nodes \X Nodes
      /\ \A p \in All : taken.out[p] \in Outputs /\ taken.mem[p] \in Outputs
  BY <1>1, Numbers DEF Rec
<1>3. Before(rec) \subseteq Nodes
  BY DEF Before, Passed
<1>4. ASSUME NEW p \in Before(rec)
      PROVE  Heard(taken, p, mode)
  <2>1. Heard(rec, p, mode)
    BY DEF Sound, OutputsSound, Before
  <2>2. taken.out[p] = rec.out[p]
    BY <1>1, <1>3, Numbers
  <2> QED BY <1>1, <2>1, <2>2 DEF Heard
<1>5. ASSUME NEW p \in U
      PROVE  /\ p \in Nodes
             /\ taken.mem[p] = taken.round - 1 \/ (mode = "run" /\ taken.mem[p] = Never)
             /\ taken.round # 0 /\ taken.round - 1 # Never /\ taken.round - 1 \in Outputs
  <2>1. p \in Nodes /\ <<p, n>> \in taken.temporal
    BY DEF Predecessors
  <2>2. n # Decision
    BY <1>2, <2>1, Numbers
  <2>3. rec.phase = "round"
    BY <1>1, <2>2
  <2>4. taken.round # 0
    BY <1>1, <2>1 DEF Sound, OutputsSound
  <2>5. Recalled(rec.mem, rec.round, p, mode)
    BY <2>1, <2>3 DEF Sound, OutputsSound
  <2>6. taken.round - 1 # Never /\ taken.round - 1 \in Outputs
    BY <1>2, <2>4, Numbers DEF Never, Outputs
  <2> QED BY <1>1, <2>1, <2>4, <2>5, <2>6 DEF Recalled
<1>6. SpatialInfo(taken, n) = {<<p, taken.out[p]>> : p \in {q \in S : taken.out[q] # Never}}
  BY DEF SpatialInfo
<1>7. TemporalInfo(taken, n) = {<<p, taken.mem[p]>> : p \in {q \in U : taken.mem[q] # Never}}
  BY DEF TemporalInfo
<1>8. \A p \in S : p \in Nodes /\ Heard(taken, p, mode)
  BY <1>1, <1>3, <1>4
<1> HIDE DEF n, S, U
<1>9. /\ SpatialInfo(taken, n) \subseteq spatial
      /\ mode # "run" => SpatialInfo(taken, n) = spatial
  <2>1. ASSUME NEW p \in S
        PROVE  /\ taken.out[p] # Never => taken.out[p] = taken.round
               /\ mode # "run" => taken.out[p] = taken.round /\ taken.out[p] # Never
    BY <1>2, <1>8 DEF Heard
  <2>2. SpatialInfo(taken, n) \subseteq spatial
    BY <1>6, <2>1
  <2>3. ASSUME mode # "run", NEW p \in S
        PROVE  <<p, taken.round>> \in SpatialInfo(taken, n)
    BY <1>6, <2>1, <2>3
  <2> QED BY <2>2, <2>3
<1>10. /\ TemporalInfo(taken, n) \subseteq temporal
       /\ mode # "run" => TemporalInfo(taken, n) = temporal
  <2>1. TemporalInfo(taken, n) \subseteq temporal
    BY <1>5, <1>7
  <2>2. ASSUME mode # "run", NEW p \in U
        PROVE  <<p, taken.round - 1>> \in TemporalInfo(taken, n)
    BY <1>5, <1>7, <2>2
  <2> QED BY <2>1, <2>2
<1>11. spatial \in SUBSET (Nodes \X Outputs) /\ temporal \in SUBSET (Nodes \X Outputs)
  BY <1>2, <1>5, <1>8, Numbers
<1>12. Inputs(taken) = [spatial |-> SpatialInfo(taken, n), temporal |-> TemporalInfo(taken, n)]
  BY DEF Inputs, n
<1> HIDE DEF spatial, temporal
<1>13. /\ Inputs(taken) \in [spatial : SUBSET (Nodes \X Outputs),
                             temporal : SUBSET (Nodes \X Outputs)]
       /\ Inputs(taken).spatial \subseteq spatial
       /\ Inputs(taken).temporal \subseteq temporal
       /\ mode # "run" => Inputs(taken) = [spatial |-> spatial, temporal |-> temporal]
  BY <1>9, <1>10, <1>11, <1>12
<1> QED BY <1>4, <1>13 DEF taken, spatial, temporal, S, U, n

\* A node that starts keeps what is true of the request.
LEMMA StartedSound ==
  ASSUME built \in SUBSET (Nodes \X Nodes),
         NEW rec \in Rec, Sound(rec, built, mode, HasDecision), rec.node = 0, rec.queue # <<>>,
         rec.phase \in {"round", "decision"}
  PROVE  LET started == Started(rec)
         IN /\ Sound(started, built, mode, HasDecision)
            /\ started.phase = rec.phase /\ started.round = rec.round
            /\ started.node = Head(rec.queue)
            /\ started.phase = "round" => started.node \in Nodes
            /\ started.phase = "decision" => started.node = Decision
            /\ Before(started) = Before(rec)
<1> DEFINE taken == Taken(rec)
           n == taken.node
           started == Started(rec)
           in == Inputs(taken)
           spatial == Predecessors(taken.spatial, n) \X {taken.round}
           temporal == Predecessors(taken.temporal, n) \X {taken.round - 1}
<1>1. /\ taken \in Rec
      /\ taken.phase = rec.phase /\ taken.round = rec.round
      /\ taken.spatial = rec.spatial /\ taken.temporal = rec.temporal
      /\ taken.indeg = rec.indeg /\ taken.mem = rec.mem /\ taken.ran = rec.ran
      /\ n = Head(rec.queue)
      /\ n \in All /\ n # 0
      /\ taken.out[n] = Never
      /\ PassSound(taken, built)
      /\ taken.phase \in {"init", "round"} => n \in Nodes /\ Passed(taken) = Passed(rec)
      /\ taken.phase \in {"initDecision", "decision"} =>
           n = Decision /\ taken.queue = <<>> /\ rec.queue = <<Decision>>
      /\ Predecessors(taken.spatial, n) \subseteq Before(rec)
      /\ n \notin Before(rec)
  BY TakenIs
<1>2. /\ in \in [spatial : SUBSET (Nodes \X Outputs), temporal : SUBSET (Nodes \X Outputs)]
      /\ in.spatial \subseteq spatial /\ in.temporal \subseteq temporal
      /\ mode # "run" => in = [spatial |-> spatial, temporal |-> temporal]
      /\ \A p \in Before(rec) : Heard(taken, p, mode)
  BY InputsAre
<1>3. started = [taken EXCEPT !.seen = in, !.ran = Append(@, n)]
  BY DEF Started
<1> HIDE DEF taken, in, started, spatial, temporal
<1>4. started \in Rec
  <2>1. taken.ran \in Seq(All)
    BY <1>1 DEF Rec
  <2>2. Append(taken.ran, n) \in Seq(All)
    BY <1>1, <2>1, AppendProperties
  <2> DEFINE q == Append(taken.ran, n)
  <2>3. started = [taken EXCEPT !.seen = in, !.ran = q]
    BY <1>3
  <2>4. q \in Seq(All) /\ taken \in Rec
    BY <1>1, <2>2
  <2> HIDE DEF q
  <2> QED BY <1>2, <2>3, <2>4, ZenonT(20) DEF Rec
<1>5. /\ started.phase = rec.phase /\ started.round = rec.round
      /\ started.spatial = rec.spatial /\ started.temporal = rec.temporal
      /\ started.indeg = taken.indeg /\ started.mem = rec.mem
      /\ started.queue = taken.queue /\ started.node = n /\ started.out = taken.out
      /\ started.seen = in /\ started.ran = Append(rec.ran, n)
  BY <1>1, <1>3 DEF Rec
<1>6. Passed(started) = Passed(taken)
  BY <1>5 DEF Passed
<1>7. PassSound(started, built)
  BY <1>1, <1>5, <1>6 DEF PassSound
<1>8. RoundSound(started, built)
  <2> SUFFICES ASSUME rec.phase = "round"
               PROVE  /\ Lists(started.ran, Passed(started) \cup ({started.node} \ {0}))
                      /\ Ordered(built, started.ran)
    BY <1>5 DEF RoundSound
  <2>1. rec.spatial = built /\ Before(rec) = Passed(rec) /\ Passed(started) = Passed(rec)
    BY <1>1, <1>6 DEF Sound, PassSound, Before
  <2>2. Lists(rec.ran, Passed(rec)) /\ Ordered(built, rec.ran)
    <3>1. Passed(rec) \cup ({rec.node} \ {0}) = Passed(rec)
      OBVIOUS
    <3> QED BY <3>1 DEF Sound, RoundSound
  <2>3. Lists(started.ran, Passed(rec) \cup {n})
    BY <1>1, <1>5, <2>1, <2>2, AppendLists
  <2>4. Ordered(built, started.ran)
    BY <1>1, <1>5, <2>1, <2>2, AppendOrdered
  <2>5. {started.node} \ {0} = {n}
    BY <1>1, <1>5
  <2> QED BY <2>1, <2>3, <2>4, <2>5
<1>9. DecisionSound(started, built, HasDecision)
  <2> SUFFICES ASSUME rec.phase = "decision"
               PROVE  DecisionSound(started, built, HasDecision)
    BY <1>5 DEF DecisionSound
  <2>1. n = Decision /\ taken.queue = <<>> /\ rec.queue = <<Decision>> /\ Before(rec) = Nodes
    BY <1>1 DEF Before
  <2>2. HasDecision /\ rec.spatial = ConnectDecision(built)
    BY DEF Sound, DecisionSound
  <2>3. Lists(rec.ran, Nodes) /\ Ordered(rec.spatial, rec.ran)
    BY <2>1 DEF Sound, DecisionSound
  <2>4. Lists(started.ran, Nodes \cup {Decision})
    BY <1>1, <1>5, <2>1, <2>3, AppendLists
  <2>5. Ordered(rec.spatial, started.ran)
    BY <1>1, <1>5, <2>1, <2>3, AppendOrdered
  <2>6. Nodes \cup {Decision} = All
    BY Numbers
  <2> QED BY <1>5, <2>1, <2>2, <2>4, <2>5, <2>6 DEF DecisionSound
<1>10. RestSound(started) /\ RunningSound(started)
  BY <1>1, <1>5 DEF RestSound, RunningSound
<1>11. Before(started) = Before(rec)
  BY <1>1, <1>5, <1>6 DEF Before
<1>12. OutputsSound(started, mode)
  <2>1. \A p \in Before(rec) : Heard(started, p, mode)
    BY <1>1, <1>2, <1>5 DEF Heard
  <2>2. /\ rec.round = 0 => rec.temporal = {}
        /\ rec.phase = "round" => \A p \in Nodes : Recalled(rec.mem, rec.round, p, mode)
    BY DEF Sound, OutputsSound
  <2> QED BY <1>5, <1>11, <2>1, <2>2 DEF OutputsSound, Before
<1>13. InputsSound(started, mode)
  BY <1>1, <1>2, <1>5 DEF InputsSound, spatial, temporal
<1>14. started.phase = "round" => started.node \in Nodes
  BY <1>1, <1>5
<1>15. started.phase = "decision" => started.node = Decision
  BY <1>1, <1>5
<1> QED BY <1>1, <1>4, <1>5, <1>7, <1>8, <1>9, <1>10, <1>11, <1>12, <1>13, <1>14, <1>15 DEF Sound, started

\* The decision node has no successors.
LEMMA AfterDecision ==
  ASSUME built \in SUBSET (Nodes \X Nodes),
         NEW rec \in Rec, rec.spatial = ConnectDecision(built),
         rec.node = Decision, rec.queue = <<>>
  PROVE  LET after == AfterNode(rec, rec.node)
         IN after.indeg = rec.indeg /\ after.queue = <<>>
<1> DEFINE succ == {m \in Nodes : <<Decision, m>> \in rec.spatial}
           indeg == [m \in Nodes |-> IF m \in succ THEN rec.indeg[m] - 1 ELSE rec.indeg[m]]
           free == {m \in succ : indeg[m] = 0}
<1>1. succ = {}
  BY PredecessorsAre
<1>2. rec.indeg \in [Nodes -> 0 .. N]
  BY DEF Rec
<1>3. indeg = rec.indeg
  BY <1>1, <1>2
<1>4. free = {}
  BY <1>1
<1>5. InOrder(free) = <<>>
  <2>1. Lists(InOrder(free), {})
    BY <1>4, InOrderLists
  <2>2. InOrder(free) \in Seq({}) /\ Members(InOrder(free)) = {}
    BY <2>1 DEF Lists
  <2> HIDE DEF free
  <2>3. Len(InOrder(free)) \in Nat /\ ~(1 \in 1 .. Len(InOrder(free)))
    BY <2>2, LenProperties DEF Members
  <2> QED BY <2>2, <2>3, EmptySeq
<1>6. AfterNode(rec, rec.node).indeg = indeg /\ AfterNode(rec, rec.node).queue = rec.queue \o InOrder(free)
  BY DEF AfterNode, Rec
<1> HIDE DEF indeg, free, succ
<1>7. rec.queue \o InOrder(free) = <<>>
  BY <1>5
<1> QED BY <1>3, <1>6, <1>7

\* A node that is done, with an answer or given up, keeps what is true of the
\* request.
LEMMA AfterSound ==
  ASSUME built \in SUBSET (Nodes \X Nodes),
         NEW old \in Rec, Sound(old, built, mode, HasDecision), old.node # 0,
         NEW rec \in Rec,
         rec.phase = old.phase, rec.round = old.round, rec.spatial = old.spatial,
         rec.temporal = old.temporal, rec.indeg = old.indeg, rec.queue = old.queue,
         rec.node = old.node, rec.mem = old.mem, rec.ran = old.ran,
         \A p \in All : p # old.node => rec.out[p] = old.out[p],
         old.phase \in {"round", "decision"} => Heard(rec, rec.node, mode)
  PROVE  LET after == AfterNode(rec, rec.node)
         IN /\ Sound(after, built, mode, HasDecision)
            /\ after.phase = old.phase /\ after.round = old.round /\ after.node = 0
            /\ old.phase \in {"init", "round"} => Passed(after) = Passed(old) \cup {old.node}
            /\ old.phase \in {"initDecision", "decision"} =>
                 old.node = Decision /\ after.queue = <<>>
<1> DEFINE after == AfterNode(rec, rec.node)
<1>1. old.phase \in {"init", "initDecision", "round", "decision"}
  <2>1. old.phase \in Phases
    BY DEF Rec
  <2> QED BY <2>1 DEF Sound, RestSound, Phases
<1>2. Passed(rec) = Passed(old)
  BY DEF Passed
<1>3. PassSound(rec, built)
  BY <1>2 DEF Sound, PassSound
<1>4. old.phase \in {"init", "round"} =>
        /\ after.indeg \in [Nodes -> 0 .. N] /\ after.queue \in Seq(All)
        /\ PassSound(after, built)
        /\ Passed(after) = Passed(old) \cup {old.node}
  BY <1>2, <1>3, AfterPass
<1>5. old.phase \in {"initDecision", "decision"} =>
        /\ old.node = Decision /\ old.queue = <<>> /\ old.spatial = ConnectDecision(built)
        /\ HasDecision
  BY DEF Sound, DecisionSound
<1>6. old.phase \in {"initDecision", "decision"} => after.indeg = rec.indeg /\ after.queue = <<>>
  BY <1>5, AfterDecision
<1>7. after.indeg \in [Nodes -> 0 .. N] /\ after.queue \in Seq(All)
  <2>1. rec.indeg \in [Nodes -> 0 .. N] /\ <<>> \in Seq(All)
    BY DEF Rec
  <2> QED BY <1>1, <1>4, <1>6, <2>1
<1>8. after = [rec EXCEPT !.node = 0, !.tries = 0, !.indeg = after.indeg, !.queue = after.queue]
  BY DEF AfterNode, Rec
<1> HIDE DEF after
<1>9. after \in Rec
  <2>1. ASSUME NEW i \in [Nodes -> 0 .. N], NEW q \in Seq(All)
        PROVE  [rec EXCEPT !.node = 0, !.tries = 0, !.indeg = i, !.queue = q] \in Rec
    BY Numbers DEF Rec
  <2> QED BY <1>7, <1>8, <2>1
<1>10. /\ after.phase = old.phase /\ after.round = old.round /\ after.spatial = old.spatial
       /\ after.temporal = old.temporal /\ after.node = 0 /\ after.mem = old.mem
       /\ after.ran = old.ran /\ after.out = rec.out
  <2> DEFINE i == after.indeg
             q == after.queue
  <2>1. after = [rec EXCEPT !.node = 0, !.tries = 0, !.indeg = i, !.queue = q]
    BY <1>8
  <2> HIDE DEF i, q
  <2>2. /\ after.phase = rec.phase /\ after.round = rec.round /\ after.spatial = rec.spatial
        /\ after.temporal = rec.temporal /\ after.node = 0 /\ after.mem = rec.mem
        /\ after.ran = rec.ran /\ after.out = rec.out
    BY <2>1 DEF Rec
  <2> QED BY <2>2
<1>11. PassSound(after, built)
  BY <1>1, <1>4, <1>10 DEF PassSound
<1>12. RoundSound(after, built)
  <2> SUFFICES ASSUME old.phase = "round"
               PROVE  /\ Lists(after.ran, Passed(after) \cup ({after.node} \ {0}))
                      /\ Ordered(built, after.ran)
    BY <1>10 DEF RoundSound
  <2>1. Passed(old) \cup ({old.node} \ {0}) = Passed(after) \cup ({after.node} \ {0})
    BY <1>4, <1>10
  <2>2. Lists(old.ran, Passed(old) \cup ({old.node} \ {0})) /\ Ordered(built, old.ran)
    BY DEF Sound, RoundSound
  <2> QED BY <1>10, <2>1, <2>2
<1>13. DecisionSound(after, built, HasDecision)
  BY <1>5, <1>6, <1>10 DEF Sound, DecisionSound
<1>14. OutputsSound(after, mode)
  <2>1. ASSUME NEW p \in All, p # old.node, Heard(old, p, mode)
        PROVE  Heard(after, p, mode)
    BY <1>10, <2>1 DEF Heard
  <2>2. old.phase \in {"round", "decision"} => Heard(after, old.node, mode)
    BY <1>10 DEF Heard
  <2>3. \A p \in Passed(old) : p \in All /\ p # old.node
    BY Numbers DEF Passed
  <2>4. \A p \in Nodes : p \in All /\ (old.phase = "decision" => p # old.node)
    BY <1>5, Numbers
  <2>5. old.phase = "round" => \A p \in Passed(after) : Heard(after, p, mode)
    BY <1>4, <2>1, <2>2, <2>3 DEF Sound, OutputsSound
  <2>6. old.phase = "decision" => \A p \in Nodes : Heard(after, p, mode)
    BY <2>1, <2>4 DEF Sound, OutputsSound
  <2> QED BY <1>10, <2>5, <2>6 DEF Sound, OutputsSound
<1>15. RestSound(after) /\ InputsSound(after, mode) /\ RunningSound(after)
  BY <1>1, <1>10 DEF RestSound, InputsSound, RunningSound
<1> QED BY <1>4, <1>5, <1>6, <1>9, <1>10, <1>11, <1>12, <1>13, <1>14, <1>15 DEF Sound, after

\* A request that ends, well or not, runs and queues nothing.
LEMMA EndedSound ==
  ASSUME NEW old \in Rec, Sound(old, built, mode, HasDecision),
         NEW rec \in Rec, rec.phase \in {"done", "failed"},
         rec.node = 0, rec.queue = <<>>, rec.round = old.round, rec.temporal = old.temporal
  PROVE  Sound(rec, built, mode, HasDecision)
<1>1. old.round = 0 => old.temporal = {}
  BY DEF Sound, OutputsSound
<1> QED BY <1>1 DEF Sound, PassSound, RoundSound, DecisionSound, RestSound, OutputsSound,
                    InputsSound, RunningSound

\* A node that is tried again keeps what is true of the request.
LEMMA TriedSound ==
  ASSUME NEW old \in Rec, Sound(old, built, mode, HasDecision),
         NEW tries \in 0 .. MaxTries - 1
  PROVE  LET rec == [old EXCEPT !.tries = tries]
         IN /\ Sound(rec, built, mode, HasDecision)
            /\ rec.phase = old.phase /\ rec.round = old.round /\ rec.node = old.node
            /\ rec.queue = old.queue /\ Passed(rec) = Passed(old)
<1> DEFINE rec == [old EXCEPT !.tries = tries]
<1>1. rec \in Rec
  BY DEF Rec
<1>2. /\ rec.phase = old.phase /\ rec.round = old.round /\ rec.spatial = old.spatial
      /\ rec.temporal = old.temporal /\ rec.indeg = old.indeg /\ rec.queue = old.queue
      /\ rec.node = old.node /\ rec.out = old.out /\ rec.mem = old.mem
      /\ rec.seen = old.seen /\ rec.ran = old.ran
  BY DEF Rec
<1> HIDE DEF rec
<1>3. Passed(rec) = Passed(old)
  BY <1>2 DEF Passed
<1>4. PassSound(rec, built) /\ RoundSound(rec, built) /\ DecisionSound(rec, built, HasDecision)
  BY <1>2, <1>3 DEF Sound, PassSound, RoundSound, DecisionSound
<1>5. OutputsSound(rec, mode)
  BY <1>2, <1>3 DEF Sound, OutputsSound, Heard
<1>6. RestSound(rec) /\ InputsSound(rec, mode) /\ RunningSound(rec)
  BY <1>2 DEF Sound, RestSound, InputsSound, RunningSound
<1> QED BY <1>1, <1>2, <1>3, <1>4, <1>5, <1>6 DEF Sound, rec

-----------------------------------------------------------------------------
(* What the requests share.                                                *)

\* The template prepare_prefix_kv_segments commits for a node.
TemplateOf(n) ==
  LET preds == IF n = Decision THEN Nodes ELSE Predecessors(built, n)
  IN [agents |-> preds, conditions |-> {p \in preds : AsksCondition(n, p)}]

Templates == [n \in All |-> TemplateOf(n)]

\* With KV reuse, a pass of a request leaves nodes behind that are prepared.
Prepared(rec, ini, hasDecision) ==
  /\ rec.phase = "init" => \A n \in Passed(rec) : ini[n]
  /\ rec.phase \in {"initDecision", "round", "decision"} => \A n \in Nodes : ini[n]
  /\ rec.phase = "initDecision" /\ rec.queue = <<>> /\ rec.node = 0 => ini[Decision]
  /\ rec.phase \in {"round", "decision"} /\ hasDecision => ini[Decision]

\* The newest response cache of a node that has run is the one of this round.
Answered(rec, responses, r) ==
  rec.phase \in {"round", "decision"} =>
    \A p \in Before(rec) : responses[p][r] # <<>> /\ Last(responses[p][r]) = rec.round

\* The conditions the template of a running node asks for are there, and were
\* made in the first round.
ConditionsSound(rec, conditions, r, templates) ==
  /\ rec.phase \in {"idle", "init", "initDecision"} =>
       \A p \in Nodes : conditions[p][r] = Never
  /\ rec.phase \in {"round", "decision"} /\ rec.round = 0 =>
       \A p \in Nodes : conditions[p][r] \in {Never, 0}
  /\ rec.phase \in {"round", "decision"} /\ rec.node # 0 =>
       \A p \in templates[rec.node].conditions : conditions[p][r] # Never

Reuse(rec, r, ini, responses, conditions, templates, hasDecision) ==
  /\ Prepared(rec, ini, hasDecision)
  /\ Answered(rec, responses, r)
  /\ ConditionsSound(rec, conditions, r, templates)

Fixed ==
  /\ team \in Teams
  /\ masks.temporal \in SUBSET (Nodes \X Nodes)
  /\ built \in SUBSET (Nodes \X Nodes) /\ Acyclic(built)

Shapes ==
  /\ inited \in [All -> BOOLEAN]
  /\ template \in [All -> [agents : SUBSET Nodes, conditions : SUBSET Nodes]]
  /\ condition \in [Nodes -> [Requests -> Outputs]]
  /\ response \in [All -> [Requests -> Seq(0 .. NumRounds - 1)]]
  /\ g \in [Requests -> Rec]

IInv ==
  /\ Fixed
  /\ Shapes
  /\ \A n \in All : inited[n] => template[n] = Templates[n]
  /\ \A r \in Requests : Sound(g[r], built, mode, HasDecision)
  /\ mode = "allow_kv_reuse" =>
       \A r \in Requests :
         Reuse(g[r], r, inited, response, condition, Templates, HasDecision)

\* What a run never changes.
LEMMA FixedStays ==
  ASSUME UNCHANGED <<mode, team, masks, built>>
  PROVE  Templates' = Templates /\ HasDecision' = HasDecision /\ (Fixed => Fixed')
<1>1. HasDecision' = HasDecision
  BY DEF HasDecision
<1>2. Fixed => Fixed'
  BY DEF Fixed, Acyclic
<1>3. ASSUME NEW n, NEW p
      PROVE  AsksCondition(n, p)' = AsksCondition(n, p)
  BY DEF AsksCondition, AgentConditions, IsFinal, FinalAsks, MathConditions, WikiConditions,
         CodeConditions, TestsCode
<1>4. ASSUME NEW n
      PROVE  TemplateOf(n)' = TemplateOf(n)
  BY <1>3 DEF TemplateOf
<1>5. Templates' = Templates
  BY <1>4 DEF Templates
<1> QED BY <1>1, <1>2, <1>5

\* A step of one request that prepares no more than it must, and leaves the
\* caches of the others alone.
LEMMA StepKeeps ==
  ASSUME IInv, NEW r \in Requests, NEW rec,
         UNCHANGED <<mode, team, masks, built>>,
         g' = [g EXCEPT ![r] = rec],
         inited' \in [All -> BOOLEAN],
         template' \in [All -> [agents : SUBSET Nodes, conditions : SUBSET Nodes]],
         condition' \in [Nodes -> [Requests -> Outputs]],
         response' \in [All -> [Requests -> Seq(0 .. NumRounds - 1)]],
         \A n \in All : inited[n] => inited'[n],
         \A n \in All : inited'[n] => template'[n] = Templates[n],
         \A s \in Requests \ {r} :
           /\ \A p \in Nodes : condition'[p][s] = condition[p][s]
           /\ \A p \in All : response'[p][s] = response[p][s],
         Sound(rec, built, mode, HasDecision),
         mode = "allow_kv_reuse" =>
           Reuse(rec, r, inited', response', condition', Templates, HasDecision)
  PROVE  IInv'
<1>1. Templates' = Templates /\ HasDecision' = HasDecision /\ Fixed'
  BY FixedStays DEF IInv
<1>2. g' \in [Requests -> Rec] /\ g'[r] = rec /\ \A s \in Requests \ {r} : g'[s] = g[s]
  BY DEF IInv, Shapes, Sound
<1>3. Shapes'
  BY <1>2 DEF Shapes
<1>4. \A s \in Requests : Sound(g'[s], built', mode', HasDecision')
  BY <1>1, <1>2 DEF IInv
<1>5. ASSUME mode = "allow_kv_reuse", NEW s \in Requests
      PROVE  Reuse(g'[s], s, inited', response', condition', Templates, HasDecision)
  <2>1. CASE s = r
    BY <1>2, <1>5, <2>1
  <2>2. CASE s # r
    <3>1. g'[s] = g[s] /\ Reuse(g[s], s, inited, response, condition, Templates, HasDecision)
      BY <1>2, <1>5, <2>2 DEF IInv
    <3>2. Before(g[s]) \subseteq All /\ Passed(g[s]) \subseteq All /\ Nodes \subseteq All /\ Decision \in All
      BY Numbers DEF Before, Passed
    <3>3. Prepared(g[s], inited', HasDecision)
      BY <3>1, <3>2 DEF Reuse, Prepared
    <3>4. Answered(g[s], response', s)
      BY <2>2, <3>1, <3>2 DEF Reuse, Answered
    <3>5. ConditionsSound(g[s], condition', s, Templates)
      <4>1. \A p \in Nodes : condition'[p][s] = condition[p][s]
        BY <2>2
      <4>2. ASSUME g[s].node # 0, NEW p \in Templates[g[s].node].conditions
            PROVE  p \in Nodes
        <5>1. g[s].node \in All
          BY <4>2 DEF IInv, Shapes, Rec
        <5>2. Templates[g[s].node].conditions \subseteq Nodes
          BY <5>1 DEF Templates, TemplateOf, Predecessors
        <5> QED BY <4>2, <5>2
      <4> QED BY <3>1, <4>1, <4>2 DEF Reuse, ConditionsSound
    <3> QED BY <3>1, <3>3, <3>4, <3>5 DEF Reuse
  <2> QED BY <2>1, <2>2
<1> QED BY <1>1, <1>3, <1>4, <1>5 DEF IInv

\* A step that changes no more than the copy of the graph.
LEMMA LocalKeeps ==
  ASSUME IInv, NEW r \in Requests, NEW rec,
         UNCHANGED <<mode, team, masks, built, inited, template, condition, response>>,
         g' = [g EXCEPT ![r] = rec],
         Sound(rec, built, mode, HasDecision),
         mode = "allow_kv_reuse" =>
           Reuse(rec, r, inited, response, condition, Templates, HasDecision)
  PROVE  IInv'
<1>1. /\ inited' = inited /\ template' = template /\ condition' = condition
      /\ response' = response /\ UNCHANGED <<mode, team, masks, built>>
  OBVIOUS
<1>2. Shapes /\ \A n \in All : inited[n] => template[n] = Templates[n]
  BY DEF IInv
<1>3. mode = "allow_kv_reuse" =>
        Reuse(rec, r, inited', response', condition', Templates, HasDecision)
  BY <1>1
<1> QED BY <1>1, <1>2, <1>3, StepKeeps DEF Shapes

\* What the invariant says of one request.
LEMMA OfRequest ==
  ASSUME IInv, NEW r \in Requests
  PROVE  /\ built \in SUBSET (Nodes \X Nodes) /\ Acyclic(built)
         /\ masks.temporal \in SUBSET (Nodes \X Nodes)
         /\ g[r] \in Rec /\ Sound(g[r], built, mode, HasDecision)
         /\ mode = "allow_kv_reuse" =>
              /\ Reuse(g[r], r, inited, response, condition, Templates, HasDecision)
              /\ Prepared(g[r], inited, HasDecision)
              /\ Answered(g[r], response, r)
              /\ ConditionsSound(g[r], condition, r, Templates)
BY DEF IInv, Fixed, Shapes, Reuse

\* A request that begins opens a pass on sound ground.
LEMMA BeginKeeps ==
  ASSUME IInv, NEW r \in Requests, Begin(r)
  PROVE  IInv'
<1>1. /\ g[r].node = 0 /\ g[r].round = 0 /\ g[r].phase = "idle"
      /\ \A p \in Nodes : Recalled(g[r].mem, 0, p, mode)
  BY OfRequest DEF Begin, Sound, RestSound, OutputsSound
<1>2. 0 \in 0 .. NumRounds - 1
  BY Numbers
<1>3. CASE mode = "allow_kv_reuse"
  <2> DEFINE rec == Open(g[r], "init", 0)
  <2>1. /\ Sound(rec, built, mode, HasDecision)
        /\ rec.phase = "init" /\ rec.round = 0 /\ rec.node = 0 /\ Passed(rec) = {}
    BY <1>1, <1>2, OfRequest, OpenSound
  <2>2. g' = [g EXCEPT ![r] = rec]
    BY <1>3 DEF Begin
  <2> HIDE DEF rec
  <2>3. Reuse(rec, r, inited, response, condition, Templates, HasDecision)
    BY <1>1, <1>3, <2>1, OfRequest DEF Reuse, Prepared, Answered, ConditionsSound
  <2> QED BY <2>1, <2>2, <2>3, LocalKeeps DEF Begin
<1>4. CASE mode # "allow_kv_reuse"
  <2> DEFINE rec == Open(g[r], "round", 0)
  <2>1. Sound(rec, built, mode, HasDecision)
    BY <1>1, <1>2, OfRequest, OpenSound
  <2>2. g' = [g EXCEPT ![r] = rec]
    BY <1>4 DEF Begin
  <2> HIDE DEF rec
  <2> QED BY <1>4, <2>1, <2>2, LocalKeeps DEF Begin
<1> QED BY <1>3, <1>4

\* The initialization takes a node that is prepared already, or prepares it.
LEMMA StartInitKeeps ==
  ASSUME IInv, NEW r \in Requests, StartInit(r)
  PROVE  IInv'
<1> DEFINE taken == Taken(g[r])
           n == taken.node
           after == AfterNode(taken, n)
<1>1. g[r].node = 0 /\ g[r].queue # <<>> /\ g[r].phase \in {"init", "initDecision"}
  BY DEF StartInit, Ready, Initializing
<1>2. /\ taken \in Rec /\ taken.phase = g[r].phase /\ n = Head(g[r].queue)
      /\ n \in All /\ n # 0
      /\ taken.phase \in {"init", "round"} => Passed(taken) = Passed(g[r])
      /\ Sound(taken, built, mode, HasDecision)
  BY <1>1, OfRequest, TakenIs, TakenSound
<1>3. g' = [g EXCEPT ![r] = IF inited[n] THEN after ELSE taken]
  BY <1>2 DEF StartInit, Taken
<1>4. CASE inited[n]
  <2>1. /\ Sound(after, built, mode, HasDecision)
        /\ after.phase = taken.phase /\ after.node = 0
        /\ taken.phase \in {"init", "round"} => Passed(after) = Passed(taken) \cup {n}
        /\ taken.phase \in {"initDecision", "decision"} => n = Decision
    <3> HIDE DEF taken
    <3> QED BY <1>1, <1>2, OfRequest, AfterSound
  <2>2. g' = [g EXCEPT ![r] = after]
    BY <1>3, <1>4
  <2> HIDE DEF taken, after, n
  <2>3. ASSUME mode = "allow_kv_reuse"
        PROVE  Reuse(after, r, inited, response, condition, Templates, HasDecision)
    BY <1>1, <1>2, <1>4, <2>1, <2>3, OfRequest DEF Reuse, Prepared, Answered, ConditionsSound
  <2> QED BY <2>1, <2>2, <2>3, LocalKeeps DEF StartInit
<1>5. CASE ~inited[n]
  <2>1. g' = [g EXCEPT ![r] = taken]
    BY <1>3, <1>5
  <2> HIDE DEF taken
  <2>2. ASSUME mode = "allow_kv_reuse"
        PROVE  Reuse(taken, r, inited, response, condition, Templates, HasDecision)
    BY <1>1, <1>2, <2>2, OfRequest DEF Reuse, Prepared, Answered, ConditionsSound
  <2> QED BY <1>2, <2>1, <2>2, LocalKeeps DEF StartInit
<1> QED BY <1>4, <1>5

\* A node whose prefix is prefilled commits the template of the graph.
LEMMA FinishInitKeeps ==
  ASSUME IInv, NEW r \in Requests, FinishInit(r)
  PROVE  IInv'
<1> DEFINE n == g[r].node
           preds == Predecessors(g[r].spatial, n)
           after == AfterNode(g[r], n)
<1>1. n # 0 /\ g[r].phase \in {"init", "initDecision"}
  BY DEF FinishInit, Initializing
<1>2. n \in All
  BY <1>1, OfRequest DEF Rec
<1>3. /\ Sound(after, built, mode, HasDecision)
      /\ after.phase = g[r].phase /\ after.node = 0
      /\ g[r].phase \in {"init", "round"} => Passed(after) = Passed(g[r]) \cup {n}
      /\ g[r].phase \in {"initDecision", "decision"} => n = Decision
  BY <1>1, OfRequest, AfterSound
<1>4. preds = IF n = Decision THEN Nodes ELSE Predecessors(built, n)
  <2>1. CASE g[r].phase = "init"
    BY <1>1, <2>1, OfRequest, Numbers DEF Sound, PassSound
  <2>2. CASE g[r].phase = "initDecision"
    BY <1>3, <2>2, OfRequest, PredecessorsAre DEF Sound, DecisionSound
  <2> QED BY <1>1, <2>1, <2>2
<1>5. /\ g' = [g EXCEPT ![r] = after]
      /\ template' = [template EXCEPT ![n] =
                        [agents |-> preds, conditions |-> {p \in preds : AsksCondition(n, p)}]]
      /\ inited' = [inited EXCEPT ![n] = TRUE]
      /\ condition' = condition /\ response' = response
      /\ UNCHANGED <<mode, team, masks, built>>
  BY DEF FinishInit
<1> HIDE DEF after
<1>6. [agents |-> preds, conditions |-> {p \in preds : AsksCondition(n, p)}] = Templates[n]
  BY <1>2, <1>4 DEF Templates, TemplateOf
<1>7. /\ Templates[n] \in [agents : SUBSET Nodes, conditions : SUBSET Nodes]
      /\ Shapes /\ \A m \in All : inited[m] => template[m] = Templates[m]
  <2>1. preds \in SUBSET Nodes
    BY DEF Predecessors
  <2> QED BY <1>6, <2>1 DEF IInv
<1> HIDE DEF preds, n
<1>8. /\ template' = [template EXCEPT ![n] = Templates[n]]
      /\ template' \in [All -> [agents : SUBSET Nodes, conditions : SUBSET Nodes]]
  BY <1>2, <1>5, <1>6, <1>7 DEF Shapes
<1>9. /\ inited' \in [All -> BOOLEAN] /\ inited'[n]
      /\ \A m \in All : m # n => inited'[m] = inited[m]
  BY <1>2, <1>5, <1>7 DEF Shapes
<1>10. \A m \in All : inited'[m] => template'[m] = Templates[m]
  BY <1>2, <1>7, <1>8, <1>9 DEF Shapes
<1>11. ASSUME mode = "allow_kv_reuse"
       PROVE  Reuse(after, r, inited', response', condition', Templates, HasDecision)
  <2>1. Prepared(after, inited', HasDecision)
    <3>1. \A m \in Passed(g[r]) : m \in All
      BY Numbers DEF Passed
    <3> QED BY <1>1, <1>2, <1>3, <1>9, <1>11, <3>1, OfRequest, Numbers DEF Prepared
  <2>2. Answered(after, response', r) /\ ConditionsSound(after, condition', r, Templates)
    BY <1>1, <1>3, <1>5, <1>11, OfRequest DEF Answered, ConditionsSound
  <2> QED BY <2>1, <2>2 DEF Reuse
<1>12. \A m \in All : inited[m] => inited'[m]
  BY <1>9
<1> QED BY <1>3, <1>5, <1>7, <1>8, <1>9, <1>10, <1>11, <1>12, StepKeeps DEF Shapes

\* After the initialization of the nodes comes that of the decision node, or the
\* first round.
LEMMA EndInitKeeps ==
  ASSUME IInv, NEW r \in Requests, EndInit(r)
  PROVE  IInv'
<1>1. g[r].node = 0 /\ g[r].queue = <<>> /\ g[r].phase = "init"
  BY DEF EndInit, Idle
<1>2. Passed(g[r]) = Nodes
  BY <1>1, OfRequest, PassComplete DEF Sound
<1>3. /\ g[r].round = 0 /\ 0 \in 0 .. NumRounds - 1
      /\ \A p \in Nodes : Recalled(g[r].mem, 0, p, mode)
  BY <1>1, OfRequest, Numbers DEF Sound, OutputsSound
<1>4. CASE HasDecision
  <2> DEFINE rec == OpenDecision(g[r], "initDecision")
  <2>1. /\ Sound(rec, built, mode, HasDecision) /\ rec.phase = "initDecision"
        /\ rec.queue = <<Decision>>
    <3> DEFINE c == g[r]
    <3>1. /\ c \in Rec /\ Sound(c, built, mode, HasDecision) /\ c.node = 0 /\ c.queue = <<>>
          /\ c.phase = "init" /\ built \in SUBSET (Nodes \X Nodes) /\ Acyclic(built)
      BY <1>1, OfRequest
    <3>2. rec = OpenDecision(c, "initDecision")
      OBVIOUS
    <3>3. CarriedOver(c, c) /\ Opens(c, c, "initDecision")
      BY <3>1 DEF CarriedOver, Opens
    <3>4. Waits(c)
      BY <3>1 DEF Waits
    <3> HIDE DEF c, rec
    <3>5. Opened(OpenDecision(c, "initDecision"), c, "initDecision")
      BY <1>4, <3>1, <3>3, <3>4, OpenDecisionSound
    <3> QED BY <3>2, <3>5 DEF Opened
  <2>2. g' = [g EXCEPT ![r] = rec]
    BY <1>4 DEF EndInit
  <2> HIDE DEF rec
  <2>3. ASSUME mode = "allow_kv_reuse"
        PROVE  Reuse(rec, r, inited, response, condition, Templates, HasDecision)
    BY <1>1, <1>2, <2>1, <2>3, OfRequest DEF Reuse, Prepared, Answered, ConditionsSound
  <2> QED BY <2>1, <2>2, <2>3, LocalKeeps DEF EndInit
<1>5. CASE ~HasDecision
  <2> DEFINE rec == Open(g[r], "round", 0)
  <2>1. /\ Sound(rec, built, mode, HasDecision)
        /\ rec.phase = "round" /\ rec.round = 0 /\ rec.node = 0 /\ Passed(rec) = {}
    BY <1>1, <1>3, OfRequest, OpenSound
  <2>2. g' = [g EXCEPT ![r] = rec]
    BY <1>5 DEF EndInit
  <2> HIDE DEF rec
  <2>3. ASSUME mode = "allow_kv_reuse"
        PROVE  Reuse(rec, r, inited, response, condition, Templates, HasDecision)
    BY <1>1, <1>2, <1>5, <2>1, <2>3, OfRequest
       DEF Reuse, Prepared, Answered, ConditionsSound, Before
  <2> QED BY <2>1, <2>2, <2>3, LocalKeeps DEF EndInit
<1> QED BY <1>4, <1>5

\* The first round finds every node prepared.
LEMMA EndInitDecisionKeeps ==
  ASSUME IInv, NEW r \in Requests, EndInitDecision(r)
  PROVE  IInv'
<1>1. g[r].node = 0 /\ g[r].queue = <<>> /\ g[r].phase = "initDecision"
  BY DEF EndInitDecision, Idle
<1>2. /\ g[r].round = 0 /\ 0 \in 0 .. NumRounds - 1
      /\ \A p \in Nodes : Recalled(g[r].mem, 0, p, mode)
  BY <1>1, OfRequest, Numbers DEF Sound, OutputsSound
<1> DEFINE rec == Open(g[r], "round", 0)
<1>3. /\ Sound(rec, built, mode, HasDecision)
      /\ rec.phase = "round" /\ rec.round = 0 /\ rec.node = 0 /\ Passed(rec) = {}
  BY <1>1, <1>2, OfRequest, OpenSound
<1>4. g' = [g EXCEPT ![r] = rec]
  BY DEF EndInitDecision
<1> HIDE DEF rec
<1>5. ASSUME mode = "allow_kv_reuse"
      PROVE  Reuse(rec, r, inited, response, condition, Templates, HasDecision)
  BY <1>1, <1>3, <1>5, OfRequest DEF Reuse, Prepared, Answered, ConditionsSound, Before
<1> QED BY <1>3, <1>4, <1>5, LocalKeeps DEF EndInitDecision

\* Only mmlu's decision node asks for conditions nobody prepares, and its
\* agents have none.
LEMMA AskedIsPrepared ==
  ASSUME IInv, NEW n \in All, NEW p \in Nodes, AsksCondition(n, p)
  PROVE  Conditions(n, p)
<1>1. team \in Teams
  BY DEF IInv, Fixed
<1>2. team.domain = "mmlu" => team.role[p] # "Programming Expert"
  BY <1>1, TeamsAssumption, Zenon
<1>3. FinalAsks(n, p) => FinalConditions(n, p)
  BY <1>2, Zenon DEF FinalAsks, FinalConditions
<1> QED BY <1>3, Zenon DEF AsksCondition, Conditions

\* A node that starts finds its inputs, and makes the conditions it asks for.
LEMMA StartKeeps ==
  ASSUME IInv, NEW r \in Requests, Start(r)
  PROVE  IInv'
<1> DEFINE c == g[r]
           rec == Started(c)
           n == rec.node
           asked(p) == /\ condition[p][r] = Never /\ Conditions(n, p)
                       /\ \E info \in rec.seen.spatial : info[1] = p
           made == [p \in Nodes |-> [condition[p] EXCEPT ![r] =
                      IF asked(p) THEN c.out[p] ELSE @]]
<1>1. c.node = 0 /\ c.queue # <<>> /\ c.phase \in {"round", "decision"}
  BY DEF Start, Ready, Answering
<1>2. /\ c \in Rec /\ Sound(c, built, mode, HasDecision)
      /\ built \in SUBSET (Nodes \X Nodes)
      /\ Shapes /\ \A m \in All : inited[m] => template[m] = Templates[m]
  BY OfRequest DEF IInv
<1>3. /\ Sound(rec, built, mode, HasDecision)
      /\ rec.phase = c.phase /\ rec.round = c.round
      /\ n = Head(c.queue)
      /\ rec.phase = "round" => n \in Nodes
      /\ rec.phase = "decision" => n = Decision
      /\ Before(rec) = Before(c)
  BY <1>1, <1>2, StartedSound
<1>4. rec = [Taken(c) EXCEPT !.seen = Inputs(Taken(c)), !.ran = Append(@, Taken(c).node)]
  BY DEF Started
<1>5. /\ Taken(c) \in Rec /\ Taken(c).node = Head(c.queue) /\ Taken(c).round = c.round
      /\ Predecessors(Taken(c).spatial, Taken(c).node) \subseteq Before(c)
      /\ Taken(c).spatial = c.spatial
  BY <1>1, <1>2, TakenIs
<1>6. rec.seen = Inputs(Taken(c))
  BY <1>4, <1>5 DEF Rec
<1>7. g' = [g EXCEPT ![r] = rec]
  BY <1>5 DEF Start, Started, Taken, Inputs
<1>8. CASE mode # "allow_kv_reuse"
  <2>1. condition' = condition
    BY <1>8 DEF Start
  <2>2. UNCHANGED <<mode, team, masks, built, inited, template, condition, response>>
    BY <2>1 DEF Start
  <2> HIDE DEF rec
  <2> QED BY <1>3, <1>7, <1>8, <2>2, LocalKeeps
<1>9. CASE mode = "allow_kv_reuse"
  <2>1. /\ Prepared(c, inited, HasDecision) /\ Answered(c, response, r)
        /\ ConditionsSound(c, condition, r, Templates)
    BY <1>9, OfRequest
  <2>2. n \in All /\ inited[n]
    <3>1. CASE c.phase = "round"
      BY <1>3, <2>1, <3>1, Numbers DEF Prepared
    <3>2. CASE c.phase = "decision"
      <4>1. HasDecision
        BY <1>2, <3>2 DEF Sound, DecisionSound
      <4> QED BY <1>3, <2>1, <3>2, <4>1, Numbers DEF Prepared
    <3> QED BY <1>1, <3>1, <3>2
  <2>3. condition' = made
    <3>1. n = Head(c.queue) /\ rec.seen.spatial = SpatialInfo(Taken(c), n)
      BY <1>3, <1>5, <1>6 DEF Inputs
    <3> HIDE DEF rec, n
    <3>2. inited[Head(g[r].queue)]
      BY <2>2, <3>1
    <3>3. /\ condition' = [p \in Nodes |-> [condition[p] EXCEPT ![r] =
                  IF @ = Never /\ Conditions(n, p)
                       /\ \E info \in SpatialInfo(Taken(c), n) : info[1] = p
                    THEN g[r].out[p] ELSE @]]
      BY <1>9, <3>1, <3>2 DEF Start, Taken
    <3> QED BY <3>1, <3>3
  <2>4. /\ inited' = inited /\ template' = template /\ response' = response
        /\ UNCHANGED <<mode, team, masks, built>>
    BY DEF Start
  <2> DEFINE preds == Predecessors(rec.spatial, n)
  <2>5. preds \subseteq Before(c) /\ rec.spatial = c.spatial
    BY <1>3, <1>4, <1>5 DEF Rec
  <2>6. /\ rec.seen.spatial = preds \X {c.round}
        /\ c.round \in 0 .. NumRounds - 1 /\ rec.node # 0
    <3>1. rec.node # 0
      BY <2>2, Numbers
    <3>2. InputsSound(rec, mode)
      BY <1>3 DEF Sound
    <3>3. rec.phase \in {"round", "decision"}
      BY <1>1, <1>3
    <3>4. c.round \in 0 .. NumRounds - 1
      BY <1>2 DEF Rec
    <3> HIDE DEF rec
    <3>5. rec.seen.spatial = Predecessors(rec.spatial, rec.node) \X {rec.round}
      BY <1>9, <3>1, <3>2, <3>3 DEF InputsSound
    <3> QED BY <1>3, <3>1, <3>4, <3>5
  <2>7. Before(c) \subseteq Nodes
    BY DEF Before, Passed
  <2>8. ASSUME NEW p \in preds
        PROVE  p \in Nodes /\ c.out[p] = c.round
    <3>1. p \in Before(c) /\ p \in Nodes
      BY <2>5, <2>7
    <3>2. Heard(c, p, mode)
      BY <1>1, <1>2, <3>1 DEF Sound, OutputsSound, Before
    <3> QED BY <1>9, <3>1, <3>2 DEF Heard
  <2>9. preds = IF n = Decision THEN Nodes ELSE Predecessors(built, n)
    <3>1. CASE c.phase = "round"
      <4>1. c.spatial = built /\ n # Decision
        BY <1>2, <1>3, <3>1, Numbers DEF Sound, PassSound
      <4> QED BY <2>5, <4>1
    <3>2. CASE c.phase = "decision"
      <4>1. c.spatial = ConnectDecision(built) /\ n = Decision
        BY <1>2, <1>3, <3>2 DEF Sound, DecisionSound
      <4> QED BY <1>2, <2>5, <4>1, PredecessorsAre
    <3> QED BY <1>1, <3>1, <3>2
  <2>10. Templates[n].conditions = {p \in preds : AsksCondition(n, p)}
    BY <2>2, <2>9 DEF Templates, TemplateOf
  <2> HIDE DEF rec, n, preds
  <2>11. ASSUME NEW p \in Nodes
         PROVE  asked(p) => p \in preds
    BY <2>6
  <2>12. ASSUME NEW p \in preds
         PROVE  \E info \in rec.seen.spatial : info[1] = p
    <3>1. <<p, c.round>> \in rec.seen.spatial /\ <<p, c.round>>[1] = p
      BY <2>6
    <3> QED BY <3>1
  <2> HIDE DEF c, asked
  <2>13. condition \in [Nodes -> [Requests -> Outputs]]
    BY <1>2 DEF Shapes
  <2>14. ASSUME NEW p \in Nodes
         PROVE  /\ made[p] \in [Requests -> Outputs]
                /\ made[p][r] = IF asked(p) THEN c.round ELSE condition[p][r]
                /\ \A s \in Requests \ {r} : made[p][s] = condition[p][s]
    <3>1. asked(p) => c.out[p] = c.round /\ c.round \in Outputs
      BY <2>6, <2>8, <2>11, Numbers
    <3>2. made[p] = [condition[p] EXCEPT ![r] = IF asked(p) THEN c.round ELSE condition[p][r]]
      BY <3>1
    <3>3. condition[p] \in [Requests -> Outputs]
      BY <2>13
    <3> QED BY <3>1, <3>2, <3>3
  <2>15. made \in [Nodes -> [Requests -> Outputs]]
    BY <2>14
  <2> HIDE DEF made
  <2>16. Reuse(rec, r, inited', response', condition', Templates, HasDecision)
    <3>1. Prepared(rec, inited', HasDecision)
      BY <1>1, <1>3, <2>1, <2>4 DEF Prepared
    <3>2. Answered(rec, response', r)
      BY <1>3, <2>1, <2>4 DEF Answered
    <3>3. \A p \in Nodes : rec.round = 0 => made[p][r] \in {Never, 0}
      BY <1>1, <1>3, <2>1, <2>14 DEF ConditionsSound
    <3>4. ASSUME NEW p \in Templates[n].conditions
          PROVE  made[p][r] # Never
      <4>1. p \in preds /\ p \in Nodes /\ Conditions(n, p)
        BY <2>2, <2>8, <2>10, <3>4, AskedIsPrepared
      <4>2. condition[p][r] = Never => asked(p)
        BY <2>12, <4>1 DEF asked
      <4>3. c.round # Never
        BY <2>6, Numbers
      <4> QED BY <2>14, <4>1, <4>2, <4>3
    <3>5. ConditionsSound(rec, condition', r, Templates)
      BY <1>1, <1>3, <2>3, <3>3, <3>4 DEF ConditionsSound, n
    <3> QED BY <3>1, <3>2, <3>5 DEF Reuse
  <2>17. \A s \in Requests \ {r} :
           /\ \A p \in Nodes : condition'[p][s] = condition[p][s]
           /\ \A p \in All : response'[p][s] = response[p][s]
    BY <2>3, <2>4, <2>14
  <2>18. /\ inited' \in [All -> BOOLEAN]
         /\ template' \in [All -> [agents : SUBSET Nodes, conditions : SUBSET Nodes]]
         /\ condition' \in [Nodes -> [Requests -> Outputs]]
         /\ response' \in [All -> [Requests -> Seq(0 .. NumRounds - 1)]]
         /\ \A m \in All : inited[m] => inited'[m]
         /\ \A m \in All : inited'[m] => template'[m] = Templates[m]
    BY <1>2, <2>3, <2>4, <2>15 DEF Shapes
  <2> QED BY <1>3, <1>7, <2>4, <2>16, <2>17, <2>18, StepKeeps
<1> QED BY <1>8, <1>9

\* An answer is of this round, and so is the response cache it leaves.
LEMMA FinishKeeps ==
  ASSUME IInv, NEW r \in Requests, Finish(r)
  PROVE  IInv'
<1> DEFINE c == g[r]
           n == c.node
           said == [c EXCEPT !.out[n] = c.round]
           rec == AfterNode(said, n)
<1>1. c.node # 0 /\ c.phase \in {"round", "decision"}
  BY DEF Finish, Answering
<1>2. /\ c \in Rec /\ Sound(c, built, mode, HasDecision) /\ built \in SUBSET (Nodes \X Nodes)
      /\ Shapes /\ \A m \in All : inited[m] => template[m] = Templates[m]
  BY OfRequest DEF IInv
<1>3. n \in All /\ c.round \in 0 .. NumRounds - 1 /\ c.round \in Outputs
  BY <1>1, <1>2, Numbers DEF Rec
<1>4. /\ said \in Rec
      /\ said.phase = c.phase /\ said.round = c.round /\ said.spatial = c.spatial
      /\ said.temporal = c.temporal /\ said.indeg = c.indeg /\ said.queue = c.queue
      /\ said.node = n /\ said.mem = c.mem /\ said.ran = c.ran
      /\ said.out[n] = c.round
      /\ \A p \in All : p # n => said.out[p] = c.out[p]
  BY <1>2, <1>3 DEF Rec
<1>5. /\ g' = [g EXCEPT ![r] = rec]
      /\ inited' = inited /\ template' = template /\ condition' = condition
      /\ UNCHANGED <<mode, team, masks, built>>
      /\ response' = IF mode = "allow_kv_reuse"
                       THEN [response EXCEPT ![n][r] = Append(@, c.round)]
                       ELSE response
  BY DEF Finish
<1> HIDE DEF c, said
<1>6. Heard(said, said.node, mode)
  BY <1>4 DEF Heard
<1>7. /\ Sound(rec, built, mode, HasDecision)
      /\ rec.phase = c.phase /\ rec.round = c.round /\ rec.node = 0
      /\ c.phase \in {"init", "round"} => Passed(rec) = Passed(c) \cup {n}
      /\ c.phase \in {"initDecision", "decision"} => n = Decision
  BY <1>1, <1>2, <1>4, <1>6, AfterSound
<1> HIDE DEF rec
<1>8. CASE mode # "allow_kv_reuse"
  BY <1>5, <1>7, <1>8, LocalKeeps
<1>9. CASE mode = "allow_kv_reuse"
  <2> DEFINE kept == response[n][r]
             more == Append(kept, c.round)
  <2>1. kept \in Seq(0 .. NumRounds - 1)
    BY <1>2, <1>3 DEF Shapes
  <2>2. /\ more \in Seq(0 .. NumRounds - 1) /\ more # <<>>
        /\ Last(more) = c.round
    <3>1. /\ more \in Seq(0 .. NumRounds - 1) /\ more # <<>>
          /\ Len(more) = Len(kept) + 1 /\ more[Len(kept) + 1] = c.round
      <4> HIDE DEF kept
      <4> QED BY <1>3, <2>1, AppendProperties
    <3> HIDE DEF more
    <3>2. Last(more) = more[Len(more)]
      BY DEF Last
    <3> QED BY <3>1, <3>2
  <2>3. response' = [response EXCEPT ![n][r] = more]
    BY <1>5, <1>9
  <2> HIDE DEF more, n
  <2>4. /\ response' \in [All -> [Requests -> Seq(0 .. NumRounds - 1)]]
        /\ response'[n][r] = more
        /\ \A p \in All : p # n => response'[p] = response[p]
        /\ \A s \in Requests \ {r} : \A p \in All : response'[p][s] = response[p][s]
    BY <1>2, <1>3, <2>2, <2>3 DEF Shapes
  <2>5. /\ Prepared(c, inited, HasDecision) /\ Answered(c, response, r)
        /\ ConditionsSound(c, condition, r, Templates)
    BY <1>9, OfRequest DEF c
  <2>6. Before(rec) \subseteq Before(c) \cup {n} /\ Before(c) \subseteq All
    BY <1>1, <1>7, Numbers DEF Before, Passed
  <2>7. Answered(rec, response', r)
    <3>1. ASSUME NEW p \in Before(rec)
          PROVE  response'[p][r] # <<>> /\ Last(response'[p][r]) = c.round
      <4>1. CASE p = n
        BY <2>2, <2>4, <4>1
      <4>2. CASE p # n
        <5>1. p \in Before(c) /\ p \in All
          BY <2>6, <4>2
        <5> QED BY <1>1, <2>4, <2>5, <4>2, <5>1 DEF Answered
      <4> QED BY <4>1, <4>2
    <3> QED BY <1>7, <3>1 DEF Answered
  <2>8. Prepared(rec, inited', HasDecision) /\ ConditionsSound(rec, condition', r, Templates)
    BY <1>1, <1>5, <1>7, <2>5 DEF Prepared, ConditionsSound
  <2>9. Reuse(rec, r, inited', response', condition', Templates, HasDecision)
    BY <2>7, <2>8 DEF Reuse
  <2> QED BY <1>2, <1>5, <1>7, <2>4, <2>9, StepKeeps DEF Shapes
<1> QED BY <1>8, <1>9

\* A node is tried again, or given up without an output.
LEMMA RetryKeeps ==
  ASSUME IInv, NEW r \in Requests, Retry(r)
  PROVE  IInv'
<1> DEFINE c == g[r]
           n == c.node
           tried == [c EXCEPT !.tries = c.tries + 1]
<1>1. mode = "run" /\ c.phase = "round" /\ n # 0
  BY DEF Retry
<1>2. c \in Rec /\ Sound(c, built, mode, HasDecision) /\ built \in SUBSET (Nodes \X Nodes)
  BY OfRequest
<1>3. c.tries \in 0 .. MaxTries - 1
  BY <1>2 DEF Rec
<1>4. tried.tries = c.tries + 1
  BY <1>2 DEF Rec
<1>5. g' = [g EXCEPT ![r] = IF tried.tries < MaxTries THEN tried ELSE AfterNode(tried, n)]
  BY DEF Retry
<1>6. CASE c.tries + 1 < MaxTries
  <2>1. c.tries + 1 \in 0 .. MaxTries - 1
    BY <1>3, <1>6, Numbers
  <2>2. Sound(tried, built, mode, HasDecision)
    BY <1>2, <2>1, TriedSound
  <2>3. g' = [g EXCEPT ![r] = tried]
    BY <1>4, <1>5, <1>6
  <2> HIDE DEF tried
  <2> QED BY <1>1, <2>2, <2>3, LocalKeeps DEF Retry
<1>7. CASE ~(c.tries + 1 < MaxTries)
  <2>1. AfterNode(tried, n) = AfterNode(c, n)
    BY <1>2 DEF AfterNode, Rec
  <2>2. Heard(c, n, mode)
    BY <1>1, <1>2 DEF Sound, RunningSound, Heard
  <2>3. Sound(AfterNode(c, n), built, mode, HasDecision)
    <3> HIDE DEF c
    <3> QED BY <1>1, <1>2, <2>2, AfterSound
  <2>4. g' = [g EXCEPT ![r] = AfterNode(c, n)]
    BY <1>4, <1>5, <1>7, <2>1
  <2> DEFINE rec == AfterNode(c, n)
  <2> HIDE DEF rec
  <2> QED BY <1>1, <2>3, <2>4, LocalKeeps DEF Retry, rec
<1> QED BY <1>6, <1>7

\* A request that fails stops.
LEMMA FailKeeps ==
  ASSUME IInv, NEW r \in Requests, Fail(r)
  PROVE  IInv'
<1> DEFINE c == g[r]
           rec == [c EXCEPT !.phase = "failed", !.node = 0, !.queue = <<>>]
<1>1. c \in Rec /\ Sound(c, built, mode, HasDecision) /\ g \in [Requests -> Rec]
  BY OfRequest DEF IInv, Shapes
<1>2. rec \in Rec
  <2>1. "failed" \in Phases /\ <<>> \in Seq(All)
    BY DEF Phases
  <2> QED BY <1>1, <2>1 DEF Rec
<1>3. /\ rec.phase = "failed" /\ rec.node = 0 /\ rec.queue = <<>>
      /\ rec.round = c.round /\ rec.temporal = c.temporal
  BY <1>1 DEF Rec
<1>4. g' = [g EXCEPT ![r] = rec]
  BY <1>1 DEF Fail
<1> HIDE DEF rec
<1>5. Sound(rec, built, mode, HasDecision)
  BY <1>1, <1>2, <1>3, EndedSound
<1>6. Reuse(rec, r, inited, response, condition, Templates, HasDecision)
  BY <1>3 DEF Reuse, Prepared, Answered, ConditionsSound
<1> QED BY <1>4, <1>5, <1>6, LocalKeeps DEF Fail

\* The outputs of a round are the memories of the next.
LEMMA EndRoundKeeps ==
  ASSUME IInv, NEW r \in Requests, EndRound(r)
  PROVE  IInv'
<1> DEFINE c == g[r]
           mem == [n \in All |-> IF n \in Nodes THEN c.out[n] ELSE c.mem[n]]
           kept == [c EXCEPT !.mem = mem]
<1>1. c.node = 0 /\ c.queue = <<>> /\ c.phase = "round"
  BY DEF EndRound, Idle
<1>2. /\ c \in Rec /\ Sound(c, built, mode, HasDecision)
      /\ built \in SUBSET (Nodes \X Nodes) /\ Acyclic(built)
      /\ masks.temporal \in SUBSET (Nodes \X Nodes)
  BY OfRequest
<1>3. Passed(c) = Nodes
  BY <1>1, <1>2, PassComplete DEF Sound
<1>4. mem \in [All -> Outputs] /\ \A p \in Nodes : mem[p] = c.out[p]
  BY <1>2, Numbers DEF Rec
<1>5. g' = [g EXCEPT ![r] =
              IF c.round + 1 < NumRounds THEN Open(kept, "round", c.round + 1)
              ELSE IF HasDecision THEN OpenDecision(kept, "decision")
              ELSE [kept EXCEPT !.phase = "done"]]
  BY DEF EndRound
<1> HIDE DEF mem
<1>6. /\ kept \in Rec
      /\ kept.phase = c.phase /\ kept.round = c.round /\ kept.spatial = c.spatial
      /\ kept.temporal = c.temporal /\ kept.out = c.out /\ kept.node = c.node
      /\ kept.ran = c.ran /\ kept.mem = mem /\ kept.queue = c.queue
  BY <1>2, <1>4 DEF Rec
<1> HIDE DEF kept
<1>7. \A p \in Nodes : Heard(c, p, mode)
  BY <1>1, <1>2, <1>3 DEF Sound, OutputsSound
<1>8. mode = "allow_kv_reuse" =>
        /\ Prepared(c, inited, HasDecision) /\ Answered(c, response, r)
        /\ ConditionsSound(c, condition, r, Templates)
  BY OfRequest
<1>9. c.round \in 0 .. NumRounds - 1
  BY <1>2 DEF Rec
<1>10. UNCHANGED <<mode, team, masks, built, inited, template, condition, response>>
  BY DEF EndRound
<1> HIDE DEF c
<1>11. CASE c.round + 1 < NumRounds
  <2> DEFINE rec == Open(kept, "round", c.round + 1)
  <2>1. c.round + 1 \in 0 .. NumRounds - 1 /\ c.round + 1 # 0 /\ (c.round + 1) - 1 = c.round
    BY <1>9, <1>11, Numbers
  <2>2. \A p \in Nodes : Recalled(kept.mem, c.round + 1, p, mode)
    BY <1>4, <1>6, <1>7, <2>1 DEF Heard, Recalled
  <2>3. /\ Sound(rec, built, mode, HasDecision)
        /\ rec.phase = "round" /\ rec.round = c.round + 1 /\ rec.node = 0 /\ Passed(rec) = {}
    BY <1>1, <1>2, <1>6, <2>1, <2>2, OpenSound
  <2>4. g' = [g EXCEPT ![r] = rec]
    BY <1>5, <1>11
  <2> HIDE DEF rec
  <2>5. ASSUME mode = "allow_kv_reuse"
        PROVE  Reuse(rec, r, inited, response, condition, Templates, HasDecision)
    BY <1>1, <1>8, <2>1, <2>3, <2>5 DEF Reuse, Prepared, Answered, ConditionsSound, Before
  <2> QED BY <1>10, <2>3, <2>4, <2>5, LocalKeeps
<1>12. CASE ~(c.round + 1 < NumRounds) /\ HasDecision
  <2> DEFINE rec == OpenDecision(kept, "decision")
  <2>1. /\ Sound(rec, built, mode, HasDecision)
        /\ rec.phase = "decision" /\ rec.round = c.round /\ rec.node = 0
    <3>1. rec = OpenDecision(kept, "decision")
      OBVIOUS
    <3>2. CarriedOver(kept, c) /\ Opens(c, kept, "decision")
      BY <1>1, <1>6 DEF CarriedOver, Opens
    <3>3. /\ c \in Rec /\ Sound(c, built, mode, HasDecision) /\ c.node = 0 /\ c.queue = <<>>
          /\ built \in SUBSET (Nodes \X Nodes) /\ Acyclic(built)
      BY <1>1, <1>2
    <3>4. Waits(c)
      BY <3>3 DEF Waits
    <3> HIDE DEF rec
    <3>5. Opened(OpenDecision(kept, "decision"), c, "decision")
      BY <1>12, <3>2, <3>3, <3>4, OpenDecisionSound
    <3> QED BY <3>1, <3>5 DEF Opened
  <2>2. g' = [g EXCEPT ![r] = rec]
    BY <1>5, <1>12
  <2> HIDE DEF rec
  <2>3. ASSUME mode = "allow_kv_reuse"
        PROVE  Reuse(rec, r, inited, response, condition, Templates, HasDecision)
    BY <1>1, <1>3, <1>8, <2>1, <2>3 DEF Reuse, Prepared, Answered, ConditionsSound, Before
  <2> QED BY <1>10, <2>1, <2>2, <2>3, LocalKeeps
<1>13. CASE ~(c.round + 1 < NumRounds) /\ ~HasDecision
  <2> DEFINE rec == [kept EXCEPT !.phase = "done"]
  <2>1. rec \in Rec
    BY <1>6 DEF Rec, Phases
  <2>2. /\ rec.phase = "done" /\ rec.node = 0 /\ rec.queue = <<>>
        /\ rec.round = c.round /\ rec.temporal = c.temporal
    BY <1>1, <1>6 DEF Rec
  <2>3. g' = [g EXCEPT ![r] = rec]
    BY <1>5, <1>13
  <2> HIDE DEF rec
  <2>4. Sound(rec, built, mode, HasDecision)
    BY <1>2, <2>1, <2>2, EndedSound
  <2>5. Reuse(rec, r, inited, response, condition, Templates, HasDecision)
    BY <2>2 DEF Reuse, Prepared, Answered, ConditionsSound
  <2> QED BY <1>10, <2>3, <2>4, <2>5, LocalKeeps
<1> QED BY <1>11, <1>12, <1>13

\* A request ends when its decision node has run.
LEMMA EndDecisionKeeps ==
  ASSUME IInv, NEW r \in Requests, EndDecision(r)
  PROVE  IInv'
<1> DEFINE c == g[r]
           rec == [c EXCEPT !.phase = "done"]
<1>1. c.node = 0 /\ c.queue = <<>>
  BY DEF EndDecision, Idle
<1>2. c \in Rec /\ Sound(c, built, mode, HasDecision) /\ g \in [Requests -> Rec]
  BY OfRequest DEF IInv, Shapes
<1>3. rec \in Rec
  BY <1>2 DEF Rec, Phases
<1>4. /\ rec.phase = "done" /\ rec.node = 0 /\ rec.queue = <<>>
      /\ rec.round = c.round /\ rec.temporal = c.temporal
  BY <1>1, <1>2 DEF Rec
<1>5. g' = [g EXCEPT ![r] = rec]
  BY <1>2 DEF EndDecision
<1> HIDE DEF rec
<1>6. Sound(rec, built, mode, HasDecision)
  BY <1>2, <1>3, <1>4, EndedSound
<1>7. Reuse(rec, r, inited, response, condition, Templates, HasDecision)
  BY <1>4 DEF Reuse, Prepared, Answered, ConditionsSound
<1> QED BY <1>5, <1>6, <1>7, LocalKeeps DEF EndDecision

-----------------------------------------------------------------------------
(* The theorems.                                                           *)

\* At the start nothing has begun and nothing is prepared.
LEMMA InitHolds == Init => IInv
<1> SUFFICES ASSUME Init PROVE IInv
  OBVIOUS
<1>1. Fixed
  <2>1. masks.temporal \in TemporalMasks /\ built = ConstructSpatial(masks.spatial) /\ team \in Teams
    BY DEF Init
  <2> QED BY <2>1, MasksAssumption, ConstructAcyclic DEF Fixed
<1>2. /\ NewGraph \in Rec /\ Sound(NewGraph, built, mode, HasDecision)
      /\ NewGraph.phase = "idle"
  BY NewGraphSound DEF Sound, NewGraph
<1>3. g = [r \in Requests |-> NewGraph]
  BY DEF Init
<1>4. Shapes
  <2>1. NoTemplate \in [agents : SUBSET Nodes, conditions : SUBSET Nodes]
    BY DEF NoTemplate
  <2>2. <<>> \in Seq(0 .. NumRounds - 1)
    OBVIOUS
  <2> QED BY <1>2, <1>3, <2>1, <2>2, Numbers DEF Init, Shapes
<1>5. \A n \in All : ~inited[n]
  BY DEF Init
<1>6. \A p \in Nodes, r \in Requests : condition[p][r] = Never
  BY DEF Init
<1> HIDE DEF NewGraph
<1>7. \A r \in Requests : Reuse(g[r], r, inited, response, condition, Templates, HasDecision)
  BY <1>2, <1>3, <1>6 DEF Reuse, Prepared, Answered, ConditionsSound
<1> QED BY <1>1, <1>2, <1>3, <1>4, <1>5, <1>7 DEF IInv

\* Every step keeps the invariant.
LEMMA NextKeeps == IInv /\ [Next]_vars => IInv'
<1> SUFFICES ASSUME IInv, [Next]_vars PROVE IInv'
  OBVIOUS
<1>1. ASSUME NEW r \in Requests, Step(r)
      PROVE  IInv'
  BY <1>1, BeginKeeps, StartInitKeeps, FinishInitKeeps, EndInitKeeps, EndInitDecisionKeeps,
     StartKeeps, FinishKeeps, RetryKeeps, FailKeeps, EndRoundKeeps, EndDecisionKeeps, Zenon
     DEF Step
<1>2. CASE UNCHANGED vars
  <2>1. Templates' = Templates /\ HasDecision' = HasDecision /\ Fixed'
    BY <1>2, FixedStays DEF vars, IInv
  <2>2. /\ inited' = inited /\ template' = template /\ condition' = condition
        /\ response' = response /\ g' = g /\ mode' = mode /\ built' = built
    BY <1>2 DEF vars
  <2> QED BY <2>1, <2>2 DEF IInv, Shapes
<1> QED BY <1>1, <1>2 DEF Next


\* There is an agent, so that a queue of one is not too long.
LEMMA ShortQueue ==
  ASSUME NEW q, q = <<Decision>> \/ q = <<>>
  PROVE  Len(q) <= N
<1>1. N \in Nat /\ 0 <= N /\ 1 <= N
  BY NAssumption
<1>2. CASE q = <<Decision>>
  <2>1. Len(q) = 1
    BY <1>2
  <2> QED BY <1>1, <2>1
<1>3. CASE q = <<>>
  <2>1. Len(q) = 0
    BY <1>3
  <2> QED BY <1>1, <2>1
<1> QED BY <1>2, <1>3

\* The invariant implies the type invariant.
LEMMA TypesFollow == IInv => TypeOK
<1> SUFFICES ASSUME IInv, NEW r \in Requests
             PROVE  /\ g[r].phase \in Phases
                    /\ g[r].round \in 0 .. NumRounds - 1
                    /\ g[r].spatial \subseteq Nodes \X All
                    /\ g[r].temporal \subseteq Nodes \X Nodes
                    /\ g[r].indeg \in [Nodes -> 0 .. N]
                    /\ g[r].queue \in Seq(All) /\ Len(g[r].queue) <= N
                    /\ g[r].node \in {0} \cup All
                    /\ g[r].tries \in 0 .. MaxTries - 1
                    /\ g[r].out \in [All -> Outputs]
                    /\ g[r].mem \in [All -> Outputs]
  BY DEF TypeOK, IInv, Shapes
<1> DEFINE c == g[r]
<1>1. c \in Rec /\ Sound(c, built, mode, HasDecision)
  BY OfRequest
<1>2. c.queue \in Seq(All) /\ c.phase \in Phases
  BY <1>1 DEF Rec
<1>3. Len(c.queue) <= N
  <2>1. CASE c.phase \in {"init", "round"}
    <3>1. Once(c.queue) /\ \A m \in Members(c.queue) : m \in Nodes
      BY <1>1, <2>1 DEF Sound, PassSound
    <3>2. Len(c.queue) \in Nat /\ c.queue \in [1 .. Len(c.queue) -> All]
      BY <1>2, LenProperties
    <3>3. \A i \in 1 .. Len(c.queue) : c.queue[i] \in Nodes
      BY <3>1 DEF Members
    <3> HIDE DEF c
    <3>4. c.queue = [i \in 1 .. Len(c.queue) |-> c.queue[i]]
      BY <3>2
    <3>5. c.queue \in Seq(Nodes)
      BY <3>2, <3>3, <3>4
    <3> QED BY <3>1, <3>5, OnceLength
  <2>2. CASE c.phase \in {"initDecision", "decision"}
    <3>1. c.queue = <<Decision>> \/ c.queue = <<>>
      BY <1>1, <2>2 DEF Sound, DecisionSound
    <3> QED BY <3>1, ShortQueue
  <2>3. CASE c.phase \in {"idle", "done", "failed"}
    <3>1. c.queue = <<>>
      BY <1>1, <2>3 DEF Sound, RestSound
    <3> QED BY <3>1, Numbers
  <2> QED BY <1>2, <2>1, <2>2, <2>3 DEF Phases
<1> QED BY <1>1, <1>3 DEF Rec

\* The invariant implies the order of the executions.
LEMMA OrderFollows == IInv => EveryNodeOnce
<1> SUFFICES ASSUME IInv, NEW r \in Requests, Answering(r)
             PROVE  LET ran == g[r].ran
                    IN /\ \A i \in 1 .. Len(ran) :
                            /\ \A j \in 1 .. i - 1 : ran[j] # ran[i]
                            /\ \A p \in Predecessors(g[r].spatial, ran[i]) :
                                 \E j \in 1 .. i - 1 : ran[j] = p
                       /\ Idle(r) => Nodes \subseteq {ran[i] : i \in 1 .. Len(ran)}
  BY DEF EveryNodeOnce
<1> DEFINE c == g[r]
<1>1. /\ c \in Rec /\ Sound(c, built, mode, HasDecision) /\ c.phase \in {"round", "decision"}
      /\ built \in SUBSET (Nodes \X Nodes) /\ Acyclic(built)
  BY OfRequest DEF Answering
<1>2. Len(c.ran) \in Nat
  BY <1>1, LenProperties DEF Rec
<1>3. Ordered(c.spatial, c.ran)
  BY <1>1 DEF Sound, PassSound, RoundSound, DecisionSound
<1>4. Once(c.ran)
  BY <1>1 DEF Sound, RoundSound, DecisionSound, Lists
<1>5. ASSUME Idle(r)
      PROVE  Nodes \subseteq Members(c.ran)
  <2>1. c.node = 0 /\ c.queue = <<>>
    BY <1>5 DEF Idle
  <2>2. CASE c.phase = "round"
    <3>1. Passed(c) = Nodes
      BY <1>1, <2>1, <2>2, PassComplete DEF Sound
    <3>2. Members(c.ran) = Passed(c) \cup ({c.node} \ {0})
      BY <1>1, <2>2 DEF Sound, RoundSound, Lists
    <3> QED BY <3>1, <3>2
  <2>3. CASE c.phase = "decision"
    <3>1. Members(c.ran) = All
      BY <1>1, <2>1, <2>3 DEF Sound, DecisionSound, Lists
    <3> QED BY <3>1, Numbers
  <2> QED BY <1>1, <2>2, <2>3
<1> HIDE DEF c
<1>6. ASSUME NEW i \in 1 .. Len(c.ran), NEW j \in 1 .. i - 1
      PROVE  c.ran[j] # c.ran[i]
  BY <1>2, <1>4 DEF Once
<1>7. ASSUME NEW i \in 1 .. Len(c.ran), NEW p \in Predecessors(c.spatial, c.ran[i])
      PROVE  \E j \in 1 .. i - 1 : c.ran[j] = p
  BY <1>3 DEF Ordered
<1> QED BY <1>5, <1>6, <1>7 DEF c, Members

\* The invariant implies that the inputs are current.
LEMMA InputsFollow == IInv => InputsCurrent
<1> SUFFICES ASSUME IInv, NEW r \in Requests
             PROVE  InputsSound(g[r], mode)
  BY DEF InputsCurrent, InputsSound, Answering
<1> QED BY OfRequest DEF Sound

\* The invariant implies that the placeholders are filled.
LEMMA PlaceholdersFollow == IInv => PlaceholdersReady
<1> SUFFICES ASSUME IInv, NEW r \in Requests, mode = "allow_kv_reuse",
                    Answering(r), g[r].node # 0
             PROVE  LET n == g[r].node
                    IN /\ inited[n]
                       /\ template[n].agents = Predecessors(g[r].spatial, n)
                       /\ \A p \in template[n].agents :
                            response[p][r] # <<>> /\ Last(response[p][r]) = g[r].round
                       /\ \A p \in template[n].conditions :
                            condition[p][r] # Never /\ (g[r].round = 0 => condition[p][r] = 0)
  BY DEF PlaceholdersReady
<1> DEFINE c == g[r]
           n == c.node
<1>1. /\ c \in Rec /\ Sound(c, built, mode, HasDecision) /\ c.phase \in {"round", "decision"}
      /\ built \in SUBSET (Nodes \X Nodes)
      /\ Prepared(c, inited, HasDecision) /\ Answered(c, response, r)
      /\ ConditionsSound(c, condition, r, Templates)
  BY OfRequest DEF Answering
<1>2. n \in All /\ n # 0
  BY <1>1 DEF Rec
<1>3. /\ inited[n]
      /\ Predecessors(c.spatial, n) = IF n = Decision THEN Nodes ELSE Predecessors(built, n)
      /\ Predecessors(c.spatial, n) \subseteq Before(c)
  <2>1. CASE c.phase = "round"
    <3>1. n \in Nodes /\ c.spatial = built /\ c.indeg[n] = 0
      BY <1>1, <1>2, <2>1 DEF Sound, PassSound
    <3>2. c.indeg[n] = Cardinality(Predecessors(built, n) \ Passed(c))
      BY <1>1, <2>1, <3>1 DEF Sound, PassSound
    <3> DEFINE L == Predecessors(built, n) \ Passed(c)
    <3>3. IsFiniteSet(L) /\ Cardinality(L) = 0
      <4>1. L \in SUBSET Nodes
        BY DEF Predecessors
      <4> QED BY <3>1, <3>2, <4>1, NodesCount
    <3> HIDE DEF L
    <3>4. L = {}
      BY <3>3, FS_EmptySet
    <3>5. Predecessors(built, n) \subseteq Passed(c)
      BY <3>4 DEF L
    <3> QED BY <1>1, <2>1, <3>1, <3>5, Numbers DEF Prepared, Before
  <2>2. CASE c.phase = "decision"
    <3>1. n = Decision /\ c.spatial = ConnectDecision(built) /\ HasDecision
      BY <1>1, <1>2, <2>2 DEF Sound, DecisionSound
    <3>2. Predecessors(c.spatial, n) = Nodes
      BY <1>1, <3>1, PredecessorsAre
    <3> QED BY <1>1, <2>2, <3>1, <3>2 DEF Prepared, Before
  <2> QED BY <1>1, <2>1, <2>2
<1>4. template[n] = Templates[n]
  BY <1>2, <1>3 DEF IInv
<1>5. /\ Templates[n].agents = Predecessors(c.spatial, n)
      /\ Templates[n].conditions \subseteq Nodes
  BY <1>2, <1>3 DEF Templates, TemplateOf, Predecessors
<1>6. \A p \in Templates[n].agents :
        response[p][r] # <<>> /\ Last(response[p][r]) = c.round
  BY <1>1, <1>3, <1>5 DEF Answered
<1>7. \A p \in Templates[n].conditions :
        condition[p][r] # Never /\ (c.round = 0 => condition[p][r] = 0)
  BY <1>1, <1>2, <1>5 DEF ConditionsSound
<1> QED BY <1>3, <1>4, <1>5, <1>6, <1>7

\* The inductive invariant holds throughout every run.
THEOREM InvariantHolds == Spec => []IInv
<1> QED BY InitHolds, NextKeeps, PTL DEF Spec

\* The type invariant: the state of Graph, Node and LLMChat stays in its types,
\* and no queue of zero in-degree nodes grows beyond the agents.
THEOREM TypeCorrect == Spec => []TypeOK
<1> QED BY InvariantHolds, TypesFollow, PTL

\* Graph.run and Graph.arun execute every agent once in a round, after its
\* predecessors, and leave none out, whatever cycles the masks ask for.
THEOREM NodesRunOnce == Spec => []EveryNodeOnce
<1> QED BY InvariantHolds, OrderFollows, PTL

\* get_spatial_info and get_temporal_info give a node the outputs of this round
\* and of the round before.
THEOREM InputsAreCurrent == Spec => []InputsCurrent
<1> QED BY InvariantHolds, InputsFollow, PTL

\* Generation with KV reuse finds every placeholder of a shared template
\* filled for its own request.
THEOREM PlaceholdersAreReady == Spec => []PlaceholdersReady
<1> QED BY InvariantHolds, PlaceholdersFollow, PTL
=============================================================================
