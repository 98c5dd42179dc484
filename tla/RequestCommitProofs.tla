------------------------ MODULE RequestCommitProofs ------------------------
(***************************************************************************)
(* Theorems about RequestCommit under BatchSpec, for any number of         *)
(* requests, dictionaries, placeholders and messages: its invariants, and  *)
(* that its lazy copies implement the snapshots of SnapshotBatch.          *)
(***************************************************************************)
EXTENDS RequestCommit, SequenceTheorems, TLAPS

-----------------------------------------------------------------------------
(* What the operators of the scoped dictionaries return. *)

Content == Bucket \cup {Absent}
Cell    == Bucket \cup {Untouched, Deleted}

\* What a request sees is a bucket or nothing.
LEMMA SeenType ==
    ASSUME TypeOK, NEW u \in Uids, NEW d \in Dicts, NEW k \in Keys
    PROVE  Seen(u, d, k) \in Content
<1>1. local[u][d][k] \in Cell /\ base[d][k] \in Content
  BY DEF TypeOK, Overlay, Store, Cell, Content
<1>2. QED
  BY <1>1 DEF Seen, Content, Cell

\* Each access leaves a well-formed local cell.
LEMMA CellTypes ==
    ASSUME TypeOK, NEW u \in Uids, NEW d \in Dicts, NEW k \in Keys
    PROVE  /\ local[u][d] \in [Keys -> Cell]
           /\ AfterRead(u, d, k) \in Cell
           /\ AfterPop(u, d, k) \in Cell
           /\ Ensured(u, d, k) \in Bucket
<1>1. local[u][d] \in [Keys -> Cell] /\ base[d][k] \in Content
  BY DEF TypeOK, Overlay, Store, Cell, Content
<1>2. Seen(u, d, k) \in Content
  BY SeenType
<1>3. {} \in Bucket
  BY DEF Bucket
<1>4. QED
  BY <1>1, <1>2, <1>3 DEF AfterRead, AfterPop, Ensured, Content, Cell

\* A commit turns shared dictionaries into shared dictionaries.
LEMMA CommittedType ==
    ASSUME NEW b \in Store, NEW q \in Seq([uid : Uids, dicts : Overlay])
    PROVE  Committed(b, q) \in Store
<1> SUFFICES ASSUME NEW d \in Dicts, NEW k \in Keys
             PROVE  (IF \E i \in 1..Len(q) : IsLastToTouch(q, i, d, k)
                     THEN LET i == CHOOSE i \in 1..Len(q) : IsLastToTouch(q, i, d, k)
                          IN  IF q[i].dicts[d][k] = Deleted THEN Absent ELSE q[i].dicts[d][k]
                     ELSE b[d][k]) \in Content
  BY DEF Committed, Store, Content
<1>1. b[d][k] \in Content
  BY DEF Store, Content
<1>2. CASE ~ \E i \in 1..Len(q) : IsLastToTouch(q, i, d, k)
  BY <1>1, <1>2
<1>3. CASE \E i \in 1..Len(q) : IsLastToTouch(q, i, d, k)
  <2> DEFINE i == CHOOSE i \in 1..Len(q) : IsLastToTouch(q, i, d, k)
  <2>1. i \in 1..Len(q) /\ IsLastToTouch(q, i, d, k)
    BY <1>3
  <2> HIDE DEF i
  <2>2. q[i] \in [uid : Uids, dicts : Overlay]
    BY <2>1, ElementOfSeq
  <2>3. q[i].dicts[d][k] \in Cell
    BY <2>2 DEF Overlay, Cell
  <2>4. q[i].dicts[d][k] # Untouched
    BY <2>1 DEF IsLastToTouch
  <2>5. (IF q[i].dicts[d][k] = Deleted THEN Absent ELSE q[i].dicts[d][k]) \in Content
    BY <2>3, <2>4 DEF Cell, Content
  <2>6. QED
    BY <1>3, <2>5 DEF i
<1>4. QED
  BY <1>2, <1>3

-----------------------------------------------------------------------------
(* Type correctness *)

\* Replacing one row of one request's overlay keeps TypeOK.
LEMMA AccessType ==
    ASSUME TypeOK, NEW u \in Uids, NEW d \in Dicts, NEW row \in [Keys -> Cell],
           Access(u, d, row)
    PROVE  TypeOK'
<1>1. local[u] \in Overlay
  BY DEF TypeOK
<1>2. [local[u] EXCEPT ![d] = row] \in Overlay
  BY <1>1 DEF Overlay, Cell
<1>3. local' = [local EXCEPT ![u] = [local[u] EXCEPT ![d] = row]]
  BY DEF Access
<1>4. local' \in [Uids -> Overlay]
  BY <1>2, <1>3 DEF TypeOK
<1>5. QED
  BY <1>4 DEF TypeOK, Access, Resolve

\* One access of the engine keeps TypeOK.
LEMMA AccessStepType ==
    ASSUME TypeOK, NEW u \in Uids, AccessStep(u)
    PROVE  TypeOK'
<1>1. PICK d \in Dicts : \/ ScanDict(u, d)
                         \/ \E k \in Keys :
                               \/ ReadBucket(u, d, k)
                               \/ PopBucket(u, d, k)
                               \/ \E m \in Msgs : PutEntry(u, d, k, m) \/ DropEntry(u, d, k, m)
  BY DEF AccessStep
<1>2. \A k \in Keys : /\ local[u][d] \in [Keys -> Cell]
                      /\ AfterRead(u, d, k) \in Cell
                      /\ AfterPop(u, d, k) \in Cell
                      /\ Ensured(u, d, k) \in Bucket
  BY CellTypes
<1>3. CASE ScanDict(u, d)
  <2>1. [k \in Keys |-> AfterRead(u, d, k)] \in [Keys -> Cell]
    BY <1>2
  <2>2. QED
    BY <1>3, <2>1, AccessType DEF ScanDict
<1>4. ASSUME NEW k \in Keys, NEW c \in Cell,
             Access(u, d, [local[u][d] EXCEPT ![k] = c])
      PROVE  TypeOK'
  <2>1. [local[u][d] EXCEPT ![k] = c] \in [Keys -> Cell]
    BY <1>2
  <2>2. QED
    BY <1>4, <2>1, AccessType
<1>5. ASSUME NEW k \in Keys, ReadBucket(u, d, k) PROVE TypeOK'
  BY <1>2, <1>4, <1>5 DEF ReadBucket
<1>6. ASSUME NEW k \in Keys, PopBucket(u, d, k) PROVE TypeOK'
  BY <1>2, <1>4, <1>6 DEF PopBucket
<1>7. ASSUME NEW k \in Keys, NEW m \in Msgs, PutEntry(u, d, k, m) PROVE TypeOK'
  <2>1. Ensured(u, d, k) \cup {m} \in Cell
    BY <1>2 DEF Bucket, Cell
  <2>2. QED
    BY <1>4, <1>7, <2>1 DEF PutEntry
<1>8. ASSUME NEW k \in Keys, NEW m \in Msgs, DropEntry(u, d, k, m) PROVE TypeOK'
  <2>1. Ensured(u, d, k) \ {m} \in Cell
    BY <1>2 DEF Bucket, Cell
  <2>2. QED
    BY <1>4, <1>8, <2>1 DEF DropEntry
<1>9. QED
  BY <1>1, <1>3, <1>5, <1>6, <1>7, <1>8

\* Finalizing a request keeps every variable but phase well typed.
LEMMA FinalizeType ==
    ASSUME TypeOK, NEW u \in Uids, Finalize(u)
    PROVE  /\ base' \in Store
           /\ states' \subseteq Uids
           /\ local' \in [Uids -> Overlay]
           /\ active' \subseteq Uids
           /\ staged' \in Seq([uid : Uids, dicts : Overlay])
<1> DEFINE q == Append(staged, [uid |-> u, dicts |-> local[u]])
<1>1. [uid |-> u, dicts |-> local[u]] \in [uid : Uids, dicts : Overlay]
  BY DEF TypeOK
<1>2. q \in Seq([uid : Uids, dicts : Overlay])
  BY <1>1 DEF TypeOK
<1>3. Committed(base, q) \in Store
  BY <1>2, CommittedType DEF TypeOK
<1>4. Fresh \in Overlay
  BY DEF Fresh, Overlay
<1>5. local' \in [Uids -> Overlay]
  BY <1>4 DEF Finalize, TypeOK
<1>6. \/ base' = Committed(base, q) /\ staged' = <<>>
      \/ base' = base /\ staged' = q
  BY DEF Finalize
<1> HIDE DEF q
<1>7. base' \in Store /\ staged' \in Seq([uid : Uids, dicts : Overlay])
  <2>1. <<>> \in Seq([uid : Uids, dicts : Overlay])
    OBVIOUS
  <2>2. base \in Store
    BY DEF TypeOK
  <2>3. QED
    BY <1>2, <1>3, <1>6, <2>1, <2>2
<1>8. states' \subseteq Uids /\ active' \subseteq Uids
  BY DEF Finalize, TypeOK
<1>9. QED
  BY <1>5, <1>7, <1>8

\* The type invariant holds of every batch of arun, whatever runs raise (BatchSpec).
THEOREM TypeCorrect == BatchSpec => []TypeOK
<1>1. Init => TypeOK
  <2>1. Empty \in Store /\ Fresh \in Overlay
    BY DEF Empty, Store, Fresh, Overlay
  <2>2. QED
    BY <2>1 DEF Init, TypeOK
<1>2. TypeOK /\ [BatchNext]_vars => TypeOK'
  <2> SUFFICES ASSUME TypeOK, [BatchNext]_vars PROVE TypeOK'
    OBVIOUS
  <2>1. ASSUME NEW u \in Uids, StartRun(u) PROVE TypeOK'
    BY <2>1 DEF StartRun, TypeOK
  <2>2. ASSUME NEW u \in Uids, AccessStep(u) PROVE TypeOK'
    BY <2>2, AccessStepType
  <2>3. ASSUME NEW u \in Uids, EndRun(u) PROVE TypeOK'
    <3>1. phase' \in [Uids -> {"idle", "running", "finished", "failed"}]
      BY <2>3 DEF EndRun, TypeOK
    <3>2. CASE u \in states
      BY <2>3, <3>1, <3>2, FinalizeType DEF EndRun, TypeOK
    <3>3. CASE u \notin states
      BY <2>3, <3>1, <3>3 DEF EndRun, TypeOK
    <3>4. QED
      BY <3>2, <3>3
  <2>4. ASSUME NEW u \in Uids, FailRun(u) PROVE TypeOK'
    BY <2>4 DEF FailRun, TypeOK
  <2>5. CASE UNCHANGED vars
    BY <2>5 DEF vars, TypeOK
  <2>6. QED
    BY <2>1, <2>2, <2>3, <2>4, <2>5 DEF BatchNext, BatchStep, Returned
<1>3. QED
  BY <1>1, <1>2, PTL DEF BatchSpec

-----------------------------------------------------------------------------
(* The flush discipline of finalize_request *)

\* An access makes the request's state if there is none, and stages nothing.
LEMMA AccessStepEffect ==
    ASSUME NEW u \in Uids, AccessStep(u)
    PROVE  /\ Running(u) /\ Resolve(u)
           /\ UNCHANGED <<base, staged, phase>>
  BY DEF AccessStep, ScanDict, ReadBucket, PopBucket, PutEntry, DropEntry, Access

\* Every step of a batch keeps the request states and the active set equal, and
\* leaves staged states behind only when an active request will flush them.
LEMMA NothingStrandedStep ==
    ASSUME NothingStranded, [BatchNext]_vars
    PROVE  NothingStranded'
<1>1. ASSUME NEW u \in Uids, StartRun(u) PROVE NothingStranded'
  BY <1>1 DEF StartRun, NothingStranded
<1>2. ASSUME NEW u \in Uids, AccessStep(u) PROVE NothingStranded'
  BY <1>2, AccessStepEffect DEF Resolve, NothingStranded
<1>3. ASSUME NEW u \in Uids, EndRun(u) PROVE NothingStranded'
  BY <1>3 DEF EndRun, Finalize, NothingStranded
<1>4. ASSUME NEW u \in Uids, FailRun(u) PROVE NothingStranded'
  BY <1>4 DEF FailRun, NothingStranded
<1>5. CASE UNCHANGED vars
  BY <1>5 DEF vars, NothingStranded
<1>6. QED
  BY <1>1, <1>2, <1>3, <1>4, <1>5 DEF BatchNext, BatchStep, Returned

\* Whatever is staged waits for a request that is still active, also when runs
\* may fail: a failed run stays active, so it delays the flush forever.
THEOREM NothingIsStranded == BatchSpec => []NothingStranded
<1>1. Init => NothingStranded
  BY DEF Init, NothingStranded
<1>2. QED
  BY <1>1, NothingStrandedStep, PTL DEF BatchSpec

\* The shared dictionaries change only in a step that leaves no request state.
LEMMA BaseChangesAtFlush ==
    ASSUME NothingStranded, [BatchNext]_vars, base' # base
    PROVE  states' = {}
<1>1. ASSUME NEW u \in Uids, StartRun(u) PROVE FALSE
  BY <1>1 DEF StartRun
<1>2. ASSUME NEW u \in Uids, AccessStep(u) PROVE FALSE
  BY <1>2, AccessStepEffect
<1>3. ASSUME NEW u \in Uids, EndRun(u) PROVE states' = {}
  BY <1>3 DEF EndRun, Finalize, NothingStranded
<1>4. ASSUME NEW u \in Uids, FailRun(u) PROVE FALSE
  BY <1>4 DEF FailRun
<1>5. CASE UNCHANGED vars
  BY <1>5 DEF vars
<1>6. QED
  BY <1>1, <1>2, <1>3, <1>4, <1>5 DEF BatchNext, BatchStep, Returned

\* No request ever sees another one's work: the snapshot property of the
\* deferred commits, for any number of overlapping requests.
THEOREM ViewsAreStable == BatchSpec => StableView
<1> DEFINE Stable == \A u \in states \cap states', d \in Dicts, k \in Keys :
                        local'[u][d][k] = local[u][d][k] => Seen(u, d, k)' = Seen(u, d, k)
<1>1. NothingStranded /\ [BatchNext]_vars => [Stable]_vars
  <2> SUFFICES ASSUME NothingStranded, [BatchNext]_vars,
                      NEW u \in states \cap states', NEW d \in Dicts, NEW k \in Keys,
                      local'[u][d][k] = local[u][d][k]
               PROVE  Seen(u, d, k)' = Seen(u, d, k)
    OBVIOUS
  <2>1. base' = base
    BY BaseChangesAtFlush
  <2>2. QED
    BY <2>1 DEF Seen
<1>2. QED
  BY <1>1, NothingIsStranded, PTL DEF BatchSpec, StableView

\* The states of the engine belong to runs that go on or that failed.
OwnersAlive == \A u \in states : Running(u) \/ (phase[u] = "failed" /\ u \in MayFail)

LEMMA OwnersAliveStep ==
    ASSUME TypeOK, OwnersAlive, [BatchNext]_vars
    PROVE  OwnersAlive'
<1> USE DEF OwnersAlive, Running
<1>1. ASSUME NEW u \in Uids, StartRun(u) PROVE OwnersAlive'
  BY <1>1 DEF StartRun, TypeOK
<1>2. ASSUME NEW u \in Uids, AccessStep(u) PROVE OwnersAlive'
  BY <1>2, AccessStepEffect DEF Resolve
<1>3. ASSUME NEW u \in Uids, EndRun(u) PROVE OwnersAlive'
  <2>1. u \notin states' /\ states' \subseteq states
    BY <1>3 DEF EndRun, Finalize
  <2>2. \A v \in Uids \ {u} : phase'[v] = phase[v]
    BY <1>3 DEF EndRun, TypeOK
  <2>3. QED
    BY <2>1, <2>2 DEF TypeOK
<1>4. ASSUME NEW u \in Uids, FailRun(u) PROVE OwnersAlive'
  BY <1>4 DEF FailRun, TypeOK
<1>5. CASE UNCHANGED vars
  BY <1>5 DEF vars
<1>6. QED
  BY <1>1, <1>2, <1>3, <1>4, <1>5 DEF BatchNext, BatchStep, Returned

\* When no run is in progress and none has failed, everything that was staged is
\* flushed: a live state has an owner that runs or has failed.
THEOREM QuietIsFlushed == BatchSpec => []FlushedWhenQuiet
<1>1. Init => OwnersAlive
  BY DEF Init, OwnersAlive
<1>2. TypeOK /\ OwnersAlive /\ NothingStranded => FlushedWhenQuiet
  BY DEF TypeOK, OwnersAlive, NothingStranded, FlushedWhenQuiet, Running
<1>3. QED
  BY <1>1, <1>2, TypeCorrect, NothingIsStranded, OwnersAliveStep, PTL DEF BatchSpec

-----------------------------------------------------------------------------
(* A request without state has touched nothing.                            *)

Clean == \A u \in Uids \ states : local[u] = Fresh

LEMMA FreshTouchesNothing == Touched(Fresh) = {}
BY DEF Touched, Fresh, SlotsOf

\* The effect of an access on the overlays: only one row of one request changes,
\* and what the request has touched it does not leave untouched again.
LEMMA AccessStepLocal ==
    ASSUME TypeOK, NEW u \in Uids, AccessStep(u)
    PROVE  /\ \A v \in Uids \ {u} : local'[v] = local[v]
           /\ \A d \in Dicts, k \in Keys :
                 local[u][d][k] # Untouched => local'[u][d][k] # Untouched
<1>1. PICK d \in Dicts : \/ ScanDict(u, d)
                         \/ \E k \in Keys :
                               \/ ReadBucket(u, d, k)
                               \/ PopBucket(u, d, k)
                               \/ \E m \in Msgs : PutEntry(u, d, k, m) \/ DropEntry(u, d, k, m)
  BY DEF AccessStep
<1>2. /\ local \in [Uids -> Overlay]
      /\ local[u] \in [Dicts -> [Keys -> Cell]]
  BY DEF TypeOK, Overlay, Cell
<1>3. ASSUME NEW row, Access(u, d, row),
             \A k \in Keys : local[u][d][k] # Untouched => row[k] # Untouched
      PROVE  /\ \A v \in Uids \ {u} : local'[v] = local[v]
             /\ \A e \in Dicts, k \in Keys :
                   local[u][e][k] # Untouched => local'[u][e][k] # Untouched
  <2>1. local' = [local EXCEPT ![u] = [local[u] EXCEPT ![d] = row]]
    BY <1>3 DEF Access
  <2>2. local'[u] = [local[u] EXCEPT ![d] = row]
    BY <1>2, <2>1
  <2>3. local'[u][d] = row /\ \A e \in Dicts \ {d} : local'[u][e] = local[u][e]
    BY <1>2, <2>2
  <2>4. \A v \in Uids \ {u} : local'[v] = local[v]
    BY <1>2, <2>1
  <2> QED BY <1>3, <2>3, <2>4
<1>4. ASSUME NEW k \in Keys, NEW c \in Cell, c # Untouched \/ c = local[u][d][k]
      PROVE  \A l \in Keys : local[u][d][l] # Untouched =>
                               [local[u][d] EXCEPT ![k] = c][l] # Untouched
  BY <1>2, <1>4
<1>5. \A k \in Keys :
         /\ AfterRead(u, d, k) \in Cell /\ AfterPop(u, d, k) \in Cell
         /\ Ensured(u, d, k) \in Bucket
         /\ AfterRead(u, d, k) # Untouched \/ AfterRead(u, d, k) = local[u][d][k]
         /\ AfterPop(u, d, k) # Untouched \/ AfterPop(u, d, k) = local[u][d][k]
  <2> SUFFICES ASSUME NEW k \in Keys
               PROVE  /\ AfterRead(u, d, k) \in Cell /\ AfterPop(u, d, k) \in Cell
                      /\ Ensured(u, d, k) \in Bucket
                      /\ AfterRead(u, d, k) # Untouched \/ AfterRead(u, d, k) = local[u][d][k]
                      /\ AfterPop(u, d, k) # Untouched \/ AfterPop(u, d, k) = local[u][d][k]
    OBVIOUS
  <2>1. base[d][k] \in Content
    BY DEF TypeOK, Store, Content
  <2>2. AfterRead(u, d, k) # Untouched \/ AfterRead(u, d, k) = local[u][d][k]
    BY <2>1, ScopeAssumption DEF AfterRead, Content
  <2>3. AfterPop(u, d, k) # Untouched \/ AfterPop(u, d, k) = local[u][d][k]
    BY ScopeAssumption DEF AfterPop
  <2> QED BY <2>2, <2>3, CellTypes
<1>6. CASE ScanDict(u, d)
  BY <1>3, <1>5, <1>6 DEF ScanDict, AfterRead
<1>7. ASSUME NEW k \in Keys, ReadBucket(u, d, k)
      PROVE  /\ \A v \in Uids \ {u} : local'[v] = local[v]
             /\ \A e \in Dicts, l \in Keys :
                   local[u][e][l] # Untouched => local'[u][e][l] # Untouched
  <2>1. \A l \in Keys : local[u][d][l] # Untouched =>
            [local[u][d] EXCEPT ![k] = AfterRead(u, d, k)][l] # Untouched
    BY <1>4, <1>5
  <2> QED BY <1>3, <1>7, <2>1 DEF ReadBucket
<1>8. ASSUME NEW k \in Keys, PopBucket(u, d, k)
      PROVE  /\ \A v \in Uids \ {u} : local'[v] = local[v]
             /\ \A e \in Dicts, l \in Keys :
                   local[u][e][l] # Untouched => local'[u][e][l] # Untouched
  <2>1. \A l \in Keys : local[u][d][l] # Untouched =>
            [local[u][d] EXCEPT ![k] = AfterPop(u, d, k)][l] # Untouched
    BY <1>4, <1>5
  <2> QED BY <1>3, <1>8, <2>1 DEF PopBucket
<1>9. ASSUME NEW k \in Keys, NEW b \in Bucket,
             Access(u, d, [local[u][d] EXCEPT ![k] = b])
      PROVE  /\ \A v \in Uids \ {u} : local'[v] = local[v]
             /\ \A e \in Dicts, l \in Keys :
                   local[u][e][l] # Untouched => local'[u][e][l] # Untouched
  <2>1. b \in Cell /\ b # Untouched
    BY ScopeAssumption DEF Cell
  <2>2. \A l \in Keys : local[u][d][l] # Untouched =>
            [local[u][d] EXCEPT ![k] = b][l] # Untouched
    BY <1>4, <2>1
  <2> QED BY <1>3, <1>9, <2>2
<1>10. ASSUME NEW k \in Keys, NEW m \in Msgs
       PROVE  Ensured(u, d, k) \cup {m} \in Bucket /\ Ensured(u, d, k) \ {m} \in Bucket
  BY <1>5 DEF Bucket
<1> QED BY <1>1, <1>6, <1>7, <1>8, <1>9, <1>10 DEF PutEntry, DropEntry

LEMMA CleanStep ==
    ASSUME TypeOK, Clean, [BatchNext]_vars
    PROVE  Clean'
<1>1. ASSUME NEW u \in Uids, StartRun(u) PROVE Clean'
  BY <1>1 DEF StartRun, Clean
<1>2. ASSUME NEW u \in Uids, AccessStep(u) PROVE Clean'
  BY <1>2, AccessStepEffect, AccessStepLocal DEF Resolve, Clean
<1>3. ASSUME NEW u \in Uids, EndRun(u) PROVE Clean'
  BY <1>3 DEF EndRun, Finalize, Clean, TypeOK
<1>4. ASSUME NEW u \in Uids, FailRun(u) PROVE Clean'
  BY <1>4 DEF FailRun, Clean
<1>5. CASE UNCHANGED vars
  BY <1>5 DEF vars, Clean
<1>6. QED
  BY <1>1, <1>2, <1>3, <1>4, <1>5 DEF BatchNext, BatchStep, Returned

-----------------------------------------------------------------------------
(* Each step of a batch is one of the snapshots, or none.                  *)

LEMMA InitMaps == Init => Snapshots!Init
<1> SUFFICES ASSUME Init PROVE Snapshots!Init
  OBVIOUS
<1>1. Shared = [s \in SlotsOf |-> Absent]
  BY DEF Init, Empty, Shared, SlotsOf
<1>2. Views = [u \in Uids |-> Untouched]
  BY DEF Init, Views
<1>3. Uses = [u \in Uids |-> {}]
  BY FreshTouchesNothing DEF Init, Uses
<1>4. Left = <<>>
  BY DEF Init, Left
<1> QED BY <1>1, <1>2, <1>3, <1>4 DEF Init, Snapshots!Init

\* An access is a use of the client's snapshot.
LEMMA AccessMaps ==
    ASSUME TypeOK, NothingStranded, Clean, NEW u \in Uids, AccessStep(u)
    PROVE  Snapshots!Use(u)
<1>1. /\ base' = base /\ staged' = staged
      /\ states' = states \cup {u}
      /\ active' = active \cup {u}
  BY AccessStepEffect DEF Resolve, NothingStranded
<1>2. /\ \A v \in Uids \ {u} : local'[v] = local[v]
      /\ \A d \in Dicts, k \in Keys :
            local[u][d][k] # Untouched => local'[u][d][k] # Untouched
  BY AccessStepLocal
<1>3. Shared' = Shared /\ Left' = Left
  BY <1>1 DEF Shared, Left, Effective
<1>4. /\ Uses[u] \subseteq Uses'[u] /\ Uses'[u] \subseteq SlotsOf
      /\ Uses' = [Uses EXCEPT ![u] = Uses'[u]]
  <2>1. Touched(local[u]) \subseteq Touched(local'[u]) /\ Touched(local'[u]) \subseteq SlotsOf
    BY <1>2 DEF Touched, SlotsOf
  <2>2. Uses[u] = Touched(local[u]) /\ Uses'[u] = Touched(local'[u])
    BY DEF Uses
  <2>3. \A v \in Uids \ {u} : Uses'[v] = Uses[v]
    BY <1>2 DEF Uses
  <2> QED BY <2>1, <2>2, <2>3 DEF Uses
<1>5. Views' = [Views EXCEPT ![u] = Views'[u]]
  <2>1. \A v \in Uids \ {u} : Views'[v] = Views[v]
    BY <1>1, <1>2 DEF Views, Effective
  <2> QED BY <2>1 DEF Views
<1>6. ASSUME NEW s \in SlotsOf \ Uses'[u]
      PROVE  Views'[u][s] = (IF u \in active THEN Views[u] ELSE Shared)[s]
  <2>1. local'[u][s[1]][s[2]] = Untouched /\ s \in SlotsOf
    BY <1>6 DEF Uses, Touched
  <2>2. Views'[u][s] = base[s[1]][s[2]]
    <3>1. Views'[u] = Effective(local[u])'
      BY <1>1 DEF Views
    <3>2. Effective(local[u])'[s] = base'[s[1]][s[2]]
      BY <2>1, ScopeAssumption DEF Effective
    <3> QED BY <1>1, <3>1, <3>2
  <2>3. CASE u \in active
    <3>1. local[u][s[1]][s[2]] = Untouched
      BY <1>2, <2>1 DEF SlotsOf
    <3>2. Views[u][s] = base[s[1]][s[2]]
      <4>1. Views[u] = Effective(local[u])
        BY <2>3 DEF Views, NothingStranded
      <4>2. Effective(local[u])[s] = base[s[1]][s[2]]
        BY <2>1, <3>1, ScopeAssumption DEF Effective
      <4> QED BY <4>1, <4>2
    <3> QED BY <2>2, <2>3, <3>2
  <2>4. CASE u \notin active
    BY <2>1, <2>2, <2>4 DEF Shared
  <2> QED BY <2>3, <2>4
<1> QED BY <1>1, <1>3, <1>4, <1>5, <1>6 DEF Snapshots!Use

\* A commit is the merge of the views that were left.
LEMMA CommitMaps ==
    ASSUME NEW q \in Seq([uid : Uids, dicts : Overlay])
    PROVE  LET w == [i \in DOMAIN q |-> [view |-> Effective(q[i].dicts),
                                       used |-> Touched(q[i].dicts)]]
           IN  [s \in SlotsOf |-> Committed(base, q)[s[1]][s[2]]]
                   = Snapshots!Merged(Shared, w)
<1> DEFINE w == [i \in DOMAIN q |-> [view |-> Effective(q[i].dicts),
                                     used |-> Touched(q[i].dicts)]]
<1>1. DOMAIN q = 1 .. Len(q) /\ Len(q) \in Nat /\ Len(w) = Len(q)
  <2>1. DOMAIN q = 1 .. Len(q) /\ Len(q) \in Nat
    BY LenProperties
  <2> QED BY <2>1
<1>2. \A i \in 1 .. Len(q) : w[i].view = Effective(q[i].dicts) /\ w[i].used = Touched(q[i].dicts)
  BY <1>1
<1> HIDE DEF w
<1>3. ASSUME NEW s \in SlotsOf
      PROVE  Committed(base, q)[s[1]][s[2]] = Snapshots!Merged(Shared, w)[s]
  <2> DEFINE d == s[1]
             k == s[2]
             c == CHOOSE i \in 1 .. Len(q) : IsLastToTouch(q, i, d, k)
             l == CHOOSE i \in 1 .. Len(w) : Snapshots!LastUser(w, i, s)
  <2>1. d \in Dicts /\ k \in Keys
    BY DEF SlotsOf
  <2>2. \A i \in 1 .. Len(q) : s \in w[i].used <=> q[i].dicts[d][k] # Untouched
    BY <1>2 DEF Touched
  <2>3. \A i \in 1 .. Len(q) : IsLastToTouch(q, i, d, k) <=> Snapshots!LastUser(w, i, s)
    BY <1>1, <2>2 DEF IsLastToTouch, Snapshots!LastUser
  <2>4. Committed(base, q)[d][k] =
            IF \E i \in 1 .. Len(q) : IsLastToTouch(q, i, d, k)
            THEN IF q[c].dicts[d][k] = Deleted THEN Absent ELSE q[c].dicts[d][k]
            ELSE base[d][k]
    BY <2>1 DEF Committed
  <2>5. Snapshots!Merged(Shared, w)[s] =
            IF \E i \in 1 .. Len(w) : Snapshots!LastUser(w, i, s)
            THEN w[l].view[s]
            ELSE Shared[s]
    BY DEF Snapshots!Merged
  <2>6. CASE ~ \E i \in 1 .. Len(q) : IsLastToTouch(q, i, d, k)
    BY <1>1, <2>3, <2>4, <2>5, <2>6 DEF Shared
  <2>7. CASE \E i \in 1 .. Len(q) : IsLastToTouch(q, i, d, k)
    <3>1. c \in 1 .. Len(q) /\ IsLastToTouch(q, c, d, k)
      BY <2>7
    <3>2. l \in 1 .. Len(q) /\ Snapshots!LastUser(w, l, s)
      BY <1>1, <2>3, <2>7
    <3> HIDE DEF c, l
    <3>3. IsLastToTouch(q, l, d, k)
      BY <2>3, <3>2
    <3>4. c = l
      BY <1>1, <3>1, <3>2, <3>3 DEF IsLastToTouch
    <3>5. q[c].dicts[d][k] # Untouched
      BY <3>1 DEF IsLastToTouch
    <3>6. Effective(q[c].dicts)[s] =
              IF q[c].dicts[d][k] = Deleted THEN Absent ELSE q[c].dicts[d][k]
      BY <3>5 DEF Effective
    <3>7. w[l].view[s] = Effective(q[c].dicts)[s]
      BY <1>2, <3>1, <3>4
    <3> QED BY <1>1, <2>3, <2>4, <2>5, <2>7, <3>6, <3>7 DEF l, c
  <2> QED BY <2>6, <2>7
<1>4. Snapshots!Merged(Shared, w) = [s \in SlotsOf |-> Snapshots!Merged(Shared, w)[s]]
  BY DEF Snapshots!Merged
<1> QED BY <1>3, <1>4 DEF w

\* Finalizing a request is its leaving of the batch.
LEMMA FinalizeMaps ==
    ASSUME TypeOK, NothingStranded, NEW u \in Uids, Finalize(u)
    PROVE  Snapshots!Leave(u)
<1> DEFINE e == [uid |-> u, dicts |-> local[u]]
           q == Append(staged, e)
           W(p) == [i \in DOMAIN p |-> [view |-> Effective(p[i].dicts),
                                        used |-> Touched(p[i].dicts)]]
           a == active \ {u}
<1>1. /\ staged \in Seq([uid : Uids, dicts : Overlay])
      /\ e \in [uid : Uids, dicts : Overlay]
      /\ e.dicts = local[u]
  BY DEF TypeOK
<1>2. /\ q \in Seq([uid : Uids, dicts : Overlay])
      /\ Len(q) = Len(staged) + 1
      /\ \A i \in 1 .. Len(staged) : q[i] = staged[i]
      /\ q[Len(staged) + 1] = e
  <2> HIDE DEF e
  <2> QED BY <1>1, AppendProperties
<1>3. /\ DOMAIN staged = 1 .. Len(staged) /\ Len(staged) \in Nat
      /\ DOMAIN q = 1 .. Len(staged) + 1
  <2> HIDE DEF q
  <2>1. Len(staged) \in Nat /\ DOMAIN staged = 1 .. Len(staged) /\ DOMAIN q = 1 .. Len(q)
    BY <1>1, <1>2, LenProperties
  <2> QED BY <1>2, <2>1
<1>4. /\ u \in states /\ u \in active
      /\ states' = states \ {u} /\ active' = a /\ states' = a
      /\ local' = [local EXCEPT ![u] = Fresh]
  BY DEF Finalize, NothingStranded
<1>5. Views[u] = Effective(local[u]) /\ Uses[u] = Touched(local[u])
  BY <1>4 DEF Views, Uses
<1>6. Append(Left, [view |-> Views[u], used |-> Uses[u]]) = W(q)
  <2>1. Left = W(staged)
    BY DEF Left
  <2> QED BY <1>1, <1>2, <1>3, <1>5, <2>1
<1>7. Uses' = [Uses EXCEPT ![u] = {}]
  <2>1. Touched(local[u])' = {}
    BY <1>4, FreshTouchesNothing DEF TypeOK, Touched
  <2>2. \A v \in Uids \ {u} : Uses'[v] = Uses[v]
    BY <1>4 DEF TypeOK, Uses
  <2>3. Uses'[u] = {}
    BY <2>1 DEF Uses
  <2> QED BY <2>2, <2>3 DEF Uses
<1>8. CASE a = {}
  <2>1. base' = Committed(base, q) /\ staged' = <<>>
    BY <1>8 DEF Finalize
  <2> HIDE DEF q, e
  <2>2. Shared' = Snapshots!Merged(Shared, W(q))
    BY <1>2, <2>1, CommitMaps DEF Shared
  <2>3. Left' = <<>>
    BY <2>1 DEF Left
  <2>4. Views' = [Views EXCEPT ![u] = Untouched]
    BY <1>4, <1>8 DEF Views, NothingStranded
  <2> HIDE DEF W
  <2> QED BY <1>4, <1>6, <1>7, <1>8, <2>2, <2>3, <2>4 DEF Snapshots!Leave
<1>9. CASE a # {}
  <2>1. base' = base /\ staged' = q
    BY <1>9 DEF Finalize
  <2> HIDE DEF q, e
  <2>2. Shared' = Shared
    BY <2>1 DEF Shared
  <2>3. Left' = W(q)
    BY <2>1 DEF Left, Effective
  <2>4. Views' = [Views EXCEPT ![u] = Untouched]
    <3>1. \A v \in Uids \ {u} : Views'[v] = Views[v]
      BY <1>4, <2>1 DEF TypeOK, Views, Effective
    <3>2. Views'[u] = Untouched
      BY <1>4 DEF Views
    <3> QED BY <3>1, <3>2 DEF Views
  <2> HIDE DEF W
  <2> QED BY <1>4, <1>6, <1>7, <1>9, <2>2, <2>3, <2>4 DEF Snapshots!Leave
<1> QED BY <1>8, <1>9

LEMMA StepMaps ==
    ASSUME TypeOK, NothingStranded, Clean, [BatchNext]_vars
    PROVE  [Snapshots!Next]_(Snapshots!vars)
<1>1. ASSUME UNCHANGED <<base, states, local, active, staged>>
      PROVE  UNCHANGED Snapshots!vars
  BY <1>1 DEF Snapshots!vars, Shared, Views, Uses, Left, Effective, Touched
<1>2. ASSUME NEW u \in Uids, StartRun(u) PROVE UNCHANGED Snapshots!vars
  BY <1>1, <1>2 DEF StartRun
<1>3. ASSUME NEW u \in Uids, AccessStep(u) PROVE Snapshots!Next
  BY <1>3, AccessMaps DEF Snapshots!Next
<1>4. ASSUME NEW u \in Uids, EndRun(u) PROVE [Snapshots!Next]_(Snapshots!vars)
  <2>1. CASE u \in states
    BY <1>4, <2>1, FinalizeMaps DEF EndRun, Snapshots!Next
  <2>2. CASE u \notin states
    BY <1>1, <1>4, <2>2 DEF EndRun
  <2> QED BY <2>1, <2>2
<1>5. ASSUME NEW u \in Uids, FailRun(u) PROVE UNCHANGED Snapshots!vars
  BY <1>1, <1>5 DEF FailRun
<1>6. CASE UNCHANGED vars
  BY <1>1, <1>6 DEF vars
<1> QED BY <1>2, <1>3, <1>4, <1>5, <1>6 DEF BatchNext, BatchStep, Returned

\* Copying a bucket on first access, staging and flushing together are as good as
\* a snapshot of every dictionary and one commit per batch (_ScopedDict,
\* _RequestState, finalize_request): each step of a batch is a step of
\* SnapshotBatch or changes nothing of it.
THEOREM CopiesAreSnapshots == BatchSpec => IsSnapshotBatch
<1>1. Init => Clean
  BY DEF Init, Clean
<1> QED
  BY <1>1, InitMaps, StepMaps, CleanStep, TypeCorrect, NothingIsStranded, PTL
     DEF BatchSpec, IsSnapshotBatch, Snapshots!Spec

=============================================================================
