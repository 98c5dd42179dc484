------------------------ MODULE SidecarAnchorsProofs ------------------------
(***************************************************************************)
(* Theorems about SidecarAnchors, for any consumers, messages, static      *)
(* texts, contents and bounds, and whenever agent 0 answers.               *)
(***************************************************************************)
EXTENDS SidecarAnchors, TLAPS

-----------------------------------------------------------------------------
(* The inductive invariant.                                                *)

\* A prefix that is ready has a static text.
Prefixes ==
    {p \in [static : Statics \cup {""}, turns : 0 .. MaxTurn, ready : BOOLEAN] :
        p.ready => p.static \in Statics}

\* A delta that is there.
RealDelta == [born : Where, pf : BOOLEAN]
Entries == [deltas : [Nodes -> Delta], embedded : BOOLEAN]
PoolEntries == [node : Nodes, message : Messages, ph : {Up, Turn}, at : Where,
                delta : RealDelta, embedded : BOOLEAN]

\* A request that is in progress asks for a static text.
Jobs ==
    {j \in [phase : {"idle", "building", "built", "filled", "seeded", "generated"},
            node : 0 .. Consumers, static : Statics \cup {""}, turns : 0 .. MaxTurn,
            content : Contents \cup {""}, how : {"", "append", "prepare"}, again : BOOLEAN] :
        j.phase # "idle" => j.static \in Statics}

RunShape == [message : Messages, reuse : BOOLEAN, agent : 0 .. Consumers, flag : BOOLEAN]
Snapshots == [entry : Entries, flag : BOOLEAN]

Shapes ==
    /\ prefix \in [Nodes -> Prefixes]
    /\ answer \in [Messages -> Contents \cup {""}]
    /\ run \in RunShape
    /\ entry \in Entries
    /\ shared \subseteq Nodes
    /\ snapshots \in [Nodes -> [Messages -> Snapshots]]
    /\ pool \subseteq PoolEntries
    /\ job \in Jobs
    /\ late \in BOOLEAN

\* Unless one came too early, a registered consumer finds the flag of the answer,
\* or no answer at all.
FlagWithAnswer == late \/ (run.agent > 0 => run.flag \/ answer[run.message] = "")

\* The request in progress is that of the agent registered last; once its prefix
\* is built, that prefix has a static text.
JobIsOfAgent ==
    job.phase # "idle" =>
        /\ job.node = run.agent /\ run.agent > 0
        /\ job.phase # "building" => prefix[job.node].static \in Statics

\* A dictionary kept in two places is the same in both.
SharedAreOne == \A n \in shared : snapshots[n][run.message].entry = entry

\* One entry has a key.
OnePerKey(kept) == \A e, f \in kept : SameKey(e, f) => e = f

IInv == Shapes /\ FlagWithAnswer /\ JobIsOfAgent /\ SharedAreOne /\ OnePerKey(pool) /\ WholeIsTrue

\* What of the pool is as it should be.
Sound(kept) ==
    /\ kept \subseteq PoolEntries
    /\ OnePerKey(kept)
    /\ late \/ \A e \in kept : Whole(e) => e.delta.born = e.at

\* A delta is there, or it is not.
LEMMA DeltasAre == Delta = RealDelta \cup {NoDelta} /\ NoDelta \notin RealDelta
<1>1. "" \notin Statics
  BY SidecarAssumption, Zenon
<1>2. Nowhere \notin Where
  BY <1>1 DEF Nowhere, Where
<1>3. NoDelta \notin RealDelta
  BY <1>2 DEF NoDelta, RealDelta
<1> QED BY <1>3 DEF Delta, RealDelta

\* A prefix may have no turns.
LEMMA NoTurns == 0 \in 0 .. MaxTurn
<1>1. MaxTurn \in Nat
  BY SidecarAssumption, Zenon
<1> QED BY <1>1

\* An agent past agent 0 is a node, and so is the next of any.
LEMMA LaterAgents ==
    \A a \in 0 .. Consumers : (a > 0 => a \in Nodes) /\ (a < Consumers => a + 1 \in Nodes)
<1>1. Consumers \in Nat
  BY SidecarAssumption, Zenon
<1> QED BY <1>1 DEF Nodes

-----------------------------------------------------------------------------
(* The operators on the pool keep it sound.                                *)

\* What a prefix with a static text and a content make a place of is a place.
LEMMA PlacesAre ==
    ASSUME NEW p \in Prefixes, p.static \in Statics, NEW c \in Contents \cup {""}
    PROVE  At(p, c) \in Where
BY DEF At, Prefixes, Where

\* A prefix that lists a placeholder has a static text.
LEMMA ListedAre ==
    ASSUME NEW p \in Prefixes, Listed(p) # {}
    PROVE  p.static \in Statics
BY DEF Listed, Prefixes

\* What replaces the entries of its keys is as sound as what it is.
LEMMA PutIsSound ==
    ASSUME NEW kept, NEW new, Sound(kept), Sound(new)
    PROVE  Sound(Put(kept, new))
BY DEF Sound, Put, OnePerKey, SameKey

\* Purging takes entries out, and adds none.
LEMMA FewerIsSound ==
    ASSUME NEW kept, NEW fewer \in SUBSET kept, Sound(kept)
    PROVE  Sound(fewer)
BY DEF Sound, OnePerKey

\* An entry without the delta of the text behind is not whole.
LEMMA WithoutPfIsSound ==
    ASSUME NEW n, Sound(pool)
    PROVE  Sound(WithoutPf(n))
<1> DEFINE without(e) == [e EXCEPT !.delta.pf = FALSE]
<1>1. ASSUME NEW e \in Mine(n)
      PROVE  without(e) \in PoolEntries /\ ~Whole(without(e)) /\ SameKey(without(e), e)
  <2>1. e \in PoolEntries
    BY <1>1 DEF Mine, Sound
  <2> QED BY <2>1 DEF PoolEntries, RealDelta, Whole, SameKey
<1>2. WithoutPf(n) = (pool \ Mine(n)) \cup {without(e) : e \in Mine(n)}
  BY DEF WithoutPf
<1>3. \A e \in WithoutPf(n) : e \in PoolEntries /\ (late \/ (Whole(e) => e.delta.born = e.at))
  BY <1>1, <1>2 DEF Sound
<1>4. \A e \in WithoutPf(n) : \E f \in pool : SameKey(e, f) /\ e = IF f \in Mine(n) THEN without(f) ELSE f
  <2>1. ASSUME NEW e \in pool \ Mine(n) PROVE SameKey(e, e)
    BY DEF SameKey
  <2>2. Mine(n) \subseteq pool
    BY DEF Mine
  <2> QED BY <1>1, <1>2, <2>1, <2>2
<1>5. OnePerKey(WithoutPf(n))
  <2> SUFFICES ASSUME NEW e \in WithoutPf(n), NEW f \in WithoutPf(n), SameKey(e, f)
               PROVE  e = f
    BY DEF OnePerKey
  <2>1. PICK g \in pool : SameKey(e, g) /\ e = IF g \in Mine(n) THEN without(g) ELSE g
    BY <1>4
  <2>2. PICK h \in pool : SameKey(f, h) /\ f = IF h \in Mine(n) THEN without(h) ELSE h
    BY <1>4
  <2>3. SameKey(g, h)
    BY <2>1, <2>2 DEF SameKey
  <2>4. g = h
    BY <2>3 DEF Sound, OnePerKey
  <2> QED BY <2>1, <2>2, <2>4
<1> QED BY <1>3, <1>5 DEF Sound

\* The delta of a slot is made at the place it is kept under.
LEMMA ContextualIsSound ==
    ASSUME Shapes, NEW n \in Nodes, NEW p \in Prefixes,
           NEW phs \in SUBSET Listed(p), NEW content \in Contents \cup {""},
           NEW kept, Sound(kept)
    PROVE  Sound(Contextual(n, p, phs, content, kept))
<1> DEFINE at(ph) == At(p, IF ph = Up THEN answer[run.message] ELSE content)
           made(ph) == Pooled(n, ph, at(ph), [born |-> at(ph), pf |-> TRUE], TRUE)
<1>1. ASSUME NEW ph \in phs
      PROVE  made(ph) \in PoolEntries /\ made(ph).delta.born = made(ph).at
  <2>1. run.message \in Messages /\ answer[run.message] \in Contents \cup {""}
    BY DEF Shapes, RunShape
  <2>2. p.static \in Statics
    BY <1>1, ListedAre
  <2>3. at(ph) \in Where
    BY <2>1, <2>2, PlacesAre
  <2>4. ph \in {Up, Turn}
    BY <1>1 DEF Listed
  <2> HIDE DEF at
  <2> QED BY <2>1, <2>3, <2>4 DEF Pooled, PoolEntries, RealDelta
<1>2. OnePerKey({made(ph) : ph \in phs})
  <2>1. ASSUME NEW ph \in phs, NEW other \in phs, SameKey(made(ph), made(other))
        PROVE  ph = other
    <3>1. made(ph).ph = ph /\ made(other).ph = other
      BY DEF Pooled
    <3> HIDE DEF made
    <3> QED BY <2>1, <3>1 DEF SameKey
  <2> HIDE DEF made
  <2> QED BY <2>1 DEF OnePerKey
<1>3. Sound({made(ph) : ph \in phs})
  <2> HIDE DEF made
  <2> QED BY <1>1, <1>2 DEF Sound
<1>4. Contextual(n, p, phs, content, kept) = Put(kept, {made(ph) : ph \in phs})
  BY DEF Contextual
<1> QED BY <1>3, <1>4, PutIsSound

\* A snapshot puts an entry without embeddings.
LEMMA SnapshotPutIsSound ==
    ASSUME Shapes, NEW n \in Nodes, prefix[n].static \in Statics, NEW e \in Entries,
           HasDelta(e, n)
    PROVE  Sound({SnapshotPut(n, e)})
<1>1. At(prefix[n], "") \in Where
  BY PlacesAre DEF Shapes
<1>2. run.message \in Messages /\ e.deltas[n] \in RealDelta
  <2>1. e.deltas[n] \in Delta /\ e.deltas[n] # NoDelta
    BY DEF Entries, HasDelta
  <2> QED BY <2>1, DeltasAre DEF Shapes, RunShape
<1> DEFINE put == SnapshotPut(n, e)
<1>3. put = [node |-> n, message |-> run.message, ph |-> Up, at |-> At(prefix[n], ""),
             delta |-> e.deltas[n], embedded |-> FALSE]
  BY DEF SnapshotPut, Pooled
<1> HIDE DEF put
<1>4. put \in PoolEntries
  BY <1>1, <1>2, <1>3 DEF PoolEntries
<1>5. ~Whole(put)
  <2>1. ~put.embedded
    BY <1>3
  <2> QED BY <2>1 DEF Whole
<1> QED BY <1>4, <1>5 DEF Sound, OnePerKey, put

-----------------------------------------------------------------------------
(* Seeding.                                                                *)

SeedShape == [entry : Entries, flag : BOOLEAN, shared : SUBSET Nodes]

\* The entry a pooled delta is wrapped in is an entry.
LEMMA OnlyIsEntry ==
    ASSUME NEW n \in Nodes, NEW delta \in Delta
    PROVE  Only(n, delta) \in Entries
<1>1. NoEntry \in Entries
  BY DeltasAre DEF NoEntry, Entries
<1> QED BY <1>1 DEF Only, Entries

\* A seed has the shape of the anchors of a run, and keeps the flag.
LEMMA SeedsAre ==
    ASSUME Shapes, NEW n \in Nodes, NEW p, NEW kept, Sound(kept),
           NEW seed \in Seeds(n, p, kept)
    PROVE  /\ seed \in SeedShape /\ (run.flag => seed.flag)
           /\ seed.shared = {} \/ (seed.shared = shared /\ seed.entry = entry)
<1> DEFINE own(k) == snapshots[k][run.message]
           old == Restored(n)
<1>1. run.message \in Messages /\ run.flag \in BOOLEAN
  BY DEF Shapes, RunShape
<1>2. ASSUME NEW k \in Nodes
      PROVE  own(k).entry \in Entries /\ own(k).flag \in BOOLEAN
  <2>1. own(k) \in Snapshots
    <3>1. snapshots[k] \in [Messages -> Snapshots]
      BY <1>2 DEF Shapes
    <3> QED BY <1>1, <3>1
  <2> HIDE DEF own
  <2> QED BY <2>1 DEF Snapshots
<1>3. /\ old \in SeedShape /\ (run.flag => old.flag)
      /\ old.shared = {} \/ (old.shared = shared /\ old.entry = entry)
  BY <1>1, <1>2 DEF Restored, SeedShape, Shapes
<1>4. ASSUME NEW e \in Typed(n, p, kept)
      PROVE  e.delta \in Delta
  <2>1. e \in PoolEntries
    BY <1>4 DEF Typed, Sound
  <2> QED BY <2>1, DeltasAre DEF PoolEntries
<1>5. CASE seed = old
  BY <1>3, <1>5
<1>6. CASE \E e \in Typed(n, p, kept) :
              seed = [old EXCEPT !.entry = Only(n, e.delta), !.shared = {}]
  <2>1. PICK e \in Typed(n, p, kept) :
              seed = [old EXCEPT !.entry = Only(n, e.delta), !.shared = {}]
    BY <1>6
  <2>2. Only(n, e.delta) \in Entries
    BY <1>4, OnlyIsEntry
  <2> QED BY <1>3, <2>1, <2>2 DEF SeedShape
<1>7. CASE \E k \in Nodes :
              seed = [entry |-> own(k).entry, flag |-> old.flag \/ own(k).flag, shared |-> {}]
  <2> HIDE DEF own, old
  <2>1. PICK k \in Nodes :
              seed = [entry |-> own(k).entry, flag |-> old.flag \/ own(k).flag, shared |-> {}]
    BY <1>7
  <2>2. own(k).entry \in Entries /\ own(k).flag \in BOOLEAN /\ old.flag \in BOOLEAN
    BY <1>2, <1>3 DEF SeedShape
  <2>3. (old.flag \/ own(k).flag) \in BOOLEAN
    BY <2>2
  <2>4. seed.flag = (old.flag \/ own(k).flag)
    BY <2>1
  <2> QED BY <1>3, <2>1, <2>2, <2>3, <2>4 DEF SeedShape
<1> DEFINE typed == Typed(n, p, kept)
           usable == {e \in typed : e.at.static = p.static}
           others == {k \in Nodes : HasDelta(own(k).entry, n)}
           pooled == {[old EXCEPT !.entry = Only(n, e.delta), !.shared = {}] : e \in usable}
           found == {[entry |-> own(k).entry, flag |-> old.flag \/ own(k).flag, shared |-> {}] :
                        k \in others}
<1>8. Seeds(n, p, kept) =
        IF HasDelta(old.entry, n) THEN {old}
        ELSE pooled \cup (IF typed # {} /\ typed = usable THEN {}
                          ELSE IF others = {} THEN {old} ELSE found)
  BY DEF Seeds
<1>9. seed = old \/ seed \in pooled \/ seed \in found
  <2>1. seed \in Seeds(n, p, kept)
    OBVIOUS
  <2> HIDE DEF old, typed, usable, others, pooled, found
  <2> QED BY <1>8, <2>1
<1> QED BY <1>5, <1>6, <1>7, <1>9

\* What seeding leaves alone: the run is another only by its flag, which stays.
SeedingKeeps ==
    /\ entry' \in Entries /\ shared' \subseteq Nodes /\ run' \in RunShape
    /\ run'.message = run.message /\ run'.agent = run.agent
    /\ run.flag => run'.flag
    /\ shared' = {} \/ (shared' = shared /\ entry' = entry)

\* A run that is seeded for an agent is still that agent's run.
LEMMA SeededKeeps ==
    ASSUME Shapes, NEW n \in Nodes, NEW p, NEW kept, Sound(kept), Seeded(n, p, kept)
    PROVE  SeedingKeeps
<1>1. PICK seed \in Seeds(n, p, kept) :
            /\ entry' = seed.entry /\ shared' = seed.shared
            /\ run' = [run EXCEPT !.flag = seed.flag]
  BY DEF Seeded
<1>2. /\ seed \in SeedShape /\ (run.flag => seed.flag)
      /\ seed.shared = {} \/ (seed.shared = shared /\ seed.entry = entry)
  BY SeedsAre
<1>3. run \in RunShape
  BY DEF Shapes
<1>4. run' \in RunShape /\ run'.message = run.message /\ run'.agent = run.agent
      /\ run'.flag = seed.flag
  BY <1>1, <1>2, <1>3 DEF SeedShape, RunShape
<1> QED BY <1>1, <1>2, <1>4 DEF SeedingKeeps, SeedShape

\* Making the slot of the answer keeps the pool sound.
LEMMA RematerializedKeeps ==
    ASSUME Shapes, NEW n \in Nodes, NEW p \in Prefixes, NEW kept, Sound(kept),
           Rematerialized(n, p, kept)
    PROVE  SeedingKeeps /\ Sound(pool')
<1>1. SeedingKeeps
  BY SeededKeeps DEF Rematerialized
<1>2. PICK phs \in SUBSET (Listed(p) \cap {Up}) : pool' = Contextual(n, p, phs, "", kept)
  BY DEF Rematerialized
<1>3. Sound(pool')
  BY <1>2, ContextualIsSound
<1> QED BY <1>1, <1>3

-----------------------------------------------------------------------------
(* Prefixes, snapshots and entries that actions make.                      *)

\* The prefixes an action leaves are prefixes.
LEMMA BuiltAre ==
    ASSUME NEW static \in Statics, NEW turns \in 0 .. MaxTurn
    PROVE  Built(static, turns) \in Prefixes
BY DEF Built, Prefixes

\* So is the blank one.
LEMMA BlankIs == Blank \in Prefixes
<1>1. 0 \in 0 .. MaxTurn
  BY NoTurns, Zenon
<1> QED BY <1>1 DEF Blank, Prefixes

\* A trim leaves prefixes.
LEMMA TrimmedAre ==
    ASSUME Shapes, NEW n
    PROVE  Trimmed(n) \in [Nodes -> Prefixes] /\ (n \in Nodes => Trimmed(n)[n] = prefix[n])
<1>1. 0 \in 0 .. MaxTurn
  BY NoTurns, Zenon
<1>2. ASSUME NEW k \in Nodes
      PROVE  /\ prefix[k] \in Prefixes
             /\ prefix[k].static # "" => Built(prefix[k].static, 0) \in Prefixes
  <2>1. prefix[k] \in Prefixes
    BY <1>2 DEF Shapes
  <2>2. prefix[k].static \in Statics \cup {""}
    BY <2>1 DEF Prefixes
  <2> QED BY <1>1, <2>1, <2>2, BuiltAre
<1> DEFINE after(k) == IF k < n /\ ~run.reuse /\ prefix[k].static # ""
                       THEN Built(prefix[k].static, 0) ELSE prefix[k]
<1>3. ASSUME NEW k \in Nodes
      PROVE  after(k) \in Prefixes
  <2>1. CASE k < n /\ ~run.reuse /\ prefix[k].static # ""
    BY <1>2, <2>1
  <2>2. CASE ~(k < n /\ ~run.reuse /\ prefix[k].static # "")
    BY <1>2, <2>2
  <2> QED BY <2>1, <2>2
<1>4. Trimmed(n) = [k \in Nodes |-> after(k)]
  BY DEF Trimmed
<1>5. n \in Nodes => after(n) = prefix[n]
  <2>1. n \in Nodes => ~(n < n)
    BY DEF Nodes
  <2> QED BY <2>1
<1> HIDE DEF after
<1> QED BY <1>3, <1>4, <1>5

\* A reset leaves snapshots.
LEMMA NoSnapshotsAre == NoSnapshots \in [Messages -> Snapshots] /\ NoEntry \in Entries
<1>1. NoEntry \in Entries
  BY DeltasAre DEF NoEntry, Entries
<1> QED BY <1>1 DEF NoSnapshots, NoSnapshot, Snapshots

\* An entry changed in place is an entry wherever it is kept.
LEMMA InPlaceKeeps ==
    ASSUME Shapes, NEW new \in Entries, InPlace(new)
    PROVE  /\ entry' \in Entries /\ snapshots' \in [Nodes -> [Messages -> Snapshots]]
           /\ run' = run /\ shared' = shared => SharedAreOne'
<1>1. ASSUME NEW n \in Nodes
      PROVE  /\ snapshots[n] \in [Messages -> Snapshots]
             /\ [snapshots[n] EXCEPT ![run.message].entry = new] \in [Messages -> Snapshots]
  <2>1. snapshots[n] \in [Messages -> Snapshots]
    BY <1>1 DEF Shapes
  <2>2. ASSUME NEW s \in Snapshots
        PROVE  [s EXCEPT !.entry = new] \in Snapshots
    BY <2>2 DEF Snapshots
  <2> QED BY <2>1, <2>2
<1>2. entry' \in Entries /\ snapshots' \in [Nodes -> [Messages -> Snapshots]]
  BY <1>1 DEF InPlace
<1>3. ASSUME NEW n \in shared
      PROVE  snapshots'[n][run.message].entry = entry'
  <2>1. n \in Nodes /\ run.message \in Messages
    BY <1>3 DEF Shapes, RunShape
  <2>2. snapshots[n] \in [Messages -> Snapshots]
    BY <2>1 DEF Shapes
  <2>3. snapshots'[n] = [snapshots[n] EXCEPT ![run.message].entry = new] /\ entry' = new
    BY <2>1 DEF InPlace
  <2>4. ASSUME NEW t \in [Messages -> Snapshots]
        PROVE  [t EXCEPT ![run.message].entry = new][run.message].entry = new
    <3>1. t[run.message] \in Snapshots
      BY <2>1
    <3> QED BY <2>1, <3>1 DEF Snapshots
  <2> QED BY <2>2, <2>3, <2>4
<1> QED BY <1>2, <1>3 DEF SharedAreOne

\* A registered agent is a node.
LEMMA AgentIsNode ==
    ASSUME Shapes, run.agent > 0
    PROVE  run.agent \in Nodes
<1>1. run.agent \in 0 .. Consumers
  BY DEF Shapes, RunShape
<1> QED BY <1>1, LaterAgents

-----------------------------------------------------------------------------
(* The steps.                                                              *)

Snaps == [Nodes -> [Messages -> Snapshots]]

\* The invariant of the next state, part by part.
LEMMA Together ==
    ASSUME prefix' \in [Nodes -> Prefixes], answer' \in [Messages -> Contents \cup {""}],
           run' \in RunShape, entry' \in Entries, shared' \subseteq Nodes, snapshots' \in Snaps,
           Sound(pool'), job' \in Jobs, FlagWithAnswer', JobIsOfAgent', SharedAreOne',
           late' \in BOOLEAN, (late => late') \/ pool' = {}
    PROVE  IInv'
BY DEF IInv, OnePerKey, Shapes, Snaps, Sound, WholeIsTrue, WholeInAnyOrder

\* The invariant of the state, part by part.
LEMMA Apart ==
    ASSUME IInv
    PROVE  /\ Shapes /\ Sound(pool) /\ FlagWithAnswer /\ JobIsOfAgent /\ SharedAreOne
           /\ prefix \in [Nodes -> Prefixes] /\ answer \in [Messages -> Contents \cup {""}]
           /\ run \in RunShape /\ entry \in Entries /\ shared \subseteq Nodes
           /\ snapshots \in Snaps /\ job \in Jobs /\ late \in BOOLEAN
BY DEF IInv, Shapes, Snaps, Sound, WholeIsTrue, WholeInAnyOrder

\* Seeding keeps what a registered consumer finds.
LEMMA FlagKept ==
    ASSUME FlagWithAnswer, answer' = answer, late' = late, SeedingKeeps \/ run' = run
    PROVE  FlagWithAnswer'
BY DEF FlagWithAnswer, SeedingKeeps

\* Where the snapshots stay, a seeded run shares what it shared, or nothing.
LEMMA SharedKept ==
    ASSUME SharedAreOne, snapshots' = snapshots,
           SeedingKeeps \/ UNCHANGED <<run, entry, shared>>
    PROVE  SharedAreOne'
<1>1. run'.message = run.message
  BY DEF SeedingKeeps
<1>2. shared' = {} \/ (shared' = shared /\ entry' = entry)
  BY DEF SeedingKeeps
<1> QED BY <1>1, <1>2 DEF SharedAreOne

\* No job but that of the agent is in progress.
LEMMA IdleIs == Idle \in Jobs /\ Idle.phase = "idle"
<1>1. 0 \in 0 .. MaxTurn
  BY NoTurns, Zenon
<1>2. 0 \in 0 .. Consumers
  <2>1. Consumers \in Nat
    BY SidecarAssumption, Zenon
  <2> QED BY <2>1
<1> QED BY <1>1, <1>2 DEF Idle, Jobs

\* The first state is fine.
LEMMA InitIsFine == Init => IInv
<1> SUFFICES ASSUME Init PROVE IInv
  OBVIOUS
<1>1. prefix \in [Nodes -> Prefixes]
  <2>1. Blank \in Prefixes
    BY BlankIs
  <2> QED BY <2>1 DEF Init
<1>2. answer \in [Messages -> Contents \cup {""}] /\ \A m \in Messages : answer[m] = ""
  BY DEF Init
<1>3. run \in RunShape
  <2>1. Messages # {}
    BY SidecarAssumption, Zenon
  <2>2. (CHOOSE m \in Messages : TRUE) \in Messages
    BY <2>1, Zenon
  <2>3. Consumers \in 0 .. Consumers
    <3>1. Consumers \in Nat
      BY SidecarAssumption, Zenon
    <3> QED BY <3>1
  <2> DEFINE first == CHOOSE m \in Messages : TRUE
  <2>4. run = [message |-> first, reuse |-> FALSE, agent |-> Consumers, flag |-> FALSE]
    BY DEF Init
  <2> HIDE DEF first
  <2>5. first \in Messages
    BY <2>2 DEF first
  <2> QED BY <2>3, <2>4, <2>5 DEF RunShape
<1>4. entry \in Entries /\ shared \subseteq Nodes /\ pool = {}
  BY NoSnapshotsAre DEF Init
<1>5. snapshots \in Snaps
  <2>1. NoSnapshots \in [Messages -> Snapshots]
    BY NoSnapshotsAre, Zenon
  <2>2. snapshots = [n \in Nodes |-> NoSnapshots]
    BY DEF Init
  <2> QED BY <2>1, <2>2 DEF Snaps
<1>6. job \in Jobs /\ job.phase = "idle"
  BY IdleIs DEF Init
<1>7. Shapes
  BY <1>1, <1>2, <1>3, <1>4, <1>5, <1>6 DEF Init, Shapes, Snaps
<1>8. FlagWithAnswer
  BY <1>2, <1>3 DEF FlagWithAnswer, RunShape
<1>9. SharedAreOne /\ OnePerKey(pool) /\ WholeIsTrue
  BY <1>4 DEF Init, SharedAreOne, OnePerKey, WholeIsTrue, WholeInAnyOrder
<1> QED BY <1>6, <1>7, <1>8, <1>9 DEF IInv, JobIsOfAgent

\* A new run has agent 0 only; with nothing kept the pool is empty.
LEMMA NewRunKeeps ==
    ASSUME IInv, NEW m \in Messages, NEW reuse \in BOOLEAN, NewRun(m, reuse)
    PROVE  IInv'
<1>1. run' = [message |-> m, reuse |-> reuse, agent |-> 0, flag |-> FALSE]
  BY DEF NewRun
<1>2. run' \in RunShape /\ run'.agent = 0
  <2>1. 0 \in 0 .. Consumers
    <3>1. Consumers \in Nat
      BY SidecarAssumption, Zenon
    <3> QED BY <3>1
  <2> QED BY <1>1, <2>1 DEF RunShape
<1>3. entry' \in Entries /\ shared' \subseteq Nodes
  BY NoSnapshotsAre DEF NewRun
<1>4. prefix' \in [Nodes -> Prefixes] /\ snapshots' \in Snaps /\ Sound(pool')
  <2>1. CASE reuse
    BY <2>1, Apart DEF NewRun
  <2>2. CASE ~reuse
    <3>1. Blank \in Prefixes
      BY BlankIs
    <3>2. NoSnapshots \in [Messages -> Snapshots]
      BY NoSnapshotsAre, Zenon
    <3>3. prefix' = [n \in Nodes |-> Blank] /\ snapshots' = [n \in Nodes |-> NoSnapshots]
          /\ pool' = {}
      BY <2>2 DEF NewRun
    <3> QED BY <3>1, <3>2, <3>3 DEF Snaps, Sound, OnePerKey
  <2> QED BY <2>1, <2>2
<1>5. answer' = answer /\ job' = job /\ job = Idle
  BY DEF NewRun
<1>6. FlagWithAnswer' /\ JobIsOfAgent'
  BY <1>2, <1>5, IdleIs DEF FlagWithAnswer, JobIsOfAgent
<1>7. SharedAreOne'
  BY DEF NewRun, SharedAreOne
<1>8. late' \in BOOLEAN /\ ((late => late') \/ pool' = {})
  BY Apart DEF NewRun
<1> QED BY <1>2, <1>3, <1>4, <1>5, <1>6, <1>7, <1>8, Apart, Together

\* Whenever an answer comes, its flag comes with it.
LEMMA AnsweredKeeps ==
    ASSUME IInv, NEW c \in Contents, Answered(c)
    PROVE  IInv'
<1>1. run' = [run EXCEPT !.flag = TRUE] /\ job = Idle /\ job' = job /\ late' = late
  BY DEF Answered
<1>2. run \in RunShape /\ answer \in [Messages -> Contents \cup {""}]
  BY Apart
<1>3. run' \in RunShape /\ run'.flag
  BY <1>1, <1>2 DEF RunShape
<1>4. answer' \in [Messages -> Contents \cup {""}]
  BY <1>2 DEF Answered
<1>5. FlagWithAnswer' /\ JobIsOfAgent'
  BY <1>1, <1>3, IdleIs DEF FlagWithAnswer, JobIsOfAgent
<1>6. UNCHANGED <<prefix, entry, shared, snapshots, pool>>
  BY DEF Answered
<1>7. run'.message = run.message
  BY <1>1, <1>2 DEF RunShape
<1>8. SharedAreOne'
  BY <1>6, <1>7, Apart DEF SharedAreOne
<1> QED BY <1>1, <1>3, <1>4, <1>5, <1>6, <1>8, Apart, Together

\* An agent that is not registered too early finds the flag, or no answer.
LEMMA RegisterAgentKeeps ==
    ASSUME IInv, RegisterAgent
    PROVE  IInv'
<1> DEFINE n == run.agent + 1
<1>1. /\ job = Idle /\ job' = job /\ UNCHANGED <<prefix, answer, snapshots, pool>>
      /\ late' = (late \/ (~run.flag /\ answer[run.message] # ""))
  BY DEF RegisterAgent
<1>2. run \in RunShape /\ run.agent < Consumers
  BY Apart DEF RegisterAgent
<1>3. n \in Nodes /\ n \in 0 .. Consumers
  <2>1. run.agent \in 0 .. Consumers
    BY <1>2 DEF RunShape
  <2>2. n \in Nodes
    BY <1>2, <2>1, LaterAgents
  <2> QED BY <2>2 DEF Nodes
<1> HIDE DEF n
<1>4. /\ entry' \in Entries /\ shared' \subseteq Nodes
      /\ run' \in RunShape /\ (run.flag => run'.flag) /\ run'.message = run.message
      /\ shared' = {} \/ (shared' = shared /\ entry' = entry)
  <2>1. CASE run.reuse
    <3>1. PICK seed \in Seeds(n, prefix[n], pool) :
                /\ entry' = seed.entry /\ shared' = seed.shared
                /\ run' = [run EXCEPT !.flag = seed.flag, !.agent = n]
      BY <2>1 DEF RegisterAgent, n
    <3>2. /\ seed \in SeedShape /\ (run.flag => seed.flag)
          /\ seed.shared = {} \/ (seed.shared = shared /\ seed.entry = entry)
      BY <1>3, Apart, SeedsAre
    <3> QED BY <1>2, <1>3, <3>1, <3>2 DEF SeedShape, RunShape
  <2>2. CASE ~run.reuse
    <3>1. run' = [run EXCEPT !.agent = n] /\ UNCHANGED <<entry, shared>>
      BY <2>2 DEF RegisterAgent, n
    <3>2. run' \in RunShape /\ run'.flag = run.flag /\ run'.message = run.message
      BY <1>2, <1>3, <3>1 DEF RunShape
    <3> QED BY <1>1, <3>1, <3>2, Apart
  <2> QED BY <2>1, <2>2
<1>5. FlagWithAnswer' /\ JobIsOfAgent'
  BY <1>1, <1>4, IdleIs DEF FlagWithAnswer, JobIsOfAgent
<1>6. SharedAreOne'
  BY <1>1, <1>4, Apart DEF SharedAreOne
<1>7. late' \in BOOLEAN /\ (late => late')
  BY <1>1, Apart
<1> QED BY <1>1, <1>4, <1>5, <1>6, <1>7, Apart, Together

-----------------------------------------------------------------------------
(* Requests.                                                               *)

\* What a request asks for.
Wanted(static, turns, content) ==
    static \in Statics /\ turns \in 0 .. MaxTurn /\ content \in Contents \cup {""}

\* A request is that of a node, and its prefixes are prefixes.
LEMMA AsksAre ==
    ASSUME IInv, NEW static, NEW turns, NEW content, NEW plan, Wanted(static, turns, content),
           Asks(static, turns, content, plan)
    PROVE  /\ run.agent \in Nodes /\ run.agent > 0 /\ answer' = answer /\ late' = late
           /\ Trimmed(run.agent) \in [Nodes -> Prefixes] /\ prefix[run.agent] \in Prefixes
           /\ Trimmed(run.agent)[run.agent] = prefix[run.agent]
           /\ Built(static, turns) \in Prefixes /\ Built(static, turns).static \in Statics
<1>1. run.agent > 0 /\ answer' = answer /\ late' = late
  BY DEF Asks
<1>2. run.agent \in Nodes
  BY <1>1, Apart, AgentIsNode
<1>3. prefix[run.agent] \in Prefixes
  BY <1>2, Apart
<1>4. static \in Statics /\ turns \in 0 .. MaxTurn
  BY DEF Wanted
<1>5. Built(static, turns) \in Prefixes /\ Built(static, turns).static \in Statics
  BY <1>4, BuiltAre DEF Built
<1> QED BY <1>1, <1>2, <1>3, <1>5, Apart, TrimmedAre

\* The job of a request is that of the agent.
LEMMA AskedIs ==
    ASSUME IInv, NEW static, NEW turns, NEW content, Wanted(static, turns, content),
           NEW phase \in {"building", "built"}, NEW how \in {"", "append", "prepare"},
           Asked(static, turns, content, phase, how), run.agent > 0,
           SeedingKeeps \/ run' = run,
           phase = "building" \/ prefix'[run.agent].static \in Statics
    PROVE  job' \in Jobs /\ JobIsOfAgent'
<1>1. run.agent \in 0 .. Consumers /\ run'.agent = run.agent
  BY Apart DEF RunShape, SeedingKeeps
<1>2. job' = [phase |-> phase, node |-> run.agent, static |-> static, turns |-> turns,
              content |-> content, how |-> how, again |-> FALSE]
  BY DEF Asked
<1>3. job' \in Jobs
  BY <1>1, <1>2 DEF Jobs, Wanted
<1>4. job'.node = run.agent /\ job'.phase = phase
  BY <1>2
<1> QED BY <1>1, <1>3, <1>4 DEF JobIsOfAgent

\* A noop makes slots at the place, and no more.
LEMMA AskNoopKeeps ==
    ASSUME IInv, NEW static, NEW turns, NEW content, Wanted(static, turns, content),
           AskNoop(static, turns, content)
    PROVE  IInv'
<1>1. /\ run.agent \in Nodes /\ run.agent > 0 /\ answer' = answer /\ late' = late
      /\ Trimmed(run.agent) \in [Nodes -> Prefixes] /\ prefix[run.agent] \in Prefixes
      /\ Trimmed(run.agent)[run.agent] = prefix[run.agent]
  BY AsksAre DEF AskNoop
<1>2. prefix' = Trimmed(run.agent) /\ UNCHANGED snapshots
  BY DEF AskNoop
<1>3. /\ SeedingKeeps \/ UNCHANGED <<run, entry, shared>>
      /\ run' \in RunShape /\ entry' \in Entries /\ shared' \subseteq Nodes /\ Sound(pool')
  <2>1. CASE run.reuse /\ turns = 0
    <3>1. Rematerialized(run.agent, prefix[run.agent], pool)
      BY <2>1 DEF AskNoop
    <3>2. SeedingKeeps /\ Sound(pool')
      BY <1>1, <3>1, Apart, RematerializedKeeps
    <3> QED BY <3>2 DEF SeedingKeeps
  <2>2. CASE ~(run.reuse /\ turns = 0)
    BY <2>2, Apart DEF AskNoop, AnchorsKept
  <2> QED BY <2>1, <2>2
<1>4. prefix'[run.agent].static \in Statics
  <2>1. Plan(prefix[run.agent], static, turns) = "noop"
    BY DEF AskNoop, Asks
  <2>2. prefix[run.agent].ready
    BY <2>1 DEF Plan
  <2> QED BY <1>1, <1>2, <2>2 DEF Prefixes
<1>5. job' \in Jobs /\ JobIsOfAgent'
  BY <1>1, <1>3, <1>4, AskedIs DEF AskNoop
<1>6. FlagWithAnswer' /\ SharedAreOne'
  BY <1>1, <1>2, <1>3, Apart, FlagKept, SharedKept
<1> QED BY <1>1, <1>2, <1>3, <1>5, <1>6, Apart, Together

\* An append leaves the anchors for later.
LEMMA AskAppendKeeps ==
    ASSUME IInv, NEW static, NEW turns, NEW content, Wanted(static, turns, content),
           AskAppend(static, turns, content)
    PROVE  IInv'
<1>1. /\ run.agent > 0 /\ answer' = answer /\ late' = late
      /\ Trimmed(run.agent) \in [Nodes -> Prefixes]
  BY AsksAre DEF AskAppend
<1>2. prefix' = Trimmed(run.agent) /\ UNCHANGED <<run, entry, shared, snapshots, pool>>
  BY DEF AskAppend, AnchorsKept
<1>3. job' \in Jobs /\ JobIsOfAgent'
  BY <1>1, <1>2, AskedIs DEF AskAppend
<1>4. FlagWithAnswer' /\ SharedAreOne'
  BY <1>1, <1>2, Apart, FlagKept, SharedKept
<1> QED BY <1>1, <1>2, <1>3, <1>4, Apart, Together

\* A rewind leaves no entry of the message whole.
LEMMA AskRewindKeeps ==
    ASSUME IInv, NEW static, NEW turns, NEW content, Wanted(static, turns, content),
           AskRewind(static, turns, content)
    PROVE  IInv'
<1> DEFINE n == run.agent
           p == Built(static, turns)
<1>1. /\ n \in Nodes /\ run.agent > 0 /\ answer' = answer /\ late' = late
      /\ Trimmed(n) \in [Nodes -> Prefixes] /\ p \in Prefixes /\ p.static \in Statics
  BY AsksAre DEF AskRewind
<1>2. prefix' = [Trimmed(n) EXCEPT ![n] = p] /\ UNCHANGED snapshots
  BY DEF AskRewind
<1>3. Sound(WithoutPf(n))
  BY Apart, WithoutPfIsSound
<1> HIDE DEF p
<1>4. prefix' \in [Nodes -> Prefixes] /\ prefix'[n].static \in Statics
  BY <1>1, <1>2
<1>5. CASE run.reuse /\ turns > 0
  <2>1. job' = Idle /\ Seeded(n, p, WithoutPf(n)) /\ pool' = WithoutPf(n)
    BY <1>5 DEF AskRewind, p
  <2>2. SeedingKeeps
    BY <1>1, <1>3, <2>1, Apart, SeededKeeps
  <2>3. job' \in Jobs /\ JobIsOfAgent'
    BY <2>1, IdleIs DEF JobIsOfAgent
  <2>4. FlagWithAnswer' /\ SharedAreOne'
    BY <1>1, <1>2, <2>2, Apart, FlagKept, SharedKept
  <2>5. run' \in RunShape /\ entry' \in Entries /\ shared' \subseteq Nodes
    BY <2>2 DEF SeedingKeeps
  <2> QED BY <1>1, <1>2, <1>3, <1>4, <2>1, <2>3, <2>4, <2>5, Apart, Together
<1>6. CASE ~(run.reuse /\ turns > 0)
  <2>1. Asked(static, turns, content, "built", "")
    BY <1>6 DEF AskRewind
  <2>2. /\ SeedingKeeps \/ UNCHANGED <<run, entry, shared>>
        /\ run' \in RunShape /\ entry' \in Entries /\ shared' \subseteq Nodes /\ Sound(pool')
    <3>1. CASE run.reuse
      <4>1. Rematerialized(n, p, WithoutPf(n))
        BY <1>6, <3>1 DEF AskRewind, p
      <4>2. SeedingKeeps /\ Sound(pool')
        BY <1>1, <1>3, <4>1, Apart, RematerializedKeeps
      <4> QED BY <4>2 DEF SeedingKeeps
    <3>2. CASE ~run.reuse
      <4>1. AnchorsKept /\ pool' = WithoutPf(n)
        BY <1>6, <3>2 DEF AskRewind
      <4> QED BY <1>3, <4>1, Apart DEF AnchorsKept
    <3> QED BY <3>1, <3>2
  <2>3. job' \in Jobs /\ JobIsOfAgent'
    BY <1>1, <1>4, <2>1, <2>2, AskedIs
  <2>4. FlagWithAnswer' /\ SharedAreOne'
    BY <1>1, <1>2, <2>2, Apart, FlagKept, SharedKept
  <2> QED BY <1>1, <1>2, <1>4, <2>2, <2>3, <2>4, Apart, Together
<1> QED BY <1>5, <1>6

\* A rebuild only takes entries out of the pool.
LEMMA AskRebuildKeeps ==
    ASSUME IInv, NEW static, NEW turns, NEW content, Wanted(static, turns, content),
           AskRebuild(static, turns, content)
    PROVE  IInv'
<1> DEFINE n == run.agent
<1>1. PICK plan \in {"static_rebuild", "full_rebuild"} :
          /\ Asks(static, turns, content, plan)
          /\ Asked(static, turns, content, "building", "prepare")
          /\ IF plan = "full_rebuild" /\ prefix[n].ready THEN ResetNode(n)
             ELSE /\ prefix' = [Trimmed(n) EXCEPT ![n].ready = FALSE]
                  /\ pool' = pool \ Mine(n)
                  /\ UNCHANGED <<shared, snapshots>>
  BY DEF AskRebuild
<1>2. UNCHANGED <<run, entry>>
  BY DEF AskRebuild
<1>3. /\ n \in Nodes /\ run.agent > 0 /\ answer' = answer /\ late' = late
      /\ Trimmed(n) \in [Nodes -> Prefixes]
  BY <1>1, AsksAre
<1>4. /\ prefix' \in [Nodes -> Prefixes] /\ Sound(pool')
      /\ shared' \subseteq Nodes /\ snapshots' \in Snaps /\ SharedAreOne'
  <2>1. CASE plan = "full_rebuild" /\ prefix[n].ready
    <3>1. ResetNode(n)
      BY <1>1, <2>1
    <3>2. Blank \in Prefixes
      BY BlankIs
    <3>3. prefix' \in [Nodes -> Prefixes]
      BY <1>3, <3>1, <3>2 DEF ResetNode
    <3>4. Sound(pool')
      BY <3>1, Apart, FewerIsSound DEF ResetNode
    <3>5. snapshots' \in Snaps
      <4>1. NoSnapshots \in [Messages -> Snapshots]
        BY NoSnapshotsAre, Zenon
      <4>2. snapshots' = [snapshots EXCEPT ![n] = NoSnapshots]
        BY <3>1 DEF ResetNode
      <4> QED BY <4>1, <4>2, Apart DEF Snaps
    <3>6. shared' \subseteq Nodes
      BY <3>1, Apart DEF ResetNode
    <3>7. SharedAreOne'
      <4>1. snapshots' = [snapshots EXCEPT ![n] = NoSnapshots] /\ shared' = shared \ {n}
        BY <3>1 DEF ResetNode
      <4> HIDE DEF n
      <4> QED BY <1>2, <4>1, Apart DEF SharedAreOne, Snaps
    <3> QED BY <3>3, <3>4, <3>5, <3>6, <3>7
  <2>2. CASE ~(plan = "full_rebuild" /\ prefix[n].ready)
    <3>1. /\ prefix' = [Trimmed(n) EXCEPT ![n].ready = FALSE]
          /\ pool' = pool \ Mine(n)
          /\ UNCHANGED <<shared, snapshots>>
      BY <1>1, <2>2
    <3>2. ASSUME NEW q \in Prefixes
          PROVE  [q EXCEPT !.ready = FALSE] \in Prefixes
      BY DEF Prefixes
    <3>3. prefix' \in [Nodes -> Prefixes]
      BY <1>3, <3>1, <3>2
    <3>4. Sound(pool')
      BY <3>1, Apart, FewerIsSound
    <3>5. SharedAreOne'
      BY <1>2, <3>1, Apart, SharedKept
    <3> QED BY <3>1, <3>3, <3>4, <3>5, Apart
  <2> QED BY <2>1, <2>2
<1>5. job' \in Jobs /\ JobIsOfAgent'
  BY <1>1, <1>2, <1>3, AskedIs
<1>6. FlagWithAnswer'
  BY <1>2, <1>3, Apart, FlagKept
<1> QED BY <1>2, <1>3, <1>4, <1>5, <1>6, Apart, Together

-----------------------------------------------------------------------------
(* The job of a request.                                                   *)

\* A job in progress is that of a node.
LEMMA JobIsOfNode ==
    ASSUME IInv, job.phase # "idle"
    PROVE  /\ job.node \in Nodes /\ job.node = run.agent /\ run.agent > 0
           /\ prefix[job.node] \in Prefixes /\ job \in Jobs
           /\ job.content \in Contents \cup {""}
           /\ Built(job.static, job.turns) \in Prefixes /\ job.static \in Statics
           /\ job.phase # "building" => prefix[job.node].static \in Statics
<1>1. job.node = run.agent /\ run.agent > 0
  BY Apart DEF JobIsOfAgent
<1>2. job.node \in Nodes
  BY <1>1, Apart, AgentIsNode
<1>3. prefix[job.node] \in Prefixes
  BY <1>2, Apart
<1>4. job \in Jobs
  BY Apart
<1>5. /\ job.static \in Statics /\ job.turns \in 0 .. MaxTurn
      /\ job.content \in Contents \cup {""}
  BY <1>4 DEF Jobs
<1>6. job.phase # "building" => prefix[job.node].static \in Statics
  BY Apart DEF JobIsOfAgent
<1> QED BY <1>1, <1>2, <1>3, <1>4, <1>5, <1>6, BuiltAre

\* A job that goes on is that of the same agent.
LEMMA JobGoesOn ==
    ASSUME IInv, job.phase # "idle", job' \in Jobs, job'.node = job.node,
           run'.agent = run.agent,
           \/ job'.phase = "building"
           \/ prefix'[job.node].static \in Statics
           \/ prefix' = prefix /\ job.phase # "building"
    PROVE  JobIsOfAgent'
BY JobIsOfNode DEF JobIsOfAgent

\* A prefix that is built may take stale entries out of the pool.
LEMMA PreparedKeeps == ASSUME IInv, Prepared PROVE IInv'
<1> DEFINE n == job.node
           p == Built(job.static, job.turns)
<1>1. job.phase # "idle"
  BY DEF Prepared
<1>2. n \in Nodes /\ p \in Prefixes /\ job \in Jobs /\ p.static \in Statics
  BY <1>1, JobIsOfNode DEF Built
<1> HIDE DEF p
<1>3. prefix' = [prefix EXCEPT ![n] = p] /\ job' = [job EXCEPT !.phase = "built", !.how = ""]
  BY DEF Prepared, p
<1>4. prefix' \in [Nodes -> Prefixes] /\ prefix'[n].static \in Statics
  BY <1>2, <1>3, Apart
<1>5. Sound(pool')
  BY Apart, FewerIsSound DEF Prepared
<1>6. UNCHANGED <<late, answer, run, entry, shared, snapshots>>
  BY DEF Prepared, AnchorsKept
<1>7. job' \in Jobs /\ job'.node = job.node
  BY <1>1, <1>2, <1>3 DEF Jobs
<1> QED BY <1>1, <1>4, <1>5, <1>6, <1>7, Apart, FlagKept, SharedKept, JobGoesOn, Together

\* The slots of the turns are made at the place.
LEMMA FillKeeps == ASSUME IInv, Fill PROVE IInv'
<1>1. job.phase = "built"
  BY DEF Fill
<1>2. PICK phs \in SUBSET (Listed(prefix[job.node]) \cap {Turn}) :
            pool' = Contextual(job.node, prefix[job.node], phs, job.content, pool)
  BY DEF Fill
<1>3. /\ job.node \in Nodes /\ prefix[job.node] \in Prefixes /\ job \in Jobs
      /\ job.content \in Contents \cup {""}
  BY <1>1, JobIsOfNode
<1>4. Sound(pool')
  <2>1. phs \in SUBSET Listed(prefix[job.node])
    OBVIOUS
  <2> QED BY <1>2, <1>3, <2>1, Apart, ContextualIsSound
<1>5. UNCHANGED <<late, prefix, answer, run, entry, shared, snapshots>>
  BY DEF Fill, AnchorsKept
<1>6. job' \in Jobs /\ job'.node = job.node
  BY <1>3 DEF Fill, Jobs
<1> QED BY <1>1, <1>4, <1>5, <1>6, Apart, FlagKept, SharedKept, JobGoesOn, Together

\* A rebuild for a missing slot leaves no entry of the message whole.
LEMMA OutOfSyncKeeps == ASSUME IInv, OutOfSync PROVE IInv'
<1> DEFINE n == job.node
<1>1. job.phase # "idle"
  BY DEF OutOfSync
<1>2. n \in Nodes /\ prefix[n] \in Prefixes /\ job \in Jobs
  BY <1>1, JobIsOfNode
<1>3. prefix' \in [Nodes -> Prefixes]
  <2>1. prefix' = [prefix EXCEPT ![n].ready = FALSE]
    BY DEF OutOfSync
  <2>2. ASSUME NEW q \in Prefixes
        PROVE  [q EXCEPT !.ready = FALSE] \in Prefixes
    BY DEF Prefixes
  <2> QED BY <1>2, <2>1, <2>2, Apart
<1>4. Sound(pool')
  BY Apart, WithoutPfIsSound DEF OutOfSync
<1>5. UNCHANGED <<late, answer, run, entry, shared, snapshots>>
  BY DEF OutOfSync, AnchorsKept
<1>6. job' \in Jobs /\ job'.node = job.node /\ job'.phase = "building"
  BY <1>2 DEF OutOfSync, Jobs
<1> QED BY <1>1, <1>3, <1>4, <1>5, <1>6, Apart, FlagKept, SharedKept, JobGoesOn, Together

\* Seeding touches the anchors of the run only.
LEMMA SeedKeeps == ASSUME IInv, Seed PROVE IInv'
<1>1. job.phase = "filled"
  BY DEF Seed
<1>2. job.node \in Nodes /\ job \in Jobs
  BY <1>1, JobIsOfNode
<1>3. /\ SeedingKeeps \/ UNCHANGED <<run, entry, shared>>
      /\ run' \in RunShape /\ entry' \in Entries /\ shared' \subseteq Nodes
      /\ run'.agent = run.agent
  <2>1. CASE run.reuse
    <3>1. Seeded(job.node, prefix[job.node], pool)
      BY <2>1 DEF Seed
    <3>2. SeedingKeeps
      BY <1>2, <3>1, Apart, SeededKeeps
    <3> QED BY <3>2 DEF SeedingKeeps
  <2>2. CASE ~run.reuse
    BY <2>2, Apart DEF Seed, AnchorsKept
  <2> QED BY <2>1, <2>2
<1>4. UNCHANGED <<late, prefix, answer, snapshots, pool>>
  BY DEF Seed
<1>5. job' \in Jobs /\ job'.node = job.node
  BY <1>2 DEF Seed, Jobs
<1> QED BY <1>1, <1>3, <1>4, <1>5, Apart, FlagKept, SharedKept, JobGoesOn, Together

\* Set_anchor makes an entry, and the delta of a flagged answer at the place.
LEMMA MaterialisedIs ==
    ASSUME IInv, NEW n \in Nodes, NEW at \in Where
    PROVE  /\ Materialised(n, at) \in Entries
           /\ run.flag => Materialised(n, at).deltas[n].born = at
<1> DEFINE delta == [born |-> at, pf |-> TRUE]
<1>1. delta \in Delta /\ delta.born = at
  BY DEF Delta
<1>2. entry \in Entries
  BY Apart
<1>3. entry.deltas \in [Nodes -> Delta]
  BY <1>2 DEF Entries
<1> DEFINE deltas == [entry.deltas EXCEPT ![n] = delta]
<1>4. Materialised(n, at) = IF run.flag THEN [deltas |-> deltas, embedded |-> TRUE] ELSE entry
  BY DEF Materialised
<1> HIDE DEF delta
<1>5. deltas \in [Nodes -> Delta] /\ deltas[n] = delta
  BY <1>1, <1>3
<1> HIDE DEF deltas
<1>6. [deltas |-> deltas, embedded |-> TRUE] \in Entries
  BY <1>5 DEF Entries
<1>7. CASE run.flag
  <2>1. Materialised(n, at) = [deltas |-> deltas, embedded |-> TRUE]
    BY <1>4, <1>7
  <2>2. Materialised(n, at).deltas = deltas
    BY <2>1
  <2> QED BY <1>1, <1>5, <1>6, <2>1, <2>2
<1>8. CASE ~run.flag
  BY <1>2, <1>4, <1>8
<1> QED BY <1>7, <1>8

\* A dense prefill that has the answer has its flag, if no consumer came too early,
\* so the delta it files was made at the place.
LEMMA GenerateKeeps == ASSUME IInv, Generate PROVE IInv'
<1> DEFINE n == job.node
           p == prefix[n]
           at == At(p, answer[run.message])
           new == Materialised(n, at)
<1>1. job.phase = "seeded"
  BY DEF Generate
<1>2. /\ n \in Nodes /\ p \in Prefixes /\ p.static \in Statics /\ job \in Jobs /\ run.agent > 0
      /\ job.content \in Contents \cup {""}
  BY <1>1, JobIsOfNode
<1>3. run.message \in Messages /\ answer[run.message] \in Contents \cup {""}
  BY Apart DEF RunShape
<1>4. at \in Where
  BY <1>2, <1>3, PlacesAre
<1>5. new \in Entries /\ (run.flag => new.deltas[n].born = at)
  BY <1>2, <1>4, MaterialisedIs
<1>6. Up \in Listed(p) => late \/ run.flag
  <2>1. Up \in Listed(p) => answer[run.message] # ""
    BY DEF Generate
  <2> QED BY <1>2, <2>1, Apart DEF FlagWithAnswer
<1>7. PICK made \in SUBSET Listed(p), dense \in BOOLEAN :
          LET kept == Contextual(n, p, made, job.content, pool)
          IN  IF dense /\ Up \in Listed(p)
              THEN /\ InPlace(new)
                   /\ pool' = IF HasDelta(new, n)
                              THEN Put(kept, {Pooled(n, Up, at, new.deltas[n], new.embedded)})
                              ELSE kept
              ELSE /\ pool' = kept
                   /\ UNCHANGED <<entry, snapshots>>
  BY DEF Generate
<1> DEFINE kept == Contextual(n, p, made, job.content, pool)
           filed == Pooled(n, Up, at, new.deltas[n], new.embedded)
<1>8. Sound(kept)
  BY <1>2, Apart, ContextualIsSound
<1> HIDE DEF kept, at, new
<1>9. Up \in Listed(p) /\ HasDelta(new, n) => Sound({filed})
  <2> SUFFICES ASSUME Up \in Listed(p), HasDelta(new, n) PROVE Sound({filed})
    OBVIOUS
  <2>1. /\ new.deltas[n] \in RealDelta /\ new.embedded \in BOOLEAN
        /\ late \/ new.deltas[n].born = at
    <3>1. new.deltas[n] \in Delta /\ new.deltas[n] # NoDelta
      BY <1>2, <1>5 DEF Entries, HasDelta
    <3> QED BY <1>2, <1>5, <1>6, <3>1, DeltasAre DEF Entries
  <2>2. filed = [node |-> n, message |-> run.message, ph |-> Up, at |-> at,
                 delta |-> new.deltas[n], embedded |-> new.embedded]
    BY DEF Pooled
  <2> HIDE DEF filed
  <2>3. filed \in PoolEntries
    BY <1>2, <1>3, <1>4, <2>1, <2>2 DEF PoolEntries
  <2>4. late \/ filed.delta.born = filed.at
    BY <2>1, <2>2
  <2> QED BY <2>3, <2>4 DEF Sound, OnePerKey
<1> HIDE DEF filed
<1>10. entry' \in Entries /\ snapshots' \in Snaps /\ Sound(pool') /\ SharedAreOne'
  <2>1. CASE dense /\ Up \in Listed(p)
    <3>1. InPlace(new) /\ pool' = IF HasDelta(new, n) THEN Put(kept, {filed}) ELSE kept
      BY <1>7, <2>1 DEF kept, filed, at, new
    <3>2. entry' \in Entries /\ snapshots' \in Snaps /\ SharedAreOne'
      <4>1. run' = run /\ shared' = shared
        BY DEF Generate
      <4> QED BY <1>5, <3>1, <4>1, Apart, InPlaceKeeps DEF Snaps
    <3>3. HasDelta(new, n) => Sound(Put(kept, {filed}))
      BY <1>8, <1>9, <2>1, PutIsSound
    <3> QED BY <1>8, <3>1, <3>2, <3>3
  <2>2. CASE ~(dense /\ Up \in Listed(p))
    <3>1. pool' = kept /\ UNCHANGED <<entry, snapshots>>
      BY <1>7, <2>2 DEF kept
    <3>2. UNCHANGED <<run, shared>>
      BY DEF Generate
    <3> QED BY <1>8, <3>1, <3>2, Apart, SharedKept
  <2> QED BY <2>1, <2>2
<1>11. UNCHANGED <<late, prefix, answer, run, shared>>
  BY DEF Generate
<1>12. job' \in Jobs /\ job'.node = job.node
  BY <1>2 DEF Generate, Jobs
<1> QED BY <1>1, <1>10, <1>11, <1>12, Apart, FlagKept, SharedKept, JobGoesOn, Together

\* What a snapshot puts back has no embeddings.
LEMMA FinalizeKeeps == ASSUME IInv, Finalize PROVE IInv'
<1> DEFINE n == job.node
           own == {e \in Mine(n) : e.ph = Up}
<1>1. job.phase = "generated"
  BY DEF Finalize
<1>2. n \in Nodes /\ prefix[n].static \in Statics /\ run \in RunShape /\ run.message \in Messages /\ run.flag \in BOOLEAN
  BY <1>1, Apart, JobIsOfNode DEF RunShape
<1>3. PICK e \in IF own = {} THEN {entry} ELSE {Only(n, f.delta) : f \in own} :
          /\ entry' = e
          /\ shared' = IF own # {} THEN {n} ELSE IF e = NoEntry THEN {} ELSE shared \cup {n}
          /\ snapshots' = [snapshots EXCEPT ![n][run.message] = [entry |-> e, flag |-> run.flag]]
          /\ pool' = IF HasDelta(e, n) THEN Put(pool, {SnapshotPut(n, e)}) ELSE pool
  BY DEF Finalize
<1>4. e \in Entries
  <2>1. CASE own = {}
    BY <1>3, <2>1, Apart
  <2>2. CASE own # {}
    <3>1. PICK f \in own : e = Only(n, f.delta)
      BY <1>3, <2>2
    <3>2. f \in PoolEntries
      BY Apart DEF Sound, Mine
    <3>3. f.delta \in Delta
      BY <3>2, DeltasAre DEF PoolEntries
    <3> QED BY <1>2, <3>1, <3>3, OnlyIsEntry
  <2> QED BY <2>1, <2>2
<1>5. Sound(pool')
  <2>1. HasDelta(e, n) => Sound(Put(pool, {SnapshotPut(n, e)}))
    BY <1>2, <1>4, Apart, SnapshotPutIsSound, PutIsSound
  <2> QED BY <1>3, <2>1, Apart
<1>6. snapshots' \in Snaps
  <2> DEFINE snapshot == [entry |-> e, flag |-> run.flag]
  <2>1. snapshot \in Snapshots
    BY <1>2, <1>4 DEF Snapshots
  <2>2. snapshots' = [snapshots EXCEPT ![n][run.message] = snapshot]
    BY <1>3
  <2>3. snapshots \in Snaps
    BY Apart
  <2> HIDE DEF snapshot
  <2> QED BY <1>2, <2>1, <2>2, <2>3 DEF Snaps
<1>7. shared' \subseteq Nodes
  <2>1. shared' \subseteq shared \cup {n}
    BY <1>3
  <2>2. shared \subseteq Nodes
    BY Apart
  <2> HIDE DEF n
  <2> QED BY <1>2, <2>1, <2>2
<1>8. UNCHANGED <<late, prefix, answer, run>> /\ job' = Idle
  BY DEF Finalize
<1>9. job' \in Jobs /\ JobIsOfAgent'
  BY <1>8, IdleIs DEF JobIsOfAgent
<1>10. entry' \in Entries
  BY <1>3, <1>4
<1>11. SharedAreOne'
  <2> SUFFICES ASSUME NEW k \in shared'
               PROVE  snapshots'[k][run.message].entry = e
    BY <1>3, <1>8 DEF SharedAreOne
  <2>1. /\ snapshots \in [Nodes -> [Messages -> Snapshots]]
        /\ snapshots' = [snapshots EXCEPT ![n][run.message] = [entry |-> e, flag |-> run.flag]]
    BY <1>3, Apart DEF Snaps
  <2>2. CASE k = n
    <3> HIDE DEF n
    <3> QED BY <1>2, <2>1, <2>2
  <2>3. CASE k # n
    <3>1. k \in shared /\ own = {} /\ e = entry
      BY <1>3, <2>3
    <3>2. snapshots'[k] = snapshots[k]
      BY <2>1, <2>3, <3>1, Apart
    <3> QED BY <3>1, <3>2, Apart DEF SharedAreOne
  <2> QED BY <2>2, <2>3
<1> QED BY <1>5, <1>6, <1>7, <1>8, <1>9, <1>10, <1>11, Apart, FlagKept, Together

\* A failure drops a delta, or nothing.
LEMMA FailKeeps == ASSUME IInv, Fail PROVE IInv'
<1> DEFINE n == job.node
           dropped == [entry EXCEPT !.deltas[n] = NoDelta]
<1>1. UNCHANGED <<late, prefix, answer, run, shared, pool>> /\ job' = Idle
  BY DEF Fail
<1>2. entry' \in Entries /\ snapshots' \in Snaps /\ SharedAreOne'
  <2>1. CASE UNCHANGED <<entry, snapshots>>
    BY <1>1, <2>1, Apart, SharedKept
  <2>2. CASE job.phase = "seeded" /\ InPlace(dropped)
    <3>1. n \in Nodes
      BY <2>2, JobIsOfNode
    <3>2. NoDelta \in Delta
      BY DeltasAre
    <3>3. dropped \in Entries
      <4>1. entry \in Entries
        BY Apart
      <4> HIDE DEF n
      <4> QED BY <3>1, <3>2, <4>1 DEF Entries
    <3> HIDE DEF dropped
    <3> QED BY <1>1, <2>2, <3>3, Apart, InPlaceKeeps DEF Snaps
  <2> QED BY <2>1, <2>2 DEF Fail
<1>3. job' \in Jobs /\ JobIsOfAgent'
  BY <1>1, IdleIs DEF JobIsOfAgent
<1> QED BY <1>1, <1>2, <1>3, Apart, FlagKept, Together

\* After a release there is no answer, and no flag to find.
LEMMA ReleaseKeeps == ASSUME IInv, Release PROVE IInv'
<1>1. /\ prefix' = [n \in Nodes |-> Blank] /\ answer' = [m \in Messages |-> ""]
      /\ snapshots' = [n \in Nodes |-> NoSnapshots] /\ pool' = {}
      /\ run' = [run EXCEPT !.flag = FALSE] /\ entry' = NoEntry /\ shared' = {}
      /\ job = Idle /\ job' = job
  BY DEF Release
<1>2. Blank \in Prefixes
  BY BlankIs
<1>3. NoSnapshots \in [Messages -> Snapshots] /\ NoEntry \in Entries
  BY NoSnapshotsAre, Zenon
<1>4. run' \in RunShape
  <2>1. run \in RunShape
    BY Apart
  <2> QED BY <1>1, <2>1 DEF RunShape
<1>5. prefix' \in [Nodes -> Prefixes] /\ snapshots' \in Snaps /\ Sound(pool')
  BY <1>1, <1>2, <1>3 DEF Snaps, Sound, OnePerKey
<1>6. answer'[run'.message] = "" /\ answer' \in [Messages -> Contents \cup {""}]
  <2>1. run'.message \in Messages
    BY <1>4 DEF RunShape
  <2> QED BY <1>1, <2>1
<1>7. FlagWithAnswer' /\ JobIsOfAgent'
  BY <1>1, <1>6, IdleIs DEF FlagWithAnswer, JobIsOfAgent
<1>8. SharedAreOne'
  BY <1>1 DEF SharedAreOne
<1>9. late' \in BOOLEAN
  BY DEF Release
<1> QED BY <1>1, <1>3, <1>4, <1>5, <1>6, <1>7, <1>8, <1>9, Apart, Together

\* Every step keeps the invariant.
LEMMA NextKeeps == ASSUME IInv, [Next]_vars PROVE IInv'
<1>1. ASSUME NEW m \in Messages, NEW reuse \in BOOLEAN, NewRun(m, reuse) PROVE IInv'
  BY <1>1, NewRunKeeps
<1>2. ASSUME NEW c \in Contents, Answered(c) PROVE IInv'
  BY <1>2, AnsweredKeeps
<1>3. CASE RegisterAgent
  BY <1>3, RegisterAgentKeeps
<1>4. ASSUME NEW static \in Statics, NEW turns \in 0 .. MaxTurn,
             NEW content \in IF turns = 0 THEN {""} ELSE Contents,
             \/ AskNoop(static, turns, content) \/ AskAppend(static, turns, content)
             \/ AskRewind(static, turns, content) \/ AskRebuild(static, turns, content)
      PROVE  IInv'
  <2>1. Wanted(static, turns, content)
    BY DEF Wanted
  <2> QED BY <1>4, <2>1, AskNoopKeeps, AskAppendKeeps, AskRewindKeeps, AskRebuildKeeps
<1>5. CASE Prepared \/ Fill \/ OutOfSync \/ Seed
  BY <1>5, PreparedKeeps, FillKeeps, OutOfSyncKeeps, SeedKeeps
<1>6. CASE Generate \/ Finalize \/ Fail \/ Release
  BY <1>6, GenerateKeeps, FinalizeKeeps, FailKeeps, ReleaseKeeps
<1>7. CASE UNCHANGED vars
  BY <1>7 DEF vars, IInv, Shapes, FlagWithAnswer, JobIsOfAgent, SharedAreOne, OnePerKey,
              WholeIsTrue, WholeInAnyOrder
<1> QED BY <1>1, <1>2, <1>3, <1>4, <1>5, <1>6, <1>7 DEF Next

\* Whenever agent 0 answers: unless a consumer was registered on the answer of an
\* earlier run since the pool was empty, what a blend may take from the pool was
\* computed at the place, and for the content, it is kept under
\* (agent_anchor_pool.py, _anchor_dict_from_pool_entry).
THEOREM WholeAlwaysTrue == Spec => []WholeIsTrue
<1>1. IInv /\ [Next]_vars => IInv'
  BY NextKeeps
<1>2. IInv => WholeIsTrue
  BY DEF IInv
<1> QED BY <1>1, <1>2, InitIsFine, PTL DEF Spec

\* The invariant types the state.
LEMMA TypesHold == IInv => TypeOK
<1> SUFFICES ASSUME IInv PROVE TypeOK
  OBVIOUS
<1>1. prefix \in [Nodes -> [static : Statics \cup {""}, turns : 0 .. MaxTurn, ready : BOOLEAN]]
  BY Apart DEF Prefixes
<1>2. entry.deltas \in [Nodes -> Delta] /\ entry.embedded \in BOOLEAN
  BY Apart DEF Entries
<1>3. \A e, f \in pool : SameKey(e, f) => e = f
  BY Apart DEF Sound, OnePerKey
<1>4. ASSUME NEW e \in pool
      PROVE  e.at \in Where /\ e.delta \in Delta \ {NoDelta}
  <2>1. e \in PoolEntries
    BY Apart DEF Sound
  <2> QED BY <2>1, DeltasAre DEF PoolEntries
<1>5. \A n \in shared : snapshots[n][run.message].entry = entry
  BY Apart DEF SharedAreOne
<1> QED BY <1>1, <1>2, <1>3, <1>4, <1>5 DEF TypeOK

\* The pool keeps one entry per key, filed under the place of a prefix that has a
\* static text, and a snapshot that shares the dictionary of the run agrees with it
\* (make_topology_key of agent_anchor_pool.py, _snapshot_anchors).
THEOREM TypeCorrect == Spec => []TypeOK
<1>1. IInv /\ [Next]_vars => IInv'
  BY NextKeeps
<1> QED BY <1>1, InitIsFine, TypesHold, PTL DEF Spec

=============================================================================
