------------------------- MODULE AgentLoopProofs -------------------------
(***************************************************************************)
(* Theorems about AgentLoop, for any set of tasks and modes and any number *)
(* of stray replies, of failing calls and of turns.                        *)
(***************************************************************************)
EXTENDS AgentLoop, FiniteSetTheorems, SequenceTheorems, NaturalsInduction, WellFoundedInduction, TLAPS

-----------------------------------------------------------------------------
(* Sets of numbers, and the gate that comes first.                         *)

\* A set of numbers that is not empty has a smallest one.
LEMMA Smallest ==
    ASSUME NEW T \in SUBSET Nat, T # {}
    PROVE  Min(T) \in T /\ \A y \in T : Min(T) <= y
<1>1. PICK x \in T : \A y \in T : ~(<<y, x>> \in OpToRel(<, Nat))
  BY NatLessThanWellFounded, WFMin
<1>2. \A y \in T : ~(y < x)
  BY <1>1 DEF OpToRel
<1>3. \A y \in T : x <= y
  BY <1>2
<1> QED BY <1>3 DEF Min

\* A set of numbers up to N that is not empty has a largest one.
LEMMA Largest ==
    ASSUME NEW N \in Nat, NEW T \in SUBSET (0 .. N), T # {}
    PROVE  Max(T) \in T /\ \A y \in T : Max(T) >= y
<1> DEFINE U == {N - x : x \in T}
<1>1. U \in SUBSET Nat /\ U # {}
  <2>1. \A x \in T : N - x \in Nat
    OBVIOUS
  <2>2. PICK x \in T : TRUE
    OBVIOUS
  <2>3. N - x \in U
    OBVIOUS
  <2> QED BY <2>1, <2>3
<1> HIDE DEF U
<1>2. Min(U) \in U /\ \A y \in U : Min(U) <= y
  BY <1>1, Smallest
<1>3. PICK x \in T : Min(U) = N - x
  BY <1>2 DEF U
<1>4. \A y \in T : N - x <= N - y
  BY <1>2, <1>3 DEF U
<1>5. \A y \in T : x >= y
  BY <1>4
<1> QED BY <1>5 DEF Max

\* The first open gate of an order, if there is one.
LEMMA FirstOpenIs ==
    ASSUME NEW order, NEW n \in Nat, DOMAIN order = 1 .. n, NEW open
    PROVE  \/ FirstOpen(order, open) = "none" /\ \A i \in 1 .. n : order[i] \notin open
           \/ \E i \in 1 .. n :
                 /\ FirstOpen(order, open) = order[i] /\ order[i] \in open
                 /\ \A j \in 1 .. n : j < i => order[j] \notin open
<1> DEFINE hits == {i \in DOMAIN order : order[i] \in open}
<1>1. CASE hits = {}
  <2>1. FirstOpen(order, open) = "none"
    BY <1>1 DEF FirstOpen
  <2> QED BY <1>1, <2>1
<1>2. CASE hits # {}
  <2>1. hits \in SUBSET Nat
    OBVIOUS
  <2>2. FirstOpen(order, open) = order[Min(hits)]
    BY <1>2 DEF FirstOpen
  <2> DEFINE i == Min(hits)
  <2>3. i \in hits /\ \A y \in hits : i <= y
    BY <1>2, <2>1, Smallest
  <2> HIDE DEF i
  <2>4. i \in 1 .. n /\ order[i] \in open
    BY <2>3
  <2>5. \A j \in 1 .. n : j < i => order[j] \notin open
    BY <2>3
  <2> QED BY <2>2, <2>4, <2>5 DEF i
<1> QED BY <1>1, <1>2

\* Two orders agree when a gate that is open in the second is in the first, behind
\* gates that are not.
LEMMA OrdersAgree ==
    ASSUME NEW l, NEW n \in Nat, DOMAIN l = 1 .. n, NEW p, NEW m \in Nat, DOMAIN p = 1 .. m,
           NEW open,
           \A k \in 1 .. m : p[k] \in open =>
              \E i \in 1 .. n : l[i] = p[k] /\ \A j \in 1 .. n : j < i => l[j] \notin open
    PROVE  FirstOpen(p, open) \in {"none", FirstOpen(l, open)}
<1> SUFFICES ASSUME FirstOpen(p, open) # "none" PROVE FirstOpen(p, open) = FirstOpen(l, open)
  OBVIOUS
<1>1. PICK k \in 1 .. m : FirstOpen(p, open) = p[k] /\ p[k] \in open
  BY FirstOpenIs
<1>2. PICK i \in 1 .. n : l[i] = p[k] /\ \A j \in 1 .. n : j < i => l[j] \notin open
  BY <1>1
<1>3. PICK e \in 1 .. n : FirstOpen(l, open) = l[e] /\ l[e] \in open
                          /\ \A j \in 1 .. n : j < e => l[j] \notin open
  BY <1>1, <1>2, FirstOpenIs
<1>4. e = i
  BY <1>1, <1>2, <1>3
<1> QED BY <1>1, <1>2, <1>3, <1>4

LEMMA BrowserAgrees ==
    ASSUME NEW a, NEW tr, NEW c,
           FormPassed(tr) => Issued(tr, "verify")
    PROVE  FirstOpen(Priority("browser"), BrowserGates(a, tr, c))
             \in {"none", FirstOpen(Ladder("browser"), BrowserGates(a, tr, c))}
<1> DEFINE open == BrowserGates(a, tr, c)
           p == Priority("browser")
           l == Ladder("browser")
<1>1. p = <<"analyzer_done", "patcher_edit", "patcher_done", "verifier_exec",
           "verifier_pass", "verifier_fail">>
  BY DEF Priority, Generic
<1>2. l = <<"analyzer_done", "analyzer_browser", "patcher_done", "patcher_edit",
           "patcher_read", "verifier_pass", "verifier_fail", "verifier_exec">>
  BY DEF Ladder, Generic, BrowserLadder
<1>3. DOMAIN p = 1 .. 6 /\ DOMAIN l = 1 .. 8
  BY <1>1, <1>2
<1>4. "patcher_edit" \in open => open \cap {"analyzer_done", "analyzer_browser", "patcher_done"} = {}
  BY DEF BrowserGates, Flag
<1>5. "patcher_done" \in open => open \cap {"analyzer_done", "analyzer_browser"} = {}
  BY DEF BrowserGates, Flag
<1>6. "verifier_exec" \in open => open \cap {"analyzer_done", "analyzer_browser", "patcher_done", "patcher_edit",
                    "patcher_read", "verifier_pass", "verifier_fail"} = {}
  BY DEF BrowserGates, Flag
<1>7. "verifier_pass" \in open => open \cap {"analyzer_done", "analyzer_browser", "patcher_done", "patcher_edit",
                    "patcher_read"} = {}
  BY DEF BrowserGates, Flag
<1>8. "verifier_fail" \in open => open \cap {"analyzer_done", "analyzer_browser", "patcher_done", "patcher_edit",
                    "patcher_read", "verifier_pass"} = {}
  BY DEF BrowserGates, Flag
<1> HIDE DEF open, p, l
<1>9. \A k \in 1 .. 6 : p[k] \in open =>
         \E i \in 1 .. 8 : l[i] = p[k] /\ \A j \in 1 .. 8 : j < i => l[j] \notin open
  <2> SUFFICES ASSUME NEW k \in 1 .. 6, p[k] \in open
               PROVE  \E i \in 1 .. 8 : l[i] = p[k] /\ \A j \in 1 .. 8 : j < i => l[j] \notin open
    OBVIOUS
  <2>1. CASE k = 1
    <3>1. l[1] = p[k] /\ \A j \in 1 .. 8 : j < 1 => l[j] \notin open
      BY <1>1, <1>2, <2>1
    <3> QED BY <3>1
  <2>2. CASE k = 2
    <3>1. l[4] = p[k] /\ \A j \in 1 .. 8 : j < 4 => l[j] \notin open
      BY <1>1, <1>2, <2>2, <1>4
    <3> QED BY <3>1
  <2>3. CASE k = 3
    <3>1. l[3] = p[k] /\ \A j \in 1 .. 8 : j < 3 => l[j] \notin open
      BY <1>1, <1>2, <2>3, <1>5
    <3> QED BY <3>1
  <2>4. CASE k = 4
    <3>1. l[8] = p[k] /\ \A j \in 1 .. 8 : j < 8 => l[j] \notin open
      BY <1>1, <1>2, <2>4, <1>6
    <3> QED BY <3>1
  <2>5. CASE k = 5
    <3>1. l[6] = p[k] /\ \A j \in 1 .. 8 : j < 6 => l[j] \notin open
      BY <1>1, <1>2, <2>5, <1>7
    <3> QED BY <3>1
  <2>6. CASE k = 6
    <3>1. l[7] = p[k] /\ \A j \in 1 .. 8 : j < 7 => l[j] \notin open
      BY <1>1, <1>2, <2>6, <1>8
    <3> QED BY <3>1
  <2> QED BY <2>1, <2>2, <2>3, <2>4, <2>5, <2>6
<1>10. FirstOpen(p, open) \in {"none", FirstOpen(l, open)}
  BY <1>3, <1>9, OrdersAgree
<1> QED BY <1>10 DEF open, p, l

LEMMA ConfigAgrees ==
    ASSUME NEW a, NEW tr, NEW c
    PROVE  FirstOpen(Priority("config"), ConfigGates(a, tr, c))
             \in {"none", FirstOpen(Ladder("config"), ConfigGates(a, tr, c))}
<1> DEFINE open == ConfigGates(a, tr, c)
           p == Priority("config")
           l == Ladder("config")
<1>1. p = <<"analyzer_done", "edit_only", "patcher_pytest", "patcher_done",
           "verifier_exec", "verifier_pass">>
  BY DEF Priority, Generic
<1>2. /\ DOMAIN l = 1 .. 10
      /\ l[1] = "analyzer_done"
      /\ l[2] = "analyzer_read"
      /\ l[3] = "patcher_done"
      /\ l[4] = "patcher_pytest"
      /\ l[5] = "verifier_pass"
      /\ l[6] = "verifier_exec"
      /\ l[7] = "verifier_edit"
      /\ l[8] = "verifier_read"
      /\ l[9] = "patcher_read"
      /\ l[10] = "edit_only"
  <2>1. l = ConfigExplore \o ConfigRepair
    BY DEF Ladder, Generic
  <2> QED BY <2>1 DEF ConfigExplore, ConfigRepair
<1>3. DOMAIN p = 1 .. 6 /\ DOMAIN l = 1 .. 10
  BY <1>1, <1>2
<1>4. "edit_only" \in open => open \cap {"analyzer_done", "analyzer_read", "patcher_done", "patcher_pytest",
                    "verifier_pass", "verifier_exec", "verifier_edit", "verifier_read",
                    "patcher_read"} = {}
  BY DEF ConfigGates, Flag
<1>5. "patcher_pytest" \in open => open \cap {"analyzer_done", "analyzer_read", "patcher_done"} = {}
  BY DEF ConfigGates, Flag
<1>6. "patcher_done" \in open => open \cap {"analyzer_done", "analyzer_read"} = {}
  BY DEF ConfigGates, Flag
<1>7. "verifier_exec" \in open => open \cap {"analyzer_done", "analyzer_read", "patcher_done", "patcher_pytest",
                    "verifier_pass"} = {}
  BY DEF ConfigGates, Flag
<1>8. "verifier_pass" \in open => open \cap {"analyzer_done", "analyzer_read", "patcher_done", "patcher_pytest"} = {}
  BY DEF ConfigGates, Flag
<1> HIDE DEF open, p, l
<1>9. \A k \in 1 .. 6 : p[k] \in open =>
         \E i \in 1 .. 10 : l[i] = p[k] /\ \A j \in 1 .. 10 : j < i => l[j] \notin open
  <2> SUFFICES ASSUME NEW k \in 1 .. 6, p[k] \in open
               PROVE  \E i \in 1 .. 10 : l[i] = p[k] /\ \A j \in 1 .. 10 : j < i => l[j] \notin open
    OBVIOUS
  <2>1. CASE k = 1
    <3>1. l[1] = p[k] /\ \A j \in 1 .. 10 : j < 1 => l[j] \notin open
      BY <1>1, <1>2, <2>1
    <3> QED BY <3>1
  <2>2. CASE k = 2
    <3>1. l[10] = p[k] /\ \A j \in 1 .. 10 : j < 10 => l[j] \notin open
      BY <1>1, <1>2, <2>2, <1>4
    <3> QED BY <3>1
  <2>3. CASE k = 3
    <3>1. l[4] = p[k] /\ \A j \in 1 .. 10 : j < 4 => l[j] \notin open
      BY <1>1, <1>2, <2>3, <1>5
    <3> QED BY <3>1
  <2>4. CASE k = 4
    <3>1. l[3] = p[k] /\ \A j \in 1 .. 10 : j < 3 => l[j] \notin open
      BY <1>1, <1>2, <2>4, <1>6
    <3> QED BY <3>1
  <2>5. CASE k = 5
    <3>1. l[6] = p[k] /\ \A j \in 1 .. 10 : j < 6 => l[j] \notin open
      BY <1>1, <1>2, <2>5, <1>7
    <3> QED BY <3>1
  <2>6. CASE k = 6
    <3>1. l[5] = p[k] /\ \A j \in 1 .. 10 : j < 5 => l[j] \notin open
      BY <1>1, <1>2, <2>6, <1>8
    <3> QED BY <3>1
  <2> QED BY <2>1, <2>2, <2>3, <2>4, <2>5, <2>6
<1>10. FirstOpen(p, open) \in {"none", FirstOpen(l, open)}
  BY <1>3, <1>9, OrdersAgree
<1> QED BY <1>10 DEF open, p, l

LEMMA BugfixAgrees ==
    ASSUME NEW a, NEW tr, NEW c
    PROVE  FirstOpen(Priority("bugfix"), BugfixGates(a, tr, c))
             \in {"none", FirstOpen(Ladder("bugfix"), BugfixGates(a, tr, c))}
<1> DEFINE open == BugfixGates(a, tr, c)
           p == Priority("bugfix")
           l == Ladder("bugfix")
<1>1. p = <<"text_only", "edit_only", "patcher_pytest", "patcher_done", "verifier_exec",
           "verifier_pass">>
  BY DEF Priority, Generic
<1>2. l = <<"text_only", "patcher_done", "patcher_pytest", "verifier_pass",
           "verifier_exec", "verifier_edit", "verifier_read", "patcher_read", "edit_only">>
  BY DEF Ladder, Generic, BugfixLadder
<1>3. DOMAIN p = 1 .. 6 /\ DOMAIN l = 1 .. 9
  BY <1>1, <1>2
<1>4. "edit_only" \in open => open \cap {"text_only", "patcher_done", "patcher_pytest", "verifier_pass",
                    "verifier_exec", "verifier_edit", "verifier_read", "patcher_read"} = {}
  BY DEF BugfixGates, Flag
<1>5. "patcher_pytest" \in open => open \cap {"text_only", "patcher_done"} = {}
  BY DEF BugfixGates, Flag
<1>6. "patcher_done" \in open => open \cap {"text_only"} = {}
  BY DEF BugfixGates, Flag
<1>7. "verifier_exec" \in open => open \cap {"text_only", "patcher_done", "patcher_pytest", "verifier_pass"} = {}
  BY DEF BugfixGates, Flag
<1>8. "verifier_pass" \in open => open \cap {"text_only", "patcher_done", "patcher_pytest"} = {}
  BY DEF BugfixGates, Flag
<1> HIDE DEF open, p, l
<1>9. \A k \in 1 .. 6 : p[k] \in open =>
         \E i \in 1 .. 9 : l[i] = p[k] /\ \A j \in 1 .. 9 : j < i => l[j] \notin open
  <2> SUFFICES ASSUME NEW k \in 1 .. 6, p[k] \in open
               PROVE  \E i \in 1 .. 9 : l[i] = p[k] /\ \A j \in 1 .. 9 : j < i => l[j] \notin open
    OBVIOUS
  <2>1. CASE k = 1
    <3>1. l[1] = p[k] /\ \A j \in 1 .. 9 : j < 1 => l[j] \notin open
      BY <1>1, <1>2, <2>1
    <3> QED BY <3>1
  <2>2. CASE k = 2
    <3>1. l[9] = p[k] /\ \A j \in 1 .. 9 : j < 9 => l[j] \notin open
      BY <1>1, <1>2, <2>2, <1>4
    <3> QED BY <3>1
  <2>3. CASE k = 3
    <3>1. l[3] = p[k] /\ \A j \in 1 .. 9 : j < 3 => l[j] \notin open
      BY <1>1, <1>2, <2>3, <1>5
    <3> QED BY <3>1
  <2>4. CASE k = 4
    <3>1. l[2] = p[k] /\ \A j \in 1 .. 9 : j < 2 => l[j] \notin open
      BY <1>1, <1>2, <2>4, <1>6
    <3> QED BY <3>1
  <2>5. CASE k = 5
    <3>1. l[5] = p[k] /\ \A j \in 1 .. 9 : j < 5 => l[j] \notin open
      BY <1>1, <1>2, <2>5, <1>7
    <3> QED BY <3>1
  <2>6. CASE k = 6
    <3>1. l[4] = p[k] /\ \A j \in 1 .. 9 : j < 4 => l[j] \notin open
      BY <1>1, <1>2, <2>6, <1>8
    <3> QED BY <3>1
  <2> QED BY <2>1, <2>2, <2>3, <2>4, <2>5, <2>6
<1>10. FirstOpen(p, open) \in {"none", FirstOpen(l, open)}
  BY <1>3, <1>9, OrdersAgree
<1> QED BY <1>10 DEF open, p, l

LEMMA NormalizerAgrees ==
    ASSUME NEW a, NEW tr, NEW c,
           a = 1 /\ PytestPassed(tr) => TestsWritten(tr) \/ c.onDisk
    PROVE  FirstOpen(Priority("normalizer"), NormalizerGates(a, tr, c))
             \in {"none", FirstOpen(Ladder("normalizer"), NormalizerGates(a, tr, c))}
<1> DEFINE open == NormalizerGates(a, tr, c)
           p == Priority("normalizer")
           l == Ladder("normalizer")
<1>1. p = <<"analyzer_done", "patcher_write", "patcher_pytest", "patcher_done",
           "verifier_exec", "verifier_pass">>
  BY DEF Priority, Generic
<1>2. l = <<"analyzer_done", "analyzer_read", "patcher_done", "verifier_pass",
           "patcher_pytest", "verifier_exec", "patcher_write", "patcher_read">>
  BY DEF Ladder, Generic, NormalizerLadder
<1>3. DOMAIN p = 1 .. 6 /\ DOMAIN l = 1 .. 8
  BY <1>1, <1>2
<1>4. "patcher_write" \in open => open \cap {"analyzer_done", "analyzer_read", "patcher_done", "verifier_pass",
                    "patcher_pytest", "verifier_exec"} = {}
  BY DEF NormalizerGates, Flag
<1>5. "patcher_pytest" \in open => open \cap {"analyzer_done", "analyzer_read", "patcher_done", "verifier_pass"} = {}
  BY DEF NormalizerGates, Flag
<1>6. "patcher_done" \in open => open \cap {"analyzer_done", "analyzer_read"} = {}
  BY DEF NormalizerGates, Flag
<1>7. "verifier_exec" \in open => open \cap {"analyzer_done", "analyzer_read", "patcher_done", "verifier_pass",
                    "patcher_pytest"} = {}
  BY DEF NormalizerGates, Flag
<1>8. "verifier_pass" \in open => open \cap {"analyzer_done", "analyzer_read", "patcher_done"} = {}
  BY DEF NormalizerGates, Flag
<1> HIDE DEF open, p, l
<1>9. \A k \in 1 .. 6 : p[k] \in open =>
         \E i \in 1 .. 8 : l[i] = p[k] /\ \A j \in 1 .. 8 : j < i => l[j] \notin open
  <2> SUFFICES ASSUME NEW k \in 1 .. 6, p[k] \in open
               PROVE  \E i \in 1 .. 8 : l[i] = p[k] /\ \A j \in 1 .. 8 : j < i => l[j] \notin open
    OBVIOUS
  <2>1. CASE k = 1
    <3>1. l[1] = p[k] /\ \A j \in 1 .. 8 : j < 1 => l[j] \notin open
      BY <1>1, <1>2, <2>1
    <3> QED BY <3>1
  <2>2. CASE k = 2
    <3>1. l[7] = p[k] /\ \A j \in 1 .. 8 : j < 7 => l[j] \notin open
      BY <1>1, <1>2, <2>2, <1>4
    <3> QED BY <3>1
  <2>3. CASE k = 3
    <3>1. l[5] = p[k] /\ \A j \in 1 .. 8 : j < 5 => l[j] \notin open
      BY <1>1, <1>2, <2>3, <1>5
    <3> QED BY <3>1
  <2>4. CASE k = 4
    <3>1. l[3] = p[k] /\ \A j \in 1 .. 8 : j < 3 => l[j] \notin open
      BY <1>1, <1>2, <2>4, <1>6
    <3> QED BY <3>1
  <2>5. CASE k = 5
    <3>1. l[6] = p[k] /\ \A j \in 1 .. 8 : j < 6 => l[j] \notin open
      BY <1>1, <1>2, <2>5, <1>7
    <3> QED BY <3>1
  <2>6. CASE k = 6
    <3>1. l[4] = p[k] /\ \A j \in 1 .. 8 : j < 4 => l[j] \notin open
      BY <1>1, <1>2, <2>6, <1>8
    <3> QED BY <3>1
  <2> QED BY <2>1, <2>2, <2>3, <2>4, <2>5, <2>6
<1>10. FirstOpen(p, open) \in {"none", FirstOpen(l, open)}
  BY <1>3, <1>9, OrdersAgree
<1> QED BY <1>10 DEF open, p, l

LEMMA QuickNoteAgrees ==
    ASSUME NEW a, NEW tr, NEW c
    PROVE  FirstOpen(Priority("quick"), QuickNoteGates(a, tr, c))
             \in {"none", FirstOpen(Ladder("quick"), QuickNoteGates(a, tr, c))}
<1> DEFINE open == QuickNoteGates(a, tr, c)
           p == Priority("quick")
           l == Ladder("quick")
<1>1. p = <<"extractor_read", "extractor_done", "writer_write", "writer_done",
           "verifier_done">>
  BY DEF Priority, Generic
<1>2. l = <<"extractor_done", "extractor_read", "writer_write", "writer_done",
           "verifier_done">>
  BY DEF Ladder, Generic, QuickNoteLadder
<1>3. DOMAIN p = 1 .. 5 /\ DOMAIN l = 1 .. 5
  BY <1>1, <1>2
<1>4. "extractor_read" \in open => open \cap {"extractor_done"} = {}
  BY DEF QuickNoteGates, Flag
<1>5. "writer_write" \in open => open \cap {"extractor_done", "extractor_read"} = {}
  BY DEF QuickNoteGates, Flag
<1>6. "writer_done" \in open => open \cap {"extractor_done", "extractor_read", "writer_write"} = {}
  BY DEF QuickNoteGates, Flag
<1>7. "verifier_done" \in open => open \cap {"extractor_done", "extractor_read", "writer_write", "writer_done"} = {}
  BY DEF QuickNoteGates, Flag
<1> HIDE DEF open, p, l
<1>8. \A k \in 1 .. 5 : p[k] \in open =>
         \E i \in 1 .. 5 : l[i] = p[k] /\ \A j \in 1 .. 5 : j < i => l[j] \notin open
  <2> SUFFICES ASSUME NEW k \in 1 .. 5, p[k] \in open
               PROVE  \E i \in 1 .. 5 : l[i] = p[k] /\ \A j \in 1 .. 5 : j < i => l[j] \notin open
    OBVIOUS
  <2>1. CASE k = 1
    <3>1. l[2] = p[k] /\ \A j \in 1 .. 5 : j < 2 => l[j] \notin open
      BY <1>1, <1>2, <2>1, <1>4
    <3> QED BY <3>1
  <2>2. CASE k = 2
    <3>1. l[1] = p[k] /\ \A j \in 1 .. 5 : j < 1 => l[j] \notin open
      BY <1>1, <1>2, <2>2
    <3> QED BY <3>1
  <2>3. CASE k = 3
    <3>1. l[3] = p[k] /\ \A j \in 1 .. 5 : j < 3 => l[j] \notin open
      BY <1>1, <1>2, <2>3, <1>5
    <3> QED BY <3>1
  <2>4. CASE k = 4
    <3>1. l[4] = p[k] /\ \A j \in 1 .. 5 : j < 4 => l[j] \notin open
      BY <1>1, <1>2, <2>4, <1>6
    <3> QED BY <3>1
  <2>5. CASE k = 5
    <3>1. l[5] = p[k] /\ \A j \in 1 .. 5 : j < 5 => l[j] \notin open
      BY <1>1, <1>2, <2>5, <1>7
    <3> QED BY <3>1
  <2> QED BY <2>1, <2>2, <2>3, <2>4, <2>5
<1>9. FirstOpen(p, open) \in {"none", FirstOpen(l, open)}
  BY <1>3, <1>8, OrdersAgree
<1> QED BY <1>9 DEF open, p, l

LEMMA SummarizeAgrees ==
    ASSUME NEW a, NEW tr, NEW c
    PROVE  FirstOpen(Priority("summarize"), SummarizeGates(a, tr, c))
             \in {"none", FirstOpen(Ladder("summarize"), SummarizeGates(a, tr, c))}
<1> DEFINE open == SummarizeGates(a, tr, c)
           p == Priority("summarize")
           l == Ladder("summarize")
<1>1. p = <<"extractor_done", "writer_write", "writer_done", "verifier_exec",
           "verifier_done">>
  BY DEF Priority, Generic, Canonical
<1>2. l = <<"read_tail", "extractor_done", "writer_write", "writer_done", "verifier_exec",
           "verifier_done">>
  BY DEF Ladder, Generic, SummarizeLadder
<1>3. DOMAIN p = 1 .. 5 /\ DOMAIN l = 1 .. 6
  BY <1>1, <1>2
<1>4. "extractor_done" \in open => open \cap {"read_tail"} = {}
  BY DEF SummarizeGates, Flag, ThreadComplete
<1>5. "writer_write" \in open => open \cap {"read_tail", "extractor_done"} = {}
  BY DEF SummarizeGates, Flag, ThreadComplete
<1>6. "writer_done" \in open => open \cap {"read_tail", "extractor_done", "writer_write"} = {}
  BY DEF SummarizeGates, Flag, ThreadComplete
<1>7. "verifier_exec" \in open => open \cap {"read_tail", "extractor_done", "writer_write", "writer_done"} = {}
  BY DEF SummarizeGates, Flag, ThreadComplete
<1>8. "verifier_done" \in open => open \cap {"read_tail", "extractor_done", "writer_write", "writer_done",
                    "verifier_exec"} = {}
  BY DEF SummarizeGates, Flag, ThreadComplete
<1> HIDE DEF open, p, l
<1>9. \A k \in 1 .. 5 : p[k] \in open =>
         \E i \in 1 .. 6 : l[i] = p[k] /\ \A j \in 1 .. 6 : j < i => l[j] \notin open
  <2> SUFFICES ASSUME NEW k \in 1 .. 5, p[k] \in open
               PROVE  \E i \in 1 .. 6 : l[i] = p[k] /\ \A j \in 1 .. 6 : j < i => l[j] \notin open
    OBVIOUS
  <2>1. CASE k = 1
    <3>1. l[2] = p[k] /\ \A j \in 1 .. 6 : j < 2 => l[j] \notin open
      BY <1>1, <1>2, <2>1, <1>4
    <3> QED BY <3>1
  <2>2. CASE k = 2
    <3>1. l[3] = p[k] /\ \A j \in 1 .. 6 : j < 3 => l[j] \notin open
      BY <1>1, <1>2, <2>2, <1>5
    <3> QED BY <3>1
  <2>3. CASE k = 3
    <3>1. l[4] = p[k] /\ \A j \in 1 .. 6 : j < 4 => l[j] \notin open
      BY <1>1, <1>2, <2>3, <1>6
    <3> QED BY <3>1
  <2>4. CASE k = 4
    <3>1. l[5] = p[k] /\ \A j \in 1 .. 6 : j < 5 => l[j] \notin open
      BY <1>1, <1>2, <2>4, <1>7
    <3> QED BY <3>1
  <2>5. CASE k = 5
    <3>1. l[6] = p[k] /\ \A j \in 1 .. 6 : j < 6 => l[j] \notin open
      BY <1>1, <1>2, <2>5, <1>8
    <3> QED BY <3>1
  <2> QED BY <2>1, <2>2, <2>3, <2>4, <2>5
<1>10. FirstOpen(p, open) \in {"none", FirstOpen(l, open)}
  BY <1>3, <1>9, OrdersAgree
<1> QED BY <1>10 DEF open, p, l

-----------------------------------------------------------------------------
(* The tasks.                                                              *)

Commands == {"verify", "pytest", "copy", "search", "schema"}
Files    == UNION {ToSet(Sources[t]) \cup ToSet(Deliverables[t]) : t \in AllTasks}
Tests    == {"verify", "pytest"}
Names    == Files \cup Commands \cup {"host", "input", "thread_tail"}

LEMMA SourcesAre ==
    ASSUME NEW t \in AllTasks
    PROVE  /\ Len(Sources[t]) \in Nat /\ DOMAIN Sources[t] = 1 .. Len(Sources[t])
           /\ \A i \in DOMAIN Sources[t] :
                 /\ Sources[t][i] \in Names \ {"verify", "pytest", "thread_tail"}
                 /\ Sources[t][i] = "thread" => t = "summarize"
<1>1. /\ Len(Sources[t]) \in Nat /\ DOMAIN Sources[t] = 1 .. Len(Sources[t])
      /\ DOMAIN Sources[t] \subseteq 1 .. 5
  BY DEF Sources, AllTasks, Deliverables
<1>2. \A i \in DOMAIN Sources[t] : Sources[t][i] \in Names
  <2>1. ToSet(Sources[t]) \subseteq Files
    BY DEF Files
  <2> QED BY <2>1 DEF ToSet, Names
<1> DEFINE Fits(f) == f \notin {"verify", "pytest", "thread_tail"} /\ (f = "thread" => t = "summarize")
<1>3. 1 \in DOMAIN Sources[t] => Fits(Sources[t][1])
  BY DEF Sources, AllTasks, Deliverables
<1>4. 2 \in DOMAIN Sources[t] => Fits(Sources[t][2])
  BY DEF Sources, AllTasks, Deliverables
<1>5. 3 \in DOMAIN Sources[t] => Fits(Sources[t][3])
  BY DEF Sources, AllTasks, Deliverables
<1>6. 4 \in DOMAIN Sources[t] => Fits(Sources[t][4])
  BY DEF Sources, AllTasks, Deliverables
<1>7. 5 \in DOMAIN Sources[t] => Fits(Sources[t][5])
  BY DEF Sources, AllTasks, Deliverables
<1> HIDE DEF Fits
<1>8. \A i \in DOMAIN Sources[t] : Fits(Sources[t][i])
  <2> SUFFICES ASSUME NEW i \in DOMAIN Sources[t] PROVE Fits(Sources[t][i])
    OBVIOUS
  <2>1. i \in {1, 2, 3, 4, 5}
    BY <1>1
  <2> QED BY <2>1, <1>3, <1>4, <1>5, <1>6, <1>7
<1> QED BY <1>1, <1>2, <1>8 DEF Fits

LEMMA DeliverablesAre ==
    ASSUME NEW t \in AllTasks
    PROVE  /\ Len(Deliverables[t]) \in Nat \ {0}
           /\ DOMAIN Deliverables[t] = 1 .. Len(Deliverables[t])
           /\ \A i \in DOMAIN Deliverables[t] :
                 /\ Deliverables[t][i] \in ToSet(Deliverables[t])
                 /\ Deliverables[t][i] \in Names
           /\ Main(t) = Deliverables[t][1]
           /\ Main(t) \in ToSet(Deliverables[t]) /\ Main(t) \in Names
           /\ ToSet(Deliverables[t]) \cap Tests = {}
           /\ WorkFiles(t) = ToSet(Deliverables[t]) \cup {Target(t)}
           /\ Target(t) \in Names \ Tests
           /\ t # "research" => Target(t) = Main(t)
<1>1. /\ Len(Deliverables[t]) \in Nat \ {0}
      /\ DOMAIN Deliverables[t] = 1 .. Len(Deliverables[t])
  BY DEF AllTasks, Deliverables
<1>2. \A i \in DOMAIN Deliverables[t] : Deliverables[t][i] \in ToSet(Deliverables[t])
  BY DEF ToSet
<1>3. ToSet(Deliverables[t]) \subseteq Files
  BY DEF Files
<1>4. 1 \in DOMAIN Deliverables[t]
  BY <1>1
<1>5. \A i \in DOMAIN Deliverables[t] : Deliverables[t][i] \notin {"verify", "pytest"}
  BY DEF AllTasks, Deliverables
<1>6. ToSet(Deliverables[t]) \cap Tests = {}
  BY <1>5 DEF ToSet, Tests
<1>7. Main(t) \in ToSet(Deliverables[t]) /\ Main(t) \in Names
  BY <1>2, <1>3, <1>4 DEF Main, Names
<1>8. "app" \in Names \ Tests
  <2>1. 1 \in DOMAIN Deliverables["browser"] /\ Deliverables["browser"][1] = "app" /\ "browser" \in AllTasks
    BY DEF AllTasks, Deliverables
  <2>2. "app" \in ToSet(Deliverables["browser"])
    BY <2>1 DEF ToSet
  <2>3. "app" \in Files
    BY <2>1, <2>2 DEF Files
  <2> QED BY <2>3 DEF Names, Tests
<1>9. Target(t) \in Names \ Tests /\ (t # "research" => Target(t) = Main(t))
  BY <1>6, <1>7, <1>8 DEF Target
<1> QED BY <1>1, <1>2, <1>3, <1>6, <1>7, <1>9 DEF Main, Names, WorkFiles

\* What may be asked of the runtime in a turn: calls that are writes and edits of a
\* deliverable, commands it knows, and reads; a command goes with reads alone.
Calls == [tool : {"read", "write", "edit", "exec", "browser"}, on : Names, good : BOOLEAN,
          at : {"chain", "side"}]
Proper(t, c) ==
    /\ c \in Calls
    /\ c.tool \in {"write", "edit"} => c.on \in WorkFiles(t)
    /\ IsExec(c) => c.on \in Commands
    /\ c.on \in Tests => IsExec(c)
Alone(calls) ==
    \A i, j \in DOMAIN calls : IsExec(calls[i]) /\ i # j => calls[j].tool = "read"
Message(t, calls) ==
    /\ calls \in Seq(Calls)
    /\ \A i \in DOMAIN calls : Proper(t, calls[i])
    /\ Alone(calls)
Uniform(calls) ==
    \A i, j \in DOMAIN calls : calls[i].tool = "read" => calls[j].tool = "read"

LEMMA OneCall ==
    ASSUME NEW t, NEW c, Proper(t, c)
    PROVE  Message(t, <<c>>) /\ Uniform(<<c>>)
<1>1. <<c>> \in Seq(Calls) /\ DOMAIN <<c>> = {1} /\ <<c>>[1] = c
  BY DEF Proper
<1> QED BY <1>1 DEF Message, Alone, Uniform

LEMMA TwoCalls ==
    ASSUME NEW t, NEW c, Proper(t, c), NEW d, Proper(t, d), c.tool = "exec", d.tool = "read"
    PROVE  Message(t, <<c, d>>) /\ Message(t, <<d, c>>)
<1>1. <<c, d>> \in Seq(Calls) /\ <<d, c>> \in Seq(Calls)
  BY DEF Proper
<1>2. DOMAIN <<c, d>> = {1, 2} /\ <<c, d>>[1] = c /\ <<c, d>>[2] = d
  OBVIOUS
<1>3. DOMAIN <<d, c>> = {1, 2} /\ <<d, c>>[1] = d /\ <<d, c>>[2] = c
  OBVIOUS
<1>4. Alone(<<c, d>>)
  BY <1>2 DEF Alone, IsExec
<1>5. Alone(<<d, c>>)
  BY <1>3 DEF Alone, IsExec
<1> QED BY <1>1, <1>2, <1>3, <1>4, <1>5 DEF Message

LEMMA NoCall == \A t : Message(t, <<>>) /\ Uniform(<<>>)
BY DEF Message, Alone, Uniform

LEMMA SameTool ==
    ASSUME NEW t, NEW n \in Nat, NEW calls, calls \in [1 .. n -> Calls],
           NEW tool \in {"read", "write"},
           \A i \in 1 .. n : Proper(t, calls[i]) /\ calls[i].tool = tool
    PROVE  Message(t, calls) /\ Uniform(calls)
<1>1. calls \in Seq(Calls) /\ DOMAIN calls = 1 .. n
  OBVIOUS
<1> QED BY <1>1 DEF Message, Alone, Uniform, IsExec

CallAs(tool, on, good, at) == [tool |-> tool, on |-> on, good |-> good, at |-> at]

LEMMA CallIs ==
    ASSUME NEW t, NEW tool, NEW on \in Names, NEW good \in BOOLEAN, NEW at \in {"chain", "side"},
           \/ tool \in {"read", "browser"} /\ on \notin Tests
           \/ tool = "exec" /\ on \in Commands
           \/ tool \in {"write", "edit"} /\ on \in WorkFiles(t) \ Tests
    PROVE  /\ CallAs(tool, on, good, at) \in Calls
           /\ Proper(t, CallAs(tool, on, good, at))
           /\ CallAs(tool, on, good, at).tool = tool
<1>1. tool \in {"read", "write", "edit", "exec", "browser"}
  OBVIOUS
<1> QED BY <1>1 DEF Proper, IsExec, Calls, CallAs

LEMMA CallsAre == \A tool, on : Call(tool, on) = CallAs(tool, on, TRUE, "chain")
BY DEF Call, CallAs

-----------------------------------------------------------------------------
(* What a gate asks for.                                                   *)

\* The elements of a set of numbers have the ranks 1, 2, ... up to their number.
LEMMA Ranked ==
    ASSUME NEW N \in Nat, NEW U \in SUBSET (1 .. N), NEW k \in 1 .. Cardinality(U)
    PROVE  \E i \in U : Cardinality({j \in U : j <= i}) = k
<1> DEFINE Below(n) == {j \in U : j <= n}
           W == {n \in 0 .. N : Cardinality(Below(n)) >= k}
<1>1. IsFiniteSet(U) /\ Cardinality(U) \in Nat
  <2>1. IsFiniteSet(1 .. N)
    BY FS_Interval
  <2> QED BY <2>1, FS_Subset, FS_CardinalityType
<1>2. ASSUME NEW n \in 0 .. N PROVE IsFiniteSet(Below(n)) /\ Cardinality(Below(n)) \in Nat
  <2>1. Below(n) \in SUBSET U
    OBVIOUS
  <2> HIDE DEF Below
  <2> QED BY <1>1, <2>1, FS_Subset, FS_CardinalityType
<1>0. \A j \in U : j \in Int /\ 1 <= j /\ j <= N
  OBVIOUS
<1>3. Below(N) = U
  BY <1>0
<1>4. Below(0) = {} /\ Cardinality(Below(0)) = 0
  <2>1. \A j \in U : ~(j <= 0)
    BY <1>0
  <2>2. Below(0) = {}
    BY <2>1
  <2> QED BY <2>2, FS_EmptySet
<1>5. \A n \in 1 .. N : n \notin U => Below(n) = Below(n - 1)
  <2> SUFFICES ASSUME NEW n \in 1 .. N, n \notin U
               PROVE  \A j \in U : j <= n <=> j <= n - 1
    OBVIOUS
  <2> QED BY <1>0
<1>6. \A n \in 1 .. N : n \in U => Below(n) = Below(n - 1) \cup {n} /\ n \notin Below(n - 1)
  <2> SUFFICES ASSUME NEW n \in 1 .. N, n \in U
               PROVE  Below(n) = Below(n - 1) \cup {n} /\ n \notin Below(n - 1)
    OBVIOUS
  <2>1. \A j \in U : j <= n <=> j <= n - 1 \/ j = n
    BY <1>0
  <2>2. n \in Int /\ ~(n <= n - 1) /\ n <= n
    OBVIOUS
  <2> QED BY <2>1, <2>2
<1>7. \A n \in 1 .. N : n \in U => Cardinality(Below(n)) = Cardinality(Below(n - 1)) + 1
  <2> SUFFICES ASSUME NEW n \in 1 .. N, n \in U
               PROVE  Cardinality(Below(n)) = Cardinality(Below(n - 1)) + 1
    OBVIOUS
  <2>1. n - 1 \in 0 .. N
    OBVIOUS
  <2>2. IsFiniteSet(Below(n - 1))
    BY <1>2, <2>1
  <2>3. Below(n) = Below(n - 1) \cup {n} /\ n \notin Below(n - 1)
    BY <1>6
  <2> HIDE DEF Below
  <2> QED BY <2>2, <2>3, FS_AddElement
<1> HIDE DEF Below
<1>8. N \in W /\ W \in SUBSET Nat
  BY <1>1, <1>3
<1>9. Min(W) \in W /\ \A y \in W : Min(W) <= y
  BY <1>8, Smallest
<1> DEFINE i == Min(W)
<1> HIDE DEF i
<1>10. i \in 0 .. N /\ Cardinality(Below(i)) >= k /\ \A y \in W : i <= y
  BY <1>9 DEF i
<1>11. i # 0 /\ i - 1 \in 0 .. N /\ i - 1 \notin W
  BY <1>4, <1>10
<1>12. Cardinality(Below(i - 1)) < k
  BY <1>2, <1>11
<1>13. i \in U
  BY <1>5, <1>10, <1>11, <1>12
<1>14. Cardinality(Below(i)) = k
  BY <1>2, <1>7, <1>10, <1>11, <1>12, <1>13
<1> QED BY <1>13, <1>14 DEF Below

GateNames ==
    {"analyzer_read", "extractor_read", "read_tail", "patcher_read", "verifier_read",
     "analyzer_search", "schema_exec", "writer_copy", "analyzer_browser", "patcher_pytest",
     "verifier_exec"} \cup Editing \cup Writing \cup TextOnly

LEMMA FirstMissingIs ==
    ASSUME NEW t \in AllTasks, NEW tr, Missing(t, tr) # {}
    PROVE  /\ FirstMissing(t, tr) \in Names \ Tests
           /\ \E i \in DOMAIN Sources[t] : FirstMissing(t, tr) = Sources[t][i]
<1>1. Missing(t, tr) \in SUBSET Nat
  BY SourcesAre DEF Missing
<1>2. Min(Missing(t, tr)) \in Missing(t, tr)
  BY <1>1, Smallest
<1> QED BY <1>2, SourcesAre DEF Missing, FirstMissing, Tests

LEMMA ReadsAskedIs ==
    ASSUME NEW t \in AllTasks, NEW tr, t = "config" => Missing(t, tr) # {}
    PROVE  Message(t, ReadsAsked(t, tr)) /\ Uniform(ReadsAsked(t, tr))
<1>1. CASE t = "config"
  <2>1. FirstMissing(t, tr) \in Names \ Tests
    BY <1>1, FirstMissingIs
  <2>2. Proper(t, CallAs("read", FirstMissing(t, tr), TRUE, "chain"))
    BY <2>1, CallIs
  <2>3. Proper(t, Call("read", FirstMissing(t, tr)))
    BY <2>2, CallsAre
  <2> QED BY <1>1, <2>3, OneCall DEF ReadsAsked
<1>2. CASE t # "config"
  <2> DEFINE m == Missing(t, tr)
             n == Cardinality(m)
             Nth(k) == CHOOSE i \in m : Cardinality({j \in m : j <= i}) = k
             calls == [k \in 1 .. n |-> Call("read", Sources[t][Nth(k)])]
  <2>1. m \in SUBSET (1 .. Len(Sources[t])) /\ Len(Sources[t]) \in Nat
    BY SourcesAre DEF Missing
  <2>2. n \in Nat
    <3>1. IsFiniteSet(1 .. Len(Sources[t]))
      BY <2>1, FS_Interval
    <3> HIDE DEF m
    <3> QED BY <2>1, <3>1, FS_Subset, FS_CardinalityType
  <2>3. \A k \in 1 .. n : Nth(k) \in DOMAIN Sources[t]
    <3> SUFFICES ASSUME NEW k \in 1 .. n PROVE Nth(k) \in m
      BY <2>1, SourcesAre
    <3> HIDE DEF m
    <3>1. \E i \in m : Cardinality({j \in m : j <= i}) = k
      BY <2>1, Ranked
    <3> QED BY <3>1
  <2>4. ReadsAsked(t, tr) = calls
    BY <1>2 DEF ReadsAsked
  <2> HIDE DEF m, Nth
  <2>5. \A k \in 1 .. n : LET c == Call("read", Sources[t][Nth(k)]) IN
           c \in Calls /\ Proper(t, c) /\ c.tool = "read"
    BY <2>3, SourcesAre, CallIs, CallsAre DEF Tests
  <2>6. /\ calls \in [1 .. n -> Calls]
        /\ \A i \in 1 .. n : Proper(t, calls[i]) /\ calls[i].tool = "read"
    BY <2>5
  <2> HIDE DEF n, calls
  <2> QED BY <2>2, <2>4, <2>6, SameTool
<1> QED BY <1>1, <1>2

LEMMA WritesAskedIs ==
    ASSUME NEW t \in AllTasks
    PROVE  Message(t, WritesAsked(t)) /\ Uniform(WritesAsked(t))
<1> DEFINE n == Len(Deliverables[t])
           calls == WritesAsked(t)
<1>1. n \in Nat /\ DOMAIN Deliverables[t] = 1 .. n
  BY DeliverablesAre
<1>2. \A i \in 1 .. n :
         calls[i] = CallAs("write", Deliverables[t][i], HasContent(t), "chain")
  BY DEF WritesAsked, Call, CallAs
<1>3. calls = [i \in 1 .. n |-> calls[i]]
  BY DEF WritesAsked
<1>4. HasContent(t) \in BOOLEAN
  BY DEF HasContent
<1> HIDE DEF n, calls
<1>5. \A i \in 1 .. n : calls[i] \in Calls /\ Proper(t, calls[i]) /\ calls[i].tool = "write"
  <2> SUFFICES ASSUME NEW i \in 1 .. n
               PROVE  calls[i] \in Calls /\ Proper(t, calls[i]) /\ calls[i].tool = "write"
    OBVIOUS
  <2> DEFINE f == Deliverables[t][i]
  <2>1. f \in Names /\ f \in WorkFiles(t) \ Tests
    BY <1>1, DeliverablesAre
  <2> HIDE DEF f
  <2> DEFINE c == CallAs("write", f, HasContent(t), "chain")
  <2>2. c \in Calls /\ Proper(t, c) /\ c.tool = "write"
    BY <1>4, <2>1, CallIs
  <2> QED BY <1>2, <2>2 DEF f
<1>6. calls \in [1 .. n -> Calls]
  BY <1>3, <1>5
<1>7. Message(t, calls) /\ Uniform(calls)
  BY <1>1, <1>5, <1>6, SameTool
<1> QED BY <1>7 DEF calls

LEMMA AskedIs ==
    ASSUME NEW t \in AllTasks, NEW tr, NEW gate \in GateNames \cup {"none"},
           gate = "analyzer_read" /\ t = "config" => Missing(t, tr) # {}
    PROVE  Message(t, Asked(t, gate, tr)) /\ Uniform(Asked(t, gate, tr))
<1> DEFINE Good(calls) == Message(t, calls) /\ Uniform(calls)
<1>1. \A tool \in {"exec", "read", "browser", "edit"} : \A on \in Names :
         \/ tool \in {"read", "browser"} /\ on \notin Tests
         \/ tool = "exec" /\ on \in Commands
         \/ tool = "edit" /\ on \in WorkFiles(t) \ Tests
         => Good(<<Call(tool, on)>>)
  BY CallIs, OneCall, CallsAre DEF Commands, Tests
<1>2. Commands \cup {"host", "input", "thread_tail"} \subseteq Names
  BY DEF Names
<1>3. Target(t) \in Names /\ Target(t) \in WorkFiles(t) \ Tests
  BY DeliverablesAre
<1>4. "normalizer" \in Names /\ "verify_three_items" \in Names
  <2>1. 1 \in DOMAIN Sources["normalizer"] /\ Sources["normalizer"][1] = "normalizer"
    BY DEF Sources
  <2>2. 1 \in DOMAIN Sources["quick"] /\ Sources["quick"][1] = "verify_three_items"
    BY DEF Sources
  <2>3. {"normalizer", "quick"} \subseteq AllTasks
    BY DEF AllTasks, Deliverables
  <2> QED BY <2>1, <2>2, <2>3, SourcesAre
<1>5. Good(<<>>) /\ Good(WritesAsked(t))
  BY NoCall, WritesAskedIs
<1>6. gate = "analyzer_read" => Good(ReadsAsked(t, tr))
  BY ReadsAskedIs
<1> SUFFICES Good(Asked(t, gate, tr))
  OBVIOUS
<1> HIDE DEF Good
<1>7. CASE gate = "analyzer_read"
  BY <1>6, <1>7 DEF Asked, Editing, Writing, TextOnly
<1>8. CASE gate \in {"extractor_read", "read_tail", "patcher_read", "verifier_read", "analyzer_browser"}
  BY <1>1, <1>2, <1>3, <1>4, <1>8 DEF Asked, Editing, Writing, TextOnly, Tests
<1>9. CASE gate \in {"analyzer_search", "schema_exec", "writer_copy", "patcher_pytest", "verifier_exec"}
  BY <1>1, <1>2, <1>9 DEF Asked, Commands, Editing, Writing, TextOnly
<1>10. CASE gate \in Editing
  BY <1>1, <1>3, <1>10 DEF Asked, Editing, Writing, TextOnly
<1>11. CASE gate \in Writing
  BY <1>1, <1>3, <1>5, <1>11 DEF Asked, Editing, Writing
<1>12. CASE gate \in TextOnly \cup {"none"}
  BY <1>5, <1>12 DEF Asked, Editing, Writing, TextOnly
<1> QED BY <1>7, <1>8, <1>9, <1>10, <1>11, <1>12 DEF GateNames

-----------------------------------------------------------------------------
(* The gates that are open, and the one that is acted on.                  *)

TaskNames == {"redact", "summarize", "find", "bugfix", "config", "normalizer", "quick", "browser",
              "research"}

LEMMA TasksAre == AllTasks = TaskNames \cup Generic
BY DEF AllTasks, Deliverables, TaskNames, Generic

LEMMA GatesAre ==
    /\ \A a, tr, c : Gates("browser", a, tr, c) = BrowserGates(a, tr, c)
    /\ \A a, tr, c : Gates("config", a, tr, c) = ConfigGates(a, tr, c)
    /\ \A a, tr, c : Gates("bugfix", a, tr, c) = BugfixGates(a, tr, c)
    /\ \A a, tr, c : Gates("find", a, tr, c) = FindGates(a, tr, c)
    /\ \A a, tr, c : Gates("summarize", a, tr, c) = SummarizeGates(a, tr, c)
    /\ \A a, tr, c : Gates("redact", a, tr, c) = RedactGates(a, tr, c)
    /\ \A a, tr, c : Gates("normalizer", a, tr, c) = NormalizerGates(a, tr, c)
    /\ \A a, tr, c : Gates("quick", a, tr, c) = QuickNoteGates(a, tr, c)
    /\ \A a, tr, c : Gates("research", a, tr, c) = BrowserGates(a, tr, c) \cup GenericGates("research", a, tr, c)
    /\ \A t \in Generic : \A a, tr, c : Gates(t, a, tr, c) = GenericGates(t, a, tr, c)
BY DEF Gates, Generic

LEMMA GatesNamed ==
    ASSUME NEW t \in AllTasks, NEW a, NEW tr, NEW c
    PROVE  Gates(t, a, tr, c) \subseteq GateNames
<1>1. CASE t = "browser"
  BY <1>1, GatesAre DEF BrowserGates, Flag, GateNames, Editing, Writing, TextOnly
<1>2. CASE t = "config"
  BY <1>2, GatesAre DEF ConfigGates, Flag, GateNames, Editing, Writing, TextOnly
<1>3. CASE t = "bugfix"
  BY <1>3, GatesAre DEF BugfixGates, Flag, GateNames, Editing, Writing, TextOnly
<1>4. CASE t = "find"
  BY <1>4, GatesAre DEF FindGates, Flag, GateNames, Editing, Writing, TextOnly
<1>5. CASE t = "summarize"
  BY <1>5, GatesAre DEF SummarizeGates, Flag, GateNames, Editing, Writing, TextOnly
<1>6. CASE t = "redact"
  BY <1>6, GatesAre DEF RedactGates, Flag, GateNames, Editing, Writing, TextOnly
<1>7. CASE t = "normalizer"
  BY <1>7, GatesAre DEF NormalizerGates, Flag, GateNames, Editing, Writing, TextOnly
<1>8. CASE t = "quick"
  BY <1>8, GatesAre DEF QuickNoteGates, Flag, GateNames, Editing, Writing, TextOnly
<1>9. CASE t \in Generic
  BY <1>9, GatesAre DEF GenericGates, Flag, GateNames, Editing, Writing, TextOnly
<1>10. CASE t = "research"
  <2>1. BrowserGates(a, tr, c) \subseteq GateNames
    BY DEF BrowserGates, Flag, GateNames, Editing, Writing, TextOnly
  <2>2. GenericGates("research", a, tr, c) \subseteq GateNames
    BY DEF GenericGates, Flag, GateNames, Editing, Writing, TextOnly
  <2> QED BY <1>10, <2>1, <2>2, GatesAre
<1> QED BY <1>1, <1>2, <1>3, <1>4, <1>5, <1>6, <1>7, <1>8, <1>9, <1>10, TasksAre DEF TaskNames

LEMMA SameOrder ==
    ASSUME NEW t \in Generic \cup {"find", "redact"}
    PROVE  Ladder(t) = Priority(t)
<1>1. CASE t \in {"find", "redact"}
  BY <1>1 DEF Ladder, Priority, Generic, FindLadder, RedactLadder, Canonical
<1>2. CASE t \in Generic
  <2>1. Ladder(t) = ExploreLadder \o GenericLadder
    BY <1>2 DEF Ladder, Generic
  <2>2. Priority(t) = <<"analyzer_search", "analyzer_read", "schema_exec">> \o Canonical
    BY <1>2 DEF Priority, Generic
  <2> QED BY <2>1, <2>2 DEF ExploreLadder, ReadLadder, GenericLadder, Canonical
<1> QED BY <1>1, <1>2

LEMMA LaddersAre ==
    ASSUME NEW t \in AllTasks
    PROVE  /\ \E n \in Nat : DOMAIN Ladder(t) = 1 .. n
           /\ \E n \in Nat : DOMAIN Priority(t) = 1 .. n
<1>1. CASE t \in TaskNames \ {"config", "research"}
  <2>1. DOMAIN Ladder(t) \in {1 .. 5, 1 .. 6, 1 .. 7, 1 .. 8, 1 .. 9}
    BY <1>1 DEF TaskNames, Ladder, Generic, BrowserLadder, BugfixLadder, FindLadder,
         SummarizeLadder, RedactLadder, QuickNoteLadder, NormalizerLadder
  <2>2. DOMAIN Priority(t) \in {1 .. 5, 1 .. 6, 1 .. 7}
    BY <1>1 DEF TaskNames, Priority, Generic, Canonical
  <2> QED BY <2>1, <2>2
<1>2. CASE t = "config"
  <2>1. Ladder(t) = ConfigExplore \o ConfigRepair
    BY <1>2 DEF Ladder, Generic
  <2>2. DOMAIN Ladder(t) = 1 .. 10
    BY <2>1 DEF ConfigExplore, ConfigRepair
  <2>3. DOMAIN Priority(t) = 1 .. 6
    BY <1>2 DEF Priority, Generic
  <2> QED BY <2>2, <2>3
<1>3. CASE t \in Generic
  <2>1. Priority(t) = <<"analyzer_search", "analyzer_read", "schema_exec">> \o Canonical
    BY <1>3 DEF Priority, Generic
  <2>2. DOMAIN Priority(t) = 1 .. 8
    BY <2>1 DEF Canonical
  <2> QED BY <1>3, <2>2, SameOrder
<1>4. CASE t = "research"
  <2>1. Ladder(t) = BrowserLadder \o GenericLadder
    BY <1>4 DEF Ladder, Generic
  <2>2. DOMAIN Ladder(t) = 1 .. 13
    BY <2>1 DEF BrowserLadder, GenericLadder
  <2>3. DOMAIN Priority(t) = 1 .. 5
    BY <1>4 DEF Priority, Generic, Canonical
  <2> QED BY <2>2, <2>3
<1> QED BY <1>1, <1>2, <1>3, <1>4, TasksAre

LEMMA FirstIs ==
    ASSUME NEW t \in AllTasks, NEW open
    PROVE  /\ FirstOpen(Ladder(t), open) \in open \cup {"none"}
           /\ FirstOpen(Priority(t), open) \in open \cup {"none"}
           /\ FirstOpen(Ladder(t), open) = "none" /\ "none" \notin open => ToSet(Ladder(t)) \cap open = {}
           /\ FirstOpen(Priority(t), open) = "none" /\ "none" \notin open => ToSet(Priority(t)) \cap open = {}
<1>1. ASSUME NEW order, NEW n \in Nat, DOMAIN order = 1 .. n
      PROVE  /\ FirstOpen(order, open) \in open \cup {"none"}
             /\ FirstOpen(order, open) = "none" /\ "none" \notin open => ToSet(order) \cap open = {}
  BY <1>1, FirstOpenIs DEF ToSet
<1> QED BY <1>1, LaddersAre

\* The two orders agree on the gates that can be open together, once a passed
\* verify_form was issued, and pytest passes on tests that are there.
LEMMA AgreeWhen ==
    ASSUME NEW t \in AllTasks \ {"research"}, NEW a, NEW tr, NEW c,
           t = "browser" /\ FormPassed(tr) => Issued(tr, "verify"),
           t = "normalizer" /\ a = 1 /\ PytestPassed(tr) => TestsWritten(tr) \/ c.onDisk
    PROVE  FirstOpen(Priority(t), Gates(t, a, tr, c))
             \in {"none", FirstOpen(Ladder(t), Gates(t, a, tr, c))}
<1>1. CASE t \in Generic \cup {"find", "redact"}
  BY <1>1, SameOrder
<1>2. CASE t = "browser"
  BY <1>2, BrowserAgrees, GatesAre
<1>3. CASE t = "config"
  BY <1>3, ConfigAgrees, GatesAre
<1>4. CASE t = "bugfix"
  BY <1>4, BugfixAgrees, GatesAre
<1>5. CASE t = "normalizer"
  BY <1>5, NormalizerAgrees, GatesAre
<1>6. CASE t = "quick"
  BY <1>6, QuickNoteAgrees, GatesAre
<1>7. CASE t = "summarize"
  BY <1>7, SummarizeAgrees, GatesAre
<1> QED BY <1>1, <1>2, <1>3, <1>4, <1>5, <1>6, <1>7, TasksAre DEF TaskNames

-----------------------------------------------------------------------------
(* The reply of a turn.                                                    *)

Texts == {"none", "analysis", "quote", "done", "pass", "fail", "free"}

LEMMA MissingIs ==
    ASSUME NEW tr, NEW c
    PROVE  /\ "text_only" \notin BugfixGates(0, tr, c) => Missing("bugfix", tr) # {}
           /\ "extractor_done" \notin RedactGates(0, tr, c) => Missing("redact", tr) # {}
           /\ {"read_tail", "extractor_done"} \cap SummarizeGates(0, tr, c) = {}
                 => Missing("summarize", tr) # {}
           /\ \A a : "analyzer_read" \in ConfigGates(a, tr, c) => Missing("config", tr) # {}
<1>1. "text_only" \notin BugfixGates(0, tr, c) => Missing("bugfix", tr) # {}
  BY DEF BugfixGates, Flag
<1>2. "extractor_done" \notin RedactGates(0, tr, c) => Missing("redact", tr) # {}
  <2>1. DOMAIN Sources["redact"] = {1} /\ Sources["redact"][1] = "contract"
    BY DEF Sources
  <2>2. "contract" \notin CompletedReads(tr) => 1 \in Missing("redact", tr)
    BY <2>1 DEF Missing
  <2> QED BY <2>2 DEF RedactGates, Flag
<1>3. {"read_tail", "extractor_done"} \cap SummarizeGates(0, tr, c) = {}
         => Missing("summarize", tr) # {}
  <2>1. DOMAIN Sources["summarize"] = {1} /\ Sources["summarize"][1] = "thread"
    BY DEF Sources
  <2>2. "thread" \notin CompletedReads(tr) => 1 \in Missing("summarize", tr)
    BY <2>1 DEF Missing
  <2> QED BY <2>2 DEF SummarizeGates, Flag, ThreadComplete
<1>4. \A a : "analyzer_read" \in ConfigGates(a, tr, c) => Missing("config", tr) # {}
  BY DEF ConfigGates, Flag
<1> QED BY <1>1, <1>2, <1>3, <1>4

LEMMA UnpromptedIs ==
    ASSUME task \in AllTasks, LadderGate(Open) = "none"
    PROVE  Message(task, Unprompted)
<1>0. Open \subseteq GateNames /\ "none" \notin Open
  <2>1. "none" \notin GateNames
    BY DEF GateNames, Editing, Writing, TextOnly
  <2> QED BY <2>1, GatesNamed DEF Open
<1>1. ToSet(Ladder(task)) \cap Open = {}
  BY <1>0, FirstIs DEF LadderGate
<1> DEFINE Known(on) == on \in Names \ Tests => Message(task, <<Call("read", on)>>)
<1>2. \A on : Known(on)
  BY CallIs, CallsAre, OneCall
<1>3. CASE agent = 0 /\ task \in {"bugfix", "redact", "summarize"}
  <2>1. Missing(task, h) # {}
    <3>1. CASE task = "bugfix"
      <4>1. "text_only" \in ToSet(Ladder("bugfix"))
        BY DEF Ladder, Generic, BugfixLadder, ToSet
      <4> QED BY <1>1, <1>3, <3>1, <4>1, MissingIs, GatesAre DEF Open
    <3>2. CASE task = "redact"
      <4>1. "extractor_done" \in ToSet(Ladder("redact"))
        BY DEF Ladder, Generic, RedactLadder, ToSet
      <4> QED BY <1>1, <1>3, <3>2, <4>1, MissingIs, GatesAre DEF Open
    <3>3. CASE task = "summarize"
      <4>1. {"read_tail", "extractor_done"} \subseteq ToSet(Ladder("summarize"))
        BY DEF Ladder, Generic, SummarizeLadder, ToSet
      <4> QED BY <1>1, <1>3, <3>3, <4>1, MissingIs, GatesAre DEF Open
    <3> QED BY <1>3, <3>1, <3>2, <3>3
  <2>2. Unprompted = <<Call("read", FirstMissing(task, h))>>
    BY <1>3 DEF Unprompted
  <2> QED BY <1>2, <2>1, <2>2, FirstMissingIs
<1>4. CASE agent = 0 /\ task \in {"pipeline", "web"}
  <2>1. Unprompted = <<Call("read", "input")>>
    BY <1>4 DEF Unprompted
  <2> QED BY <1>2, <2>1 DEF Names, Tests
<1>5. CASE agent = 1 /\ task = "find"
  <2>1. Unprompted = <<Call("exec", "copy")>>
    BY <1>5 DEF Unprompted
  <2>2. Proper(task, Call("exec", "copy"))
    BY CallIs, CallsAre DEF Names, Commands
  <2> QED BY <2>1, <2>2, OneCall
<1>6. CASE agent = 2 /\ task = "quick"
  <2>1. Unprompted = <<Call("read", "quick_note")>>
    BY <1>6 DEF Unprompted
  <2>2. "quick_note" \in Names \ Tests
    <3>1. Main("quick") = "quick_note"
      BY DEF Main, Deliverables
    <3> QED BY <1>6, <3>1, DeliverablesAre DEF Tests
  <2> QED BY <1>2, <2>1, <2>2
<1>7. CASE ~ \/ agent = 0 /\ task \in {"bugfix", "redact", "summarize"}
             \/ agent = 0 /\ task \in {"pipeline", "web"}
             \/ agent = 1 /\ task = "find"
             \/ agent = 2 /\ task = "quick"
  <2>1. Unprompted = <<>>
    BY <1>7 DEF Unprompted
  <2> QED BY <2>1, NoCall
<1> QED BY <1>3, <1>4, <1>5, <1>6, <1>7

LEMMA StrayingIs ==
    ASSUME task \in AllTasks, NEW calls \in Straying
    PROVE  Message(task, calls)
<1> DEFINE file == Main(task)
           on == IF Sources[task] = <<>> THEN file ELSE Sources[task][1]
           read == Call("read", on)
           target == Target(task)
           check == Call("exec", "verify")
           test == Call("exec", "pytest")
<1>1. file \in Names /\ file \in WorkFiles(task) \ Tests /\ target \in Names /\ target \in WorkFiles(task) \ Tests
  BY DeliverablesAre
<1>2. on \in Names /\ on \notin Tests
  BY <1>1, SourcesAre DEF Tests
<1>3. Proper(task, read) /\ read.tool = "read"
  <2> HIDE DEF on
  <2> QED BY <1>2, CallIs, CallsAre
<1>4. Proper(task, check) /\ check.tool = "exec" /\ Proper(task, test)
  BY CallIs, CallsAre DEF Names, Commands
<1> HIDE DEF file, target, read, check, test
<1>5. \A good \in BOOLEAN, at \in {"chain", "side"} :
         /\ Proper(task, CallAs("write", file, good, at))
         /\ Proper(task, CallAs("edit", file, good, at))
         /\ Proper(task, CallAs("edit", target, good, at))
  BY <1>1, CallIs
<1>6. calls \in {<<>>, <<CallAs("write", file, TRUE, "chain")>>, <<CallAs("write", file, FALSE, "chain")>>,
                 <<CallAs("edit", file, FALSE, "chain")>>, <<check>>, <<check, read>>, <<read, check>>,
                 <<CallAs("edit", target, TRUE, "side")>>, <<test>>}
  BY DEF Straying, Call, CallAs, file, target, read, check, test, on
<1> QED BY <1>3, <1>4, <1>5, <1>6, NoCall, OneCall, TwoCalls

LEMMA OpenIs ==
    ASSUME task \in AllTasks
    PROVE  /\ Open \subseteq GateNames /\ "none" \notin Open
           /\ LadderGate(Open) \in Open \cup {"none"} /\ FixedGate(Open) \in Open \cup {"none"}
           /\ "analyzer_read" \in Open /\ task = "config" => Missing(task, h) # {}
<1>1. "none" \notin GateNames
  BY DEF GateNames, Editing, Writing, TextOnly
<1>2. Open \subseteq GateNames
  BY GatesNamed DEF Open
<1>3. LadderGate(Open) \in Open \cup {"none"} /\ FixedGate(Open) \in Open \cup {"none"}
  BY FirstIs DEF LadderGate, FixedGate
<1>4. "analyzer_read" \in Open /\ task = "config" => Missing(task, h) # {}
  BY MissingIs, GatesAre DEF Open
<1> QED BY <1>1, <1>2, <1>3, <1>4

\* Whatever the reply is, its calls can be run, and only a reply of the model counts
\* as stray.
LEMMA ReplyIs ==
    ASSUME task \in AllTasks, strays \in 0 .. Strays, mode \in Modes,
           NEW r \in Replies(LadderGate(Open), FixedGate(Open))
    PROVE  /\ Message(task, r.calls) /\ Message(task, Bridged(LadderGate(Open), r.calls))
           /\ r.text \in Texts \ {"none"} /\ strays + r.stray \in 0 .. Strays
<1> DEFINE gate == LadderGate(Open)
           fixed == FixedGate(Open)
<1>1. /\ gate \in Open \cup {"none"} /\ fixed \in Open \cup {"none"}
      /\ Open \subseteq GateNames
      /\ "analyzer_read" \in Open /\ task = "config" => Missing(task, h) # {}
  BY OpenIs
<1>2. \A g \in {gate, fixed} : Message(task, Asked(task, g, h))
  BY <1>1, AskedIs
<1>3. gate = "none" => Message(task, Unprompted)
  BY UnpromptedIs
<1>4. \A calls \in Straying : Message(task, calls)
  BY StrayingIs
<1>5. \A g : Fixed(g) \in Texts \ {"none"} /\ Told(task, g) \in Texts \ {"none"}
  BY DEF Fixed, Told, Texts
<1>6. strays \in Nat /\ Strays \in Nat /\ strays <= Strays
  BY LoopAssumption
<1> HIDE DEF gate, fixed
<1>7. ASSUME NEW x \in ModelReplies(gate)
      PROVE  Message(task, x.calls) /\ x.text \in Texts \ {"none"} /\ strays + x.stray \in 0 .. Strays
  <2>1. CASE x = Reply(IF gate = "none" THEN Unprompted ELSE Asked(task, gate, h), Told(task, gate), 0)
    BY <1>2, <1>3, <1>5, <1>6, <2>1 DEF Reply
  <2>2. CASE strays < Strays /\ \E calls \in Straying : x = Reply(calls, "free", 1)
    BY <1>4, <1>6, <2>2 DEF Reply, Texts
  <2> QED BY <2>1, <2>2 DEF ModelReplies
<1>8. Message(task, r.calls) /\ r.text \in Texts \ {"none"} /\ strays + r.stray \in 0 .. Strays
  <2>0. r \in Replies(gate, fixed)
    BY DEF gate, fixed
  <2>1. CASE fixed = "none"
    BY <1>7, <2>0, <2>1 DEF Replies
  <2>2. CASE fixed # "none" /\ mode = "forced"
    <3>1. r = Reply(Asked(task, fixed, h), Fixed(fixed), 0)
      BY <2>0, <2>2 DEF Replies
    <3> QED BY <3>1, <1>2, <1>5, <1>6 DEF Reply
  <2>3. CASE fixed # "none" /\ mode = "short"
    <3>1. r = Reply(<<>>, Fixed(fixed), 0)
      BY <2>0, <2>3 DEF Replies
    <3> QED BY <3>1, NoCall, <1>5, <1>6 DEF Reply
  <2>4. mode = "off" => fixed = "none"
    BY DEF fixed, FixedGate
  <2> QED BY <2>1, <2>2, <2>3, <2>4, LoopAssumption
<1>9. Message(task, Bridged(gate, r.calls))
  BY <1>2, <1>8, NoCall DEF Bridged
<1> QED BY <1>8, <1>9 DEF gate

-----------------------------------------------------------------------------
(* Running a call.                                                         *)

Kinds    == {"error", "text", "wrote", "current", "replaced", "passed", "failed", "broken",
             "copied", "located", "seen"}
Verdicts == {"passed", "failed", "broken"}
Results  == [kind : Kinds, on : Names, good : BOOLEAN]
Workspaces(t) ==
    [chain : [WorkFiles(t) -> Contents], side : Contents,
     newer : {"chain", "side", "same"}]

LEMMA StoredIs ==
    ASSUME task \in AllTasks, ws \in Workspaces(task), NEW c, c \in Calls,
           c.on \in WorkFiles(task), NEW content \in Contents
    PROVE  /\ Stored(c, content) \in Workspaces(task)
           /\ \/ Stored(c, content).newer \in {"chain", "side"}
              \/ /\ Stored(c, content).side = ws.side /\ Stored(c, content).newer = ws.newer
                 /\ Stored(c, content).chain[Target(task)] = ws.chain[Target(task)]
<1>1. CASE c.at = "side"
  <2>1. Stored(c, content) = [ws EXCEPT !.side = content, !.newer = "side"]
    BY <1>1 DEF Stored
  <2> QED BY <2>1 DEF Workspaces
<1>2. CASE c.at # "side"
  <2> DEFINE chain == [ws.chain EXCEPT ![c.on] = content]
  <2>1. \/ Stored(c, content) = [ws EXCEPT !.chain = chain, !.newer = "chain"]
        \/ Stored(c, content) = [ws EXCEPT !.chain = chain] /\ c.on # Target(task)
    BY <1>2 DEF Stored, Workspaces
  <2>2. chain \in [WorkFiles(task) -> Contents]
    BY DEF Workspaces
  <2>3. c.on # Target(task) => chain[Target(task)] = ws.chain[Target(task)]
    BY DEF Workspaces
  <2> HIDE DEF chain
  <2> QED BY <2>1, <2>2, <2>3 DEF Workspaces
<1> QED BY <1>1, <1>2

\* A call leaves a workspace behind and comes back with a result.  Only a verification
\* has a verdict, and it passes on good files alone.  A read or a verification changes
\* nothing, and what changes one of the copies makes it the newer one.
LEMMA DoIs ==
    ASSUME task \in AllTasks, ws \in Workspaces(task), NEW c, Proper(task, c),
           NEW fails \in BOOLEAN
    PROVE  LET end == Do(c, fails) IN
           /\ end.ws \in Workspaces(task) /\ end.result \in Results
           /\ (Checks(c) <=> end.result.kind \in Verdicts)
           /\ end.result.kind = "passed" /\ task # "research"
                 => \A f \in ToSet(Deliverables[task]) : ws.chain[f] = "good"
           /\ c.tool = "read" \/ Checks(c) => end.ws = ws
           /\ c.tool = "read" /\ ~LooksFailed(end.result) => end.result.kind = "text"
           /\ \/ end.ws = ws
              \/ end.ws.newer \in {"chain", "side"}
              \/ /\ end.ws.side = ws.side /\ end.ws.newer = ws.newer
                 /\ task \in Mirrored => end.ws.chain[Target(task)] = ws.chain[Target(task)]
<1> DEFINE end == Do(c, fails)
           Runs(w, kind) == end.ws = w /\ end.result \in Results /\ end.result.kind = kind
           Left(w) == /\ w \in Workspaces(task)
                      /\ \/ w.newer \in {"chain", "side"}
                         \/ /\ w.side = ws.side /\ w.newer = ws.newer
                            /\ w.chain[Target(task)] = ws.chain[Target(task)]
<1> SUFFICES /\ end.ws \in Workspaces(task) /\ end.result \in Results
             /\ Checks(c) <=> end.result.kind \in Verdicts
             /\ end.result.kind = "passed" /\ task # "research"
                 => \A f \in ToSet(Deliverables[task]) : ws.chain[f] = "good"
             /\ c.tool = "read" \/ Checks(c) => end.ws = ws
             /\ c.tool = "read" /\ end.result.kind \notin {"error", "current"} => end.result.kind = "text"
             /\ \/ end.ws = ws
                \/ end.ws.newer \in {"chain", "side"}
                \/ /\ end.ws.side = ws.side /\ end.ws.newer = ws.newer
                   /\ task \in Mirrored => end.ws.chain[Target(task)] = ws.chain[Target(task)]
  BY DEF LooksFailed
<1> HIDE DEF end
<1>0. /\ c \in Calls /\ c.on \in Names /\ c.good \in BOOLEAN /\ Path(c) \in Names
      /\ c.tool \in {"read", "write", "edit", "exec", "browser"}
      /\ Commands \subseteq Names
  <2>1. "thread" \in Names
    <3>1. 1 \in DOMAIN Sources["summarize"] /\ Sources["summarize"][1] = "thread"
      BY DEF Sources
    <3>2. "summarize" \in AllTasks
      BY TasksAre DEF TaskNames
    <3> QED BY <3>1, <3>2, SourcesAre
  <2> QED BY <2>1 DEF Proper, Calls, Path, Names
<1>1. CASE fails
  <2> DEFINE kind == IF Checks(c) THEN "broken" ELSE "error"
  <2>1. end = Outcome(ws, Result(kind, c.on, FALSE))
    BY <1>1 DEF Do, DoFail, end
  <2>2. kind \in Kinds
    BY DEF Kinds
  <2>3. Runs(ws, kind)
    <3> HIDE DEF kind
    <3> QED BY <1>0, <2>1, <2>2 DEF Outcome, Result, Results
  <2>4. Checks(c) <=> kind = "broken"
    OBVIOUS
  <2>5. kind \in {"broken", "error"}
    BY DEF kind
  <2> HIDE DEF kind
  <2>6. c.tool = "read" => ~Checks(c)
    BY DEF Checks, IsExec
  <2> QED BY <2>3, <2>4, <2>5, <2>6 DEF Verdicts
<1>2. CASE ~fails /\ c.tool = "read"
  <2> DEFINE content == IF Path(c) \in DOMAIN ws.chain THEN ws.chain[Path(c)] ELSE "good"
             good == content = "good"
  <2>1. end = Outcome(ws, IF content = "absent" THEN Result("error", Path(c), FALSE)
                          ELSE Result("text", Path(c), good))
    BY <1>2 DEF Do, DoRead, end
  <2>2. good \in BOOLEAN
    OBVIOUS
  <2> HIDE DEF content, good
  <2>3. Runs(ws, "error") \/ Runs(ws, "text")
    BY <1>0, <2>1, <2>2 DEF Kinds, Outcome, Result, Results
  <2> QED BY <1>2, <2>3 DEF Checks, Verdicts, IsExec
<1>3. CASE ~fails /\ c.tool = "write"
  <2> DEFINE content == IF c.good THEN "good" ELSE "bad"
  <2>1. end = Outcome(Stored(c, content), Result("wrote", c.on, c.good))
    BY <1>3 DEF Do, DoWrite, end
  <2>2. content \in Contents
    BY DEF Contents
  <2> HIDE DEF content
  <2>3. Runs(Stored(c, content), "wrote")
    BY <1>0, <2>1 DEF Kinds, Outcome, Result, Results
  <2>4. c.on \in WorkFiles(task)
    BY <1>3 DEF Proper
  <2>5. Left(Stored(c, content))
    BY <1>0, <2>2, <2>4, StoredIs
  <2> QED BY <1>3, <2>3, <2>5 DEF Checks, Verdicts, IsExec
<1>4. CASE ~fails /\ c.tool = "edit"
  <2> DEFINE content == IF c.at = "side" THEN ws.side ELSE ws.chain[c.on]
  <2>1. c.on \in WorkFiles(task)
    BY <1>4 DEF Proper
  <2>2. content \in Contents
    BY <2>1 DEF Workspaces
  <2>3. \/ end = Outcome(ws, Result("error", c.on, FALSE))
        \/ end = Outcome(ws, Result("current", c.on, TRUE))
        \/ end = Outcome(Stored(c, "good"), Result("replaced", c.on, TRUE))
        \/ end = Outcome(Stored(c, "bad"), Result("replaced", c.on, FALSE))
    <3>1. end = DoEdit(c)
      BY <1>4 DEF Do, end
    <3>2. DoEdit(c) = CASE content = "absent" -> Outcome(ws, Result("error", c.on, FALSE))
                        [] content = "good" /\ c.good -> Outcome(ws, Result("current", c.on, TRUE))
                        [] content = "bad" /\ c.good ->
                             Outcome(Stored(c, "good"), Result("replaced", c.on, TRUE))
                        [] content # "absent" /\ ~c.good ->
                             Outcome(Stored(c, "bad"), Result("replaced", c.on, FALSE))
      BY DEF DoEdit
    <3> HIDE DEF content
    <3> QED BY <1>0, <2>2, <3>1, <3>2 DEF Contents
  <2>4. \A x \in {"good", "bad"} : Left(Stored(c, x))
    BY <1>0, <2>1, StoredIs DEF Contents
  <2>5. \/ Runs(ws, "error") \/ Runs(ws, "current")
        \/ \E x \in {"good", "bad"} : Runs(Stored(c, x), "replaced")
    <3>1. ASSUME NEW w, NEW kind \in Kinds, NEW good \in BOOLEAN, end = Outcome(w, Result(kind, c.on, good))
          PROVE  Runs(w, kind)
      BY <1>0, <3>1 DEF Outcome, Result, Results
    <3>2. \/ \E good \in BOOLEAN : end = Outcome(ws, Result("error", c.on, good))
          \/ \E good \in BOOLEAN : end = Outcome(ws, Result("current", c.on, good))
          \/ \E good \in BOOLEAN, x \in {"good", "bad"} : end = Outcome(Stored(c, x), Result("replaced", c.on, good))
      BY <2>3, Zenon
    <3> HIDE DEF Runs
    <3> QED BY <3>1, <3>2 DEF Kinds
  <2> QED BY <1>4, <2>4, <2>5 DEF Checks, Verdicts, IsExec
<1>5. CASE ~fails /\ c.tool = "exec"
  <2>1. c.on \in Commands /\ (Checks(c) <=> c.on \in Tests)
    BY <1>5 DEF Proper, Checks, IsExec, Tests
  <2>2. end = DoExec(c)
    BY <1>5 DEF Do, end
  <2>3. CASE c.on \in Tests
    <3>1. end = Outcome(ws, Result(Verdict(c.on), c.on, TRUE))
      BY <2>1, <2>2, <2>3 DEF DoExec, Tests
    <3>2. Verdict(c.on) \in {"passed", "failed"}
      BY DEF Verdict
    <3>3. Verdict(c.on) = "passed" /\ task # "research"
             => \A f \in ToSet(Deliverables[task]) : ws.chain[f] = "good"
      BY DEF Verdict, Checked
    <3>4. Runs(ws, Verdict(c.on))
      BY <1>0, <3>1, <3>2 DEF Kinds, Outcome, Result, Results
    <3> QED BY <1>5, <2>1, <2>3, <3>2, <3>3, <3>4 DEF Verdicts
  <2>4. CASE c.on = "copy"
    <3> DEFINE chain == [ws.chain EXCEPT !["desktop_copy"] = "good"]
               w == [ws EXCEPT !.chain = chain]
    <3>1. end = Outcome(w, Result("copied", c.on, TRUE))
      BY <2>1, <2>2, <2>4 DEF DoExec, Tests
    <3>2. chain \in [WorkFiles(task) -> Contents]
      BY DEF Workspaces, Contents
    <3>3. task \in Mirrored => chain[Target(task)] = ws.chain[Target(task)]
      <4>1. task \in Mirrored => Target(task) # "desktop_copy"
        BY DEF Mirrored, Target, Main, Deliverables
      <4> QED BY <4>1 DEF Workspaces
    <3> HIDE DEF chain
    <3>4. w \in Workspaces(task) /\ w.side = ws.side /\ w.newer = ws.newer
          /\ (task \in Mirrored => w.chain[Target(task)] = ws.chain[Target(task)])
      BY <3>2, <3>3 DEF Workspaces
    <3> HIDE DEF w
    <3>5. Runs(w, "copied")
      BY <1>0, <3>1 DEF Kinds, Outcome, Result, Results
    <3> QED BY <1>5, <2>1, <2>4, <3>4, <3>5 DEF Verdicts, Tests
  <2>5. CASE c.on = "search"
    <3>1. end = Outcome(ws, Result("located", c.on, TRUE))
      BY <2>1, <2>2, <2>5 DEF DoExec, Tests
    <3>2. Runs(ws, "located")
      BY <1>0, <3>1 DEF Kinds, Outcome, Result, Results
    <3> QED BY <1>5, <2>1, <2>5, <3>2 DEF Verdicts, Tests
  <2>6. CASE c.on = "schema"
    <3>1. end = Outcome(ws, Result("text", c.on, TRUE))
      BY <2>1, <2>2, <2>6 DEF DoExec, Tests
    <3>2. Runs(ws, "text")
      BY <1>0, <3>1 DEF Kinds, Outcome, Result, Results
    <3> QED BY <1>5, <2>1, <2>6, <3>2 DEF Verdicts, Tests
  <2> QED BY <2>1, <2>3, <2>4, <2>5, <2>6 DEF Commands, Tests
<1>6. CASE ~fails /\ c.tool = "browser"
  <2>1. end = Outcome(ws, Result("seen", c.on, TRUE))
    BY <1>6 DEF Do, end
  <2>2. Runs(ws, "seen")
    BY <1>0, <2>1 DEF Kinds, Outcome, Result, Results
  <2> QED BY <1>6, <2>2 DEF Checks, Verdicts, IsExec
<1> QED BY <1>0, <1>1, <1>2, <1>3, <1>4, <1>5, <1>6

-----------------------------------------------------------------------------
(* The types, and what holds of every message and its results.             *)

Judged(calls, res) == \A i \in DOMAIN res : Checks(calls[i]) <=> res[i].kind \in Verdicts
Turns == [calls : Seq(Calls), results : Seq(Results)]
Turn(t, turn) ==
    /\ turn \in Turns
    /\ turn.calls # <<>> /\ Len(turn.calls) = Len(turn.results)
    /\ Message(t, turn.calls) /\ Judged(turn.calls, turn.results)

Running ==
    /\ Message(task, pending) /\ results \in Seq(Results) /\ Judged(pending, results)
    /\ \/ pending = <<>> /\ results = <<>>
       \/ Len(results) < Len(pending) /\ Len(h) < MaxTurns /\ agent < 3
Transcribed == h \in Seq(Turns) /\ Len(h) <= MaxTurns /\ \A i \in DOMAIN h : Turn(task, h[i])
Spoken == said \in [0 .. 2 -> Texts] /\ \A a \in 0 .. 2 : a >= agent => said[a] = "none"
Types ==
    /\ task \in Tasks /\ mode \in Modes /\ agent \in 0 .. 3
    /\ Transcribed /\ Running /\ ws \in Workspaces(task) /\ Spoken
    /\ emitted \subseteq 0 .. 2 /\ strays \in 0 .. Strays /\ faults \in 0 .. Faults
    /\ lastVerify \in Verdicts \cup {"none"}

LEMMA TypesInit == Init => Types
<1> SUFFICES ASSUME Init PROVE Types
  OBVIOUS
<1>1. task \in AllTasks
  BY LoopAssumption DEF Init
<1>2. ws \in Workspaces(task)
  <2>1. [f \in WorkFiles(task) |-> Start(task, f)] \in [WorkFiles(task) -> Contents]
    BY DEF Start, Contents
  <2>2. (IF task \in Mirrored THEN Contents ELSE {"absent"}) \subseteq Contents
    BY DEF Contents
  <2>3. ws \in [chain : {[f \in WorkFiles(task) |-> Start(task, f)]},
                side  : IF task \in Mirrored THEN Contents ELSE {"absent"},
                newer : {"chain"}]
    BY DEF Init
  <2> QED BY <2>1, <2>2, <2>3 DEF Workspaces
<1>3. Transcribed
  BY LoopAssumption DEF Init, Transcribed
<1>4. Running
  BY NoCall DEF Init, Running, Judged
<1>5. Spoken
  BY DEF Init, Spoken, Texts
<1> QED BY <1>2, <1>3, <1>4, <1>5, LoopAssumption DEF Init, Types

LEMMA PreparedIs ==
    ASSUME task \in AllTasks, ws \in Workspaces(task), NEW gate, NEW open, NEW calls
    PROVE  Prepared(gate, open, calls) \in Workspaces(task)
<1>1. Target(task) \in WorkFiles(task)
  BY DeliverablesAre
<1>2. CASE task \in {"browser", "research"}
  <2>1. Target(task) = "app"
    BY <1>2 DEF Target, Main, Deliverables
  <2>2. Prepared(gate, open, calls) = BrowserSync(ws)
    BY <1>2 DEF Prepared
  <2> DEFINE chain == [ws.chain EXCEPT !["app"] = ws.side]
             side == ws.chain["app"]
  <2>3. BrowserSync(ws) \in {ws, [ws EXCEPT !.side = side, !.newer = "same"],
                             [ws EXCEPT !.chain = chain, !.newer = "same"]}
    BY DEF BrowserSync, Workspaces, Contents
  <2>4. chain \in [WorkFiles(task) -> Contents] /\ side \in Contents
    BY <1>1, <2>1 DEF Workspaces
  <2> HIDE DEF chain, side
  <2>5. CASE BrowserSync(ws) = ws
    BY <2>2, <2>5
  <2>6. CASE BrowserSync(ws) = [ws EXCEPT !.side = side, !.newer = "same"]
    BY <2>2, <2>4, <2>6 DEF Workspaces
  <2>7. CASE BrowserSync(ws) = [ws EXCEPT !.chain = chain, !.newer = "same"]
    BY <2>2, <2>4, <2>7 DEF Workspaces
  <2> QED BY <2>3, <2>5, <2>6, <2>7
<1>3. CASE task = "config"
  <2>1. Target(task) = "config_loader"
    BY <1>3 DEF Target, Main, Deliverables
  <2>2. Prepared(gate, open, calls) \in {ws, ConfigSync(ws)}
    BY <1>3 DEF Prepared
  <2> DEFINE chain == [ws.chain EXCEPT !["config_loader"] = "good"]
             side == ws.chain["config_loader"]
  <2>3. ConfigSync(ws) \in {ws, [ws EXCEPT !.side = side, !.newer = "same"],
                            [ws EXCEPT !.chain = chain, !.newer = "same"]}
    BY DEF ConfigSync, Workspaces, Contents
  <2>4. chain \in [WorkFiles(task) -> Contents] /\ side \in Contents
    BY <1>1, <2>1 DEF Workspaces, Contents
  <2> HIDE DEF chain, side
  <2>5. ConfigSync(ws) \in Workspaces(task)
    BY <2>3, <2>4 DEF Workspaces
  <2> QED BY <2>2, <2>5
<1>4. CASE task \notin Mirrored
  <2> DEFINE put(f) == [ws.chain EXCEPT ![f] = "good"]
  <2>1. \/ Prepared(gate, open, calls) = ws
        \/ \E f : Prepared(gate, open, calls) = [ws EXCEPT !.chain = put(f)]
    BY <1>4 DEF Prepared, RestoreTests, EnsureDeliverable, Mirrored
  <2>2. \A f : put(f) \in [WorkFiles(task) -> Contents]
    BY DEF Workspaces, Contents
  <2> HIDE DEF put
  <2> QED BY <2>1, <2>2 DEF Workspaces
<1> QED BY <1>2, <1>3, <1>4 DEF Mirrored


LEMMA GenerateTyped == Types /\ Generate => Types'
<1> SUFFICES ASSUME Types, Generate PROVE Types'
  OBVIOUS
<1> DEFINE gate == LadderGate(Open)
<1>1. task \in AllTasks /\ mode \in Modes /\ strays \in 0 .. Strays /\ ws \in Workspaces(task)
  BY LoopAssumption DEF Types
<1>2. PICK r \in Replies(gate, FixedGate(Open)) :
         LET calls == Bridged(gate, r.calls)
         IN  /\ ws' = Prepared(gate, Open, calls)
             /\ strays' = strays + r.stray
             /\ pending' = calls
             /\ emitted' = emitted \cup {a \in {agent} : \E c \in ToSet(calls) : IsBrowser(c)}
             /\ IF calls # <<>> THEN UNCHANGED <<agent, h, said, lastVerify>>
                ELSE /\ said' = [said EXCEPT ![agent] = r.text]
                     /\ agent' = agent + 1 /\ h' = <<>>
                     /\ lastVerify' = IF agent = 2 THEN lastVerify ELSE "none"
  BY DEF Generate
<1> DEFINE calls == Bridged(gate, r.calls)
<1>3. /\ Message(task, calls) /\ r.text \in Texts \ {"none"} /\ strays' \in 0 .. Strays
  BY <1>1, <1>2, ReplyIs
<1>4. /\ agent \in 0 .. 2 /\ agent < 3 /\ pending = <<>> /\ Len(h) < MaxTurns
      /\ UNCHANGED <<task, mode, results, faults, seen>>
  BY DEF Generate, Types
<1>5. ws' \in Workspaces(task)
  BY <1>1, <1>2, PreparedIs
<1>6. emitted' \subseteq 0 .. 2
  BY <1>2, <1>4 DEF Types
<1> HIDE DEF calls, gate
<1>7. results = <<>>
  BY <1>4 DEF Types, Running
<1>8. Running' /\ Transcribed' /\ Spoken' /\ agent' \in 0 .. 3 /\ lastVerify' \in Verdicts \cup {"none"}
  <2>1. CASE calls # <<>>
    <3>1. pending' = calls /\ UNCHANGED <<agent, h, said, lastVerify>>
      BY <1>2, <2>1 DEF calls
    <3>2. Len(calls) > 0
      BY <1>3, <2>1, EmptySeq DEF Message
    <3>3. Judged(calls, <<>>) /\ <<>> \in Seq(Results)
      BY DEF Judged
    <3>4. Running'
      BY <1>3, <1>4, <1>7, <3>1, <3>2, <3>3 DEF Running
    <3> QED BY <1>4, <3>1, <3>4 DEF Types, Transcribed, Spoken
  <2>2. CASE calls = <<>>
    <3>1. /\ pending' = <<>> /\ said' = [said EXCEPT ![agent] = r.text]
          /\ agent' = agent + 1 /\ h' = <<>>
          /\ lastVerify' = IF agent = 2 THEN lastVerify ELSE "none"
      BY <1>2, <2>2 DEF calls
    <3>2. Running'
      BY <1>4, <1>7, <3>1, NoCall DEF Running, Judged
    <3>3. Transcribed'
      BY <3>1, LoopAssumption DEF Transcribed
    <3>4. Spoken'
      BY <1>3, <1>4, <3>1 DEF Spoken, Types
    <3> QED BY <1>4, <3>1, <3>2, <3>3, <3>4 DEF Types
  <2> QED BY <2>1, <2>2
<1> QED BY <1>3, <1>4, <1>5, <1>6, <1>8 DEF Types

\* The call that is run, and what it leaves behind.
LEMMA ExecuteIs ==
    ASSUME Types, Execute
    PROVE  /\ pending \in Seq(Calls) /\ Message(task, pending) /\ Judged(pending, results)
           /\ results \in Seq(Results) /\ Len(results) < Len(pending) /\ agent < 3
           /\ UNCHANGED <<task, mode, agent, said, emitted, strays>>
           /\ \E fails \in BOOLEAN :
                LET n   == Len(results) + 1
                    c   == pending[n]
                    end == Do(c, fails)
                    all == Append(results, end.result)
                IN  /\ n \in DOMAIN pending /\ Proper(task, c) /\ ws' = end.ws
                    /\ faults' \in 0 .. Faults
                    /\ lastVerify' = IF Checks(c) THEN end.result.kind ELSE lastVerify
                    /\ seen' = seen \cup {f \in {c.on} : agent = 0 /\ end.result.kind = "text"
                                                           /\ c.tool = "read"}
                    /\ all \in Seq(Results) /\ Len(all) = n
                    /\ \A i \in 1 .. n : all[i] = IF i = n THEN end.result ELSE results[i]
                    /\ Judged(pending, all)
                    /\ \/ /\ n = Len(pending) /\ pending' = <<>> /\ results' = <<>>
                          /\ h' = Append(h, [calls |-> pending, results |-> all])
                       \/ /\ n < Len(pending) /\ results' = all
                          /\ UNCHANGED <<h, pending>>
<1>1. /\ pending # <<>> /\ Running /\ task \in AllTasks /\ ws \in Workspaces(task)
      /\ faults \in 0 .. Faults
  BY LoopAssumption DEF Types, Execute
<1>2. /\ pending \in Seq(Calls) /\ Message(task, pending) /\ Judged(pending, results)
      /\ results \in Seq(Results) /\ Len(results) < Len(pending) /\ agent < 3
  BY <1>1 DEF Running, Message
<1> DEFINE n == Len(results) + 1
           c == pending[n]
<1>3. PICK fails \in IF faults < Faults THEN BOOLEAN ELSE {FALSE} :
         LET end == Do(c, fails)
             all == Append(results, end.result)
         IN  /\ ws' = end.ws
             /\ faults' = faults + IF fails THEN 1 ELSE 0
             /\ lastVerify' = IF Checks(c) THEN end.result.kind ELSE lastVerify
             /\ seen' = seen \cup {f \in {c.on} : agent = 0 /\ end.result.kind = "text"
                                                   /\ c.tool = "read"}
             /\ IF Len(all) = Len(pending)
                THEN /\ h' = Append(h, [calls |-> pending, results |-> all])
                     /\ pending' = <<>> /\ results' = <<>>
                ELSE results' = all /\ UNCHANGED <<h, pending>>
  BY DEF Execute, Checks
<1> DEFINE end == Do(c, fails)
           all == Append(results, end.result)
<1>4. n \in 1 .. Len(pending) /\ n \in DOMAIN pending /\ Proper(task, c)
  BY <1>2 DEF Message
<1>5. fails \in BOOLEAN
  OBVIOUS
<1>6. end.result \in Results /\ (Checks(c) <=> end.result.kind \in Verdicts)
  <2> HIDE DEF c
  <2> QED BY <1>1, <1>4, <1>5, DoIs
<1>7. faults' \in 0 .. Faults
  <2>1. CASE faults < Faults
    <3>1. faults' = faults \/ faults' = faults + 1
      BY <1>1, <1>3
    <3> QED BY <1>1, <2>1, <3>1, LoopAssumption
  <2>2. CASE ~(faults < Faults)
    <3>1. fails = FALSE
      BY <2>2
    <3>2. faults' = faults
      BY <1>1, <1>3, <3>1
    <3> QED BY <1>1, <3>2
  <2> QED BY <2>1, <2>2
<1>8. /\ all \in Seq(Results) /\ Len(all) = n
      /\ \A i \in 1 .. n : all[i] = IF i = n THEN end.result ELSE results[i]
  <2> HIDE DEF end
  <2> QED BY <1>2, <1>6, AppendProperties
<1>9. Judged(pending, all)
  <2> HIDE DEF all, end
  <2> QED BY <1>2, <1>6, <1>8 DEF Judged
<1>10. UNCHANGED <<task, mode, agent, said, emitted, strays>>
  BY DEF Execute
<1> HIDE DEF n
<1>11. \/ /\ n = Len(pending) /\ pending' = <<>> /\ results' = <<>>
          /\ h' = Append(h, [calls |-> pending, results |-> all])
       \/ /\ n < Len(pending) /\ results' = all
          /\ UNCHANGED <<h, pending>>
  BY <1>3, <1>4, <1>8
<1> QED BY <1>2, <1>3, <1>4, <1>5, <1>7, <1>8, <1>9, <1>10, <1>11 DEF n

LEMMA ExecuteTyped == Types /\ Execute => Types'
<1> SUFFICES ASSUME Types, Execute PROVE Types'
  OBVIOUS
<1>1. /\ pending \in Seq(Calls) /\ Message(task, pending) /\ Judged(pending, results)
      /\ results \in Seq(Results) /\ Len(results) < Len(pending) /\ agent < 3
      /\ UNCHANGED <<task, mode, agent, said, emitted, strays>>
  BY ExecuteIs
<1>2. PICK fails \in BOOLEAN :
        LET n   == Len(results) + 1
            c   == pending[n]
            end == Do(c, fails)
            all == Append(results, end.result)
        IN  /\ n \in DOMAIN pending /\ Proper(task, c) /\ ws' = end.ws
            /\ faults' \in 0 .. Faults
            /\ lastVerify' = IF Checks(c) THEN end.result.kind ELSE lastVerify
            /\ all \in Seq(Results) /\ Len(all) = n /\ Judged(pending, all)
            /\ \/ /\ n = Len(pending) /\ pending' = <<>> /\ results' = <<>>
                  /\ h' = Append(h, [calls |-> pending, results |-> all])
               \/ /\ n < Len(pending) /\ results' = all
                  /\ UNCHANGED <<h, pending>>
  BY ExecuteIs
<1> DEFINE n   == Len(results) + 1
           c   == pending[n]
           end == Do(c, fails)
           all == Append(results, end.result)
           turn == [calls |-> pending, results |-> all]
<1>3. task \in AllTasks /\ ws \in Workspaces(task) /\ Transcribed /\ Running
  BY LoopAssumption DEF Types
<1>4. end.ws \in Workspaces(task) /\ (Checks(c) <=> end.result.kind \in Verdicts)
  <2>1. Proper(task, c)
    BY <1>2
  <2> HIDE DEF c
  <2> QED BY <1>3, <2>1, DoIs
<1>5. lastVerify' \in Verdicts \cup {"none"} /\ ws' \in Workspaces(task)
  BY <1>2, <1>4 DEF Types
<1>6. Transcribed' /\ Running'
  <2> HIDE DEF end
  <2>1. CASE n = Len(pending) /\ pending' = <<>> /\ results' = <<>> /\ h' = Append(h, turn)
    <3>1. all \in Seq(Results) /\ Len(all) = n /\ Judged(pending, all)
      BY <1>2 DEF end
    <3> HIDE DEF all
    <3>2. turn \in Turns /\ turn.calls = pending /\ turn.results = all
      BY <1>1, <3>1 DEF Turns
    <3>3. Turn(task, turn)
      BY <1>1, <2>1, <3>1, <3>2 DEF Turn
    <3>4. h \in Seq(Turns) /\ Len(h) < MaxTurns /\ Len(h) \in Nat
      BY <1>1, <1>3 DEF Transcribed, Running
    <3> HIDE DEF turn
    <3>5. h' \in Seq(Turns) /\ Len(h') = Len(h) + 1
          /\ \A i \in 1 .. Len(h') : h'[i] = IF i = Len(h) + 1 THEN turn ELSE h[i]
      BY <2>1, <3>2, <3>4, AppendProperties
    <3>6. \A i \in DOMAIN h' : Turn(task, h'[i])
      BY <1>3, <3>3, <3>4, <3>5 DEF Transcribed
    <3>7. Transcribed'
      BY <1>1, <3>4, <3>5, <3>6, LoopAssumption DEF Transcribed
    <3>8. Running'
      BY <2>1, NoCall DEF Running, Judged
    <3> QED BY <3>7, <3>8
  <2>2. CASE n < Len(pending) /\ results' = all /\ UNCHANGED <<h, pending>>
    <3>1. all \in Seq(Results) /\ Len(all) = n /\ Judged(pending, all)
      BY <1>2 DEF end
    <3> HIDE DEF all
    <3>2. Running'
      BY <1>1, <1>3, <2>2, <3>1 DEF Running
    <3>3. Transcribed'
      BY <1>1, <1>3, <2>2 DEF Transcribed
    <3> QED BY <3>2, <3>3
  <2> QED BY <1>2, <2>1, <2>2 DEF end
<1>7. faults' \in 0 .. Faults
  BY <1>2
<1> QED BY <1>1, <1>5, <1>6, <1>7 DEF Types, Spoken

LEMMA RejectTyped == Types /\ GatewayReject => Types'
<1> SUFFICES ASSUME Types, GatewayReject PROVE Types'
  OBVIOUS
<1>1. /\ pending' = <<>> /\ h' = <<>> /\ results' = <<>>
      /\ UNCHANGED <<task, mode, agent, ws, said, emitted, strays, faults, lastVerify, seen>>
  BY DEF GatewayReject
<1>2. Transcribed' /\ Running'
  BY <1>1, LoopAssumption, NoCall DEF Transcribed, Running, Judged
<1>3. Spoken'
  BY <1>1 DEF Types, Spoken
<1> QED BY <1>1, <1>2, <1>3 DEF Types

LEMMA TypesNext == Types /\ [Next]_vars => Types'
<1>1. Types /\ UNCHANGED vars => Types'
  BY DEF vars, Types, Transcribed, Running, Spoken
<1> QED BY <1>1, GenerateTyped, ExecuteTyped, RejectTyped DEF Next

LEMMA TypesAlways == Spec => []Types
BY TypesInit, TypesNext, PTL DEF Spec

\* Through every reply, every failing call and every refusal of the browser, a message
\* is answered call by call, and the workspace holds the deliverables of the task.
THEOREM TypeCorrect == Spec => []TypeOK
<1>1. Types => TypeOK
  <2> SUFFICES ASSUME Types PROVE TypeOK
    OBVIOUS
  <2>1. Len(h) <= MaxTurns /\ \A i \in DOMAIN h : Len(h[i].calls) = Len(h[i].results) /\ h[i].calls # <<>>
    BY DEF Types, Transcribed, Turn
  <2>2. Len(results) <= Len(pending) /\ (Len(results) = Len(pending) => pending = <<>>)
    BY DEF Types, Running, Message
  <2>3. /\ ws.chain \in [WorkFiles(task) -> Contents]
        /\ ws.side \in Contents /\ ws.newer \in {"chain", "side", "same"}
    BY DEF Types, Workspaces
  <2> QED BY <2>1, <2>2, <2>3 DEF Types, TypeOK, Spoken, Texts, Verdicts
<1> QED BY <1>1, TypesAlways, PTL

-----------------------------------------------------------------------------
(* The two copies of a mirrored deliverable.                               *)

\* Copies that were brought in step are equal until one of them is written.
InStep == task \in Mirrored /\ ws.newer = "same" => ws.side = ws.chain[Target(task)]

LEMMA TargetOfMirrored ==
    /\ task \in {"browser", "research"} => Target(task) = "app" /\ "app" \in WorkFiles(task)
    /\ task = "config" => Target(task) = "config_loader" /\ "config_loader" \in WorkFiles(task)
BY DEF WorkFiles, Target, Main, Deliverables

LEMMA GenerateInStep == Types /\ InStep /\ Generate => InStep'
<1> SUFFICES ASSUME Types, InStep, Generate, task \in Mirrored,
                    ws'.newer = "same"
             PROVE  ws'.side = ws'.chain[Target(task)]
  BY DEF InStep, Generate
<1>1. PICK gate, open, calls : ws' = Prepared(gate, open, calls)
  BY DEF Generate
<1>2. ws \in Workspaces(task)
  BY DEF Types
<1>3. CASE task \in {"browser", "research"}
  <2>1. ws' = BrowserSync(ws)
    BY <1>1, <1>3 DEF Prepared
  <2> DEFINE chain == [ws.chain EXCEPT !["app"] = ws.side]
             side == ws.chain["app"]
  <2>2. ws' \in {ws, [ws EXCEPT !.side = side, !.newer = "same"],
                 [ws EXCEPT !.chain = chain, !.newer = "same"]}
    BY <1>2, <2>1 DEF BrowserSync, Workspaces, Contents
  <2>3. Target(task) = "app" /\ side = ws.chain[Target(task)] /\ chain[Target(task)] = ws.side
    BY <1>2, <1>3, TargetOfMirrored DEF Workspaces
  <2> HIDE DEF chain, side
  <2> QED BY <1>2, <2>2, <2>3 DEF InStep, Workspaces
<1>4. CASE task = "config"
  <2>1. ws' \in {ws, ConfigSync(ws)}
    BY <1>1, <1>4 DEF Prepared
  <2> DEFINE chain == [ws.chain EXCEPT !["config_loader"] = "good"]
             side == ws.chain["config_loader"]
  <2>2. \/ ws' = ws
        \/ ws' = [ws EXCEPT !.side = side, !.newer = "same"]
        \/ ws' = [ws EXCEPT !.chain = chain, !.newer = "same"] /\ ws.side = "good"
    BY <1>2, <2>1 DEF ConfigSync, Workspaces, Contents
  <2>3. Target(task) = "config_loader" /\ side = ws.chain[Target(task)] /\ chain[Target(task)] = "good"
    BY <1>2, <1>4, TargetOfMirrored DEF Workspaces
  <2> HIDE DEF chain, side
  <2>4. CASE ws' = ws
    BY <2>4 DEF InStep
  <2>5. CASE ws' = [ws EXCEPT !.side = side, !.newer = "same"]
    BY <1>2, <2>3, <2>5 DEF Workspaces
  <2>6. CASE ws' = [ws EXCEPT !.chain = chain, !.newer = "same"] /\ ws.side = "good"
    BY <1>2, <2>3, <2>6 DEF Workspaces
  <2> QED BY <2>2, <2>4, <2>5, <2>6
<1> QED BY <1>3, <1>4 DEF Mirrored

LEMMA ExecuteInStep == Types /\ InStep /\ Execute => InStep'
<1> SUFFICES ASSUME Types, InStep, Execute, task \in Mirrored, ws'.newer = "same"
             PROVE  ws'.side = ws'.chain[Target(task)]
  BY DEF InStep, Execute
<1>1. PICK fails \in BOOLEAN : LET c == pending[Len(results) + 1] IN
          Proper(task, c) /\ ws' = Do(c, fails).ws
  BY ExecuteIs
<1>2. task \in AllTasks /\ ws \in Workspaces(task)
  BY LoopAssumption DEF Types
<1> DEFINE c == pending[Len(results) + 1]
<1>3. \/ ws' = ws
      \/ ws'.newer \in {"chain", "side"}
      \/ ws'.side = ws.side /\ ws'.newer = ws.newer
         /\ ws'.chain[Target(task)] = ws.chain[Target(task)]
  <2>1. Proper(task, c) /\ ws' = Do(c, fails).ws
    BY <1>1
  <2> DEFINE end == Do(c, fails)
  <2> HIDE DEF c
  <2>2. \/ end.ws = ws
        \/ end.ws.newer \in {"chain", "side"}
        \/ end.ws.side = ws.side /\ end.ws.newer = ws.newer
           /\ end.ws.chain[Target(task)] = ws.chain[Target(task)]
    BY <1>2, <2>1, DoIs
  <2> HIDE DEF end
  <2>3. ws' = end.ws
    BY <2>1 DEF end
  <2> QED BY <2>2, <2>3
<1> QED BY <1>3 DEF InStep

LEMMA InStepAlways == Spec => []InStep
<1>1. Init => InStep
  BY DEF Init, InStep
<1>2. Types /\ InStep /\ [Next]_vars => InStep'
  <2>1. InStep /\ UNCHANGED vars => InStep'
    BY DEF vars, InStep
  <2>2. InStep /\ GatewayReject => InStep'
    BY DEF GatewayReject, InStep
  <2> QED BY <2>1, <2>2, GenerateInStep, ExecuteInStep DEF Next
<1> QED BY <1>1, <1>2, TypesAlways, PTL DEF Spec

\* The tests an agent is sent to run in a workspace that holds the fix, if the newest copy
\* of the form or any copy of the configuration loader does.
THEOREM VerifyAlwaysSeesFix == Spec => VerifySeesFix
<1> DEFINE Sent ==
             /\ agent < 3 /\ pending = <<>> /\ task \in Mirrored
             /\ LadderGate(Open) \in {"patcher_pytest", "verifier_exec"}
             /\ IF task = "config" THEN "good" \in {ws.side, ws.chain[Target(task)]}
                ELSE "good" = IF ws.newer = "side" THEN ws.side ELSE ws.chain[Target(task)]
<1>1. ASSUME Types, InStep, Next, Sent PROVE ws'.chain[Target(task)] = "good"
  <2>1. CASE Execute
    BY <1>1, <2>1 DEF Execute
  <2>2. CASE GatewayReject
    <3>1. ToSet(<<>>) = {}
      BY DEF ToSet
    <3> QED BY <1>1, <2>2, <3>1 DEF GatewayReject
  <2>3. CASE Generate
    <3>1. ws \in Workspaces(task)
      BY <1>1 DEF Types
    <3>2. PICK calls : ws' = Prepared(LadderGate(Open), Open, calls)
      BY <2>3 DEF Generate
    <3>3. CASE task = "config"
      <4>1. Target(task) = "config_loader" /\ Target(task) \in WorkFiles(task)
        BY <3>3, TargetOfMirrored
      <4>2. ws' = ConfigSync(ws)
        BY <1>1, <3>2, <3>3 DEF Prepared
      <4> DEFINE chain == [ws.chain EXCEPT !["config_loader"] = "good"]
                 side == ws.chain["config_loader"]
      <4>3. \/ ws.chain["config_loader"] = "good" /\ ws' = [ws EXCEPT !.side = side, !.newer = "same"]
            \/ ws' = [ws EXCEPT !.chain = chain, !.newer = "same"]
        BY <1>1, <3>1, <3>3, <4>1, <4>2 DEF ConfigSync, Workspaces, Contents
      <4>4. chain["config_loader"] = "good"
        BY <3>1, <4>1 DEF Workspaces
      <4> HIDE DEF chain, side
      <4> QED BY <3>1, <4>1, <4>3, <4>4 DEF Workspaces
    <3>4. CASE task \in {"browser", "research"}
      <4>1. Target(task) = "app" /\ Target(task) \in WorkFiles(task)
        BY <3>4, TargetOfMirrored
      <4>2. ws' = BrowserSync(ws)
        BY <3>2, <3>4 DEF Prepared
      <4>3. agent = 2
        <5>1. LadderGate(Open) \in Open
          BY <1>1, OpenIs, LoopAssumption DEF Types
        <5>2. Open \in {BrowserGates(agent, h, Context),
                       BrowserGates(agent, h, Context) \cup GenericGates("research", agent, h, Context)}
          BY <3>4, GatesAre DEF Open
        <5> QED BY <1>1, <5>1, <5>2 DEF BrowserGates, GenericGates, Flag, Types
      <4> DEFINE chain == [ws.chain EXCEPT !["app"] = ws.side]
                 side == ws.chain["app"]
      <4>4. \/ ws' = [ws EXCEPT !.side = side, !.newer = "same"] /\ ws.side = "absent"
            \/ /\ ws' = [ws EXCEPT !.chain = chain, !.newer = "same"]
               /\ ws.newer # "chain" \/ ws.chain["app"] = "absent"
            \/ ws' = ws /\ ws.newer = "chain"
        BY <4>2, <4>3 DEF BrowserSync
      <4>5. chain["app"] = ws.side
        BY <3>1, <4>1 DEF Workspaces
      <4>6. ws.newer = "same" => ws.side = ws.chain["app"]
        BY <1>1, <4>1 DEF InStep
      <4>7. IF ws.newer = "side" THEN ws.side = "good" ELSE ws.chain["app"] = "good"
        BY <1>1, <3>4, <4>1
      <4> HIDE DEF chain, side
      <4>8. CASE ws' = [ws EXCEPT !.side = side, !.newer = "same"] /\ ws.side = "absent"
        BY <3>1, <4>1, <4>7, <4>8 DEF Workspaces
      <4>9. CASE /\ ws' = [ws EXCEPT !.chain = chain, !.newer = "same"]
                 /\ ws.newer # "chain" \/ ws.chain["app"] = "absent"
        BY <3>1, <4>1, <4>5, <4>6, <4>7, <4>9 DEF Workspaces
      <4>10. CASE ws' = ws /\ ws.newer = "chain"
        BY <4>1, <4>7, <4>10
      <4> QED BY <4>4, <4>8, <4>9, <4>10
    <3> QED BY <1>1, <3>3, <3>4 DEF Mirrored
  <2> QED BY <1>1, <2>1, <2>2, <2>3 DEF Next
<1>2. Types /\ InStep /\ [Next]_vars => [Sent => ws'.chain[Target(task)] = "good"]_vars
  BY <1>1
<1> QED BY <1>2, TypesAlways, InStepAlways, PTL DEF Spec, VerifySeesFix

-----------------------------------------------------------------------------
(* The scans of a transcript.                                              *)

\* The last turn of n that has something the scan picks out.
LEMMA LastTurnIs ==
    ASSUME NEW n \in Nat, NEW runs, DOMAIN runs = 1 .. n
    PROVE  \/ LastTurn(runs) = 0 /\ \A i \in 1 .. n : runs[i] = {}
           \/ /\ LastTurn(runs) \in 1 .. n /\ runs[LastTurn(runs)] # {}
              /\ \A i \in 1 .. n : i > LastTurn(runs) => runs[i] = {}
<1> DEFINE ran == {i \in DOMAIN runs : runs[i] # {}}
<1>1. CASE ran = {}
  BY <1>1 DEF LastTurn
<1>2. CASE ran # {}
  <2>1. LastTurn(runs) = Max(ran)
    BY <1>2 DEF LastTurn
  <2>2. ran \in SUBSET (0 .. n)
    OBVIOUS
  <2> DEFINE m == Max(ran)
  <2>3. m \in ran /\ \A y \in ran : m >= y
    <3> HIDE DEF ran
    <3> QED BY <1>2, <2>2, Largest
  <2> HIDE DEF m
  <2>4. m \in 1 .. n /\ runs[m] # {}
    BY <2>3
  <2>5. \A i \in 1 .. n : i > m => runs[i] = {}
    BY <2>3, <2>4
  <2> QED BY <2>1, <2>4, <2>5 DEF m
<1> QED BY <1>1, <1>2

LEMMA LastTurnExtends ==
    ASSUME NEW n \in Nat, NEW runs, DOMAIN runs = 1 .. n, NEW more, DOMAIN more = 1 .. n + 1,
           \A i \in 1 .. n : more[i] = runs[i]
    PROVE  LastTurn(more) = IF more[n + 1] # {} THEN n + 1 ELSE LastTurn(runs)
<1>1. \/ LastTurn(runs) = 0 /\ \A i \in 1 .. n : runs[i] = {}
      \/ /\ LastTurn(runs) \in 1 .. n /\ runs[LastTurn(runs)] # {}
         /\ \A i \in 1 .. n : i > LastTurn(runs) => runs[i] = {}
  BY LastTurnIs
<1>2. \/ LastTurn(more) = 0 /\ \A i \in 1 .. n + 1 : more[i] = {}
      \/ /\ LastTurn(more) \in 1 .. n + 1 /\ more[LastTurn(more)] # {}
         /\ \A i \in 1 .. n + 1 : i > LastTurn(more) => more[i] = {}
  <2>1. n + 1 \in Nat
    OBVIOUS
  <2> QED BY <2>1, LastTurnIs
<1>3. CASE more[n + 1] # {}
  BY <1>2, <1>3
<1>4. CASE more[n + 1] = {}
  <2>1. LastTurn(more) \in 0 .. n /\ LastTurn(runs) \in 0 .. n
    BY <1>1, <1>2, <1>4
  <2>2. LastTurn(more) # 0 => LastTurn(runs) # 0 /\ ~(LastTurn(more) > LastTurn(runs))
    BY <1>1, <1>2, <1>4, <2>1
  <2>3. LastTurn(runs) # 0 => LastTurn(more) # 0 /\ ~(LastTurn(runs) > LastTurn(more))
    BY <1>1, <1>2, <1>4, <2>1
  <2> QED BY <1>4, <2>1, <2>2, <2>3
<1> QED BY <1>3, <1>4

LEMMA SetOfOne ==
    ASSUME NEW k \in Nat
    PROVE  Max({k}) = k /\ Cardinality({k}) = 1
<1>1. Cardinality({k}) = 1
  BY FS_Singleton
<1>2. {k} \in SUBSET (0 .. k)
  OBVIOUS
<1>3. Max({k}) \in {k}
  BY <1>2, Largest
<1> QED BY <1>1, <1>3

\* In a message with one command, the result paired with it is the first of the turn.
LEMMA PairedCommand ==
    ASSUME NEW t, NEW turn, Turn(t, turn), NEW target, NEW k \in Kept(turn, target),
           \A j \in Kept(turn, target) : IsExec(turn.calls[j])
    PROVE  /\ Kept(turn, target) = {k} /\ Paired(turn, target, k) = turn.results[1]
           /\ 1 \in DOMAIN turn.results
<1>1. turn.calls \in Seq(Calls) /\ turn.results \in Seq(Results) /\ Alone(turn.calls)
      /\ Len(turn.calls) = Len(turn.results) /\ turn.calls # <<>>
  BY DEF Turn, Turns, Message
<1>2. k \in DOMAIN turn.calls /\ k \in Nat
  BY <1>1 DEF Kept
<1>3. Kept(turn, target) = {k}
  <2>1. \A j \in Kept(turn, target) : j \in DOMAIN turn.calls /\ turn.calls[j].tool # "read"
    BY DEF Kept, IsExec
  <2>2. \A j \in Kept(turn, target) : j = k
    BY <1>1, <1>2, <2>1 DEF Alone
  <2> QED BY <2>2
<1>4. {j \in Kept(turn, target) : j <= k} = {k}
  BY <1>2, <1>3
<1>5. Paired(turn, target, k) = turn.results[1]
  BY <1>2, <1>4, SetOfOne DEF Paired
<1>6. 1 \in DOMAIN turn.results
  BY <1>1, EmptySeq
<1> QED BY <1>3, <1>5, <1>6

LEMMA FormIssued ==
    ASSUME NEW tr \in Seq(Turns), FormPassed(tr)
    PROVE  Issued(tr, "verify")
<1> DEFINE runs == FormRuns(tr)
<1>1. DOMAIN runs = 1 .. Len(tr) /\ Len(tr) \in Nat
  BY DEF FormRuns
<1> HIDE DEF runs
<1>2. LastTurn(runs) \in 1 .. Len(tr) /\ runs[LastTurn(runs)] # {}
  BY <1>1, LastTurnIs DEF FormPassed, runs
<1>3. PICK i \in DOMAIN tr : Kept(tr[i], FormScan) # {}
  BY <1>1, <1>2 DEF FormRuns, runs
<1>4. PICK k \in DOMAIN tr[i].calls : Touches(tr[i].calls[k], FormScan)
  BY <1>3 DEF Kept
<1>5. IsExec(tr[i].calls[k]) /\ tr[i].calls[k].on = "verify"
  BY <1>4 DEF Touches, FormScan, On, Path, IsExec
<1>6. tr[i].calls[k] \in ToSet(tr[i].calls)
  BY DEF ToSet
<1> QED BY <1>5, <1>6 DEF Issued

\* A new turn makes pytest pass when its first result says so.
LEMMA PytestExtends ==
    ASSUME NEW t, NEW tr \in Seq(Turns), NEW turn, Turn(t, turn),
           PytestPassed(Append(tr, turn))
    PROVE  \/ PytestPassed(tr)
           \/ \E i \in DOMAIN turn.results : turn.results[i].kind = "passed"
<1> DEFINE more == Append(tr, turn)
           n == Len(tr)
<1>1. /\ n \in Nat /\ DOMAIN tr = 1 .. n /\ DOMAIN more = 1 .. n + 1
      /\ more[n + 1] = turn /\ \A i \in 1 .. n : more[i] = tr[i]
  BY AppendProperties DEF Turn
<1> HIDE DEF more, n
<1>2. /\ DOMAIN PytestRuns(tr) = 1 .. n /\ DOMAIN PytestRuns(more) = 1 .. n + 1
      /\ \A i \in 1 .. n : PytestRuns(more)[i] = PytestRuns(tr)[i]
      /\ PytestRuns(more)[n + 1] = {k \in Kept(turn, Execs) : turn.calls[k].on = "verify"}
  BY <1>1 DEF PytestRuns, RunsOf
<1>3. LastTurn(PytestRuns(more)) = IF PytestRuns(more)[n + 1] # {} THEN n + 1
                                   ELSE LastTurn(PytestRuns(tr))
  BY <1>1, <1>2, LastTurnExtends
<1>4. CASE PytestRuns(more)[n + 1] # {}
  <2>1. PICK k \in Kept(turn, Execs) : turn.calls[k].on = "verify"
    BY <1>2, <1>4
  <2>2. \A j \in Kept(turn, Execs) : IsExec(turn.calls[j])
    BY DEF Kept, Touches, Execs, On, IsExec
  <2>3. /\ Kept(turn, Execs) = {k} /\ Paired(turn, Execs, k) = turn.results[1]
        /\ 1 \in DOMAIN turn.results
    BY <2>2, PairedCommand
  <2>4. k \in Nat
    <3>1. turn.calls \in Seq(Calls)
      BY DEF Turn, Turns
    <3> QED BY <3>1 DEF Kept
  <2>5. PytestRuns(more)[n + 1] = {k}
    BY <1>2, <2>1, <2>3
  <2>6. LastPytest(more) = turn.results[1].kind
    <3>1. LastTurn(PytestRuns(more)) = n + 1 /\ n + 1 # 0
      BY <1>1, <1>3, <1>4
    <3>2. Max(PytestRuns(more)[n + 1]) = k
      BY <2>4, <2>5, SetOfOne
    <3> QED BY <1>1, <2>3, <3>1, <3>2 DEF LastPytest, LastPytestTurn, LastResult
  <2> QED BY <2>3, <2>6 DEF PytestPassed, more
<1>5. CASE PytestRuns(more)[n + 1] = {}
  <2> DEFINE m == LastTurn(PytestRuns(tr))
  <2>1. m = LastTurn(PytestRuns(more))
    BY <1>3, <1>5
  <2>2. m # 0 => m \in 1 .. n
    BY <1>1, <1>2, LastTurnIs
  <2> HIDE DEF m
  <2>3. m # 0 => /\ more[m] = tr[m] /\ PytestRuns(more)[m] = PytestRuns(tr)[m]
    BY <1>1, <1>2, <2>2
  <2>4. LastPytest(more) = LastPytest(tr)
    BY <2>1, <2>3 DEF LastPytest, LastPytestTurn, LastResult, m
  <2> QED BY <2>4 DEF PytestPassed, more
<1> QED BY <1>4, <1>5

LEMMA NoTurns ==
    /\ ~PytestPassed(<<>>) /\ AllResults(<<>>) = {}
    /\ \A command : ~Issued(<<>>, command) /\ FirstAnswers(<<>>, command) = {}
<1>1. DOMAIN PytestRuns(<<>>) = 1 .. 0
  BY DEF PytestRuns, RunsOf
<1>2. LastTurn(PytestRuns(<<>>)) = 0
  BY <1>1, LastTurnIs
<1>3. ~PytestPassed(<<>>)
  BY <1>2 DEF PytestPassed, LastPytest, LastPytestTurn
<1> QED BY <1>3 DEF AllResults, Issued, FirstAnswers

-----------------------------------------------------------------------------
(* The ladder and the priorities agree.                                    *)

\* In the normalizer task pytest passes on tests that are on disk: agent 1 has done its
\* part then, and a verification that passed changed nothing.
Tested ==
    task = "normalizer" =>
       /\ agent = 1 /\ PytestPassed(h) => ws.chain["tests"] = "good" /\ pending = <<>>
       /\ \A i \in DOMAIN results : results[i].kind = "passed" => ws.chain["tests"] = "good"

LEMMA TestsOf == task = "normalizer" => Main(task) = "tests" /\ "tests" \in ToSet(Deliverables[task])
BY DEF Main, Deliverables, ToSet

LEMMA DoneWhenPassed ==
    ASSUME task = "normalizer", agent = 1, PytestPassed(h), ws.chain["tests"] = "good"
    PROVE  LadderGate(Open) = "patcher_done"
<1>1. Open = NormalizerGates(agent, h, Context)
  BY GatesAre DEF Open
<1>2. Context.onDisk
  BY TestsOf DEF Context
<1>3. /\ "patcher_done" \in Open /\ "analyzer_done" \notin Open /\ "analyzer_read" \notin Open
  BY <1>1 DEF NormalizerGates, Flag
<1>4. Ladder(task) = NormalizerLadder
  BY DEF Ladder, Generic
<1> DEFINE l == Ladder(task)
<1>5. DOMAIN l = 1 .. 8 /\ l[1] = "analyzer_done" /\ l[2] = "analyzer_read" /\ l[3] = "patcher_done"
  BY <1>4 DEF NormalizerLadder
<1> HIDE DEF l
<1>6. FirstOpen(l, Open) = "patcher_done"
  <2>1. \/ FirstOpen(l, Open) = "none" /\ \A i \in 1 .. 8 : l[i] \notin Open
        \/ \E i \in 1 .. 8 : /\ FirstOpen(l, Open) = l[i] /\ l[i] \in Open
                             /\ \A j \in 1 .. 8 : j < i => l[j] \notin Open
    BY <1>5, FirstOpenIs
  <2>2. 3 \in 1 .. 8 /\ l[3] \in Open
    BY <1>3, <1>5
  <2>3. PICK i \in 1 .. 8 : /\ FirstOpen(l, Open) = l[i] /\ l[i] \in Open
                            /\ \A j \in 1 .. 8 : j < i => l[j] \notin Open
    BY <2>1, <2>2
  <2>4. i = 3
    BY <1>3, <1>5, <2>2, <2>3
  <2> QED BY <1>5, <2>3, <2>4
<1> QED BY <1>6 DEF LadderGate, l

LEMMA GenerateTested == Types /\ Tested /\ Generate => Tested'
<1> SUFFICES ASSUME Types, Tested, Generate, task = "normalizer" PROVE Tested'
  BY DEF Tested, Generate
<1>1. PICK r \in Replies(LadderGate(Open), FixedGate(Open)) :
         LET calls == Bridged(LadderGate(Open), r.calls)
         IN  /\ ws' = Prepared(LadderGate(Open), Open, calls)
             /\ pending' = calls
             /\ IF calls # <<>> THEN UNCHANGED <<agent, h>>
                ELSE agent' = agent + 1 /\ h' = <<>>
  BY DEF Generate
<1>2. task' = task /\ pending = <<>> /\ results = <<>> /\ results' = results
  BY DEF Generate, Types, Running
<1>3. agent' = 1 /\ PytestPassed(h') => ws'.chain["tests"] = "good" /\ pending' = <<>>
  <2> SUFFICES ASSUME agent' = 1, PytestPassed(h') PROVE FALSE
    OBVIOUS
  <2>1. h' # <<>>
    BY NoTurns
  <2>2. /\ Bridged(LadderGate(Open), r.calls) # <<>> /\ agent = 1 /\ h' = h
    BY <1>1, <2>1
  <2>3. LadderGate(Open) = "patcher_done"
    BY <2>2, DoneWhenPassed DEF Tested
  <2>4. Bridged(LadderGate(Open), r.calls) = <<>>
    BY <2>3 DEF Bridged, TextOnly
  <2> QED BY <2>2, <2>4
<1>4. DOMAIN results' = {}
  BY <1>2
<1> QED BY <1>3, <1>4 DEF Tested

LEMMA ExecuteTested == Types /\ Tested /\ Execute => Tested'
<1> SUFFICES ASSUME Types, Tested, Execute, task = "normalizer" PROVE Tested'
  BY DEF Tested, Execute
<1>1. /\ pending \in Seq(Calls) /\ Message(task, pending) /\ Judged(pending, results)
      /\ results \in Seq(Results) /\ Len(results) < Len(pending) /\ agent' = agent /\ task' = task
  BY ExecuteIs
<1>2. PICK fails \in BOOLEAN :
        LET n   == Len(results) + 1
            c   == pending[n]
            end == Do(c, fails)
            all == Append(results, end.result)
        IN  /\ n \in DOMAIN pending /\ Proper(task, c) /\ ws' = end.ws
            /\ all \in Seq(Results) /\ Len(all) = n
            /\ \A i \in 1 .. n : all[i] = IF i = n THEN end.result ELSE results[i]
            /\ Judged(pending, all)
            /\ \/ /\ n = Len(pending) /\ pending' = <<>> /\ results' = <<>>
                  /\ h' = Append(h, [calls |-> pending, results |-> all])
               \/ /\ n < Len(pending) /\ results' = all
                  /\ UNCHANGED <<h, pending>>
  BY ExecuteIs
<1> DEFINE n   == Len(results) + 1
           c   == pending[n]
           end == Do(c, fails)
           all == Append(results, end.result)
           turn == [calls |-> pending, results |-> all]
<1>3. task \in AllTasks /\ ws \in Workspaces(task) /\ Transcribed /\ Len(results) \in Nat
  BY <1>1, LoopAssumption DEF Types
<1>4. /\ Checks(c) <=> end.result.kind \in Verdicts
      /\ end.result.kind = "passed" => ws.chain["tests"] = "good"
      /\ c.tool = "read" \/ Checks(c) => end.ws = ws
  <2>1. Proper(task, c)
    BY <1>2
  <2> HIDE DEF c
  <2> QED BY <1>3, <2>1, DoIs, TestsOf
<1>5. /\ ws' = end.ws /\ n \in DOMAIN pending /\ all \in Seq(Results) /\ Len(all) = n
      /\ \A i \in 1 .. n : all[i] = IF i = n THEN end.result ELSE results[i]
      /\ Judged(pending, all)
  BY <1>2
<1>6. \A i \in 1 .. n : all[i].kind = "passed" => ws'.chain["tests"] = "good"
  <2> HIDE DEF all, end, c
  <2> SUFFICES ASSUME NEW i \in 1 .. n, all[i].kind = "passed" PROVE ws'.chain["tests"] = "good"
    OBVIOUS
  <2>1. CASE i = n
    BY <1>4, <1>5, <2>1 DEF Verdicts
  <2>2. CASE i # n
    <3>1. i \in DOMAIN results /\ results[i].kind = "passed"
      BY <1>1, <1>3, <1>5, <2>2
    <3>2. ws.chain["tests"] = "good"
      BY <3>1 DEF Tested
    <3>3. IsExec(pending[i]) /\ i \in DOMAIN pending
      BY <1>1, <3>1 DEF Judged, Verdicts, Checks
    <3>4. c.tool = "read"
      BY <1>1, <1>5, <2>2, <3>3 DEF Message, Alone, c
    <3> QED BY <1>4, <1>5, <3>2, <3>4
  <2> QED BY <2>1, <2>2
<1>7. CASE n = Len(pending) /\ pending' = <<>> /\ results' = <<>> /\ h' = Append(h, turn)
  <2> HIDE DEF all
  <2>1. agent' = 1 /\ PytestPassed(h') => ws'.chain["tests"] = "good"
    <3> SUFFICES ASSUME agent' = 1, PytestPassed(h') PROVE ws'.chain["tests"] = "good"
      OBVIOUS
    <3>1. Turn(task, turn)
      BY <1>1, <1>5, <1>7, EmptySeq DEF Turn, Turns
    <3>2. h \in Seq(Turns)
      BY <1>3 DEF Transcribed
    <3>3. pending # <<>>
      BY <1>1, EmptySeq
    <3>4. ~PytestPassed(h)
      BY <1>1, <3>3 DEF Tested
    <3>5. PICK i \in DOMAIN turn.results : turn.results[i].kind = "passed"
      <4> HIDE DEF turn
      <4> QED BY <1>7, <3>1, <3>2, <3>4, PytestExtends
    <3> QED BY <1>5, <1>6, <3>5
  <2> QED BY <1>7, <2>1 DEF Tested
<1>8. CASE n < Len(pending) /\ results' = all /\ UNCHANGED <<h, pending>>
  <2>1. agent' = 1 /\ PytestPassed(h') => FALSE
    <3>1. pending # <<>>
      BY <1>1, EmptySeq
    <3> QED BY <1>1, <1>8, <3>1 DEF Tested
  <2> HIDE DEF all
  <2>2. \A i \in DOMAIN results' : results'[i].kind = "passed" => ws'.chain["tests"] = "good"
    BY <1>5, <1>6, <1>8
  <2> QED BY <2>1, <2>2 DEF Tested
<1> QED BY <1>2, <1>7, <1>8

LEMMA TestedAlways == Spec => []Tested
<1>1. Init => Tested
  BY NoTurns DEF Init, Tested
<1>2. Types /\ Tested /\ [Next]_vars => Tested'
  <2>1. Tested /\ UNCHANGED vars => Tested'
    BY DEF vars, Tested
  <2>2. Tested /\ GatewayReject => Tested'
    BY NoTurns DEF GatewayReject, Tested
  <2> QED BY <2>1, <2>2, GenerateTested, ExecuteTested DEF Next
<1> QED BY <1>1, <1>2, TypesAlways, PTL DEF Spec

\* Whenever an agent is to answer in any task but the research task, the canonical text is
\* that of the gate whose tools and hint the turn has.
THEOREM GatesAlwaysAgree == Spec => []GatesAgree
<1>1. Types /\ Tested => GatesAgree
  <2> SUFFICES ASSUME Types, Tested, task # "research", agent < 3, pending = <<>>
               PROVE  FirstOpen(Priority(task), Open) \in {"none", LadderGate(Open)}
    BY DEF GatesAgree
  <2>1. task \in AllTasks /\ h \in Seq(Turns)
    BY LoopAssumption DEF Types, Transcribed
  <2>2. FormPassed(h) => Issued(h, "verify")
    BY <2>1, FormIssued
  <2>3. task = "normalizer" /\ agent = 1 /\ PytestPassed(h) => Context.onDisk
    BY TestsOf DEF Tested, Context
  <2> QED BY <2>1, <2>2, <2>3, AgreeWhen DEF Open, LadderGate
<1> QED BY <1>1, TypesAlways, TestedAlways, PTL

-----------------------------------------------------------------------------
(* What a verifier is told, and what the verification said.                *)

PassTasks == VerifiedByPytest \cup {"find", "redact", "summarize"}
Passed(t, tr) ==
    CASE t \in VerifiedByPytest -> PytestPassed(tr)
      [] t = "find" -> \E r \in FirstAnswers(tr, "verify") : r.kind = "passed"
      [] t \in {"redact", "summarize"} -> \E r \in AllResults(tr) : r.kind = "passed"

LEMMA PassedIs ==
    /\ \A t \in VerifiedByPytest : \A tr : Passed(t, tr) <=> PytestPassed(tr)
    /\ \A tr : Passed("find", tr) <=> \E r \in FirstAnswers(tr, "verify") : r.kind = "passed"
    /\ \A t \in {"redact", "summarize"} :
          \A tr : Passed(t, tr) <=> \E r \in AllResults(tr) : r.kind = "passed"
BY DEF Passed, VerifiedByPytest

LEMMA PassedExtends ==
    ASSUME NEW t \in PassTasks, NEW s, NEW tr \in Seq(Turns), NEW turn, Turn(s, turn),
           Passed(t, Append(tr, turn))
    PROVE  \/ Passed(t, tr)
           \/ \E i \in DOMAIN turn.results : turn.results[i].kind = "passed"
<1> DEFINE more == Append(tr, turn)
           n == Len(tr)
<1>1. /\ n \in Nat /\ DOMAIN tr = 1 .. n /\ DOMAIN more = 1 .. n + 1
      /\ more[n + 1] = turn /\ \A i \in 1 .. n : more[i] = tr[i]
  BY AppendProperties DEF Turn
<1>2. CASE t \in VerifiedByPytest
  BY <1>2, PytestExtends, PassedIs
<1>3. CASE t = "find"
  <2>1. PICK r \in FirstAnswers(more, "verify") : r.kind = "passed"
    BY <1>3, PassedIs
  <2> HIDE DEF more, n
  <2>2. PICK i \in 1 .. n + 1 :
           /\ \E c \in ToSet(more[i].calls) : IsExec(c) /\ c.on = "verify"
           /\ r = more[i].results[1]
    BY <1>1, <2>1 DEF FirstAnswers
  <2>3. CASE i \in 1 .. n
    <3>1. r \in FirstAnswers(tr, "verify")
      BY <1>1, <2>2, <2>3 DEF FirstAnswers
    <3> QED BY <1>3, <2>1, <3>1, PassedIs
  <2>4. CASE i = n + 1
    <3>1. 1 \in DOMAIN turn.results
      <4>1. turn.results \in Seq(Results) /\ turn.calls \in Seq(Calls)
            /\ Len(turn.results) = Len(turn.calls) /\ turn.calls # <<>>
        BY DEF Turn, Turns
      <4> QED BY <4>1, EmptySeq
    <3> QED BY <1>1, <2>1, <2>2, <2>4, <3>1
  <2> QED BY <1>1, <2>2, <2>3, <2>4
<1>4. CASE t \in {"redact", "summarize"}
  <2>1. PICK r \in AllResults(more) : r.kind = "passed"
    BY <1>4, PassedIs
  <2> HIDE DEF more, n
  <2>2. PICK i \in 1 .. n + 1 : r \in ToSet(more[i].results)
    BY <1>1, <2>1 DEF AllResults
  <2>3. CASE i \in 1 .. n
    <3>1. r \in AllResults(tr)
      BY <1>1, <2>2, <2>3 DEF AllResults
    <3> QED BY <1>4, <2>1, <3>1, PassedIs
  <2>4. CASE i = n + 1
    BY <1>1, <2>1, <2>2, <2>4 DEF ToSet
  <2> QED BY <1>1, <2>2, <2>3, <2>4
<1> QED BY <1>2, <1>3, <1>4 DEF PassTasks

LEMMA NothingPassed == \A t \in PassTasks : ~Passed(t, <<>>)
BY NoTurns, PassedIs DEF PassTasks

\* The gates of a verifier whose tests passed are those of a text.
LEMMA PassEnds ==
    ASSUME task \in AllTasks, task \in PassTasks, agent = 2, Passed(task, h)
    PROVE  LadderGate(Open) \in {"verifier_pass", "verifier_done"}
<1>1. LadderGate(Open) \in Open \cup {"none"}
      /\ (LadderGate(Open) = "none" => ToSet(Ladder(task)) \cap Open = {})
  BY FirstIs, OpenIs DEF LadderGate
<1>2. CASE task \in {"config", "bugfix", "normalizer"}
  <2>1. PytestPassed(h)
    BY <1>2, PassedIs DEF VerifiedByPytest
  <2>2. Open = {"verifier_pass"}
    <3>1. CASE task = "config"
      BY <2>1, <3>1, GatesAre DEF Open, ConfigGates, Flag
    <3>2. CASE task = "bugfix"
      BY <2>1, <3>2, GatesAre DEF Open, BugfixGates, Flag
    <3>3. CASE task = "normalizer"
      BY <2>1, <3>3, GatesAre DEF Open, NormalizerGates, Flag
    <3> QED BY <1>2, <3>1, <3>2, <3>3
  <2>3. "verifier_pass" \in ToSet(Ladder(task))
    <3>1. CASE task = "config"
      <4>1. Ladder("config") = ConfigExplore \o ConfigRepair
        BY DEF Ladder, Generic
      <4>2. 5 \in DOMAIN Ladder("config") /\ Ladder("config")[5] = "verifier_pass"
        BY <4>1 DEF ConfigExplore, ConfigRepair
      <4> QED BY <3>1, <4>2 DEF ToSet
    <3>2. CASE task = "bugfix"
      BY <3>2 DEF Ladder, Generic, BugfixLadder, ToSet
    <3>3. CASE task = "normalizer"
      BY <3>3 DEF Ladder, Generic, NormalizerLadder, ToSet
    <3> QED BY <1>2, <3>1, <3>2, <3>3
  <2> QED BY <1>1, <2>2, <2>3
<1>3. CASE task \in Generic \cup {"find", "redact", "summarize"}
  <2>1. Open = {"verifier_done"}
    <3>1. CASE task = "find"
      <4>1. \E r \in FirstAnswers(h, "verify") : r.kind = "passed"
        BY <3>1, PassedIs
      <4>2. Issued(h, "verify")
        BY <4>1 DEF FirstAnswers, Issued
      <4> QED BY <3>1, <4>1, <4>2, GatesAre DEF Open, FindGates, Flag
    <3>2. CASE task = "redact"
      <4>1. \E r \in AllResults(h) : r.kind = "passed"
        BY <3>2, PassedIs
      <4> QED BY <3>2, <4>1, GatesAre DEF Open, RedactGates, Flag
    <3>3. CASE task = "summarize"
      <4>1. \E r \in AllResults(h) : r.kind = "passed"
        BY <3>3, PassedIs
      <4> QED BY <3>3, <4>1, GatesAre DEF Open, SummarizeGates, Flag
    <3>4. CASE task \in Generic
      <4>1. task \in VerifiedByPytest
        BY <3>4 DEF PassTasks, Generic, VerifiedByPytest
      <4>2. GenericVerified(task, h)
        BY <4>1, PassedIs DEF GenericVerified, VerifiedByPytest
      <4> QED BY <3>4, <4>2, GatesAre DEF Open, GenericGates, Flag
    <3> QED BY <1>3, <3>1, <3>2, <3>3, <3>4
  <2>2. "verifier_done" \in ToSet(Ladder(task))
    <3>1. CASE task = "find"
      BY <3>1 DEF Ladder, Generic, FindLadder, ToSet
    <3>2. CASE task = "redact"
      BY <3>2 DEF Ladder, Generic, RedactLadder, ToSet
    <3>3. CASE task = "summarize"
      BY <3>3 DEF Ladder, Generic, SummarizeLadder, ToSet
    <3>4. CASE task \in Generic
      <4>1. Ladder(task) = <<"analyzer_search", "analyzer_read", "schema_exec">> \o Canonical
        BY <3>4, SameOrder DEF Priority, Generic
      <4>2. 8 \in DOMAIN Ladder(task) /\ Ladder(task)[8] = "verifier_done"
        BY <4>1 DEF Canonical
      <4> QED BY <4>2 DEF ToSet
    <3> QED BY <1>3, <3>1, <3>2, <3>3, <3>4
  <2> QED BY <1>1, <2>1, <2>2
<1> QED BY <1>2, <1>3 DEF PassTasks, VerifiedByPytest, Generic

\* A gate that speaks of a passed verification is open when one passed.
LEMMA OpenPass ==
    ASSUME task \in AllTasks, {"verifier_pass", "verifier_done"} \cap Open # {}
    PROVE  /\ task \in PassTasks => Passed(task, h)
           /\ task = "browser" => FormPassed(h)
<1>1. CASE task = "browser"
  BY <1>1, GatesAre DEF Open, BrowserGates, Flag, PassTasks, VerifiedByPytest
<1>2. CASE task = "config"
  BY <1>2, GatesAre, PassedIs DEF Open, ConfigGates, Flag, VerifiedByPytest
<1>3. CASE task = "bugfix"
  BY <1>3, GatesAre, PassedIs DEF Open, BugfixGates, Flag, VerifiedByPytest
<1>4. CASE task = "normalizer"
  BY <1>4, GatesAre, PassedIs DEF Open, NormalizerGates, Flag, VerifiedByPytest
<1>5. CASE task = "find"
  BY <1>5, GatesAre, PassedIs DEF Open, FindGates, Flag
<1>6. CASE task = "redact"
  BY <1>6, GatesAre, PassedIs DEF Open, RedactGates, Flag
<1>7. CASE task = "summarize"
  BY <1>7, GatesAre, PassedIs DEF Open, SummarizeGates, Flag
<1>8. CASE task \in Generic
  <2>1. GenericVerified(task, h)
    BY <1>8, GatesAre DEF Open, GenericGates, Flag
  <2>2. task \in PassTasks => task \in VerifiedByPytest
    BY <1>8 DEF PassTasks, Generic
  <2> QED BY <1>8, <2>1, <2>2, PassedIs DEF GenericVerified, Generic
<1>9. CASE task \in {"quick", "research"}
  BY <1>9 DEF PassTasks, VerifiedByPytest
<1> QED BY <1>1, <1>2, <1>3, <1>4, <1>5, <1>6, <1>7, <1>8, <1>9, TasksAre DEF TaskNames

LEMMA PassTold ==
    ASSUME task \in AllTasks, mode \in Modes, NEW r \in Replies(LadderGate(Open), FixedGate(Open)),
           r.text = "pass"
    PROVE  {"verifier_pass", "verifier_done"} \cap Open # {}
<1> DEFINE gate == LadderGate(Open)
           fixed == FixedGate(Open)
<1>1. gate \in Open \cup {"none"} /\ fixed \in Open \cup {"none"}
  BY OpenIs
<1>2. \A g : Fixed(g) = "pass" \/ Told(task, g) = "pass" => g \in {"verifier_pass", "verifier_done"}
  BY DEF Fixed, Told
<1> HIDE DEF gate, fixed
<1>3. \A x \in ModelReplies(gate) : x.text \in {Told(task, gate), "free"}
  BY DEF ModelReplies, Reply
<1>4. r.text \in {Told(task, gate), Fixed(fixed), "free"}
  <2>1. r \in Replies(gate, fixed)
    BY DEF gate, fixed
  <2>2. CASE fixed = "none"
    BY <1>3, <2>1, <2>2 DEF Replies
  <2>3. CASE fixed # "none" /\ mode = "forced"
    BY <2>1, <2>3 DEF Replies, Reply
  <2>4. CASE fixed # "none" /\ mode = "short"
    BY <2>1, <2>4 DEF Replies, Reply
  <2>5. mode = "off" => fixed = "none"
    BY DEF fixed, FixedGate
  <2> QED BY <2>2, <2>3, <2>4, <2>5, LoopAssumption
<1> QED BY <1>1, <1>2, <1>4

-----------------------------------------------------------------------------

\* What the transcript of a verifier says is what the verification said last, and once
\* it passed the verifier has no more to do.
Verified ==
    /\ \A i \in DOMAIN results : Checks(pending[i]) => lastVerify = results[i].kind
    /\ agent = 2 /\ task \in PassTasks /\ Passed(task, h)
          => lastVerify = "passed" /\ pending = <<>>

\* The form is verified by canonical replies: one verification, and a text.
VerifyForm == <<Call("exec", "verify")>>
FormVerified ==
    agent = 2 /\ task = "browser" /\ mode # "off" =>
       /\ pending # <<>> => h = <<>> /\ pending = VerifyForm
       /\ h # <<>> => /\ Len(h) = 1 /\ h[1].calls = VerifyForm
                      /\ h[1].results[1].kind = lastVerify

LEMMA GenerateVerified == Types /\ Verified /\ Generate => Verified' /\ (PassIsTrue /\ FormVerified => PassIsTrue')
<1> SUFFICES ASSUME Types, Verified, Generate
             PROVE  Verified' /\ (PassIsTrue /\ FormVerified => PassIsTrue')
  OBVIOUS
<1>1. PICK r \in Replies(LadderGate(Open), FixedGate(Open)) :
         LET calls == Bridged(LadderGate(Open), r.calls)
         IN  /\ pending' = calls
             /\ IF calls # <<>> THEN UNCHANGED <<agent, h, said, lastVerify>>
                ELSE /\ said' = [said EXCEPT ![agent] = r.text]
                     /\ agent' = agent + 1 /\ h' = <<>>
                     /\ lastVerify' = IF agent = 2 THEN lastVerify ELSE "none"
  BY DEF Generate
<1>2. /\ task' = task /\ mode' = mode /\ pending = <<>> /\ results = <<>> /\ results' = results
      /\ agent \in 0 .. 2 /\ task \in AllTasks /\ mode \in Modes
  BY LoopAssumption DEF Generate, Types, Running
<1> DEFINE calls == Bridged(LadderGate(Open), r.calls)
<1>3. agent = 2 /\ task \in PassTasks /\ Passed(task, h) => calls = <<>>
  <2> SUFFICES ASSUME agent = 2, task \in PassTasks, Passed(task, h) PROVE calls = <<>>
    OBVIOUS
  <2>1. LadderGate(Open) \in {"verifier_pass", "verifier_done"}
    BY <1>2, PassEnds
  <2> DEFINE gate == LadderGate(Open)
  <2>2. calls = Bridged(gate, r.calls) /\ gate \in {"verifier_pass", "verifier_done"}
    BY <2>1
  <2> HIDE DEF gate, calls
  <2>3. CASE gate = "verifier_pass"
    BY <2>2, <2>3 DEF Bridged, TextOnly, Editing
  <2>4. CASE gate = "verifier_done"
    BY <2>2, <2>4 DEF Bridged, TextOnly, Editing
  <2> QED BY <2>2, <2>3, <2>4
<1> HIDE DEF calls
<1>4. CASE calls # <<>>
  <2>1. pending' = calls /\ UNCHANGED <<agent, h, said, lastVerify>>
    BY <1>1, <1>4 DEF calls
  <2>2. Verified'
    BY <1>2, <1>3, <1>4, <2>1 DEF Verified
  <2> QED BY <1>2, <2>1, <2>2 DEF PassIsTrue
<1>5. CASE calls = <<>>
  <2>1. /\ pending' = <<>> /\ said' = [said EXCEPT ![agent] = r.text]
        /\ agent' = agent + 1 /\ h' = <<>>
        /\ lastVerify' = IF agent = 2 THEN lastVerify ELSE "none"
    BY <1>1, <1>5 DEF calls
  <2>2. Verified'
    <3>1. DOMAIN results' = {}
      BY <1>2
    <3>2. ~(task' \in PassTasks /\ Passed(task', h'))
      BY <2>1, NothingPassed
    <3> QED BY <3>1, <3>2 DEF Verified
  <2>3. ASSUME PassIsTrue, FormVerified, said'[2] = "pass",
               \/ task \in PassTasks
               \/ task = "browser" /\ mode # "off"
        PROVE  lastVerify' = "passed"
    <3>1. agent = 2 /\ r.text = "pass"
      <4>1. said \in [0 .. 2 -> Texts] /\ \A a \in 0 .. 2 : a >= agent => said[a] = "none"
        BY DEF Types, Spoken
      <4>2. agent # 2 => said'[2] = "none"
        BY <1>2, <2>1, <4>1
      <4> QED BY <2>1, <2>3, <4>1, <4>2
    <3>2. {"verifier_pass", "verifier_done"} \cap Open # {}
      BY <1>2, <3>1, PassTold
    <3>3. CASE task \in PassTasks
      BY <1>2, <2>1, <3>1, <3>2, <3>3, OpenPass DEF Verified
    <3>4. CASE task = "browser" /\ mode # "off"
      <4>1. FormPassed(h)
        BY <1>2, <3>2, <3>4, OpenPass
      <4>2. h \in Seq(Turns)
        BY DEF Types, Transcribed
      <4>3. h # <<>>
        BY <4>1, <4>2, FormIssued, NoTurns
      <4>4. Len(h) = 1 /\ h[1].calls = VerifyForm /\ h[1].results[1].kind = lastVerify
        BY <2>3, <3>1, <3>4, <4>3 DEF FormVerified
      <4> DEFINE runs == FormRuns(h)
      <4>5. DOMAIN runs = 1 .. 1
        BY <4>2, <4>4 DEF FormRuns
      <4>6. 1 \in Nat /\ LastTurn(runs) # 0
        BY <4>1 DEF FormPassed
      <4>7. LastTurn(runs) = 1 /\ runs[1] # {}
        <5> HIDE DEF runs
        <5>1. \/ LastTurn(runs) = 0
              \/ LastTurn(runs) \in 1 .. 1 /\ runs[LastTurn(runs)] # {}
          BY <4>5, <4>6, LastTurnIs
        <5> QED BY <4>6, <5>1
      <4>8. runs[1] = Kept(h[1], FormScan)
        BY <4>5 DEF FormRuns
      <4>9. Turn(task, h[1])
        BY <4>2, <4>4 DEF Types, Transcribed
      <4>10. PICK k \in Kept(h[1], FormScan) : TRUE
        BY <4>7, <4>8
      <4>11. \A j \in Kept(h[1], FormScan) : IsExec(h[1].calls[j])
        BY DEF Kept, Touches, FormScan, On, IsExec
      <4>12. Kept(h[1], FormScan) = {k} /\ Paired(h[1], FormScan, k) = h[1].results[1]
             /\ 1 \in DOMAIN h[1].results
        BY <4>9, <4>11, PairedCommand
      <4>13. k \in Nat
        BY <4>9 DEF Kept, Turn, Turns
      <4>14. LastResult(h, FormScan, runs) = h[1].results[1]
        BY <4>7, <4>8, <4>12, <4>13, SetOfOne DEF LastResult
      <4>15. lastVerify \notin {"error", "failed", "broken"}
        BY <4>1, <4>4, <4>14 DEF FormPassed
      <4>16. h[1].results[1].kind \in Verdicts
        <5>1. Checks(h[1].calls[1])
          BY <4>4 DEF VerifyForm, Call, Checks, IsExec
        <5> QED BY <4>9, <4>12, <5>1 DEF Turn, Judged
      <4> QED BY <2>1, <3>1, <4>4, <4>15, <4>16 DEF Verdicts
    <3> QED BY <2>3, <3>3, <3>4
  <2> QED BY <1>2, <2>2, <2>3 DEF PassIsTrue, PassTasks
<1> QED BY <1>4, <1>5

LEMMA GenerateForm == Types /\ FormVerified /\ Generate => FormVerified'
<1> SUFFICES ASSUME Types, FormVerified, Generate, agent' = 2, task = "browser", mode # "off"
             PROVE  /\ pending' # <<>> => h' = <<>> /\ pending' = VerifyForm
                    /\ h' # <<>> => /\ Len(h') = 1 /\ h'[1].calls = VerifyForm
                                    /\ h'[1].results[1].kind = lastVerify'
  BY DEF FormVerified, Generate
<1>1. PICK r \in Replies(LadderGate(Open), FixedGate(Open)) :
         LET calls == Bridged(LadderGate(Open), r.calls)
         IN  /\ pending' = calls
             /\ IF calls # <<>> THEN UNCHANGED <<agent, h, lastVerify>>
                ELSE h' = <<>>
  BY DEF Generate
<1> DEFINE calls == Bridged(LadderGate(Open), r.calls)
<1>2. task \in AllTasks /\ mode \in {"forced", "short"}
  BY LoopAssumption DEF Types
<1>3. CASE calls = <<>>
  BY <1>1, <1>3
<1>4. CASE calls # <<>>
  <2>1. agent = 2 /\ UNCHANGED <<h, lastVerify>> /\ pending' = calls
    BY <1>1, <1>4
  <2>2. Open = BrowserGates(2, h, Context)
    BY <2>1, GatesAre DEF Open
  <2>3. /\ Open \in SUBSET {"verifier_pass", "verifier_fail", "verifier_exec"} /\ Open # {}
        /\ "verifier_exec" \in Open => ~Issued(h, "verify")
    BY <2>2 DEF BrowserGates, Flag
  <2> DEFINE fixed == FixedGate(Open)
  <2>4. fixed \in Open
    <3>1. Priority(task) = <<"analyzer_done", "patcher_edit", "patcher_done", "verifier_exec",
                             "verifier_pass", "verifier_fail">>
      BY DEF Priority, Generic
    <3>2. Open \subseteq ToSet(Priority(task))
      BY <2>3, <3>1 DEF ToSet
    <3>3. fixed = FirstOpen(Priority(task), Open)
      BY DEF FixedGate
    <3>4. "none" \notin Open
      BY <2>3
    <3>5. /\ FirstOpen(Priority(task), Open) \in Open \cup {"none"}
          /\ FirstOpen(Priority(task), Open) = "none" /\ "none" \notin Open
                => ToSet(Priority(task)) \cap Open = {}
      BY <1>2, FirstIs
    <3>6. ToSet(Priority(task)) \cap Open # {}
      BY <2>3, <3>2
    <3> HIDE DEF fixed
    <3> QED BY <3>3, <3>4, <3>5, <3>6
  <2> HIDE DEF fixed
  <2>5. r.calls # <<>> /\ calls = r.calls
    BY <1>4 DEF Bridged
  <2>6. r \in Replies(LadderGate(Open), fixed) /\ fixed # "none"
    BY <2>3, <2>4 DEF fixed
  <2>7. r.calls = Asked(task, fixed, h)
    <3>1. CASE mode = "forced"
      BY <2>6, <3>1 DEF Replies, Reply
    <3>2. CASE mode = "short"
      BY <2>5, <2>6, <3>2 DEF Replies, Reply
    <3> QED BY <1>2, <3>1, <3>2
  <2>8. fixed = "verifier_exec"
    <3>1. fixed \in {"verifier_pass", "verifier_fail"} => Asked(task, fixed, h) = <<>>
      BY DEF Asked, TextOnly, Editing, Writing
    <3> QED BY <2>3, <2>4, <2>5, <2>7, <3>1
  <2>9. calls = VerifyForm
    BY <2>5, <2>7, <2>8 DEF Asked, TextOnly, Editing, Writing, VerifyForm
  <2>10. h = <<>>
    <3> SUFFICES ASSUME h # <<>> PROVE FALSE
      OBVIOUS
    <3>1. Len(h) = 1 /\ h[1].calls = VerifyForm
      BY <2>1 DEF FormVerified
    <3>2. h \in Seq(Turns) /\ 1 \in DOMAIN h
      BY <3>1 DEF Types, Transcribed
    <3>3. Call("exec", "verify") \in ToSet(h[1].calls)
      BY <3>1 DEF VerifyForm, ToSet
    <3>4. Issued(h, "verify")
      BY <3>2, <3>3 DEF Issued, IsExec, Call
    <3> QED BY <2>3, <2>4, <2>8, <3>4
  <2> QED BY <2>1, <2>9, <2>10
<1> QED BY <1>3, <1>4

LEMMA ExecuteVerified == Types /\ Verified /\ Execute => Verified' /\ (FormVerified => FormVerified')
<1> SUFFICES ASSUME Types, Verified, Execute PROVE Verified' /\ (FormVerified => FormVerified')
  OBVIOUS
<1>1. /\ pending \in Seq(Calls) /\ Message(task, pending) /\ Judged(pending, results)
      /\ results \in Seq(Results) /\ Len(results) < Len(pending)
      /\ UNCHANGED <<task, mode, agent>>
  BY ExecuteIs
<1>2. PICK fails \in BOOLEAN :
        LET n   == Len(results) + 1
            c   == pending[n]
            end == Do(c, fails)
            all == Append(results, end.result)
        IN  /\ n \in DOMAIN pending /\ Proper(task, c)
            /\ lastVerify' = IF Checks(c) THEN end.result.kind ELSE lastVerify
            /\ all \in Seq(Results) /\ Len(all) = n
            /\ \A i \in 1 .. n : all[i] = IF i = n THEN end.result ELSE results[i]
            /\ Judged(pending, all)
            /\ \/ /\ n = Len(pending) /\ pending' = <<>> /\ results' = <<>>
                  /\ h' = Append(h, [calls |-> pending, results |-> all])
               \/ /\ n < Len(pending) /\ results' = all
                  /\ UNCHANGED <<h, pending>>
  BY ExecuteIs
<1> DEFINE n   == Len(results) + 1
           c   == pending[n]
           end == Do(c, fails)
           all == Append(results, end.result)
           turn == [calls |-> pending, results |-> all]
<1>3. Transcribed /\ Len(results) \in Nat /\ n \in DOMAIN pending
  BY <1>1, <1>2 DEF Types
<1>4. /\ lastVerify' = IF Checks(c) THEN end.result.kind ELSE lastVerify
      /\ all \in Seq(Results) /\ Len(all) = n
      /\ \A i \in 1 .. n : all[i] = IF i = n THEN end.result ELSE results[i]
      /\ Judged(pending, all)
      /\ \/ /\ n = Len(pending) /\ pending' = <<>> /\ results' = <<>>
            /\ h' = Append(h, turn)
         \/ /\ n < Len(pending) /\ results' = all
            /\ UNCHANGED <<h, pending>>
  BY <1>2
<1>5. pending # <<>>
  BY <1>1, EmptySeq
<1>6. \A i \in 1 .. n : Checks(pending[i]) => lastVerify' = all[i].kind
  <2> SUFFICES ASSUME NEW i \in 1 .. n, Checks(pending[i]) PROVE lastVerify' = all[i].kind
    OBVIOUS
  <2> HIDE DEF all, end
  <2>1. CASE i = n
    BY <1>4, <2>1
  <2>2. CASE i # n
    <3>1. i \in DOMAIN results /\ i \in DOMAIN pending
      BY <1>1, <1>3, <2>2
    <3>2. ~Checks(c)
      BY <1>1, <1>3, <2>2, <3>1 DEF Message, Alone, Checks, IsExec
    <3> QED BY <1>4, <2>2, <3>1, <3>2 DEF Verified
  <2> QED BY <2>1, <2>2
<1>7. ~(agent = 2 /\ task \in PassTasks /\ Passed(task, h))
  BY <1>5 DEF Verified
<1> HIDE DEF all, end
<1>8. Turn(task, turn) <=> n = Len(pending)
  <2>1. turn \in Turns /\ turn.calls = pending /\ turn.results = all
    BY <1>1, <1>4 DEF Turns
  <2> HIDE DEF turn
  <2> QED BY <1>1, <1>4, <1>5, <2>1 DEF Turn
<1>9. CASE n = Len(pending) /\ pending' = <<>> /\ results' = <<>> /\ h' = Append(h, turn)
  <2>1. ASSUME agent = 2, task \in PassTasks, Passed(task, h') PROVE lastVerify' = "passed"
    <3>1. h \in Seq(Turns) /\ Turn(task, turn)
      BY <1>3, <1>8, <1>9 DEF Transcribed
    <3>2. PICK i \in DOMAIN turn.results : turn.results[i].kind = "passed"
      <4> HIDE DEF turn
      <4> QED BY <1>7, <1>9, <2>1, <3>1, PassedExtends
    <3>3. i \in 1 .. n /\ Checks(pending[i])
      BY <1>4, <3>2 DEF Judged, Verdicts
    <3> QED BY <1>6, <3>2, <3>3
  <2>2. Verified'
    <3>1. DOMAIN results' = {}
      BY <1>9
    <3> QED BY <1>1, <1>9, <2>1, <3>1 DEF Verified
  <2>3. ASSUME FormVerified, agent = 2, task = "browser", mode # "off"
        PROVE  /\ h' # <<>> => /\ Len(h') = 1 /\ h'[1].calls = VerifyForm
                               /\ h'[1].results[1].kind = lastVerify'
    <3>1. h = <<>> /\ pending = VerifyForm
      BY <1>5, <2>3 DEF FormVerified
    <3>2. Len(pending) = 1 /\ pending[1] = Call("exec", "verify")
      BY <3>1 DEF VerifyForm
    <3>3. n = 1 /\ Checks(pending[1])
      BY <1>9, <3>2 DEF Checks, IsExec, Call
    <3>4. all[1].kind = lastVerify'
      BY <1>6, <3>3
    <3>5. h' = <<turn>>
      <4> HIDE DEF turn
      <4> QED BY <1>9, <3>1
    <3> QED BY <3>1, <3>4, <3>5
  <2>4. FormVerified => FormVerified'
    BY <1>1, <1>9, <2>3 DEF FormVerified
  <2> QED BY <2>2, <2>4
<1>10. CASE n < Len(pending) /\ results' = all /\ UNCHANGED <<h, pending>>
  <2>1. Verified'
    <3>1. DOMAIN all = 1 .. n
      BY <1>3, <1>4
    <3>2. \A i \in DOMAIN all : Checks(pending[i]) => lastVerify' = all[i].kind
      BY <1>6, <3>1
    <3>3. DOMAIN results' = DOMAIN all /\ pending' = pending /\ results' = all /\ h' = h
      BY <1>10
    <3>4. \A i \in DOMAIN results' : Checks(pending'[i]) => lastVerify' = results'[i].kind
      BY <3>2, <3>3
    <3>5. ~(agent' = 2 /\ task' \in PassTasks /\ Passed(task', h'))
      BY <1>1, <1>7, <3>3
    <3> QED BY <3>4, <3>5 DEF Verified
  <2>2. FormVerified => FormVerified'
    <3>1. FormVerified /\ agent = 2 /\ task = "browser" /\ mode # "off" => Len(pending) = 1
      BY <1>5 DEF FormVerified, VerifyForm
    <3>2. n >= 1
      BY <1>3
    <3> QED BY <1>1, <1>3, <1>10, <3>1, <3>2 DEF FormVerified
  <2> QED BY <2>1, <2>2
<1> QED BY <1>4, <1>9, <1>10

LEMMA VerifiedAlways == Spec => [](Verified /\ FormVerified)
<1> DEFINE Inv == Verified /\ FormVerified
<1>1. Init => Inv
  BY DEF Init, Verified, FormVerified
<1>2. Types /\ Inv /\ [Next]_vars => Inv'
  <2>1. Inv /\ UNCHANGED vars => Inv'
    BY DEF vars, Verified, FormVerified
  <2>2. Inv /\ GatewayReject => Inv'
    BY DEF GatewayReject, Verified, FormVerified
  <2> HIDE DEF Inv
  <2>3. Types /\ Inv /\ Generate => Inv'
    BY GenerateVerified, GenerateForm DEF Inv
  <2>4. Types /\ Inv /\ Execute => Inv'
    BY ExecuteVerified DEF Inv
  <2> QED BY <2>1, <2>2, <2>3, <2>4 DEF Next
<1> QED BY <1>1, <1>2, TypesAlways, PTL DEF Spec

\* A verifier that ends with PASS last saw the verification pass.
THEOREM PassIsAlwaysTrue == Spec => []PassIsTrue
<1>1. Init => PassIsTrue
  BY DEF Init, PassIsTrue
<1>2. Types /\ Verified /\ FormVerified /\ PassIsTrue /\ [Next]_vars => PassIsTrue'
  <2> SUFFICES ASSUME Types, Verified, FormVerified, PassIsTrue, [Next]_vars PROVE PassIsTrue'
    OBVIOUS
  <2>1. CASE Generate
    BY <2>1, GenerateVerified
  <2>2. CASE Execute
    <3>1. said[2] = "none"
      BY <2>2, ExecuteIs DEF Types, Spoken
    <3>2. said'[2] # "pass"
      BY <2>2, <3>1 DEF Execute
    <3> QED BY <3>2 DEF PassIsTrue
  <2>3. CASE GatewayReject \/ UNCHANGED vars
    BY <2>3 DEF GatewayReject, vars, PassIsTrue
  <2> QED BY <2>1, <2>2, <2>3 DEF Next
<1> QED BY <1>1, <1>2, TypesAlways, VerifiedAlways, PTL DEF Spec

-----------------------------------------------------------------------------
(* What the forced analysis rests on.                                      *)

\* The tasks whose forced analysis speaks of files that agent 0 is sent to read.
Canon == mode = "forced" /\ "analyzer_read" \in ToSet(Priority(task)) /\ Sources[task] # <<>>

\* A read of these results that did not fail was really seen.
Shown(calls, res) ==
    \A i \in DOMAIN res : calls[i].tool = "read" /\ ~LooksFailed(res[i]) => calls[i].on \in seen

\* Under canonical replies a message of agent 0 holds reads alone or none, so that the
\* results are paired with the calls they answer.
Grounded ==
    agent = 0 /\ Canon =>
       /\ Uniform(pending) /\ Shown(pending, results)
       /\ \A i \in DOMAIN h : Uniform(h[i].calls) /\ Shown(h[i].calls, h[i].results)

LEMMA CanonIs ==
    ASSUME task \in AllTasks, "analyzer_read" \in ToSet(Priority(task))
    PROVE  task \in Generic \cup {"find"}
<1> SUFFICES ASSUME task \notin Generic, task # "find" PROVE FALSE
  OBVIOUS
<1>1. task \in {"browser", "research", "config", "bugfix", "summarize", "redact", "normalizer", "quick"}
  BY TasksAre DEF TaskNames
<1>2. PICK i \in DOMAIN Priority(task) : Priority(task)[i] = "analyzer_read"
  BY DEF ToSet
<1> QED BY <1>1, <1>2 DEF Priority, Canonical, Generic

\* In a message of reads alone, each read is paired with its own result.
LEMMA PairedRead ==
    ASSUME NEW t, NEW turn, Turn(t, turn), Uniform(turn.calls), NEW k \in Kept(turn, Reads)
    PROVE  /\ k \in DOMAIN turn.results /\ Paired(turn, Reads, k) = turn.results[k]
           /\ turn.calls[k].tool = "read"
<1> DEFINE n == Len(turn.calls)
<1>1. /\ n \in Nat /\ DOMAIN turn.calls = 1 .. n /\ DOMAIN turn.results = 1 .. n
      /\ \A i \in DOMAIN turn.calls : turn.calls[i] \in Calls
  BY DEF Turn, Turns
<1>2. k \in 1 .. n /\ turn.calls[k].tool = "read"
  BY <1>1 DEF Kept, Touches, Reads, On
<1>3. \A i \in 1 .. n : turn.calls[i].tool = "read"
  BY <1>1, <1>2 DEF Uniform
<1>4. Kept(turn, Reads) = 1 .. n
  BY <1>1, <1>3 DEF Kept, Touches, Reads, On
<1> HIDE DEF n
<1>5. {j \in Kept(turn, Reads) : j <= k} = 1 .. k
  BY <1>1, <1>2, <1>4
<1>6. Cardinality(1 .. k) = k
  <2>1. 1 \in Int /\ k \in Int /\ ~(1 > k) /\ k - 1 + 1 = k
    BY <1>1, <1>2
  <2>2. Cardinality(1 .. k) = IF 1 > k THEN 0 ELSE k - 1 + 1
    BY <2>1, FS_Interval
  <2> QED BY <2>1, <2>2
<1> QED BY <1>1, <1>2, <1>5, <1>6 DEF Paired

\* When nothing is missing from the transcript, every source was seen.
LEMMA SourcesSeen ==
    ASSUME Types, Grounded, agent = 0, Canon, Missing(task, h) = {}
    PROVE  ToSet(Sources[task]) \subseteq seen
<1> SUFFICES ASSUME NEW s \in DOMAIN Sources[task] PROVE Sources[task][s] \in seen
  BY DEF ToSet
<1> DEFINE f == Sources[task][s]
<1>1. task \in AllTasks /\ h \in Seq(Turns) /\ \A i \in DOMAIN h : Turn(task, h[i])
  BY LoopAssumption DEF Types, Transcribed
<1>2. f # "thread"
  <2>1. task # "summarize"
    BY <1>1, CanonIs DEF Canon, Generic
  <2> QED BY <1>1, <2>1, SourcesAre
<1>3. f \in CompletedReads(h)
  BY DEF Missing
<1>4. PICK p \in Answers(h, Reads) : ~LooksFailed(p.result) /\ Path(p.call) = f
  BY <1>3 DEF CompletedReads
<1>5. PICK i \in DOMAIN h : p \in Answered(h[i], Reads)
  BY <1>4 DEF Answers
<1>6. PICK k \in Kept(h[i], Reads) :
         p = [call |-> h[i].calls[k], result |-> Paired(h[i], Reads, k)]
  BY <1>5 DEF Answered
<1>7. Uniform(h[i].calls) /\ Shown(h[i].calls, h[i].results)
  BY <1>5 DEF Grounded
<1>8. /\ k \in DOMAIN h[i].results /\ Paired(h[i], Reads, k) = h[i].results[k]
      /\ h[i].calls[k].tool = "read"
  BY <1>1, <1>5, <1>7, PairedRead
<1>9. p.call = h[i].calls[k] /\ p.result = h[i].results[k]
  BY <1>6, <1>8
<1>10. h[i].calls[k].on \in seen
  BY <1>4, <1>7, <1>8, <1>9 DEF Shown
<1>11. h[i].calls[k].on = f
  BY <1>2, <1>4, <1>9 DEF Path
<1> QED BY <1>10, <1>11

\* One gate of agent 0 is acted on, and the one of the analysis is open when nothing is
\* missing.
LEMMA CanonGate ==
    ASSUME task \in AllTasks, agent = 0, Canon
    PROVE  /\ LadderGate(Open) = FixedGate(Open)
           /\ FixedGate(Open) \in {"schema_exec", "analyzer_search", "analyzer_read", "extractor_done"}
           /\ FixedGate(Open) = "extractor_done" => Missing(task, h) = {}
<1> DEFINE g == FixedGate(Open)
           four == {"schema_exec", "analyzer_search", "analyzer_read", "extractor_done"}
<1>1. task \in Generic \cup {"find"}
  BY CanonIs DEF Canon
<1>2. FixedGate(Open) = FirstOpen(Priority(task), Open) /\ LadderGate(Open) = g
  BY <1>1, SameOrder DEF Canon, FixedGate, LadderGate
<1>3. /\ Open \subseteq four /\ Open # {}
      /\ "extractor_done" \in Open => Missing(task, h) = {}
      /\ "schema_exec" \in Open => task # "find"
  <2>1. CASE task = "find"
    <3>1. Open = FindGates(0, h, Context)
      BY <2>1, GatesAre DEF Open
    <3> QED BY <2>1, <3>1 DEF FindGates, Flag
  <2>2. CASE task \in Generic
    <3>1. Open = GenericGates(task, 0, h, Context)
      BY <2>2, GatesAre DEF Open
    <3>2. Open \subseteq four
      BY <3>1 DEF GenericGates, Flag
    <3>3. task # "sql" /\ Sources[task] # <<>>
      BY DEF Canon, Sources
    <3>4. CASE task = "cross"
      <4>1. Explored(task, h) <=> Issued(h, "search") /\ Missing(task, h) = {}
        BY <3>4 DEF Explored
      <4> QED BY <3>1, <3>2, <3>3, <3>4, <4>1 DEF GenericGates, Flag
    <3>5. CASE task # "cross"
      <4>1. Explored(task, h) <=> Missing(task, h) = {}
        BY <3>3, <3>5 DEF Explored
      <4> QED BY <3>1, <3>2, <3>3, <3>5, <4>1 DEF GenericGates, Flag
    <3> QED BY <2>2, <3>4, <3>5 DEF Generic
  <2> QED BY <1>1, <2>1, <2>2
<1>4. g \in Open
  <2>1. /\ FirstOpen(Priority(task), Open) \in Open \cup {"none"}
        /\ FirstOpen(Priority(task), Open) = "none" /\ "none" \notin Open
              => ToSet(Priority(task)) \cap Open = {}
    BY FirstIs
  <2>2. Open \subseteq ToSet(Priority(task))
    <3>1. CASE task = "find"
      <4>1. {"analyzer_search", "analyzer_read", "extractor_done"} \subseteq ToSet(Priority("find"))
        BY DEF Priority, Generic, ToSet
      <4> QED BY <1>3, <3>1, <4>1
    <3>2. CASE task \in Generic
      <4>1. Priority(task) = <<"analyzer_search", "analyzer_read", "schema_exec">> \o Canonical
        BY <3>2 DEF Priority, Generic
      <4>2. /\ {1, 2, 3, 4} \subseteq DOMAIN Priority(task)
            /\ Priority(task)[1] = "analyzer_search" /\ Priority(task)[2] = "analyzer_read"
            /\ Priority(task)[3] = "schema_exec" /\ Priority(task)[4] = "extractor_done"
        BY <4>1 DEF Canonical
      <4>3. four \subseteq ToSet(Priority(task))
        BY <4>2 DEF ToSet
      <4> QED BY <1>3, <4>3
    <3> QED BY <1>1, <3>1, <3>2
  <2>3. ToSet(Priority(task)) \cap Open # {} /\ "none" \notin Open
    BY <1>3, <2>2
  <2> HIDE DEF g
  <2> QED BY <1>2, <2>1, <2>3 DEF g
<1> QED BY <1>2, <1>3, <1>4

LEMMA GenerateGrounded ==
    Types /\ Grounded /\ AnalysisGrounded /\ Generate => Grounded' /\ AnalysisGrounded'
<1> SUFFICES ASSUME Types, Grounded, AnalysisGrounded, Generate
             PROVE  Grounded' /\ AnalysisGrounded'
  OBVIOUS
<1> DEFINE gate == LadderGate(Open)
           fixed == FixedGate(Open)
<1>1. PICK r \in Replies(gate, fixed) :
         LET calls == Bridged(gate, r.calls)
         IN  /\ pending' = calls
             /\ IF calls # <<>> THEN UNCHANGED <<agent, h, said>>
                ELSE /\ said' = [said EXCEPT ![agent] = r.text]
                     /\ agent' = agent + 1 /\ h' = <<>>
  BY DEF Generate
<1>2. /\ task' = task /\ mode' = mode /\ seen' = seen /\ pending = <<>> /\ results = <<>>
      /\ results' = results /\ agent \in 0 .. 2 /\ task \in AllTasks /\ Spoken
  BY LoopAssumption DEF Generate, Types, Running
<1>3. Canon' = Canon
  BY <1>2 DEF Canon
<1> DEFINE calls == Bridged(gate, r.calls)
<1>4. ASSUME agent = 0, Canon
      PROVE  /\ Uniform(calls)
             /\ r.text = "analysis" => ToSet(Sources[task]) \subseteq seen
  <2>1. /\ gate = fixed
        /\ fixed \in {"schema_exec", "analyzer_search", "analyzer_read", "extractor_done"}
        /\ fixed = "extractor_done" => Missing(task, h) = {}
    BY <1>2, <1>4, CanonGate
  <2>2. task \in Generic \cup {"find"}
    BY <1>2, <1>4, CanonIs DEF Canon
  <2> HIDE DEF gate, fixed
  <2>3. r = Reply(Asked(task, fixed, h), Fixed(fixed), 0)
    BY <1>1, <1>4, <2>1 DEF Replies, Canon
  <2>4. r.calls = Asked(task, fixed, h) /\ r.text = Fixed(fixed)
    BY <2>3 DEF Reply
  <2>5. calls \in {<<>>, r.calls}
    BY <2>1, <2>2 DEF Bridged, Generic
  <2>6. Uniform(calls)
    <3>1. fixed \in GateNames
      BY <2>1 DEF GateNames, TextOnly
    <3>2. task # "config"
      BY <2>2 DEF Generic
    <3>3. Uniform(Asked(task, fixed, h))
      BY <1>2, <3>1, <3>2, AskedIs
    <3> HIDE DEF calls
    <3> QED BY <2>4, <2>5, <3>3, NoCall
  <2>7. r.text = "analysis" => fixed = "extractor_done"
    BY <2>1, <2>4 DEF Fixed
  <2> QED BY <1>4, <2>1, <2>6, <2>7, SourcesSeen
<1> HIDE DEF calls, gate, fixed
<1>5. CASE calls # <<>>
  <2>1. pending' = calls /\ UNCHANGED <<agent, h, said>>
    BY <1>1, <1>5 DEF calls
  <2>2. DOMAIN results' = {}
    BY <1>2
  <2>3. Grounded'
    <3> SUFFICES ASSUME agent' = 0, Canon'
                 PROVE  /\ Uniform(pending') /\ Shown(pending, results)'
                        /\ \A i \in DOMAIN h' : Uniform(h'[i].calls) /\ Shown(h[i].calls, h[i].results)'
      BY DEF Grounded
    <3>1. agent = 0 /\ Canon /\ h' = h
      BY <1>3, <2>1
    <3>2. Uniform(pending')
      BY <1>4, <2>1, <3>1
    <3>3. \A i \in DOMAIN h : Uniform(h[i].calls) /\ Shown(h[i].calls, h[i].results)
      BY <3>1 DEF Grounded
    <3> QED BY <1>2, <2>2, <3>1, <3>2, <3>3 DEF Shown
  <2> QED BY <1>2, <2>1, <2>3 DEF AnalysisGrounded
<1>6. CASE calls = <<>>
  <2>1. said' = [said EXCEPT ![agent] = r.text] /\ agent' = agent + 1
    BY <1>1, <1>6 DEF calls
  <2>2. Grounded'
    BY <1>2, <2>1 DEF Grounded
  <2>3. ASSUME said'[0] = "analysis", mode = "forced", "analyzer_read" \in ToSet(Priority(task))
        PROVE  ToSet(Sources[task]) \subseteq seen
    <3>1. said \in [0 .. 2 -> Texts]
      BY <1>2 DEF Spoken
    <3>2. CASE agent # 0
      <4>1. said[0] = "analysis"
        BY <1>2, <2>1, <2>3, <3>1, <3>2
      <4> QED BY <2>3, <4>1 DEF AnalysisGrounded
    <3>3. CASE agent = 0 /\ Sources[task] = <<>>
      BY <3>3 DEF ToSet
    <3>4. CASE agent = 0 /\ Sources[task] # <<>>
      <4>1. r.text = "analysis"
        BY <2>1, <2>3, <3>1, <3>4
      <4> QED BY <1>4, <2>3, <3>4, <4>1 DEF Canon
    <3> QED BY <3>2, <3>3, <3>4
  <2> QED BY <1>2, <2>2, <2>3 DEF AnalysisGrounded
<1> QED BY <1>5, <1>6

LEMMA ExecuteGrounded ==
    Types /\ Grounded /\ AnalysisGrounded /\ Execute => Grounded' /\ AnalysisGrounded'
<1> SUFFICES ASSUME Types, Grounded, AnalysisGrounded, Execute
             PROVE  Grounded' /\ AnalysisGrounded'
  OBVIOUS
<1>1. /\ results \in Seq(Results) /\ UNCHANGED <<task, mode, agent, said>>
  BY ExecuteIs
<1>2. PICK fails \in BOOLEAN :
        LET n   == Len(results) + 1
            c   == pending[n]
            end == Do(c, fails)
            all == Append(results, end.result)
        IN  /\ n \in DOMAIN pending /\ Proper(task, c)
            /\ seen' = seen \cup {f \in {c.on} : agent = 0 /\ end.result.kind = "text"
                                                   /\ c.tool = "read"}
            /\ all \in Seq(Results) /\ Len(all) = n
            /\ \A i \in 1 .. n : all[i] = IF i = n THEN end.result ELSE results[i]
            /\ \/ /\ n = Len(pending) /\ pending' = <<>> /\ results' = <<>>
                  /\ h' = Append(h, [calls |-> pending, results |-> all])
               \/ /\ n < Len(pending) /\ results' = all
                  /\ UNCHANGED <<h, pending>>
  BY ExecuteIs
<1> DEFINE n   == Len(results) + 1
           c   == pending[n]
           end == Do(c, fails)
           all == Append(results, end.result)
           turn == [calls |-> pending, results |-> all]
<1>3. seen \subseteq seen'
  BY <1>2
<1>4. AnalysisGrounded'
  BY <1>1, <1>3 DEF AnalysisGrounded
<1>5. ASSUME agent = 0, Canon
      PROVE  /\ Uniform(pending')
             /\ \A i \in DOMAIN results' :
                   pending'[i].tool = "read" /\ ~LooksFailed(results'[i]) => pending'[i].on \in seen'
             /\ \A i \in DOMAIN h' :
                   /\ Uniform(h'[i].calls)
                   /\ \A k \in DOMAIN h'[i].results :
                         h'[i].calls[k].tool = "read" /\ ~LooksFailed(h'[i].results[k])
                            => h'[i].calls[k].on \in seen'
  <2>1. c.tool = "read" /\ ~LooksFailed(end.result) => c.on \in seen'
    <3>1. task \in AllTasks /\ ws \in Workspaces(task) /\ Proper(task, c)
      BY <1>2, LoopAssumption DEF Types
    <3> HIDE DEF c
    <3>2. c.tool = "read" /\ ~LooksFailed(end.result) => end.result.kind = "text"
      BY <3>1, DoIs
    <3>3. seen' = seen \cup {f \in {c.on} : agent = 0 /\ end.result.kind = "text" /\ c.tool = "read"}
      BY <1>2 DEF c
    <3> HIDE DEF end
    <3> QED BY <1>5, <3>2, <3>3
  <2>2. /\ all \in Seq(Results) /\ Len(all) = n /\ n \in Nat
        /\ \A i \in 1 .. n : all[i] = IF i = n THEN end.result ELSE results[i]
    BY <1>1, <1>2
  <2> HIDE DEF all, end
  <2>3. DOMAIN all = 1 .. n /\ DOMAIN results = 1 .. n - 1
    BY <1>1, <2>2
  <2>4. \A i \in DOMAIN all : pending[i].tool = "read" /\ ~LooksFailed(all[i]) => pending[i].on \in seen'
    <3> SUFFICES ASSUME NEW i \in 1 .. n, pending[i].tool = "read", ~LooksFailed(all[i])
                 PROVE  pending[i].on \in seen'
      BY <2>3
    <3>1. CASE i = n
      BY <2>1, <2>2, <3>1
    <3>2. CASE i # n
      <4>1. i \in DOMAIN results /\ all[i] = results[i]
        BY <2>2, <2>3, <3>2
      <4> QED BY <1>3, <1>5, <4>1 DEF Grounded, Shown
    <3> QED BY <3>1, <3>2
  <2>5. Uniform(pending)
    BY <1>5 DEF Grounded
  <2>6. \A i \in DOMAIN h :
           /\ Uniform(h[i].calls)
           /\ \A k \in DOMAIN h[i].results :
                 h[i].calls[k].tool = "read" /\ ~LooksFailed(h[i].results[k])
                    => h[i].calls[k].on \in seen'
    BY <1>3, <1>5 DEF Grounded, Shown
  <2>7. CASE pending' = <<>> /\ results' = <<>> /\ h' = Append(h, turn)
    <3>1. turn \in Turns /\ turn.calls = pending /\ turn.results = all /\ h \in Seq(Turns)
      BY <2>2, ExecuteIs DEF Turns, Types, Transcribed
    <3> HIDE DEF turn
    <3>2. /\ DOMAIN h' = 1 .. Len(h) + 1 /\ DOMAIN h = 1 .. Len(h) /\ Len(h) \in Nat
          /\ h'[Len(h) + 1] = turn /\ \A i \in 1 .. Len(h) : h'[i] = h[i]
      BY <2>7, <3>1, AppendProperties
    <3>3. DOMAIN results' = {} /\ Uniform(pending')
      BY <2>7, NoCall
    <3>4. ASSUME NEW i \in DOMAIN h'
          PROVE  /\ Uniform(h'[i].calls)
                 /\ \A k \in DOMAIN h'[i].results :
                       h'[i].calls[k].tool = "read" /\ ~LooksFailed(h'[i].results[k])
                          => h'[i].calls[k].on \in seen'
      <4>1. CASE i = Len(h) + 1
        BY <2>4, <2>5, <3>1, <3>2, <4>1
      <4>2. CASE i \in 1 .. Len(h)
        BY <2>6, <3>2, <4>2
      <4> QED BY <3>2, <4>1, <4>2
    <3> QED BY <3>3, <3>4
  <2>8. CASE results' = all /\ UNCHANGED <<h, pending>>
    BY <2>4, <2>5, <2>6, <2>8
  <2> QED BY <1>2, <2>7, <2>8 DEF all, end
<1>6. Canon' = Canon /\ agent' = agent
  BY <1>1 DEF Canon
<1>7. Grounded'
  BY <1>5, <1>6 DEF Grounded, Shown
<1> QED BY <1>4, <1>7

\* The forced analysis is only given when the agent really got to read every file it
\* speaks of, with a read failing at any point.
THEOREM AnalysisIsGrounded == Spec => []AnalysisGrounded
<1> DEFINE Inv == Grounded /\ AnalysisGrounded
<1>1. Init => Inv
  <2> SUFFICES ASSUME Init PROVE Inv
    OBVIOUS
  <2>1. pending = <<>> /\ DOMAIN results = {} /\ DOMAIN h = {} /\ said[0] = "none"
    BY DEF Init
  <2> QED BY <2>1, NoCall DEF Grounded, AnalysisGrounded, Shown
<1>2. Types /\ Inv /\ [Next]_vars => Inv'
  <2>1. Inv /\ UNCHANGED vars => Inv'
    BY DEF vars, Grounded, AnalysisGrounded, Shown, Canon
  <2>2. Inv /\ GatewayReject => Inv'
    <3> SUFFICES ASSUME Inv, GatewayReject PROVE Inv'
      OBVIOUS
    <3>1. /\ pending' = <<>> /\ DOMAIN results' = {} /\ DOMAIN h' = {}
          /\ UNCHANGED <<task, mode, agent, said, seen>>
      BY DEF GatewayReject
    <3> QED BY <3>1, NoCall DEF Grounded, AnalysisGrounded, Shown
  <2> HIDE DEF Inv
  <2>3. Types /\ Inv /\ Generate => Inv'
    BY GenerateGrounded DEF Inv
  <2>4. Types /\ Inv /\ Execute => Inv'
    BY ExecuteGrounded DEF Inv
  <2> QED BY <2>1, <2>2, <2>3, <2>4 DEF Next
<1>3. Inv => AnalysisGrounded
  OBVIOUS
<1> QED BY <1>1, <1>2, <1>3, TypesAlways, PTL DEF Spec
=============================================================================
