-------------------------- MODULE MCConsumerSlots --------------------------
(* A consumer and two messages. The first is asked dense, with the answer of *)
(* the agent before in its static text, and in kv_reuse, with a placeholder  *)
(* for it, after no, one or two turns; the agent before may answer it anew.  *)
(* The second comes between, and its placeholder has the same place.         *)
EXTENDS ConsumerSlots

CONSTANTS x, y

ThreeStatics == {"dense", "reuse", "other"}
Heads == [s \in ThreeStatics |->
            CASE s = "dense" -> <<"sys", "the", "answer", "job">>
              [] s = "reuse" -> <<"sys", "agent_0_current", "job">>
              [] s = "other" -> <<"role", "agent_0_current", "task">>]
AskedOf == {<<"m", "dense", FALSE, 0>>, <<"n", "other", TRUE, 0>>}
             \cup {<<"m", "reuse", TRUE, n>> : n \in 0 .. MaxTurn}
AnswersOf == [m \in {"m", "n"} |-> IF m = "m" THEN {"a", "b"} ELSE {"a"}]
ASSUME OneStatic

Symmetry == Permutations({x, y})

=============================================================================
