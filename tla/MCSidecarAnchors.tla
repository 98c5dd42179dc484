-------------------------- MODULE MCSidecarAnchors --------------------------
(* Consumers; a static text with agent 0's answer inlined, as a dense       *)
(* run has it, and one with a placeholder for it, as a kv_reuse run has it. *)
EXTENDS SidecarAnchors, TLC

CONSTANTS x, y

Symmetry == Permutations({x, y})

\* A bound of the runs: only the first consumer has tool turns.
FirstHasTurns == job.node = 2 => job.turns = 0

=============================================================================
