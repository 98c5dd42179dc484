--------------------------- MODULE MCGenerateTurn ---------------------------
(* Two prefixes of the same length, p with the answer of the agent before,  *)
(* q without; one schema for two deliverables, and one single tool.         *)
EXTENDS GenerateTurn

ThreeToolsets == {[schema |-> "s", deliverable |-> "d", full |-> TRUE],
                [schema |-> "s", deliverable |-> "e", full |-> TRUE],
                [schema |-> "t", deliverable |-> "d", full |-> FALSE]}

=============================================================================
