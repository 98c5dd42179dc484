----------------------------- MODULE MCGraphRun -----------------------------
(* Small instances of GraphRun for TLC: the topologies of                   *)
(* src/experiments/run_gsm8k.py and the teams of the four domains.          *)
EXTENDS GraphRun, TLC

CONSTANTS r1, r2

TwoRequests == {r1, r2}
OneFails == {r2}
AllModes == {"run", "default", "allow_kv_reuse"}

Pairs == (1 .. N) \X (1 .. N)
Debate == {}
FullConnected == {e \in Pairs : e[1] # e[2]}
Star == {e \in Pairs : e[1] = 1 /\ e[2] # 1}
Backward == {<<3, 1>>, <<1, 2>>, <<2, 3>>, <<2, 1>>}

Spatial == {Debate, FullConnected, Star, Backward}
Temporal == {Pairs}

Math == [domain |-> "gsm8k",
         class |-> <<"MathSolver", "MathSolver", "MathSolver", "FinalRefer">>,
         role |-> <<"Math Solver", "Programming Expert", "Inspector", "FinalRefer">>]
Quiz == [domain |-> "mmlu",
         class |-> <<"AnalyzeAgent", "AnalyzeAgent", "AnalyzeAgent", "FinalRefer">>,
         role |-> <<"Knowledgeable Expert", "Wiki Searcher", "Critic", "FinalRefer">>]
Code == [domain |-> "humaneval",
         class |-> <<"CodeWriting", "CodeWriting", "CodeWriting", "FinalRefer">>,
         role |-> <<"Algorithm Designer", "Normal Programmer", "Bug Fixer", "FinalRefer">>]
Copy == [domain |-> "COPY",
         class |-> <<"CopyMachine", "CopyMachine", "CopyMachine">>,
         role |-> <<"Copier", "Copier", "Copier">>]

AllTeams == {Math, Quiz, Code, Copy}

=============================================================================
