------------------------- MODULE MCPrefixLifecycle -------------------------
(* Small instances of PrefixLifecycle for TLC: a first agent, whose static  *)
(* text has no placeholder, and a consumer with the upstream placeholder.   *)
EXTENDS PrefixLifecycle

TwoStatics == {"first", "consumer"}
Heads == [s \in TwoStatics |->
            IF s = "first" THEN <<"sys", "job">> ELSE <<"sys", "agent_0_current", "job">>]

=============================================================================
