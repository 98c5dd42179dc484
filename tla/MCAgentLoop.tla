----------------------------- MODULE MCAgentLoop -----------------------------
EXTENDS AgentLoop

=============================================================================
