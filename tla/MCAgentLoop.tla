---------------------------- MODULE MCAgentLoop ----------------------------
EXTENDS AgentLoop, TLC

\* Messages are interchangeable: none of the properties orders them.
MsgSymmetry == Permutations(Msg)
=============================================================================
