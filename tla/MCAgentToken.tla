---------------------------- MODULE MCAgentToken ----------------------------
(* Small instances of AgentToken.                                           *)
EXTENDS AgentToken, TLC

\* Tokens are only ever compared for equality.
TokenSymmetry == Permutations(Token)
=============================================================================
