-------------------------- MODULE MCAgentIdentity --------------------------
(***************************************************************************)
(* Instances of AgentIdentity for TLC.                                     *)
(***************************************************************************)
EXTENDS AgentIdentity, TLC

CONSTANTS a1, a2, fraud, scraper

MCAgents == {a1, a2}
OneAgent == {a1}
MCAliases == {fraud, scraper}
\* Agents with names of their own, as agent_name is meant to be within a tenant.
OwnAlias == (a1 :> fraud) @@ (a2 :> scraper)
OneAlias == a1 :> fraud

Symmetry == Permutations(Ops)
=============================================================================
