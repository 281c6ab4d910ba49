------------------------------ MODULE MCRunner ------------------------------
(***************************************************************************)
(* Instances of Runner for TLC.                                            *)
(***************************************************************************)
EXTENDS Runner, TLC

CONSTANTS a1, a2, a3, read, delete

MCAgents == {a1, a2, a3}
MCConfigured == {a1, a2}
MCApprovalRequired == {a2}
MCMaxPerMinute == (a1 :> 2) @@ (a2 :> 1) @@ (a3 :> 1)
MCToolAllowlist == (a1 :> {read}) @@ (a2 :> {}) @@ (a3 :> {})

Good(a) ==
    [agent |-> a, framework |-> "langgraph", tool |-> read, approved |-> TRUE,
     denyPolicy |-> FALSE, backendDown |-> FALSE, injection |-> FALSE]

\* An unconfigured agent, each gate alone, two gates at once, and bodies that
\* pass: with a tool of the allowlist, with any tool where the list is empty.
MCForms ==
    {Good(a1), Good(a3),
     [Good(a2) EXCEPT !.tool = delete],
     [Good(a1) EXCEPT !.tool = delete],
     [Good(a1) EXCEPT !.denyPolicy = TRUE],
     [Good(a1) EXCEPT !.backendDown = TRUE],
     [Good(a1) EXCEPT !.injection = TRUE],
     [Good(a1) EXCEPT !.framework = "unknown"],
     [Good(a2) EXCEPT !.approved = FALSE, !.denyPolicy = TRUE]}

Symmetry == Permutations(Requests)
=============================================================================
