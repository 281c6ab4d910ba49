---------------------------- MODULE MCTenantSync ----------------------------
(***************************************************************************)
(* Instances of TenantSync for TLC.                                        *)
(***************************************************************************)
EXTENDS TenantSync, TLC

CONSTANTS g1, g2, acme, beta

MCGroups == {g1, g2}
MCNames == {acme, beta}
\* No name is used again after its group was deleted.
FreshNames == (g1 :> acme) @@ (g2 :> beta)
=============================================================================
