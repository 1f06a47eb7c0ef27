--------------------------- MODULE MCVaultClient ----------------------------
(***************************************************************************)
(* Small instances of VaultClient for TLC.                                 *)
(***************************************************************************)
EXTENDS VaultClient, MCVault, TLC

CONSTANTS first, second

MCPayer == first :> authority @@ second :> operator

(* Every outflow is timelocked, and two of them exceed the window; the     *)
(* second policy has no window and is rejected.                            *)
ClientPolicies == {P(2, 3, 2, 0), P(2, 3, 0, 0)}

MCRequestRole == {<<operator, {"REQUEST_WITHDRAWAL"}>>}

=============================================================================
