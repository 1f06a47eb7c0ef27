------------------------------- MODULE MCVault -------------------------------
(***************************************************************************)
(* Small instances of Vault for TLC.                                       *)
(***************************************************************************)
EXTENDS Vault

CONSTANTS authority, guardian, operator, gold, fee, purse

MCAuthorities == {<<authority, guardian>>}

MCFounders == {<<authority, guardian>>}

MCWalletMint == [w \in Wallets |-> gold]

MCWalletOwners == [w \in Wallets |-> authority]

MCBalances == [w \in Wallets |-> 4]

P(max, limit, seconds, threshold) ==
  [max_per_transaction |-> max, window_limit |-> limit, window_seconds |-> seconds,
   timelock_threshold |-> threshold, timelock_seconds |-> 1,
   request_execution_window_seconds |-> 1]

(* Tightened, loosened and re-timed policies. *)
WindowPolicies == {P(2, 3, 2, 1), P(2, 2, 2, 2), P(2, 3, 3, 1)}

(* A window that ends after the largest time unless it starts at 0. *)
LongWindowPolicies == {P(2, 3, 2, 1), P(2, 3, I64Max, 1)}

(* A policy that is tightened below pending requests and one that is loosened *)
(* above their threshold.                                                     *)
RequestPolicies == {P(2, 3, 2, 1), P(1, 1, 2, 0)}

RequestBalances == [w \in Wallets |-> 2]

RequestOwnerChanges == {<<purse, guardian>>, <<purse, authority>>}

(* Every principal, a mask that is empty and one with an unknown bit. *)
AccessGrants ==
  {authority, guardian, operator} \X
    {{"WITHDRAW", "REQUEST_WITHDRAWAL"}, {"CANCEL_WITHDRAWAL", "MANAGE_LIMITS"}, {},
     {"UNKNOWN"}}

(* One policy, and ones that update_limits rejects. *)
AccessPolicies == {P(2, 2, 1, 1), P(2, 1, 1, 1), P(1, 1, 1, 2), P(1, 1, 0, 1)}

=============================================================================
