---------------------------- MODULE VaultAccess ----------------------------
(***************************************************************************)
(* Who may do what in a vault: its authority and guardian, its local pause *)
(* and the role assignments (create_vault, set_vault_authority,            *)
(* pause_vault, unpause_vault, grant_role, revoke_role and the permission  *)
(* check of every delegated instruction).                                  *)
(*                                                                         *)
(* One vault is modelled: the addresses of a vault's accounts are derived  *)
(* from its own, so two vaults share no state but the token accounts.      *)
(***************************************************************************)
EXTENDS Protocol

CONSTANTS
  VaultFounders,   \* the <<authority, guardian>> pairs that create_vault is tried with
  Successors,      \* the keys set_vault_authority is tried with
  RoleGrants       \* the <<principal, permissions>> pairs grant_role is tried with

VARIABLES
  vault,           \* the Vault account
  roles            \* the RoleAssignment of every principal

accessVars == <<vault, roles>>

ASSUME AccessAssumption ==
  /\ VaultFounders \subseteq Keys \X Pubkeys
  /\ Successors \subseteq Pubkeys
  /\ RoleGrants \subseteq Pubkeys \X SUBSET STRING

KNOWN_PERMISSIONS ==
  {"WITHDRAW", "REQUEST_WITHDRAWAL", "CANCEL_WITHDRAWAL", "MANAGE_ASSETS",
   "MANAGE_LIMITS", "MANAGE_ROLES"}

VaultRecord ==
  [exists : BOOLEAN, authority : Pubkeys, guardian : Pubkeys,
   next_withdrawal_id : Nat, paused : BOOLEAN]

(* An account that was never created reads as a revoked one. *)
RoleAssignment == [permissions : SUBSET KNOWN_PERMISSIONS, active : BOOLEAN]

NoRole == [permissions |-> {}, active |-> FALSE]

AccessTypeOK ==
  /\ vault \in VaultRecord
  /\ roles \in [Pubkeys -> RoleAssignment]

AccessInit ==
  /\ vault = [exists |-> FALSE, authority |-> DefaultKey, guardian |-> DefaultKey,
              next_withdrawal_id |-> 0, paused |-> FALSE]
  /\ roles = [k \in Pubkeys |-> NoRole]

-----------------------------------------------------------------------------

(* RoleAssignment::has. *)
has(role, permission) == role.active /\ permission \in role.permissions

(* The authorize function of the delegated instructions: the authority     *)
(* acts without a role account, anyone else with the canonical one of its  *)
(* own key, read at the time of the call.                                  *)
authorize(caller, permission) ==
  \/ caller = vault.authority
  \/ has(roles[caller], permission)

(* create_vault *)
CreateVault(authority, guardian) ==
  /\ require_protocol_active("VAULT_CONFIG")
  /\ ~vault.exists
  /\ guardian # DefaultKey /\ guardian # authority
  /\ vault' = [exists |-> TRUE, authority |-> authority, guardian |-> guardian,
               next_withdrawal_id |-> 0, paused |-> FALSE]
  /\ UNCHANGED roles

(* Variant: the guardian may become the authority. *)
SetVaultAuthorityAnyKey(new_authority) ==
  /\ require_protocol_active("VAULT_CONFIG")
  /\ vault.exists
  /\ new_authority \notin {DefaultKey, vault.authority}
  /\ vault' = [vault EXCEPT !.authority = new_authority]
  /\ UNCHANGED roles

(* set_vault_authority, signed by the current authority *)
SetVaultAuthority(new_authority) ==
  /\ require_protocol_active("VAULT_CONFIG")
  /\ vault.exists
  /\ new_authority \notin {DefaultKey, vault.authority, vault.guardian}
  /\ vault' = [vault EXCEPT !.authority = new_authority]
  /\ UNCHANGED roles

(* pause_vault: no protocol flag blocks it *)
PauseVault(caller) ==
  /\ vault.exists
  /\ caller \in {vault.authority, vault.guardian}
  /\ ~vault.paused
  /\ vault' = [vault EXCEPT !.paused = TRUE]
  /\ UNCHANGED roles

(* unpause_vault: the authority only *)
UnpauseVault(caller) ==
  /\ vault.exists
  /\ caller = vault.authority
  /\ vault.paused
  /\ vault' = [vault EXCEPT !.paused = FALSE]
  /\ UNCHANGED roles

(* Variant: unknown bits are stored. *)
GrantRoleUnchecked(principal, permissions) ==
  /\ require_protocol_active("VAULT_CONFIG")
  /\ vault.exists
  /\ principal \notin {DefaultKey, vault.authority, vault.guardian}
  /\ roles' = [roles EXCEPT ![principal] =
                 [permissions |-> permissions, active |-> TRUE]]
  /\ UNCHANGED vault

(* grant_role, signed by the authority: creates or replaces the mask *)
GrantRole(principal, permissions) ==
  /\ require_protocol_active("VAULT_CONFIG")
  /\ vault.exists
  /\ principal \notin {DefaultKey, vault.authority, vault.guardian}
  /\ permissions # {} /\ permissions \subseteq KNOWN_PERMISSIONS
  /\ roles' = [roles EXCEPT ![principal] =
                 [permissions |-> permissions, active |-> TRUE]]
  /\ UNCHANGED vault

(* Variant: the pause is not consulted. *)
RevokeRoleUnpaused(principal) ==
  /\ vault.exists
  /\ roles[principal].active
  /\ roles' = [roles EXCEPT ![principal] = NoRole]
  /\ UNCHANGED vault

(* revoke_role, signed by the authority *)
RevokeRole(principal) ==
  /\ require_protocol_active("VAULT_CONFIG")
  /\ vault.exists
  /\ roles[principal].active
  /\ roles' = [roles EXCEPT ![principal] = NoRole]
  /\ UNCHANGED vault

AccessNext ==
  /\ \/ \E f \in VaultFounders : CreateVault(f[1], f[2])
     \/ \E k \in Successors : SetVaultAuthority(k)
     \/ \E k \in Keys : PauseVault(k)
     \/ \E k \in Keys : UnpauseVault(k)
     \/ \E g \in RoleGrants : GrantRole(g[1], g[2])
     \/ \E k \in Keys : RevokeRole(k)
  /\ UNCHANGED protocolVars

-----------------------------------------------------------------------------
(***************************************************************************)
(* Properties.                                                             *)
(***************************************************************************)

(* The guardian can stop a vault and never move its funds or its           *)
(* configuration: through every grant, revocation and rotation, no         *)
(* delegated instruction authorises the guardian's key. It needs           *)
(* create_vault, set_vault_authority and grant_role to agree on it.        *)
GuardianNeverAuthorized ==
  vault.exists => \A p \in KNOWN_PERMISSIONS : ~authorize(vault.guardian, p)

(* A rotation of the authority leaves the previous key without any power:  *)
(* it holds no active role either.                                         *)
RotationRetiresOldKey ==
  [][vault.exists /\ vault'.authority # vault.authority =>
       ~roles'[vault.authority].active]_accessVars

=============================================================================
