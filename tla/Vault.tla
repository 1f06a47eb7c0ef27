-------------------------------- MODULE Vault --------------------------------
(***************************************************************************)
(* The assets of a vault and what leaves it: register_asset, deposit,      *)
(* update_limits, withdraw, request_withdrawal, execute_withdrawal and     *)
(* cancel_withdrawal, over the access rules of VaultAccess and the token   *)
(* accounts of TokenLedger.                                                *)
(***************************************************************************)
EXTENDS VaultAccess, TokenLedger

CONSTANTS
  VaultAddress,    \* the vault's address, the owner of its custody accounts
  WalletOwners,    \* the first owner of each wallet
  OwnerChanges,    \* the <<wallet, owner>> changes that are tried
  PolicyChoices,   \* the policies update_limits is tried with
  MaxWithdrawals,  \* how many requests are ever made (bound)
  I64Max           \* i64::MAX, scaled down

VARIABLES
  asset,           \* the VaultAsset account of every mint
  requests,        \* the WithdrawalRequest account of every id
  wallet_owner,    \* the owner of every wallet: its holder may give it away
  outflow,         \* history: what left custody under a window before each time
  paid_for         \* history: what left custody for each request

assetVars == <<asset, requests, balance, wallet_owner, outflow, paid_for>>
vaultVars == <<protocol_config, now, vault, roles, asset, requests, balance,
               wallet_owner, outflow, paid_for>>

WithdrawalIds == 0 .. MaxWithdrawals - 1

Times == 0 .. MaxTime + 1

Custody(m) == <<"vault_token", m>>
CustodyAccounts == {Custody(m) : m \in Mints}
TokenAccounts == Wallets \cup CustodyAccounts

Policy ==
  [max_per_transaction : Nat, window_limit : Nat, window_seconds : Nat,
   timelock_threshold : Nat, timelock_seconds : Nat,
   request_execution_window_seconds : Nat]

ASSUME VaultAssumption ==
  /\ VaultAddress \notin Pubkeys
  /\ WalletOwners \in [Wallets -> Keys]
  /\ OwnerChanges \subseteq Wallets \X Keys
  /\ PolicyChoices \subseteq Policy
  /\ MaxWithdrawals \in 0 .. U64Max
  /\ I64Max \in Nat /\ MaxTime <= I64Max
  /\ Wallets \cap CustodyAccounts = {}
  /\ IsFiniteSet(Mints)

VaultAsset ==
  [exists : BOOLEAN, enabled : BOOLEAN,
   max_per_transaction : Nat, window_limit : Nat, window_seconds : Nat,
   window_started_at : Nat, window_spent : Nat, timelock_threshold : Nat,
   timelock_seconds : Nat, request_execution_window_seconds : Nat]

WithdrawalRequest ==
  [status : {"Absent", "Pending", "Executed", "Cancelled"},
   mint : Mints \cup {DefaultKey}, proposer : Pubkeys,
   recipient_owner : Pubkeys \cup {VaultAddress},
   recipient_token_account : TokenAccounts \cup {DefaultKey},
   amount : Nat, created_at : Nat, execute_after : Nat, expires_at : Nat]

NoAsset ==
  [exists |-> FALSE, enabled |-> FALSE, max_per_transaction |-> 0,
   window_limit |-> 0, window_seconds |-> 0, window_started_at |-> 0,
   window_spent |-> 0, timelock_threshold |-> 0, timelock_seconds |-> 0,
   request_execution_window_seconds |-> 0]

NoRequest ==
  [status |-> "Absent", mint |-> DefaultKey, proposer |-> DefaultKey,
   recipient_owner |-> DefaultKey, recipient_token_account |-> DefaultKey,
   amount |-> 0, created_at |-> 0, execute_after |-> 0, expires_at |-> 0]

VaultInit ==
  /\ ProtocolInit
  /\ AccessInit
  /\ asset = [m \in Mints |-> NoAsset]
  /\ requests = [i \in WithdrawalIds |-> NoRequest]
  /\ balance = [a \in TokenAccounts |->
                  IF a \in Wallets THEN InitialBalances[a] ELSE 0]
  /\ wallet_owner = WalletOwners
  /\ outflow = [m \in Mints |-> [t \in Times |-> 0]]
  /\ paid_for = [id \in WithdrawalIds |-> 0]

-----------------------------------------------------------------------------

LiveAccounts == Wallets \cup {Custody(m) : m \in {n \in Mints : asset[n].exists}}
AccountOwner(a) == IF a \in Wallets THEN wallet_owner[a] ELSE VaultAddress
AccountMint(a) == IF a \in Wallets THEN WalletMint[a] ELSE a[2]

WindowEnds(a) == a.window_started_at + a.window_seconds
WindowElapsed(a) == now >= WindowEnds(a)

(* next_window_state: what the window has spent once an amount is charged  *)
(* to it, in the live window or in a fresh one that starts now.            *)
next_window_spent(a, amount) ==
  IF WindowElapsed(a) THEN amount ELSE a.window_spent + amount

(* Variant: each amount alone is compared with the limit. *)
WindowAllowsEach(a, amount) == a.window_seconds = 0 \/ amount <= a.window_limit

(* next_window_state succeeds: an asset without a window is not limited.   *)
WindowAllows(a, amount) ==
  \/ a.window_seconds = 0
  \/ /\ WindowEnds(a) <= I64Max
     /\ next_window_spent(a, amount) <= U64Max
     /\ next_window_spent(a, amount) <= a.window_limit

(* Variant: a new window starts with the spend of the old one. *)
ChargedWithoutReset(a, amount) ==
  IF a.window_seconds = 0 THEN a
  ELSE [a EXCEPT !.window_started_at = IF WindowElapsed(a) THEN now ELSE @,
                 !.window_spent = @ + amount]

(* The asset after the outflow: an asset without a window is not charged.  *)
Charged(a, amount) ==
  IF a.window_seconds = 0 THEN a
  ELSE [a EXCEPT !.window_started_at = IF WindowElapsed(a) THEN now ELSE @,
                 !.window_spent = next_window_spent(a, amount)]

Recorded(m, amount) ==
  IF asset[m].window_seconds = 0 THEN outflow
  ELSE [outflow EXCEPT ![m] =
          [t \in Times |-> IF t > now THEN @[t] + amount ELSE @[t]]]

-----------------------------------------------------------------------------

(* register_asset, signed by the authority: no limits until update_limits  *)
RegisterAsset(m) ==
  /\ require_protocol_active("VAULT_CONFIG")
  /\ vault.exists
  /\ mint_extensions_supported(m)
  /\ ~asset[m].exists
  /\ asset' = [asset EXCEPT ![m] =
       [exists |-> TRUE, enabled |-> TRUE, max_per_transaction |-> U64Max,
        window_limit |-> U64Max, window_seconds |-> 0, window_started_at |-> now,
        window_spent |-> 0, timelock_threshold |-> U64Max, timelock_seconds |-> 0,
        request_execution_window_seconds |-> 0]]
  /\ UNCHANGED <<protocol_config, now, vault, roles, requests, balance,
                 wallet_owner, outflow, paid_for>>

(* Variant: a policy without a window is accepted. *)
ValidPolicyNoWindow(p) ==
  /\ p.max_per_transaction > 0 /\ p.window_limit > 0
  /\ p.max_per_transaction <= p.window_limit
  /\ p.timelock_threshold <= p.max_per_transaction
  /\ p.timelock_seconds > 0 /\ p.request_execution_window_seconds > 0

(* The policies update_limits accepts. *)
ValidPolicy(p) ==
  /\ p.max_per_transaction > 0 /\ p.window_limit > 0 /\ p.window_seconds > 0
  /\ p.max_per_transaction <= p.window_limit
  /\ p.timelock_threshold <= p.max_per_transaction
  /\ p.timelock_seconds > 0 /\ p.request_execution_window_seconds > 0

(* A first policy starts a window; a new duration starts one, which it may *)
(* only do once the running window has ended.                              *)
StartsWindow(a, p) == a.window_seconds = 0 \/ a.window_seconds # p.window_seconds

(* Variant: the running window is not waited for. *)
MayChangeDurationFreely(a, p) == TRUE

MayChangeDuration(a, p) ==
  a.window_seconds \notin {0, p.window_seconds} =>
    WindowEnds(a) <= I64Max /\ WindowElapsed(a)

(* update_limits *)
UpdateLimits(caller, m, p) ==
  /\ require_protocol_active("VAULT_CONFIG")
  /\ vault.exists /\ asset[m].exists
  /\ mint_extensions_supported(m)
  /\ authorize(caller, "MANAGE_LIMITS")
  /\ ValidPolicy(p)
  /\ MayChangeDuration(asset[m], p)
  /\ asset' = [asset EXCEPT ![m] =
       [exists |-> TRUE, enabled |-> @.enabled,
        max_per_transaction |-> p.max_per_transaction,
        window_limit |-> p.window_limit, window_seconds |-> p.window_seconds,
        window_started_at |-> IF StartsWindow(@, p) THEN now ELSE @.window_started_at,
        window_spent |-> IF StartsWindow(@, p) THEN 0 ELSE @.window_spent,
        timelock_threshold |-> p.timelock_threshold,
        timelock_seconds |-> p.timelock_seconds,
        request_execution_window_seconds |-> p.request_execution_window_seconds]]
  /\ UNCHANGED <<protocol_config, now, vault, roles, requests, balance,
                 wallet_owner, outflow, paid_for>>

(* deposit: no pause blocks it *)
Deposit(depositor, m, source_token, amount) ==
  /\ vault.exists /\ asset[m].exists
  /\ mint_extensions_supported(m)
  /\ WalletMint[source_token] = m
  /\ wallet_owner[source_token] = depositor
  /\ amount > 0
  /\ asset[m].enabled
  /\ ExactTransfer(source_token, Custody(m), amount)
  /\ UNCHANGED <<protocol_config, now, vault, roles, asset, requests,
                 wallet_owner, outflow, paid_for>>

(* What withdraw and execute_withdrawal both check and do. *)
PayOut(m, to, amount) ==
  /\ require_protocol_active("VAULT_OUTFLOW")
  /\ vault.exists /\ asset[m].exists
  /\ mint_extensions_supported(m)
  /\ AccountMint(to) = m
  /\ ~vault.paused
  /\ asset[m].enabled
  /\ amount <= asset[m].max_per_transaction
  /\ WindowAllows(asset[m], amount)
  /\ ExactTransfer(Custody(m), to, amount)
  /\ asset' = [asset EXCEPT ![m] = Charged(@, amount)]
  /\ outflow' = Recorded(m, amount)

(* withdraw: up to the threshold, to any account of the mint *)
Withdraw(caller, m, destination_token, amount) ==
  /\ authorize(caller, "WITHDRAW")
  /\ amount > 0
  /\ amount <= asset[m].timelock_threshold
  /\ PayOut(m, destination_token, amount)
  /\ UNCHANGED <<protocol_config, now, vault, roles, requests, wallet_owner, paid_for>>

(* Variant: the counter is not advanced. *)
TakeIdAgain(id) ==
  /\ requests[id].status = "Absent"
  /\ UNCHANGED vault

(* The request account is created at the counter, which advances. *)
TakeId(id) ==
  /\ requests[id].status = "Absent"
  /\ vault' = [vault EXCEPT !.next_withdrawal_id = id + 1]

(* request_withdrawal: above the threshold; fixes the amount, the          *)
(* destination account, its owner and the times                            *)
RequestWithdrawal(proposer, m, recipient_token, amount) ==
  LET id == vault.next_withdrawal_id
      execute_after == now + asset[m].timelock_seconds
      expires_at == execute_after + asset[m].request_execution_window_seconds
  IN  /\ require_protocol_active("VAULT_OUTFLOW")
      /\ vault.exists /\ asset[m].exists
      /\ mint_extensions_supported(m)
      /\ AccountMint(recipient_token) = m
      /\ authorize(proposer, "REQUEST_WITHDRAWAL")
      /\ amount > 0
      /\ ~vault.paused
      /\ asset[m].enabled
      /\ amount > asset[m].timelock_threshold
      /\ amount <= asset[m].max_per_transaction
      /\ expires_at <= I64Max
      /\ execute_after > now /\ expires_at > execute_after
      /\ id < MaxWithdrawals
      /\ TakeId(id)
      /\ requests' = [requests EXCEPT ![id] =
           [status |-> "Pending", mint |-> m, proposer |-> proposer,
            recipient_owner |-> AccountOwner(recipient_token),
            recipient_token_account |-> recipient_token, amount |-> amount,
            created_at |-> now, execute_after |-> execute_after,
            expires_at |-> expires_at]]
      /\ UNCHANGED <<protocol_config, now, roles, asset, balance, wallet_owner,
                     outflow, paid_for>>

(* Variants: a settled request is paid; an expired one is. *)
ExecutableAgain(r) == r.status # "Absent" /\ now >= r.execute_after /\ now <= r.expires_at

ExecutableLate(r) == r.status = "Pending" /\ now >= r.execute_after

(* Pending, and inside the stored times, both ends included. *)
Executable(r) ==
  /\ r.status = "Pending"
  /\ now >= r.execute_after
  /\ now <= r.expires_at

(* execute_withdrawal: anyone, inside the stored window, to the stored     *)
(* account as long as its owner is still the stored one                    *)
ExecuteWithdrawal(id) ==
  LET r == requests[id]
  IN  /\ Executable(r)
      /\ AccountOwner(r.recipient_token_account) = r.recipient_owner
      /\ PayOut(r.mint, r.recipient_token_account, r.amount)
      /\ requests' = [requests EXCEPT ![id].status = "Executed"]
      /\ paid_for' = [paid_for EXCEPT ![id] =
                        @ + (balance[Custody(r.mint)] - balance'[Custody(r.mint)])]
      /\ UNCHANGED <<protocol_config, now, vault, roles, wallet_owner>>

(* Variant: a paused vault refuses. *)
CancelWithdrawalUnpaused(caller, id) ==
  /\ requests[id].status = "Pending"
  /\ ~vault.paused
  /\ caller \in {vault.authority, vault.guardian, requests[id].proposer}
  /\ requests' = [requests EXCEPT ![id].status = "Cancelled"]
  /\ UNCHANGED <<protocol_config, now, vault, roles, asset, balance,
                 wallet_owner, outflow, paid_for>>

(* cancel_withdrawal: nothing blocks it, an expired request included *)
CancelWithdrawal(caller, id) ==
  /\ requests[id].status = "Pending"
  /\ \/ caller \in {vault.guardian, requests[id].proposer}
     \/ authorize(caller, "CANCEL_WITHDRAWAL")
  /\ requests' = [requests EXCEPT ![id].status = "Cancelled"]
  /\ UNCHANGED <<protocol_config, now, vault, roles, asset, balance,
                 wallet_owner, outflow, paid_for>>

(* The token program's own instructions on wallets. *)
DirectTransfer(from, to, amount) ==
  /\ from # to
  /\ amount > 0
  /\ AccountMint(from) = AccountMint(to)
  /\ ExactTransfer(from, to, amount)
  /\ UNCHANGED <<protocol_config, now, vault, roles, asset, requests,
                 wallet_owner, outflow, paid_for>>

SetAccountOwner(w, owner) ==
  /\ wallet_owner' = [wallet_owner EXCEPT ![w] = owner]
  /\ UNCHANGED <<protocol_config, now, vault, roles, asset, requests, balance,
                 outflow, paid_for>>

VaultNext ==
  \/ ProtocolNext /\ UNCHANGED accessVars /\ UNCHANGED assetVars
  \/ AccessNext /\ UNCHANGED assetVars
  \/ \E m \in Mints : RegisterAsset(m)
  \/ \E k \in Keys, m \in Mints, p \in PolicyChoices : UpdateLimits(k, m, p)
  \/ \E k \in Keys, m \in Mints, w \in Wallets, amount \in Amounts :
        Deposit(k, m, w, amount)
  \/ \E k \in Keys, m \in Mints, a \in LiveAccounts, amount \in Amounts :
        Withdraw(k, m, a, amount)
  \/ \E k \in Keys, m \in Mints, a \in LiveAccounts, amount \in Amounts :
        RequestWithdrawal(k, m, a, amount)
  \/ \E id \in WithdrawalIds : ExecuteWithdrawal(id)
  \/ \E k \in Keys, id \in WithdrawalIds : CancelWithdrawal(k, id)
  \/ \E w \in Wallets, a \in LiveAccounts, amount \in Amounts :
        DirectTransfer(w, a, amount)
  \/ \E c \in OwnerChanges : SetAccountOwner(c[1], c[2])

VaultSpec == VaultInit /\ [][VaultNext]_vaultVars

-----------------------------------------------------------------------------
(***************************************************************************)
(* Properties.                                                             *)
(***************************************************************************)

(* The accounts hold values of their types. *)
VaultTypeOK ==
  /\ ProtocolTypeOK
  /\ AccessTypeOK
  /\ asset \in [Mints -> VaultAsset]
  /\ requests \in [WithdrawalIds -> WithdrawalRequest]
  /\ balance \in [TokenAccounts -> 0 .. U64Max]
  /\ wallet_owner \in [Wallets -> Keys]
  /\ outflow \in [Mints -> [Times -> Nat]]
  /\ paid_for \in [WithdrawalIds -> Nat]

(* Custody of a mint loses tokens only while nothing pauses outflows, and  *)
(* within the limits in force at that moment: at most the maximum of a     *)
(* transaction, charged to a window that stays within its limit, also when *)
(* they were tightened after the request. It loses them either by at most  *)
(* the instant threshold, or by the execution of a request of that mint:   *)
(* its exact amount, inside its stored times, to its stored account, which *)
(* still has the owner the proposer fixed.                                 *)
OutflowFollowsRules ==
  [][\A m \in Mints :
       LET paid == balance[Custody(m)] - balance'[Custody(m)]
       IN  paid > 0 =>
             /\ ~vault.paused
             /\ "VAULT_OUTFLOW" \notin protocol_config.pause_flags
             /\ paid <= asset[m].max_per_transaction
             /\ asset[m].window_seconds > 0 =>
                  /\ paid <= asset'[m].window_spent
                  /\ asset'[m].window_spent <= asset[m].window_limit
             /\ \/ paid <= asset[m].timelock_threshold /\ requests' = requests
                \/ \E id \in WithdrawalIds :
                     LET r == requests[id]
                     IN  /\ r.status = "Pending"
                         /\ requests'[id].status = "Executed"
                         /\ r.mint = m /\ r.amount = paid
                         /\ now \in r.execute_after .. r.expires_at
                         /\ AccountOwner(r.recipient_token_account) = r.recipient_owner
                         /\ balance'[r.recipient_token_account]
                              = balance[r.recipient_token_account] + paid]_vaultVars

(* All that custody ever paid for a request is its amount, once, if it is  *)
(* Executed, and nothing while it is pending or once it is cancelled:      *)
(* execute_withdrawal cannot be repeated inside the stored times, however  *)
(* much custody and window capacity is left or comes back.                 *)
RequestPaidAtMostOnce ==
  \A id \in WithdrawalIds :
    paid_for[id] = IF requests[id].status = "Executed" THEN requests[id].amount ELSE 0

(* The ids below next_withdrawal_id are exactly the ones in use: the       *)
(* request account request_withdrawal initialises never exists already.    *)
RequestsContiguous ==
  \A id \in WithdrawalIds :
    requests[id].status # "Absent" <=> id < vault.next_withdrawal_id

(* An asset that has a request has a window, and keeps one: no request can *)
(* be made, hence none executed, under the unlimited policy of             *)
(* register_asset, so every execution is charged to a window; and the      *)
(* times of a request are strictly ordered.                                *)
RequestedAssetHasWindow ==
  \A id \in WithdrawalIds :
    LET r == requests[id]
    IN  r.status # "Absent" =>
          /\ asset[r.mint].exists /\ asset[r.mint].window_seconds > 0
          /\ r.created_at < r.execute_after /\ r.execute_after < r.expires_at

(* The request account as the announcement it implements. *)
Ticket(id) ==
  LET r == requests[id]
  IN  IF r.status = "Absent" THEN [state |-> "none"]
      ELSE [state |-> CASE r.status = "Pending"  -> "waiting"
                        [] r.status = "Executed" -> "paid"
                        [] OTHER                 -> "vetoed",
            terms |-> [asset |-> r.mint, payee |-> r.recipient_token_account,
                       amount |-> r.amount, matures |-> r.execute_after,
                       lapses |-> r.expires_at]]

Promise ==
  INSTANCE WithdrawalPromise WITH
    Tickets <- WithdrawalIds,
    Assets <- Mints,
    Accounts <- TokenAccounts,
    Reserve <- [m \in Mints |-> Custody(m)],
    ticket <- [id \in WithdrawalIds |-> Ticket(id)],
    funds <- balance,
    instant <- [m \in Mints |-> asset[m].timelock_threshold],
    clock <- now

(* The vault instructions implement the promise: what is above the         *)
(* threshold is announced, waits, and is paid once in its announced terms  *)
(* or not at all, whatever policies, roles and pauses change meanwhile.    *)
KeepsWithdrawalPromise == Promise!Spec

AccountsOf(mint) == {a \in TokenAccounts : AccountMint(a) = mint}

(* No instruction makes or loses a unit of any mint: what the wallets and  *)
(* the custody account of a mint hold together never changes.              *)
SupplyConserved ==
  \A m \in Mints :
    Cardinality(Coins(balance, AccountsOf(m))) = InitialSupply(m)

(* What left custody from one time until just before another. *)
OutflowIn(m, from, until) == outflow[m][until] - outflow[m][from]

(* The spend an asset records is exactly what left custody since its       *)
(* window started: no outflow is charged twice, forgotten or charged to    *)
(* the wrong window, whatever limits change in between.                    *)
WindowSpentIsOutflow ==
  \A m \in Mints : asset[m].window_seconds > 0 =>
    asset[m].window_spent = OutflowIn(m, asset[m].window_started_at, MaxTime + 1)

AcceptedPolicies == {p \in PolicyChoices : ValidPolicy(p)}

(* Every accepted window lasts as long, no accepted limit is larger. *)
Within(seconds, limit) ==
  \A p \in AcceptedPolicies : seconds <= p.window_seconds /\ p.window_limit <= limit

(* Windows do not overlap, so a time span as long as the shortest window   *)
(* meets at most two of them: it never sees more than twice the largest    *)
(* limit leave custody, however the policy is changed in between.          *)
SpanSeesTwoWindows ==
  \A shortest, largest \in AcceptedPolicies :
    Within(shortest.window_seconds, largest.window_limit) =>
      \A m \in Mints, t, u \in Times : u <= t + shortest.window_seconds =>
        OutflowIn(m, t, u) <= 2 * largest.window_limit

(* While a window is live no instruction moves its start, shortens or      *)
(* lengthens it, or forgets a part of what was spent in it.                *)
LiveWindowKeepsSpend ==
  [][\A m \in Mints :
       asset[m].window_seconds > 0 /\ ~WindowElapsed(asset[m]) =>
         /\ asset'[m].window_started_at = asset[m].window_started_at
         /\ asset'[m].window_seconds = asset[m].window_seconds
         /\ asset'[m].window_spent >= asset[m].window_spent]_vaultVars

(* A pending request can be cancelled by the guardian at any time, whatever *)
(* is paused and even when it has expired.                                  *)
GuardianCanVeto ==
  \A id \in WithdrawalIds :
    requests[id].status = "Pending" => ENABLED CancelWithdrawal(vault.guardian, id)

(* The policy fields of an asset. *)
PolicyOf(a) ==
  <<a.exists, a.enabled, a.max_per_transaction, a.window_limit, a.window_seconds,
    a.timelock_threshold, a.timelock_seconds, a.request_execution_window_seconds>>

(* While the protocol pauses VAULT_CONFIG nobody, the authority included,  *)
(* changes who holds which power in the vault or any policy; the local     *)
(* pause and the request counter may still move.                           *)
ConfigPauseFreezesConfig ==
  [][protocol_config.exists /\ "VAULT_CONFIG" \in protocol_config.pause_flags =>
       /\ vault'.exists = vault.exists
       /\ vault'.authority = vault.authority /\ vault'.guardian = vault.guardian
       /\ roles' = roles
       /\ \A m \in Mints : PolicyOf(asset'[m]) = PolicyOf(asset[m])]_vaultVars

(* The durations update_limits accepts are bounded: the end of every       *)
(* window is a representable time, so that every window can elapse.        *)
WindowEndsRepresentable ==
  \A m \in Mints : WindowEnds(asset[m]) <= I64Max

(* Every successful withdrawal consumes window capacity. *)
OutflowConsumesCapacity ==
  [][\A m \in Mints :
       balance'[Custody(m)] < balance[Custody(m)] =>
         asset'[m].window_spent >= balance[Custody(m)] - balance'[Custody(m)]
    ]_vaultVars

=============================================================================
