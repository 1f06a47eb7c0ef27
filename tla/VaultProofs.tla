----------------------------- MODULE VaultProofs -----------------------------
(***************************************************************************)
(* Proofs about Vault, for any keys, mints, policies, amounts and times.   *)
(***************************************************************************)
EXTENDS Vault, CommonProofs

(* A request that was made names a mint and an account that exist.         *)
RequestTargets ==
  \A id \in WithdrawalIds :
    requests[id].status # "Absent" =>
      /\ requests[id].mint \in Mints
      /\ requests[id].recipient_token_account \in TokenAccounts

-----------------------------------------------------------------------------

(* Only accounts that exist take part in an instruction. *)
LEMMA LiveAccountsAreAccounts == LiveAccounts \subseteq TokenAccounts
  BY DEF LiveAccounts, TokenAccounts, CustodyAccounts

(* Each registered mint has a custody account of its own. *)
LEMMA CustodyIsAccount ==
  ASSUME NEW m \in Mints
  PROVE  Custody(m) \in TokenAccounts
  BY DEF TokenAccounts, CustodyAccounts

(* The clock is a number. *)
LEMMA ClockIsNat == VaultTypeOK => now \in Nat
<1>1. VaultTypeOK => now \in 0 .. MaxTime
  BY Zenon DEF VaultTypeOK, ProtocolTypeOK
<1>2. QED
  BY <1>1

(* The ids are the numbers below the bound. *)
LEMMA IdBelowBound ==
  ASSUME NEW id \in Nat, id < MaxWithdrawals
  PROVE  id \in WithdrawalIds
  BY VaultAssumption DEF WithdrawalIds

(* An id is a number. *)
LEMMA IdIsNat ==
  ASSUME NEW id \in WithdrawalIds
  PROVE  id \in Nat
  BY DEF WithdrawalIds

(* The record of a mint, registered or not, is an asset's. *)
LEMMA AssetTyped ==
  ASSUME VaultTypeOK, NEW m \in Mints
  PROVE  asset[m] \in VaultAsset
<1>1. asset \in [Mints -> VaultAsset]
  BY Zenon DEF VaultTypeOK
<1>2. QED
  BY <1>1, Zenon

(* A balance is a number. *)
LEMMA BalanceIsNat ==
  ASSUME VaultTypeOK, NEW a \in TokenAccounts
  PROVE  balance[a] \in Nat
<1>1. balance \in [TokenAccounts -> 0 .. U64Max]
  BY Zenon DEF VaultTypeOK
<1>2. balance[a] \in 0 .. U64Max
  BY <1>1, Zenon
<1>3. QED
  BY <1>2

(* The account of an id, used or not, is a request's. *)
LEMMA RequestTyped ==
  ASSUME VaultTypeOK, NEW id \in WithdrawalIds
  PROVE  requests[id] \in WithdrawalRequest
<1>1. requests \in [WithdrawalIds -> WithdrawalRequest]
  BY Zenon DEF VaultTypeOK
<1>2. QED
  BY <1>1, Zenon

(* The owner of a token account is a wallet holder or the vault. *)
LEMMA OwnerType ==
  ASSUME VaultTypeOK, NEW a \in TokenAccounts
  PROVE  AccountOwner(a) \in Pubkeys \cup {VaultAddress}
  BY DEF VaultTypeOK, AccountOwner, Pubkeys

(* Charging an amount keeps an asset well typed. *)
LEMMA ChargedType ==
  ASSUME now \in Nat, NEW a \in VaultAsset, NEW amount \in Nat
  PROVE  Charged(a, amount) \in VaultAsset
<1>1. next_window_spent(a, amount) \in Nat
  BY DEF next_window_spent, VaultAsset
<1>2. QED
  BY <1>1, Zenon DEF Charged, VaultAsset

(* An outflow keeps assets, balances and the history well typed. *)
LEMMA PayOutType ==
  ASSUME VaultTypeOK, NEW m \in Mints, NEW to \in TokenAccounts, NEW amount \in Nat,
         PayOut(m, to, amount)
  PROVE  /\ asset' \in [Mints -> VaultAsset]
         /\ balance' \in [TokenAccounts -> 0 .. U64Max]
         /\ outflow' \in [Mints -> [Times -> Nat]]
<1>1. asset' \in [Mints -> VaultAsset]
  <2>1. asset[m] \in VaultAsset /\ now \in Nat
    BY AssetTyped, ClockIsNat
  <2>2. Charged(asset[m], amount) \in VaultAsset
    BY <2>1, ChargedType, Zenon
  <2>3. asset' = [asset EXCEPT ![m] = Charged(asset[m], amount)]
    BY DEF PayOut
  <2>4. QED
    BY <2>2, <2>3, Zenon DEF VaultTypeOK
<1>2. balance' \in [TokenAccounts -> 0 .. U64Max]
  <2>1. ExactTransfer(Custody(m), to, amount) /\ Custody(m) \in TokenAccounts
    BY CustodyIsAccount, Zenon DEF PayOut
  <2>2. QED
    BY <2>1, TransferEffect DEF VaultTypeOK
<1>3. outflow' \in [Mints -> [Times -> Nat]]
  <2>1. outflow[m] \in [Times -> Nat]
    BY DEF VaultTypeOK
  <2>2. [t \in Times |-> IF t > now THEN outflow[m][t] + amount ELSE outflow[m][t]]
          \in [Times -> Nat]
    BY <2>1
  <2>3. QED
    BY <2>2 DEF PayOut, Recorded, VaultTypeOK
<1>4. QED
  BY <1>1, <1>2, <1>3

(* A step of VaultAccess keeps its own types. *)
LEMMA AccessType == AccessTypeOK /\ AccessNext => AccessTypeOK'
<1> SUFFICES ASSUME AccessTypeOK, AccessNext
             PROVE  AccessTypeOK'
  OBVIOUS
<1>1. ASSUME NEW f \in VaultFounders, CreateVault(f[1], f[2])
      PROVE  AccessTypeOK'
  <2>1. f[1] \in Pubkeys /\ f[2] \in Pubkeys
    BY AccessAssumption, Zenon DEF Pubkeys
  <2>2. QED
    BY <1>1, <2>1, Zenon DEF CreateVault, AccessTypeOK, VaultRecord
<1>2. ASSUME NEW k \in Successors, SetVaultAuthority(k)
      PROVE  AccessTypeOK'
  BY AccessAssumption, <1>2 DEF SetVaultAuthority, AccessTypeOK, VaultRecord
<1>3. ASSUME NEW k \in Keys, PauseVault(k) \/ UnpauseVault(k)
      PROVE  AccessTypeOK'
  BY <1>3, Zenon DEF PauseVault, UnpauseVault, AccessTypeOK, VaultRecord
<1>4. ASSUME NEW g \in RoleGrants, GrantRole(g[1], g[2])
      PROVE  AccessTypeOK'
  <2>1. [permissions |-> g[2], active |-> TRUE] \in RoleAssignment
    BY <1>4 DEF GrantRole, RoleAssignment
  <2>2. QED
    BY <1>4, <2>1, Zenon DEF GrantRole, AccessTypeOK
<1>5. ASSUME NEW k \in Keys, RevokeRole(k)
      PROVE  AccessTypeOK'
  BY <1>5, Zenon DEF RevokeRole, AccessTypeOK, RoleAssignment, NoRole
<1>6. QED
  BY <1>1, <1>2, <1>3, <1>4, <1>5, Zenon DEF AccessNext

(* The initial state is well typed. *)
LEMMA VaultInitType == VaultInit => VaultTypeOK /\ RequestTargets
<1> SUFFICES ASSUME VaultInit
             PROVE  VaultTypeOK /\ RequestTargets
  OBVIOUS
<1>1. ProtocolTypeOK
  BY ProtocolInitType, Zenon DEF VaultInit
<1>2. AccessTypeOK
  BY Zenon DEF VaultInit, AccessInit, AccessTypeOK, VaultRecord, RoleAssignment, NoRole, Pubkeys
<1>3. NoAsset \in VaultAsset /\ NoRequest \in WithdrawalRequest
  BY Zenon DEF NoAsset, VaultAsset, NoRequest, WithdrawalRequest, Pubkeys
<1>4. RequestTargets
  BY Zenon DEF VaultInit, RequestTargets, NoRequest
<1>5. /\ balance \in [TokenAccounts -> 0 .. U64Max]
      /\ outflow \in [Mints -> [Times -> Nat]]
      /\ paid_for \in [WithdrawalIds -> Nat]
  BY LedgerAssumption DEF VaultInit
<1>6. QED
  BY VaultAssumption, <1>1, <1>2, <1>3, <1>4, <1>5, Zenon DEF VaultInit, VaultTypeOK

(* update_limits stores a well-typed asset. *)
LEMMA UpdateLimitsType ==
  ASSUME VaultTypeOK, NEW k \in Keys, NEW m \in Mints, NEW p \in PolicyChoices,
         UpdateLimits(k, m, p)
  PROVE  asset' \in [Mints -> VaultAsset]
<1>1. asset[m] \in VaultAsset /\ now \in Nat /\ p \in Policy
  BY VaultAssumption, AssetTyped, ClockIsNat, Zenon
<1> DEFINE a == [exists |-> TRUE, enabled |-> asset[m].enabled,
        max_per_transaction |-> p.max_per_transaction,
        window_limit |-> p.window_limit, window_seconds |-> p.window_seconds,
        window_started_at |-> IF StartsWindow(asset[m], p) THEN now
                              ELSE asset[m].window_started_at,
        window_spent |-> IF StartsWindow(asset[m], p) THEN 0 ELSE asset[m].window_spent,
        timelock_threshold |-> p.timelock_threshold,
        timelock_seconds |-> p.timelock_seconds,
        request_execution_window_seconds |-> p.request_execution_window_seconds]
<1>2. a \in VaultAsset
  BY <1>1, Zenon DEF VaultAsset, Policy
<1>3. asset' = [asset EXCEPT ![m] = a]
  BY DEF UpdateLimits
<1> HIDE DEF a
<1>4. QED
  BY <1>2, <1>3, ZenonT(30) DEF VaultTypeOK

(* request_withdrawal stores a well-typed request with a target. *)
LEMMA RequestType ==
  ASSUME VaultTypeOK, RequestTargets, NEW k \in Keys, NEW m \in Mints,
         NEW to \in LiveAccounts, NEW amount \in Amounts,
         RequestWithdrawal(k, m, to, amount)
  PROVE  /\ requests' \in [WithdrawalIds -> WithdrawalRequest]
         /\ vault' \in VaultRecord
         /\ RequestTargets'
<1> DEFINE id == vault.next_withdrawal_id
           execute_after == now + asset[m].timelock_seconds
           expires_at == execute_after + asset[m].request_execution_window_seconds
           r == [status |-> "Pending", mint |-> m, proposer |-> k,
                 recipient_owner |-> AccountOwner(to),
                 recipient_token_account |-> to, amount |-> amount,
                 created_at |-> now, execute_after |-> execute_after,
                 expires_at |-> expires_at]
<1>1. id \in WithdrawalIds /\ vault' = [vault EXCEPT !.next_withdrawal_id = id + 1]
  <2>1. id \in Nat
    BY Zenon DEF VaultTypeOK, AccessTypeOK, VaultRecord
  <2>2. id < MaxWithdrawals /\ vault' = [vault EXCEPT !.next_withdrawal_id = id + 1]
    BY Zenon DEF RequestWithdrawal, TakeId
  <2>3. QED
    BY <2>1, <2>2, IdBelowBound, Zenon
<1>2. requests' = [requests EXCEPT ![id] = r]
  BY DEF RequestWithdrawal
<1>3. to \in TokenAccounts /\ AccountOwner(to) \in Pubkeys \cup {VaultAddress}
  BY LiveAccountsAreAccounts, OwnerType, Zenon
<1>4. now \in Nat /\ execute_after \in Nat /\ expires_at \in Nat /\ amount \in Nat
  <2>1. asset[m] \in VaultAsset /\ now \in Nat /\ amount \in Nat
    BY AmountIsNat, AssetTyped, ClockIsNat, Zenon
  <2>2. /\ asset[m].timelock_seconds \in Nat
        /\ asset[m].request_execution_window_seconds \in Nat
    BY <2>1 DEF VaultAsset
  <2>3. QED
    BY <2>1, <2>2
<1>5. k \in Pubkeys
  BY DEF Pubkeys
<1> HIDE DEF execute_after, expires_at
<1>6. r \in WithdrawalRequest
  BY <1>3, <1>4, <1>5, Zenon DEF WithdrawalRequest
<1>7. r.mint \in Mints /\ r.recipient_token_account \in TokenAccounts
  BY <1>3, Zenon
<1> HIDE DEF r
<1>8. vault' \in VaultRecord
  <2>1. vault \in VaultRecord /\ id + 1 \in Nat
    BY DEF VaultTypeOK, AccessTypeOK, VaultRecord
  <2> HIDE DEF id
  <2>2. QED
    BY <1>1, <2>1, Zenon DEF VaultRecord
<1> HIDE DEF id
<1>9. /\ requests' \in [WithdrawalIds -> WithdrawalRequest]
      /\ requests'[id] = r
      /\ \A x \in WithdrawalIds \ {id} : requests'[x] = requests[x]
  BY <1>1, <1>2, <1>6, Zenon DEF VaultTypeOK
<1>10. RequestTargets'
  BY <1>7, <1>9, Zenon DEF RequestTargets
<1>11. QED
  BY <1>8, <1>9, <1>10, Zenon

(* A change of status alone keeps requests well typed and their targets. *)
LEMMA StatusChangeType ==
  ASSUME VaultTypeOK, RequestTargets, NEW id \in WithdrawalIds,
         NEW status \in {"Executed", "Cancelled"}, requests[id].status = "Pending",
         requests' = [requests EXCEPT ![id].status = status]
  PROVE  requests' \in [WithdrawalIds -> WithdrawalRequest] /\ RequestTargets'
<1>1. [requests[id] EXCEPT !.status = status] \in WithdrawalRequest
  <2>1. requests[id] \in WithdrawalRequest
    BY DEF VaultTypeOK
  <2>2. QED
    BY <2>1 DEF WithdrawalRequest
<1>2. requests' \in [WithdrawalIds -> WithdrawalRequest]
  BY <1>1 DEF VaultTypeOK
<1>3. /\ requests'[id].mint = requests[id].mint
      /\ requests'[id].recipient_token_account = requests[id].recipient_token_account
      /\ \A x \in WithdrawalIds \ {id} : requests'[x] = requests[x]
  BY ZenonT(30) DEF VaultTypeOK, WithdrawalRequest
<1>4. QED
  BY <1>2, <1>3 DEF RequestTargets

(* execute_withdrawal takes the amount of its request out of custody, and  *)
(* the history records that.                                               *)
LEMMA ExecutionPays ==
  ASSUME VaultTypeOK, RequestTargets, NEW id \in WithdrawalIds, ExecuteWithdrawal(id)
  PROVE  /\ requests[id].amount \in Nat
         /\ paid_for' = [paid_for EXCEPT ![id] = @ + requests[id].amount]
<1> DEFINE r == requests[id]
           from == Custody(r.mint)
<1>1. r \in WithdrawalRequest
  BY RequestTyped, Zenon
<1>2. /\ r.status = "Pending"
      /\ ExactTransfer(from, r.recipient_token_account, r.amount)
      /\ paid_for' = [paid_for EXCEPT ![id] = @ + (balance[from] - balance'[from])]
  BY Zenon DEF ExecuteWithdrawal, Executable, PayOut
<1>3. /\ r.mint \in Mints /\ r.recipient_token_account \in TokenAccounts
      /\ r.amount \in Nat
  BY <1>1, <1>2, Zenon DEF RequestTargets, WithdrawalRequest
<1>4. from \in TokenAccounts /\ balance[from] \in Nat
  <2>1. from \in TokenAccounts
    BY <1>3, CustodyIsAccount, Zenon
  <2>2. QED
    BY <2>1, BalanceIsNat, Zenon
<1>5. Moved(TokenAccounts, from, r.recipient_token_account, r.amount)
  <2>1. balance \in [TokenAccounts -> 0 .. U64Max]
    BY Zenon DEF VaultTypeOK
  <2>2. QED
    BY <1>2, <1>3, <1>4, <2>1, TransferMoves, Zenon
<1>6. balance[from] - balance'[from] = r.amount
  <2>1. balance[from] - (balance[from] - r.amount) = r.amount
    BY <1>3, <1>4, AddingTakesNothing, Zenon
  <2>2. QED
    BY <1>5, <2>1, Zenon DEF Moved
<1>7. QED
  BY <1>2, <1>3, <1>6, Zenon

(* Every step keeps the types and the targets of the requests. *)
LEMMA VaultNextType ==
  VaultTypeOK /\ RequestTargets /\ [VaultNext]_vaultVars => VaultTypeOK' /\ RequestTargets'
<1> SUFFICES ASSUME VaultTypeOK, RequestTargets, [VaultNext]_vaultVars
             PROVE  VaultTypeOK' /\ RequestTargets'
  OBVIOUS
<1>1. CASE ProtocolNext /\ UNCHANGED accessVars /\ UNCHANGED assetVars
  BY <1>1, ProtocolType, Zenon DEF VaultTypeOK, AccessTypeOK, RequestTargets, accessVars, assetVars
<1>2. CASE AccessNext /\ UNCHANGED assetVars
  <2>1. UNCHANGED protocolVars
    BY <1>2, ZenonT(30) DEF AccessNext
  <2>2. QED
    BY <1>2, <2>1, AccessType, Zenon
    DEF VaultTypeOK, ProtocolTypeOK, RequestTargets, protocolVars, assetVars
<1>3. ASSUME NEW m \in Mints, RegisterAsset(m)
      PROVE  VaultTypeOK' /\ RequestTargets'
  <2>1. now \in Nat
    BY DEF VaultTypeOK, ProtocolTypeOK
  <2>2. asset' \in [Mints -> VaultAsset]
    BY LedgerAssumption, <1>3, <2>1, Zenon DEF RegisterAsset, VaultTypeOK, VaultAsset
  <2>3. QED
    BY <1>3, <2>2, Zenon DEF RegisterAsset, VaultTypeOK, ProtocolTypeOK, AccessTypeOK, RequestTargets
<1>4. ASSUME NEW k \in Keys, NEW m \in Mints, NEW p \in PolicyChoices, UpdateLimits(k, m, p)
      PROVE  VaultTypeOK' /\ RequestTargets'
  <2>1. asset' \in [Mints -> VaultAsset]
    BY <1>4, UpdateLimitsType, Zenon
  <2>2. QED
    BY <1>4, <2>1, Zenon DEF UpdateLimits, VaultTypeOK, ProtocolTypeOK, AccessTypeOK, RequestTargets
<1>5. ASSUME NEW k \in Keys, NEW m \in Mints, NEW w \in Wallets, NEW amount \in Amounts,
             Deposit(k, m, w, amount)
      PROVE  VaultTypeOK' /\ RequestTargets'
  <2>1. /\ w \in TokenAccounts /\ Custody(m) \in TokenAccounts /\ amount \in Nat
        /\ ExactTransfer(w, Custody(m), amount)
    BY <1>5, AmountIsNat, CustodyIsAccount, Zenon DEF Deposit, TokenAccounts
  <2>2. balance' \in [TokenAccounts -> 0 .. U64Max]
    BY <2>1, TransferEffect, Zenon DEF VaultTypeOK
  <2>3. QED
    BY <1>5, <2>2, Zenon DEF Deposit, VaultTypeOK, ProtocolTypeOK, AccessTypeOK, RequestTargets
<1>6. ASSUME NEW k \in Keys, NEW m \in Mints, NEW a \in LiveAccounts, NEW amount \in Amounts,
             Withdraw(k, m, a, amount)
      PROVE  VaultTypeOK' /\ RequestTargets'
  <2>1. a \in TokenAccounts /\ amount \in Nat /\ PayOut(m, a, amount)
    <3>1. a \in TokenAccounts
      BY LiveAccountsAreAccounts
    <3>2. amount \in Nat
      BY LedgerAssumption
    <3>3. QED
      BY <1>6, <3>1, <3>2, Zenon DEF Withdraw
  <2>2. /\ asset' \in [Mints -> VaultAsset]
        /\ balance' \in [TokenAccounts -> 0 .. U64Max]
        /\ outflow' \in [Mints -> [Times -> Nat]]
    BY <2>1, PayOutType, Zenon
  <2>3. QED
    BY <1>6, <2>2, ZenonT(30) DEF Withdraw, VaultTypeOK, ProtocolTypeOK, AccessTypeOK, RequestTargets
<1>7. ASSUME NEW k \in Keys, NEW m \in Mints, NEW a \in LiveAccounts, NEW amount \in Amounts,
             RequestWithdrawal(k, m, a, amount)
      PROVE  VaultTypeOK' /\ RequestTargets'
  <2>1. /\ requests' \in [WithdrawalIds -> WithdrawalRequest]
        /\ vault' \in VaultRecord
        /\ RequestTargets'
    BY <1>7, RequestType, ZenonT(30)
  <2>2. UNCHANGED <<protocol_config, now, roles, asset, balance, wallet_owner, outflow,
                    paid_for>>
    BY <1>7 DEF RequestWithdrawal
  <2>3. QED
    BY <2>1, <2>2 DEF VaultTypeOK, ProtocolTypeOK, AccessTypeOK
<1>8. ASSUME NEW id \in WithdrawalIds, ExecuteWithdrawal(id)
      PROVE  VaultTypeOK' /\ RequestTargets'
  <2>1. /\ requests[id].status = "Pending"
        /\ PayOut(requests[id].mint, requests[id].recipient_token_account,
                  requests[id].amount)
        /\ requests' = [requests EXCEPT ![id].status = "Executed"]
        /\ UNCHANGED <<protocol_config, now, vault, roles, wallet_owner>>
    BY <1>8, Zenon DEF ExecuteWithdrawal, Executable
  <2>2. /\ requests[id].mint \in Mints
        /\ requests[id].recipient_token_account \in TokenAccounts
        /\ requests[id].amount \in Nat
    <3>1. requests[id] \in WithdrawalRequest
      BY DEF VaultTypeOK
    <3>2. QED
      BY <2>1, <3>1, Zenon DEF RequestTargets, WithdrawalRequest
  <2>3. /\ asset' \in [Mints -> VaultAsset]
        /\ balance' \in [TokenAccounts -> 0 .. U64Max]
        /\ outflow' \in [Mints -> [Times -> Nat]]
    BY <2>1, <2>2, PayOutType, Zenon
  <2>4. requests' \in [WithdrawalIds -> WithdrawalRequest] /\ RequestTargets'
    BY Zenon, <2>1, StatusChangeType
  <2>5. paid_for' \in [WithdrawalIds -> Nat]
    <3>1. /\ requests[id].amount \in Nat
          /\ paid_for' = [paid_for EXCEPT ![id] = @ + requests[id].amount]
      BY <1>8, ExecutionPays, Zenon
    <3>2. paid_for \in [WithdrawalIds -> Nat]
      BY Zenon DEF VaultTypeOK
    <3>3. QED
      BY <3>1, <3>2
  <2>6. QED
    BY <2>1, <2>3, <2>4, <2>5, Zenon DEF VaultTypeOK, ProtocolTypeOK, AccessTypeOK
<1>9. ASSUME NEW k \in Keys, NEW id \in WithdrawalIds, CancelWithdrawal(k, id)
      PROVE  VaultTypeOK' /\ RequestTargets'
  <2>1. requests' \in [WithdrawalIds -> WithdrawalRequest] /\ RequestTargets'
    BY <1>9, StatusChangeType, Zenon DEF CancelWithdrawal
  <2>2. QED
    BY <1>9, <2>1 DEF CancelWithdrawal, VaultTypeOK, ProtocolTypeOK, AccessTypeOK
<1>10. ASSUME NEW w \in Wallets, NEW a \in LiveAccounts, NEW amount \in Amounts,
              DirectTransfer(w, a, amount)
       PROVE  VaultTypeOK' /\ RequestTargets'
  <2>1. /\ w \in TokenAccounts /\ a \in TokenAccounts /\ amount \in Nat
        /\ ExactTransfer(w, a, amount)
    <3>1. a \in TokenAccounts
      BY LiveAccountsAreAccounts
    <3>2. amount \in Nat /\ w \in TokenAccounts
      BY AmountIsNat, Zenon DEF TokenAccounts
    <3>3. QED
      BY <1>10, <3>1, <3>2, Zenon DEF DirectTransfer
  <2>2. balance' \in [TokenAccounts -> 0 .. U64Max]
    BY <2>1, TransferEffect, Zenon DEF VaultTypeOK
  <2>3. QED
    BY <1>10, <2>2, Zenon DEF DirectTransfer, VaultTypeOK, ProtocolTypeOK, AccessTypeOK, RequestTargets
<1>11. ASSUME NEW c \in OwnerChanges, SetAccountOwner(c[1], c[2])
       PROVE  VaultTypeOK' /\ RequestTargets'
  <2>1. c[2] \in Keys
    BY VaultAssumption, ZenonT(30)
  <2>2. QED
    BY Zenon, <1>11, <2>1
    DEF SetAccountOwner, VaultTypeOK, ProtocolTypeOK, AccessTypeOK, RequestTargets
<1>12. CASE UNCHANGED vaultVars
  BY <1>12 DEF VaultTypeOK, ProtocolTypeOK, AccessTypeOK, RequestTargets, vaultVars
<1>13. QED
  BY <1>1, <1>2, <1>3, <1>4, <1>5, <1>6, <1>7, <1>8, <1>9, <1>10, <1>11, <1>12, Zenon
  DEF VaultNext

(* The accounts of the vault instructions always hold values of their      *)
(* types, and every request that was made names an existing mint and       *)
(* token account.                                                          *)
THEOREM VaultTypeCorrect == VaultSpec => [](VaultTypeOK /\ RequestTargets)
  BY VaultInitType, VaultNextType, PTL DEF VaultSpec

-----------------------------------------------------------------------------
(***************************************************************************)
(* The guardian. The invariant has to say that no role survives from       *)
(* before the vault existed: create_vault would otherwise hand one to the  *)
(* guardian it names.                                                      *)
(***************************************************************************)

GuardianApart ==
  /\ vault.exists => vault.guardian # vault.authority /\ ~roles[vault.guardian].active
  /\ ~vault.exists => \A k \in Pubkeys : ~roles[k].active

(* Outside VaultAccess, no step changes a role or the vault's identity. *)
LEMMA AccessFrame ==
  ASSUME VaultTypeOK, [VaultNext]_vaultVars
  PROVE  \/ AccessNext /\ UNCHANGED assetVars
         \/ /\ roles' = roles /\ vault'.exists = vault.exists
            /\ vault'.authority = vault.authority /\ vault'.guardian = vault.guardian
            /\ vault'.paused = vault.paused
<1>1. ASSUME NEW k \in Keys, NEW m \in Mints, NEW a \in LiveAccounts, NEW amount \in Amounts,
             RequestWithdrawal(k, m, a, amount)
      PROVE  /\ roles' = roles /\ vault'.exists = vault.exists
             /\ vault'.authority = vault.authority /\ vault'.guardian = vault.guardian
             /\ vault'.paused = vault.paused
  BY <1>1, Zenon DEF RequestWithdrawal, TakeId, VaultTypeOK, AccessTypeOK, VaultRecord
<1>2. QED
  BY <1>1 DEF VaultNext, vaultVars, accessVars, RegisterAsset, UpdateLimits, Deposit,
         Withdraw, ExecuteWithdrawal, CancelWithdrawal, DirectTransfer, SetAccountOwner

(* Every step keeps the guardian apart. *)
LEMMA GuardianApartNext ==
  ASSUME VaultTypeOK, GuardianApart, [VaultNext]_vaultVars
  PROVE  GuardianApart'
<1>1. vault \in VaultRecord /\ roles \in [Pubkeys -> RoleAssignment]
  BY Zenon DEF VaultTypeOK, AccessTypeOK
<1>2. ASSUME NEW f \in VaultFounders, CreateVault(f[1], f[2])
      PROVE  GuardianApart'
  <2>1. f[2] \in Pubkeys
    BY AccessAssumption
  <2>2. QED
    BY <1>2, <2>1, Zenon DEF CreateVault, GuardianApart
<1>3. ASSUME NEW k \in Successors, SetVaultAuthority(k)
      PROVE  GuardianApart'
  BY <1>1, <1>3, Zenon DEF SetVaultAuthority, GuardianApart, VaultRecord
<1>4. ASSUME NEW k \in Keys, PauseVault(k) \/ UnpauseVault(k)
      PROVE  GuardianApart'
  BY <1>1, <1>4, Zenon DEF PauseVault, UnpauseVault, GuardianApart, VaultRecord
<1>5. ASSUME NEW g \in RoleGrants, GrantRole(g[1], g[2])
      PROVE  GuardianApart'
  BY <1>1, <1>5, ZenonT(30) DEF GrantRole, GuardianApart, VaultRecord
<1>6. ASSUME NEW k \in Keys, RevokeRole(k)
      PROVE  GuardianApart'
  BY <1>1, <1>6 DEF RevokeRole, GuardianApart, VaultRecord, NoRole
<1>7. CASE AccessNext
  BY <1>2, <1>3, <1>4, <1>5, <1>6, <1>7, ZenonT(30) DEF AccessNext
<1>8. QED
  BY <1>7, AccessFrame, Zenon DEF GuardianApart

(* Through every grant, revocation and rotation, in any order and under    *)
(* any pauses, no delegated instruction authorises the guardian's key.     *)
THEOREM GuardianPowerless == VaultSpec => []GuardianNeverAuthorized
<1>1. VaultInit => GuardianApart
  BY DEF VaultInit, AccessInit, GuardianApart, NoRole
<1>2. GuardianApart => GuardianNeverAuthorized
  BY DEF GuardianApart, GuardianNeverAuthorized, authorize, has
<1>3. VaultTypeOK /\ GuardianApart /\ [VaultNext]_vaultVars => GuardianApart'
  BY GuardianApartNext, Zenon
<1>4. QED
  BY <1>1, <1>2, <1>3, VaultTypeCorrect, PTL DEF VaultSpec

-----------------------------------------------------------------------------
(***************************************************************************)
(* What a step can do to one asset and to one request. The properties      *)
(* about windows and requests below are proved from these two lemmas.      *)
(***************************************************************************)

(* An outflow changes only its own asset, and there only the window.       *)
LEMMA PayOutAsset ==
  ASSUME VaultTypeOK, NEW m \in Mints, NEW to, NEW amount, PayOut(m, to, amount)
  PROVE  /\ \A x \in Mints \ {m} : asset'[x] = asset[x]
         /\ asset'[m] = Charged(asset[m], amount)
  BY Zenon DEF PayOut, VaultTypeOK

(* The ways a step can change the asset of a mint. *)
LEMMA AssetStep ==
  ASSUME VaultTypeOK, RequestTargets, [VaultNext]_vaultVars, NEW m \in Mints
  PROVE  \/ asset'[m] = asset[m]
         \/ RegisterAsset(m)
         \/ \E k \in Keys, p \in PolicyChoices : UpdateLimits(k, m, p)
         \/ \E amount \in Nat : /\ asset'[m] = Charged(asset[m], amount)
                                /\ asset[m].exists /\ UNCHANGED <<now, vault>>
<1> DEFINE Goal == \/ asset'[m] = asset[m]
                   \/ RegisterAsset(m)
                   \/ \E k \in Keys, p \in PolicyChoices : UpdateLimits(k, m, p)
                   \/ \E amount \in Nat : /\ asset'[m] = Charged(asset[m], amount)
                                          /\ asset[m].exists /\ UNCHANGED <<now, vault>>
<1> SUFFICES Goal
  OBVIOUS
<1> HIDE DEF Goal
<1>1. ASSUME NEW x \in Mints, RegisterAsset(x)
      PROVE  Goal
  BY <1>1, Zenon DEF RegisterAsset, VaultTypeOK, Goal
<1>2. ASSUME NEW k \in Keys, NEW x \in Mints, NEW p \in PolicyChoices, UpdateLimits(k, x, p)
      PROVE  Goal
  <2>1. CASE x = m
    BY <1>2, <2>1, ZenonT(30) DEF Goal
  <2>2. CASE x # m
    BY <1>2, <2>2 DEF UpdateLimits, VaultTypeOK, Goal
  <2>3. QED
    BY <2>1, <2>2, Zenon
<1>3. ASSUME NEW x \in Mints, NEW to, NEW amount \in Nat, PayOut(x, to, amount),
             UNCHANGED <<now, vault>>
      PROVE  Goal
  <2>1. CASE x = m
    BY <1>3, <2>1, PayOutAsset, ZenonT(30) DEF PayOut, Goal
  <2>2. CASE x # m
    <3>1. asset'[m] = asset[m]
      BY <1>3, <2>2, PayOutAsset, Zenon
    <3>2. QED
      BY <3>1, Zenon DEF Goal
  <2>3. QED
    BY <2>1, <2>2, Zenon
<1>4. ASSUME NEW k \in Keys, NEW x \in Mints, NEW a \in LiveAccounts, NEW amount \in Amounts,
             Withdraw(k, x, a, amount)
      PROVE  Goal
  <2>1. amount \in Nat
    BY AmountIsNat, Zenon
  <2>2. PayOut(x, a, amount) /\ UNCHANGED <<now, vault>>
    BY <1>4, Zenon DEF Withdraw
  <2>3. QED
    BY <1>3, <2>1, <2>2, Zenon
<1>5. ASSUME NEW id \in WithdrawalIds, ExecuteWithdrawal(id)
      PROVE  Goal
  <2>1. requests[id] \in WithdrawalRequest
    BY DEF VaultTypeOK
  <2>2. /\ requests[id].status = "Pending"
        /\ PayOut(requests[id].mint, requests[id].recipient_token_account,
                  requests[id].amount)
        /\ UNCHANGED <<now, vault>>
    BY <1>5, Zenon DEF ExecuteWithdrawal, Executable
  <2>3. requests[id].mint \in Mints /\ requests[id].amount \in Nat
    BY <2>1, <2>2 DEF RequestTargets, WithdrawalRequest
  <2>4. QED
    BY <1>3, <2>2, <2>3, Zenon
<1>6. CASE UNCHANGED asset
  BY <1>6, ZenonT(30) DEF Goal
<1>7. ASSUME NEW k \in Keys, NEW x \in Mints, NEW a \in LiveAccounts, NEW amount \in Amounts,
             RequestWithdrawal(k, x, a, amount)
      PROVE  Goal
  BY <1>6, <1>7 DEF RequestWithdrawal
<1>8. ASSUME NEW k \in Keys, NEW id \in WithdrawalIds, CancelWithdrawal(k, id)
      PROVE  Goal
  BY <1>6, <1>8, ZenonT(30) DEF CancelWithdrawal
<1>9. ASSUME NEW k \in Keys, NEW x \in Mints, NEW w \in Wallets, NEW amount \in Amounts,
             Deposit(k, x, w, amount)
      PROVE  Goal
  BY <1>6, <1>9, Zenon DEF Deposit
<1>10. ASSUME NEW w \in Wallets, NEW a \in LiveAccounts, NEW amount \in Amounts,
              DirectTransfer(w, a, amount)
       PROVE  Goal
  BY <1>6, <1>10, Zenon DEF DirectTransfer
<1>11. ASSUME NEW c \in OwnerChanges, SetAccountOwner(c[1], c[2])
       PROVE  Goal
  BY <1>6, <1>11, Zenon DEF SetAccountOwner
<1>12. CASE UNCHANGED assetVars \/ UNCHANGED vaultVars
  BY <1>6, <1>12, Zenon DEF assetVars, vaultVars
<1>13. QED
  BY <1>1, <1>2, <1>4, <1>5, <1>6, <1>7, <1>8, <1>9, <1>10, <1>11, <1>12, ZenonT(30) DEF VaultNext

(* The ways a step can change a request. *)
LEMMA RequestStep ==
  ASSUME VaultTypeOK, [VaultNext]_vaultVars, NEW id \in WithdrawalIds
  PROVE  \/ requests'[id] = requests[id]
         \/ \E k \in Keys : CancelWithdrawal(k, id)
         \/ ExecuteWithdrawal(id)
         \/ /\ id = vault.next_withdrawal_id
            /\ \E k \in Keys, m \in Mints, a \in LiveAccounts, amount \in Amounts :
                  RequestWithdrawal(k, m, a, amount)
<1> DEFINE Goal == \/ requests'[id] = requests[id]
                   \/ \E k \in Keys : CancelWithdrawal(k, id)
                   \/ ExecuteWithdrawal(id)
                   \/ /\ id = vault.next_withdrawal_id
                      /\ \E k \in Keys, m \in Mints, a \in LiveAccounts, amount \in Amounts :
                            RequestWithdrawal(k, m, a, amount)
<1>1. ASSUME NEW x \in WithdrawalIds, ExecuteWithdrawal(x)
      PROVE  Goal
  <2>1. CASE x = id
    BY <1>1, <2>1, Zenon
  <2>2. CASE x # id
    BY <1>1, <2>2, ZenonT(30) DEF ExecuteWithdrawal, VaultTypeOK
  <2>3. QED
    BY <2>1, <2>2, Zenon
<1>2. ASSUME NEW k \in Keys, NEW x \in WithdrawalIds, CancelWithdrawal(k, x)
      PROVE  Goal
  <2>1. CASE x = id
    BY <1>2, <2>1, Zenon
  <2>2. CASE x # id
    BY <1>2, <2>2, Zenon DEF CancelWithdrawal, VaultTypeOK
  <2>3. QED
    BY <2>1, <2>2, Zenon
<1>3. ASSUME NEW k \in Keys, NEW m \in Mints, NEW a \in LiveAccounts, NEW amount \in Amounts,
             RequestWithdrawal(k, m, a, amount)
      PROVE  Goal
  <2>1. CASE id = vault.next_withdrawal_id
    BY <1>3, <2>1, Zenon
  <2>2. CASE id # vault.next_withdrawal_id
    <3>1. requests'[id] = requests[id]
      BY <1>3, <2>2, Zenon DEF RequestWithdrawal, VaultTypeOK
    <3>2. QED
      BY <3>1, Zenon
  <2>3. QED
    BY <2>1, <2>2, Zenon
<1>4. CASE UNCHANGED requests
  BY <1>4, ZenonT(30)
<1>5. QED
  BY Zenon, <1>1, <1>2, <1>3, <1>4
  DEF VaultNext, vaultVars, assetVars, RegisterAsset, UpdateLimits, Deposit, Withdraw,
      DirectTransfer, SetAccountOwner

-----------------------------------------------------------------------------
(***************************************************************************)
(* Windows. An asset that is not registered has no window, and an asset    *)
(* without a window still has the policy of register_asset, under which    *)
(* no amount is both above the threshold and within the maximum.           *)
(***************************************************************************)

AssetShape ==
  \A m \in Mints :
    /\ ~asset[m].exists => asset[m].window_seconds = 0
    /\ asset[m].window_seconds = 0 =>
         asset[m].timelock_threshold = asset[m].max_per_transaction

(* Charging moves only the start and the spend of a window, and in a live  *)
(* window only the spend, upwards.                                         *)
LEMMA ChargedEffect ==
  ASSUME now \in Nat, NEW a \in VaultAsset, NEW amount \in Nat
  PROVE  /\ Charged(a, amount).exists = a.exists
         /\ Charged(a, amount).window_seconds = a.window_seconds
         /\ Charged(a, amount).timelock_threshold = a.timelock_threshold
         /\ Charged(a, amount).max_per_transaction = a.max_per_transaction
         /\ ~WindowElapsed(a) =>
              /\ Charged(a, amount).window_started_at = a.window_started_at
              /\ Charged(a, amount).window_spent >= a.window_spent
<1>1. /\ Charged(a, amount).exists = a.exists
      /\ Charged(a, amount).window_seconds = a.window_seconds
      /\ Charged(a, amount).timelock_threshold = a.timelock_threshold
      /\ Charged(a, amount).max_per_transaction = a.max_per_transaction
  BY Zenon DEF Charged, VaultAsset
<1>2. ASSUME ~WindowElapsed(a)
      PROVE  /\ Charged(a, amount).window_started_at = a.window_started_at
             /\ Charged(a, amount).window_spent >= a.window_spent
  <2>1. a.window_spent \in Nat
    BY DEF VaultAsset
  <2>2. next_window_spent(a, amount) = a.window_spent + amount
    BY <1>2 DEF next_window_spent
  <2>3. CASE a.window_seconds = 0
    BY <2>1, <2>3 DEF Charged
  <2>4. CASE a.window_seconds # 0
    <3>1. Charged(a, amount) = [a EXCEPT !.window_started_at = a.window_started_at,
                                         !.window_spent = a.window_spent + amount]
      BY <1>2, <2>2, <2>4, Zenon DEF Charged
    <3>2. QED
      BY <2>1, <3>1 DEF VaultAsset
  <2>5. QED
    BY <2>3, <2>4, Zenon
<1>3. QED
  BY <1>1, <1>2, Zenon

(* Every step keeps the shape of the assets. *)
LEMMA AssetShapeNext ==
  ASSUME VaultTypeOK, RequestTargets, AssetShape, [VaultNext]_vaultVars
  PROVE  AssetShape'
<1> SUFFICES ASSUME NEW m \in Mints
             PROVE  /\ ~asset'[m].exists => asset'[m].window_seconds = 0
                    /\ asset'[m].window_seconds = 0 =>
                         asset'[m].timelock_threshold = asset'[m].max_per_transaction
  BY DEF AssetShape
<1>1. asset[m] \in VaultAsset /\ now \in Nat
  BY AssetTyped, ClockIsNat, Zenon
<1>2. CASE asset'[m] = asset[m]
  BY <1>2, Zenon DEF AssetShape
<1>3. CASE RegisterAsset(m)
  BY <1>3, Zenon DEF RegisterAsset, VaultTypeOK
<1>4. ASSUME NEW k \in Keys, NEW p \in PolicyChoices, UpdateLimits(k, m, p)
      PROVE  asset'[m].exists /\ asset'[m].window_seconds # 0
  <2>1. asset'[m].exists /\ asset'[m].window_seconds = p.window_seconds
    BY <1>4, ZenonT(30) DEF UpdateLimits, VaultTypeOK
  <2>2. QED
    BY <1>4, <2>1, ZeroIsNotPositive, Zenon DEF UpdateLimits, ValidPolicy
<1>5. ASSUME NEW amount \in Nat, asset'[m] = Charged(asset[m], amount)
      PROVE  /\ asset'[m].exists = asset[m].exists
             /\ asset'[m].window_seconds = asset[m].window_seconds
             /\ asset'[m].timelock_threshold = asset[m].timelock_threshold
             /\ asset'[m].max_per_transaction = asset[m].max_per_transaction
  <2>1. /\ Charged(asset[m], amount).exists = asset[m].exists
        /\ Charged(asset[m], amount).window_seconds = asset[m].window_seconds
        /\ Charged(asset[m], amount).timelock_threshold = asset[m].timelock_threshold
        /\ Charged(asset[m], amount).max_per_transaction = asset[m].max_per_transaction
    BY <1>1, ChargedEffect, Zenon
  <2>2. QED
    BY <1>5, <2>1, Zenon
<1>6. QED
  BY <1>2, <1>3, <1>4, <1>5, AssetStep, ZenonT(30) DEF AssetShape

(* The shape of the assets is an invariant. *)
LEMMA AssetShapeInvariant == VaultSpec => []AssetShape
<1>1. VaultInit => AssetShape
  BY DEF VaultInit, AssetShape, NoAsset
<1>2. VaultTypeOK /\ RequestTargets /\ AssetShape /\ [VaultNext]_vaultVars => AssetShape'
  BY AssetShapeNext
<1>3. QED
  BY <1>1, <1>2, VaultTypeCorrect, PTL DEF VaultSpec

(* While a window is live no instruction moves its start, changes its      *)
(* length or forgets a part of what was spent in it: update_limits cannot  *)
(* be used to refill a window early.                                       *)
THEOREM LiveWindowKept == VaultSpec => LiveWindowKeepsSpend
<1> DEFINE A == \A m \in Mints :
       asset[m].window_seconds > 0 /\ ~WindowElapsed(asset[m]) =>
         /\ asset'[m].window_started_at = asset[m].window_started_at
         /\ asset'[m].window_seconds = asset[m].window_seconds
         /\ asset'[m].window_spent >= asset[m].window_spent
<1>1. VaultTypeOK /\ RequestTargets /\ AssetShape /\ [VaultNext]_vaultVars => [A]_vaultVars
  <2> SUFFICES ASSUME VaultTypeOK, RequestTargets, AssetShape, [VaultNext]_vaultVars,
                      NEW m \in Mints,
                      asset[m].window_seconds > 0, ~WindowElapsed(asset[m])
               PROVE  /\ asset'[m].window_started_at = asset[m].window_started_at
                      /\ asset'[m].window_seconds = asset[m].window_seconds
                      /\ asset'[m].window_spent >= asset[m].window_spent
    OBVIOUS
  <2>1. asset[m] \in VaultAsset /\ now \in Nat
    BY AssetTyped, ClockIsNat, Zenon
  <2>2. asset[m].window_seconds \in Nat /\ asset[m].window_spent \in Nat
    BY <2>1, Zenon DEF VaultAsset
  <2>3. CASE asset'[m] = asset[m]
    BY <2>2, <2>3, AtLeastItself, Zenon
  <2>4. ~RegisterAsset(m)
    BY ZeroIsNotPositive, Zenon DEF RegisterAsset, AssetShape
  <2>5. ASSUME NEW k \in Keys, NEW p \in PolicyChoices, UpdateLimits(k, m, p)
        PROVE  /\ asset'[m].window_started_at = asset[m].window_started_at
               /\ asset'[m].window_seconds = asset[m].window_seconds
               /\ asset'[m].window_spent >= asset[m].window_spent
    <3>1. p.window_seconds = asset[m].window_seconds
      BY <2>5, ZeroIsNotPositive, Zenon DEF UpdateLimits, MayChangeDuration
    <3>2. ~StartsWindow(asset[m], p)
      BY <3>1, ZeroIsNotPositive, Zenon DEF StartsWindow
    <3>3. /\ asset'[m].window_started_at = asset[m].window_started_at
          /\ asset'[m].window_seconds = asset[m].window_seconds
          /\ asset'[m].window_spent = asset[m].window_spent
      BY <2>5, <3>1, <3>2, ZenonT(30) DEF UpdateLimits, VaultTypeOK
    <3>4. QED
      BY <2>2, <3>3, AtLeastItself, Zenon
  <2>6. ASSUME NEW amount \in Nat, asset'[m] = Charged(asset[m], amount)
        PROVE  /\ asset'[m].window_started_at = asset[m].window_started_at
               /\ asset'[m].window_seconds = asset[m].window_seconds
               /\ asset'[m].window_spent >= asset[m].window_spent
    BY <2>1, <2>6, ChargedEffect, ZenonT(30)
  <2>7. QED
    BY <2>3, <2>4, <2>5, <2>6, AssetStep, ZenonT(30)
<1>2. QED
  BY <1>1, VaultTypeCorrect, AssetShapeInvariant, PTL DEF VaultSpec, LiveWindowKeepsSpend

-----------------------------------------------------------------------------
(***************************************************************************)
(* Requests.                                                               *)
(***************************************************************************)

(* The counter of a vault that does not exist yet reads as zero. *)
CounterStarts == ~vault.exists => vault.next_withdrawal_id = 0

(* Only request_withdrawal moves the counter. *)
LEMMA CounterStep ==
  ASSUME VaultTypeOK, CounterStarts, [VaultNext]_vaultVars
  PROVE  /\ CounterStarts'
         /\ \/ /\ vault'.next_withdrawal_id = vault.next_withdrawal_id
               /\ \A k \in Keys, m \in Mints, a \in LiveAccounts, amount \in Amounts :
                     ~RequestWithdrawal(k, m, a, amount)
            \/ \E k \in Keys, m \in Mints, a \in LiveAccounts, amount \in Amounts :
                  RequestWithdrawal(k, m, a, amount)
<1>1. vault \in VaultRecord
  BY DEF VaultTypeOK, AccessTypeOK
<1>2. ASSUME NEW k \in Keys, NEW m \in Mints, NEW a \in LiveAccounts, NEW amount \in Amounts,
             RequestWithdrawal(k, m, a, amount)
      PROVE  CounterStarts'
  BY <1>1, <1>2, Zenon DEF RequestWithdrawal, TakeId, CounterStarts, VaultRecord
<1>3. ASSUME NEW f \in VaultFounders, CreateVault(f[1], f[2])
      PROVE  CounterStarts' /\ vault'.next_withdrawal_id = vault.next_withdrawal_id
  BY <1>3 DEF CreateVault, CounterStarts
<1>4. ASSUME NEW k \in Successors, SetVaultAuthority(k)
      PROVE  CounterStarts' /\ vault'.next_withdrawal_id = vault.next_withdrawal_id
  BY <1>1, <1>4, Zenon DEF SetVaultAuthority, CounterStarts, VaultRecord
<1>5. ASSUME NEW k \in Keys, PauseVault(k) \/ UnpauseVault(k)
      PROVE  CounterStarts' /\ vault'.next_withdrawal_id = vault.next_withdrawal_id
  BY <1>1, <1>5, Zenon DEF PauseVault, UnpauseVault, CounterStarts, VaultRecord
<1>6. ASSUME UNCHANGED vault
      PROVE  CounterStarts' /\ vault'.next_withdrawal_id = vault.next_withdrawal_id
  BY <1>6 DEF CounterStarts
<1>7. CASE AccessNext
  BY <1>3, <1>4, <1>5, <1>6, <1>7, ZenonT(30) DEF AccessNext, GrantRole, RevokeRole
<1>8. QED
  BY <1>2, <1>6, <1>7, Zenon
  DEF VaultNext, vaultVars, accessVars, RegisterAsset, UpdateLimits, Deposit, Withdraw,
      ExecuteWithdrawal, CancelWithdrawal, DirectTransfer, SetAccountOwner

(* What a new request is, and that nothing else becomes of the others. *)
NewRequest(id, m, a, amount) ==
  /\ id \in WithdrawalIds
  /\ requests[id].status = "Absent"
  /\ requests'[id].status = "Pending" /\ requests'[id].mint = m
  /\ requests'[id].recipient_token_account = a /\ requests'[id].amount = amount
  /\ requests'[id].created_at = now
  /\ requests'[id].execute_after = now + asset[m].timelock_seconds
  /\ requests'[id].expires_at = now + asset[m].timelock_seconds
                                + asset[m].request_execution_window_seconds
  /\ \A x \in WithdrawalIds \ {id} : requests'[x] = requests[x]
  /\ vault'.next_withdrawal_id = id + 1
  /\ asset[m].exists /\ asset' = asset

(* request_withdrawal makes one, under the vault's counter. *)
LEMMA RequestEffect ==
  ASSUME VaultTypeOK, NEW k \in Keys, NEW m \in Mints, NEW a \in LiveAccounts,
         NEW amount \in Amounts, RequestWithdrawal(k, m, a, amount),
         NEW id, id = vault.next_withdrawal_id
  PROVE  NewRequest(id, m, a, amount)
<1>1. vault \in VaultRecord /\ id \in Nat
  BY Zenon DEF VaultTypeOK, AccessTypeOK, VaultRecord
<1>2. /\ id < MaxWithdrawals /\ requests[id].status = "Absent"
      /\ vault' = [vault EXCEPT !.next_withdrawal_id = id + 1]
      /\ asset[m].exists /\ asset' = asset
  BY DEF RequestWithdrawal, TakeId
<1>3. id \in WithdrawalIds
  BY <1>1, <1>2, IdBelowBound, Zenon
<1>4. vault'.next_withdrawal_id = id + 1
  BY <1>1, <1>2, Zenon DEF VaultRecord
<1>5. requests' = [requests EXCEPT ![id] =
           [status |-> "Pending", mint |-> m, proposer |-> k,
            recipient_owner |-> AccountOwner(a),
            recipient_token_account |-> a, amount |-> amount,
            created_at |-> now, execute_after |-> now + asset[m].timelock_seconds,
            expires_at |-> now + asset[m].timelock_seconds
                           + asset[m].request_execution_window_seconds]]
  BY Zenon DEF RequestWithdrawal
<1>6. QED
  BY <1>2, <1>3, <1>4, <1>5, ZenonT(30) DEF VaultTypeOK, NewRequest

(* Settling a request changes its status alone. *)
LEMMA SettleEffect ==
  ASSUME VaultTypeOK, NEW id \in WithdrawalIds, NEW status \in {"Executed", "Cancelled"},
         requests' = [requests EXCEPT ![id].status = status]
  PROVE  /\ requests'[id] = [requests[id] EXCEPT !.status = status]
         /\ requests'[id].status = status
         /\ requests'[id].mint = requests[id].mint
         /\ requests'[id].recipient_token_account = requests[id].recipient_token_account
         /\ requests'[id].amount = requests[id].amount
         /\ requests'[id].created_at = requests[id].created_at
         /\ requests'[id].execute_after = requests[id].execute_after
         /\ requests'[id].expires_at = requests[id].expires_at
         /\ \A x \in WithdrawalIds \ {id} : requests'[x] = requests[x]
<1>1. requests[id] \in WithdrawalRequest
  BY Zenon DEF VaultTypeOK
<1>2. requests'[id] = [requests[id] EXCEPT !.status = status]
  BY Zenon DEF VaultTypeOK
<1>3. /\ requests'[id].status = status
      /\ requests'[id].mint = requests[id].mint
      /\ requests'[id].recipient_token_account = requests[id].recipient_token_account
      /\ requests'[id].amount = requests[id].amount
      /\ requests'[id].created_at = requests[id].created_at
      /\ requests'[id].execute_after = requests[id].execute_after
      /\ requests'[id].expires_at = requests[id].expires_at
  BY <1>1, <1>2 DEF WithdrawalRequest
<1>4. \A x \in WithdrawalIds \ {id} : requests'[x] = requests[x]
  BY Zenon DEF VaultTypeOK
<1>5. QED
  BY <1>2, <1>3, <1>4, Zenon

(* The request accounts in use are exactly those below the counter, so     *)
(* request_withdrawal always finds its account free, and no id is skipped  *)
(* or used twice.                                                          *)
THEOREM RequestIdsContiguous == VaultSpec => []RequestsContiguous
<1>1. VaultInit => RequestsContiguous /\ CounterStarts
  <2> SUFFICES ASSUME VaultInit
               PROVE  RequestsContiguous /\ CounterStarts
    OBVIOUS
  <2>1. vault.next_withdrawal_id = 0
    BY Zenon DEF VaultInit, AccessInit
  <2>2. ASSUME NEW id \in WithdrawalIds
        PROVE  requests[id].status = "Absent"
    BY DEF VaultInit, NoRequest
  <2>3. ASSUME NEW id \in WithdrawalIds
        PROVE  ~(id < 0)
    BY DEF WithdrawalIds
  <2>4. QED
    BY <2>1, <2>2, <2>3, Zenon DEF RequestsContiguous, CounterStarts
<1>2. VaultTypeOK /\ RequestsContiguous /\ CounterStarts /\ [VaultNext]_vaultVars
        => RequestsContiguous' /\ CounterStarts'
  <2> SUFFICES ASSUME VaultTypeOK, RequestsContiguous, CounterStarts, [VaultNext]_vaultVars
               PROVE  RequestsContiguous' /\ CounterStarts'
    OBVIOUS
  <2>1. CounterStarts'
    BY CounterStep, Zenon
  <2>2. ASSUME NEW k \in Keys, NEW m \in Mints, NEW a \in LiveAccounts, NEW amount \in Amounts,
               RequestWithdrawal(k, m, a, amount)
        PROVE  RequestsContiguous'
    <3> DEFINE n == vault.next_withdrawal_id
    <3>1. n \in Nat
      BY DEF VaultTypeOK, AccessTypeOK, VaultRecord
    <3>2. n = vault.next_withdrawal_id
      BY Zenon
    <3> HIDE DEF n
    <3>3. /\ n \in WithdrawalIds /\ requests'[n].status = "Pending"
          /\ \A x \in WithdrawalIds \ {n} : requests'[x] = requests[x]
          /\ vault'.next_withdrawal_id = n + 1
      <4>1. NewRequest(n, m, a, amount)
        BY <2>2, <3>2, RequestEffect, Zenon
      <4>2. QED
        BY <4>1, Zenon DEF NewRequest
    <3>4. ASSUME NEW id \in WithdrawalIds
          PROVE  requests'[id].status # "Absent" <=> id < n + 1
      <4>1. CASE id = n
        BY <3>1, <3>3, <4>1, AtLeastItself, Zenon
      <4>2. CASE id # n
        <5>1. id \in Nat
          BY IdIsNat, Zenon
        <5>2. requests'[id].status # "Absent" <=> id < n
          BY <3>2, <3>3, <4>2, Zenon DEF RequestsContiguous
        <5>3. QED
          BY <3>1, <4>2, <5>1, <5>2, UpToNext, Zenon
      <4>3. QED
        BY <4>1, <4>2, Zenon
    <3>5. QED
      BY <3>3, <3>4, Zenon DEF RequestsContiguous
  <2>3. CASE /\ vault'.next_withdrawal_id = vault.next_withdrawal_id
             /\ \A k \in Keys, m \in Mints, a \in LiveAccounts, amount \in Amounts :
                   ~RequestWithdrawal(k, m, a, amount)
    <3> SUFFICES ASSUME NEW id \in WithdrawalIds
                 PROVE  requests'[id].status # "Absent" <=> requests[id].status # "Absent"
      BY <2>1, <2>3, Zenon DEF RequestsContiguous
    <3>1. ASSUME NEW k \in Keys, CancelWithdrawal(k, id)
          PROVE  requests[id].status = "Pending" /\ requests'[id].status = "Cancelled"
      BY <3>1, SettleEffect, Zenon DEF CancelWithdrawal
    <3>2. ASSUME ExecuteWithdrawal(id)
          PROVE  requests[id].status = "Pending" /\ requests'[id].status = "Executed"
      BY <3>2, SettleEffect, ZenonT(30) DEF ExecuteWithdrawal, Executable
    <3>3. QED
      BY <2>3, <3>1, <3>2, RequestStep, Zenon
  <2>4. QED
    BY <2>1, <2>2, <2>3, CounterStep, Zenon
<1>3. QED
  BY <1>1, <1>2, VaultTypeCorrect, PTL DEF VaultSpec

(* A request exists only for an asset that has a window, and its times are *)
(* strictly ordered: no instruction takes the window away again, so every  *)
(* execution is charged to one.                                            *)
THEOREM RequestsAreWindowed == VaultSpec => []RequestedAssetHasWindow
<1> DEFINE Inv == VaultTypeOK /\ RequestTargets /\ AssetShape
<1>1. VaultInit => RequestedAssetHasWindow
  BY DEF VaultInit, RequestedAssetHasWindow, NoRequest
<1>2. Inv /\ RequestedAssetHasWindow /\ [VaultNext]_vaultVars => RequestedAssetHasWindow'
  <2> SUFFICES ASSUME VaultTypeOK, RequestTargets, AssetShape, RequestedAssetHasWindow,
                      [VaultNext]_vaultVars,
                      NEW id \in WithdrawalIds, requests'[id].status # "Absent"
               PROVE  /\ asset'[requests'[id].mint].exists
                      /\ asset'[requests'[id].mint].window_seconds > 0
                      /\ requests'[id].created_at < requests'[id].execute_after
                      /\ requests'[id].execute_after < requests'[id].expires_at
    BY Zenon DEF RequestedAssetHasWindow
  <2>1. ASSUME NEW m \in Mints, asset[m].exists, asset[m].window_seconds > 0
        PROVE  asset'[m].exists /\ asset'[m].window_seconds > 0
    <3>1. asset[m] \in VaultAsset /\ now \in Nat
      BY AssetTyped, ClockIsNat, Zenon
    <3>2. ~RegisterAsset(m)
      BY <2>1, ZenonT(30) DEF RegisterAsset
    <3>3. ASSUME NEW k \in Keys, NEW p \in PolicyChoices, UpdateLimits(k, m, p)
          PROVE  asset'[m].exists /\ asset'[m].window_seconds > 0
      <4>1. asset'[m].exists /\ asset'[m].window_seconds = p.window_seconds
        BY <3>3, Zenon DEF UpdateLimits, VaultTypeOK
      <4>2. QED
        BY <3>3, <4>1, Zenon DEF UpdateLimits, ValidPolicy
    <3>4. ASSUME NEW amount \in Nat, asset'[m] = Charged(asset[m], amount)
          PROVE  asset'[m].exists /\ asset'[m].window_seconds > 0
      <4>1. /\ Charged(asset[m], amount).exists = asset[m].exists
            /\ Charged(asset[m], amount).window_seconds = asset[m].window_seconds
        BY <3>1, ChargedEffect, Zenon
      <4>2. QED
        BY <2>1, <3>4, <4>1, Zenon
    <3>5. QED
      BY <2>1, <3>2, <3>3, <3>4, AssetStep, Zenon
  <2>2. ASSUME requests[id].status # "Absent",
               requests'[id].mint = requests[id].mint,
               requests'[id].created_at = requests[id].created_at,
               requests'[id].execute_after = requests[id].execute_after,
               requests'[id].expires_at = requests[id].expires_at
        PROVE  /\ asset'[requests'[id].mint].exists
               /\ asset'[requests'[id].mint].window_seconds > 0
               /\ requests'[id].created_at < requests'[id].execute_after
               /\ requests'[id].execute_after < requests'[id].expires_at
    <3>1. requests[id].mint \in Mints
      BY <2>2, Zenon DEF RequestTargets
    <3>2. QED
      BY <2>1, <2>2, <3>1, Zenon DEF RequestedAssetHasWindow
  <2>3. CASE requests'[id] = requests[id]
    BY <2>2, <2>3, Zenon
  <2>4. ASSUME NEW k \in Keys, CancelWithdrawal(k, id)
        PROVE  /\ asset'[requests'[id].mint].exists
               /\ asset'[requests'[id].mint].window_seconds > 0
               /\ requests'[id].created_at < requests'[id].execute_after
               /\ requests'[id].execute_after < requests'[id].expires_at
    BY <2>2, <2>4, SettleEffect, ZenonT(30) DEF CancelWithdrawal
  <2>5. CASE ExecuteWithdrawal(id)
    BY <2>2, <2>5, SettleEffect, ZenonT(30) DEF ExecuteWithdrawal, Executable
  <2>6. ASSUME id = vault.next_withdrawal_id,
               NEW k \in Keys, NEW m \in Mints, NEW a \in LiveAccounts, NEW amount \in Amounts,
               RequestWithdrawal(k, m, a, amount)
        PROVE  /\ asset'[requests'[id].mint].exists
               /\ asset'[requests'[id].mint].window_seconds > 0
               /\ requests'[id].created_at < requests'[id].execute_after
               /\ requests'[id].execute_after < requests'[id].expires_at
    <3>1. asset[m] \in VaultAsset
      BY ZenonT(30) DEF VaultTypeOK
    <3>2. /\ amount \in Nat
          /\ asset[m].window_seconds \in Nat /\ asset[m].timelock_threshold \in Nat
          /\ asset[m].max_per_transaction \in Nat
      BY AmountIsNat, <3>1, Zenon DEF VaultAsset
    <3>3. amount > asset[m].timelock_threshold /\ amount <= asset[m].max_per_transaction
      BY <2>6, Zenon DEF RequestWithdrawal
    <3>4. asset[m].window_seconds > 0
      <4>1. asset[m].timelock_threshold # asset[m].max_per_transaction
        BY <3>2, <3>3
      <4>2. asset[m].window_seconds # 0
        BY <4>1, Zenon DEF AssetShape
      <4>3. QED
        BY <3>2, <4>2
    <3>5. /\ requests'[id].mint = m /\ requests'[id].created_at = now
          /\ requests'[id].execute_after = now + asset[m].timelock_seconds
          /\ requests'[id].expires_at = now + asset[m].timelock_seconds
                                        + asset[m].request_execution_window_seconds
          /\ asset[m].exists /\ asset' = asset
      <4>1. NewRequest(id, m, a, amount)
        BY <2>6, RequestEffect, Zenon
      <4>2. QED
        BY <4>1, Zenon DEF NewRequest
    <3>6. /\ now + asset[m].timelock_seconds > now
          /\ now + asset[m].timelock_seconds + asset[m].request_execution_window_seconds
               > now + asset[m].timelock_seconds
      BY <2>6, Zenon DEF RequestWithdrawal
    <3>7. QED
      BY <3>4, <3>5, <3>6, ZenonT(30)
  <2>7. QED
    BY ZenonT(30), <2>3, <2>4, <2>5, <2>6, RequestStep
<1>3. QED
  BY <1>1, <1>2, VaultTypeCorrect, AssetShapeInvariant, PTL DEF VaultSpec

(* A step that does not execute a request pays nothing for it. *)
LEMMA OtherRequestsUnpaid ==
  ASSUME VaultTypeOK, [VaultNext]_vaultVars, NEW id \in WithdrawalIds, ~ExecuteWithdrawal(id)
  PROVE  paid_for'[id] = paid_for[id]
<1>1. ASSUME NEW x \in WithdrawalIds, ExecuteWithdrawal(x)
      PROVE  paid_for'[id] = paid_for[id]
  <2>1. x # id
    BY <1>1, Zenon
  <2>2. QED
    BY <1>1, <2>1, ZenonT(30) DEF ExecuteWithdrawal, VaultTypeOK
<1>2. CASE paid_for' = paid_for
  BY <1>2, Zenon
<1>3. UNCHANGED assetVars \/ UNCHANGED vaultVars => paid_for' = paid_for
  BY Zenon DEF assetVars, vaultVars
<1>4. ASSUME NEW m, RegisterAsset(m) \/ \E k, p : UpdateLimits(k, m, p)
      PROVE  paid_for' = paid_for
  BY <1>4, Zenon DEF RegisterAsset, UpdateLimits
<1>5. ASSUME NEW k, NEW m, NEW a, NEW amount,
             Deposit(k, m, a, amount) \/ Withdraw(k, m, a, amount)
      PROVE  paid_for' = paid_for
  BY <1>5, Zenon DEF Deposit, Withdraw
<1>6. ASSUME NEW k, NEW m, NEW a, NEW amount, RequestWithdrawal(k, m, a, amount)
      PROVE  paid_for' = paid_for
  BY <1>6, Zenon DEF RequestWithdrawal
<1>7. ASSUME NEW k, NEW x, CancelWithdrawal(k, x) \/ SetAccountOwner(k, x)
      PROVE  paid_for' = paid_for
  BY <1>7, Zenon DEF CancelWithdrawal, SetAccountOwner
<1>8. ASSUME NEW w, NEW a, NEW amount, DirectTransfer(w, a, amount)
      PROVE  paid_for' = paid_for
  BY <1>8, Zenon DEF DirectTransfer
<1>9. QED
  BY <1>1, <1>2, <1>3, <1>4, <1>5, <1>6, <1>7, <1>8, ZenonT(30) DEF VaultNext

(* Custody pays the amount of a request once if it is ever Executed, and   *)
(* nothing otherwise, over every sequence of requests, executions,         *)
(* cancellations, deposits and limit changes: nothing a later step does    *)
(* makes an executed request payable again.                                *)
THEOREM RequestsPaidAtMostOnce == VaultSpec => []RequestPaidAtMostOnce
<1>1. VaultInit => RequestPaidAtMostOnce
  <2> SUFFICES ASSUME VaultInit, NEW id \in WithdrawalIds
               PROVE  paid_for[id] = 0 /\ requests[id].status = "Absent"
    BY Zenon DEF RequestPaidAtMostOnce
  <2>1. paid_for[id] = 0 /\ requests[id] = NoRequest
    BY Zenon DEF VaultInit
  <2>2. QED
    BY <2>1 DEF NoRequest
<1>2. VaultTypeOK /\ RequestTargets /\ RequestPaidAtMostOnce /\ [VaultNext]_vaultVars
        => RequestPaidAtMostOnce'
  <2> SUFFICES ASSUME VaultTypeOK, RequestTargets, RequestPaidAtMostOnce,
                      [VaultNext]_vaultVars, NEW id \in WithdrawalIds
               PROVE  paid_for'[id] = IF requests'[id].status = "Executed"
                                      THEN requests'[id].amount ELSE 0
    BY Zenon DEF RequestPaidAtMostOnce
  <2>1. requests[id].status # "Executed" => paid_for[id] = 0
    BY Zenon DEF RequestPaidAtMostOnce
  <2>2. CASE ExecuteWithdrawal(id)
    <3>1. /\ requests[id].status = "Pending"
          /\ requests'[id].status = "Executed"
          /\ requests'[id].amount = requests[id].amount
      BY <2>2, SettleEffect, ZenonT(30) DEF ExecuteWithdrawal, Executable
    <3>2. /\ requests[id].amount \in Nat
          /\ paid_for'[id] = paid_for[id] + requests[id].amount
      BY <2>2, ExecutionPays, Zenon DEF VaultTypeOK
    <3>3. paid_for'[id] = 0 + requests[id].amount
      BY <2>1, <3>1, <3>2, Zenon
    <3>4. QED
      BY <3>1, <3>2, <3>3
  <2>3. ~ExecuteWithdrawal(id) => paid_for'[id] = paid_for[id]
    BY OtherRequestsUnpaid, Zenon
  <2>4. ASSUME NEW k \in Keys, CancelWithdrawal(k, id)
        PROVE  /\ paid_for'[id] = paid_for[id]
               /\ requests[id].status = "Pending" /\ requests'[id].status = "Cancelled"
    <3>1. paid_for' = paid_for
      BY <2>4, Zenon DEF CancelWithdrawal
    <3>2. QED
      BY <2>4, <3>1, SettleEffect, Zenon DEF CancelWithdrawal
  <2>5. ASSUME id = vault.next_withdrawal_id,
               NEW k \in Keys, NEW m \in Mints, NEW a \in LiveAccounts, NEW amount \in Amounts,
               RequestWithdrawal(k, m, a, amount)
        PROVE  /\ paid_for'[id] = paid_for[id]
               /\ requests[id].status = "Absent" /\ requests'[id].status = "Pending"
    <3>1. NewRequest(id, m, a, amount)
      BY <2>5, RequestEffect, Zenon
    <3>2. paid_for' = paid_for
      BY <2>5, Zenon DEF RequestWithdrawal
    <3>3. QED
      BY <3>1, <3>2, Zenon DEF NewRequest
  <2>6. CASE requests'[id] = requests[id] /\ ~ExecuteWithdrawal(id)
    BY <2>3, <2>6, Zenon DEF RequestPaidAtMostOnce
  <2>7. QED
    BY <2>1, <2>2, <2>4, <2>5, <2>6, RequestStep, Zenon
<1>3. QED
  BY <1>1, <1>2, VaultTypeCorrect, PTL DEF VaultSpec

-----------------------------------------------------------------------------
(***************************************************************************)
(* Outflows.                                                               *)
(***************************************************************************)

(* The custody of x lost the amount to an account, as an outflow of m.     *)
PaidFrom(x, m, to, amount) ==
  /\ x = m
  /\ balance[Custody(x)] - balance'[Custody(x)] = amount
  /\ balance'[to] = balance[to] + amount
  /\ ~vault.paused /\ "VAULT_OUTFLOW" \notin protocol_config.pause_flags

(* An outflow takes the amount from the custody of its own mint alone.     *)
LEMMA PayOutBalance ==
  ASSUME VaultTypeOK, NEW m \in Mints, NEW to \in TokenAccounts, NEW amount \in Nat,
         PayOut(m, to, amount), NEW x \in Mints, balance'[Custody(x)] < balance[Custody(x)]
  PROVE  PaidFrom(x, m, to, amount)
<1>1. Custody(m) \in TokenAccounts /\ Custody(x) \in TokenAccounts
  BY CustodyIsAccount, Zenon
<1>2. /\ balance[Custody(m)] \in Nat /\ balance[Custody(x)] \in Nat
      /\ balance[to] \in Nat
  BY <1>1, BalanceIsNat, Zenon
<1>3. ExactTransfer(Custody(m), to, amount)
  BY Zenon DEF PayOut
<1>4. Moved(TokenAccounts, Custody(m), to, amount)
  <2>1. balance \in [TokenAccounts -> 0 .. U64Max]
    BY Zenon DEF VaultTypeOK
  <2>2. QED
    BY <1>1, <1>3, <2>1, TransferMoves, Zenon
<1>5. Custody(x) = Custody(m)
  BY <1>1, <1>2, <1>4, OnlySourceLoses, Zenon
<1>6. x = m
  BY <1>5, SMTT(30) DEF Custody
<1>7. ~vault.paused /\ "VAULT_OUTFLOW" \notin protocol_config.pause_flags
  BY ZenonT(30) DEF PayOut, require_protocol_active
<1>8. QED
  <2>1. balance[Custody(m)] - (balance[Custody(m)] - amount) = amount
    BY <1>2, AddingTakesNothing, Zenon
  <2>2. QED
    BY <1>4, <1>6, <1>7, <2>1, Zenon DEF Moved, PaidFrom

(* An outflow of m respects the limits in force: the maximum, and the      *)
(* window it is charged to.                                                *)
WithinLimits(m, amount) ==
  /\ amount <= asset[m].max_per_transaction
  /\ asset[m].window_seconds > 0 =>
       /\ amount <= asset'[m].window_spent
       /\ asset'[m].window_spent <= asset[m].window_limit

(* What a window has spent is at least what is being charged to it. *)
LEMMA SpendIncludesAmount ==
  ASSUME NEW a \in VaultAsset, NEW amount \in Nat
  PROVE  amount <= next_window_spent(a, amount)
<1>1. a.window_spent \in Nat
  BY Zenon DEF VaultAsset
<1>2. amount <= amount /\ amount <= a.window_spent + amount
  BY <1>1
<1>3. QED
  BY <1>2, Zenon DEF next_window_spent

(* PayOut does: it checks the asset as it is then. *)
LEMMA PayOutWithinLimits ==
  ASSUME VaultTypeOK, NEW m \in Mints, NEW to, NEW amount \in Nat, PayOut(m, to, amount)
  PROVE  WithinLimits(m, amount)
<1>1. asset[m] \in VaultAsset
  BY AssetTyped, Zenon
<1>2. amount <= asset[m].max_per_transaction /\ WindowAllows(asset[m], amount)
  BY Zenon DEF PayOut
<1>3. ASSUME asset[m].window_seconds > 0
      PROVE  /\ amount <= asset'[m].window_spent
             /\ asset'[m].window_spent <= asset[m].window_limit
  <2>1. asset[m].window_seconds # 0
    BY <1>3, ZeroIsNotPositive, Zenon
  <2>2. Charged(asset[m], amount).window_spent = next_window_spent(asset[m], amount)
    BY <1>1, <2>1, Zenon DEF Charged, VaultAsset
  <2>3. asset'[m].window_spent = next_window_spent(asset[m], amount)
    BY <2>2, PayOutAsset, Zenon
  <2>4. next_window_spent(asset[m], amount) <= asset[m].window_limit
    BY <1>2, <2>1, Zenon DEF WindowAllows
  <2>5. QED
    BY <1>1, <2>3, <2>4, SpendIncludesAmount, Zenon
<1>4. QED
  BY <1>2, <1>3, Zenon DEF WithinLimits

(* A transfer from a wallet takes nothing from custody. *)
LEMMA WalletTransferKeepsCustody ==
  ASSUME VaultTypeOK, NEW w \in Wallets, NEW to \in TokenAccounts, NEW amount \in Nat,
         ExactTransfer(w, to, amount), NEW x \in Mints
  PROVE  ~(balance'[Custody(x)] < balance[Custody(x)])
<1>1. w \in TokenAccounts /\ Custody(x) \in TokenAccounts
  BY CustodyIsAccount, Zenon DEF TokenAccounts
<1>2. Custody(x) # w
  BY VaultAssumption, Zenon DEF CustodyAccounts
<1>3. balance[Custody(x)] \in Nat
  BY <1>1, BalanceIsNat, Zenon
<1>4. Moved(TokenAccounts, w, to, amount)
  <2>1. balance \in [TokenAccounts -> 0 .. U64Max]
    BY Zenon DEF VaultTypeOK
  <2>2. QED
    BY <1>1, <2>1, TransferMoves, Zenon
<1>5. QED
  BY <1>1, <1>2, <1>3, <1>4, OnlySourceLoses, Zenon

(* Custody loses tokens only while outflows are active and within the      *)
(* limits then in force, by at most the instant threshold or by the        *)
(* execution of a request in its stored terms.                             *)
THEOREM OutflowsFollowRules == VaultSpec => OutflowFollowsRules
<1> DEFINE
     paid(m) == balance[Custody(m)] - balance'[Custody(m)]
     Executes(m, id) ==
       /\ requests[id].status = "Pending"
       /\ requests'[id].status = "Executed"
       /\ requests[id].mint = m /\ requests[id].amount = paid(m)
       /\ now \in requests[id].execute_after .. requests[id].expires_at
       /\ AccountOwner(requests[id].recipient_token_account) = requests[id].recipient_owner
       /\ balance'[requests[id].recipient_token_account]
            = balance[requests[id].recipient_token_account] + paid(m)
     Ruled(m) ==
       /\ ~vault.paused
       /\ "VAULT_OUTFLOW" \notin protocol_config.pause_flags
       /\ paid(m) <= asset[m].max_per_transaction
       /\ asset[m].window_seconds > 0 =>
            /\ paid(m) <= asset'[m].window_spent
            /\ asset'[m].window_spent <= asset[m].window_limit
       /\ \/ paid(m) <= asset[m].timelock_threshold /\ requests' = requests
          \/ \E id \in WithdrawalIds : Executes(m, id)
<1>1. VaultTypeOK /\ RequestTargets /\ [VaultNext]_vaultVars
        => [\A m \in Mints : paid(m) > 0 => Ruled(m)]_vaultVars
  <2> SUFFICES ASSUME VaultTypeOK, RequestTargets, VaultNext, NEW x \in Mints, paid(x) > 0
               PROVE  Ruled(x)
    BY ZenonT(30)
  <2>1. Custody(x) \in TokenAccounts
    BY CustodyIsAccount, Zenon
  <2>2. balance[Custody(x)] \in Nat /\ balance'[Custody(x)] \in Nat
    <3>1. balance[Custody(x)] \in Nat
      BY <2>1, BalanceIsNat, ZenonT(30)
    <3>2. balance' \in [TokenAccounts -> 0 .. U64Max]
      BY VaultNextType, Zenon DEF VaultTypeOK
    <3>3. QED
      BY <2>1, <3>1, <3>2, U64IsNat, Zenon
  <2>3. balance'[Custody(x)] < balance[Custody(x)]
    BY <2>2, PositiveDifference, Zenon
  <2>4. ASSUME NEW k \in Keys, NEW m \in Mints, NEW a \in LiveAccounts, NEW amount \in Amounts,
               Withdraw(k, m, a, amount)
        PROVE  Ruled(x)
    <3>1. a \in TokenAccounts
      BY LiveAccountsAreAccounts, Zenon
    <3>2. amount \in Nat
      BY AmountIsNat, Zenon
    <3>3. PayOut(m, a, amount) /\ requests' = requests /\ amount <= asset[m].timelock_threshold
      BY <2>4, Zenon DEF Withdraw
    <3>4. /\ x = m /\ paid(x) = amount
          /\ ~vault.paused /\ "VAULT_OUTFLOW" \notin protocol_config.pause_flags
      <4>1. PaidFrom(x, m, a, amount)
        BY <2>3, <3>1, <3>2, <3>3, PayOutBalance, Zenon
      <4>2. QED
        BY <4>1, Zenon DEF PaidFrom
    <3>5. WithinLimits(m, amount)
      BY <3>2, <3>3, PayOutWithinLimits, Zenon
    <3>6. QED
      BY <3>3, <3>4, <3>5, Zenon DEF WithinLimits
  <2>5. ASSUME NEW id \in WithdrawalIds, ExecuteWithdrawal(id)
        PROVE  Ruled(x)
    <3> DEFINE r == requests[id]
    <3>1. r \in WithdrawalRequest /\ now \in Nat
      BY RequestTyped, ClockIsNat, Zenon
    <3>2. /\ r.status = "Pending" /\ now >= r.execute_after /\ now <= r.expires_at
          /\ AccountOwner(r.recipient_token_account) = r.recipient_owner
          /\ PayOut(r.mint, r.recipient_token_account, r.amount)
          /\ requests' = [requests EXCEPT ![id].status = "Executed"]
      BY <2>5, Zenon DEF ExecuteWithdrawal, Executable
    <3>3. /\ r.mint \in Mints /\ r.recipient_token_account \in TokenAccounts
          /\ r.amount \in Nat /\ r.execute_after \in Nat /\ r.expires_at \in Nat
      BY <3>1, <3>2, Zenon DEF RequestTargets, WithdrawalRequest
    <3>4. /\ x = r.mint /\ paid(x) = r.amount
          /\ balance'[r.recipient_token_account]
               = balance[r.recipient_token_account] + r.amount
          /\ ~vault.paused /\ "VAULT_OUTFLOW" \notin protocol_config.pause_flags
      <4>1. PaidFrom(x, r.mint, r.recipient_token_account, r.amount)
        BY <2>3, <3>2, <3>3, PayOutBalance, Zenon
      <4>2. QED
        BY <4>1, Zenon DEF PaidFrom
    <3>5. requests'[id].status = "Executed"
      BY ZenonT(30), <3>2, SettleEffect
    <3>6. now \in r.execute_after .. r.expires_at
      BY <3>1, <3>2, <3>3, BetweenBounds, Zenon
    <3>7. Executes(x, id)
      BY <3>2, <3>4, <3>5, <3>6, Zenon
    <3>8. WithinLimits(r.mint, r.amount)
      BY <3>2, <3>3, PayOutWithinLimits, Zenon
    <3>9. QED
      BY <3>4, <3>7, <3>8, Zenon DEF WithinLimits
  <2>6. ASSUME NEW k \in Keys, NEW m \in Mints, NEW w \in Wallets, NEW amount \in Amounts,
               Deposit(k, m, w, amount)
        PROVE  FALSE
    <3>1. amount \in Nat /\ Custody(m) \in TokenAccounts /\ ExactTransfer(w, Custody(m), amount)
      BY AmountIsNat, <2>6, CustodyIsAccount, Zenon DEF Deposit
    <3>2. QED
      BY <2>3, <3>1, WalletTransferKeepsCustody, ZenonT(30)
  <2>7. ASSUME NEW w \in Wallets, NEW a \in LiveAccounts, NEW amount \in Amounts,
               DirectTransfer(w, a, amount)
        PROVE  FALSE
    <3>1. a \in TokenAccounts
      BY LiveAccountsAreAccounts, ZenonT(30)
    <3>2. amount \in Nat /\ ExactTransfer(w, a, amount)
      BY AmountIsNat, <2>7, Zenon DEF DirectTransfer
    <3>3. QED
      BY <2>3, <3>1, <3>2, WalletTransferKeepsCustody, Zenon
  <2>8. balance' # balance
    BY <2>2, <2>3, AtLeastItself, Zenon
  <2> HIDE DEF Ruled, paid
  <2>9. /\ UNCHANGED assetVars => balance' = balance
        /\ \A m \in Mints : RegisterAsset(m) => balance' = balance
        /\ \A k \in Keys, m \in Mints, p \in PolicyChoices :
             UpdateLimits(k, m, p) => balance' = balance
    BY ZenonT(30) DEF assetVars, RegisterAsset, UpdateLimits
  <2>10. ASSUME NEW k, NEW m, NEW a, NEW amount, RequestWithdrawal(k, m, a, amount)
         PROVE  balance' = balance
    BY <2>10, Zenon DEF RequestWithdrawal
  <2>11. /\ \A k \in Keys, id \in WithdrawalIds :
              CancelWithdrawal(k, id) => balance' = balance
         /\ \A c \in OwnerChanges : SetAccountOwner(c[1], c[2]) => balance' = balance
    BY Zenon DEF CancelWithdrawal, SetAccountOwner
  <2>12. QED
    BY <2>4, <2>5, <2>6, <2>7, <2>8, <2>9, <2>10, <2>11, ZenonT(30) DEF VaultNext
<1>2. QED
  BY <1>1, VaultTypeCorrect, PTL DEF VaultSpec, OutflowFollowsRules

-----------------------------------------------------------------------------
(***************************************************************************)
(* The configuration pause.                                                *)
(***************************************************************************)

(* Charging an outflow to a window leaves the policy alone. *)
LEMMA ChargedKeepsPolicy ==
  ASSUME NEW a \in VaultAsset, NEW amount \in Nat
  PROVE  PolicyOf(Charged(a, amount)) = PolicyOf(a)
<1>1. CASE a.window_seconds = 0
  BY <1>1, Zenon DEF Charged
<1>2. CASE a.window_seconds # 0
  <2> DEFINE start == IF WindowElapsed(a) THEN now ELSE a.window_started_at
             spent == next_window_spent(a, amount)
  <2>1. Charged(a, amount) = [a EXCEPT !.window_started_at = start, !.window_spent = spent]
    BY <1>2 DEF Charged
  <2> HIDE DEF start, spent
  <2>2. QED
    BY <2>1 DEF PolicyOf, VaultAsset
<1>3. QED
  BY <1>1, <1>2, Zenon

(* Under the configuration pause a step of VaultAccess moves the local     *)
(* pause and nothing else.                                                 *)
LEMMA PausedAccess ==
  ASSUME VaultTypeOK, "VAULT_CONFIG" \in protocol_config.pause_flags, AccessNext
  PROVE  /\ roles' = roles /\ vault'.exists = vault.exists
         /\ vault'.authority = vault.authority /\ vault'.guardian = vault.guardian
<1>1. vault \in VaultRecord
  BY Zenon DEF VaultTypeOK, AccessTypeOK
<1>2. PICK k \in Keys : PauseVault(k) \/ UnpauseVault(k)
  BY Zenon DEF AccessNext, CreateVault, SetVaultAuthority, GrantRole, RevokeRole,
               require_protocol_active
<1>3. QED
  BY <1>1, <1>2, Zenon DEF PauseVault, UnpauseVault, VaultRecord

(* While VAULT_CONFIG is paused no instruction, whoever signs it, changes  *)
(* the authority, the guardian, a role or a policy of the vault.           *)
THEOREM ConfigFrozen == VaultSpec => ConfigPauseFreezesConfig
<1> DEFINE Paused == protocol_config.exists /\ "VAULT_CONFIG" \in protocol_config.pause_flags
           Frozen == /\ vault'.exists = vault.exists
                     /\ vault'.authority = vault.authority
                     /\ vault'.guardian = vault.guardian
                     /\ roles' = roles
                     /\ \A m \in Mints : PolicyOf(asset'[m]) = PolicyOf(asset[m])
<1>1. VaultTypeOK /\ RequestTargets /\ [VaultNext]_vaultVars => [Paused => Frozen]_vaultVars
  <2> SUFFICES ASSUME VaultTypeOK, RequestTargets, [VaultNext]_vaultVars, Paused
               PROVE  Frozen
    OBVIOUS
  <2>1. /\ vault'.exists = vault.exists
        /\ vault'.authority = vault.authority /\ vault'.guardian = vault.guardian
        /\ roles' = roles
    BY AccessFrame, PausedAccess, Zenon
  <2>2. ASSUME NEW m \in Mints
        PROVE  PolicyOf(asset'[m]) = PolicyOf(asset[m])
    <3>1. asset[m] \in VaultAsset
      BY AssetTyped, Zenon
    <3>2. /\ ~RegisterAsset(m)
          /\ \A k \in Keys, p \in PolicyChoices : ~UpdateLimits(k, m, p)
      BY Zenon DEF RegisterAsset, UpdateLimits, require_protocol_active
    <3>3. \/ asset'[m] = asset[m]
          \/ \E amount \in Nat : asset'[m] = Charged(asset[m], amount)
      BY <3>2, AssetStep, Zenon
    <3>4. QED
      BY <3>1, <3>3, ChargedKeepsPolicy, Zenon
  <2>3. QED
    BY <2>1, <2>2, ZenonT(30)
<1>2. QED
  BY <1>1, VaultTypeCorrect, PTL DEF VaultSpec, ConfigPauseFreezesConfig

=============================================================================
