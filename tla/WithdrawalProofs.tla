-------------------------- MODULE WithdrawalProofs --------------------------
(***************************************************************************)
(* Withdrawals as those who are not the vault see them: the supply of a    *)
(* mint, the promise to a watcher, the guardian's veto, and the SDK's      *)
(* calls, for any number of clients over a vault that anyone else uses as  *)
(* well.                                                                   *)
(***************************************************************************)
EXTENDS VaultClient, VaultProofs

-----------------------------------------------------------------------------
(***************************************************************************)
(* Supply. Every instruction that moves tokens moves them between two      *)
(* accounts of one mint.                                                   *)
(***************************************************************************)

(* The custody account of a mint is an account of that mint. *)
LEMMA CustodyMint ==
  ASSUME NEW m \in Mints
  PROVE  AccountMint(Custody(m)) = m
<1>1. Custody(m) \notin Wallets
  BY VaultAssumption, Zenon DEF CustodyAccounts
<1>2. QED
  BY <1>1, Zenon DEF AccountMint, Custody

(* A step leaves the balances alone or is a transfer within a mint. *)
LEMMA BalanceStep ==
  ASSUME VaultTypeOK, RequestTargets, [VaultNext]_vaultVars
  PROVE  \/ balance' = balance
         \/ \E from, to \in TokenAccounts, amount \in Nat :
              ExactTransfer(from, to, amount) /\ AccountMint(from) = AccountMint(to)
<1> DEFINE Goal == \/ balance' = balance
                   \/ \E from, to \in TokenAccounts, amount \in Nat :
                        ExactTransfer(from, to, amount) /\ AccountMint(from) = AccountMint(to)
<1>1. ASSUME NEW m \in Mints, NEW to \in TokenAccounts, NEW amount \in Nat,
             PayOut(m, to, amount)
      PROVE  Goal
  <2>1. ExactTransfer(Custody(m), to, amount) /\ AccountMint(to) = m
    BY <1>1, Zenon DEF PayOut
  <2>2. Custody(m) \in TokenAccounts /\ AccountMint(Custody(m)) = m
    BY CustodyIsAccount, CustodyMint, Zenon
  <2>3. QED
    BY <2>1, <2>2, Zenon
<1>2. ASSUME NEW k \in Keys, NEW m \in Mints, NEW a \in LiveAccounts, NEW amount \in Amounts,
             Withdraw(k, m, a, amount)
      PROVE  Goal
  <2>1. a \in TokenAccounts
    BY LiveAccountsAreAccounts, Zenon
  <2>2. amount \in Nat
    BY AmountIsNat, Zenon
  <2>3. PayOut(m, a, amount)
    BY <1>2, Zenon DEF Withdraw
  <2> HIDE DEF Goal
  <2>4. QED
    BY <1>1, <2>1, <2>2, <2>3, Zenon
<1>3. ASSUME NEW id \in WithdrawalIds, ExecuteWithdrawal(id)
      PROVE  Goal
  <2>1. requests[id] \in WithdrawalRequest
    BY RequestTyped, Zenon
  <2>2. /\ requests[id].status = "Pending"
        /\ PayOut(requests[id].mint, requests[id].recipient_token_account,
                  requests[id].amount)
    BY <1>3, Zenon DEF ExecuteWithdrawal, Executable
  <2>3. /\ requests[id].mint \in Mints
        /\ requests[id].recipient_token_account \in TokenAccounts
        /\ requests[id].amount \in Nat
    BY <2>1, <2>2, Zenon DEF RequestTargets, WithdrawalRequest
  <2> HIDE DEF Goal
  <2>4. QED
    BY <1>1, <2>2, <2>3, Zenon
<1>4. ASSUME NEW k \in Keys, NEW m \in Mints, NEW w \in Wallets, NEW amount \in Amounts,
             Deposit(k, m, w, amount)
      PROVE  Goal
  <2>1. ExactTransfer(w, Custody(m), amount) /\ WalletMint[w] = m
    BY <1>4, Zenon DEF Deposit
  <2>2. /\ w \in TokenAccounts /\ AccountMint(w) = WalletMint[w]
        /\ Custody(m) \in TokenAccounts /\ AccountMint(Custody(m)) = m
    BY CustodyIsAccount, CustodyMint, Zenon DEF AccountMint, TokenAccounts
  <2>3. amount \in Nat
    BY AmountIsNat, Zenon
  <2>4. QED
    BY <2>1, <2>2, <2>3, Zenon
<1>5. ASSUME NEW w \in Wallets, NEW a \in LiveAccounts, NEW amount \in Amounts,
             DirectTransfer(w, a, amount)
      PROVE  Goal
  <2>1. ExactTransfer(w, a, amount) /\ AccountMint(w) = AccountMint(a)
    BY <1>5, Zenon DEF DirectTransfer
  <2>2. w \in TokenAccounts /\ a \in TokenAccounts
    BY LiveAccountsAreAccounts, Zenon DEF TokenAccounts
  <2>3. amount \in Nat
    BY AmountIsNat, Zenon
  <2>4. QED
    BY <2>1, <2>2, <2>3, Zenon
<1>6. /\ UNCHANGED assetVars => balance' = balance
      /\ UNCHANGED vaultVars => balance' = balance
      /\ \A m \in Mints : RegisterAsset(m) => balance' = balance
      /\ \A k \in Keys, m \in Mints, p \in PolicyChoices :
           UpdateLimits(k, m, p) => balance' = balance
  BY ZenonT(30) DEF assetVars, vaultVars, RegisterAsset, UpdateLimits
<1>7. ASSUME NEW k, NEW m, NEW a, NEW amount, RequestWithdrawal(k, m, a, amount)
      PROVE  balance' = balance
  BY <1>7, Zenon DEF RequestWithdrawal
<1>8. /\ \A k \in Keys, id \in WithdrawalIds :
           CancelWithdrawal(k, id) => balance' = balance
      /\ \A c \in OwnerChanges : SetAccountOwner(c[1], c[2]) => balance' = balance
  BY Zenon DEF CancelWithdrawal, SetAccountOwner
<1>9. balance' = balance => Goal
  BY Zenon
<1> HIDE DEF Goal
<1>10. Goal
  BY <1>2, <1>3, <1>4, <1>5, <1>6, <1>7, <1>8, <1>9, ZenonT(30) DEF VaultNext
<1>11. QED
  BY <1>10, Zenon DEF Goal

(* The token accounts are finitely many. *)
LEMMA AccountsFinite ==
  ASSUME NEW A \in SUBSET TokenAccounts
  PROVE  IsFiniteSet(A)
<1>1. IsFiniteSet({"vault_token"} \X Mints)
  BY VaultAssumption, FS_Singleton, FS_Product, Zenon
<1>2. CustodyAccounts \in SUBSET ({"vault_token"} \X Mints)
  BY DEF CustodyAccounts, Custody
<1>3. IsFiniteSet(CustodyAccounts)
  BY <1>1, <1>2, FS_Subset, Zenon
<1>4. IsFiniteSet(TokenAccounts)
  BY <1>3, SupplyAssumption, FS_Union, Zenon DEF TokenAccounts
<1>5. QED
  BY <1>4, FS_Subset, Zenon

(* The vault instructions neither make nor lose a unit of any mint.        *)
THEOREM VaultConservesSupply == VaultSpec => []SupplyConserved
<1>1. VaultInit => SupplyConserved
  <2> SUFFICES ASSUME VaultInit, NEW m \in Mints
               PROVE  Coins(balance, AccountsOf(m)) = Coins(InitialBalances, WalletsOf(m))
    BY Zenon DEF SupplyConserved, InitialSupply
  <2>1. /\ \A w \in Wallets : w \in TokenAccounts /\ balance[w] = InitialBalances[w]
        /\ \A a \in TokenAccounts : a \in Wallets \/ balance[a] = 0
    BY Zenon DEF VaultInit, TokenAccounts
  <2>2. \A w \in Wallets : w \in AccountsOf(m) <=> w \in WalletsOf(m)
    BY Zenon DEF AccountsOf, AccountMint, WalletsOf, TokenAccounts
  <2>3. AccountsOf(m) \subseteq TokenAccounts /\ WalletsOf(m) \subseteq Wallets
    BY Zenon DEF AccountsOf, WalletsOf
  <2>4. QED
    BY <2>1, <2>2, <2>3 DEF Coins
<1>2. VaultTypeOK /\ RequestTargets /\ SupplyConserved /\ [VaultNext]_vaultVars
        => SupplyConserved'
  <2> SUFFICES ASSUME VaultTypeOK, RequestTargets, SupplyConserved, [VaultNext]_vaultVars,
                      NEW m \in Mints
               PROVE  Cardinality(Coins(balance', AccountsOf(m))) = InitialSupply(m)
    BY Zenon DEF SupplyConserved, AccountsOf, AccountMint, Coins
  <2>1. Cardinality(Coins(balance, AccountsOf(m))) = InitialSupply(m)
    BY Zenon DEF SupplyConserved
  <2>2. CASE balance' = balance
    BY <2>1, <2>2, Zenon
  <2>3. ASSUME NEW from \in TokenAccounts, NEW to \in TokenAccounts, NEW amount \in Nat,
               ExactTransfer(from, to, amount), AccountMint(from) = AccountMint(to)
        PROVE  Cardinality(Coins(balance', AccountsOf(m))) = InitialSupply(m)
    <3> DEFINE A == AccountsOf(m)
    <3>1. A \in SUBSET TokenAccounts /\ (from \in A <=> to \in A)
      BY <2>3, Zenon DEF AccountsOf
    <3>2. balance \in [TokenAccounts -> 0 .. U64Max] /\ IsFiniteSet(A)
      BY <3>1, AccountsFinite, Zenon DEF VaultTypeOK
    <3> HIDE DEF A
    <3>3. Cardinality(Coins(balance', A)) = Cardinality(Coins(balance, A))
      BY <2>3, <3>1, <3>2, ExactTransferKeepsSupply, ZenonT(30)
    <3>4. QED
      BY <2>1, <3>3, Zenon DEF A
  <2>4. QED
    BY <2>2, <2>3, BalanceStep, Zenon
<1>3. QED
  BY <1>1, <1>2, VaultTypeCorrect, PTL DEF VaultSpec

(* Any two accounts of a mint together hold at most u64::MAX. *)
BalancesFit ==
  \A a, b \in TokenAccounts :
    a # b /\ AccountMint(a) = AccountMint(b) => balance[a] + balance[b] <= U64Max

(* The overflow checks on a destination never refuse anything: deposit,    *)
(* withdraw and execute_withdrawal can only fail for lack of funds, for    *)
(* their own rules, or because source and destination are one account.     *)
THEOREM VaultBalancesFit == VaultSpec => []BalancesFit
<1>1. VaultTypeOK /\ SupplyConserved => BalancesFit
  <2> SUFFICES ASSUME VaultTypeOK, SupplyConserved,
                      NEW a \in TokenAccounts, NEW b \in TokenAccounts,
                      a # b, AccountMint(a) = AccountMint(b)
               PROVE  balance[a] + balance[b] <= U64Max
    BY Zenon DEF BalancesFit
  <2> DEFINE m == AccountMint(a)
             A == AccountsOf(m)
  <2>1. m \in Mints
    <3>1. CASE a \in Wallets
      BY <3>1, LedgerAssumption, Zenon DEF AccountMint
    <3>2. CASE a \notin Wallets
      <4>1. PICK x \in Mints : a = Custody(x)
        BY <3>2, Zenon DEF TokenAccounts, CustodyAccounts
      <4>2. QED
        BY <4>1, CustodyMint, Zenon
    <3>3. QED
      BY <3>1, <3>2, Zenon
  <2>2. A \in SUBSET TokenAccounts /\ a \in A /\ b \in A
    BY Zenon DEF AccountsOf
  <2>3. IsFiniteSet(A)
    BY <2>2, AccountsFinite, ZenonT(30)
  <2>4. \A x \in A : balance[x] \in 0 .. U64Max
    BY <2>2, Zenon DEF VaultTypeOK
  <2>5. Cardinality(Coins(balance, A)) <= U64Max
    BY <2>1, SupplyAssumption, Zenon DEF SupplyConserved
  <2> HIDE DEF m, A
  <2>6. Cardinality(Coins(balance, A)) \in Nat
    BY <2>3, CoinsFinite, Zenon
  <2>7. balance[a] + balance[b] <= Cardinality(Coins(balance, A))
    BY <2>2, <2>3, <2>4, PairWithinSupply, ZenonT(30)
  <2>8. balance[a] \in Nat /\ balance[b] \in Nat
    BY BalanceIsNat, Zenon
  <2>9. QED
    BY <2>5, <2>6, <2>7, <2>8, LedgerAssumption
<1>2. QED
  BY <1>1, VaultConservesSupply, VaultTypeCorrect, PTL

-----------------------------------------------------------------------------
(***************************************************************************)
(* Refinement: the vault instructions implement WithdrawalPromise under    *)
(* the mapping of Vault. request_withdrawal maps to Announce,              *)
(* execute_withdrawal to Pay, cancel_withdrawal to Veto, withdraw to       *)
(* PayAtOnce, deposit and a holder's own transfer to HolderMoves,          *)
(* register_asset and update_limits to Adjust, the clock to Pass, and      *)
(* every other step to a stutter. A payment must move something, which the *)
(* type of a request does not say: RequestsMove does.                      *)
(***************************************************************************)

RequestsMove ==
  \A id \in WithdrawalIds : requests[id].status # "Absent" => requests[id].amount > 0

(* A request is made for more than nothing, and its amount never changes.  *)
LEMMA RequestsMoveInvariant == VaultSpec => []RequestsMove
<1>1. VaultInit => RequestsMove
  <2>1. VaultInit => \A id \in WithdrawalIds : requests[id] = NoRequest
    BY Zenon DEF VaultInit
  <2>2. NoRequest.status = "Absent"
    BY DEF NoRequest
  <2>3. QED
    BY <2>1, <2>2, Zenon DEF RequestsMove
<1>2. VaultTypeOK /\ RequestsMove /\ [VaultNext]_vaultVars => RequestsMove'
  <2> SUFFICES ASSUME VaultTypeOK, RequestsMove, [VaultNext]_vaultVars,
                      NEW id \in WithdrawalIds, requests'[id].status # "Absent"
               PROVE  requests'[id].amount > 0
    BY Zenon DEF RequestsMove
  <2>1. CASE requests'[id] = requests[id]
    BY <2>1, Zenon DEF RequestsMove
  <2>2. ASSUME NEW k \in Keys, CancelWithdrawal(k, id)
        PROVE  requests[id].status = "Pending" /\ requests'[id].amount = requests[id].amount
    BY <2>2, SettleEffect, Zenon DEF CancelWithdrawal
  <2>3. ASSUME ExecuteWithdrawal(id)
        PROVE  requests[id].status = "Pending" /\ requests'[id].amount = requests[id].amount
    BY <2>3, SettleEffect, ZenonT(30) DEF ExecuteWithdrawal, Executable
  <2>4. ASSUME id = vault.next_withdrawal_id,
               NEW k \in Keys, NEW m \in Mints, NEW a \in LiveAccounts, NEW amount \in Amounts,
               RequestWithdrawal(k, m, a, amount)
        PROVE  requests'[id].amount > 0
    <3>1. requests'[id].amount = amount
      <4>1. NewRequest(id, m, a, amount)
        BY <2>4, RequestEffect, Zenon
      <4>2. QED
        BY <4>1, Zenon DEF NewRequest
    <3>2. amount > 0
      BY <2>4, Zenon DEF RequestWithdrawal
    <3>3. QED
      BY <3>1, <3>2, Zenon
  <2>5. QED
    BY <2>1, <2>2, <2>3, <2>4, RequestStep, ZenonT(30) DEF RequestsMove
<1>3. QED
  BY <1>1, <1>2, VaultTypeCorrect, PTL DEF VaultSpec

tickets == [id \in WithdrawalIds |-> Ticket(id)]
reserves == [m \in Mints |-> Custody(m)]
limits == [m \in Mints |-> asset[m].timelock_threshold]

(* The terms of a request. *)
TermsOf(r) ==
  [asset |-> r.mint, payee |-> r.recipient_token_account, amount |-> r.amount,
   matures |-> r.execute_after, lapses |-> r.expires_at]

(* The ticket of a request in each of its statuses. *)
LEMMA TicketOf ==
  ASSUME NEW id \in WithdrawalIds
  PROVE  /\ tickets[id] = Ticket(id)
         /\ requests[id].status = "Absent" => Ticket(id) = [state |-> "none"]
         /\ requests[id].status = "Pending" =>
              Ticket(id) = [state |-> "waiting", terms |-> TermsOf(requests[id])]
         /\ requests[id].status = "Executed" =>
              Ticket(id) = [state |-> "paid", terms |-> TermsOf(requests[id])]
         /\ requests[id].status = "Cancelled" =>
              Ticket(id) = [state |-> "vetoed", terms |-> TermsOf(requests[id])]
  BY Zenon DEF Ticket, tickets, TermsOf

(* Its state. *)
LEMMA TicketStates ==
  ASSUME NEW id \in WithdrawalIds,
         requests[id].status \in {"Absent", "Pending", "Executed", "Cancelled"}
  PROVE  /\ tickets[id].state = "none" <=> requests[id].status = "Absent"
         /\ tickets[id].state = "waiting" <=> requests[id].status = "Pending"
<1>1. \/ requests[id].status = "Absent" /\ tickets[id] = [state |-> "none"]
      \/ requests[id].status = "Pending"
         /\ tickets[id] = [state |-> "waiting", terms |-> TermsOf(requests[id])]
      \/ requests[id].status = "Executed"
         /\ tickets[id] = [state |-> "paid", terms |-> TermsOf(requests[id])]
      \/ requests[id].status = "Cancelled"
         /\ tickets[id] = [state |-> "vetoed", terms |-> TermsOf(requests[id])]
  BY TicketOf, Zenon
<1>2. QED
  BY <1>1

(* The same of the next state. *)
LEMMA NextTicketOf ==
  ASSUME NEW id \in WithdrawalIds
  PROVE  /\ requests'[id].status = "Pending" =>
              tickets'[id] = [state |-> "waiting", terms |-> TermsOf(requests'[id])]
         /\ requests'[id].status = "Executed" =>
              tickets'[id] = [state |-> "paid", terms |-> TermsOf(requests'[id])]
         /\ requests'[id].status = "Cancelled" =>
              tickets'[id] = [state |-> "vetoed", terms |-> TermsOf(requests'[id])]
  BY Zenon DEF Ticket, tickets, TermsOf

(* A ticket whose request does not change does not change. *)
LEMMA TicketsKept ==
  ASSUME NEW id \in WithdrawalIds,
         \A x \in WithdrawalIds \ {id} : requests'[x] = requests[x]
  PROVE  tickets' = [tickets EXCEPT ![id] = tickets'[id]]
<1>1. \A x \in WithdrawalIds \ {id} : Ticket(x)' = Ticket(x)
  BY Zenon DEF Ticket
<1>2. tickets'[id] = Ticket(id)'
  BY Zenon DEF tickets
<1>3. QED
  BY <1>1, <1>2, Zenon DEF tickets

(* The initial states are initial states of the promise. *)
LEMMA PromiseInit == VaultInit => Promise!Init
<1> SUFFICES ASSUME VaultInit
             PROVE  Promise!Init
  OBVIOUS
<1>1. \A id \in WithdrawalIds : Ticket(id).state = "none"
  BY Zenon DEF VaultInit, Ticket, NoRequest
<1>2. \A m \in Mints : balance[Custody(m)] = 0
  <2> TAKE m \in Mints
  <2>1. Custody(m) \in TokenAccounts /\ Custody(m) \notin Wallets
    BY CustodyIsAccount, VaultAssumption, ZenonT(30) DEF CustodyAccounts
  <2>2. QED
    BY <2>1, Zenon DEF VaultInit
<1>3. now = 0
  BY Zenon DEF VaultInit, ProtocolInit
<1>4. QED
  BY <1>1, <1>2, <1>3, ZenonT(30) DEF Promise!Init, Promise!State

(* Nothing the promise sees moves when these do not. *)
LEMMA PromiseStutter ==
  ASSUME requests' = requests, balance' = balance, asset' = asset, now' = now
  PROVE  UNCHANGED Promise!vars
  BY Zenon DEF Promise!vars, Ticket

(* A transfer that passes the checks of the code, of more than nothing, is *)
(* a move between two accounts.                                            *)
LEMMA PromiseMove ==
  ASSUME VaultTypeOK, NEW from \in TokenAccounts, NEW to \in TokenAccounts,
         NEW amount \in Nat, amount > 0, ExactTransfer(from, to, amount)
  PROVE  Promise!Move(from, to, amount) /\ balance'[to] - balance[to] = amount
<1>1. balance \in [TokenAccounts -> 0 .. U64Max]
  BY Zenon DEF VaultTypeOK
<1>2. TransferSucceeds(from, to, amount) /\ transfer_checked(from, to, amount)
  BY <1>1, TransferSucceedsExact, ZenonT(30)
<1>3. /\ amount <= balance[from] /\ from # to
      /\ balance' = [balance EXCEPT ![from] = @ - amount, ![to] = @ + amount]
  <2>1. /\ balance[from] >= amount /\ (from # to \/ amount = 0)
        /\ balance' = [balance EXCEPT ![from] = @ - amount, ![to] = @ + amount]
    BY <1>2, Zenon DEF TransferSucceeds, transfer_checked
  <2>2. balance[from] \in Nat
    BY BalanceIsNat, Zenon
  <2>3. amount <= balance[from] /\ from # to
    BY <2>1, <2>2
  <2>4. QED
    BY <2>1, <2>3, Zenon
<1>4. balance'[to] - balance[to] = amount
  <2>1. Moved(TokenAccounts, from, to, amount)
    BY <1>1, TransferMoves, Zenon
  <2>2. balance'[to] = balance[to] + amount
    BY <2>1, Zenon DEF Moved
  <2>3. balance[to] \in Nat
    BY BalanceIsNat, Zenon
  <2>4. QED
    BY <2>2, <2>3
<1>5. QED
  BY <1>3, <1>4, Zenon DEF Promise!Move

(* An outflow leaves every threshold alone. *)
LEMMA PayOutKeepsLimits ==
  ASSUME VaultTypeOK, NEW m \in Mints, NEW to, NEW amount \in Nat, PayOut(m, to, amount)
  PROVE  limits' = limits
<1>1. \A x \in Mints : asset'[x].timelock_threshold = asset[x].timelock_threshold
  <2>1. asset'[m] = Charged(asset[m], amount) /\ asset[m] \in VaultAsset
    BY PayOutAsset, AssetTyped, ZenonT(30)
  <2>2. PolicyOf(asset'[m]) = PolicyOf(asset[m])
    BY <2>1, ChargedKeepsPolicy, ZenonT(30)
  <2>3. asset'[m].timelock_threshold = asset[m].timelock_threshold
    BY <2>2, Zenon DEF PolicyOf
  <2>4. QED
    BY <2>3, PayOutAsset, Zenon
<1>2. QED
  BY <1>1, Zenon DEF limits

(* request_withdrawal announces, under the next number. *)
LEMMA PromiseAnnounce ==
  ASSUME VaultTypeOK, RequestTargets, RequestsContiguous,
         NEW k \in Keys, NEW m \in Mints, NEW a \in LiveAccounts, NEW amount \in Amounts,
         RequestWithdrawal(k, m, a, amount)
  PROVE  Promise!Next
<1> DEFINE id == vault.next_withdrawal_id
           terms == TermsOf(requests'[id])
<1>1. id = vault.next_withdrawal_id /\ id \in Nat
  BY Zenon DEF VaultTypeOK, AccessTypeOK, VaultRecord
<1>2. terms = TermsOf(requests'[id])
  BY Zenon
<1> HIDE DEF id, terms
<1>3. /\ id \in WithdrawalIds /\ requests[id].status = "Absent"
      /\ requests'[id].status = "Pending" /\ requests'[id].mint = m
      /\ requests'[id].recipient_token_account = a /\ requests'[id].amount = amount
      /\ requests'[id].execute_after = now + asset[m].timelock_seconds
      /\ requests'[id].expires_at = now + asset[m].timelock_seconds
                                    + asset[m].request_execution_window_seconds
      /\ \A x \in WithdrawalIds \ {id} : requests'[x] = requests[x]
      /\ asset' = asset
  <2>1. NewRequest(id, m, a, amount)
    BY <1>1, RequestEffect, Zenon
  <2>2. QED
    BY <2>1, Zenon DEF NewRequest
<1>4. /\ amount > asset[m].timelock_threshold
      /\ now + asset[m].timelock_seconds > now
      /\ now + asset[m].timelock_seconds + asset[m].request_execution_window_seconds
           > now + asset[m].timelock_seconds
      /\ balance' = balance /\ now' = now
  BY Zenon DEF RequestWithdrawal
<1>5. /\ a \in TokenAccounts /\ amount \in Nat /\ now \in Nat
      /\ asset[m].timelock_seconds \in Nat
      /\ asset[m].request_execution_window_seconds \in Nat
  BY LiveAccountsAreAccounts, AmountIsNat, ClockIsNat, AssetTyped, Zenon DEF VaultAsset
<1>6. /\ terms.asset = m /\ terms.amount = amount
      /\ terms.matures = now + asset[m].timelock_seconds
      /\ terms.lapses = now + asset[m].timelock_seconds
                        + asset[m].request_execution_window_seconds
      /\ terms \in Promise!Terms
  <2>1. terms = [asset |-> m, payee |-> a, amount |-> amount,
                 matures |-> now + asset[m].timelock_seconds,
                 lapses |-> now + asset[m].timelock_seconds
                            + asset[m].request_execution_window_seconds]
    BY <1>2, <1>3, ZenonT(30) DEF TermsOf
  <2>2. /\ now + asset[m].timelock_seconds \in Nat
        /\ now + asset[m].timelock_seconds + asset[m].request_execution_window_seconds
             \in Nat
    BY <1>5
  <2>3. terms \in Promise!Terms
    BY <1>5, <2>1, <2>2, ZenonT(30) DEF Promise!Terms
  <2>4. QED
    BY <2>1, <2>3, Zenon
<1>7. /\ now < terms.matures /\ terms.matures < terms.lapses
      /\ terms.amount > limits[terms.asset]
  BY <1>4, <1>5, <1>6, ZenonT(30) DEF limits
<1>8. tickets'[id] = [state |-> "waiting", terms |-> terms]
  BY <1>2, <1>3, NextTicketOf, ZenonT(30)
<1>9. tickets' = [tickets EXCEPT ![id] = [state |-> "waiting", terms |-> terms]]
  BY <1>3, <1>8, TicketsKept, ZenonT(30)
<1>10. \A j \in WithdrawalIds : tickets[j].state = "none" <=> j >= id
  <2> SUFFICES ASSUME NEW j \in WithdrawalIds
               PROVE  tickets[j].state = "none" <=> j >= id
    OBVIOUS
  <2>1. requests[j].status = "Absent" <=> ~(j < id)
    BY <1>1, Zenon DEF RequestsContiguous
  <2>2. j \in Nat
    BY IdIsNat, Zenon
  <2>3. requests[j].status \in {"Absent", "Pending", "Executed", "Cancelled"}
    BY RequestTyped, Zenon DEF WithdrawalRequest
  <2>4. tickets[j].state = "none" <=> requests[j].status = "Absent"
    BY <2>3, TicketStates, Zenon
  <2>5. QED
    BY <1>1, <2>1, <2>2, <2>4
<1>11. tickets'[id].state = "waiting" /\ tickets'[id].terms = terms
  BY <1>8
<1>12. limits' = limits
  BY <1>3, Zenon DEF limits
<1>13. Promise!Announce(id)
  <2>1. /\ \A j \in WithdrawalIds : tickets[j].state = "none" <=> j >= id
        /\ tickets'[id].state = "waiting"
        /\ tickets' = [tickets EXCEPT ![id] =
                         [state |-> "waiting", terms |-> tickets'[id].terms]]
        /\ tickets'[id].terms \in Promise!Terms
        /\ tickets'[id].terms.amount > limits[tickets'[id].terms.asset]
        /\ now < tickets'[id].terms.matures
        /\ tickets'[id].terms.matures < tickets'[id].terms.lapses
        /\ balance' = balance /\ limits' = limits /\ now' = now
    BY <1>4, <1>6, <1>7, <1>9, <1>10, <1>11, <1>12, ZenonT(30)
  <2>2. QED
    BY <2>1, Zenon DEF Promise!Announce, Promise!State, tickets, limits
<1>14. QED
  BY <1>3, <1>13, Zenon DEF Promise!Next

(* What settling a request does to its ticket. *)
LEMMA PromiseSettle ==
  ASSUME VaultTypeOK, NEW id \in WithdrawalIds, requests[id].status = "Pending",
         NEW status, NEW outcome,
         \/ status = "Executed" /\ outcome = "paid"
         \/ status = "Cancelled" /\ outcome = "vetoed",
         requests' = [requests EXCEPT ![id].status = status]
  PROVE  /\ tickets[id] = [state |-> "waiting", terms |-> TermsOf(requests[id])]
         /\ tickets' = [tickets EXCEPT ![id].state = outcome]
<1> DEFINE terms == TermsOf(requests[id])
<1>1. tickets[id] = [state |-> "waiting", terms |-> terms]
  BY TicketOf, Zenon
<1>2. TermsOf(requests'[id]) = terms /\ requests'[id].status = status
  BY SettleEffect, Zenon DEF TermsOf
<1> HIDE DEF terms
<1>3. tickets'[id] = [state |-> outcome, terms |-> terms]
  BY <1>2, NextTicketOf, Zenon
<1>4. tickets' = [tickets EXCEPT ![id] = [state |-> outcome, terms |-> terms]]
  <2>1. \A x \in WithdrawalIds \ {id} : requests'[x] = requests[x]
    BY SettleEffect, Zenon
  <2>2. QED
    BY <1>3, <2>1, TicketsKept, ZenonT(30)
<1>5. [tickets[id] EXCEPT !.state = outcome] = [state |-> outcome, terms |-> terms]
  BY <1>1
<1>6. QED
  BY <1>1, <1>4, <1>5, Zenon DEF terms

(* execute_withdrawal pays. *)
LEMMA PromisePay ==
  ASSUME VaultTypeOK, RequestTargets, RequestsMove,
         NEW id \in WithdrawalIds, ExecuteWithdrawal(id)
  PROVE  Promise!Next
<1> DEFINE r == requests[id]
           m == r.mint
           to == r.recipient_token_account
           amount == r.amount
<1>1. /\ r.status = "Pending" /\ now >= r.execute_after /\ now <= r.expires_at
      /\ PayOut(m, to, amount)
      /\ requests' = [requests EXCEPT ![id].status = "Executed"]
      /\ now' = now
  BY Zenon DEF ExecuteWithdrawal, Executable
<1>2. /\ m \in Mints /\ to \in TokenAccounts /\ amount \in Nat /\ amount > 0
      /\ r.execute_after \in Nat /\ now \in Nat
  BY <1>1, RequestTyped, ClockIsNat, Zenon DEF RequestTargets, RequestsMove, WithdrawalRequest
<1>3. tickets[id] = [state |-> "waiting", terms |-> TermsOf(r)]
  BY <1>1, PromiseSettle, Zenon
<1>4. tickets' = [tickets EXCEPT ![id].state = "paid"]
  BY <1>1, PromiseSettle, Zenon
<1>5. /\ tickets[id].state = "waiting"
      /\ tickets[id].terms.asset = m /\ tickets[id].terms.payee = to
      /\ tickets[id].terms.amount = amount
      /\ tickets[id].terms.matures <= now /\ now <= tickets[id].terms.lapses
  <2>1. tickets[id].state = "waiting" /\ tickets[id].terms = TermsOf(r)
    BY <1>3
  <2>2. r.execute_after <= now
    BY <1>1, <1>2
  <2>3. /\ TermsOf(r).asset = m /\ TermsOf(r).payee = to /\ TermsOf(r).amount = amount
        /\ TermsOf(r).matures = r.execute_after /\ TermsOf(r).lapses = r.expires_at
    BY DEF TermsOf
  <2>4. QED
    BY <1>1, <2>1, <2>2, <2>3, Zenon
<1> HIDE DEF r, m, to, amount
<1>6. ExactTransfer(Custody(m), to, amount)
  BY <1>1, Zenon DEF PayOut
<1>7. Promise!Move(Custody(m), to, amount)
  BY <1>2, <1>6, CustodyIsAccount, PromiseMove, ZenonT(30)
<1>8. limits' = limits
  BY <1>1, <1>2, PayOutKeepsLimits, Zenon
<1>9. reserves[m] = Custody(m)
  BY <1>2, Zenon DEF reserves
<1>10. Promise!Pay(id)
  <2>1. Promise!Move(reserves[tickets[id].terms.asset], tickets[id].terms.payee,
                     tickets[id].terms.amount)
    BY <1>5, <1>7, <1>9, Zenon
  <2>2. QED
    BY <1>1, <1>4, <1>5, <1>8, <2>1, Zenon
    DEF Promise!Pay, Promise!State, tickets, limits, reserves
<1>11. QED
  BY <1>10, Zenon DEF Promise!Next

(* cancel_withdrawal vetoes. *)
LEMMA PromiseVeto ==
  ASSUME VaultTypeOK, NEW k \in Keys, NEW id \in WithdrawalIds, CancelWithdrawal(k, id)
  PROVE  Promise!Next
<1>1. /\ requests[id].status = "Pending"
      /\ requests' = [requests EXCEPT ![id].status = "Cancelled"]
      /\ balance' = balance /\ asset' = asset /\ now' = now
  BY Zenon DEF CancelWithdrawal
<1>2. tickets[id].state = "waiting"
  BY <1>1, TicketStates, Zenon
<1>3. tickets' = [tickets EXCEPT ![id].state = "vetoed"]
  BY <1>1, PromiseSettle, Zenon
<1>4. limits' = limits
  BY <1>1, Zenon DEF limits
<1>5. Promise!Veto(id)
  BY <1>1, <1>2, <1>3, <1>4, Zenon DEF Promise!Veto, Promise!State, tickets, limits
<1>6. QED
  BY <1>5, Zenon DEF Promise!Next

(* withdraw pays at once. *)
LEMMA PromisePayAtOnce ==
  ASSUME VaultTypeOK, NEW k \in Keys, NEW m \in Mints, NEW a \in LiveAccounts,
         NEW amount \in Amounts, Withdraw(k, m, a, amount)
  PROVE  Promise!Next
<1>1. /\ amount > 0 /\ amount <= asset[m].timelock_threshold
      /\ PayOut(m, a, amount) /\ requests' = requests /\ now' = now
  BY Zenon DEF Withdraw
<1>2. a \in TokenAccounts /\ amount \in Nat
  BY LiveAccountsAreAccounts, AmountIsNat, Zenon
<1>3. ExactTransfer(Custody(m), a, amount)
  BY <1>1, Zenon DEF PayOut
<1>4. Promise!Move(Custody(m), a, amount) /\ balance'[a] - balance[a] = amount
  BY <1>1, <1>2, <1>3, CustodyIsAccount, PromiseMove, ZenonT(30)
<1>5. limits' = limits
  BY <1>1, <1>2, PayOutKeepsLimits, ZenonT(30)
<1>6. reserves[m] = Custody(m) /\ limits[m] = asset[m].timelock_threshold
  BY Zenon DEF reserves, limits
<1>7. tickets' = tickets
  BY <1>1, Zenon DEF tickets, Ticket
<1>8. Promise!PayAtOnce(m, a)
  <2>1. /\ balance'[a] - balance[a] <= limits[m]
        /\ Promise!Move(reserves[m], a, balance'[a] - balance[a])
    BY <1>1, <1>4, <1>6, Zenon
  <2>2. QED
    BY <1>1, <1>5, <1>7, <2>1, Zenon DEF Promise!PayAtOnce, tickets, limits, reserves
<1>9. QED
  BY <1>2, <1>8, Zenon DEF Promise!Next

(* A transfer from a wallet is its holder's. *)
LEMMA PromiseHolderMoves ==
  ASSUME VaultTypeOK, NEW w \in Wallets, NEW to \in TokenAccounts, NEW amount \in Nat,
         amount > 0, ExactTransfer(w, to, amount),
         requests' = requests, asset' = asset, now' = now
  PROVE  Promise!Next
<1>1. w \in TokenAccounts
  BY Zenon DEF TokenAccounts
<1>2. Promise!Move(w, to, amount) /\ balance'[to] - balance[to] = amount
  BY <1>1, PromiseMove, ZenonT(30)
<1>3. \A m \in Mints : w # reserves[m]
  BY VaultAssumption, Zenon DEF CustodyAccounts, reserves
<1>4. tickets' = tickets /\ limits' = limits
  BY Zenon DEF tickets, Ticket, limits
<1>5. Promise!HolderMoves(w, to)
  <2>1. Promise!Move(w, to, balance'[to] - balance[to])
    BY <1>2, Zenon
  <2>2. QED
    BY <1>3, <1>4, <2>1, Zenon DEF Promise!HolderMoves, tickets, limits, reserves
<1>6. QED
  BY <1>1, <1>5, Zenon DEF Promise!Next

(* register_asset and update_limits adjust the limit of one asset. *)
LEMMA PromiseAdjust ==
  ASSUME VaultTypeOK, NEW m \in Mints,
         RegisterAsset(m) \/ \E k \in Keys, p \in PolicyChoices : UpdateLimits(k, m, p)
  PROVE  Promise!Next
<1>1. \A x \in Mints \ {m} : asset'[x] = asset[x]
  BY Zenon DEF RegisterAsset, UpdateLimits, VaultTypeOK
<1>2. requests' = requests /\ balance' = balance /\ now' = now
  BY Zenon DEF RegisterAsset, UpdateLimits
<1>3. limits' = [limits EXCEPT ![m] = limits'[m]]
  <2>1. limits'[m] = asset'[m].timelock_threshold
    BY Zenon DEF limits
  <2>2. \A x \in Mints : limits'[x] = [limits EXCEPT ![m] = limits'[m]][x]
    BY <1>1, <2>1, ZenonT(30) DEF limits
  <2>3. QED
    BY <2>2, Zenon DEF limits
<1>4. tickets' = tickets
  BY <1>2, Zenon DEF tickets, Ticket
<1>5. Promise!Adjust(m)
  BY <1>2, <1>3, <1>4, Zenon DEF Promise!Adjust, tickets, limits
<1>6. QED
  BY <1>5, Zenon DEF Promise!Next

(* The clock passes; the rest of the protocol is invisible. *)
LEMMA PromiseProtocol ==
  ASSUME VaultTypeOK, ProtocolNext, UNCHANGED assetVars
  PROVE  [Promise!Next]_(Promise!vars)
<1>1. requests' = requests /\ balance' = balance /\ asset' = asset
  BY Zenon DEF assetVars
<1>2. CASE Tick
  <2>1. now' > now
    <3>1. now \in Nat /\ now' \in (now + 1) .. MaxTime
      BY <1>2, ClockIsNat, Zenon DEF Tick
    <3>2. QED
      BY <3>1, ProtocolAssumption
  <2>2. tickets' = tickets /\ limits' = limits
    BY <1>1, Zenon DEF tickets, Ticket, limits
  <2>3. Promise!Pass
    BY <1>1, <2>1, <2>2, Zenon DEF Promise!Pass, tickets, limits
  <2>4. QED
    BY <2>3, Zenon DEF Promise!Next
<1>3. CASE now' = now
  BY <1>1, <1>3, PromiseStutter, ZenonT(30)
<1>4. QED
  BY <1>2, <1>3, ZenonT(30) DEF ProtocolNext, InitializeProtocol, SetProtocolPause

(* The vault instructions, signed by anyone in any order, under any roles, *)
(* pauses, policy changes and transfers around them, implement             *)
(* WithdrawalPromise: more than the instant threshold leaves custody only  *)
(* as announced in advance, once, to the announced account, unless vetoed. *)
THEOREM VaultKeepsPromise == VaultSpec => KeepsWithdrawalPromise
<1> DEFINE Inv == VaultTypeOK /\ RequestTargets /\ RequestsContiguous /\ RequestsMove
           Step == [Promise!Next]_(Promise!vars)
<1>1. Inv /\ [VaultNext]_vaultVars => Step
  <2> SUFFICES ASSUME VaultTypeOK, RequestTargets, RequestsContiguous, RequestsMove,
                      [VaultNext]_vaultVars
               PROVE  Step
    OBVIOUS
  <2>1. Promise!Next => Step
    BY Zenon
  <2>2. ASSUME requests' = requests, balance' = balance, asset' = asset, now' = now
        PROVE  Step
    BY <2>2, PromiseStutter, Zenon
  <2>3. CASE ProtocolNext /\ UNCHANGED accessVars /\ UNCHANGED assetVars
    BY <2>3, PromiseProtocol, Zenon
  <2> HIDE DEF Step
  <2>4. CASE UNCHANGED vaultVars
    BY <2>2, <2>4, Zenon DEF vaultVars
  <2>5. CASE AccessNext /\ UNCHANGED assetVars
    <3>1. now' = now
      BY <2>5, Zenon DEF AccessNext, CreateVault, SetVaultAuthority, GrantRole, RevokeRole,
                         PauseVault, UnpauseVault, protocolVars
    <3>2. QED
      BY <2>2, <2>5, <3>1, ZenonT(30) DEF assetVars
  <2>6. ASSUME NEW m \in Mints, RegisterAsset(m)
        PROVE  Step
    BY <2>1, <2>6, PromiseAdjust, Zenon
  <2>7. ASSUME NEW k \in Keys, NEW m \in Mints, NEW p \in PolicyChoices, UpdateLimits(k, m, p)
        PROVE  Step
    BY <2>1, <2>7, PromiseAdjust, Zenon
  <2>8. ASSUME NEW k \in Keys, NEW m \in Mints, NEW w \in Wallets, NEW amount \in Amounts,
               Deposit(k, m, w, amount)
        PROVE  Step
    <3>1. /\ amount > 0 /\ ExactTransfer(w, Custody(m), amount)
          /\ requests' = requests /\ asset' = asset /\ now' = now
      BY <2>8, Zenon DEF Deposit
    <3>2. Custody(m) \in TokenAccounts /\ amount \in Nat
      BY CustodyIsAccount, AmountIsNat, Zenon
    <3>3. QED
      BY <2>1, <3>1, <3>2, PromiseHolderMoves, Zenon
  <2>9. ASSUME NEW w \in Wallets, NEW a \in LiveAccounts, NEW amount \in Amounts,
               DirectTransfer(w, a, amount)
        PROVE  Step
    <3>1. /\ amount > 0 /\ ExactTransfer(w, a, amount)
          /\ requests' = requests /\ asset' = asset /\ now' = now
      BY <2>9, Zenon DEF DirectTransfer
    <3>2. a \in TokenAccounts /\ amount \in Nat
      BY LiveAccountsAreAccounts, AmountIsNat, Zenon
    <3>3. QED
      BY <2>1, <3>1, <3>2, PromiseHolderMoves, Zenon
  <2>10. ASSUME NEW k \in Keys, NEW m \in Mints, NEW a \in LiveAccounts, NEW amount \in Amounts,
                Withdraw(k, m, a, amount) \/ RequestWithdrawal(k, m, a, amount)
         PROVE  Step
    BY <2>1, <2>10, PromisePayAtOnce, PromiseAnnounce, Zenon
  <2>11. ASSUME NEW id \in WithdrawalIds,
                ExecuteWithdrawal(id) \/ \E k \in Keys : CancelWithdrawal(k, id)
         PROVE  Step
    BY <2>1, <2>11, PromisePay, PromiseVeto, Zenon
  <2>12. ASSUME NEW c \in OwnerChanges, SetAccountOwner(c[1], c[2])
         PROVE  Step
    BY <2>2, <2>12, Zenon DEF SetAccountOwner
  <2>13. QED
    BY <2>3, <2>4, <2>5, <2>6, <2>7, <2>8, <2>9, <2>10, <2>11, <2>12, ZenonT(30) DEF VaultNext
<1>2. QED
  BY <1>1, PromiseInit, VaultTypeCorrect, RequestIdsContiguous, RequestsMoveInvariant, PTL
  DEF VaultSpec, KeepsWithdrawalPromise, Promise!Spec

-----------------------------------------------------------------------------
(***************************************************************************)
(* The veto. GuardianCanVeto asks whether an action is enabled, which is   *)
(* outside the provers' reach; what cancel_withdrawal asks is not.         *)
(***************************************************************************)

(* cancel_withdrawal by the guardian asks for a pending request and for    *)
(* nothing else: no pause, time, role, policy or balance can refuse it.    *)
(* It withdraws the announcement and changes nothing more.                 *)
THEOREM VetoAlwaysGranted ==
  ASSUME NEW id \in WithdrawalIds, requests[id].status = "Pending"
  PROVE  CancelWithdrawal(vault.guardian, id)
           <=> /\ requests' = [requests EXCEPT ![id].status = "Cancelled"]
               /\ UNCHANGED <<protocol_config, now, vault, roles, asset, balance,
                              wallet_owner, outflow, paid_for>>
  BY Zenon DEF CancelWithdrawal

-----------------------------------------------------------------------------
(***************************************************************************)
(* The SDK's calls.                                                        *)
(***************************************************************************)

(* The ids of the transactions that were executed are the callers' own,    *)
(* and none of them is that of another call.                               *)
LandedInv ==
  /\ \A s \in Sessions : session[s].landed => Names(payer[s], session[s])
  /\ \A s, t \in Sessions :
       session[s].landed /\ session[t].landed /\ session[s].id = session[t].id => s = t
  /\ \A n \in DOMAIN returned, s \in Sessions :
       session[s].landed => returned[n].id # session[s].id

ClientInv == LandedInv /\ ReturnedIdIsOwn

-----------------------------------------------------------------------------

(* The session of a client that is in no call is well typed. *)
LEMMA NoCallType == NoCall \in Call /\ NoCall.phase = "idle" /\ ~NoCall.landed
  BY Zenon DEF NoCall, Call

(* What a step does to one session. *)
LEMMA SessionWrite ==
  ASSUME ClientTypeOK, NEW s \in Sessions, NEW call \in Call,
         session' = [session EXCEPT ![s] = call],
         call.phase # "idle" =>
           /\ call.mint \in Mints /\ call.recipient_token \in Wallets
           /\ call.amount \in Amounts,
         call.landed => call.phase = "sent",
         returned' \in Seq(Answer)
  PROVE  ClientTypeOK'
  BY Zenon DEF ClientTypeOK

(* Every step of a client is a step of the vault or leaves it alone.       *)
LEMMA ClientStepIsVaultStep ==
  ASSUME ClientTypeOK, [ClientNext]_systemVars
  PROVE  [VaultNext]_vaultVars
<1>1. ASSUME NEW s \in Sessions, Land(s)
      PROVE  VaultNext
  <2>1. /\ session[s].mint \in Mints /\ session[s].recipient_token \in Wallets
        /\ session[s].amount \in Amounts
    BY <1>1, ZenonT(30) DEF ClientTypeOK, Land
  <2>2. session[s].recipient_token \in LiveAccounts /\ payer[s] \in Keys
    BY <2>1, ClientAssumption, ZenonT(30) DEF LiveAccounts
  <2>3. QED
    BY <1>1, <2>1, <2>2, Zenon DEF Land, VaultNext
<1>2. CASE UNCHANGED vaultVars
  BY <1>2, Zenon
<1>3. QED
  BY <1>1, <1>2, Zenon
     DEF ClientNext, systemVars, StartCall, ReturnCall, ThrowCall, Settle

(* The types of the clients and those of the vault hold together: an id is *)
(* read from the vault, a request is made from a call.                     *)
LEMMA ClientTypeStep ==
  ASSUME ClientTypeOK, VaultTypeOK, [ClientNext]_systemVars
  PROVE  ClientTypeOK'
<1>1. session \in [Sessions -> Call] /\ returned \in Seq(Answer)
  BY Zenon DEF ClientTypeOK
<1>2. ASSUME UNCHANGED clientVars
      PROVE  ClientTypeOK'
  BY <1>2, Zenon DEF ClientTypeOK, clientVars
<1>3. ASSUME NEW s \in Sessions, session' = [session EXCEPT ![s] = NoCall],
             returned' \in Seq(Answer)
      PROVE  ClientTypeOK'
  BY <1>3, NoCallType, SessionWrite, Zenon
<1>4. ASSUME NEW s \in Sessions, NEW m \in Mints, NEW w \in Wallets,
             NEW amount \in Amounts, StartCall(s, m, w, amount)
      PROVE  ClientTypeOK'
  <2> DEFINE call ==
        [phase |-> "sent", landed |-> FALSE, id |-> vault.next_withdrawal_id,
         with_role |-> payer[s] # vault.authority, mint |-> m,
         recipient_token |-> w, amount |-> amount]
  <2>1. session' = [session EXCEPT ![s] = call] /\ returned' = returned
    BY <1>4, Zenon DEF StartCall
  <2>2. vault.next_withdrawal_id \in Nat /\ amount \in Nat /\ w \in TokenAccounts
    BY AmountIsNat, Zenon DEF VaultTypeOK, AccessTypeOK, VaultRecord, TokenAccounts
  <2>3. call \in Call
    BY <2>2, Zenon DEF Call
  <2>4. /\ call.mint \in Mints /\ call.recipient_token \in Wallets
        /\ call.amount \in Amounts /\ ~call.landed
    OBVIOUS
  <2> HIDE DEF call
  <2>5. QED
    BY <1>1, <2>1, <2>3, <2>4, SessionWrite, ZenonT(30)
<1>5. ASSUME NEW s \in Sessions, NEW call \in Call,
             session' = [session EXCEPT ![s] = call], returned' = returned,
             session[s].phase # "idle", call.landed => call.phase = "sent",
             call.mint = session[s].mint, call.amount = session[s].amount,
             call.recipient_token = session[s].recipient_token
      PROVE  ClientTypeOK'
  <2>1. /\ call.mint \in Mints /\ call.recipient_token \in Wallets
        /\ call.amount \in Amounts
    BY <1>5, Zenon DEF ClientTypeOK
  <2>2. QED
    BY <1>1, <1>5, <2>1, SessionWrite, Zenon
<1>6. ASSUME NEW s \in Sessions, Land(s)
      PROVE  ClientTypeOK'
  <2>1. session[s] \in Call /\ session[s].phase \in {"sent", "abandoned"}
    BY <1>1, <1>6, Zenon DEF Land
  <2>2. CASE session[s].phase = "abandoned"
    <3>1. session' = [session EXCEPT ![s] = NoCall] /\ returned' = returned
      BY <1>6, <2>2, Zenon DEF Land
    <3>2. QED
      BY <1>1, <1>3, <3>1, Zenon
  <2>3. CASE session[s].phase = "sent"
    <3> DEFINE call == [session[s] EXCEPT !.landed = TRUE]
    <3>1. session' = [session EXCEPT ![s] = call] /\ returned' = returned
      BY <1>6, <2>3, Zenon DEF Land
    <3>2. /\ call \in Call /\ call.phase = "sent"
          /\ call.mint = session[s].mint /\ call.amount = session[s].amount
          /\ call.recipient_token = session[s].recipient_token
      BY <2>1, <2>3, Zenon DEF Call
    <3> HIDE DEF call
    <3>3. QED
      BY <1>5, <2>3, <3>1, <3>2, ZenonT(30)
  <2>4. QED
    BY <2>1, <2>2, <2>3, ZenonT(30)
<1>7. ASSUME NEW s \in Sessions, ThrowCall(s)
      PROVE  ClientTypeOK'
  <2>1. session[s] \in Call /\ session[s].phase = "sent"
    BY <1>1, <1>7, ZenonT(30) DEF ThrowCall
  <2>2. CASE session[s].landed
    <3>1. session' = [session EXCEPT ![s] = NoCall] /\ returned' = returned
      BY <1>7, <2>2, Zenon DEF ThrowCall
    <3>2. QED
      BY <1>1, <1>3, <3>1, Zenon
  <2>3. CASE ~session[s].landed
    <3> DEFINE call == [session[s] EXCEPT !.phase = "abandoned"]
    <3>1. session' = [session EXCEPT ![s] = call] /\ returned' = returned
      BY <1>7, <2>3, Zenon DEF ThrowCall
    <3>2. /\ call \in Call /\ ~call.landed
          /\ call.mint = session[s].mint /\ call.amount = session[s].amount
          /\ call.recipient_token = session[s].recipient_token
      BY <2>1, <2>3, Zenon DEF Call
    <3> HIDE DEF call
    <3>3. QED
      BY <1>5, <2>1, <3>1, <3>2, Zenon
  <2>4. QED
    BY <2>2, <2>3, Zenon
<1>8. ASSUME NEW s \in Sessions, ReturnCall(s)
      PROVE  ClientTypeOK'
  <2> DEFINE answer ==
        [by |-> payer[s], id |-> session[s].id, mint |-> session[s].mint,
         recipient_token |-> session[s].recipient_token, amount |-> session[s].amount]
  <2>1. /\ session[s].phase = "sent" /\ session' = [session EXCEPT ![s] = NoCall]
        /\ returned' = Append(returned, answer)
    BY <1>8, Zenon DEF ReturnCall
  <2>2. /\ payer[s] \in Keys /\ session[s].id \in Nat /\ session[s].mint \in Mints
        /\ session[s].recipient_token \in Wallets /\ session[s].amount \in Amounts
    BY <1>1, <2>1, ClientAssumption, ZenonT(30) DEF ClientTypeOK, Call
  <2>3. answer \in Answer
    BY <2>2, Zenon DEF Answer
  <2> HIDE DEF answer
  <2>4. returned' \in Seq(Answer)
    BY <1>1, <2>1, <2>3
  <2>5. QED
    BY <1>3, <2>1, <2>4, Zenon
<1>9. ASSUME NEW s \in Sessions, Settle(s)
      PROVE  ClientTypeOK'
  BY <1>1, <1>3, <1>9, Zenon DEF Settle
<1>10. QED
  BY <1>2, <1>4, <1>6, <1>7, <1>8, <1>9, ZenonT(30) DEF ClientNext, systemVars, clientVars

(* A client starts idle, over an initial vault. *)
LEMMA ClientInitType == ClientInit => ClientTypeOK /\ VaultInit
<1> SUFFICES ASSUME ClientInit
             PROVE  ClientTypeOK /\ VaultInit
  OBVIOUS
<1>1. session \in [Sessions -> Call]
  BY NoCallType, Zenon DEF ClientInit
<1>2. \A s \in Sessions : session[s].phase = "idle" /\ ~session[s].landed
  BY NoCallType, Zenon DEF ClientInit
<1>3. returned \in Seq(Answer)
  <2>1. returned = <<>>
    BY Zenon DEF ClientInit
  <2>2. QED
    BY <2>1
<1>4. QED
  BY <1>1, <1>2, <1>3, Zenon DEF ClientTypeOK, ClientInit

(* The types of client and vault hold in every state of requestWithdrawal. *)
LEMMA ClientTypes == ClientSpec => [](ClientTypeOK /\ VaultTypeOK /\ RequestTargets)
<1>1. ClientInit => ClientTypeOK /\ VaultTypeOK /\ RequestTargets
  BY ClientInitType, VaultInitType, Zenon
<1>2. ClientTypeOK /\ VaultTypeOK /\ RequestTargets /\ [ClientNext]_systemVars
        => (ClientTypeOK /\ VaultTypeOK /\ RequestTargets)'
  BY ClientTypeStep, ClientStepIsVaultStep, VaultNextType, Zenon
<1>3. QED
  BY <1>1, <1>2, PTL DEF ClientSpec

(* The SDK over the program is the program: requestWithdrawal takes no     *)
(* step that is not one of the vault's instructions, so whatever is proved *)
(* of the vault holds with any clients.                                    *)
THEOREM ClientImplementsVault == ClientSpec => VaultSpec
<1>1. ClientTypeOK /\ [ClientNext]_systemVars => [VaultNext]_vaultVars
  BY ClientStepIsVaultStep, Zenon
<1>2. ClientInit => VaultInit
  BY ClientInitType, Zenon
<1>3. QED
  BY <1>1, <1>2, ClientTypes, PTL DEF ClientSpec, VaultSpec

(* Whatever the client sends, late, twice or built from accounts that have *)
(* changed since, the vault keeps its withdrawal promise and no unit of    *)
(* any mint is made or lost.                                               *)
THEOREM ClientKeepsPromise == ClientSpec => KeepsWithdrawalPromise /\ []SupplyConserved
  BY ClientImplementsVault, VaultKeepsPromise, VaultConservesSupply, PTL

-----------------------------------------------------------------------------

(* A request keeps its terms for ever. *)
LEMMA NamesKept ==
  ASSUME VaultTypeOK, [VaultNext]_vaultVars, NEW by, NEW call, Names(by, call)
  PROVE  Names(by, call)'
<1> DEFINE id == call.id
<1>1. id \in WithdrawalIds /\ requests[id].status # "Absent"
  BY Zenon DEF Names
<1>2. requests[id] \in WithdrawalRequest
  BY <1>1, RequestTyped, ZenonT(30)
<1>3. CASE requests'[id] = requests[id]
  BY <1>3 DEF Names
<1>4. ASSUME NEW status \in {"Executed", "Cancelled"},
             requests' = [requests EXCEPT ![id].status = status]
      PROVE  Names(by, call)'
  <2>1. requests'[id] = [requests[id] EXCEPT !.status = status]
    BY <1>1, <1>4, SettleEffect, Zenon
  <2>2. /\ requests'[id].status # "Absent"
        /\ requests'[id].proposer = requests[id].proposer
        /\ requests'[id].mint = requests[id].mint
        /\ requests'[id].amount = requests[id].amount
        /\ requests'[id].recipient_token_account = requests[id].recipient_token_account
    BY <1>2, <2>1, Zenon DEF WithdrawalRequest
  <2>3. QED
    BY <1>1, <2>2, Zenon DEF Names
<1>5. ASSUME NEW k \in Keys, NEW m \in Mints, NEW a \in LiveAccounts,
             NEW amount \in Amounts, RequestWithdrawal(k, m, a, amount),
             id = vault.next_withdrawal_id
      PROVE  FALSE
  <2>1. NewRequest(id, m, a, amount)
    BY <1>5, RequestEffect, Zenon
  <2>2. QED
    BY <1>1, <2>1, Zenon DEF NewRequest
<1>6. ASSUME ExecuteWithdrawal(id) \/ \E k \in Keys : CancelWithdrawal(k, id)
      PROVE  \E status \in {"Executed", "Cancelled"} :
                requests' = [requests EXCEPT ![id].status = status]
  BY <1>6, Zenon DEF ExecuteWithdrawal, CancelWithdrawal
<1> HIDE DEF id
<1>7. QED
  BY <1>1, <1>3, <1>4, <1>5, <1>6, RequestStep, ZenonT(30)

(* The executed transaction makes the caller's own request, at an id that  *)
(* nobody had.                                                             *)
LEMMA LandEffect ==
  ASSUME ClientTypeOK, VaultTypeOK, NEW s \in Sessions, Land(s),
         NEW call, call = session[s]
  PROVE  /\ call.id \in WithdrawalIds /\ requests[call.id].status = "Absent"
         /\ Names(payer[s], call)'
<1>1. /\ session[s].mint \in Mints /\ session[s].recipient_token \in LiveAccounts
      /\ session[s].amount \in Amounts /\ payer[s] \in Keys
  BY ClientAssumption, Zenon DEF ClientTypeOK, Land, LiveAccounts
<1>2. /\ call.id = vault.next_withdrawal_id
      /\ RequestWithdrawal(payer[s], call.mint, call.recipient_token, call.amount)
  BY Zenon DEF Land, AccountsMatch
<1>3. call.id \in WithdrawalIds /\ requests[call.id].status = "Absent"
  <2>1. NewRequest(call.id, call.mint, call.recipient_token, call.amount)
    BY <1>1, <1>2, RequestEffect, Zenon
  <2>2. QED
    BY <2>1, Zenon DEF NewRequest
<1>4. PICK owner, created_at, execute_after, expires_at :
        requests' = [requests EXCEPT ![call.id] =
          [status |-> "Pending", mint |-> call.mint, proposer |-> payer[s],
           recipient_owner |-> owner, recipient_token_account |-> call.recipient_token,
           amount |-> call.amount, created_at |-> created_at,
           execute_after |-> execute_after, expires_at |-> expires_at]]
  BY <1>2, ZenonT(30) DEF RequestWithdrawal
<1>5. /\ requests'[call.id].status = "Pending"
      /\ requests'[call.id].mint = call.mint /\ requests'[call.id].proposer = payer[s]
      /\ requests'[call.id].recipient_token_account = call.recipient_token
      /\ requests'[call.id].amount = call.amount
  <2>1. requests'[call.id] =
          [status |-> "Pending", mint |-> call.mint, proposer |-> payer[s],
           recipient_owner |-> owner, recipient_token_account |-> call.recipient_token,
           amount |-> call.amount, created_at |-> created_at,
           execute_after |-> execute_after, expires_at |-> expires_at]
    BY <1>3, <1>4, Zenon DEF VaultTypeOK
  <2>2. QED
    BY <2>1
<1>6. QED
  BY <1>3, <1>5, Zenon DEF Names

(* So the ids of landed calls and of answers stay those of the callers'    *)
(* requests.                                                               *)
LEMMA CallNamesKept ==
  ASSUME VaultTypeOK, ClientInv, [VaultNext]_vaultVars, NEW s \in Sessions,
         session'[s] = session[s], session[s].landed
  PROVE  Names(payer[s], session[s])'
<1>1. PICK call : call = session[s]
  BY Zenon
<1>2. Names(payer[s], call)
  BY <1>1, Zenon DEF ClientInv, LandedInv
<1>3. Names(payer[s], call)'
  BY <1>2, NamesKept, ZenonT(30)
<1>4. QED
  BY <1>1, <1>3, Zenon DEF Names

(* A vault step keeps what an id that was returned names. *)
LEMMA AnswerNamesKept ==
  ASSUME VaultTypeOK, ClientInv, [VaultNext]_vaultVars, NEW n \in DOMAIN returned,
         returned'[n] = returned[n]
  PROVE  Names(returned[n].by, returned[n])'
<1>1. PICK call : call = returned[n]
  BY Zenon
<1>2. Names(call.by, call)
  BY <1>1, Zenon DEF ClientInv, ReturnedIdIsOwn
<1>3. Names(call.by, call)'
  BY <1>2, NamesKept, ZenonT(30)
<1>4. QED
  BY <1>1, <1>3, Zenon DEF Names

(* A step after which no more calls have landed keeps the invariant. *)
LEMMA NothingLands ==
  ASSUME VaultTypeOK, ClientInv, [VaultNext]_vaultVars, returned' = returned,
         \A s \in Sessions : session'[s] = session[s] \/ ~session'[s].landed
  PROVE  ClientInv'
<1>1. \A s \in Sessions : session'[s].landed => Names(payer[s], session[s])'
  BY CallNamesKept, Zenon
<1>2. \A n \in DOMAIN returned : Names(returned[n].by, returned[n])'
  BY AnswerNamesKept, Zenon
<1>3. LandedInv'
  BY <1>1, Zenon DEF ClientInv, LandedInv
<1>4. ReturnedIdIsOwn'
  BY <1>2, Zenon DEF ClientInv, ReturnedIdIsOwn
<1>5. QED
  BY <1>3, <1>4, Zenon DEF ClientInv

(* A transaction that is executed while its caller waits. *)
LEMMA CallLands ==
  ASSUME ClientTypeOK, VaultTypeOK, ClientInv, [VaultNext]_vaultVars,
         NEW s \in Sessions, Land(s), session[s].phase = "sent"
  PROVE  ClientInv'
<1> DEFINE call == [session[s] EXCEPT !.landed = TRUE]
<1>1. /\ session' = [session EXCEPT ![s] = call] /\ returned' = returned
      /\ session \in [Sessions -> Call]
  BY Zenon DEF Land, ClientTypeOK
<1>2. /\ call.id = session[s].id /\ call.mint = session[s].mint
      /\ call.amount = session[s].amount
      /\ call.recipient_token = session[s].recipient_token
  BY <1>1, Zenon DEF Call
<1> HIDE DEF call
<1>3. session'[s] = call /\ \A t \in Sessions \ {s} : session'[t] = session[t]
  BY <1>1, ZenonT(30)
<1>4. requests[session[s].id].status = "Absent" /\ Names(payer[s], session[s])'
  <2>1. PICK old : old = session[s]
    BY Zenon
  <2>2. requests[old.id].status = "Absent" /\ Names(payer[s], old)'
    BY <2>1, LandEffect, ZenonT(30)
  <2>3. QED
    BY <1>2, <1>3, <2>1, <2>2, ZenonT(30) DEF Names
<1>5. \A t \in Sessions : session'[t].landed => Names(payer[t], session[t])'
  BY <1>3, <1>4, CallNamesKept, ZenonT(30)
<1>6. \A n \in DOMAIN returned : Names(returned[n].by, returned[n])'
  BY <1>1, AnswerNamesKept, ZenonT(30)
<1>7. /\ \A t \in Sessions : session[t].landed => session[t].id # session[s].id
      /\ \A n \in DOMAIN returned : returned[n].id # session[s].id
  <2>1. ASSUME NEW t \in Sessions, session[t].landed
        PROVE  session[t].id # session[s].id
    <3>1. Names(payer[t], session[t])
      BY <2>1, Zenon DEF ClientInv, LandedInv
    <3>2. requests[session[t].id].status # "Absent"
      BY <3>1, Zenon DEF Names
    <3>3. QED
      BY <1>4, <3>2, Zenon
  <2>2. ASSUME NEW n \in DOMAIN returned
        PROVE  returned[n].id # session[s].id
    <3>1. Names(returned[n].by, returned[n])
      BY Zenon DEF ClientInv, ReturnedIdIsOwn
    <3>2. requests[returned[n].id].status # "Absent"
      BY <3>1, Zenon DEF Names
    <3>3. QED
      BY <1>4, <3>2, Zenon
  <2>3. QED
    BY <2>1, <2>2, Zenon
<1>8. ASSUME NEW t \in Sessions, NEW u \in Sessions,
             session'[t].landed, session'[u].landed, session'[t].id = session'[u].id
      PROVE  t = u
  <2>1. session'[s].id = session[s].id
    BY <1>2, <1>3, Zenon
  <2>2. CASE t # s /\ u # s
    BY <1>3, <1>8, <2>2, Zenon DEF ClientInv, LandedInv
  <2>3. CASE t = s /\ u # s
    BY <1>3, <1>7, <1>8, <2>1, <2>3, Zenon
  <2>4. CASE t # s /\ u = s
    BY <1>3, <1>7, <1>8, <2>1, <2>4, Zenon
  <2>5. QED
    BY <2>2, <2>3, <2>4, Zenon
<1>9. \A n \in DOMAIN returned, t \in Sessions :
        session'[t].landed => returned[n].id # session'[t].id
  BY <1>2, <1>3, <1>7, ZenonT(30) DEF ClientInv, LandedInv
<1>10. QED
  BY <1>1, <1>5, <1>6, <1>8, <1>9, Zenon DEF ClientInv, LandedInv, ReturnedIdIsOwn

(* The caller of an executed transaction is answered. *)
LEMMA CallReturns ==
  ASSUME ClientTypeOK, VaultTypeOK, ClientInv, [VaultNext]_vaultVars,
         NEW s \in Sessions, ReturnCall(s)
  PROVE  ClientInv'
<1> DEFINE answer ==
      [by |-> payer[s], id |-> session[s].id, mint |-> session[s].mint,
       recipient_token |-> session[s].recipient_token, amount |-> session[s].amount]
<1>1. /\ session' = [session EXCEPT ![s] = NoCall] /\ session[s].landed
      /\ returned' = Append(returned, answer)
      /\ session \in [Sessions -> Call] /\ returned \in Seq(Answer)
      /\ UNCHANGED vaultVars
  BY Zenon DEF ReturnCall, ClientTypeOK
<1>2. Names(payer[s], session[s])
  BY <1>1, ZenonT(30) DEF ClientInv, LandedInv
<1>3. /\ answer.by = payer[s] /\ answer.id = session[s].id /\ answer.mint = session[s].mint
      /\ answer.amount = session[s].amount
      /\ answer.recipient_token = session[s].recipient_token
  OBVIOUS
<1> HIDE DEF answer
<1>4. PICK last : /\ last \notin DOMAIN returned
                  /\ DOMAIN returned' = DOMAIN returned \cup {last}
                  /\ returned'[last] = answer
                  /\ \A n \in DOMAIN returned : returned'[n] = returned[n]
  <2>1. /\ Len(returned) + 1 \notin DOMAIN returned
        /\ DOMAIN returned' = DOMAIN returned \cup {Len(returned) + 1}
        /\ returned'[Len(returned) + 1] = answer
        /\ \A n \in DOMAIN returned : returned'[n] = returned[n]
    BY <1>1
  <2>2. QED
    BY <2>1, Zenon
<1>5. \A t \in Sessions :
        session'[t].landed => session'[t] = session[t] /\ t # s
  BY <1>1, NoCallType, ZenonT(30)
<1>6. \A t \in Sessions : session'[t].landed => Names(payer[t], session[t])'
  BY <1>5, CallNamesKept, Zenon
<1>7. \A n \in DOMAIN returned : Names(returned[n].by, returned[n])'
  BY <1>4, AnswerNamesKept, Zenon
<1>8. Names(returned[last].by, returned[last])'
  BY <1>1, <1>2, <1>3, <1>4, ZenonT(30) DEF Names, vaultVars
<1>9. \A n \in DOMAIN returned : returned[n].id # answer.id
  BY <1>1, <1>3, Zenon DEF ClientInv, LandedInv
<1>10. \A t \in Sessions : session'[t].landed => session'[t].id # answer.id
  BY <1>1, <1>3, <1>5, ZenonT(30) DEF ClientInv, LandedInv
<1>11. LandedInv'
  <2>1. ASSUME NEW t \in Sessions, NEW u \in Sessions,
               session'[t].landed, session'[u].landed, session'[t].id = session'[u].id
        PROVE  t = u
    BY <1>5, <2>1, Zenon DEF ClientInv, LandedInv
  <2>2. ASSUME NEW n \in DOMAIN returned', NEW t \in Sessions, session'[t].landed
        PROVE  returned'[n].id # session'[t].id
    <3>1. CASE n = last
      BY <1>4, <1>10, <2>2, <3>1, Zenon
    <3>2. CASE n \in DOMAIN returned
      <4>1. session'[t] = session[t] /\ returned'[n] = returned[n]
        BY <1>4, <1>5, <2>2, <3>2, Zenon
      <4>2. QED
        BY <2>2, <3>2, <4>1, Zenon DEF ClientInv, LandedInv
    <3>3. QED
      BY <1>4, <2>2, <3>1, <3>2, Zenon
  <2>3. QED
    BY <1>6, <2>1, <2>2, Zenon DEF LandedInv
<1>12. ReturnedIdIsOwn'
  BY <1>4, <1>7, <1>8, <1>9, Zenon DEF ClientInv, ReturnedIdIsOwn
<1>13. QED
  BY <1>11, <1>12, Zenon DEF ClientInv

(* Every step keeps the invariant. *)
LEMMA ClientInvStep ==
  ASSUME ClientTypeOK, VaultTypeOK, ClientInv, [ClientNext]_systemVars
  PROVE  ClientInv'
<1>1. [VaultNext]_vaultVars /\ session \in [Sessions -> Call] /\ returned \in Seq(Answer)
  BY ClientStepIsVaultStep, Zenon DEF ClientTypeOK
<1>2. CASE UNCHANGED clientVars
  BY <1>1, <1>2, NothingLands, Zenon DEF clientVars
<1>3. ASSUME NEW s \in Sessions, NEW call, ~call.landed,
             session' = [session EXCEPT ![s] = call], returned' = returned
      PROVE  ClientInv'
  <2>1. \A t \in Sessions : session'[t] = session[t] \/ ~session'[t].landed
    BY <1>1, <1>3, Zenon
  <2>2. QED
    BY <1>1, <1>3, <2>1, NothingLands, ZenonT(30)
<1>4. ASSUME NEW s \in Sessions, NEW m \in Mints, NEW w \in Wallets,
             NEW amount \in Amounts, StartCall(s, m, w, amount)
      PROVE  ClientInv'
  <2> DEFINE call ==
        [phase |-> "sent", landed |-> FALSE, id |-> vault.next_withdrawal_id,
         with_role |-> payer[s] # vault.authority, mint |-> m,
         recipient_token |-> w, amount |-> amount]
  <2>1. session' = [session EXCEPT ![s] = call] /\ returned' = returned
    BY <1>4, Zenon DEF StartCall
  <2>2. ~call.landed
    OBVIOUS
  <2> HIDE DEF call
  <2>3. QED
    BY <1>3, <2>1, <2>2, Zenon
<1>5. ASSUME NEW s \in Sessions, ThrowCall(s) \/ Settle(s)
      PROVE  ClientInv'
  <2>1. PICK call : /\ session' = [session EXCEPT ![s] = call] /\ ~call.landed
                    /\ returned' = returned
    <3>1. CASE Settle(s) \/ session[s].landed
      BY <1>5, <3>1, NoCallType, Zenon DEF ThrowCall, Settle
    <3>2. CASE ThrowCall(s) /\ ~session[s].landed
      <4>1. session' = [session EXCEPT ![s] = [session[s] EXCEPT !.phase = "abandoned"]]
        BY <3>2, Zenon DEF ThrowCall
      <4>2. ~[session[s] EXCEPT !.phase = "abandoned"].landed
        BY <1>1, <3>2, Zenon DEF Call
      <4>3. QED
        BY <3>2, <4>1, <4>2, Zenon DEF ThrowCall
    <3>3. QED
      BY <1>5, <3>1, <3>2, Zenon
  <2>2. QED
    BY <1>3, <2>1, Zenon
<1>6. ASSUME NEW s \in Sessions, Land(s)
      PROVE  ClientInv'
  <2>1. CASE session[s].phase = "sent"
    BY <1>1, <1>6, <2>1, CallLands, ZenonT(30)
  <2>2. CASE session[s].phase = "abandoned"
    <3>1. session' = [session EXCEPT ![s] = NoCall] /\ returned' = returned
      BY <1>6, <2>2, Zenon DEF Land
    <3>2. QED
      BY <1>3, <3>1, NoCallType, Zenon
  <2>3. QED
    BY <1>6, <2>1, <2>2, ZenonT(30) DEF Land
<1>7. ASSUME NEW s \in Sessions, ReturnCall(s)
      PROVE  ClientInv'
  BY <1>1, <1>7, CallReturns, Zenon
<1>8. QED
  BY <1>2, <1>4, <1>5, <1>6, <1>7, Zenon DEF ClientNext, systemVars, clientVars

(* An id that requestWithdrawal returns names the caller's own request, on *)
(* its terms, and is returned once, for any number of clients that share   *)
(* payers, whatever happens to the vault between the read of the counter   *)
(* and the execution of the transaction.                                   *)
THEOREM ReturnedIdsAreOwn == ClientSpec => []ReturnedIdIsOwn
<1>1. ClientInit => ClientInv
  <2> SUFFICES ASSUME ClientInit
               PROVE  ClientInv
    BY Zenon
  <2>1. \A s \in Sessions : ~session[s].landed
    BY NoCallType, Zenon DEF ClientInit
  <2>2. returned = <<>>
    BY Zenon DEF ClientInit
  <2>3. DOMAIN returned = {}
    BY <2>2
  <2>4. QED
    BY <2>1, <2>3, Zenon DEF ClientInv, LandedInv, ReturnedIdIsOwn
<1>2. ClientTypeOK /\ VaultTypeOK /\ ClientInv /\ [ClientNext]_systemVars => ClientInv'
  BY ClientInvStep, Zenon
<1>3. ClientInv => ReturnedIdIsOwn
  BY Zenon DEF ClientInv
<1>4. QED
  BY <1>1, <1>2, <1>3, ClientTypes, PTL DEF ClientSpec

=============================================================================
