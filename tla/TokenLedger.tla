---------------------------- MODULE TokenLedger ----------------------------
(***************************************************************************)
(* The token accounts the program moves value between, as its instructions *)
(* see them. The token program itself (SPL Token or an extension-free      *)
(* Token-2022 mint) is external; the exactness checks the instructions     *)
(* make after each transfer are theirs.                                    *)
(***************************************************************************)
EXTENDS Integers, FiniteSets

CONSTANTS
  Mints,            \* the mints that exist
  SupportedMints,   \* the legacy mints and the Token-2022 mints without extensions
  Wallets,          \* token accounts that are not custody accounts of the program
  WalletMint,       \* the mint of each wallet
  InitialBalances,  \* what each wallet holds at first
  Amounts,          \* the amounts that are tried
  U64Max            \* u64::MAX, scaled down

VARIABLES balance   \* the amount of every token account

ASSUME LedgerAssumption ==
  /\ SupportedMints \subseteq Mints
  /\ WalletMint \in [Wallets -> Mints]
  /\ U64Max \in Nat
  /\ InitialBalances \in [Wallets -> 0 .. U64Max]
  /\ Amounts \subseteq 0 .. U64Max

(* The units that a set of accounts holds under the given balances, one by *)
(* one: the n-th unit of account a is <<a, n>>.                            *)
Coins(balances, accounts) ==
  {c \in accounts \X (1 .. U64Max) : c[2] <= balances[c[1]]}

WalletsOf(mint) == {w \in Wallets : WalletMint[w] = mint}

(* What exists of a mint: all of it is in wallets at first, and nothing is *)
(* minted or burnt afterwards.                                             *)
InitialSupply(mint) == Cardinality(Coins(InitialBalances, WalletsOf(mint)))

(* There are finitely many addresses, and the supply that a mint account   *)
(* records is a u64.                                                       *)
ASSUME SupplyAssumption ==
  /\ IsFiniteSet(Wallets)
  /\ \A m \in Mints : InitialSupply(m) <= U64Max

(* mint_extensions_supported: the extensions of a mint are fixed when it   *)
(* is initialised, so support does not change.                             *)
mint_extensions_supported(mint) == mint \in SupportedMints

(* transfer_checked: the source must hold the amount; a transfer from an   *)
(* account to itself succeeds and changes nothing.                         *)
transfer_checked(from, to, amount) ==
  /\ balance[from] >= amount
  /\ balance' = [balance EXCEPT ![from] = @ - amount, ![to] = @ + amount]

(* Variant: both balances are read before either is written, and the       *)
(* source is not compared with what it should have become.                 *)
ExactTransferStale(from, to, amount) ==
  /\ balance[from] >= amount
  /\ balance[to] + amount <= U64Max
  /\ balance' = [balance EXCEPT ![from] = balance[from] - amount,
                                ![to] = balance[to] + amount]

(* A transfer and the checks made on the reloaded accounts: the source     *)
(* fell by exactly the amount and the destination rose by exactly it,      *)
(* without leaving u64.                                                    *)
ExactTransfer(from, to, amount) ==
  /\ transfer_checked(from, to, amount)
  /\ balance[to] + amount <= U64Max
  /\ balance'[from] = balance[from] - amount
  /\ balance'[to] = balance[to] + amount

(* When such a transfer succeeds: the source holds the amount, it fits the *)
(* destination, and the two are not the same account unless nothing moves. *)
TransferSucceeds(from, to, amount) ==
  /\ balance[from] >= amount
  /\ balance[to] + amount <= U64Max
  /\ from # to \/ amount = 0

=============================================================================
