------------------------------- MODULE Escrow -------------------------------
(***************************************************************************)
(* The escrow instructions (create_escrow, release_escrow, refund_escrow)  *)
(* with the protocol's pause flags, the clock and the token accounts they  *)
(* read and write.                                                         *)
(*                                                                         *)
(* An escrow's address is derived from its maker and its id, and its       *)
(* custody account's from that address: the pair <<maker, id>> names the   *)
(* escrow, its custody account and, as a public key, the owner of that     *)
(* account. A recipient may be any public key, a program address included. *)
(***************************************************************************)
EXTENDS Protocol, TokenLedger

CONSTANTS
  WalletOwner,   \* the owner of each wallet
  Makers,        \* the signers that open escrows
  EscrowIds,     \* the ids they choose
  Recipients     \* the public keys they name

VARIABLES escrow \* the Escrow account at every address, or Absent

escrowVars == <<protocol_config, now, balance, escrow>>

EscrowPDAs == Makers \X EscrowIds

ASSUME EscrowAssumption ==
  /\ Makers \subseteq Keys
  /\ WalletOwner \in [Wallets -> Keys]
  /\ Recipients \subseteq Pubkeys \cup EscrowPDAs
  /\ Wallets \cap EscrowPDAs = {}
  /\ IsFiniteSet(EscrowPDAs)

Expiries == 0 .. MaxTime + 1

TokenAccounts == Wallets \cup EscrowPDAs

(* A zeroed account: every public key in it is the default one. *)
Absent == [status |-> "Absent", maker |-> DefaultKey, recipient |-> DefaultKey,
           mint |-> DefaultKey, amount |-> 0, created_at |-> 0, expires_at |-> 0]

EscrowRecord ==
  [status : {"Absent", "Funded", "Released", "Refunded"},
   maker : Makers \cup {DefaultKey}, recipient : Recipients \cup {DefaultKey},
   mint : Mints \cup {DefaultKey}, amount : 0 .. U64Max,
   created_at : 0 .. MaxTime, expires_at : Expiries]

EscrowInit ==
  /\ ProtocolInit
  /\ escrow = [e \in EscrowPDAs |-> Absent]
  /\ balance = [a \in TokenAccounts |->
                  IF a \in Wallets THEN InitialBalances[a] ELSE 0]

-----------------------------------------------------------------------------

Exists(e) == escrow[e].status # "Absent"
Funded(e) == escrow[e].status = "Funded"

(* The token accounts that exist, their owners and their mints. *)
LiveAccounts == Wallets \cup {e \in EscrowPDAs : Exists(e)}
AccountOwner(a) == IF a \in Wallets THEN WalletOwner[a] ELSE a
AccountMint(a) == IF a \in Wallets THEN WalletMint[a] ELSE escrow[a].mint

(* create_escrow: escrow and custody are created (`init`) and funded in    *)
(* one transaction.                                                        *)
CreateEscrow(maker, maker_token, id, recipient, amount, expires_at) ==
  LET e == <<maker, id>>
      mint == WalletMint[maker_token]
  IN  /\ require_protocol_active("ESCROW_CREATE")
      /\ mint_extensions_supported(mint)
      /\ WalletOwner[maker_token] = maker
      /\ ~Exists(e)
      /\ amount > 0
      /\ recipient # DefaultKey /\ recipient # maker
      /\ expires_at > now
      /\ balance[e] = 0
      /\ escrow' = [escrow EXCEPT ![e] =
            [status |-> "Funded", maker |-> maker, recipient |-> recipient,
             mint |-> mint, amount |-> amount, created_at |-> now,
             expires_at |-> expires_at]]
      /\ ExactTransfer(maker_token, e, amount)
      /\ UNCHANGED protocolVars

(* What release_escrow and refund_escrow both check of the destination. *)
DestinationChecks(e, destination, beneficiary) ==
  /\ mint_extensions_supported(escrow[e].mint)
  /\ AccountOwner(destination) = beneficiary
  /\ AccountMint(destination) = escrow[e].mint

(* Variants: the status is not written; the whole balance is sent. *)
SettleKeepsStatus(e, destination, status) ==
  /\ ExactTransfer(e, destination, escrow[e].amount)
  /\ UNCHANGED <<protocol_config, now, escrow>>

SettleSweeps(e, destination, status) ==
  /\ ExactTransfer(e, destination, balance[e])
  /\ escrow' = [escrow EXCEPT ![e].status = status]
  /\ UNCHANGED protocolVars

(* What both then do: the stored amount is paid, an excess in custody      *)
(* stays there.                                                            *)
Settle(e, destination, status) ==
  /\ ExactTransfer(e, destination, escrow[e].amount)
  /\ escrow' = [escrow EXCEPT ![e].status = status]
  /\ UNCHANGED protocolVars

(* Variant: the expiry is not checked. *)
ReleaseChecksAnytime(e, recipient_token) ==
  /\ require_protocol_active("ESCROW_RELEASE")
  /\ Funded(e)
  /\ DestinationChecks(e, recipient_token, escrow[e].recipient)

(* release_escrow: signed by the maker, before expiry, to an account of    *)
(* the stored recipient.                                                   *)
ReleaseChecks(e, recipient_token) ==
  /\ require_protocol_active("ESCROW_RELEASE")
  /\ Funded(e)
  /\ escrow[e].expires_at > now
  /\ DestinationChecks(e, recipient_token, escrow[e].recipient)

ReleaseEscrow(e, recipient_token) ==
  /\ ReleaseChecks(e, recipient_token)
  /\ Settle(e, recipient_token, "Released")

(* Variants: refused at the expiry itself; blocked by the release pause.   *)
RefundChecksLate(e, maker_destination) ==
  /\ Funded(e) /\ now > escrow[e].expires_at
  /\ DestinationChecks(e, maker_destination, escrow[e].maker)

RefundChecksPausable(e, maker_destination) ==
  /\ require_protocol_active("ESCROW_RELEASE")
  /\ Funded(e) /\ now >= escrow[e].expires_at
  /\ DestinationChecks(e, maker_destination, escrow[e].maker)

(* refund_escrow: anyone may call it, at or after expiry, whatever is      *)
(* paused; the destination must be the maker's.                            *)
RefundChecks(e, maker_destination) ==
  /\ Funded(e)
  /\ now >= escrow[e].expires_at
  /\ DestinationChecks(e, maker_destination, escrow[e].maker)

RefundEscrow(e, maker_destination) ==
  /\ RefundChecks(e, maker_destination)
  /\ Settle(e, maker_destination, "Refunded")

(* A holder moves its own tokens, into a custody account if it likes. *)
DirectTransfer(from, to, amount) ==
  /\ from # to
  /\ amount > 0
  /\ AccountMint(from) = AccountMint(to)
  /\ ExactTransfer(from, to, amount)
  /\ UNCHANGED <<protocol_config, now, escrow>>

Release(e) == \E d \in LiveAccounts : ReleaseEscrow(e, d)
Refund(e) == \E d \in LiveAccounts : RefundEscrow(e, d)

EscrowNext ==
  \/ ProtocolNext /\ UNCHANGED <<balance, escrow>>
  \/ \E maker \in Makers, w \in Wallets, id \in EscrowIds, r \in Recipients,
        amount \in Amounts, t \in Expiries : CreateEscrow(maker, w, id, r, amount, t)
  \/ \E e \in EscrowPDAs : Release(e)
  \/ \E e \in EscrowPDAs : Refund(e)
  \/ \E from \in Wallets, to \in LiveAccounts, amount \in Amounts :
        DirectTransfer(from, to, amount)

EscrowSpec == EscrowInit /\ [][EscrowNext]_escrowVars

(* The clock advances, and somebody calls the permissionless refund of an  *)
(* escrow as long as it would succeed.                                     *)
EscrowFairSpec ==
  /\ EscrowSpec
  /\ WF_escrowVars(Tick /\ UNCHANGED <<balance, escrow>>)
  /\ \A e \in EscrowPDAs : WF_escrowVars(Refund(e))

-----------------------------------------------------------------------------
(***************************************************************************)
(* Properties.                                                             *)
(***************************************************************************)

(* The accounts hold values of their types. *)
TypeOK ==
  /\ ProtocolTypeOK
  /\ escrow \in [EscrowPDAs -> EscrowRecord]
  /\ balance \in [TokenAccounts -> 0 .. U64Max]

(* The custody account of a funded escrow holds at least the promised      *)
(* amount: the InsufficientFunds branch of release_escrow and of           *)
(* refund_escrow is never taken, whatever other escrows and holders do.    *)
CustodyCoversFunded ==
  \A e \in EscrowPDAs : Funded(e) => balance[e] >= escrow[e].amount

(* The settlements that would succeed now. *)
CanRelease(e) ==
  \E d \in LiveAccounts :
    ReleaseChecks(e, d) /\ TransferSucceeds(e, d, escrow[e].amount)
CanRefund(e) ==
  \E d \in LiveAccounts :
    RefundChecks(e, d) /\ TransferSucceeds(e, d, escrow[e].amount)

(* Time is split between the two ways out of a funded escrow with neither  *)
(* a gap nor an overlap: refund_escrow would succeed exactly from          *)
(* expires_at on, whatever is paused, whatever happened to the balances,   *)
(* and release_escrow only before.                                         *)
ExitsPartitionTime ==
  \A e \in EscrowPDAs : Funded(e) =>
    /\ CanRefund(e) <=> now >= escrow[e].expires_at
    /\ CanRelease(e) => now < escrow[e].expires_at

AccountsOf(mint) == {a \in TokenAccounts : AccountMint(a) = mint}

(* No instruction makes or loses a unit of any mint: what the wallets and  *)
(* the custody accounts of a mint hold together never changes.             *)
SupplyConserved ==
  \A m \in Mints :
    Cardinality(Coins(balance, AccountsOf(m))) = InitialSupply(m)

(* A custody account never loses tokens except to one account of the party *)
(* the stored terms and the clock entitle: the recipient before expiry,    *)
(* the maker from expiry on; and then it loses exactly the stored amount.  *)
CustodyPaysEntitledParty ==
  [][\A e \in EscrowPDAs : balance'[e] < balance[e] =>
       /\ balance[e] - balance'[e] = escrow[e].amount
       /\ \E a \in LiveAccounts \ {e} :
            /\ balance'[a] = balance[a] + escrow[e].amount
            /\ AccountMint(a) = escrow[e].mint
            /\ AccountOwner(a) = IF now < escrow[e].expires_at
                                 THEN escrow[e].recipient
                                 ELSE escrow[e].maker]_escrowVars

(* The escrow account as the abstract deal it implements. *)
Deal(e) ==
  IF Exists(e)
  THEN [state |-> CASE escrow[e].status = "Funded"   -> "open"
                    [] escrow[e].status = "Released" -> "delivered"
                    [] OTHER                         -> "returned",
        terms |-> [payer |-> escrow[e].maker, payee |-> escrow[e].recipient,
                   amount |-> escrow[e].amount,
                   expires_at |-> escrow[e].expires_at]]
  ELSE [state |-> "none"]

Promise ==
  INSTANCE EscrowPromise WITH
    Deals <- EscrowPDAs,
    Parties <- Makers \cup Recipients,
    MaxAmount <- U64Max,
    Horizon <- MaxTime,
    deal <- [e \in EscrowPDAs |-> Deal(e)],
    held <- [e \in EscrowPDAs |-> balance[e]],
    clock <- now

(* The escrow instructions implement the promise: opened once, immutable   *)
(* terms, settled at most once, on the right side of the expiry, for       *)
(* exactly the amount.                                                     *)
KeepsPromise == Promise!Spec

(* A funded escrow whose expiry comes is settled in the end, even if       *)
(* release_escrow stays paused for ever.                                   *)
EventuallySettled ==
  \A e \in EscrowPDAs :
    (Funded(e) /\ escrow[e].expires_at <= MaxTime) ~> (Exists(e) /\ ~Funded(e))

=============================================================================
