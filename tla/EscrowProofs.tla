---------------------------- MODULE EscrowProofs ----------------------------
(***************************************************************************)
(* Proofs about Escrow, for any keys, wallets, mints, amounts and times.   *)
(***************************************************************************)
EXTENDS Escrow, CommonProofs

(* The token accounts are the wallets and the custody accounts, and none   *)
(* is both; only accounts that exist take part in an instruction.          *)
LEMMA AccountsAre ==
  /\ \A w \in Wallets : w \in TokenAccounts /\ w \notin EscrowPDAs
  /\ \A e \in EscrowPDAs : e \in TokenAccounts /\ e \notin Wallets
  /\ \A a \in TokenAccounts : a \in Wallets \/ a \in EscrowPDAs
  /\ \A a \in LiveAccounts : a \in TokenAccounts
  /\ \A maker \in Makers, id \in EscrowIds : <<maker, id>> \in EscrowPDAs
  BY EscrowAssumption, Zenon DEF LiveAccounts, TokenAccounts, EscrowPDAs

(* What the type invariant says of one escrow and of the clock. *)
LEMMA EscrowTyped ==
  ASSUME TypeOK, NEW e \in EscrowPDAs
  PROVE  /\ escrow[e] \in EscrowRecord
         /\ escrow[e].amount \in Nat /\ escrow[e].expires_at \in Nat /\ now \in Nat
<1>1. escrow[e] \in EscrowRecord /\ now \in 0 .. MaxTime
  BY Zenon DEF TypeOK, ProtocolTypeOK
<1>2. escrow[e].amount \in 0 .. U64Max /\ escrow[e].expires_at \in 0 .. MaxTime + 1
  BY <1>1, Zenon DEF EscrowRecord, Expiries
<1>3. QED
  BY <1>1, <1>2

(* What it says of one token account. *)
LEMMA BalanceIsNat ==
  ASSUME TypeOK, NEW a \in TokenAccounts
  PROVE  balance[a] \in Nat
  BY U64IsNat, Zenon DEF TypeOK

-----------------------------------------------------------------------------

(* The initial state is well typed. *)
LEMMA InitType == EscrowInit => TypeOK
<1> SUFFICES ASSUME EscrowInit
             PROVE  TypeOK
  BY Zenon
<1>1. 0 \in 0 .. U64Max /\ 0 \in 0 .. MaxTime /\ 0 \in 0 .. MaxTime + 1
  BY ProtocolAssumption, LedgerAssumption
<1>2. ProtocolTypeOK
  BY ProtocolInitType, Zenon DEF EscrowInit
<1>3. escrow \in [EscrowPDAs -> EscrowRecord]
  BY <1>1, Zenon DEF EscrowInit, Absent, EscrowRecord, Expiries
<1>4. balance \in [TokenAccounts -> 0 .. U64Max]
  BY <1>1, LedgerAssumption, Zenon DEF EscrowInit
<1>5. QED
  BY <1>2, <1>3, <1>4, Zenon DEF TypeOK

(* What a settlement does to the records: it marks its escrow as settled,  *)
(* once, and changes nothing else.                                         *)
LEMMA SettlementRecords ==
  ASSUME TypeOK, NEW e \in EscrowPDAs, NEW d \in LiveAccounts,
         ReleaseEscrow(e, d) \/ RefundEscrow(e, d)
  PROVE  /\ ExactTransfer(e, d, escrow[e].amount)
         /\ protocol_config' = protocol_config /\ now' = now
         /\ Funded(e) /\ escrow'[e].status \in {"Released", "Refunded"}
         /\ escrow'[e].maker = escrow[e].maker /\ escrow'[e].mint = escrow[e].mint
         /\ \A x \in EscrowPDAs \ {e} : escrow'[x] = escrow[x]
         /\ escrow' \in [EscrowPDAs -> EscrowRecord]
<1>1. PICK status \in {"Released", "Refunded"} : Settle(e, d, status)
  BY Zenon DEF ReleaseEscrow, RefundEscrow
<1>2. /\ ExactTransfer(e, d, escrow[e].amount)
      /\ protocol_config' = protocol_config /\ now' = now
      /\ escrow' = [escrow EXCEPT ![e].status = status]
  BY <1>1, Zenon DEF Settle, protocolVars
<1>3. Funded(e)
  BY Zenon DEF ReleaseEscrow, RefundEscrow, ReleaseChecks, RefundChecks
<1>4. escrow'[e] = [escrow[e] EXCEPT !.status = status]
  BY <1>2, Zenon DEF TypeOK
<1>5. escrow[e] \in EscrowRecord
  BY EscrowTyped, Zenon
<1>6. /\ escrow'[e].status = status
      /\ escrow'[e].maker = escrow[e].maker /\ escrow'[e].mint = escrow[e].mint
      /\ escrow'[e] \in EscrowRecord
  BY <1>4, <1>5 DEF EscrowRecord
<1>7. \A x \in EscrowPDAs \ {e} : escrow'[x] = escrow[x]
  BY <1>2, Zenon DEF TypeOK
<1>8. escrow' \in [EscrowPDAs -> EscrowRecord]
  BY <1>2, <1>4, <1>6, Zenon DEF TypeOK
<1>9. QED
  BY <1>2, <1>3, <1>6, <1>7, <1>8, Zenon

(* Every step keeps the types. *)
LEMMA NextType == TypeOK /\ [EscrowNext]_escrowVars => TypeOK'
<1> SUFFICES ASSUME TypeOK, [EscrowNext]_escrowVars
             PROVE  TypeOK'
  BY Zenon
<1>1. CASE ProtocolNext /\ UNCHANGED <<balance, escrow>>
  BY <1>1, ProtocolType, Zenon DEF TypeOK
<1>2. ASSUME NEW maker \in Makers, NEW w \in Wallets, NEW id \in EscrowIds,
             NEW r \in Recipients, NEW amount \in Amounts, NEW t \in Expiries,
             CreateEscrow(maker, w, id, r, amount, t)
      PROVE  TypeOK'
  <2>1. /\ <<maker, id>> \in EscrowPDAs /\ <<maker, id>> \in TokenAccounts
        /\ w \in TokenAccounts /\ amount \in Nat
    BY AccountsAre, AmountIsNat, Zenon
  <2>2. balance' \in [TokenAccounts -> 0 .. U64Max]
    <3>1. ExactTransfer(w, <<maker, id>>, amount)
      BY <1>2, Zenon DEF CreateEscrow
    <3>2. QED
      BY <2>1, <3>1, TransferType, Zenon DEF TypeOK
  <2>3. escrow' \in [EscrowPDAs -> EscrowRecord]
    <3>1. amount \in 0 .. U64Max /\ WalletMint[w] \in Mints /\ now \in 0 .. MaxTime
      BY LedgerAssumption, Zenon DEF TypeOK, ProtocolTypeOK
    <3>2. [status |-> "Funded", maker |-> maker, recipient |-> r, mint |-> WalletMint[w],
           amount |-> amount, created_at |-> now, expires_at |-> t] \in EscrowRecord
      BY <3>1, Zenon DEF EscrowRecord
    <3>3. QED
      BY <1>2, <2>1, <3>2, Zenon DEF CreateEscrow, TypeOK
  <2>4. ProtocolTypeOK'
    BY <1>2, Zenon DEF CreateEscrow, TypeOK, ProtocolTypeOK, protocolVars
  <2>5. QED
    BY <2>2, <2>3, <2>4, Zenon DEF TypeOK
<1>3. ASSUME NEW e \in EscrowPDAs, NEW d \in LiveAccounts,
             ReleaseEscrow(e, d) \/ RefundEscrow(e, d)
      PROVE  TypeOK'
  <2>1. e \in TokenAccounts /\ d \in TokenAccounts /\ escrow[e].amount \in Nat
    BY AccountsAre, EscrowTyped, Zenon
  <2>2. /\ ExactTransfer(e, d, escrow[e].amount)
        /\ protocol_config' = protocol_config /\ now' = now
        /\ escrow' \in [EscrowPDAs -> EscrowRecord]
    BY <1>3, SettlementRecords, Zenon
  <2>3. balance' \in [TokenAccounts -> 0 .. U64Max]
    BY <2>1, <2>2, TransferType, Zenon DEF TypeOK
  <2>4. QED
    BY <2>2, <2>3, Zenon DEF TypeOK, ProtocolTypeOK
<1>4. ASSUME NEW from \in Wallets, NEW to \in LiveAccounts, NEW amount \in Amounts,
             DirectTransfer(from, to, amount)
      PROVE  TypeOK'
  <2>1. from \in TokenAccounts /\ to \in TokenAccounts /\ amount \in Nat
    BY AccountsAre, AmountIsNat, Zenon
  <2>2. ExactTransfer(from, to, amount) /\ UNCHANGED <<protocol_config, now, escrow>>
    BY <1>4, Zenon DEF DirectTransfer
  <2>3. balance' \in [TokenAccounts -> 0 .. U64Max]
    BY <2>1, <2>2, TransferType, Zenon DEF TypeOK
  <2>4. QED
    BY <2>2, <2>3, Zenon DEF TypeOK, ProtocolTypeOK
<1>5. CASE UNCHANGED escrowVars
  BY <1>5, Zenon DEF TypeOK, ProtocolTypeOK, escrowVars
<1>6. QED
  BY <1>1, <1>2, <1>3, <1>4, <1>5, ZenonT(30) DEF EscrowNext, Release, Refund

(* The accounts of the escrow instructions always hold values of their     *)
(* types; no balance ever leaves u64.                                      *)
THEOREM TypeCorrect == EscrowSpec => []TypeOK
  BY InitType, NextType, PTL DEF EscrowSpec

-----------------------------------------------------------------------------
(***************************************************************************)
(* Custody covers what is promised. The invariant is inductive together    *)
(* with TypeOK: the only transfers out of a custody account are the two    *)
(* settlements, and each of them ends the promise it pays.                 *)
(***************************************************************************)

(* What a settlement does to the balances. *)
LEMMA SettlementEffect ==
  ASSUME TypeOK, NEW e \in EscrowPDAs, NEW d \in LiveAccounts,
         ReleaseEscrow(e, d) \/ RefundEscrow(e, d)
  PROVE  /\ e \in TokenAccounts /\ d \in TokenAccounts
         /\ Moved(TokenAccounts, e, d, escrow[e].amount)
         /\ escrow[e].amount > 0 => d # e
<1>1. e \in TokenAccounts /\ d \in TokenAccounts /\ escrow[e].amount \in Nat
  BY AccountsAre, EscrowTyped, Zenon
<1>2. ExactTransfer(e, d, escrow[e].amount)
  BY SettlementRecords, Zenon
<1>3. Moved(TokenAccounts, e, d, escrow[e].amount)
  BY <1>1, <1>2, TransferMoves, Zenon DEF TypeOK
<1>4. escrow[e].amount > 0 => d # e
  BY <1>1, <1>2, TransferApart, Zenon DEF TypeOK
<1>5. QED
  BY <1>1, <1>3, <1>4, Zenon

(* What opening an escrow does to the balances of custody accounts, and to *)
(* the records.                                                            *)
FundsCustody(e, amount) ==
  /\ e \in EscrowPDAs
  /\ balance[e] = 0 /\ balance'[e] = amount
  /\ \A x \in EscrowPDAs \ {e} : balance'[x] = balance[x]
WritesTerms(e, maker, r, amount, t) ==
  /\ e \in EscrowPDAs /\ ~Exists(e)
  /\ escrow'[e].status = "Funded"
  /\ escrow'[e].maker = maker /\ escrow'[e].recipient = r
  /\ escrow'[e].amount = amount /\ escrow'[e].expires_at = t
  /\ \A x \in EscrowPDAs \ {e} : escrow'[x] = escrow[x]

(* create_escrow funds one custody account and no other. *)
LEMMA OpeningBalances ==
  ASSUME TypeOK, NEW maker \in Makers, NEW w \in Wallets, NEW id \in EscrowIds,
         NEW r \in Recipients, NEW amount \in Amounts, NEW t \in Expiries,
         CreateEscrow(maker, w, id, r, amount, t),
         NEW e, e = <<maker, id>>
  PROVE  FundsCustody(e, amount)
<1>1. e \in EscrowPDAs /\ e \in TokenAccounts /\ w \in TokenAccounts /\ amount \in Nat
  BY AccountsAre, AmountIsNat, Zenon
<1>2. ExactTransfer(w, e, amount) /\ balance[e] = 0
  BY Zenon DEF CreateEscrow
<1>3. Moved(TokenAccounts, w, e, amount)
  BY <1>1, <1>2, TransferMoves, Zenon DEF TypeOK
<1>4. balance'[e] = amount
  <2>1. balance'[e] = balance[e] + amount
    BY <1>3, Zenon DEF Moved
  <2>2. QED
    BY <1>1, <1>2, <2>1
<1>5. \A x \in EscrowPDAs \ {e} : balance'[x] = balance[x]
  BY <1>3, AccountsAre, Zenon DEF Moved
<1>6. QED
  BY <1>1, <1>2, <1>4, <1>5, Zenon DEF FundsCustody

(* It writes the terms into one record that was not in use. *)
LEMMA OpeningRecords ==
  ASSUME TypeOK, NEW maker \in Makers, NEW w \in Wallets, NEW id \in EscrowIds,
         NEW r \in Recipients, NEW amount \in Amounts, NEW t \in Expiries,
         CreateEscrow(maker, w, id, r, amount, t),
         NEW e, e = <<maker, id>>
  PROVE  WritesTerms(e, maker, r, amount, t)
<1>1. e \in EscrowPDAs
  BY AccountsAre, Zenon
<1>2. escrow' = [escrow EXCEPT ![e] =
              [status |-> "Funded", maker |-> maker, recipient |-> r,
               mint |-> WalletMint[w], amount |-> amount, created_at |-> now,
               expires_at |-> t]]
      /\ ~Exists(e)
  BY Zenon DEF CreateEscrow
<1>3. escrow'[e] = [status |-> "Funded", maker |-> maker, recipient |-> r,
                    mint |-> WalletMint[w], amount |-> amount, created_at |-> now,
                    expires_at |-> t]
  BY <1>1, <1>2, Zenon DEF TypeOK
<1>4. \A x \in EscrowPDAs \ {e} : escrow'[x] = escrow[x]
  BY <1>2, Zenon DEF TypeOK
<1>5. /\ escrow'[e].status = "Funded"
      /\ escrow'[e].maker = maker /\ escrow'[e].recipient = r
      /\ escrow'[e].amount = amount /\ escrow'[e].expires_at = t
  BY <1>3
<1>6. QED
  BY <1>1, <1>2, <1>4, <1>5, Zenon DEF WritesTerms

(* What a holder's own transfer does to them: custody can only gain. *)
LEMMA DirectTransferEffect ==
  ASSUME TypeOK, NEW from \in Wallets, NEW to \in LiveAccounts, NEW amount \in Amounts,
         DirectTransfer(from, to, amount)
  PROVE  /\ escrow' = escrow /\ now' = now
         /\ amount > 0 /\ amount \in Nat
         /\ to \in EscrowPDAs => balance'[to] = balance[to] + amount
         /\ \A x \in EscrowPDAs \ {to} : balance'[x] = balance[x]
<1>1. from \in TokenAccounts /\ to \in TokenAccounts /\ amount \in Nat
  BY AccountsAre, AmountIsNat, Zenon
<1>2. ExactTransfer(from, to, amount) /\ amount > 0 /\ escrow' = escrow /\ now' = now
  BY Zenon DEF DirectTransfer
<1>3. Moved(TokenAccounts, from, to, amount)
  BY <1>1, <1>2, TransferMoves, Zenon DEF TypeOK
<1>4. balance'[to] = balance[to] + amount
  BY <1>3, Zenon DEF Moved
<1>5. \A x \in EscrowPDAs \ {to} : balance'[x] = balance[x]
  BY <1>3, AccountsAre, Zenon DEF Moved
<1>6. QED
  BY <1>1, <1>2, <1>4, <1>5, Zenon

(* Every step keeps custody at or above what is promised. *)
LEMMA NextCovers ==
  TypeOK /\ CustodyCoversFunded /\ [EscrowNext]_escrowVars => CustodyCoversFunded'
<1> SUFFICES ASSUME TypeOK, CustodyCoversFunded, [EscrowNext]_escrowVars
             PROVE  CustodyCoversFunded'
  OBVIOUS
<1>1. CASE ProtocolNext /\ UNCHANGED <<balance, escrow>>
  BY <1>1, Zenon DEF CustodyCoversFunded, Funded
<1>2. ASSUME NEW maker \in Makers, NEW w \in Wallets, NEW id \in EscrowIds,
             NEW r \in Recipients, NEW amount \in Amounts, NEW t \in Expiries,
             CreateEscrow(maker, w, id, r, amount, t)
      PROVE  CustodyCoversFunded'
  <2> DEFINE e == <<maker, id>>
  <2>1. e = <<maker, id>>
    BY Zenon
  <2> HIDE DEF e
  <2>2. FundsCustody(e, amount)
    BY <1>2, <2>1, OpeningBalances, Zenon
  <2>3. WritesTerms(e, maker, r, amount, t)
    BY <1>2, <2>1, OpeningRecords, Zenon
  <2>4. amount >= amount
    BY AmountIsNat, AtLeastItself, Zenon
  <2>5. QED
    BY <2>2, <2>3, <2>4, Zenon DEF CustodyCoversFunded, Funded, FundsCustody, WritesTerms
<1>3. ASSUME NEW e \in EscrowPDAs, NEW d \in LiveAccounts,
             ReleaseEscrow(e, d) \/ RefundEscrow(e, d)
      PROVE  CustodyCoversFunded'
  <2> SUFFICES ASSUME NEW x \in EscrowPDAs, Funded(x)'
               PROVE  balance'[x] >= escrow'[x].amount
    BY Zenon DEF CustodyCoversFunded
  <2>1. x # e
    BY <1>3, SettlementRecords, Zenon DEF Funded
  <2>2. escrow'[x] = escrow[x] /\ balance[x] >= escrow[x].amount
    BY <1>3, <2>1, SettlementRecords, Zenon DEF CustodyCoversFunded, Funded
  <2>3. /\ x \in TokenAccounts /\ balance[x] \in Nat
        /\ escrow[x].amount \in Nat /\ escrow[e].amount \in Nat
    BY AccountsAre, BalanceIsNat, EscrowTyped, Zenon
  <2>4. balance'[x] = balance[x] \/ balance'[x] = balance[x] + escrow[e].amount
    BY <1>3, <2>1, <2>3, SettlementEffect, Zenon DEF Moved
  <2>5. QED
    BY <2>2, <2>3, <2>4
<1>4. ASSUME NEW from \in Wallets, NEW to \in LiveAccounts, NEW amount \in Amounts,
             DirectTransfer(from, to, amount)
      PROVE  CustodyCoversFunded'
  <2> SUFFICES ASSUME NEW x \in EscrowPDAs, Funded(x)'
               PROVE  balance'[x] >= escrow'[x].amount
    BY Zenon DEF CustodyCoversFunded
  <2>1. escrow'[x] = escrow[x] /\ balance[x] >= escrow[x].amount
    BY <1>4, DirectTransferEffect, Zenon DEF CustodyCoversFunded, Funded
  <2>2. balance[x] \in Nat /\ escrow[x].amount \in Nat /\ amount \in Nat
    BY AccountsAre, BalanceIsNat, EscrowTyped, AmountIsNat, Zenon
  <2>3. balance'[x] = balance[x] \/ balance'[x] = balance[x] + amount
    BY Zenon, <1>4, DirectTransferEffect
  <2>4. QED
    BY <2>1, <2>2, <2>3
<1>5. CASE UNCHANGED escrowVars
  BY <1>5, Zenon DEF CustodyCoversFunded, Funded, escrowVars
<1>6. QED
  BY <1>1, <1>2, <1>3, <1>4, <1>5, Zenon DEF EscrowNext, Release, Refund

(* At first there is no escrow. *)
LEMMA NoneAtFirst ==
  ASSUME EscrowInit, NEW e \in EscrowPDAs
  PROVE  ~Exists(e) /\ ~Funded(e)
<1>1. escrow[e] = Absent
  BY Zenon DEF EscrowInit
<1>2. QED
  BY <1>1 DEF Absent, Exists, Funded

(* A funded escrow's custody account always holds at least the promised    *)
(* amount, however escrows, holders and pauses interleave: neither         *)
(* release_escrow nor refund_escrow can fail for lack of funds.            *)
THEOREM CustodyCovered == EscrowSpec => []CustodyCoversFunded
<1>1. EscrowInit => CustodyCoversFunded
  BY NoneAtFirst, Zenon DEF CustodyCoversFunded
<1>2. QED
  BY <1>1, TypeCorrect, NextCovers, PTL DEF EscrowSpec

-----------------------------------------------------------------------------

(* The body of the action property CustodyPaysEntitledParty. *)
PaysEntitledParty ==
  \A e \in EscrowPDAs : balance'[e] < balance[e] =>
    /\ balance[e] - balance'[e] = escrow[e].amount
    /\ \E a \in LiveAccounts \ {e} :
         /\ balance'[a] = balance[a] + escrow[e].amount
         /\ AccountMint(a) = escrow[e].mint
         /\ AccountOwner(a) = IF now < escrow[e].expires_at
                              THEN escrow[e].recipient
                              ELSE escrow[e].maker

(* Tokens leave a custody account only for the party that the stored terms *)
(* and the clock entitle, and only the stored amount.                      *)
THEOREM CustodyPaysEntitled == EscrowSpec => CustodyPaysEntitledParty
<1>1. TypeOK /\ [EscrowNext]_escrowVars => [PaysEntitledParty]_escrowVars
  <2> SUFFICES ASSUME TypeOK, EscrowNext, NEW x \in EscrowPDAs,
                      balance'[x] < balance[x]
               PROVE  /\ balance[x] - balance'[x] = escrow[x].amount
                      /\ \E a \in LiveAccounts \ {x} :
                           /\ balance'[a] = balance[a] + escrow[x].amount
                           /\ AccountMint(a) = escrow[x].mint
                           /\ AccountOwner(a) = IF now < escrow[x].expires_at
                                                THEN escrow[x].recipient
                                                ELSE escrow[x].maker
    BY Zenon DEF PaysEntitledParty
  <2>1. balance[x] \in Nat /\ x \in TokenAccounts
    BY AccountsAre, BalanceIsNat, Zenon
  <2>2. balance'[x] # balance[x]
    BY <2>1, AtLeastItself, Zenon
  <2>3. ASSUME NEW maker \in Makers, NEW w \in Wallets, NEW id \in EscrowIds,
               NEW r \in Recipients, NEW amount \in Amounts, NEW t \in Expiries,
               CreateEscrow(maker, w, id, r, amount, t)
        PROVE  FALSE
    <3> DEFINE e == <<maker, id>>
    <3>1. e = <<maker, id>>
      BY Zenon
    <3> HIDE DEF e
    <3>2. FundsCustody(e, amount)
      BY <2>3, <3>1, OpeningBalances, Zenon
    <3>3. amount \in Nat
      BY AmountIsNat, Zenon
    <3>4. x = e
      BY <2>2, <3>2, Zenon DEF FundsCustody
    <3>5. amount < 0
      BY <3>2, <3>4, Zenon DEF FundsCustody
    <3>6. QED
      BY <3>3, <3>5
  <2>4. ASSUME NEW from \in Wallets, NEW to \in LiveAccounts, NEW amount \in Amounts,
               DirectTransfer(from, to, amount)
        PROVE  FALSE
    <3>1. amount \in Nat
      BY AmountIsNat, Zenon
    <3>2. x = to
      BY <2>2, <2>4, DirectTransferEffect, Zenon
    <3>3. balance[x] + amount < balance[x]
      BY <2>4, <3>2, DirectTransferEffect, Zenon
    <3>4. QED
      BY <2>1, <3>1, <3>3, AddingTakesNothing, Zenon
  <2>5. PICK e \in EscrowPDAs, d \in LiveAccounts : ReleaseEscrow(e, d) \/ RefundEscrow(e, d)
    BY <2>2, <2>3, <2>4, Zenon DEF EscrowNext, Release, Refund
  <2>6. escrow[e].amount \in Nat /\ now \in Nat /\ escrow[e].expires_at \in Nat
    BY EscrowTyped, Zenon
  <2>7. /\ e \in TokenAccounts /\ d \in TokenAccounts
        /\ Moved(TokenAccounts, e, d, escrow[e].amount)
        /\ escrow[e].amount > 0 => d # e
    BY <2>5, SettlementEffect, Zenon
  <2>8. x = e /\ balance'[x] = balance[x] - escrow[x].amount
    <3>1. x = e
      BY <2>1, <2>6, <2>7, OnlySourceLoses
    <3>2. QED
      BY <2>7, <3>1, Zenon DEF Moved
  <2>9. escrow[x].amount > 0 /\ balance[x] - balance'[x] = escrow[x].amount
    BY <2>1, <2>6, <2>8
  <2>10. d \in LiveAccounts \ {x} /\ balance'[d] = balance[d] + escrow[x].amount
    BY <2>5, <2>7, <2>8, <2>9, Zenon DEF Moved
  <2>11. now >= escrow[e].expires_at => ~(now < escrow[e].expires_at)
    BY <2>6
  <2>12. /\ AccountMint(d) = escrow[x].mint
         /\ AccountOwner(d) = IF now < escrow[x].expires_at
                              THEN escrow[x].recipient ELSE escrow[x].maker
    BY <2>5, <2>8, <2>11, Zenon
    DEF ReleaseEscrow, RefundEscrow, ReleaseChecks, RefundChecks, DestinationChecks
  <2>13. QED
    BY <2>9, <2>10, <2>12, Zenon
<1>2. QED
  BY <1>1, TypeCorrect, PTL DEF EscrowSpec, CustodyPaysEntitledParty, PaysEntitledParty

-----------------------------------------------------------------------------
(***************************************************************************)
(* Supply. The units of a mint are counted over the wallets and the        *)
(* custody accounts of that mint; a custody account joins them when        *)
(* create_escrow gives it its mint, and create_escrow requires it to be    *)
(* empty then.                                                             *)
(***************************************************************************)

(* The accounts of a mint are finitely many. *)
LEMMA AccountsFinite ==
  ASSUME NEW A \in SUBSET TokenAccounts
  PROVE  IsFiniteSet(A)
<1>1. IsFiniteSet(TokenAccounts)
  BY Zenon, SupplyAssumption, EscrowAssumption, FS_Union DEF TokenAccounts
<1>2. QED
  BY <1>1, FS_Subset, Zenon

(* A transfer between accounts whose mints stay as they are keeps the      *)
(* supply of every mint.                                                   *)
LEMMA TransferConserves ==
  ASSUME TypeOK, SupplyConserved,
         NEW from \in TokenAccounts, NEW to \in TokenAccounts, NEW amount \in Nat,
         ExactTransfer(from, to, amount),
         AccountMint(from) = AccountMint(to),
         \A a \in TokenAccounts : AccountMint(a)' = AccountMint(a)
  PROVE  SupplyConserved'
<1> SUFFICES ASSUME NEW m \in Mints
             PROVE  Cardinality(Coins(balance', AccountsOf(m)')) = InitialSupply(m)
  BY Zenon DEF SupplyConserved, Coins
<1> DEFINE A == AccountsOf(m)
<1>1. AccountsOf(m)' = A
  BY Zenon DEF AccountsOf, TokenAccounts
<1>2. A \in SUBSET TokenAccounts /\ (from \in A <=> to \in A)
  BY Zenon DEF AccountsOf
<1>3. Cardinality(Coins(balance, A)) = InitialSupply(m)
  BY Zenon DEF SupplyConserved
<1> HIDE DEF A
<1>4. Cardinality(Coins(balance', A)) = Cardinality(Coins(balance, A))
  <2>1. IsFiniteSet(A) /\ balance \in [TokenAccounts -> 0 .. U64Max]
    BY <1>2, AccountsFinite, Zenon DEF TypeOK
  <2>2. QED
    BY <1>2, <2>1, ExactTransferKeepsSupply, Zenon
<1>5. QED
  BY <1>1, <1>3, <1>4, Zenon

(* create_escrow keeps it too: the new custody account of the mint was     *)
(* empty, and its units come from the maker's wallet.                      *)
LEMMA OpeningConserves ==
  ASSUME TypeOK, SupplyConserved,
         NEW maker \in Makers, NEW w \in Wallets, NEW id \in EscrowIds,
         NEW r \in Recipients, NEW amount \in Amounts, NEW t \in Expiries,
         CreateEscrow(maker, w, id, r, amount, t)
  PROVE  SupplyConserved'
<1> SUFFICES ASSUME NEW m \in Mints
             PROVE  Cardinality(Coins(balance', AccountsOf(m)')) = InitialSupply(m)
  BY Zenon DEF SupplyConserved, Coins
<1> DEFINE e == <<maker, id>>
           A == AccountsOf(m)
           B == AccountsOf(m)'
<1>1. e \in EscrowPDAs /\ e \in TokenAccounts /\ e \notin Wallets
  BY AccountsAre, Zenon
<1>2. /\ ExactTransfer(w, e, amount) /\ balance[e] = 0
      /\ escrow' = [escrow EXCEPT ![e] =
            [status |-> "Funded", maker |-> maker, recipient |-> r,
             mint |-> WalletMint[w], amount |-> amount, created_at |-> now,
             expires_at |-> t]]
  BY Zenon DEF CreateEscrow
<1> HIDE DEF e
<1>3. /\ AccountMint(e)' = WalletMint[w] /\ AccountMint(w)' = WalletMint[w]
      /\ \A a \in TokenAccounts \ {e} : AccountMint(a)' = AccountMint(a)
  BY <1>1, <1>2, Zenon DEF AccountMint, TypeOK, TokenAccounts
<1>4. /\ A \in SUBSET TokenAccounts /\ B \in SUBSET TokenAccounts
      /\ A \ {e} = B \ {e} /\ (w \in B <=> e \in B)
  BY <1>1, <1>3, AccountsAre, Zenon DEF AccountsOf, TokenAccounts
<1>5. Cardinality(Coins(balance, A)) = InitialSupply(m)
  BY Zenon DEF SupplyConserved
<1> HIDE DEF A, B
<1>6. Coins(balance, B) = Coins(balance, A)
  <2>1. \A c : c \in A \X (1 .. U64Max) /\ c[2] <= balance[c[1]] => c[1] # e
    BY <1>2
  <2>2. \A c : c \in B \X (1 .. U64Max) /\ c[2] <= balance[c[1]] => c[1] # e
    BY <1>2
  <2>3. QED
    BY <1>4, <2>1, <2>2, Zenon DEF Coins
<1>7. Cardinality(Coins(balance', B)) = Cardinality(Coins(balance, B))
  <2>1. w \in TokenAccounts /\ amount \in Nat /\ balance \in [TokenAccounts -> 0 .. U64Max]
    BY AccountsAre, AmountIsNat, Zenon DEF TypeOK
  <2>2. IsFiniteSet(B)
    BY <1>4, AccountsFinite, Zenon
  <2>3. QED
    BY <1>1, <1>2, <1>4, <2>1, <2>2, ExactTransferKeepsSupply, Zenon
<1>8. QED
  BY <1>5, <1>6, <1>7, Zenon DEF B

(* Every step conserves the supply. *)
LEMMA NextConserves ==
  TypeOK /\ SupplyConserved /\ [EscrowNext]_escrowVars => SupplyConserved'
<1> SUFFICES ASSUME TypeOK, SupplyConserved, [EscrowNext]_escrowVars
             PROVE  SupplyConserved'
  OBVIOUS
<1>1. CASE UNCHANGED <<balance, escrow>>
  BY <1>1, Zenon DEF SupplyConserved, Coins, AccountsOf, AccountMint
<1>2. ASSUME NEW maker \in Makers, NEW w \in Wallets, NEW id \in EscrowIds,
             NEW r \in Recipients, NEW amount \in Amounts, NEW t \in Expiries,
             CreateEscrow(maker, w, id, r, amount, t)
      PROVE  SupplyConserved'
  BY <1>2, OpeningConserves, Zenon
<1>3. ASSUME NEW e \in EscrowPDAs, NEW d \in LiveAccounts,
             ReleaseEscrow(e, d) \/ RefundEscrow(e, d)
      PROVE  SupplyConserved'
  <2>1. e \in TokenAccounts /\ d \in TokenAccounts /\ escrow[e].amount \in Nat
    BY AccountsAre, EscrowTyped, Zenon
  <2>2. ExactTransfer(e, d, escrow[e].amount) /\ AccountMint(d) = escrow[e].mint
    BY <1>3, Zenon DEF ReleaseEscrow, RefundEscrow, Settle, ReleaseChecks, RefundChecks,
                DestinationChecks
  <2>3. AccountMint(e) = escrow[e].mint
    BY AccountsAre, Zenon DEF AccountMint
  <2>4. \A a \in TokenAccounts : AccountMint(a)' = AccountMint(a)
    <3>1. \A x \in EscrowPDAs : escrow'[x].mint = escrow[x].mint
      BY <1>3, SettlementRecords, Zenon
    <3>2. QED
      BY <3>1, AccountsAre, Zenon DEF AccountMint
  <2>5. QED
    BY <2>1, <2>2, <2>3, <2>4, TransferConserves, Zenon
<1>4. ASSUME NEW from \in Wallets, NEW to \in LiveAccounts, NEW amount \in Amounts,
             DirectTransfer(from, to, amount)
      PROVE  SupplyConserved'
  <2>1. from \in TokenAccounts /\ to \in TokenAccounts /\ amount \in Nat
    BY AccountsAre, AmountIsNat, Zenon
  <2>2. ExactTransfer(from, to, amount) /\ AccountMint(from) = AccountMint(to)
        /\ escrow' = escrow
    BY <1>4, Zenon DEF DirectTransfer
  <2>3. \A a \in TokenAccounts : AccountMint(a)' = AccountMint(a)
    BY <2>2, Zenon DEF AccountMint
  <2>4. QED
    BY <2>1, <2>2, <2>3, TransferConserves, Zenon
<1>5. QED
  BY <1>1, <1>2, <1>3, <1>4, Zenon DEF EscrowNext, Release, Refund, escrowVars

(* At first the whole supply is in the wallets. *)
LEMMA InitConserves == EscrowInit => SupplyConserved
<1> SUFFICES ASSUME EscrowInit, NEW m \in Mints
             PROVE  Coins(balance, AccountsOf(m)) = Coins(InitialBalances, WalletsOf(m))
  BY Zenon DEF SupplyConserved, InitialSupply
<1>1. /\ \A w \in Wallets : w \in TokenAccounts /\ balance[w] = InitialBalances[w]
      /\ \A a \in TokenAccounts : a \in Wallets \/ balance[a] = 0
  BY AccountsAre, Zenon DEF EscrowInit
<1>2. \A w \in Wallets : w \in AccountsOf(m) <=> w \in WalletsOf(m)
  BY AccountsAre, Zenon DEF AccountsOf, AccountMint, WalletsOf
<1>3. AccountsOf(m) \subseteq TokenAccounts /\ WalletsOf(m) \subseteq Wallets
  BY Zenon DEF AccountsOf, WalletsOf
<1>4. QED
  BY <1>1, <1>2, <1>3 DEF Coins

(* The escrow instructions neither make nor lose a unit of any mint.       *)
THEOREM EscrowConservesSupply == EscrowSpec => []SupplyConserved
  BY InitConserves, NextConserves, TypeCorrect, PTL DEF EscrowSpec

-----------------------------------------------------------------------------
(***************************************************************************)
(* The ways out. That the refund of an expired escrow always succeeds      *)
(* takes three facts: custody holds the amount, the maker has an account   *)
(* of the mint, and the amount fits that account because the two together  *)
(* cannot hold more than the supply.                                       *)
(***************************************************************************)

(* release_escrow succeeds exactly when its checks and the transfer do,    *)
(* and then it has one outcome; refund_escrow likewise. CanRelease and     *)
(* CanRefund therefore say when the two instructions are enabled.          *)
THEOREM ExitsSucceedExactly ==
  ASSUME TypeOK, NEW e \in EscrowPDAs, NEW d \in LiveAccounts
  PROVE  /\ ReleaseEscrow(e, d)
              <=> /\ ReleaseChecks(e, d) /\ TransferSucceeds(e, d, escrow[e].amount)
                  /\ transfer_checked(e, d, escrow[e].amount)
                  /\ escrow' = [escrow EXCEPT ![e].status = "Released"]
                  /\ UNCHANGED protocolVars
         /\ RefundEscrow(e, d)
              <=> /\ RefundChecks(e, d) /\ TransferSucceeds(e, d, escrow[e].amount)
                  /\ transfer_checked(e, d, escrow[e].amount)
                  /\ escrow' = [escrow EXCEPT ![e].status = "Refunded"]
                  /\ UNCHANGED protocolVars
<1>1. e \in TokenAccounts /\ d \in TokenAccounts /\ escrow[e].amount \in Nat
  BY AccountsAre, EscrowTyped, Zenon
<1>2. ExactTransfer(e, d, escrow[e].amount)
        <=> /\ TransferSucceeds(e, d, escrow[e].amount)
            /\ transfer_checked(e, d, escrow[e].amount)
  BY <1>1, TransferSucceedsExact, Zenon DEF TypeOK
<1>3. QED
  BY <1>2, Zenon DEF ReleaseEscrow, RefundEscrow, Settle

(* The mint of an escrow is supported, and its maker has a wallet of it:   *)
(* the one it was funded from.                                             *)
MakerHasWallet ==
  \A e \in EscrowPDAs : Exists(e) =>
    /\ escrow[e].mint \in SupportedMints
    /\ \E w \in Wallets : /\ WalletOwner[w] = escrow[e].maker
                          /\ WalletMint[w] = escrow[e].mint

(* Every step keeps it: the maker and the mint of an escrow never change.  *)
LEMMA NextMakerHasWallet ==
  TypeOK /\ MakerHasWallet /\ [EscrowNext]_escrowVars => MakerHasWallet'
<1> SUFFICES ASSUME TypeOK, MakerHasWallet, [EscrowNext]_escrowVars
             PROVE  MakerHasWallet'
  BY Zenon
<1>1. CASE escrow' = escrow
  BY <1>1, Zenon DEF MakerHasWallet, Exists
<1>2. ASSUME NEW maker \in Makers, NEW w \in Wallets, NEW id \in EscrowIds,
             NEW r \in Recipients, NEW amount \in Amounts, NEW t \in Expiries,
             CreateEscrow(maker, w, id, r, amount, t)
      PROVE  MakerHasWallet'
  <2> DEFINE e == <<maker, id>>
  <2>1. e \in EscrowPDAs
    BY Zenon DEF EscrowPDAs
  <2>2. /\ WalletMint[w] \in SupportedMints /\ WalletOwner[w] = maker
        /\ escrow' = [escrow EXCEPT ![e] =
             [status |-> "Funded", maker |-> maker, recipient |-> r,
              mint |-> WalletMint[w], amount |-> amount, created_at |-> now,
              expires_at |-> t]]
    BY <1>2, Zenon DEF CreateEscrow, mint_extensions_supported
  <2> HIDE DEF e
  <2>3. /\ escrow'[e].maker = maker /\ escrow'[e].mint = WalletMint[w]
        /\ \A x \in EscrowPDAs \ {e} : escrow'[x] = escrow[x]
    BY <2>1, <2>2, Zenon DEF TypeOK
  <2>4. QED
    BY <2>2, <2>3, Zenon DEF MakerHasWallet, Exists
<1>3. ASSUME NEW e \in EscrowPDAs, NEW d \in LiveAccounts,
             ReleaseEscrow(e, d) \/ RefundEscrow(e, d)
      PROVE  MakerHasWallet'
  <2>1. /\ Exists(e) /\ \A x \in EscrowPDAs \ {e} : escrow'[x] = escrow[x]
        /\ escrow'[e].maker = escrow[e].maker /\ escrow'[e].mint = escrow[e].mint
    BY <1>3, SettlementRecords, Zenon DEF Funded, Exists
  <2>2. QED
    BY <2>1, ZenonT(30) DEF MakerHasWallet, Exists
<1>4. QED
  BY <1>1, <1>2, <1>3, Zenon DEF EscrowNext, Release, Refund, DirectTransfer, escrowVars

(* From expires_at on the refund of a funded escrow succeeds. *)
LEMMA RefundSucceeds ==
  ASSUME TypeOK, CustodyCoversFunded, SupplyConserved, MakerHasWallet,
         NEW e \in EscrowPDAs, Funded(e), now >= escrow[e].expires_at
  PROVE  CanRefund(e)
<1>1. Exists(e)
  BY Zenon DEF Funded, Exists
<1>2. PICK w \in Wallets : WalletOwner[w] = escrow[e].maker /\ WalletMint[w] = escrow[e].mint
  BY <1>1, Zenon DEF MakerHasWallet
<1> DEFINE m == escrow[e].mint
           A == AccountsOf(m)
<1>3. m \in SupportedMints /\ m \in Mints
  BY <1>1, LedgerAssumption, Zenon DEF MakerHasWallet
<1>4. RefundChecks(e, w) /\ w \in LiveAccounts /\ w # e
  BY <1>2, <1>3, AccountsAre, Zenon
  DEF RefundChecks, DestinationChecks, mint_extensions_supported, AccountOwner, AccountMint,
      LiveAccounts
<1>5. A \in SUBSET TokenAccounts /\ e \in A /\ w \in A
  BY <1>2, AccountsAre, Zenon DEF AccountsOf, AccountMint
<1>6. IsFiniteSet(A) /\ \A a \in A : balance[a] \in 0 .. U64Max
  BY <1>5, AccountsFinite, Zenon DEF TypeOK
<1>7. Cardinality(Coins(balance, A)) <= U64Max
  BY <1>3, SupplyAssumption, Zenon DEF SupplyConserved
<1>8. Cardinality(Coins(balance, A)) \in Nat
  BY <1>6, CoinsFinite, Zenon
<1> HIDE DEF A
<1>9. balance[e] + balance[w] <= Cardinality(Coins(balance, A))
  BY <1>4, <1>5, <1>6, PairWithinSupply, Zenon
<1>10. balance[e] \in Nat /\ balance[w] \in Nat /\ escrow[e].amount \in Nat
  BY AccountsAre, BalanceIsNat, EscrowTyped, Zenon
<1>11. balance[e] >= escrow[e].amount
  BY Zenon DEF CustodyCoversFunded
<1>12. balance[w] + escrow[e].amount <= U64Max
  BY <1>7, <1>8, <1>9, <1>10, <1>11, LedgerAssumption
<1>13. TransferSucceeds(e, w, escrow[e].amount)
  BY <1>4, <1>11, <1>12, Zenon DEF TransferSucceeds
<1>14. QED
  BY <1>4, <1>13, Zenon DEF CanRefund

(* A funded escrow can be refunded exactly from expires_at on, whatever is *)
(* paused and whatever escrows and holders did to the balances, and it can *)
(* be released only before: time has neither a gap nor an overlap.         *)
THEOREM ExitsArePartitioned == EscrowSpec => []ExitsPartitionTime
<1>1. EscrowInit => MakerHasWallet
  BY NoneAtFirst, Zenon DEF MakerHasWallet
<1>2. TypeOK /\ CustodyCoversFunded /\ SupplyConserved /\ MakerHasWallet
        => ExitsPartitionTime
  <2> SUFFICES ASSUME TypeOK, CustodyCoversFunded, SupplyConserved, MakerHasWallet,
                      NEW e \in EscrowPDAs, Funded(e)
               PROVE  /\ CanRefund(e) <=> now >= escrow[e].expires_at
                      /\ CanRelease(e) => now < escrow[e].expires_at
    BY Zenon DEF ExitsPartitionTime
  <2>1. now \in Nat /\ escrow[e].expires_at \in Nat
    BY EscrowTyped, Zenon
  <2>2. CanRefund(e) => now >= escrow[e].expires_at
    BY Zenon DEF CanRefund, RefundChecks
  <2>3. CanRelease(e) => now < escrow[e].expires_at
    BY <2>1, Zenon DEF CanRelease, ReleaseChecks
  <2>4. QED
    BY <2>2, <2>3, RefundSucceeds, Zenon
<1>3. QED
  BY <1>1, <1>2, NextMakerHasWallet, TypeCorrect, CustodyCovered, EscrowConservesSupply,
     PTL DEF EscrowSpec

-----------------------------------------------------------------------------
(***************************************************************************)
(* Refinement: the escrow instructions implement EscrowPromise under the   *)
(* mapping of Escrow. Opening maps to Open, release to Deliver, refund to  *)
(* Return, a holder's transfer to Donate, the clock to Pass, and a step of *)
(* the protocol configuration to a stutter.                                *)
(***************************************************************************)

deals == [e \in EscrowPDAs |-> Deal(e)]
custody == [e \in EscrowPDAs |-> balance[e]]

(* The initial states are initial states of the promise. *)
LEMMA RefinesInit == EscrowInit => Promise!Init
<1> SUFFICES ASSUME EscrowInit
             PROVE  Promise!Init
  OBVIOUS
<1>1. \A e \in EscrowPDAs : Deal(e).state = "none"
  BY NoneAtFirst, Zenon DEF Deal
<1>2. \A e \in EscrowPDAs : balance[e] = 0
  BY AccountsAre, Zenon DEF EscrowInit
<1>3. now = 0
  BY Zenon DEF EscrowInit, ProtocolInit
<1>4. QED
  BY <1>1, <1>2, <1>3, Zenon DEF Promise!Init, Promise!State

(* Nothing the promise sees moves when these variables do not. *)
LEMMA RefinesStutter ==
  ASSUME escrow' = escrow, balance' = balance, now' = now
  PROVE  UNCHANGED Promise!vars
  BY ZenonT(30) DEF Promise!vars, Deal, Exists

(* create_escrow opens a deal. *)
LEMMA RefinesOpen ==
  ASSUME TypeOK, NEW maker \in Makers, NEW w \in Wallets, NEW id \in EscrowIds,
         NEW r \in Recipients, NEW amount \in Amounts, NEW t \in Expiries,
         CreateEscrow(maker, w, id, r, amount, t)
  PROVE  Promise!Next
<1> DEFINE e == <<maker, id>>
           terms == [payer |-> maker, payee |-> r, amount |-> amount, expires_at |-> t]
<1>1. e = <<maker, id>>
  BY Zenon
<1> HIDE DEF e
<1>2. /\ e \in EscrowPDAs /\ ~Exists(e)
      /\ escrow'[e].status = "Funded"
      /\ escrow'[e].maker = maker /\ escrow'[e].recipient = r
      /\ escrow'[e].amount = amount /\ escrow'[e].expires_at = t
      /\ \A x \in EscrowPDAs \ {e} : escrow'[x] = escrow[x]
  <2>1. WritesTerms(e, maker, r, amount, t)
    BY <1>1, OpeningRecords, Zenon
  <2>2. QED
    BY <2>1, Zenon DEF WritesTerms
<1>3. /\ balance'[e] = amount
      /\ \A x \in EscrowPDAs \ {e} : balance'[x] = balance[x]
  <2>1. FundsCustody(e, amount)
    BY <1>1, OpeningBalances, Zenon
  <2>2. QED
    BY <2>1, Zenon DEF FundsCustody
<1>4. amount > 0 /\ r # maker /\ t > now /\ now' = now
  BY Zenon DEF CreateEscrow, protocolVars
<1>5. Deal(e) = [state |-> "none"]
  BY <1>2, Zenon DEF Deal
<1>6. Deal(e)' = [state |-> "open", terms |-> terms]
  BY <1>2, Zenon DEF Deal, Exists
<1>7. \A x \in EscrowPDAs \ {e} : Deal(x)' = Deal(x)
  BY <1>2, Zenon DEF Deal, Exists
<1>8. terms \in [payer : Makers \cup Recipients, payee : Makers \cup Recipients,
                 amount : 1 .. U64Max, expires_at : 0 .. MaxTime + 1]
  <2>1. amount \in 1 .. U64Max
    BY <1>4, LedgerAssumption
  <2>2. QED
    BY <2>1, Zenon DEF Expiries
<1>9. deals'[e] = [state |-> "open", terms |-> terms]
  BY <1>2, <1>6, Zenon DEF deals
<1>10. deals' = [deals EXCEPT ![e] = [state |-> "open", terms |-> terms]]
  BY <1>2, <1>6, <1>7, Zenon DEF deals
<1>11. custody' = [custody EXCEPT ![e] = amount]
  BY <1>2, <1>3, ZenonT(30) DEF custody
<1>12. deals[e].state = "none" /\ terms \in Promise!Terms
  <2>1. deals[e] = [state |-> "none"]
    BY <1>2, <1>5, Zenon DEF deals
  <2>2. deals[e].state = "none"
    BY <2>1
  <2>3. QED
    BY <1>8, <2>2, Zenon DEF Promise!Terms
<1>13. /\ deals'[e].state = "open" /\ deals'[e].terms = terms
       /\ terms.payer # terms.payee /\ terms.expires_at > now /\ terms.amount = amount
  BY <1>4, <1>9
<1> HIDE DEF terms
<1>14. Promise!Open(e)
  <2>1. /\ deals[e].state = "none"
        /\ deals'[e].state = "open"
        /\ deals' = [deals EXCEPT ![e] = [state |-> "open", terms |-> deals'[e].terms]]
        /\ deals'[e].terms \in Promise!Terms
        /\ deals'[e].terms.payer # deals'[e].terms.payee
        /\ deals'[e].terms.expires_at > now
        /\ custody' = [custody EXCEPT ![e] = deals'[e].terms.amount]
        /\ now' = now
    BY Zenon, <1>4, <1>10, <1>11, <1>12, <1>13
  <2>2. QED
    BY <2>1, Zenon DEF Promise!Open, Promise!State, deals, custody
<1>15. QED
  BY <1>2, <1>14, Zenon DEF Promise!Next

(* The part of a settlement that both ways out share. *)
LEMMA RefinesSettle ==
  ASSUME TypeOK, NEW e \in EscrowPDAs, NEW d \in LiveAccounts, NEW status, NEW outcome,
         ReleaseEscrow(e, d) \/ RefundEscrow(e, d),
         escrow' = [escrow EXCEPT ![e].status = status],
         \/ status = "Released" /\ outcome = "delivered"
         \/ status = "Refunded" /\ outcome = "returned"
  PROVE  /\ Promise!Settle(e, outcome)
         /\ Promise!State(e) = "open"
         /\ [x \in EscrowPDAs |-> Deal(x)][e].terms.expires_at = escrow[e].expires_at
<1>1. /\ Funded(e)
      /\ balance'[e] = balance[e] - escrow[e].amount
      /\ \A x \in EscrowPDAs \ {e} : escrow'[x] = escrow[x]
  BY SettlementEffect, SettlementRecords, Zenon DEF Moved
<1>2. /\ \A x \in EscrowPDAs : balance[x] \in Nat /\ balance'[x] \in Nat
      /\ escrow[e].amount \in Nat
  <2>1. TypeOK'
    BY NextType, Zenon DEF EscrowNext, Release, Refund
  <2>2. \A x \in EscrowPDAs : balance'[x] \in 0 .. U64Max
    BY <2>1, AccountsAre, Zenon DEF TypeOK
  <2>3. QED
    BY <2>2, AccountsAre, BalanceIsNat, EscrowTyped, U64IsNat, Zenon
<1>3. ASSUME NEW x \in EscrowPDAs \ {e}
      PROVE  balance'[x] >= balance[x]
  <2>1. balance'[x] = balance[x] \/ balance'[x] = balance[x] + escrow[e].amount
    BY SettlementEffect, AccountsAre, Zenon DEF Moved
  <2>2. balance[x] \in Nat /\ escrow[e].amount \in Nat
    BY <1>2, Zenon
  <2>3. QED
    BY <2>1, <2>2
<1>4. balance[e] >= escrow[e].amount /\ now' = now
  BY SettlementRecords, Zenon DEF ExactTransfer, transfer_checked
<1> DEFINE terms == [payer |-> escrow[e].maker, payee |-> escrow[e].recipient,
                     amount |-> escrow[e].amount, expires_at |-> escrow[e].expires_at]
<1>5. Deal(e) = [state |-> "open", terms |-> terms]
  BY <1>1, Zenon DEF Deal, Exists, Funded
<1>6. Deal(e)' = [state |-> outcome, terms |-> terms]
  <2>1. escrow[e] \in EscrowRecord /\ escrow'[e] = [escrow[e] EXCEPT !.status = status]
    BY EscrowTyped, Zenon DEF TypeOK
  <2>2. /\ escrow'[e].status = status
        /\ escrow'[e].maker = escrow[e].maker /\ escrow'[e].recipient = escrow[e].recipient
        /\ escrow'[e].amount = escrow[e].amount
        /\ escrow'[e].expires_at = escrow[e].expires_at
    BY <2>1 DEF EscrowRecord
  <2>3. QED
    BY <2>2, Zenon DEF Deal, Exists
<1>7. \A x \in EscrowPDAs \ {e} : Deal(x)' = Deal(x)
  BY <1>1, Zenon DEF Deal, Exists
<1>8. deals[e] = [state |-> "open", terms |-> terms]
  BY <1>5, Zenon DEF deals
<1>9. deals' = [deals EXCEPT ![e].state = outcome]
  <2> HIDE DEF terms
  <2>1. [deals[e] EXCEPT !.state = outcome] = [state |-> outcome, terms |-> terms]
    BY <1>8
  <2>2. deals' = [deals EXCEPT ![e] = [state |-> outcome, terms |-> terms]]
    BY <1>6, <1>7, Zenon DEF deals
  <2>3. QED
    BY Zenon, <2>1, <2>2
<1>10. /\ deals[e].state = "open"
       /\ deals[e].terms.amount = escrow[e].amount
       /\ deals[e].terms.expires_at = escrow[e].expires_at
  BY <1>8
<1>11. /\ custody[e] >= deals[e].terms.amount
       /\ custody' \in [EscrowPDAs -> Nat]
       /\ custody'[e] = custody[e] - deals[e].terms.amount
       /\ \A x \in EscrowPDAs \ {e} : custody'[x] >= custody[x]
  BY <1>1, <1>2, <1>3, <1>4, <1>10, ZenonT(30) DEF custody
<1> HIDE DEF terms
<1>12. QED
  BY <1>4, <1>9, <1>10, <1>11, Zenon
  DEF Promise!Settle, Promise!State, Promise!OthersKeep, deals, custody

(* release_escrow delivers, refund_escrow returns. *)
LEMMA RefinesExit ==
  ASSUME TypeOK, NEW e \in EscrowPDAs, NEW d \in LiveAccounts,
         ReleaseEscrow(e, d) \/ RefundEscrow(e, d)
  PROVE  Promise!Next
<1>1. CASE ReleaseEscrow(e, d)
  <2>1. escrow' = [escrow EXCEPT ![e].status = "Released"] /\ now < escrow[e].expires_at
    BY <1>1, Zenon DEF ReleaseEscrow, ReleaseChecks, Settle
  <2>2. Promise!Deliver(e)
    BY <1>1, <2>1, RefinesSettle, Zenon DEF Promise!Deliver
  <2>3. QED
    BY <2>2, Zenon DEF Promise!Next
<1>2. CASE RefundEscrow(e, d)
  <2>1. escrow' = [escrow EXCEPT ![e].status = "Refunded"] /\ now >= escrow[e].expires_at
    BY <1>2, Zenon DEF RefundEscrow, RefundChecks, Settle
  <2>2. Promise!Return(e)
    BY <1>2, <2>1, RefinesSettle, Zenon DEF Promise!Return
  <2>3. QED
    BY <2>2, Zenon DEF Promise!Next
<1>3. QED
  BY <1>1, <1>2, Zenon

(* A holder's own transfer is a donation, or moves nothing the promise     *)
(* sees; no custody account that does not exist receives any.              *)
LEMMA RefinesDonate ==
  ASSUME TypeOK, NEW from \in Wallets, NEW to \in LiveAccounts, NEW amount \in Amounts,
         DirectTransfer(from, to, amount)
  PROVE  Promise!Next
<1>1. escrow' = escrow /\ now' = now
  BY Zenon DEF DirectTransfer
<1>2. \A x \in EscrowPDAs : balance[x] \in Nat /\ balance'[x] \in Nat
  <2>1. TypeOK'
    BY NextType, Zenon DEF EscrowNext
  <2>2. \A x \in EscrowPDAs : balance'[x] \in 0 .. U64Max
    BY <2>1, AccountsAre, Zenon DEF TypeOK
  <2>3. QED
    BY <2>2, AccountsAre, BalanceIsNat, U64IsNat, Zenon
<1>3. amount \in Nat
  BY AmountIsNat, Zenon
<1>4. ASSUME NEW x \in EscrowPDAs
      PROVE  balance'[x] >= balance[x]
  <2>1. balance'[x] = balance[x] \/ balance'[x] = balance[x] + amount
    BY DirectTransferEffect, Zenon
  <2>2. balance[x] \in Nat
    BY <1>2, Zenon
  <2>3. QED
    BY <1>3, <2>1, <2>2
<1>5. \A x \in EscrowPDAs : Deal(x).state = "none" => balance'[x] = balance[x]
  <2> SUFFICES ASSUME NEW x \in EscrowPDAs, Deal(x).state = "none"
               PROVE  balance'[x] = balance[x]
    OBVIOUS
  <2>1. ~Exists(x)
    BY Zenon DEF Deal
  <2>2. x # to
    BY <2>1, AccountsAre, Zenon DEF LiveAccounts
  <2>3. QED
    BY <2>2, DirectTransferEffect, Zenon
<1>6. /\ deals' = deals
      /\ custody' \in [EscrowPDAs -> Nat]
      /\ \A x \in EscrowPDAs : /\ custody'[x] >= custody[x]
                               /\ deals[x].state = "none" => custody'[x] = custody[x]
  BY <1>1, <1>2, <1>4, <1>5, Zenon DEF deals, custody, Deal, Exists
<1>7. Promise!Donate
  BY <1>1, <1>6, Zenon DEF Promise!Donate, Promise!State, deals, custody
<1>8. QED
  BY <1>7, Zenon DEF Promise!Next

(* The clock passes for the promise; a step of the protocol configuration  *)
(* is invisible to it.                                                     *)
LEMMA RefinesProtocol ==
  ASSUME TypeOK, ProtocolNext, UNCHANGED <<balance, escrow>>
  PROVE  [Promise!Next]_(Promise!vars)
<1>1. CASE Tick
  <2>1. now' > now
    <3>1. now \in 0 .. MaxTime /\ now' \in (now + 1) .. MaxTime
      BY <1>1, Zenon DEF Tick, TypeOK, ProtocolTypeOK
    <3>2. QED
      BY <3>1, ProtocolAssumption
  <2>2. deals' = deals /\ custody' = custody
    BY Zenon DEF deals, custody, Deal, Exists
  <2>3. Promise!Pass
    BY <2>1, <2>2, Zenon DEF Promise!Pass, deals, custody
  <2>4. QED
    BY <2>3, Zenon DEF Promise!Next
<1>2. CASE now' = now
  BY <1>2, RefinesStutter, Zenon
<1>3. QED
  BY <1>1, <1>2, Zenon DEF ProtocolNext, InitializeProtocol, SetProtocolPause

(* The escrow instructions, run in any order by any callers under any      *)
(* pauses and with any donations, implement EscrowPromise: a deal is       *)
(* opened once, its terms never change, and it is settled at most once, on *)
(* the right side of its expiry and for exactly its amount.                *)
THEOREM EscrowKeepsPromise == EscrowSpec => KeepsPromise
<1>1. TypeOK /\ [EscrowNext]_escrowVars => [Promise!Next]_(Promise!vars)
  <2> SUFFICES ASSUME TypeOK, [EscrowNext]_escrowVars
               PROVE  [Promise!Next]_(Promise!vars)
    OBVIOUS
  <2>1. CASE UNCHANGED escrowVars
    BY <2>1, RefinesStutter, Zenon DEF escrowVars
  <2>2. CASE ProtocolNext /\ UNCHANGED <<balance, escrow>>
    BY <2>2, RefinesProtocol, Zenon
  <2>3. ASSUME NEW maker \in Makers, NEW w \in Wallets, NEW id \in EscrowIds,
               NEW r \in Recipients, NEW amount \in Amounts, NEW t \in Expiries,
               CreateEscrow(maker, w, id, r, amount, t)
        PROVE  Promise!Next
    BY <2>3, RefinesOpen, Zenon
  <2>4. ASSUME NEW e \in EscrowPDAs, NEW d \in LiveAccounts,
               ReleaseEscrow(e, d) \/ RefundEscrow(e, d)
        PROVE  Promise!Next
    BY <2>4, RefinesExit, Zenon
  <2>5. ASSUME NEW from \in Wallets, NEW to \in LiveAccounts, NEW amount \in Amounts,
               DirectTransfer(from, to, amount)
        PROVE  Promise!Next
    BY <2>5, RefinesDonate, Zenon
  <2>6. QED
    BY <2>1, <2>2, <2>3, <2>4, <2>5, ZenonT(30) DEF EscrowNext, Release, Refund
<1>2. QED
  BY <1>1, RefinesInit, TypeCorrect, PTL DEF EscrowSpec, KeepsPromise, Promise!Spec

=============================================================================
