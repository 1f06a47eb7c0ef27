---------------------------- MODULE CommonProofs ----------------------------
(***************************************************************************)
(* Facts about the protocol configuration and about token transfers that   *)
(* the proofs of both halves of the program rest on.                       *)
(***************************************************************************)
EXTENDS Protocol, TokenLedger, FiniteSetTheorems, TLAPS

(* An amount that an instruction takes is a natural number. *)
LEMMA AmountIsNat ==
  ASSUME NEW amount \in Amounts
  PROVE  amount \in Nat
  BY LedgerAssumption

(* So is a balance. *)
LEMMA U64IsNat ==
  ASSUME NEW n \in 0 .. U64Max
  PROVE  n \in Nat
  OBVIOUS

(* The checks of the form x > 0 refuse zero. *)
LEMMA ZeroIsNotPositive == ~(0 > 0)
  OBVIOUS

(* A number is compared with itself and with its successor. *)
LEMMA AtLeastItself ==
  ASSUME NEW n \in Nat
  PROVE  n >= n /\ n <= n /\ ~(n < n) /\ n < n + 1
  OBVIOUS

(* Moving a counter by one adds one number below it. *)
LEMMA UpToNext ==
  ASSUME NEW n \in Nat, NEW i \in Nat, i # n
  PROVE  i < n + 1 <=> i < n
  OBVIOUS

(* Receiving an amount takes nothing, and giving it up takes just that. *)
LEMMA AddingTakesNothing ==
  ASSUME NEW n \in Nat, NEW amount \in Nat
  PROVE  ~(n + amount < n) /\ n - (n - amount) = amount
  OBVIOUS

(* A loss is a positive difference. *)
LEMMA PositiveDifference ==
  ASSUME NEW n \in Nat, NEW m \in Nat, n - m > 0
  PROVE  m < n
  OBVIOUS

(* A time that passed both checks lies between their bounds. *)
LEMMA BetweenBounds ==
  ASSUME NEW low \in Nat, NEW high \in Nat, NEW t \in Nat, t >= low, t <= high
  PROVE  t \in low .. high
  OBVIOUS

(* What a checked transfer does to well-typed balances: it moves the       *)
(* amount between the two accounts and touches no other one.               *)
LEMMA TransferEffect ==
  ASSUME NEW Accounts, balance \in [Accounts -> 0 .. U64Max],
         NEW from \in Accounts, NEW to \in Accounts, NEW amount \in Nat,
         ExactTransfer(from, to, amount)
  PROVE  /\ balance' \in [Accounts -> 0 .. U64Max]
         /\ balance'[from] = balance[from] - amount
         /\ balance'[to] = balance[to] + amount
         /\ \A a \in Accounts \ {from, to} : balance'[a] = balance[a]
         /\ amount > 0 => from # to
  BY LedgerAssumption DEF ExactTransfer, transfer_checked

(* It keeps the balances well typed. *)
LEMMA TransferType ==
  ASSUME NEW Accounts, balance \in [Accounts -> 0 .. U64Max],
         NEW from \in Accounts, NEW to \in Accounts, NEW amount \in Nat,
         ExactTransfer(from, to, amount)
  PROVE  balance' \in [Accounts -> 0 .. U64Max]
  BY TransferEffect, Zenon

(* It never moves a positive amount from an account to itself. *)
LEMMA TransferApart ==
  ASSUME NEW Accounts, balance \in [Accounts -> 0 .. U64Max],
         NEW from \in Accounts, NEW to \in Accounts, NEW amount \in Nat,
         ExactTransfer(from, to, amount)
  PROVE  amount > 0 => to # from
  BY TransferEffect, Zenon

(* What such a transfer moves, in one predicate. *)
Moved(Accounts, from, to, amount) ==
  /\ balance'[from] = balance[from] - amount
  /\ balance'[to] = balance[to] + amount
  /\ \A a \in Accounts \ {from, to} : balance'[a] = balance[a]

(* A transfer moves that. *)
LEMMA TransferMoves ==
  ASSUME NEW Accounts, balance \in [Accounts -> 0 .. U64Max],
         NEW from \in Accounts, NEW to \in Accounts, NEW amount \in Nat,
         ExactTransfer(from, to, amount)
  PROVE  Moved(Accounts, from, to, amount)
  BY TransferEffect DEF Moved

(* An account that loses tokens to a transfer is its source.               *)
LEMMA OnlySourceLoses ==
  ASSUME NEW Accounts, NEW from \in Accounts, NEW to \in Accounts, NEW amount \in Nat,
         Moved(Accounts, from, to, amount),
         NEW a \in Accounts, balance[a] \in Nat, balance'[a] < balance[a]
  PROVE  a = from
<1>1. CASE a = to
  <2>1. balance'[a] = balance[a] + amount
    BY <1>1, Zenon DEF Moved
  <2>2. QED
    BY <2>1, AddingTakesNothing
<1>2. CASE a \notin {from, to}
  <2>1. balance'[a] = balance[a]
    BY <1>2, Zenon DEF Moved
  <2>2. QED
    BY <2>1
<1>3. QED
  BY <1>1, <1>2, Zenon

(* The protocol configuration and the clock start with their types. *)
LEMMA ProtocolInitType == ProtocolInit => ProtocolTypeOK
  BY ProtocolAssumption DEF ProtocolInit, ProtocolTypeOK, ProtocolConfig, Pubkeys

(* A step of the protocol configuration or of the clock keeps their types. *)
LEMMA ProtocolType == ProtocolTypeOK /\ ProtocolNext => ProtocolTypeOK'
<1> SUFFICES ASSUME ProtocolTypeOK, ProtocolNext
             PROVE  ProtocolTypeOK'
  OBVIOUS
<1>1. ASSUME NEW p \in ProtocolAuthorities, InitializeProtocol(p[1], p[2])
      PROVE  ProtocolTypeOK'
  <2>1. p[1] \in Pubkeys /\ p[2] \in Pubkeys
    BY ProtocolAssumption DEF Pubkeys
  <2>2. QED
    BY <1>1, <2>1 DEF InitializeProtocol, ProtocolTypeOK, ProtocolConfig
<1>2. ASSUME NEW caller \in Keys, NEW flags \in PauseChoices,
             SetProtocolPause(caller, flags)
      PROVE  ProtocolTypeOK'
  BY <1>2 DEF SetProtocolPause, ProtocolTypeOK, ProtocolConfig
<1>3. CASE Tick
  BY <1>3, ProtocolAssumption DEF Tick, ProtocolTypeOK
<1>4. QED
  BY <1>1, <1>2, <1>3 DEF ProtocolNext

-----------------------------------------------------------------------------
(***************************************************************************)
(* The supply of a mint: a transfer between two of its accounts moves as   *)
(* many units as it removes, so that their number never changes, and any   *)
(* two accounts together hold no more than that number.                    *)
(***************************************************************************)

(* A transfer succeeds exactly when TransferSucceeds says so, and then it  *)
(* has one outcome: this is what ENABLED means of a transfer.              *)
LEMMA TransferSucceedsExact ==
  ASSUME NEW Accounts, balance \in [Accounts -> 0 .. U64Max],
         NEW from \in Accounts, NEW to \in Accounts, NEW amount \in Nat
  PROVE  ExactTransfer(from, to, amount)
           <=> /\ TransferSucceeds(from, to, amount)
               /\ transfer_checked(from, to, amount)
  BY LedgerAssumption DEF ExactTransfer, TransferSucceeds, transfer_checked

(* The units of an account between two of its levels. *)
Units(a, low, high) == {a} \X (low + 1 .. high)

(* There are as many of them as the difference. *)
LEMMA UnitsCounted ==
  ASSUME NEW a, NEW low \in Nat, NEW high \in Nat, low <= high
  PROVE  IsFiniteSet(Units(a, low, high)) /\ Cardinality(Units(a, low, high)) = high - low
<1>1. IsFiniteSet({a}) /\ Cardinality({a}) = 1
  BY FS_Singleton
<1>2. IsFiniteSet(low + 1 .. high) /\ Cardinality(low + 1 .. high) = high - low
  <2>1. /\ IsFiniteSet(low + 1 .. high)
        /\ Cardinality(low + 1 .. high)
             = IF low + 1 > high THEN 0 ELSE high - (low + 1) + 1
    BY FS_Interval
  <2>2. QED
    BY <2>1
<1>3. /\ IsFiniteSet(Units(a, low, high))
      /\ Cardinality(Units(a, low, high)) = Cardinality({a}) * Cardinality(low + 1 .. high)
  BY <1>1, <1>2, FS_Product, Zenon DEF Units
<1>4. Cardinality({a}) * Cardinality(low + 1 .. high) = high - low
  BY <1>1, <1>2
<1>5. QED
  BY <1>3, <1>4

(* A finite set of accounts holds a finite number of units. *)
LEMMA CoinsFinite ==
  ASSUME NEW A, IsFiniteSet(A), NEW b
  PROVE  IsFiniteSet(Coins(b, A)) /\ Cardinality(Coins(b, A)) \in Nat
<1>1. IsFiniteSet(1 .. U64Max)
  BY FS_Interval, LedgerAssumption
<1>2. IsFiniteSet(A \X (1 .. U64Max))
  BY Zenon, <1>1, FS_Product
<1>3. Coins(b, A) \in SUBSET (A \X (1 .. U64Max))
  BY DEF Coins
<1>4. QED
  BY <1>2, <1>3, FS_Subset, FS_CardinalityType

(* Any two accounts together hold at most as many units as there are. *)
LEMMA PairWithinSupply ==
  ASSUME NEW A, IsFiniteSet(A), NEW b, \A a \in A : b[a] \in 0 .. U64Max,
         NEW x \in A, NEW y \in A, x # y
  PROVE  b[x] + b[y] <= Cardinality(Coins(b, A))
<1> DEFINE X == Units(x, 0, b[x])
           Y == Units(y, 0, b[y])
<1>1. b[x] \in Nat /\ b[y] \in Nat /\ b[x] <= U64Max /\ b[y] <= U64Max
  BY LedgerAssumption
<1>2. /\ IsFiniteSet(X) /\ Cardinality(X) = b[x]
      /\ IsFiniteSet(Y) /\ Cardinality(Y) = b[y]
  BY <1>1, UnitsCounted
<1>3. X \cap Y = {}
  BY DEF Units
<1>4. X \cup Y \in SUBSET Coins(b, A)
  <2>1. ASSUME NEW a \in {x, y}
        PROVE  Units(a, 0, b[a]) \subseteq Coins(b, A)
    BY <1>1, LedgerAssumption DEF Units, Coins
  <2>2. QED
    BY <2>1
<1> HIDE DEF X, Y
<1>5. Cardinality(X \cup Y) = b[x] + b[y]
  <2>1. Cardinality(X \cup Y) = Cardinality(X) + Cardinality(Y) - Cardinality(X \cap Y)
    BY <1>2, FS_Union, Zenon
  <2>2. Cardinality(X \cap Y) = 0
    BY <1>3, FS_EmptySet
  <2>3. QED
    BY <1>1, <1>2, <2>1, <2>2
<1>6. QED
  BY <1>4, <1>5, CoinsFinite, FS_Subset

(* A transfer between two accounts of the set leaves the number of units   *)
(* as it was.                                                              *)
LEMMA TransferKeepsCoins ==
  ASSUME NEW A, IsFiniteSet(A), NEW n \in Nat,
         NEW b, NEW c, \A a \in A : b[a] \in 0 .. U64Max /\ c[a] \in 0 .. U64Max,
         NEW x \in A, NEW y \in A, x # y,
         c[x] = b[x] - n, c[y] = b[y] + n,
         \A a \in A \ {x, y} : c[a] = b[a]
  PROVE  Cardinality(Coins(c, A)) = Cardinality(Coins(b, A))
<1> DEFINE Out == Units(x, c[x], b[x])
           In == Units(y, b[y], c[y])
           Before == Coins(b, A)
<1>1. /\ b[x] \in Nat /\ c[x] \in Nat /\ c[x] <= b[x] /\ b[x] - c[x] = n
      /\ b[y] \in Nat /\ c[y] \in Nat /\ b[y] <= c[y] /\ c[y] - b[y] = n
      /\ b[x] <= U64Max /\ c[y] <= U64Max
  BY LedgerAssumption
<1>2. /\ IsFiniteSet(Out) /\ Cardinality(Out) = n
      /\ IsFiniteSet(In) /\ Cardinality(In) = n
  BY <1>1, UnitsCounted
<1>3. Before \cap Out = Out /\ (Before \ Out) \cap In = {}
  BY <1>1, LedgerAssumption DEF Units, Coins
<1>4. Coins(c, A) = (Before \ Out) \cup In
  <2>1. ASSUME NEW a \in A, NEW k \in 1 .. U64Max
        PROVE  <<a, k>> \in Coins(c, A) <=> <<a, k>> \in (Before \ Out) \cup In
    <3>1. <<a, k>> \in Coins(c, A) <=> k <= c[a]
      BY DEF Coins
    <3>2. <<a, k>> \in Before <=> k <= b[a]
      BY DEF Coins
    <3>3. <<a, k>> \in Out <=> a = x /\ k > c[x] /\ k <= b[x]
      BY <1>1, LedgerAssumption DEF Units
    <3>4. <<a, k>> \in In <=> a = y /\ k > b[y] /\ k <= c[y]
      BY <1>1, LedgerAssumption DEF Units
    <3>5. k \in Nat
      BY LedgerAssumption
    <3> HIDE DEF Out, In, Before
    <3>6. QED
      BY <1>1, <3>1, <3>2, <3>3, <3>4, <3>5
  <2>2. /\ Coins(c, A) \subseteq A \X (1 .. U64Max)
        /\ (Before \ Out) \cup In \subseteq A \X (1 .. U64Max)
    BY <1>1, LedgerAssumption DEF Coins, Units
  <2> HIDE DEF Out, In, Before
  <2>3. QED
    BY <2>1, <2>2
<1>5. IsFiniteSet(Before) /\ Cardinality(Before) \in Nat
  BY CoinsFinite
<1> HIDE DEF Out, In, Before
<1>6. IsFiniteSet(Before \ Out) /\ Cardinality(Before \ Out) = Cardinality(Before) - n
  <2>1. /\ IsFiniteSet(Before \ Out)
        /\ Cardinality(Before \ Out) = Cardinality(Before) - Cardinality(Before \cap Out)
    BY <1>5, FS_Difference, Zenon
  <2>2. QED
    BY Zenon, <1>2, <1>3, <2>1
<1>7. Cardinality((Before \ Out) \cup In)
        = Cardinality(Before \ Out) + Cardinality(In) - Cardinality((Before \ Out) \cap In)
  BY <1>2, <1>6, FS_Union, Zenon
<1>8. Cardinality((Before \ Out) \cap In) = 0
  BY Zenon, <1>3, FS_EmptySet
<1>9. Cardinality((Before \ Out) \cup In) = Cardinality(Before)
  BY <1>2, <1>5, <1>6, <1>7, <1>8
<1>10. QED
  BY <1>4, <1>9 DEF Before

(* Balances that agree on the accounts hold the same units. *)
LEMMA SameCoins ==
  ASSUME NEW A, NEW b, NEW c, \A a \in A : c[a] = b[a]
  PROVE  Coins(c, A) = Coins(b, A)
  BY DEF Coins

(* A checked transfer keeps the number of units of any finite set of       *)
(* accounts that has both its ends or neither.                             *)
LEMMA ExactTransferKeepsSupply ==
  ASSUME NEW Accounts, balance \in [Accounts -> 0 .. U64Max],
         NEW from \in Accounts, NEW to \in Accounts, NEW amount \in Nat,
         ExactTransfer(from, to, amount),
         NEW A \in SUBSET Accounts, IsFiniteSet(A), from \in A <=> to \in A
  PROVE  Cardinality(Coins(balance', A)) = Cardinality(Coins(balance, A))
<1>1. /\ \A a \in A : balance[a] \in 0 .. U64Max /\ balance'[a] \in 0 .. U64Max
      /\ balance'[from] = balance[from] - amount
      /\ balance'[to] = balance[to] + amount
      /\ \A a \in Accounts \ {from, to} : balance'[a] = balance[a]
      /\ amount > 0 => from # to
  BY TransferEffect
<1>2. CASE from \in A /\ from # to
  BY <1>1, <1>2, TransferKeepsCoins
<1>3. CASE ~(from \in A /\ from # to)
  <2>1. \A a \in A : balance'[a] = balance[a]
    BY <1>1, <1>3, LedgerAssumption
  <2>2. QED
    BY <2>1, SameCoins
<1>4. QED
  BY <1>2, <1>3

=============================================================================
