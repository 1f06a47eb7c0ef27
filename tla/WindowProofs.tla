---------------------------- MODULE WindowProofs ----------------------------
(***************************************************************************)
(* The rolling limit of an asset, for every history of outflows, limit     *)
(* changes and clock values: the recorded spend is exact, and no time span *)
(* as long as the shortest window sees more than two windows' limits.      *)
(*                                                                         *)
(* outflow[m] is cumulative, so that what left custody in a time span is   *)
(* the difference of two of its values, and no sum has to be unfolded. The *)
(* arithmetic is done once, for any history C, in the lemmas of the first  *)
(* part; the second part says which of them a step of the vault needs.     *)
(***************************************************************************)
EXTENDS VaultProofs

(* All that left custody under a window. *)
Total(C) == C[MaxTime + 1]

(* At time n a window that started at `start` and ends at `end` has spent  *)
(* exactly what the history gained since its start. The history is         *)
(* monotone, and flat after n and after the end of the window.             *)
HistoryExact(C, n, start, end, spent) ==
  /\ \A t, u \in Times : t <= u => C[t] <= C[u]
  /\ \A t \in Times : t > n \/ t >= end => C[t] = Total(C)
  /\ start <= n /\ start <= end
  /\ spent = Total(C) - C[start]

(* No window being shorter than w and no limit above l: the window spent   *)
(* at most l; so did the w seconds before it started, since one window     *)
(* covers them; and a span of w seconds sees at most twice that.           *)
HistoryBounded(C, w, l, start, spent) ==
  /\ spent <= l
  /\ \A t \in Times : t <= start /\ start < t + w => C[start] - C[t] <= l
  /\ \A t, u \in Times : u <= t + w => C[u] - C[t] <= 2 * l

(* The history once an amount more has left custody at time n. *)
Grown(C, n, amount) == [t \in Times |-> IF t > n THEN C[t] + amount ELSE C[t]]

-----------------------------------------------------------------------------
(***************************************************************************)
(* Histories.                                                              *)
(***************************************************************************)

(* A history has a value for every clock value and for the one after it.   *)
LEMMA TimesCover ==
  /\ MaxTime + 1 \in Times
  /\ \A n \in Nat : n <= MaxTime => n \in Times /\ n < MaxTime + 1
  /\ \A t \in Times : t \in Nat /\ t <= MaxTime + 1
  BY ProtocolAssumption DEF Times

(* The order of times and amounts. *)
LEMMA TimesOrdered ==
  ASSUME NEW t \in Nat, NEW u \in Nat
  PROVE  /\ t <= u \/ t > u
         /\ t > u => u <= t
         /\ \A v \in Nat : t <= u /\ u <= v => t <= v
  OBVIOUS

(* What is at most s above z, which is at most l above y, is at most twice *)
(* l above y.                                                              *)
LEMMA TwoLimits ==
  ASSUME NEW x \in Nat, NEW y \in Nat, NEW z \in Nat, NEW s \in Nat, NEW l \in Nat,
         x <= s + z, s <= l, z <= y \/ z - y <= l
  PROVE  x - y <= 2 * l
  OBVIOUS

(* Before anything leaves custody any window is exact and bounded.         *)
LEMMA EmptyHistory ==
  ASSUME NEW C \in [Times -> Nat], Total(C) = 0,
         \A t, u \in Times : t <= u => C[t] <= C[u],
         NEW n \in Nat, n <= MaxTime, NEW end \in Nat, n <= end,
         NEW w \in Nat, NEW l \in Nat
  PROVE  HistoryExact(C, n, n, end, 0) /\ HistoryBounded(C, w, l, n, 0)
<1>1. MaxTime + 1 \in Times /\ n \in Times /\ \A t \in Times : t <= MaxTime + 1 /\ t \in Nat
  BY TimesCover, Zenon
<1>2. ASSUME NEW t \in Times
      PROVE  C[t] = 0
  <2>1. C[t] <= 0 /\ C[t] \in Nat
    BY <1>1, Zenon DEF Total
  <2>2. QED
    BY <2>1
<1>3. HistoryExact(C, n, n, end, 0)
  <2>1. n <= n /\ 0 = 0 - 0
    OBVIOUS
  <2>2. QED
    BY <1>1, <1>2, <2>1, Zenon DEF HistoryExact
<1>4. HistoryBounded(C, w, l, n, 0)
  <2>1. \A t, u \in Times : C[u] - C[t] = 0
    BY <1>2
  <2>2. 0 <= l /\ 0 <= 2 * l
    OBVIOUS
  <2>3. QED
    BY <1>1, <2>1, <2>2, Zenon DEF HistoryBounded
<1>5. QED
  BY <1>3, <1>4, Zenon

(* Time passes: a window stays exact. *)
LEMMA LaterHistory ==
  ASSUME NEW C \in [Times -> Nat], NEW n \in Nat, NEW start \in Nat, NEW end \in Nat,
         NEW spent, HistoryExact(C, n, start, end, spent), NEW later \in Nat, n <= later
  PROVE  HistoryExact(C, later, start, end, spent)
<1>1. \A t \in Times : t > later => t > n
  BY TimesCover
<1>2. start <= n => start <= later
  OBVIOUS
<1>3. QED
  BY <1>1, <1>2, Zenon DEF HistoryExact

(* The history D is C and an amount more after time n. *)
GrownAfter(C, n, amount, D) ==
  /\ \A t \in Times : /\ t \in Nat /\ C[t] \in Nat
                      /\ t > n => D[t] = C[t] + amount
                      /\ t <= n => D[t] = C[t]
  /\ Total(D) = Total(C) + amount

(* An outflow at time n counts from then on.                               *)
LEMMA GrownValues ==
  ASSUME NEW C \in [Times -> Nat], NEW n \in Nat, n <= MaxTime, NEW amount \in Nat
  PROVE  GrownAfter(C, n, amount, Grown(C, n, amount))
<1>1. ASSUME NEW t \in Times
      PROVE  /\ t \in Nat /\ C[t] \in Nat
             /\ t > n => Grown(C, n, amount)[t] = C[t] + amount
             /\ t <= n => Grown(C, n, amount)[t] = C[t]
  <2>1. t \in Nat /\ C[t] \in Nat
    BY TimesCover, Zenon
  <2>2. t <= n => ~(t > n)
    BY <2>1
  <2>3. QED
    BY <2>1, <2>2, Zenon DEF Grown
<1>2. MaxTime + 1 > n
  BY ProtocolAssumption
<1>3. Total(Grown(C, n, amount)) = Total(C) + amount
  BY <1>1, <1>2, TimesCover, Zenon DEF Total
<1>4. QED
  BY <1>1, <1>3, Zenon DEF GrownAfter

(* An amount leaves custody while the window runs. *)
LEMMA GrownExact ==
  ASSUME NEW C \in [Times -> Nat], NEW n \in Nat, n <= MaxTime, NEW start \in Nat,
         NEW end \in Nat, NEW spent \in Nat, HistoryExact(C, n, start, end, spent),
         NEW amount \in Nat, n < end
  PROVE  HistoryExact(Grown(C, n, amount), n, start, end, spent + amount)
<1> DEFINE D == Grown(C, n, amount)
<1>1. /\ \A t \in Times : /\ t \in Nat /\ C[t] \in Nat
                          /\ t > n => D[t] = C[t] + amount
                          /\ t <= n => D[t] = C[t]
      /\ Total(D) = Total(C) + amount
  <2>1. GrownAfter(C, n, amount, D)
    BY GrownValues, Zenon
  <2>2. QED
    BY <2>1, Zenon DEF GrownAfter
<1> HIDE DEF D
<1>2. /\ start <= n /\ start <= end /\ spent = Total(C) - C[start]
      /\ \A t, u \in Times : t <= u => C[t] <= C[u]
      /\ \A t \in Times : t > n \/ t >= end => C[t] = Total(C)
  BY Zenon DEF HistoryExact
<1>3. start \in Times
  <2>1. start <= MaxTime
    BY <1>2, ProtocolAssumption
  <2>2. QED
    BY <2>1, TimesCover, Zenon
<1>4. ASSUME NEW t \in Times, NEW u \in Times, t <= u
      PROVE  D[t] <= D[u]
  <2>1. C[t] <= C[u] /\ t \in Nat /\ u \in Nat /\ C[t] \in Nat /\ C[u] \in Nat
    BY <1>1, <1>2, <1>4, Zenon
  <2>2. /\ (t > n => D[t] = C[t] + amount) /\ (t <= n => D[t] = C[t])
        /\ (u > n => D[u] = C[u] + amount) /\ (u <= n => D[u] = C[u])
    BY <1>1, <1>4, Zenon
  <2>3. QED
    BY <1>4, <2>1, <2>2
<1>5. ASSUME NEW t \in Times, t > n \/ t >= end
      PROVE  D[t] = Total(D)
  <2>1. t > n
    BY <1>1, <1>5
  <2>2. QED
    BY <1>1, <1>2, <2>1, Zenon
<1>6. spent + amount = Total(D) - D[start]
  <2>1. D[start] = C[start] /\ C[start] \in Nat /\ Total(C) \in Nat
    BY <1>1, <1>2, <1>3, TimesCover, Zenon DEF Total
  <2>2. QED
    BY <1>1, <1>2, <2>1
<1>7. HistoryExact(D, n, start, end, spent + amount)
  BY <1>2, <1>4, <1>5, <1>6, Zenon DEF HistoryExact
<1>8. QED
  BY <1>7, Zenon DEF D

(* That amount still fits under the limit. *)
LEMMA GrownBounded ==
  ASSUME NEW C \in [Times -> Nat], NEW n \in Nat, n <= MaxTime, NEW start \in Nat,
         NEW end \in Nat, NEW spent \in Nat, HistoryExact(C, n, start, end, spent),
         NEW amount \in Nat, n < end, NEW w \in Nat, NEW l \in Nat,
         HistoryBounded(C, w, l, start, spent), spent + amount <= l
  PROVE  HistoryBounded(Grown(C, n, amount), w, l, start, spent + amount)
<1> DEFINE D == Grown(C, n, amount)
<1>1. \A t \in Times : /\ t \in Nat /\ C[t] \in Nat
                       /\ t > n => D[t] = C[t] + amount
                       /\ t <= n => D[t] = C[t]
  <2>1. GrownAfter(C, n, amount, D)
    BY GrownValues, Zenon
  <2>2. QED
    BY <2>1, Zenon DEF GrownAfter
<1> HIDE DEF D
<1>2. start \in Times /\ D[start] = C[start]
  <2>1. start <= n
    BY Zenon DEF HistoryExact
  <2>2. start <= MaxTime
    BY <2>1, ProtocolAssumption
  <2>3. QED
    BY <1>1, <2>1, <2>2, TimesCover, Zenon
<1>3. ASSUME NEW t \in Times
      PROVE  C[t] <= spent + C[start]
  <2>1. C[t] <= Total(C) /\ spent = Total(C) - C[start]
    BY <1>3, TimesCover, Zenon DEF HistoryExact, Total
  <2>2. C[t] \in Nat /\ C[start] \in Nat /\ Total(C) \in Nat
    BY <1>1, <1>2, TimesCover, Zenon DEF Total
  <2>3. QED
    BY <2>1, <2>2
<1>4. ASSUME NEW t \in Times, t <= start, start < t + w
      PROVE  D[start] - D[t] <= l
  <2>1. C[start] - C[t] <= l
    BY <1>4, Zenon DEF HistoryBounded
  <2>2. t <= n
    <3>1. start <= n /\ t \in Nat
      BY <1>1, <1>4, Zenon DEF HistoryExact
    <3>2. QED
      BY <1>4, <3>1
  <2>3. QED
    BY <1>1, <1>2, <2>1, <2>2, Zenon
<1>5. ASSUME NEW t \in Times, NEW u \in Times, u <= t + w
      PROVE  D[u] - D[t] <= 2 * l
  <2>1. /\ C[u] - C[t] <= 2 * l
        /\ t \in Nat /\ u \in Nat /\ C[t] \in Nat /\ C[u] \in Nat /\ C[start] \in Nat
    BY <1>1, <1>2, <1>5, Zenon DEF HistoryBounded
  <2>2. /\ (t > n => D[t] = C[t] + amount) /\ (t <= n => D[t] = C[t])
        /\ (u > n => D[u] = C[u] + amount) /\ (u <= n => D[u] = C[u])
    BY <1>1, <1>5, Zenon
  <2>3. CASE u <= n \/ t > n
    BY <2>1, <2>2, <2>3
  <2>4. CASE u > n /\ t <= n
    <3>1. /\ D[u] \in Nat /\ D[u] <= (spent + amount) + C[start]
          /\ D[t] = C[t]
      <4>1. C[u] <= spent + C[start] /\ D[u] = C[u] + amount /\ D[t] = C[t]
        BY <1>3, <2>2, <2>4, Zenon
      <4>2. QED
        BY <2>1, <4>1
    <3>2. C[start] <= C[t] \/ C[start] - C[t] <= l
      <4>1. CASE t > start
        BY <1>2, <2>1, <4>1, TimesOrdered, Zenon DEF HistoryExact
      <4>2. CASE t <= start
        <5>1. start < t + w
          <6>1. start <= n
            BY Zenon DEF HistoryExact
          <6>2. QED
            BY <1>5, <2>1, <2>4, <6>1
        <5>2. QED
          BY <4>2, <5>1, Zenon DEF HistoryBounded
      <4>3. QED
        BY <2>1, <4>1, <4>2, TimesOrdered, Zenon
    <3>3. spent + amount \in Nat
      OBVIOUS
    <3>4. QED
      BY <2>1, <3>1, <3>2, <3>3, TwoLimits, Zenon
  <2>5. QED
    BY <2>1, <2>3, <2>4
<1>6. HistoryBounded(D, w, l, start, spent + amount)
  BY <1>4, <1>5, Zenon DEF HistoryBounded
<1>7. QED
  BY <1>6, Zenon DEF D

(* A window that has ended is followed by one that starts now. *)
LEMMA FreshWindow ==
  ASSUME NEW C \in [Times -> Nat], NEW n \in Nat, n <= MaxTime, NEW start \in Nat,
         NEW end \in Nat, NEW spent \in Nat, HistoryExact(C, n, start, end, spent),
         end <= n, NEW newEnd \in Nat, n <= newEnd
  PROVE  /\ HistoryExact(C, n, n, newEnd, 0)
         /\ \A w, l \in Nat : HistoryBounded(C, w, l, start, spent) /\ start + w <= end =>
              HistoryBounded(C, w, l, n, 0)
<1>1. \A t \in Times : t \in Nat /\ C[t] \in Nat
  BY TimesCover, Zenon
<1>2. start <= n /\ n \in Times /\ n >= end /\ n <= n
  <2>1. start <= n
    BY Zenon DEF HistoryExact
  <2>2. n >= end /\ n <= n
    OBVIOUS
  <2>3. QED
    BY <2>1, <2>2, TimesCover, Zenon
<1>3. start \in Times
  <2>1. start <= MaxTime
    BY <1>2, ProtocolAssumption
  <2>2. QED
    BY <2>1, TimesCover, Zenon
<1>4. C[n] = Total(C) /\ spent = Total(C) - C[start] /\ Total(C) \in Nat
  BY <1>1, <1>2, <1>3, Zenon DEF HistoryExact
<1>5. HistoryExact(C, n, n, newEnd, 0)
  <2>1. ASSUME NEW t \in Times, t > n \/ t >= newEnd
        PROVE  C[t] = Total(C)
    <3>1. t >= end
      BY <1>1, <2>1
    <3>2. QED
      BY <3>1, Zenon DEF HistoryExact
  <2>2. 0 = Total(C) - C[n]
    BY <1>4
  <2>3. QED
    BY <1>2, <2>1, <2>2, Zenon DEF HistoryExact
<1>6. ASSUME NEW w \in Nat, NEW l \in Nat, HistoryBounded(C, w, l, start, spent),
             start + w <= end
      PROVE  HistoryBounded(C, w, l, n, 0)
  <2>1. ASSUME NEW t \in Times, t <= n, n < t + w
        PROVE  C[n] - C[t] <= l
    <3>1. start <= t
      BY <1>1, <1>2, <1>6, <2>1
    <3>2. C[start] <= C[t] /\ C[start] \in Nat /\ C[t] \in Nat
      BY <1>1, <1>3, <3>1, Zenon DEF HistoryExact
    <3>3. spent <= l
      BY <1>6, Zenon DEF HistoryBounded
    <3>4. QED
      BY <1>4, <3>2, <3>3
  <2>2. 0 <= l
    OBVIOUS
  <2>3. QED
    BY <1>6, <2>1, <2>2, Zenon DEF HistoryBounded
<1>7. QED
  BY <1>5, <1>6, Zenon

-----------------------------------------------------------------------------
(***************************************************************************)
(* Steps of the vault.                                                     *)
(***************************************************************************)

(* The window of a mint is exact; without a window nothing was recorded.   *)
WindowExact(m) ==
  /\ HistoryExact(outflow[m], now, asset[m].window_started_at, WindowEnds(asset[m]),
                  asset[m].window_spent)
  /\ asset[m].window_seconds = 0 => Total(outflow[m]) = 0

(* It stays within windows of at least w seconds and limits of at most l.  *)
WindowBounded(m, w, l) ==
  /\ asset[m].window_seconds # 0 =>
       w <= asset[m].window_seconds /\ asset[m].window_limit <= l
  /\ HistoryBounded(outflow[m], w, l, asset[m].window_started_at, asset[m].window_spent)

WindowSound(m) ==
  /\ WindowExact(m)
  /\ \A w, l \in Nat : Within(w, l) => WindowBounded(m, w, l)

WindowInv == \A m \in Mints : WindowSound(m)

(* One outflow of the mint. *)
Charges(m, amount) ==
  /\ WindowAllows(asset[m], amount)
  /\ asset'[m] = Charged(asset[m], amount)
  /\ outflow'[m] = Recorded(m, amount)[m]
  /\ now' = now

(* A step that leaves asset and history of the mint alone. *)
Quiet(m) == asset'[m] = asset[m] /\ outflow'[m] = outflow[m] /\ now <= now'

(* The ways a step can touch the window of a mint and its history.         *)
LEMMA WindowStep ==
  ASSUME VaultTypeOK, RequestTargets, [VaultNext]_vaultVars, NEW m \in Mints
  PROVE  \/ Quiet(m)
         \/ RegisterAsset(m)
         \/ \E k \in Keys, p \in PolicyChoices : UpdateLimits(k, m, p)
         \/ \E amount \in Nat : Charges(m, amount)
<1> DEFINE Goal == \/ Quiet(m)
                   \/ RegisterAsset(m)
                   \/ \E k \in Keys, p \in PolicyChoices : UpdateLimits(k, m, p)
                   \/ \E amount \in Nat : Charges(m, amount)
<1> SUFFICES Goal
  OBVIOUS
<1> HIDE DEF Goal
<1>0. now \in Nat
  BY ClockIsNat, Zenon
<1>1. CASE UNCHANGED <<asset, outflow>> /\ now <= now'
  BY <1>1, Zenon DEF Goal, Quiet
<1>2. CASE UNCHANGED <<asset, outflow, now>>
  BY <1>0, <1>1, <1>2, AtLeastItself, Zenon
<1>3. ASSUME NEW x \in Mints, RegisterAsset(x)
      PROVE  Goal
  <2>1. CASE x # m
    <3>1. asset'[m] = asset[m] /\ outflow'[m] = outflow[m] /\ now' = now
      BY <1>3, <2>1, ZenonT(30) DEF RegisterAsset, VaultTypeOK
    <3>2. QED
      BY <1>0, <3>1, AtLeastItself, Zenon DEF Goal, Quiet
  <2>2. QED
    BY <1>3, <2>1, Zenon DEF Goal
<1>4. ASSUME NEW k \in Keys, NEW x \in Mints, NEW p \in PolicyChoices, UpdateLimits(k, x, p)
      PROVE  Goal
  <2>1. CASE x # m
    <3>1. asset'[m] = asset[m] /\ outflow'[m] = outflow[m] /\ now' = now
      BY <1>4, <2>1, Zenon DEF UpdateLimits, VaultTypeOK
    <3>2. QED
      BY <1>0, <3>1, AtLeastItself, Zenon DEF Goal, Quiet
  <2>2. QED
    BY <1>4, <2>1, Zenon DEF Goal
<1>5. ASSUME NEW x \in Mints, NEW to, NEW amount \in Nat, PayOut(x, to, amount), now' = now
      PROVE  Goal
  <2>1. CASE x = m
    <3>1. PayOut(m, to, amount)
      BY <1>5, <2>1, Zenon
    <3>2. WindowAllows(asset[m], amount) /\ outflow' = Recorded(m, amount)
      BY <3>1, Zenon DEF PayOut
    <3>3. asset'[m] = Charged(asset[m], amount)
      BY <3>1, PayOutAsset, Zenon
    <3>4. Charges(m, amount)
      BY <1>5, <3>2, <3>3, ZenonT(30) DEF Charges
    <3>5. QED
      BY <3>4, Zenon DEF Goal
  <2>2. CASE x # m
    <3>1. asset'[m] = asset[m]
      BY <1>5, <2>2, PayOutAsset, ZenonT(30)
    <3>2. outflow'[m] = outflow[m]
      BY <1>5, <2>2, ZenonT(30) DEF PayOut, Recorded, VaultTypeOK
    <3>3. QED
      BY <1>0, <1>5, <3>1, <3>2, AtLeastItself, Zenon DEF Goal, Quiet
  <2>3. QED
    BY <2>1, <2>2, Zenon
<1>6. ASSUME NEW k \in Keys, NEW x \in Mints, NEW a \in LiveAccounts, NEW amount \in Amounts,
             Withdraw(k, x, a, amount)
      PROVE  Goal
  <2>1. amount \in Nat
    BY AmountIsNat, Zenon
  <2>2. PayOut(x, a, amount) /\ now' = now
    BY <1>6, Zenon DEF Withdraw
  <2>3. QED
    BY <1>5, <2>1, <2>2, ZenonT(30)
<1>7. ASSUME NEW id \in WithdrawalIds, ExecuteWithdrawal(id)
      PROVE  Goal
  <2>1. requests[id] \in WithdrawalRequest
    BY RequestTyped, Zenon
  <2>2. /\ requests[id].status = "Pending"
        /\ PayOut(requests[id].mint, requests[id].recipient_token_account,
                  requests[id].amount)
        /\ now' = now
    BY <1>7, Zenon DEF ExecuteWithdrawal, Executable
  <2>3. requests[id].mint \in Mints /\ requests[id].amount \in Nat
    BY <2>1, <2>2, Zenon DEF RequestTargets, WithdrawalRequest
  <2>4. QED
    BY <1>5, <2>2, <2>3, Zenon
<1>8. ASSUME NEW k \in Keys, NEW x \in Mints, NEW a \in LiveAccounts, NEW amount \in Amounts,
             RequestWithdrawal(k, x, a, amount)
      PROVE  Goal
  BY <1>2, <1>8, Zenon DEF RequestWithdrawal
<1>9. ASSUME NEW k \in Keys, NEW id \in WithdrawalIds, CancelWithdrawal(k, id)
      PROVE  Goal
  BY <1>2, <1>9, Zenon DEF CancelWithdrawal
<1>10. ASSUME NEW k \in Keys, NEW x \in Mints, NEW w \in Wallets, NEW amount \in Amounts,
              Deposit(k, x, w, amount)
       PROVE  Goal
  BY <1>2, <1>10, Zenon DEF Deposit
<1>11. ASSUME NEW w \in Wallets, NEW a \in LiveAccounts, NEW amount \in Amounts,
              DirectTransfer(w, a, amount)
       PROVE  Goal
  BY <1>2, <1>11, Zenon DEF DirectTransfer
<1>12. ASSUME NEW c \in OwnerChanges, SetAccountOwner(c[1], c[2])
       PROVE  Goal
  BY <1>2, <1>12, Zenon DEF SetAccountOwner
<1>13. CASE ProtocolNext /\ UNCHANGED assetVars
  <2>1. now' = now \/ now' \in (now + 1) .. MaxTime
    BY <1>13, Zenon DEF ProtocolNext, InitializeProtocol, SetProtocolPause, Tick
  <2>2. now <= now'
    BY <1>0, <2>1, ProtocolAssumption
  <2>3. QED
    BY <1>1, <1>13, <2>2, Zenon DEF assetVars
<1>14. CASE AccessNext /\ UNCHANGED assetVars
  <2>1. now' = now
    BY <1>14, Zenon DEF AccessNext, CreateVault, SetVaultAuthority, PauseVault, UnpauseVault,
       GrantRole, RevokeRole, protocolVars
  <2>2. QED
    BY <1>2, <1>14, <2>1, ZenonT(30) DEF assetVars
<1>15. CASE UNCHANGED vaultVars
  BY <1>2, <1>15, Zenon DEF vaultVars
<1>16. QED
  BY <1>3, <1>4, <1>6, <1>7, <1>8, <1>9, <1>10, <1>11, <1>12, <1>13, <1>14, <1>15, Zenon
  DEF VaultNext

(* The types of what the window of a mint is made of. *)
LEMMA WindowTyped ==
  ASSUME VaultTypeOK, NEW m \in Mints
  PROVE  /\ outflow[m] \in [Times -> Nat]
         /\ now \in Nat /\ now <= MaxTime
         /\ asset[m].window_seconds \in Nat /\ asset[m].window_limit \in Nat
         /\ asset[m].window_started_at \in Nat /\ asset[m].window_spent \in Nat
         /\ WindowEnds(asset[m]) \in Nat
<1>1. outflow[m] \in [Times -> Nat]
  BY Zenon DEF VaultTypeOK
<1>2. now \in Nat /\ now <= MaxTime
  <2>1. now \in 0 .. MaxTime
    BY Zenon DEF VaultTypeOK, ProtocolTypeOK
  <2>2. QED
    BY <2>1, ProtocolAssumption
<1>3. asset[m] \in VaultAsset
  BY AssetTyped, Zenon
<1>4. /\ asset[m].window_seconds \in Nat /\ asset[m].window_limit \in Nat
      /\ asset[m].window_started_at \in Nat /\ asset[m].window_spent \in Nat
  BY <1>3, Zenon DEF VaultAsset
<1>5. WindowEnds(asset[m]) \in Nat
  <2>1. asset[m].window_started_at + asset[m].window_seconds \in Nat
    BY <1>4
  <2>2. QED
    BY <2>1, Zenon DEF WindowEnds
<1>6. QED
  BY <1>1, <1>2, <1>4, <1>5, Zenon

(* Time passes, or a step is about something else. *)
LEMMA QuietStep ==
  ASSUME VaultTypeOK, VaultTypeOK', NEW m \in Mints, WindowSound(m), Quiet(m)
  PROVE  WindowSound(m)'
<1>1. HistoryExact(outflow[m], now', asset[m].window_started_at, WindowEnds(asset[m]),
                   asset[m].window_spent)
  <2>1. now' \in 0 .. MaxTime
    BY Zenon DEF VaultTypeOK, ProtocolTypeOK
  <2>2. now' \in Nat
    BY <2>1
  <2>3. QED
    BY <2>2, LaterHistory, WindowTyped, Zenon DEF Quiet, WindowSound, WindowExact
<1>2. QED
  BY <1>1, Zenon DEF Quiet, WindowSound, WindowExact, WindowBounded

(* register_asset, which sets up no window, meets an empty history.        *)
LEMMA RegisterStep ==
  ASSUME VaultTypeOK, AssetShape, NEW m \in Mints, WindowSound(m), RegisterAsset(m)
  PROVE  WindowSound(m)'
<1>1. /\ asset'[m].window_started_at = now /\ asset'[m].window_seconds = 0
      /\ asset'[m].window_spent = 0
      /\ outflow' = outflow /\ now' = now
  BY Zenon DEF RegisterAsset, VaultTypeOK
<1>2. Total(outflow[m]) = 0
  BY Zenon DEF RegisterAsset, AssetShape, WindowSound, WindowExact
<1>3. /\ HistoryExact(outflow[m], now, now, now, 0)
      /\ \A w, l \in Nat : HistoryBounded(outflow[m], w, l, now, 0)
  <2>1. /\ outflow[m] \in [Times -> Nat] /\ now \in Nat /\ now <= MaxTime /\ now <= now
        /\ \A t, u \in Times : t <= u => outflow[m][t] <= outflow[m][u]
    BY WindowTyped, AtLeastItself, Zenon DEF WindowSound, WindowExact, HistoryExact
  <2>2. QED
    BY <1>2, <2>1, EmptyHistory, ZenonT(30)
<1>4. WindowEnds(asset'[m]) = now
  <2>1. now + 0 = now
    BY WindowTyped
  <2>2. QED
    BY <1>1, <2>1, Zenon DEF WindowEnds
<1>5. QED
  BY <1>1, <1>2, <1>3, <1>4, Zenon DEF WindowSound, WindowExact, WindowBounded

(* A new policy: it keeps the running window, or starts one once nothing   *)
(* was recorded yet or the running one has ended.                          *)
LEMMA UpdateStep ==
  ASSUME VaultTypeOK, NEW m \in Mints, WindowSound(m),
         NEW k \in Keys, NEW p \in PolicyChoices, UpdateLimits(k, m, p)
  PROVE  WindowSound(m)'
<1> DEFINE C == outflow[m]
           start == asset[m].window_started_at
           spent == asset[m].window_spent
           end == WindowEnds(asset[m])
<1>1. /\ C \in [Times -> Nat] /\ now \in Nat /\ now <= MaxTime
      /\ start \in Nat /\ spent \in Nat /\ end \in Nat /\ asset[m].window_seconds \in Nat
  BY WindowTyped, Zenon
<1>2. /\ asset'[m].window_seconds = p.window_seconds
      /\ asset'[m].window_limit = p.window_limit
      /\ asset'[m].window_started_at = IF StartsWindow(asset[m], p) THEN now ELSE start
      /\ asset'[m].window_spent = IF StartsWindow(asset[m], p) THEN 0 ELSE spent
      /\ outflow' = outflow /\ now' = now
  BY Zenon DEF UpdateLimits, VaultTypeOK
<1>3. /\ p.window_seconds \in Nat /\ p.window_limit \in Nat /\ p.window_seconds > 0
      /\ p \in AcceptedPolicies
  BY VaultAssumption, Zenon DEF Policy, UpdateLimits, ValidPolicy, AcceptedPolicies
<1>4. \A w, l \in Nat : Within(w, l) =>
        /\ w <= p.window_seconds /\ p.window_limit <= l
        /\ HistoryBounded(C, w, l, start, spent)
        /\ asset[m].window_seconds # 0 => w <= asset[m].window_seconds
  BY <1>3, Zenon DEF Within, WindowSound, WindowBounded
<1>5. HistoryExact(C, now, start, end, spent)
  BY ZenonT(30) DEF WindowSound, WindowExact
<1>6. p.window_seconds # 0
  BY <1>3, ZeroIsNotPositive, Zenon
<1>7. CASE ~StartsWindow(asset[m], p)
  <2>1. asset'[m].window_started_at = start /\ asset'[m].window_spent = spent
    BY <1>2, <1>7, Zenon
  <2>2. WindowEnds(asset'[m]) = end
    BY <1>2, <1>7, <2>1, ZenonT(30) DEF StartsWindow, WindowEnds
  <2>3. QED
    <3>1. WindowExact(m)'
      BY <1>2, <1>5, <1>6, <2>1, <2>2, Zenon DEF WindowExact
    <3>2. \A w, l \in Nat : Within(w, l) => WindowBounded(m, w, l)'
      BY <1>2, <1>4, <2>1, Zenon DEF WindowBounded
    <3>3. QED
      BY <3>1, <3>2, Zenon DEF WindowSound
<1>8. CASE StartsWindow(asset[m], p)
  <2>1. /\ asset'[m].window_started_at = now /\ asset'[m].window_spent = 0
        /\ WindowEnds(asset'[m]) = now + p.window_seconds
    BY <1>2, <1>8, Zenon DEF WindowEnds
  <2>2. now + p.window_seconds \in Nat /\ now <= now + p.window_seconds
    BY <1>1, <1>3
  <2>3. /\ HistoryExact(C, now, now, now + p.window_seconds, 0)
        /\ \A w, l \in Nat : Within(w, l) => HistoryBounded(C, w, l, now, 0)
    <3>1. CASE asset[m].window_seconds = 0
      <4>1. Total(C) = 0 /\ \A t, u \in Times : t <= u => C[t] <= C[u]
        BY <1>5, <3>1, Zenon DEF WindowSound, WindowExact, HistoryExact
      <4>2. QED
        BY <1>1, <2>2, <4>1, EmptyHistory, ZenonT(30)
    <3>2. CASE asset[m].window_seconds # 0
      <4>1. end <= now
        BY <1>1, <1>8, <3>2, Zenon
        DEF UpdateLimits, MayChangeDuration, StartsWindow, WindowElapsed
      <4>2. /\ HistoryExact(C, now, now, now + p.window_seconds, 0)
            /\ \A w, l \in Nat : HistoryBounded(C, w, l, start, spent) /\ start + w <= end =>
                 HistoryBounded(C, w, l, now, 0)
        BY <1>1, <1>5, <2>2, <4>1, FreshWindow, ZenonT(30)
      <4>3. \A w, l \in Nat : Within(w, l) => start + w <= end
        <5>1. \A w \in Nat : w <= asset[m].window_seconds =>
                start + w <= start + asset[m].window_seconds
          BY <1>1
        <5>2. QED
          BY <1>4, <3>2, <5>1, Zenon DEF WindowEnds
      <4>4. QED
        BY <1>4, <4>2, <4>3, Zenon
    <3>3. QED
      BY <3>1, <3>2, Zenon
  <2>4. QED
    <3>1. WindowExact(m)'
      BY <1>2, <1>6, <2>1, <2>3, Zenon DEF WindowExact
    <3>2. \A w, l \in Nat : Within(w, l) => WindowBounded(m, w, l)'
      BY <1>2, <1>4, <2>1, <2>3, Zenon DEF WindowBounded
    <3>3. QED
      BY <3>1, <3>2, Zenon DEF WindowSound
<1>9. QED
  BY <1>7, <1>8, Zenon

(* An outflow: it is charged to the running window, or to a fresh one.     *)
LEMMA ChargeStep ==
  ASSUME VaultTypeOK, NEW m \in Mints, WindowSound(m), NEW amount \in Nat,
         Charges(m, amount)
  PROVE  WindowSound(m)'
<1> DEFINE C == outflow[m]
           start == asset[m].window_started_at
           spent == asset[m].window_spent
           seconds == asset[m].window_seconds
           end == WindowEnds(asset[m])
<1>1. /\ C \in [Times -> Nat] /\ now \in Nat /\ now <= MaxTime
      /\ start \in Nat /\ spent \in Nat /\ end \in Nat /\ seconds \in Nat
      /\ asset[m].window_limit \in Nat /\ asset[m] \in VaultAsset
  BY WindowTyped, AssetTyped, ZenonT(30)
<1>2. CASE seconds = 0
  <2>1. asset'[m] = asset[m] /\ outflow'[m] = outflow[m] /\ now' = now
    BY <1>2, ZenonT(30) DEF Charges, Charged, Recorded
  <2>2. WindowExact(m)'
    BY <2>1, Zenon DEF WindowSound, WindowExact
  <2>3. \A w, l \in Nat : Within(w, l) => WindowBounded(m, w, l)'
    BY <2>1, Zenon DEF WindowSound, WindowBounded
  <2>4. QED
    BY <2>2, <2>3, Zenon DEF WindowSound
<1>3. CASE seconds # 0
  <2> DEFINE from == IF WindowElapsed(asset[m]) THEN now ELSE start
             before == IF WindowElapsed(asset[m]) THEN 0 ELSE spent
             until == IF WindowElapsed(asset[m]) THEN now + seconds ELSE end
  <2>1. /\ asset'[m].window_seconds = seconds
        /\ asset'[m].window_limit = asset[m].window_limit
        /\ asset'[m].window_started_at = from
        /\ asset'[m].window_spent = next_window_spent(asset[m], amount)
    BY <1>1, <1>3, Zenon DEF Charges, Charged, VaultAsset
  <2>2. next_window_spent(asset[m], amount) = before + amount
    <3>1. 0 + amount = amount
      OBVIOUS
    <3>2. QED
      BY <3>1, Zenon DEF next_window_spent
  <2>3. outflow'[m] = Grown(C, now, amount) /\ now' = now
    BY <1>3, Zenon DEF Charges, Recorded, Grown, VaultTypeOK
  <2>4. before \in Nat /\ from \in Nat /\ until \in Nat /\ now < until
    <3>1. now + seconds \in Nat /\ now < now + seconds /\ (~(now >= end) => now < end)
      BY <1>1, <1>3
    <3>2. QED
      BY <1>1, <3>1, Zenon DEF WindowElapsed
  <2>5. WindowEnds(asset'[m]) = until
    BY <2>1, Zenon DEF WindowEnds
  <2>6. before + amount <= asset[m].window_limit
    BY <1>3, <2>2, Zenon DEF Charges, WindowAllows
  <2>7. HistoryExact(C, now, start, end, spent)
    BY Zenon DEF WindowSound, WindowExact
  <2>8. \A w, l \in Nat : Within(w, l) =>
          /\ w <= seconds /\ asset[m].window_limit <= l
          /\ HistoryBounded(C, w, l, start, spent)
    BY <1>3, Zenon DEF WindowSound, WindowBounded
  <2>9. /\ HistoryExact(C, now, from, until, before)
        /\ \A w, l \in Nat : Within(w, l) => HistoryBounded(C, w, l, from, before)
    <3>1. CASE WindowElapsed(asset[m])
      <4>1. end <= now /\ now + seconds \in Nat /\ now <= now + seconds
        <5>1. now >= end
          BY <3>1, Zenon DEF WindowElapsed
        <5>2. QED
          BY <1>1, <5>1
      <4>2. /\ HistoryExact(C, now, now, now + seconds, 0)
            /\ \A w, l \in Nat : HistoryBounded(C, w, l, start, spent) /\ start + w <= end =>
                 HistoryBounded(C, w, l, now, 0)
        BY <1>1, <2>7, <4>1, FreshWindow, ZenonT(30)
      <4>3. \A w, l \in Nat : Within(w, l) => start + w <= end
        <5>1. \A w \in Nat : w <= seconds => start + w <= start + seconds
          BY <1>1
        <5>2. QED
          BY <2>8, <5>1, Zenon DEF WindowEnds
      <4>4. QED
        BY <2>8, <3>1, <4>2, <4>3, ZenonT(30)
    <3>2. CASE ~WindowElapsed(asset[m])
      BY <2>7, <2>8, <3>2, Zenon
    <3>3. QED
      BY <3>1, <3>2, Zenon
  <2> HIDE DEF from, before, until, C, seconds
  <2>10. HistoryExact(Grown(C, now, amount), now, from, until, before + amount)
    BY <1>1, <2>4, <2>9, GrownExact, Zenon
  <2>11. ASSUME NEW w \in Nat, NEW l \in Nat, Within(w, l)
         PROVE  HistoryBounded(Grown(C, now, amount), w, l, from, before + amount)
    <3>1. before + amount <= l
      <4>1. asset[m].window_limit <= l
        BY <2>8, <2>11, Zenon
      <4>2. before + amount \in Nat
        BY <2>4
      <4>3. QED
        BY <1>1, <2>6, <2>11, <4>1, <4>2, TimesOrdered, ZenonT(30)
    <3>2. QED
      BY <1>1, <2>4, <2>9, <2>11, <3>1, GrownBounded, ZenonT(30)
  <2>12. QED
    BY <1>3, <2>1, <2>2, <2>3, <2>5, <2>8, <2>10, <2>11, ZenonT(30)
    DEF WindowSound, WindowExact, WindowBounded
<1>4. QED
  BY <1>2, <1>3, Zenon

(* Every window stays exact and bounded. *)
LEMMA WindowInvariant == VaultSpec => []WindowInv
<1>1. VaultInit => WindowInv
  <2> SUFFICES ASSUME VaultInit, NEW m \in Mints
               PROVE  WindowSound(m)
    BY Zenon DEF WindowInv
  <2>1. /\ asset[m] = NoAsset /\ now = 0
        /\ outflow[m] = [t \in Times |-> 0]
    BY Zenon DEF VaultInit, ProtocolInit
  <2>2. \A t \in Times : outflow[m][t] = 0
    BY <2>1, Zenon
  <2>3. 0 \in Nat /\ 0 <= 0 /\ 0 <= MaxTime /\ 0 + 0 = 0
    BY ProtocolAssumption
  <2>4. /\ outflow[m] \in [Times -> Nat] /\ Total(outflow[m]) = 0
        /\ \A t, u \in Times : t <= u => outflow[m][t] <= outflow[m][u]
    BY <2>1, <2>2, <2>3, TimesCover, Zenon DEF Total
  <2>5. /\ HistoryExact(outflow[m], 0, 0, 0, 0)
        /\ \A w, l \in Nat : HistoryBounded(outflow[m], w, l, 0, 0)
    BY <2>3, <2>4, EmptyHistory, ZenonT(30)
  <2>6. /\ asset[m].window_seconds = 0 /\ asset[m].window_started_at = 0
        /\ asset[m].window_spent = 0
    BY <2>1 DEF NoAsset
  <2>7. WindowEnds(asset[m]) = 0
    BY <2>3, <2>6, Zenon DEF WindowEnds
  <2>8. QED
    BY <2>1, <2>4, <2>5, <2>6, <2>7, ZenonT(30) DEF WindowSound, WindowExact, WindowBounded
<1>2. VaultTypeOK /\ RequestTargets /\ AssetShape /\ WindowInv /\ VaultTypeOK'
        /\ [VaultNext]_vaultVars => WindowInv'
  <2> SUFFICES ASSUME VaultTypeOK, RequestTargets, AssetShape, WindowInv, VaultTypeOK',
                      [VaultNext]_vaultVars, NEW m \in Mints
               PROVE  WindowSound(m)'
    BY Zenon DEF WindowInv
  <2>1. WindowSound(m)
    BY Zenon DEF WindowInv
  <2>2. CASE Quiet(m)
    BY <2>1, <2>2, QuietStep, Zenon
  <2>3. CASE RegisterAsset(m)
    BY <2>1, <2>3, RegisterStep, Zenon
  <2>4. ASSUME NEW k \in Keys, NEW p \in PolicyChoices, UpdateLimits(k, m, p)
        PROVE  WindowSound(m)'
    BY <2>1, <2>4, UpdateStep, ZenonT(30)
  <2>5. ASSUME NEW amount \in Nat, Charges(m, amount)
        PROVE  WindowSound(m)'
    BY <2>1, <2>5, ChargeStep, Zenon
  <2>6. QED
    BY <2>2, <2>3, <2>4, <2>5, WindowStep, ZenonT(30)
<1>3. QED
  BY <1>1, <1>2, VaultTypeCorrect, AssetShapeInvariant, PTL DEF VaultSpec

(* next_window_state and update_limits never lose, double or misplace an   *)
(* outflow: window_spent is what left custody since window_started_at,     *)
(* whatever is withdrawn, executed and reconfigured, and whenever.         *)
THEOREM WindowSpendExact == VaultSpec => []WindowSpentIsOutflow
<1>1. WindowInv => WindowSpentIsOutflow
  BY ZenonT(30) DEF WindowInv, WindowSound, WindowExact, HistoryExact, Total, WindowSpentIsOutflow,
     OutflowIn
<1>2. QED
  BY <1>1, WindowInvariant, PTL

(* The rolling limit as the owner of a vault experiences it: however       *)
(* withdrawals, executions and changes of policy interleave, a time span   *)
(* as long as the shortest window sees at most twice the largest limit.    *)
THEOREM SpanLimited == VaultSpec => []SpanSeesTwoWindows
<1>1. WindowInv => SpanSeesTwoWindows
  <2> SUFFICES ASSUME WindowInv, NEW shortest \in AcceptedPolicies,
                      NEW largest \in AcceptedPolicies,
                      Within(shortest.window_seconds, largest.window_limit),
                      NEW m \in Mints, NEW t \in Times, NEW u \in Times,
                      u <= t + shortest.window_seconds
               PROVE  OutflowIn(m, t, u) <= 2 * largest.window_limit
    BY Zenon DEF SpanSeesTwoWindows
  <2>1. shortest.window_seconds \in Nat /\ largest.window_limit \in Nat
    BY VaultAssumption, Zenon DEF AcceptedPolicies, Policy
  <2>2. HistoryBounded(outflow[m], shortest.window_seconds, largest.window_limit,
                       asset[m].window_started_at, asset[m].window_spent)
    BY <2>1, Zenon DEF WindowInv, WindowSound, WindowBounded
  <2>3. QED
    BY <2>2, Zenon DEF HistoryBounded, OutflowIn
<1>2. QED
  BY <1>1, WindowInvariant, PTL

=============================================================================
