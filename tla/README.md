# IronVault in TLA+

A TLA+ model of IronVault: the `iron_vault` Solana program with its escrows and
policy-controlled vaults, the SDK call that depends on the program's state, and
the observer that follows the program's events into a database. It is
model-checked with TLC on small instances and, for the main safety properties,
proved with TLAPS for every instance. Paths below are relative to the repository;
`instructions/` stands for `programs/iron_vault/src/instructions/`.

## The system and its parts

| part | state | operations | what makes it hard |
|---|---|---|---|
| protocol configuration | `ProtocolConfig`: admin, guardian, pause flags | `initialize_protocol`, `set_protocol_pause` | the guardian may only add flags; each flag is read separately by each instruction it gates |
| token ledger | token accounts (external program) | `transfer_checked` and the exactness checks around it | anybody can send to custody; a destination can be custody itself; u64 limits |
| escrow | `Escrow` and its custody account | `create_escrow`, `release_escrow`, `refund_escrow` | the expiry boundary, donations, recipients that are program addresses, a refund that must survive every pause |
| vault access | `Vault`, `RoleAssignment` | `create_vault`, `set_vault_authority`, `pause_vault`, `unpause_vault`, `grant_role`, `revoke_role` | rotations and grants that interact over several steps |
| vault assets | `VaultAsset`, `WithdrawalRequest`, custody | `register_asset`, `update_limits`, `deposit`, `withdraw`, `request_withdrawal`, `execute_withdrawal`, `cancel_withdrawal` | the rolling window, policies that change under pending requests, requests competing for capacity, execute racing cancel |
| observer | Postgres event store, projections, checkpoint, readiness status | subscribe, reconcile, persist, `readyz`, alerts | lost and repeated notifications, crash between events, event order |
| SDK and CLI | none of their own | read accounts, build and send one transaction | a counter read before it is used |
| mock multisig | three owners | `initialize`, `execute` | two of three owners sign as one authority |

The program stands alone: nothing the SDK or the observer does changes what an
instruction accepts. The SDK reads the vault and sends a transaction; the
observer reads logs of finalized transactions and writes only its own database.
`VaultClient` composes the SDK with the vault. The observer's input is a chain of
transactions with their parsed events, whatever produced them, and `LogParser`
relates logs to parsed events.

## Modules

| module | models |
|---|---|
| `Protocol` | configuration account, pause flags, the chain clock |
| `TokenLedger` | balances, mint support, exact transfers, the supply of a mint |
| `Escrow` | the escrow instructions over `Protocol` and `TokenLedger` |
| `EscrowPromise` | the abstract specification of an escrow |
| `VaultAccess` | authority, guardian, roles and the local pause |
| `Vault` | assets, limits, windows and requests, composed with `VaultAccess`, `Protocol`, `TokenLedger` |
| `WithdrawalPromise` | the abstract specification of how value leaves a vault |
| `VaultClient` | `requestWithdrawal` of the SDK, in any number of sessions, over `Vault` |
| `EventStore` | the observer's tables and `Database::persist` |
| `Observer` | `Observer::run`, `run_connection`, `reconcile`, `process_logs`, `monitor_rpc_slot`, `readyz`, over `EventStore` and a chain |
| `EventLog` | the abstract specification of what the observer records and announces |
| `LogParser` | `extract_events`, against a runtime that produces the log |
| `MCEscrow`, `MCVault`, `MCVaultClient`, `MCObserver` | small instances |
| `CommonProofs`, `EscrowProofs`, `VaultProofs`, `WindowProofs`, `WithdrawalProofs`, `ObserverInvariantProofs`, `ObserverProofs`, `LogParserProofs` | theorems and proofs |

How code and model correspond:

- **An instruction is one action.** A Solana transaction is atomic: a failed
  `require!`, account constraint or CPI rolls everything back. The guard of an
  action is the conjunction of the instruction's checks and account constraints,
  its effect is every account it writes, the transfer included. Which error is
  returned is abstracted: a failing instruction is a disabled action.
  `release_escrow` and `refund_escrow` are a conjunction of what they check
  (`ReleaseChecks`, `RefundChecks`) and what they then do (`Settle`), so that
  `ExitsPartitionTime` can speak of the checks without `ENABLED`.
- **Accounts are records.** An account that was not created reads as a zeroed
  record (`Absent`, `NoAsset`, `NoRequest`, or `exists = FALSE`); `init` is the
  guard that it does not exist. Addresses are derived from seeds, so
  `<<maker, id>>` names an escrow, its custody account and that account's owner;
  `Custody(m)` names a vault's custody of mint `m`. Fields no check reads
  (bumps, reserved bytes, schema version) are left out, and so are the
  constraints that only compare an account with the address it is derived from.
- **Masks are sets of bits.** `UNKNOWN` stands for a bit outside the known mask.
- **Integers keep their limits.** `U64Max` and `I64Max` are scaled-down constants;
  every checked addition is a guard against them. `Coins` gives each unit an account
  holds a name of its own, so that the supply of a mint is the size of a set and
  no sum over accounts is needed (`SupplyConserved`).
- **The environment acts too.** `Tick` moves the clock forward by any amount,
  `DirectTransfer` is a holder's own transfer (into custody if it likes), and in
  `Vault` `SetAccountOwner` gives a wallet to somebody else. These are external.
- **Signers.** Where any key may sign, the caller is a parameter. Where exactly
  one account's key must sign (the maker, the authority), the action assumes it.
- `outflow` in `Vault` is a history variable: `outflow[m][t]` is what left custody of
  `m` under a window before time `t`, so that what left in a span is a difference
  of two values. So is `paid_for`: `paid_for[id]` is what custody lost in the executions
  of request `id`. No guard reads them.
- **The SDK call has its awaits.** `StartCall` is everything up to `send`, with the
  counter and the authority as read then; `Land` is the transaction's execution,
  whenever it comes; `ReturnCall` and `ThrowCall` are the two ways `send` ends. A
  confirmation that times out leaves the transaction "abandoned": it may still be
  executed. `returned` is a history variable. A session makes one call after the
  other; calls that overlap are calls of different sessions.
- **The observer's step ends where the code awaits.** `at` says where
  `run_connection` is; `low .. high` are the signatures `reconcile` has listed, `tx`
  and `item` the log entry `process_logs` is at. A database transaction is one
  step (`persist`), and the counting and alerting that follow its commit are
  another (`Announce`), so that a crash may fall between them. A transaction's
  number in ledger order stands for its signature.
- **The observer's environment.** `FinalizeSlot` finalizes a slot and notifies
  whoever is subscribed. Faults: a notification is lost, `getTransaction` answers
  without metadata or logs, any call fails (`ConnectionError`: everything the
  connection held is dropped), the process dies (`Crash`: only the database is
  left). `missed` remembers the transactions whose delivery was lost or skipped, in
  a way the process cannot see, and `skipped` the ones the present reconciliation got
  no logs for; no guard reads them.
- **A log line is what the parser can tell of it** (`LogParser`). The runtime takes
  a step and logs a line; the parser takes that line. What other programs print
  may read as an invocation or as the end of one, because the parser tests for a
  prefix and a suffix only; `printed` is the name such a message yields (it begins
  with `log: `, so it is no program's). `emitted` and `misread` are history variables:
  what IronVault emitted, and how many messages read as a top-level invocation.
- The operators called *Variant* in the modules are deliberate bugs (a dropped guard, a
  missing reset). They are not part of any specification; each shows that a
  property would notice that bug.

## What TLC checks

| run | module / cfg | question |
|---|---|---|
| `escrow` | `MCEscrow` / `MCEscrow.cfg` | does custody cover every funded escrow, pay only the entitled party, split time at the expiry with a refund that never fails, conserve supply, and implement `EscrowPromise`; is every escrow whose expiry comes settled in the end? |
| `vault_window` | `MCVault` / `MCVaultWindow.cfg` | is the recorded spend exactly the outflow, what can one span see, and is a request paid once although a second payment would fit? |
| `vault_client` | `MCVaultClient` / `MCVaultClient.cfg` | two SDK sessions and two competing requests: unique ids, a window for each, and the caller gets the id of its own request |
| `vault_controls` | `MCVault` / `MCVaultControls.cfg` | pauses, changed policies and changed owners against a pending request: does value leave only by the rules and within the limits then in force, as `WithdrawalPromise` says, is supply conserved, can the guardian always cancel? |
| `vault_access` | `MCVault` / `MCVaultAccess.cfg` | who gains which power over grants, rotations and pauses |
| `observer` | `MCObserver` / `MCObserver.cfg` | under any two faults: is everything before the checkpoint stored, does a connection lose anything, are events stored once and announced at most once, does every reconciliation repair what its pages cover, do rows follow the history and never regress, is everything within a page stored in the end, is `readyz` ready again, with every slot observed, after every fault? |
| `log_parser` | `LogParser` / `LogParser.cfg` | does `extract_events` find exactly what IronVault emitted, under the right indexes, and do identities increase along every log? |

All of them pass. Deadlock checking stays on except in `log_parser`, where a log
ends: when the clock and the ids are used up, `set_protocol_pause` and the
vault's local pause can still be called, and the observer's loop never ends.

Bounds, and why they are enough:

- *Time* 0..1 to 0..4 with windows of 2 and 3, timelocks and execution windows of
  1: a window starts, ends and is followed by another; a request is early, due
  and late. Expiries go one past the last time, so that one escrow may never expire.
- *Escrows*: two of one maker, one possibly naming the other's address as its
  recipient, with a supported and an unsupported mint. Two custody accounts are
  what a payment from one to the other needs; `EscrowProofs` removes the bound.
- *Requests*: two where they compete, one where pauses and owners change.
- *Amounts* up to 2 with limits 1 to 3 and balances up to 4 = `U64Max`: one
  amount fits, two exceed a limit, and a balance can hit the top of u64. In the
  escrow run `U64Max` = 3 is exactly the supply of the supported mint, the tightest
  case that `SupplyAssumption` admits: a refund may fill an account to the top.
- *Sessions*: one of the authority and one of a role holder, whose calls overlap in
  every way; `WithdrawalProofs` removes the bound.
- *Observer*: four transactions in at most two slots with pages of two. The pages
  force a second listing step and let the checkpoint fall on the first, the
  second or no page; the transactions hold two events of one instruction, an
  undecodable entry, updates of two columns of one row, and a failure. Two faults
  give a lost notification followed by a crash inside a transaction, or a crash
  during recovery from an error. `ObserverProofs` removes these bounds for the
  safety properties; the liveness properties also hold of this instance with
  `MaxFaults` = 3, which takes three times as long.
- *Logs*: eleven lines are two top-level instructions, one of them with IronVault
  called from another program and calling the token program in turn, with data
  and messages in between. `LogParserProofs` removes the bound.
- *Keys*: authority, guardian, and one more where roles are granted.
- *Policies*: two to four per run, chosen to be tighter, looser, re-timed or invalid.

Fairness (`EscrowFairSpec`) is weak fairness of the clock, which the chain
provides, and of `Refund(e)`: `refund_escrow` may be called by anyone, costs only
a fee, and the maker has a reason to call it. Release has no fairness: nobody
has to release. The wallets' owners do not change in `Escrow`, which is the
assumption under which the maker keeps an account to be refunded to.

`ObserverFairSpec` is weak fairness of `ObserverStep`, the steps of `run` taken
together: the runtime goes on polling the task while the process lives, calls
return or fail, and the interval fires. It is not fairness of each step: an
observer that forever prefers its timer to its socket is a behaviour of the
specification, as `select!` promises nothing better, and the liveness properties
hold for it too. The chain owes nothing, so the last slots may never come, and no property needs it to
stop. The number of faults is finite, which is what "in the end" needs.

What the observer's properties claim, and where they stop:

- `SessionAccounted` is the reason to subscribe before listing (the order
  `docs/OBSERVER.md:11-13` explains): what is finalized after the listing is in the
  receive buffer.
- `GapsAreMissed` is the reason `reconcile` may stop at the checkpoint: nothing
  before it is missing, except what was lost without the process noticing.
- `ReconciliationRepairs` says what one reconciliation achieves once it ends, faults
  before it or not: everything from the checkpoint on, and in any case the newest
  page, is stored, except failed transactions and what `getTransaction` had no logs for.
- `StoredWithinPage` is what the periodic reconciliation does for such losses: it
  repairs them as long as they are within a page of the newest.
- `ReadyForEverySlot` is what `readyz` is for: whatever slot the chain has reached, the
  observer is ready again later with that slot observed, also when the slot held
  nothing for it. It does not say that `readyz` stays ready: on a chain that moves on
  the lag grows between two reconciliations, and a small
  `IRONVAULT_MAX_READY_SLOT_LAG` makes the answer alternate.
- `ProjectionsFollowHistory` says that every row holds what the last stored event
  set, while no delivery was lost and positions `(slot, instruction, event)` follow the
  ledger. Both conditions are needed. The first because authority and pause of a
  vault share one last position, so that a late authority update behind a newer
  pause update is dropped; the second is the subject of `observer_shared_slot`.

What the supply and the two promises claim:

- `SupplyConserved` is about all accounts of a mint together, and rests on the
  comparison of both reloaded balances after every transfer. With
  `SupplyAssumption` (a mint's supply is a u64) it is why a `checked_add` on a
  destination never fails.
- `ExitsPartitionTime`: from the expiry on, the refund of a funded escrow would
  succeed for some account of the maker; before it, never; and no moment allows both
  release and refund. `CanRelease` and `CanRefund` spell out the checks and
  the condition under which the transfer succeeds. The maker keeps the account that
  funded the escrow, because closing an account is not modelled.
- `KeepsWithdrawalPromise` states for a watcher of the vault what
  `OutflowFollowsRules` and `RequestPaidAtMostOnce` say instruction by instruction:
  requests are numbered without gaps, their terms never change, and each is paid
  once or vetoed, and what leaves without a request is within the instant limit. The
  promise knows no pauses, roles or spending windows.
- `RequestPaidAtMostOnce` compares a request's status with the tokens custody really
  lost for it. In `vault_window` a request is executable for two moments, the window
  may restart between them and custody holds twice the amount, so nothing but the
  status check stands in the way of a second payment.

What the log parser's properties claim:

- `ParserFindsEmissions`: no event of IronVault is lost or invented, whatever other
  programs print. The indexes are the real ones unless a message reads as a
  top-level invocation; from there on the instruction index is too large. No
  document promises the real index (`docs/OBSERVER.md` speaks of a key), so this is a
  limit of the property and not a finding.
- `IdentitiesIncrease` has no such exception: keys are unique and follow the log. It
  is what `HistoryAssumption` (below) assumes of the observer's input.
- Both hold at every line of the log, so a log that is cut short is covered up to the
  cut and no further: the events behind it are lost, and nothing tells the observer.

### Where the code and its documents disagree

Five runs end in a counterexample, on purpose:

- `vault_rotation`: `set_vault_authority` accepts a key that holds a role and
  leaves the role active; when that key rotates away it still has the role's
  permissions. `docs/THREAT_MODEL.md:127` speaks of "authority and guardian
  rotation invalidating old keys immediately".
- `vault_long_window`: `update_limits` has no upper bound on `window_seconds`; a
  window whose end exceeds `i64::MAX` blocks every outflow of the asset and every
  change of that duration. `docs/THREAT_MODEL.md:81` lists "bounded positive
  durations and amounts".
- `vault_no_policy`: between `register_asset` and the first `update_limits` a
  withdrawal is unlimited and charged to no window; `README.md:48-49` says that
  successful withdrawals consume window capacity.
- `observer_shared_slot`: rows are compared by `(slot, instruction, event)`. Of two
  transactions in one slot that touch one row, the later one's update is dropped
  unless its indexes happen to be larger, and no replay applies it, since the
  event is stored. `observer/src/database.rs:58-59` says that `persist` "applies its read
  model". No fault is needed.
- `observer_missed`: a transaction whose notification was lost is not listed again
  once a page (1000 in the code, 2 in the run) of newer ones holds the checkpoint.
  The comment at `observer/src/rpc.rs:223-226` says that periodic reconciliation
  "repairs missed notifications".

## What is proved

Everything below holds for every set of keys, mints, wallets and ids, every
amount, policy and clock bound that satisfy the named assumptions
(`ProtocolAssumption`, `LedgerAssumption`, `SupplyAssumption`, `EscrowAssumption`, `AccessAssumption`,
`VaultAssumption`, `ClientAssumption`, `StoreAssumption`, `ObserverAssumption`,
`HistoryAssumption`, `ParserAssumption`). These
say that the default key never signs, that constants have their types, that
wallets are not program addresses, that a payer is a key, that pages are not
empty, that there is at least one authority, and that IronVault is none of the other
programs. `SupplyAssumption` says that the wallets are finitely many and that what they
hold of a mint at first is at most `U64Max`, as the `supply` field of a mint account
is a u64; `EscrowAssumption` and `VaultAssumption` say that escrow addresses and mints
are finitely many. `HistoryAssumption` is about the history the observer reads: the identities
of a transaction increase along its log, which `ParserIdentities` proves of
`extract_events`; and no event of an escrow, vault or request precedes the one that
creates it, because the program creates these accounts with `init` at an address
of their own and closes none. TLC evaluates them on each instance.

`CommonProofs` has what the two programs share: what a transfer does
(`TransferEffect`), when it succeeds (`TransferSucceedsExact`), and that it conserves
the coins of any finite set of accounts that holds both of its ends or neither
(`ExactTransferKeepsSupply`). The last moves the coins of one account one by one to
another: the two sets of units have the same size (`UnitsCounted`), and the sizes of
disjoint unions add up, so no induction over accounts is needed.

`EscrowProofs`:

- `TypeCorrect`: `TypeOK` is inductive as it stands, given that a transfer checks
  the destination against u64 (`TransferEffect`).
- `CustodyCovered`: `CustodyCoversFunded` is inductive relative to `TypeOK`. The point
  is that the only action that lowers a custody balance also ends that escrow, and
  a payment into another custody account only raises it (`SettlementEffect`).
- `CustodyPaysEntitled`: the action property, from `TypeOK` and the effect of a
  settlement.
- `EscrowKeepsPromise`: `Escrow` implements `EscrowPromise`. `Deal(e)` is the
  refinement mapping; create is `Open`, release `Deliver`, refund `Return`, a direct
  transfer is `Donate` or a stutter, the clock is `Pass`, and protocol instructions
  are stutters.
- `EscrowConservesSupply`: every transfer stays within a mint. A custody account joins
  the accounts of its mint when `create_escrow` initialises it, with balance 0, and
  never leaves (`OpeningConserves`).
- `ExitsSucceedExactly`: `ReleaseEscrow` and `RefundEscrow` are equivalent to their
  checks, `TransferSucceeds` and the assignments, so that `CanRelease` and `CanRefund`
  say of the actions what they seem to say.
- `ExitsArePartitioned`: that the two exclude each other is the strict comparison on
  one side. That a refund always succeeds needs three invariants: `CustodyCovered`;
  `MakerHasWallet` (a funded escrow's maker owns a wallet of its mint, the one that
  funded it); and `EscrowConservesSupply`, by which custody and that wallet together
  hold no more than the supply, so that the amount fits (`PairWithinSupply`).

`VaultProofs`:

- `VaultTypeCorrect`: the types, with `RequestTargets` (a request that exists names
  a mint and a token account), without which the execution step is not typed.
- `GuardianPowerless`: through `GuardianApart` (the guardian is neither the
  authority nor a role holder, and before the vault exists nobody holds a role),
  which is the inductive form of `GuardianNeverAuthorized`.
- `LiveWindowKept`: by cases on the two writers of an asset, `update_limits` and
  the outflows.
- `RequestIdsContiguous`: with `CounterStarts` (the counter of a vault that does
  not exist reads 0, so `create_vault` does not reset it under existing requests).
- `RequestsAreWindowed`: with `AssetShape` (an asset without a window has a timelock
  threshold equal to its maximum per transaction), so that no amount can be both
  above the one and within the other: no request under the policy of
  `register_asset`.
- `RequestsPaidAtMostOnce`: inductive with the types. The execution step needs what
  custody loses in it (`ExecutionPays`), every other step that it pays nothing for the
  request (`OtherRequestsUnpaid`).
- `OutflowsFollowRules`: the action property, from the types, the effect of a payment
  on custody (`PayOutBalance`) and on the window (`PayOutWithinLimits`).
- `ConfigFrozen`: every action that writes a role, the authority or a policy reads
  the flag (`PausedAccess`); a charged outflow leaves the policy alone
  (`ChargedKeepsPolicy`).

`WindowProofs`, for every history of outflows, policy changes and clock values:

- `WindowSpendExact` and `SpanLimited`: neither `WindowSpentIsOutflow` nor
  `SpanSeesTwoWindows` is inductive. `HistoryExact` adds that the history is monotone,
  and flat after the present and after the end of the window: that is why a
  window that starts later begins with exactly nothing spent. `HistoryBounded` adds
  what two windows in a row need: with no window shorter than `w` and no limit
  above `l`, the present window spent at most `l`, and so did the `w` seconds before it
  started, since a single earlier window covers them (`FreshWindow`). The sum of both
  is the bound on any span. The lemmas about histories are arithmetic over any
  function `C`; `RegisterStep`, `UpdateStep` and `ChargeStep` say which of them each
  writer of an asset needs.

`WithdrawalProofs`, about the vault and about `VaultClient` over it:

- `VaultConservesSupply`: `BalanceStep` (a step moves nothing or is an exact transfer
  within a mint). Its consequence `VaultBalancesFit`: two accounts of a mint together
  never exceed u64, so deposits, withdrawals and executions are never refused by the
  overflow check of a destination.
- `VaultKeepsPromise`: `Vault` implements `WithdrawalPromise`. `Ticket(id)` is the
  refinement mapping; `request_withdrawal` is `Announce`, `execute_withdrawal` is `Pay`,
  `cancel_withdrawal` is `Veto`, `withdraw` is `PayAtOnce`, deposits and holders'
  transfers are `HolderMoves`, `register_asset` and `update_limits` are `Adjust`, the
  clock is `Pass`, all others stutter. It needs `RequestIdsContiguous` (a request takes the
  next number) and `RequestsMove` (its amount is not 0: a payment of 0 from custody to
  itself would pass the checks of the code and is not a payment).
- `VetoAlwaysGranted`: for a pending request `cancel_withdrawal` by the guardian is
  equivalent to its assignments. It is what `GuardianCanVeto` says, without `ENABLED`.
- `ClientImplementsVault`: `VaultClient` implements `Vault`; a client's step is a
  `RequestWithdrawal` or a stutter. Everything proved of the vault holds beside any
  number of clients. `ClientKeepsPromise` draws the conclusion for the withdrawal
  promise and the supply.
- `ReturnedIdsAreOwn`: `ReturnedIdIsOwn` is not inductive, because it says nothing of
  the calls whose transaction was executed but that have not returned. `LandedInv`
  says it of those: their ids name their callers' requests (`NamesKept`: a request
  keeps its terms for ever), no two of them have the same id, and none of them
  has an id that was returned already. A transaction lands only at the counter
  (`AccountsMatch`), where no request exists yet, which is what makes its id new.

`ObserverInvariantProofs` and `ObserverProofs`, for any history, number of rows,
page size and sequence of faults. The first proves the
invariant `ObserverInv` and what follows from it directly, the second repair, projections
and the refinement. The conjuncts of `ObserverInv` beside
the types are there for these reasons:

- `GapsAreMissed` needs to know where the next event comes from. `WorkInv`: whatever
  `process_logs` works on, everything before it is settled and its earlier entries
  are stored. In a replay that is `ReplayInv`, which starts from `ListingInv` (the
  listing has not met the checkpoint, and everything before the checkpoint is settled);
  in live operation it comes from `ConnectionInv` and the order of the buffer.
- `SessionAccounted` needs `BufferedAbove(high)` during listing and replay: what was
  finalized after the first page is in the receive buffer.
- `KeepsEventPromise` needs `AnnounceInv`: no event that is not stored was announced,
  and the one whose announcement is due was not.
- `RowsNeverRegress` needs `RowInv`: an absent row has the zero position, before
  every position of an event, because slots count from 1.
- `ProjectionsFollowHistory` needs `HistoryInv`, which adds two facts. `StoredInOrder`:
  what is stored is a beginning of the ledger but for what was missed, so that,
  while nothing is, an event stored for the first time is the last of its account
  (`LastIsNew`). `RowsPlaced`: a row exists once its creating event is stored, at the
  position of a stored event of its own, so that the comparison in the update lets
  the new event through (`RowIsOlder`). An
  event that was stored before changes nothing. No induction over the history is
  needed: the row is compared with the last stored event of each column
  (`LastOf`), not with a recursive fold.
- `ReconciliationRepairs` needs `PassInv`: while it lists, `reconcile` is at least a page
  below where it began; in the replay it has reached the checkpoint or the first
  transaction, and what it has replayed is stored (`FinishedIsStored`), failed or
  skipped.

From it: `ObserverTypeCorrect`, `CheckpointLeavesNoGap`, `SessionLosesNothing`,
`RowsOnlyAdvance` (an action property, from `InsertStep` and `UpdateStep`),
`ReconciliationRepairsPage` (an action property, from `PassInv`),
`ProjectionsAreTheFold` and `ObserverKeepsPromise` (the refinement of `EventLog`: finalizing is `Grow`, a first
`persist` is `Record`, `Announce` is `Announce`, everything else a stutter).

`LogParserProofs`, for any programs, payloads, nesting and length of the log:

- `ParserExact` and `ParserIdentities`, from `ParserInv`. The parser's stack and the
  runtime's are not equal, since messages push on, pop and clear the parser's.
  `Agree` is what survives: IronVault is on neither stack, or on top of both, or
  right below the top of both. A message of another program keeps it, because
  such a program executes only while IronVault is on no stack (IronVault calls
  only programs that call nobody), and because what a message names is not
  IronVault. `Counts` relates the indexes (`misread` is the difference), and
  `Ordered` says that every entry so far precedes the identity the parser would give
  out next, which is the inductive form of `IdentitiesIncrease`.

Only model-checked:

- `EventuallySettled`, `StoredWithinPage` and `ReadyForEverySlot` are liveness
  properties under fairness, out of the prover's reach. The safety cores of the first
  two are proved: that a refund of an expired escrow always succeeds
  (`ExitsArePartitioned`), and that a reconciliation which ends has repaired its pages
  (`ReconciliationRepairsPage`).
- `GuardianCanVeto` uses `ENABLED`, which the prover does not reason about;
  `VetoAlwaysGranted` proves the equivalence it comes down to.

## Not modelled, and why

- Which error an instruction returns, account layout, and the contents of events
  beyond the fields the projections keep changing. `block_time` is among what is
  left out: an event stored from a notification has none, and a replay does not
  fill it in.
- Metrics text, which counter or alert an event belongs to, the lag alert, and the
  comparison of deployment slots (`observer/src/rpc.rs:427-438`): output only. That an
  event is announced at most once is modelled.
- Borsh layout and discriminators (`observer/src/events.rs`): a payload decodes or it
  does not.
- The SDK's other methods and the CLI: each builds one transaction from its
  arguments or from account fields that never change. Address derivation and
  encoding.
- The mock multisig: a harness of the tests. To the vault it is a key that signs,
  and `Keys` may contain such a key.
- The observer's assumptions about the node: signatures are listed and notifications
  delivered in ledger order, a notification's `context.slot` is its transaction's
  slot, an answer of `getSlot` is applied before the next slot is finalized, and a finalized
  transaction stays finalized. About logs: IronVault and the token and system
  programs print no line that reads as an invocation or as the end of one (the
  only message IronVault prints is in `instructions/initialize.rs`), and a truncated
  log is a prefix; a node that drops one line and keeps later ones is not modelled.
- A node that never again has a transaction it lists: `rpc` treats the missing result
  as an error, so reconciliation fails at it every time. It is an endless fault,
  outside the fault bound.
- `initialize`, the dispatch smoke test: it changes nothing.
- Minting, burning, freezing and closing of token accounts; the parsing of a
  Token-2022 extension list (a mint is supported or it is not).
- Several vaults: their accounts are derived from different addresses and they
  share only token accounts.
- The documents describe operations that have no instruction (`set_asset_enabled`,
  `set_vault_guardian`, rotation of the protocol's admin and guardian, delegated
  asset and role management). `enabled` therefore never becomes false and the
  guardian never changes.
- The clock going backwards, and forks: a transaction is taken as final.

## What could follow

- Escrow and vault over one ledger, so that an escrow's recipient may be a vault's
  custody and a withdrawal's destination an escrow's. Each module already lets any
  account send into its custody, which is all the other can do to it.
- An abstract specification of the rolling window that `Vault` implements.
