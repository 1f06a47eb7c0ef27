------------------------------ MODULE Observer ------------------------------
(***************************************************************************)
(* The observer process: it subscribes to the logs of finalized            *)
(* transactions over a WebSocket, reconciles the history over HTTP, and    *)
(* feeds every event to the database of EventStore. A step ends where the  *)
(* code awaits.                                                            *)
(*                                                                         *)
(* The chain is the environment: it finalizes slots, each with some        *)
(* transactions of the program. The process may lose its connection, any   *)
(* RPC or database call may fail, it may crash and be restarted,           *)
(* notifications may be lost and getTransaction may answer without logs.   *)
(***************************************************************************)
EXTENDS EventStore

CONSTANTS
  MaxSlot,             \* the last slot the chain finalizes (bound)
  MaxPerSlot,          \* how many transactions of the program a slot holds (bound)
  PageSize,            \* the limit of getSignaturesForAddress: 1000 in the code
  MaxReadySlotLag,     \* IRONVAULT_MAX_READY_SLOT_LAG
  FaultKinds,          \* the faults that may happen
  MaxFaults            \* how many of them happen (bound)

VARIABLES
  tip,             \* the finalized slot of the chain
  finalized,       \* how many transactions are finalized
  slot_of,         \* the slot of each of them
  at,              \* where run_connection is
  socket,          \* the notifications in the receive buffer; it is in order
  checkpoint,      \* reconcile: the checkpoint signature it read
  low, high,       \* reconcile: it listed low .. high so far; low is `before`
  skipped,         \* history: what this reconciliation got no logs for
  tx, item,        \* process_logs: the transaction and the entry it is at
  fresh,           \* process_logs: persist returned true for that entry
  connected, reconciled, observed_slot, rpc_slot,   \* SyncStatus
  announced,       \* history: how often record_event and the alert saw an event
  missed,          \* history: the transactions whose delivery was lost or skipped
  faults           \* how many faults happened

chainVars == <<tip, finalized, slot_of>>
listVars == <<checkpoint, low, high, skipped>>
workVars == <<tx, item, fresh>>
statusVars == <<connected, reconciled, observed_slot, rpc_slot>>
historyVars == <<announced, missed, faults>>
observerVars == <<storeVars, chainVars, at, socket, listVars, workVars,
                  statusVars, historyVars>>

Faults == {"lost", "skipped", "error", "crash"}

ASSUME ObserverAssumption ==
  /\ MaxSlot \in Nat /\ MaxPerSlot \in Nat /\ MaxReadySlotLag \in Nat
  /\ PageSize \in Nat \ {0}
  /\ FaultKinds \subseteq Faults /\ MaxFaults \in Nat

ObserverTypeOK ==
  /\ StoreTypeOK
  /\ tip \in 0 .. MaxSlot
  /\ finalized \in 0 .. Transactions
  /\ slot_of \in [Signatures -> 0 .. MaxSlot]
  /\ at \in {"offline", "checkpoint", "listing", "replay", "slot", "live"}
  /\ socket \subseteq 1 .. finalized
  /\ checkpoint \in 0 .. Transactions
  /\ low \in 0 .. Transactions + 1 /\ high \in 0 .. finalized
  /\ skipped \subseteq Signatures
  /\ tx \in 0 .. Transactions + 1 /\ item \in Nat /\ fresh \in BOOLEAN
  /\ connected \in BOOLEAN /\ reconciled \in BOOLEAN
  /\ observed_slot \in 0 .. tip /\ rpc_slot \in 0 .. tip
  /\ announced \in [EventIds -> Nat]
  /\ missed \subseteq Signatures
  /\ faults \in 0 .. MaxFaults

ObserverInit ==
  /\ StoreInit
  /\ tip = 0 /\ finalized = 0 /\ slot_of = [k \in Signatures |-> 0]
  /\ at = "offline" /\ socket = {}
  /\ checkpoint = 0 /\ low = 0 /\ high = 0 /\ skipped = {}
  /\ tx = 0 /\ item = 0 /\ fresh = FALSE
  /\ connected = FALSE /\ reconciled = FALSE
  /\ observed_slot = 0 /\ rpc_slot = 0
  /\ announced = [id \in EventIds |-> 0]
  /\ missed = {}
  /\ faults = 0

-----------------------------------------------------------------------------
(***************************************************************************)
(* The environment.                                                        *)
(***************************************************************************)

(* Variant: logs are subscribed to only after the reconciliation. *)
SubscribedWhenLive == at = "live"

(* logsSubscribe is acknowledged before anything else happens. *)
Subscribed == at # "offline"

(* The next slot is finalized with n transactions of the program; the node *)
(* notifies every subscriber of them.                                      *)
FinalizeSlot(n) ==
  LET new == finalized + 1 .. finalized + n
  IN  /\ tip < MaxSlot /\ finalized + n <= Transactions
      /\ tip' = tip + 1
      /\ finalized' = finalized + n
      /\ slot_of' = [k \in Signatures |-> IF k \in new THEN tip + 1 ELSE slot_of[k]]
      /\ socket' = IF Subscribed THEN socket \cup new ELSE socket
      /\ UNCHANGED <<storeVars, at, listVars, workVars, statusVars, historyVars>>

Fault(kind) ==
  /\ kind \in FaultKinds /\ faults < MaxFaults
  /\ faults' = faults + 1

(* A notification never arrives. *)
LoseNotification(k) ==
  /\ k \in socket
  /\ Fault("lost")
  /\ socket' = socket \ {k}
  /\ missed' = missed \cup {k}
  /\ UNCHANGED <<storeVars, chainVars, at, listVars, workVars, statusVars, announced>>

-----------------------------------------------------------------------------
(***************************************************************************)
(* run_connection.                                                         *)
(***************************************************************************)

(* Connect and subscribe. *)
Connect ==
  /\ at = "offline"
  /\ at' = "checkpoint"
  /\ socket' = {}
  /\ connected' = TRUE /\ reconciled' = FALSE
  /\ UNCHANGED <<storeVars, chainVars, listVars, workVars, observed_slot, rpc_slot,
                 historyVars>>

(* reconcile: the checkpoint is read once, before the listing. *)
ReadCheckpoint ==
  /\ at = "checkpoint"
  /\ at' = "listing"
  /\ checkpoint' = sync_checkpoint.signature
  /\ low' = 0 /\ high' = 0 /\ skipped' = {}
  /\ UNCHANGED <<storeVars, chainVars, socket, workVars, statusVars, historyVars>>

(* The newest signature the next page holds: `before` is absent at first.  *)
Newest == IF low = 0 THEN finalized ELSE low - 1

(* Variant: a page always has the full size. *)
OldestOfFullPage == Newest - PageSize + 1

Oldest == IF Newest < PageSize THEN 1 ELSE Newest - PageSize + 1

(* Variant: the listing stops at the first page. *)
LastPageIsFirst == TRUE

(* The page holds the checkpoint, or it is not full. *)
LastPage == checkpoint \in Oldest .. Newest \/ Newest < PageSize

(* One getSignaturesForAddress call. The whole page is kept; after the     *)
(* last one the signatures are replayed from the oldest.                   *)
ListPage ==
  /\ at = "listing"
  /\ high' = IF low = 0 THEN finalized ELSE high
  /\ low' = Oldest
  /\ at' = IF LastPage THEN "replay" ELSE "listing"
  /\ tx' = IF LastPage THEN Oldest ELSE 0
  /\ UNCHANGED <<storeVars, chainVars, socket, checkpoint, skipped, item, fresh,
                 statusVars, historyVars>>

(* Variant: only what is newer than the checkpoint is fetched. *)
FetchTransactionNewer ==
  /\ at = "replay" /\ item = 0 /\ tx <= high
  /\ IF tx \in Failed \/ tx < checkpoint
     THEN tx' = tx + 1 /\ item' = 0
     ELSE tx' = tx /\ item' = 1
  /\ UNCHANGED <<storeVars, chainVars, at, socket, listVars, fresh, statusVars,
                 historyVars>>

(* getTransaction of the next listed signature, unless its entry has err. *)
FetchTransaction ==
  /\ at = "replay" /\ item = 0 /\ tx <= high
  /\ IF tx \in Failed THEN tx' = tx + 1 /\ item' = 0 ELSE tx' = tx /\ item' = 1
  /\ UNCHANGED <<storeVars, chainVars, at, socket, listVars, fresh, statusVars,
                 historyVars>>

(* The node answers without metadata or without logs: skipped. (An answer  *)
(* without the transaction is an error: rpc finds no result in it.)        *)
SkipTransaction ==
  /\ at = "replay" /\ item = 0 /\ tx <= high /\ tx \notin Failed
  /\ Fault("skipped")
  /\ tx' = tx + 1
  /\ missed' = missed \cup {tx}
  /\ skipped' = skipped \cup {tx}
  /\ UNCHANGED <<storeVars, chainVars, at, socket, checkpoint, low, high, item, fresh,
                 statusVars, announced>>

FinishReplay ==
  /\ at = "replay" /\ item = 0 /\ tx > high
  /\ at' = "slot"
  /\ tx' = 0
  /\ checkpoint' = 0 /\ low' = 0 /\ high' = 0 /\ skipped' = {}
  /\ UNCHANGED <<storeVars, chainVars, socket, item, fresh, statusVars, historyVars>>

Larger(a, b) == IF a > b THEN a ELSE b

(* Variant: only notifications advance the observed slot. *)
ReadSlotUnobserved ==
  /\ at = "slot"
  /\ at' = "live"
  /\ reconciled' = TRUE
  /\ rpc_slot' = tip
  /\ UNCHANGED <<storeVars, chainVars, socket, listVars, workVars, connected,
                 observed_slot, historyVars>>

(* reconcile_to_finalized_slot: getSlot after the replay. *)
ReadSlot ==
  /\ at = "slot"
  /\ at' = "live"
  /\ reconciled' = TRUE
  /\ rpc_slot' = tip
  /\ observed_slot' = Larger(observed_slot, tip)
  /\ UNCHANGED <<storeVars, chainVars, socket, listVars, workVars, connected,
                 historyVars>>

(* A notification is read, the oldest first; a failed transaction is       *)
(* skipped after its slot was noted.                                       *)
HandleMessage(k) ==
  /\ at = "live" /\ item = 0
  /\ k \in socket /\ \A j \in socket : k <= j
  /\ socket' = socket \ {k}
  /\ observed_slot' = Larger(observed_slot, slot_of[k])
  /\ IF k \in Failed THEN UNCHANGED <<tx, item>> ELSE tx' = k /\ item' = 1
  /\ UNCHANGED <<storeVars, chainVars, at, listVars, fresh, connected, reconciled,
                 rpc_slot, historyVars>>

(* Variant: the interval refreshes the slot and reconciles nothing. *)
ReconciliationTickSlotOnly ==
  /\ at = "live" /\ item = 0
  /\ at' = "slot"
  /\ UNCHANGED <<storeVars, chainVars, socket, listVars, workVars, statusVars,
                 historyVars>>

(* The interval of 30 seconds elapses. *)
ReconciliationTick ==
  /\ at = "live" /\ item = 0
  /\ at' = "checkpoint"
  /\ UNCHANGED <<storeVars, chainVars, socket, listVars, workVars, statusVars,
                 historyVars>>

-----------------------------------------------------------------------------
(***************************************************************************)
(* process_logs, entry by entry.                                           *)
(***************************************************************************)

Entry == Parsed[tx][item]

AtEntry == item \in DOMAIN Parsed[tx]

SkipUndecodable ==
  /\ item > 0 /\ AtEntry /\ ~Entry.ok
  /\ item' = item + 1
  /\ UNCHANGED <<storeVars, chainVars, at, socket, listVars, tx, fresh, statusVars,
                 historyVars>>

(* Variant: every replay of an event is announced. *)
PersistAnnouncesAll ==
  /\ item > 0 /\ AtEntry /\ Entry.ok /\ ~fresh
  /\ persist(tx, Entry, slot_of[tx])
  /\ fresh' = TRUE /\ item' = item
  /\ UNCHANGED <<chainVars, at, socket, listVars, tx, statusVars, historyVars>>

Persist ==
  /\ item > 0 /\ AtEntry /\ Entry.ok /\ ~fresh
  /\ persist(tx, Entry, slot_of[tx])
  /\ IF EventId(tx, Entry) \in protocol_events
     THEN fresh' = FALSE /\ item' = item + 1
     ELSE fresh' = TRUE /\ item' = item
  /\ UNCHANGED <<chainVars, at, socket, listVars, tx, statusVars, historyVars>>

(* record_event and the alert, once the database transaction committed. *)
Announce ==
  /\ item > 0 /\ AtEntry /\ fresh
  /\ announced' = [announced EXCEPT ![EventId(tx, Entry)] = @ + 1]
  /\ fresh' = FALSE /\ item' = item + 1
  /\ UNCHANGED <<storeVars, chainVars, at, socket, listVars, tx, statusVars, missed,
                 faults>>

FinishTransaction ==
  /\ item > 0 /\ ~AtEntry
  /\ item' = 0
  /\ tx' = IF at = "replay" THEN tx + 1 ELSE 0
  /\ UNCHANGED <<storeVars, chainVars, at, socket, listVars, fresh, statusVars,
                 historyVars>>

-----------------------------------------------------------------------------

(* Everything run_connection held is dropped. *)
Disconnect ==
  /\ at' = "offline" /\ socket' = {}
  /\ checkpoint' = 0 /\ low' = 0 /\ high' = 0 /\ skipped' = {}
  /\ tx' = 0 /\ item' = 0 /\ fresh' = FALSE
  /\ connected' = FALSE

(* run: an error of the socket, of an RPC or of the database ends the      *)
(* connection; the loop connects again.                                    *)
ConnectionError ==
  /\ at # "offline"
  /\ Fault("error")
  /\ Disconnect
  /\ UNCHANGED <<storeVars, chainVars, reconciled, observed_slot, rpc_slot,
                 announced, missed>>

(* The process dies and is started again: only the database is left. *)
Crash ==
  /\ Fault("crash")
  /\ Disconnect
  /\ reconciled' = FALSE /\ observed_slot' = 0 /\ rpc_slot' = 0
  /\ UNCHANGED <<storeVars, chainVars, announced, missed>>

(* monitor_rpc_slot, a task of its own. *)
MonitorSlot ==
  /\ rpc_slot' = tip
  /\ UNCHANGED <<storeVars, chainVars, at, socket, listVars, workVars, connected,
                 reconciled, observed_slot, historyVars>>

(* The steps of run: the runtime schedules the task as long as it lives. *)
ObserverStep ==
  \/ Connect \/ ReadCheckpoint \/ ListPage
  \/ FetchTransaction \/ FinishReplay \/ ReadSlot
  \/ \E k \in socket : HandleMessage(k)
  \/ ReconciliationTick
  \/ SkipUndecodable \/ Persist \/ Announce \/ FinishTransaction

ObserverNext ==
  \/ \E n \in 0 .. MaxPerSlot : FinalizeSlot(n)
  \/ ObserverStep
  \/ MonitorSlot
  \/ \E k \in socket : LoseNotification(k)
  \/ SkipTransaction
  \/ ConnectionError
  \/ Crash

ObserverSpec == ObserverInit /\ [][ObserverNext]_observerVars

ObserverFairSpec == ObserverSpec /\ WF_observerVars(ObserverStep)

-----------------------------------------------------------------------------
(***************************************************************************)
(* Properties.                                                             *)
(***************************************************************************)

(* Nothing is left to store of the transaction, or its delivery failed in  *)
(* a way the process could not see.                                        *)
Settled(k) == k \in Failed \/ k \in missed \/ Stored(k)

(* The checkpoint never runs ahead of the history: whatever crashed or     *)
(* failed between two events, every transaction before the checkpoint's is *)
(* completely stored, unless its notification was lost or getTransaction   *)
(* had no logs for it. reconcile, which stops at the checkpoint's page,    *)
(* rests on it.                                                            *)
GapsAreMissed ==
  \A k \in 1 .. finalized : k < sync_checkpoint.signature => Settled(k)

(* Subscribing before reconciling leaves no race: once a connection is     *)
(* reconciled, every finalized transaction is stored, waiting in the       *)
(* receive buffer or being processed, unless its delivery was lost.        *)
SessionAccounted ==
  connected /\ reconciled =>
    \A k \in 1 .. finalized : Settled(k) \/ k \in socket \/ (item > 0 /\ k = tx)

(* A reconciliation that ends has stored, of what was finalized when it    *)
(* began, everything from the checkpoint on and in any case the newest     *)
(* page, also what a lost notification or a crash had left behind below    *)
(* the checkpoint; only what getTransaction gave it no logs for is left.   *)
ReconciliationRepairs ==
  [][at = "replay" /\ at' = "slot" =>
       \A k \in (1 .. high) \ Failed :
         k >= checkpoint \/ k + PageSize > high =>
           Stored(k) \/ k \in skipped]_observerVars

(* No step takes a row away or moves it to a position that is not newer,   *)
(* whatever older history is replayed or arrives late.                     *)
RowsNeverRegress ==
  [][\A s \in Subjects :
       projections'[s] # projections[s] =>
         Before(projections[s].last, projections'[s].last)]_observerVars

(* The stored events of a row under one of the given names, and the last   *)
(* of them in the order of the ledger.                                     *)
StoredOf(s, names) ==
  {x \in Entries :
     /\ EventId(x[1], EntryAt(x)) \in protocol_events
     /\ EntryAt(x).event.subject = s /\ EntryAt(x).event.name \in names}

LastOf(s, names) ==
  LET stored == StoredOf(s, names)
  IN  EntryAt(CHOOSE x \in stored : \A y \in stored : y = x \/ Earlier(y, x)).event

(* The row holds what the stored events say: every column is what the last *)
(* event that sets it set.                                                 *)
RowFollows(s) ==
  LET row == projections[s]
      Happened(names) == StoredOf(s, names) # {}
  IN  IF ~Happened(Inserting) THEN row.status = "absent"
      ELSE /\ row.status = IF Happened(DOMAIN FinalStatus)
                          THEN FinalStatus[LastOf(s, DOMAIN FinalStatus).name]
                          ELSE FirstStatus[LastOf(s, Inserting).name]
           /\ row.authority =
                LastOf(s, Inserting \cup {"VaultAuthorityUpdated"}).authority
           /\ row.paused = (/\ Happened({"VaultPauseUpdated"})
                            /\ LastOf(s, {"VaultPauseUpdated"}).paused)

(* The positions projections are compared by follow the ledger: false when *)
(* two transactions of one slot hold events at the same indexes.           *)
PositionOf(k, i) ==
  <<slot_of[k], Parsed[k][i].instruction_index, Parsed[k][i].event_index>>

PositionsFollowLedger ==
  \A j, k \in 1 .. finalized : \A a \in Decoded(j), b \in Decoded(k) :
    j < k /\ Parsed[j][a].event.subject = Parsed[k][b].event.subject =>
      Before(PositionOf(j, a), PositionOf(k, b))

(* As long as no delivery was lost, the projections are at every moment    *)
(* the fold of the stored events, through crashes inside a transaction and *)
(* replays, whenever positions follow the ledger.                          *)
ProjectionsFollowHistory ==
  missed = {} /\ PositionsFollowLedger => \A s \in Subjects : RowFollows(s)

(* Once every finalized event is stored, the projections are what a        *)
(* rebuild from the history yields.                                        *)
ReadModelApplied ==
  (\A k \in (1 .. finalized) \ Failed : Stored(k)) => \A s \in Subjects : RowFollows(s)

(* The finalized events, which the observer can know of. *)
Known ==
  UNION {{EventId(k, Parsed[k][i]) : i \in Decoded(k)} :
           k \in (1 .. finalized) \ Failed}

Promise ==
  INSTANCE EventLog WITH
    Ids <- EventIds, known <- Known, log <- protocol_events, told <- announced

(* The observer implements the promised event log: at-least-once delivery  *)
(* becomes exactly one stored row per event identity, and at most one      *)
(* announcement, across replays, reconnections and crashes.                *)
KeepsEventPromise == Promise!Spec

(* The observer catches up again and again: every finalized transaction is *)
(* stored even if its notification was lost, except when a page of newer   *)
(* ones was finalized first. The periodic reconciliation sees to it.       *)
StoredWithinPage ==
  []<>(\A k \in (1 .. finalized) \ Failed : Stored(k) \/ finalized >= k + PageSize)

(* readyz, with the database up. *)
Ready ==
  connected /\ reconciled /\ rpc_slot - observed_slot <= MaxReadySlotLag

(* Of every slot the chain reaches (the tip never goes back): again and    *)
(* again the observer is ready and has observed that slot, after every     *)
(* fault, however the chain moves on, and even if the slot holds no        *)
(* transaction of the program. In between readyz may fail.                 *)
ReadyForEverySlot ==
  \A s \in 0 .. MaxSlot : []<>(tip >= s) => []<>(Ready /\ observed_slot >= s)

(* A finalized transaction is stored in the end: the periodic              *)
(* reconciliation repairs every missed notification.                       *)
EventuallyStored ==
  \A k \in Signatures \ Failed : (k <= finalized) ~> Stored(k)

=============================================================================
