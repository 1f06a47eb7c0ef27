----------------------------- MODULE EventStore -----------------------------
(***************************************************************************)
(* The observer's database: the event history, the projections built from  *)
(* it, the checkpoint, and the one operation that writes them. A database  *)
(* transaction is one step: it commits or leaves no trace.                 *)
(*                                                                         *)
(* The rows of the three projection tables (escrows, vaults,               *)
(* withdrawal_requests) are kept in one function, by address; of a row the *)
(* columns that ever change are kept.                                      *)
(***************************************************************************)
EXTENDS Integers, Sequences

CONSTANTS
  Subjects,       \* the addresses of escrows, vaults and withdrawal requests
  Authorities,    \* the keys that hold a vault
  Transactions,   \* how many transactions the chain ever finalizes (bound)
  Failed,         \* the ones that fail: they emit nothing
  Parsed          \* what extract_events makes of the logs of each of them

VARIABLES
  protocol_events,   \* the stored events, by primary key
  projections,       \* the row of every subject
  sync_checkpoint    \* the newest committed event position and its transaction

storeVars == <<protocol_events, projections, sync_checkpoint>>

(* The event that creates a row, and the status it starts with. *)
FirstStatus ==
  [EscrowCreated |-> "funded", VaultCreated |-> "open",
   WithdrawalRequested |-> "pending"]

(* The events that end an escrow or a request. *)
FinalStatus ==
  [EscrowReleased |-> "released", EscrowRefunded |-> "refunded",
   WithdrawalExecuted |-> "executed", WithdrawalCancelled |-> "cancelled"]

Inserting == DOMAIN FirstStatus
Updating == DOMAIN FinalStatus \cup {"VaultAuthorityUpdated", "VaultPauseUpdated"}

(* The events apply_projection has a case for, and the pause of the        *)
(* protocol, which has no row; "Other" stands for the rest.                *)
EventNames == Inserting \cup Updating \cup {"ProtocolPauseUpdated", "Other"}

IronVaultEvent ==
  [name : EventNames, subject : Subjects, authority : Authorities,
   paused : BOOLEAN]

(* One entry of the list extract_events returns: an event, or an error     *)
(* (then nothing of it is used).                                           *)
ObservedEvent ==
  [ok : BOOLEAN, instruction_index : Nat, event_index : Nat,
   event : IronVaultEvent]

(* Transactions are numbered in the order of the ledger: the number of a   *)
(* transaction stands for its signature.                                   *)
Signatures == 1 .. Transactions

ASSUME StoreAssumption ==
  /\ Authorities # {}
  /\ Transactions \in Nat
  /\ Failed \subseteq Signatures
  /\ Parsed \in [Signatures -> Seq(ObservedEvent)]

Position == Nat \X Nat \X Nat

(* EventId, the primary key of protocol_events. *)
EventId(k, entry) == <<k, entry.instruction_index, entry.event_index>>

Statuses ==
  {"absent", "funded", "open", "pending", "released", "refunded", "executed",
   "cancelled"}

Row ==
  [status : Statuses, authority : Authorities, paused : BOOLEAN, last : Position]

(* A row that does not exist has status "absent", a checkpoint that does   *)
(* not exist signature 0 and a position before every other: slots start    *)
(* at 1.                                                                   *)
NoRow ==
  [status |-> "absent", authority |-> CHOOSE a \in Authorities : TRUE,
   paused |-> FALSE, last |-> <<0, 0, 0>>]

NoCheckpoint == [signature |-> 0, position |-> <<0, 0, 0>>]

StoreInit ==
  /\ protocol_events = {}
  /\ projections = [s \in Subjects |-> NoRow]
  /\ sync_checkpoint = NoCheckpoint

-----------------------------------------------------------------------------

(* Row comparison of (slot, instruction_index, event_index) in SQL. *)
Before(p, q) ==
  \/ p[1] < q[1]
  \/ p[1] = q[1] /\ p[2] < q[2]
  \/ p[1] = q[1] /\ p[2] = q[2] /\ p[3] < q[3]

(* INSERT ... ON CONFLICT DO NOTHING *)
InsertRow(row, e, position) ==
  IF row.status = "absent"
  THEN [status |-> FirstStatus[e.name], authority |-> e.authority,
        paused |-> FALSE, last |-> position]
  ELSE row

(* What an UPDATE sets. *)
Changed(row, e, position) ==
  [status |-> IF e.name \in DOMAIN FinalStatus THEN FinalStatus[e.name]
              ELSE row.status,
   authority |-> IF e.name = "VaultAuthorityUpdated" THEN e.authority
                 ELSE row.authority,
   paused |-> IF e.name = "VaultPauseUpdated" THEN e.paused ELSE row.paused,
   last |-> position]

(* Variant: only the slots are compared. *)
UpdateRowBySlot(row, e, position) ==
  IF row.status # "absent" /\ row.last[1] < position[1]
  THEN Changed(row, e, position)
  ELSE row

(* Variant: the update is not guarded by the position of the row. *)
UpdateRowAlways(row, e, position) ==
  IF row.status # "absent" THEN Changed(row, e, position) ELSE row

(* UPDATE ... WHERE the row exists and its position is older *)
UpdateRow(row, e, position) ==
  IF row.status # "absent" /\ Before(row.last, position)
  THEN Changed(row, e, position)
  ELSE row

(* apply_projection: an event without a case changes no row *)
apply_projection(e, position) ==
  [projections EXCEPT ![e.subject] =
     IF e.name \in Inserting THEN InsertRow(@, e, position)
     ELSE IF e.name \in Updating THEN UpdateRow(@, e, position)
     ELSE @]

(* update_checkpoint: forward only *)
update_checkpoint(k, position) ==
  IF Before(sync_checkpoint.position, position)
  THEN [signature |-> k, position |-> position]
  ELSE sync_checkpoint

(* persist: the event, its projection and the checkpoint in one database   *)
(* transaction. The projection is touched only if the event is new.        *)
persist(k, entry, slot) ==
  LET id == EventId(k, entry)
      position == <<slot, entry.instruction_index, entry.event_index>>
  IN  /\ protocol_events' = protocol_events \cup {id}
      /\ projections' = IF id \in protocol_events THEN projections
                        ELSE apply_projection(entry.event, position)
      /\ sync_checkpoint' = update_checkpoint(k, position)

-----------------------------------------------------------------------------

(* The entries of a transaction that are stored. *)
Decoded(k) ==
  {i \in DOMAIN Parsed[k] : Parsed[k][i].ok}

(* All of them, by transaction and rank, and the order of the ledger. *)
Entries == UNION {{k} \X Decoded(k) : k \in Signatures}

EntryAt(x) == Parsed[x[1]][x[2]]

Earlier(x, y) == x[1] < y[1] \/ (x[1] = y[1] /\ x[2] < y[2])

(* What the parser and the programs make sure of. The identities of a      *)
(* transaction increase along its log. The accounts of escrows, vaults and *)
(* requests are created once (init, at an address of their own) and never  *)
(* closed: no event of an account precedes the one that creates it.        *)
ASSUME HistoryAssumption ==
  /\ \A k \in Signatures : \A i, j \in DOMAIN Parsed[k] :
       i < j => \/ Parsed[k][i].instruction_index < Parsed[k][j].instruction_index
                \/ /\ Parsed[k][i].instruction_index = Parsed[k][j].instruction_index
                   /\ Parsed[k][i].event_index < Parsed[k][j].event_index
  /\ \A x, y \in {entry \in Entries : entry[1] \notin Failed} :
       /\ Earlier(x, y) /\ EntryAt(x).event.subject = EntryAt(y).event.subject
       /\ EntryAt(x).event.name \in Inserting \cup Updating
       => EntryAt(y).event.name \notin Inserting

EventIds ==
  UNION {{EventId(k, Parsed[k][i]) : i \in Decoded(k)} : k \in Signatures}

Stored(k) ==
  \A i \in Decoded(k) : EventId(k, Parsed[k][i]) \in protocol_events

StoreTypeOK ==
  /\ protocol_events \subseteq EventIds
  /\ projections \in [Subjects -> Row]
  /\ sync_checkpoint \in [signature : 0 .. Transactions, position : Position]

=============================================================================
