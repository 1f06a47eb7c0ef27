---------------------- MODULE ObserverInvariantProofs -----------------------
(***************************************************************************)
(* The inductive invariant of Observer: that every step of the             *)
(* environment, of run_connection and of process_logs keeps it, for any    *)
(* history, page size and number of faults, and what follows from it.      *)
(***************************************************************************)
EXTENDS Observer, TLAPS

(* Every finalized transaction is settled, waits in the receive buffer, or *)
(* is the one being processed.                                             *)
Accounted ==
  \A k \in 1 .. finalized : Settled(k) \/ k \in socket \/ (item > 0 /\ k = tx)

SettledBelow(n) == \A k \in 1 .. finalized : k < n => Settled(k)

(* What was finalized after the listing began is in the receive buffer. *)
BufferedAbove(n) == \A k \in 1 .. finalized : k > n => Settled(k) \/ k \in socket

(* Once a connection is reconciled, nothing escapes it. *)
ConnectionInv ==
  /\ connected => at # "offline"
  /\ at \in {"slot", "live"} \/ (connected /\ reconciled) => Accounted

(* reconcile has listed everything above low, and has not met the          *)
(* checkpoint yet.                                                         *)
ListingInv ==
  at = "listing" =>
    /\ checkpoint <= finalized /\ SettledBelow(checkpoint)
    /\ low # 0 => checkpoint < low /\ low <= high + 1 /\ BufferedAbove(high)

(* reconcile replays from the oldest listed transaction up to high. *)
ReplayInv ==
  at = "replay" =>
    tx >= 1 /\ tx <= high + 1 /\ SettledBelow(tx) /\ BufferedAbove(high)

(* process_logs works on a successful transaction, everything before it is *)
(* settled, and its entries before the current one are stored.             *)
WorkInv ==
  item > 0 =>
    /\ at \in {"replay", "live"}
    /\ at = "replay" => tx <= high
    /\ tx \in (1 .. finalized) \ Failed /\ SettledBelow(tx)
    /\ \A i \in Decoded(tx) : i < item => EventId(tx, Parsed[tx][i]) \in protocol_events

(* An event is announced only after it was stored, and not yet while its   *)
(* announcement is due.                                                    *)
AnnounceInv ==
  /\ \A id \in EventIds \ protocol_events : announced[id] = 0
  /\ fresh => /\ item > 0 /\ AtEntry /\ Entry.ok
              /\ EventId(tx, Entry) \in protocol_events
              /\ announced[EventId(tx, Entry)] = 0

(* Rows and slots count from 1, so that a row's position tells whether it  *)
(* exists.                                                                 *)
RowInv ==
  /\ \A k \in 1 .. finalized : slot_of[k] \in 1 .. tip
  /\ \A s \in Subjects :
       projections[s].status = "absent" => projections[s].last = <<0, 0, 0>>

ObserverInv ==
  /\ ObserverTypeOK
  /\ sync_checkpoint.signature <= finalized
  /\ GapsAreMissed
  /\ ConnectionInv /\ ListingInv /\ ReplayInv /\ WorkInv /\ AnnounceInv /\ RowInv

-----------------------------------------------------------------------------

(* What a step that leaves the database, the chain and the histories alone *)
(* leaves true.                                                            *)
LEMMA Frame ==
  ASSUME UNCHANGED <<storeVars, chainVars, announced, missed>>
  PROVE  /\ \A k : Settled(k)' = Settled(k)
         /\ GapsAreMissed' = GapsAreMissed
         /\ RowInv' = RowInv
         /\ StoreTypeOK' = StoreTypeOK
  BY DEF storeVars, chainVars, Settled, Stored, GapsAreMissed, RowInv, StoreTypeOK

(* With no entry in hand there is nothing process_logs has to answer for. *)
LEMMA NothingInHand ==
  ASSUME item' = 0
  PROVE  WorkInv'
<1>1. ~(0 > 0)
  OBVIOUS
<1>2. QED
  BY <1>1, Zenon DEF WorkInv

(* A finalized transaction is one of the history.                          *)
LEMMA FinalizedIsListed ==
  ASSUME ObserverInv
  PROVE  /\ finalized \in Nat /\ Transactions \in Nat /\ finalized <= Transactions
         /\ \A k \in 1 .. finalized : k \in Signatures
<1>1. finalized \in 0 .. Transactions /\ Transactions \in Nat
  BY StoreAssumption, Zenon DEF ObserverInv, ObserverTypeOK
<1>2. QED
  BY <1>1 DEF Signatures

(* Zero, the value of every cursor between two uses, has the type of each. *)
LEMMA ZeroIsTyped ==
  ASSUME ObserverInv
  PROVE  /\ 0 \in 0 .. Transactions /\ 0 \in 0 .. Transactions + 1
         /\ 0 \in 0 .. finalized /\ 0 \in 0 .. tip /\ 0 \in Nat /\ 1 \in Nat
<1>1. /\ finalized \in 0 .. Transactions /\ Transactions \in Nat
      /\ tip \in 0 .. MaxSlot /\ MaxSlot \in Nat
  BY StoreAssumption, ObserverAssumption, Zenon DEF ObserverInv, ObserverTypeOK
<1>2. QED
  BY <1>1

(* A fault counted within its bound stays within it. *)
LEMMA FaultIsTyped ==
  ASSUME ObserverInv, faults < MaxFaults
  PROVE  faults + 1 \in 0 .. MaxFaults
<1>1. faults \in 0 .. MaxFaults /\ MaxFaults \in Nat
  BY ObserverAssumption, Zenon DEF ObserverInv, ObserverTypeOK
<1>2. QED
  BY <1>1

(* The numbers up to the next one. *)
LEMMA UpToNext ==
  ASSUME NEW n \in Nat, NEW i \in Nat, i < n + 1
  PROVE  i < n \/ i = n
  OBVIOUS

(* The entries of a transaction that decode are numbered from 1. *)
LEMMA DecodedNumbers ==
  ASSUME NEW k \in Signatures
  PROVE  /\ Parsed[k] \in Seq(ObservedEvent)
         /\ \A i \in Decoded(k) : i \in Nat /\ i >= 1 /\ i <= Len(Parsed[k])
<1>1. Parsed[k] \in Seq(ObservedEvent)
  BY StoreAssumption, Zenon
<1>2. QED
  BY <1>1 DEF Decoded

-----------------------------------------------------------------------------
(***************************************************************************)
(* The environment.                                                        *)
(***************************************************************************)

(* A finalized slot adds transactions that every subscriber hears of. *)
LEMMA FinalizeSlotStep ==
  ASSUME ObserverInv, NEW n \in 0 .. MaxPerSlot, FinalizeSlot(n)
  PROVE  ObserverInv'
<1> DEFINE new == finalized + 1 .. finalized + n
<1>1. /\ n \in Nat /\ finalized \in Nat /\ finalized' = finalized + n
      /\ finalized' \in 0 .. Transactions
      /\ tip' = tip + 1 /\ tip' \in 1 .. MaxSlot
      /\ UNCHANGED <<storeVars, at, listVars, workVars, statusVars, historyVars>>
      /\ slot_of' = [k \in Signatures |-> IF k \in new THEN tip + 1 ELSE slot_of[k]]
      /\ socket' = IF at # "offline" THEN socket \cup new ELSE socket
  BY ObserverAssumption, StoreAssumption
     DEF FinalizeSlot, ObserverInv, ObserverTypeOK, Subscribed
<1>2. /\ \A k : Settled(k)' = Settled(k)
      /\ 1 .. finalized' = (1 .. finalized) \cup new
      /\ \A k \in new : k > finalized
  BY <1>1 DEF Settled, Stored, storeVars, historyVars
<1> HIDE DEF new
<1>3. ObserverTypeOK'
  <2>1. StoreTypeOK'
    BY <1>1 DEF ObserverInv, ObserverTypeOK, StoreTypeOK, storeVars
  <2>2. slot_of' \in [Signatures -> 0 .. MaxSlot]
    BY <1>1 DEF ObserverInv, ObserverTypeOK
  <2>3. socket' \subseteq 1 .. finalized'
    BY <1>1, <1>2, Zenon DEF ObserverInv, ObserverTypeOK
  <2>4. /\ high' \in 0 .. finalized'
        /\ observed_slot' \in 0 .. tip' /\ rpc_slot' \in 0 .. tip'
    BY <1>1 DEF ObserverInv, ObserverTypeOK, listVars, statusVars
  <2>5. QED
    BY <1>1, <2>1, <2>2, <2>3, <2>4
       DEF ObserverInv, ObserverTypeOK, listVars, workVars, statusVars, historyVars
<1>4. (sync_checkpoint.signature <= finalized)' /\ GapsAreMissed'
  BY <1>1, <1>2 DEF ObserverInv, ObserverTypeOK, StoreTypeOK, storeVars, GapsAreMissed
<1>5. ConnectionInv'
  BY <1>1, <1>2, Zenon DEF ObserverInv, ConnectionInv, Accounted, workVars, statusVars
<1>6. ListingInv'
  BY <1>1, <1>2
     DEF ObserverInv, ObserverTypeOK, ListingInv, SettledBelow, BufferedAbove, listVars
<1>7. ReplayInv'
  BY <1>1, <1>2
     DEF ObserverInv, ObserverTypeOK, ReplayInv, SettledBelow, BufferedAbove, listVars,
         workVars
<1>8. WorkInv'
  BY <1>1, <1>2
     DEF ObserverInv, ObserverTypeOK, WorkInv, SettledBelow, listVars, workVars,
         storeVars
<1>9. AnnounceInv'
  BY <1>1, Zenon DEF ObserverInv, AnnounceInv, AtEntry, Entry, storeVars, workVars, historyVars
<1>10. RowInv'
  <2>1. \A k \in 1 .. finalized' : slot_of'[k] \in 1 .. tip'
    <3>1. SUFFICES ASSUME NEW k \in 1 .. finalized'
          PROVE  slot_of'[k] \in 1 .. tip'
      OBVIOUS
    <3>2. k \in Signatures
      BY <1>1, StoreAssumption DEF Signatures
    <3>3. k \notin new => slot_of[k] \in 1 .. tip
      BY <1>2 DEF ObserverInv, RowInv
    <3>4. QED
      BY <1>1, <3>2, <3>3 DEF ObserverInv, ObserverTypeOK
  <2>2. QED
    BY <1>1, <2>1 DEF ObserverInv, RowInv, storeVars
<1>11. QED
  BY <1>3, <1>4, <1>5, <1>6, <1>7, <1>8, <1>9, <1>10 DEF ObserverInv

(* A lost notification is a missed delivery. *)
LEMMA LoseNotificationStep ==
  ASSUME ObserverInv, NEW k \in socket, LoseNotification(k)
  PROVE  ObserverInv'
<1>1. /\ UNCHANGED <<storeVars, chainVars, at, listVars, workVars, statusVars,
                     announced>>
      /\ socket' = socket \ {k} /\ missed' = missed \cup {k}
      /\ faults < MaxFaults /\ faults' = faults + 1
  BY DEF LoseNotification, Fault
<1>2. (\A j : Settled(j) => Settled(j)') /\ Settled(k)'
  BY <1>1, Zenon DEF Settled, Stored, storeVars
<1>3. ObserverTypeOK'
  <2>1. k \in Signatures /\ faults' \in 0 .. MaxFaults
    BY <1>1, StoreAssumption, ObserverAssumption
       DEF ObserverInv, ObserverTypeOK, Signatures
  <2>2. StoreTypeOK'
    BY <1>1, Zenon DEF ObserverInv, ObserverTypeOK, StoreTypeOK, storeVars
  <2>3. QED
    BY <1>1, <2>1, <2>2
       DEF ObserverInv, ObserverTypeOK, chainVars, listVars, workVars, statusVars
<1>4. /\ (sync_checkpoint.signature <= finalized)' /\ GapsAreMissed'
      /\ ConnectionInv' /\ ListingInv' /\ ReplayInv'
  BY <1>1, <1>2, Zenon
     DEF ObserverInv, storeVars, chainVars, listVars, workVars, statusVars,
         GapsAreMissed, ConnectionInv, Accounted, ListingInv, ReplayInv, SettledBelow,
         BufferedAbove
<1>5. WorkInv'
  BY Zenon, <1>1, <1>2
     DEF ObserverInv, WorkInv, SettledBelow, storeVars, chainVars, listVars, workVars
<1>6. AnnounceInv' /\ RowInv'
  BY <1>1
     DEF ObserverInv, AnnounceInv, RowInv, AtEntry, Entry, storeVars, chainVars, workVars
<1>7. QED
  BY <1>3, <1>4, <1>5, <1>6 DEF ObserverInv

(* The slot monitor is a task of its own. *)
LEMMA MonitorSlotStep ==
  ASSUME ObserverInv, MonitorSlot
  PROVE  ObserverInv'
<1>1. UNCHANGED <<storeVars, chainVars, announced, missed>>
  BY DEF MonitorSlot, historyVars
<1>2. \A k : Settled(k)' = Settled(k)
  BY <1>1, Frame, Zenon
<1>3. ObserverTypeOK'
  BY <1>1, Frame
     DEF ObserverInv, ObserverTypeOK, MonitorSlot, chainVars, listVars, workVars,
         historyVars
<1>4. (sync_checkpoint.signature <= finalized /\ GapsAreMissed /\ RowInv)'
  BY <1>1, Frame DEF ObserverInv, storeVars, chainVars
<1>5. ConnectionInv'
  BY Zenon, <1>1, <1>2
     DEF ObserverInv, MonitorSlot, chainVars, workVars, ConnectionInv, Accounted
<1>6. ListingInv'
  BY <1>1, <1>2
     DEF ObserverInv, MonitorSlot, chainVars, listVars, ListingInv, SettledBelow,
         BufferedAbove
<1>7. ReplayInv'
  BY <1>1, <1>2
     DEF ObserverInv, MonitorSlot, chainVars, listVars, workVars, ReplayInv,
         SettledBelow, BufferedAbove
<1>8. WorkInv'
  BY <1>1, <1>2, Zenon
     DEF ObserverInv, MonitorSlot, storeVars, chainVars, listVars, workVars,
         WorkInv, SettledBelow
<1>9. AnnounceInv'
  BY <1>1 DEF ObserverInv, MonitorSlot, storeVars, workVars, AnnounceInv, AtEntry, Entry
<1>10. QED
  BY <1>3, <1>4, <1>5, <1>6, <1>7, <1>8, <1>9 DEF ObserverInv

-----------------------------------------------------------------------------
(***************************************************************************)
(* run_connection.                                                         *)
(***************************************************************************)

(* A new connection starts with an empty buffer and nothing reconciled. *)
LEMMA ConnectStep ==
  ASSUME ObserverInv, Connect
  PROVE  ObserverInv'
<1>1. UNCHANGED <<storeVars, chainVars, announced, missed>>
  BY DEF Connect, historyVars
<1>2. ObserverTypeOK'
  BY <1>1, Frame, Zenon
     DEF ObserverInv, ObserverTypeOK, Connect, chainVars, listVars, workVars,
         historyVars
<1>3. (sync_checkpoint.signature <= finalized /\ GapsAreMissed /\ RowInv)'
  BY <1>1, Frame DEF ObserverInv, storeVars, chainVars
<1>4. ConnectionInv'
  BY DEF Connect, ConnectionInv
<1>5. ListingInv' /\ ReplayInv'
  BY DEF Connect, ListingInv, ReplayInv
<1>6. WorkInv'
  BY Zenon DEF ObserverInv, Connect, workVars, WorkInv
<1>7. AnnounceInv'
  BY <1>1 DEF ObserverInv, Connect, storeVars, workVars, AnnounceInv, AtEntry, Entry
<1>8. QED
  BY <1>2, <1>3, <1>4, <1>5, <1>6, <1>7 DEF ObserverInv

(* Everything before the checkpoint is settled: GapsAreMissed. *)
LEMMA ReadCheckpointStep ==
  ASSUME ObserverInv, ReadCheckpoint
  PROVE  ObserverInv'
<1>1. UNCHANGED <<storeVars, chainVars, announced, missed>>
  BY Zenon DEF ReadCheckpoint, historyVars
<1>2. \A k : Settled(k)' = Settled(k)
  BY <1>1, Frame, Zenon
<1>3. ObserverTypeOK'
  <2>1. checkpoint' \in 0 .. Transactions
    BY Zenon DEF ObserverInv, ObserverTypeOK, StoreTypeOK, ReadCheckpoint
  <2>2. QED
    BY <1>1, <2>1, Frame, StoreAssumption
       DEF ObserverInv, ObserverTypeOK, ReadCheckpoint, chainVars, workVars,
           statusVars, historyVars
<1>4. (sync_checkpoint.signature <= finalized /\ GapsAreMissed /\ RowInv)'
  BY <1>1, Frame DEF ObserverInv, storeVars, chainVars
<1>5. ConnectionInv'
  BY <1>1, <1>2
     DEF ObserverInv, ReadCheckpoint, chainVars, workVars, statusVars,
         ConnectionInv, Accounted
<1>6. ListingInv'
  BY <1>1, <1>2
     DEF ObserverInv, ReadCheckpoint, chainVars, ListingInv, SettledBelow,
         GapsAreMissed
<1>7. ReplayInv'
  BY DEF ReadCheckpoint, ReplayInv
<1>8. WorkInv'
  BY Zenon DEF ObserverInv, ReadCheckpoint, workVars, WorkInv
<1>9. AnnounceInv'
  BY <1>1, ZenonT(30)
     DEF ObserverInv, ReadCheckpoint, storeVars, workVars, AnnounceInv, AtEntry,
         Entry
<1>10. QED
  BY <1>3, <1>4, <1>5, <1>6, <1>7, <1>8, <1>9 DEF ObserverInv

(* The page above the checkpoint is not the last one; the last one reaches *)
(* the checkpoint or the first transaction.                                *)
LEMMA ListPageStep ==
  ASSUME ObserverInv, ListPage
  PROVE  ObserverInv'
<1>0. /\ Newest \in Nat /\ Oldest \in Nat
      /\ 1 <= Oldest /\ Oldest <= Newest + 1 /\ Newest <= finalized
      /\ low # 0 => Newest <= high
      /\ low = 0 => Newest = finalized
      /\ LastPage => checkpoint >= Oldest \/ Oldest = 1
      /\ ~LastPage => checkpoint < Oldest
  BY ObserverAssumption, StoreAssumption
     DEF ObserverInv, ObserverTypeOK, ListPage, ListingInv, Newest, Oldest, LastPage
<1>1. UNCHANGED <<storeVars, chainVars, announced, missed>>
  BY Zenon DEF ListPage, historyVars
<1>2. \A k : Settled(k)' = Settled(k)
  BY <1>1, Frame
<1>3. ObserverTypeOK'
  <2>1. Oldest \in 0 .. Transactions + 1 /\ finalized \in 0 .. finalized
    BY <1>0, FinalizedIsListed
  <2>2. high' \in 0 .. finalized
    BY <2>1, Zenon DEF ListPage, ObserverInv, ObserverTypeOK
  <2>3. tx' \in 0 .. Transactions + 1
    BY <2>1, ZeroIsTyped, Zenon DEF ListPage
  <2>4. QED
    BY <1>1, <2>1, <2>2, <2>3, Frame, ZenonT(30)
       DEF ObserverInv, ObserverTypeOK, ListPage, chainVars, statusVars, historyVars
<1>4. (sync_checkpoint.signature <= finalized /\ GapsAreMissed /\ RowInv)'
  BY <1>1, Frame DEF ObserverInv, storeVars, chainVars
<1>5. ConnectionInv'
  BY Zenon, <1>1, <1>2
     DEF ObserverInv, WorkInv, ListPage, chainVars, statusVars, ConnectionInv,
         Accounted
<1>6. ListingInv'
  BY <1>0, <1>1, <1>2
     DEF ObserverInv, ObserverTypeOK, ListPage, chainVars, ListingInv, SettledBelow,
         BufferedAbove
<1>7. ReplayInv'
  BY <1>0, <1>1, <1>2
     DEF ObserverInv, ObserverTypeOK, ListPage, chainVars, ListingInv, ReplayInv,
         SettledBelow, BufferedAbove
<1>8. WorkInv'
  BY Zenon DEF ObserverInv, ListPage, WorkInv
<1>9. AnnounceInv'
  BY <1>1 DEF ObserverInv, ObserverTypeOK, ListPage, storeVars, WorkInv, AnnounceInv
<1>10. QED
  BY <1>3, <1>4, <1>5, <1>6, <1>7, <1>8, <1>9 DEF ObserverInv

(* A failed transaction has nothing to store. *)
LEMMA FetchTransactionStep ==
  ASSUME ObserverInv, FetchTransaction
  PROVE  ObserverInv'
<1>1. UNCHANGED <<storeVars, chainVars, announced, missed>>
  BY Zenon DEF FetchTransaction, historyVars
<1>2. \A k : Settled(k)' = Settled(k)
  BY <1>1, Frame
<1>3. ObserverTypeOK'
  <2>1. tx + 1 \in 0 .. Transactions + 1
    <3>1. tx <= high /\ high \in 0 .. finalized /\ tx \in 0 .. Transactions + 1
      BY Zenon DEF ObserverInv, ObserverTypeOK, FetchTransaction
    <3>2. QED
      BY <3>1, FinalizedIsListed
  <2>2. tx' \in 0 .. Transactions + 1 /\ item' \in Nat
    BY <2>1, ZeroIsTyped, Zenon DEF ObserverInv, ObserverTypeOK, FetchTransaction
  <2>3. QED
    BY <1>1, <2>2, Frame, ZenonT(30)
       DEF ObserverInv, ObserverTypeOK, FetchTransaction, chainVars, listVars,
           statusVars, historyVars
<1>4. (sync_checkpoint.signature <= finalized /\ GapsAreMissed /\ RowInv)'
  BY <1>1, Frame DEF ObserverInv, storeVars, chainVars
<1>5. ConnectionInv'
  BY <1>1, <1>2
     DEF ObserverInv, FetchTransaction, chainVars, statusVars, ConnectionInv,
         Accounted
<1>6. ListingInv'
  BY Zenon DEF FetchTransaction, ListingInv
<1>7. ReplayInv'
  <2>1. \A k \in 1 .. finalized : k < tx' => Settled(k)
    <3>1. tx \in Failed => Settled(tx)
      BY Zenon DEF Settled
    <3>2. QED
      BY <3>1 DEF ObserverInv, ObserverTypeOK, FetchTransaction, ReplayInv, SettledBelow
  <2>2. QED
    BY <1>1, <1>2, <2>1
       DEF ObserverInv, ObserverTypeOK, FetchTransaction, chainVars, listVars,
           ReplayInv, SettledBelow, BufferedAbove
<1>8. WorkInv'
  <2>1. SUFFICES ASSUME tx \notin Failed
                 PROVE  WorkInv'
    BY NothingInHand, Zenon DEF FetchTransaction
  <2>2. tx \in (1 .. finalized) \ Failed /\ tx \in Signatures
    BY <2>1, StoreAssumption
       DEF ObserverInv, ObserverTypeOK, FetchTransaction, ReplayInv, Signatures
  <2>3. \A i \in Decoded(tx) : ~(i < 1)
    BY <2>2, DecodedNumbers
  <2>4. QED
    BY <1>1, <1>2, <2>1, <2>2, <2>3, Zenon
       DEF ObserverInv, FetchTransaction, chainVars, listVars, WorkInv, ReplayInv,
           SettledBelow
<1>9. AnnounceInv'
  BY <1>1 DEF ObserverInv, FetchTransaction, storeVars, AnnounceInv
<1>10. QED
  BY <1>3, <1>4, <1>5, <1>6, <1>7, <1>8, <1>9 DEF ObserverInv

(* So is a transaction that getTransaction returned without logs. *)
LEMMA SkipTransactionStep ==
  ASSUME ObserverInv, SkipTransaction
  PROVE  ObserverInv'
<1>1. /\ UNCHANGED <<storeVars, chainVars, at, socket, checkpoint, low, high, item, fresh,
                     statusVars, announced>>
      /\ at = "replay" /\ item = 0 /\ tx <= high /\ tx' = tx + 1
      /\ missed' = missed \cup {tx} /\ skipped' = skipped \cup {tx}
      /\ faults < MaxFaults /\ faults' = faults + 1
  BY Zenon DEF SkipTransaction, Fault
<1>2. \A j : j = tx \/ Settled(j) => Settled(j)'
  BY <1>1, Zenon DEF Settled, Stored, storeVars
<1>3. tx \in 1 .. finalized /\ tx \in Signatures
  BY <1>1, StoreAssumption DEF ObserverInv, ObserverTypeOK, ReplayInv, Signatures
<1>4. ObserverTypeOK'
  <2>1. tx' \in 0 .. Transactions + 1 /\ faults' \in 0 .. MaxFaults
    <3>1. tx + 1 \in 0 .. Transactions + 1
      BY <1>3, FinalizedIsListed
    <3>2. QED
      BY <1>1, <3>1, FaultIsTyped, Zenon
  <2>2. StoreTypeOK'
    BY <1>1 DEF ObserverInv, ObserverTypeOK, StoreTypeOK, storeVars
  <2>3. QED
    BY <1>1, <1>3, <2>1, <2>2, Zenon
       DEF ObserverInv, ObserverTypeOK, chainVars, statusVars
<1>5. (sync_checkpoint.signature <= finalized)' /\ GapsAreMissed'
  BY <1>1, <1>2 DEF ObserverInv, storeVars, chainVars, GapsAreMissed
<1>6. ConnectionInv'
  BY <1>1, <1>2, Zenon DEF ObserverInv, chainVars, statusVars, ConnectionInv, Accounted
<1>7. ReplayInv'
  <2>1. \A j \in 1 .. finalized : j < tx + 1 => Settled(j)'
    BY <1>1, <1>2, <1>3 DEF ObserverInv, ObserverTypeOK, ReplayInv, SettledBelow
  <2>2. QED
    BY <1>1, <1>2, <2>1
       DEF ObserverInv, ObserverTypeOK, chainVars, ReplayInv, SettledBelow,
           BufferedAbove
<1>8. ListingInv' /\ WorkInv'
  BY <1>1, NothingInHand, Zenon DEF ListingInv
<1>9. AnnounceInv' /\ RowInv'
  BY <1>1 DEF ObserverInv, AnnounceInv, RowInv, storeVars, chainVars
<1>10. QED
  BY <1>4, <1>5, <1>6, <1>7, <1>8, <1>9, Zenon DEF ObserverInv

(* After the replay, what is not settled was finalized since and is        *)
(* buffered.                                                               *)
LEMMA FinishReplayStep ==
  ASSUME ObserverInv, FinishReplay
  PROVE  ObserverInv'
<1>1. UNCHANGED <<storeVars, chainVars, announced, missed>>
  BY Zenon DEF FinishReplay, historyVars
<1>2. \A k : Settled(k)' = Settled(k)
  BY <1>1, Frame
<1>3. ObserverTypeOK'
  BY <1>1, Frame, ZeroIsTyped, ZenonT(30)
     DEF ObserverInv, ObserverTypeOK, FinishReplay, chainVars, statusVars,
         historyVars
<1>4. (sync_checkpoint.signature <= finalized /\ GapsAreMissed /\ RowInv)'
  BY <1>1, Frame DEF ObserverInv, storeVars, chainVars
<1>5. ConnectionInv'
  BY <1>1, <1>2
     DEF ObserverInv, ObserverTypeOK, FinishReplay, chainVars, statusVars,
         ConnectionInv, Accounted, ReplayInv, SettledBelow, BufferedAbove
<1>6. ListingInv' /\ ReplayInv'
  BY Zenon DEF FinishReplay, ListingInv, ReplayInv
<1>7. WorkInv'
  <2>1. item' = 0
    BY Zenon DEF FinishReplay
  <2>2. QED
    BY <2>1, NothingInHand, Zenon
<1>8. AnnounceInv'
  BY <1>1 DEF ObserverInv, FinishReplay, storeVars, AnnounceInv
<1>9. QED
  BY <1>3, <1>4, <1>5, <1>6, <1>7, <1>8 DEF ObserverInv

(* The slot is read after the replay: the session is accounted for. *)
LEMMA ReadSlotStep ==
  ASSUME ObserverInv, ReadSlot
  PROVE  ObserverInv'
<1>1. UNCHANGED <<storeVars, chainVars, announced, missed>>
  BY Zenon DEF ReadSlot, historyVars
<1>2. \A k : Settled(k)' = Settled(k)
  BY <1>1, Frame
<1>3. ObserverTypeOK'
  BY <1>1, Frame
     DEF ObserverInv, ObserverTypeOK, ReadSlot, chainVars, listVars, workVars,
         historyVars, Larger
<1>4. (sync_checkpoint.signature <= finalized /\ GapsAreMissed /\ RowInv)'
  BY <1>1, Frame DEF ObserverInv, storeVars, chainVars
<1>5. ConnectionInv'
  BY <1>1, <1>2 DEF ObserverInv, ReadSlot, chainVars, workVars, ConnectionInv, Accounted
<1>6. ListingInv' /\ ReplayInv'
  BY Zenon DEF ReadSlot, ListingInv, ReplayInv
<1>7. WorkInv'
  BY ZenonT(30) DEF ObserverInv, ReadSlot, workVars, WorkInv
<1>8. AnnounceInv'
  BY <1>1 DEF ObserverInv, ReadSlot, storeVars, workVars, AnnounceInv, AtEntry, Entry
<1>9. QED
  BY <1>3, <1>4, <1>5, <1>6, <1>7, <1>8 DEF ObserverInv

(* A notification is read once everything before it is settled. *)
LEMMA HandleMessageStep ==
  ASSUME ObserverInv, NEW k \in socket, HandleMessage(k)
  PROVE  ObserverInv'
<1>1. /\ UNCHANGED <<storeVars, chainVars, announced, missed>>
      /\ UNCHANGED <<at, listVars, fresh, connected, reconciled, rpc_slot, faults>>
      /\ at = "live" /\ item = 0 /\ socket' = socket \ {k}
      /\ observed_slot' = Larger(observed_slot, slot_of[k])
      /\ k \in Failed => UNCHANGED <<tx, item>>
      /\ k \notin Failed => tx' = k /\ item' = 1
  BY DEF HandleMessage, historyVars
<1>2. \A j : Settled(j)' = Settled(j)
  BY <1>1, Frame
<1>3. k \in 1 .. finalized /\ k \in Signatures
  <2>1. k \in 1 .. finalized
    BY Zenon DEF ObserverInv, ObserverTypeOK
  <2>2. QED
    BY <2>1, FinalizedIsListed, Zenon
<1>4. \A j \in 1 .. finalized : j < k => Settled(j)
  BY <1>1, <1>3
     DEF ObserverInv, ObserverTypeOK, HandleMessage, ConnectionInv, Accounted
<1>5. ObserverTypeOK'
  <2>1. observed_slot' \in 0 .. tip
    BY <1>1, <1>3 DEF Larger, ObserverInv, ObserverTypeOK, RowInv
  <2>2. tx' \in 0 .. Transactions + 1 /\ item' \in Nat
    <3>1. tx \in 0 .. Transactions + 1 /\ item \in Nat
      BY Zenon DEF ObserverInv, ObserverTypeOK
    <3>2. k \in 0 .. Transactions + 1
      BY <1>3, FinalizedIsListed
    <3>3. QED
      BY <1>1, <3>1, <3>2, ZeroIsTyped, Zenon
  <2>3. QED
    BY <1>1, <2>1, <2>2, Frame, Zenon DEF ObserverInv, ObserverTypeOK, chainVars, listVars
<1>6. (sync_checkpoint.signature <= finalized /\ GapsAreMissed /\ RowInv)'
  BY <1>1, Frame, Zenon DEF ObserverInv, storeVars, chainVars
<1>7. ConnectionInv'
  <2>1. k \in Failed => Settled(k)
    BY Zenon DEF Settled
  <2>2. QED
    BY <1>1, <1>2, <2>1 DEF ObserverInv, chainVars, ConnectionInv, Accounted
<1>8. ListingInv' /\ ReplayInv'
  BY <1>1, Zenon DEF ListingInv, ReplayInv
<1>9. WorkInv'
  <2>1. \A i \in Decoded(k) : ~(i < 1)
    BY <1>3, DecodedNumbers
  <2>2. QED
    BY <1>1, <1>2, <1>3, <1>4, <2>1 DEF WorkInv, SettledBelow, chainVars
<1>10. AnnounceInv'
  BY <1>1 DEF ObserverInv, AnnounceInv, storeVars
<1>11. QED
  BY <1>5, <1>6, <1>7, <1>8, <1>9, <1>10, Zenon DEF ObserverInv

(* The next reconciliation starts between two transactions. *)
LEMMA ReconciliationTickStep ==
  ASSUME ObserverInv, ReconciliationTick
  PROVE  ObserverInv'
<1>1. UNCHANGED <<storeVars, chainVars, announced, missed>>
  BY Zenon DEF ReconciliationTick, historyVars
<1>2. \A k : Settled(k)' = Settled(k)
  BY <1>1, Frame
<1>3. ObserverTypeOK'
  BY Zenon, <1>1, Frame
     DEF ObserverInv, ObserverTypeOK, ReconciliationTick, chainVars, listVars,
         workVars, statusVars, historyVars
<1>4. (sync_checkpoint.signature <= finalized /\ GapsAreMissed /\ RowInv)'
  BY <1>1, Frame DEF ObserverInv, storeVars, chainVars
<1>5. ConnectionInv'
  BY <1>1, <1>2
     DEF ObserverInv, ReconciliationTick, chainVars, workVars, statusVars,
         ConnectionInv, Accounted
<1>6. ListingInv' /\ ReplayInv'
  BY Zenon DEF ReconciliationTick, ListingInv, ReplayInv
<1>7. WorkInv'
  <2>1. item' = 0
    BY Zenon DEF ReconciliationTick, workVars
  <2>2. QED
    BY <2>1, NothingInHand, Zenon
<1>8. AnnounceInv'
  BY <1>1, Zenon
     DEF ObserverInv, ReconciliationTick, storeVars, workVars, AnnounceInv, AtEntry,
         Entry
<1>9. QED
  BY <1>3, <1>4, <1>5, <1>6, <1>7, <1>8, Zenon DEF ObserverInv

(* A lost connection leaves nothing in hand. *)
LEMMA ConnectionErrorStep ==
  ASSUME ObserverInv, ConnectionError
  PROVE  ObserverInv'
<1>1. UNCHANGED <<storeVars, chainVars, announced, missed>>
  BY DEF ConnectionError
<1>2. ObserverTypeOK'
  <2>1. faults' \in 0 .. MaxFaults
    BY FaultIsTyped, Zenon DEF ConnectionError, Fault
  <2>2. /\ tx' \in 0 .. Transactions + 1 /\ low' \in 0 .. Transactions + 1
        /\ checkpoint' \in 0 .. Transactions /\ high' \in 0 .. finalized
    BY ZeroIsTyped, Zenon DEF ConnectionError, Disconnect
  <2>3. observed_slot' \in 0 .. tip /\ rpc_slot' \in 0 .. tip
    BY ZeroIsTyped, Zenon DEF ObserverInv, ObserverTypeOK, ConnectionError
  <2>4. QED
    BY <1>1, <2>1, <2>2, <2>3, Frame, Zenon
       DEF ObserverInv, ObserverTypeOK, ConnectionError, Disconnect, chainVars
<1>3. (sync_checkpoint.signature <= finalized /\ GapsAreMissed /\ RowInv)'
  BY <1>1, Frame DEF ObserverInv, storeVars, chainVars
<1>4. ConnectionInv'
  BY DEF ConnectionError, Disconnect, ConnectionInv
<1>5. ListingInv' /\ ReplayInv'
  BY Zenon DEF ConnectionError, Disconnect, ListingInv, ReplayInv
<1>6. WorkInv'
  <2>1. item' = 0
    BY Zenon DEF ConnectionError, Disconnect
  <2>2. QED
    BY <2>1, NothingInHand, Zenon
<1>7. AnnounceInv'
  BY <1>1 DEF ObserverInv, ConnectionError, Disconnect, storeVars, AnnounceInv
<1>8. QED
  BY <1>2, <1>3, <1>4, <1>5, <1>6, <1>7 DEF ObserverInv

(* Neither does a crash. *)
LEMMA CrashStep ==
  ASSUME ObserverInv, Crash
  PROVE  ObserverInv'
<1>1. UNCHANGED <<storeVars, chainVars, announced, missed>>
  BY DEF Crash
<1>2. ObserverTypeOK'
  <2>1. faults' \in 0 .. MaxFaults
    BY FaultIsTyped, Zenon DEF Crash, Fault
  <2>2. /\ tx' \in 0 .. Transactions + 1 /\ low' \in 0 .. Transactions + 1
        /\ checkpoint' \in 0 .. Transactions /\ high' \in 0 .. finalized
    BY ZeroIsTyped, Zenon DEF Crash, Disconnect
  <2>3. observed_slot' \in 0 .. tip /\ rpc_slot' \in 0 .. tip
    BY ZeroIsTyped, Zenon DEF ObserverInv, ObserverTypeOK, Crash
  <2>4. QED
    BY <1>1, <2>1, <2>2, <2>3, Frame, Zenon
       DEF ObserverInv, ObserverTypeOK, Crash, Disconnect, chainVars
<1>3. (sync_checkpoint.signature <= finalized /\ GapsAreMissed /\ RowInv)'
  BY <1>1, Frame DEF ObserverInv, storeVars, chainVars
<1>4. ConnectionInv'
  BY DEF Crash, Disconnect, ConnectionInv
<1>5. ListingInv' /\ ReplayInv'
  BY Zenon DEF Crash, Disconnect, ListingInv, ReplayInv
<1>6. WorkInv'
  <2>1. item' = 0
    BY Zenon DEF Crash, Disconnect
  <2>2. QED
    BY <2>1, NothingInHand, Zenon
<1>7. AnnounceInv'
  BY <1>1 DEF ObserverInv, Crash, Disconnect, storeVars, AnnounceInv
<1>8. QED
  BY <1>2, <1>3, <1>4, <1>5, <1>6, <1>7 DEF ObserverInv

-----------------------------------------------------------------------------
(***************************************************************************)
(* The entry at hand.                                                      *)
(***************************************************************************)

(* The entry process_logs is at is one extract_events returned, and its    *)
(* identity is one of the chain's.                                         *)
LEMMA EntryType ==
  ASSUME tx \in Signatures, AtEntry
  PROVE  /\ Entry \in ObservedEvent
         /\ item \in 1 .. Len(Parsed[tx])
         /\ Entry.ok => item \in Decoded(tx) /\ EventId(tx, Entry) \in EventIds
<1>1. Parsed[tx] \in Seq(ObservedEvent)
  BY StoreAssumption
<1>2. item \in 1 .. Len(Parsed[tx]) /\ Entry \in ObservedEvent
  BY <1>1 DEF AtEntry, Entry
<1>3. Entry.ok => item \in Decoded(tx)
  BY DEF Decoded, AtEntry, Entry
<1>4. Entry.ok => EventId(tx, Entry) \in EventIds
  BY <1>3 DEF EventIds, Entry
<1>5. QED
  BY <1>2, <1>3, <1>4

-----------------------------------------------------------------------------
(***************************************************************************)
(* The database transaction.                                               *)
(***************************************************************************)

(* The status an event writes is one, and the row exists with it. *)
LEMMA StatusNames ==
  /\ \A name \in Inserting : FirstStatus[name] \in Statuses \ {"absent"}
  /\ \A name \in DOMAIN FinalStatus : FinalStatus[name] \in Statuses \ {"absent"}
<1>1. Inserting = {"EscrowCreated", "VaultCreated", "WithdrawalRequested"}
  BY DEF Inserting, FirstStatus
<1>2. DOMAIN FinalStatus = {"EscrowReleased", "EscrowRefunded", "WithdrawalExecuted",
                            "WithdrawalCancelled"}
  BY Zenon DEF FinalStatus
<1>3. \A name \in Inserting : FirstStatus[name] \in Statuses \ {"absent"}
  BY <1>1 DEF FirstStatus, Statuses
<1>4. \A name \in DOMAIN FinalStatus : FinalStatus[name] \in Statuses \ {"absent"}
  BY <1>2 DEF FinalStatus, Statuses
<1>5. QED
  BY <1>3, <1>4, Zenon

(* An INSERT leaves a row as it is, or writes one where there was none. *)
LEMMA InsertStep ==
  ASSUME NEW row \in Row, row.status = "absent" => row.last = <<0, 0, 0>>,
         NEW e \in IronVaultEvent, e.name \in Inserting,
         NEW position \in Position, position[1] >= 1,
         InsertRow(row, e, position) # row
  PROVE  /\ InsertRow(row, e, position) \in Row
         /\ InsertRow(row, e, position).status # "absent"
         /\ Before(row.last, InsertRow(row, e, position).last)
<1> DEFINE new == [status |-> FirstStatus[e.name], authority |-> e.authority,
                   paused |-> FALSE, last |-> position]
<1>1. row.status = "absent" /\ InsertRow(row, e, position) = new
  BY Zenon DEF InsertRow
<1>2. FirstStatus[e.name] \in Statuses \ {"absent"} /\ e.authority \in Authorities
  BY StatusNames, Zenon DEF IronVaultEvent
<1>3. new \in Row /\ new.status # "absent" /\ new.last = position
  BY <1>2, Zenon DEF Row
<1>4. row.last[1] = 0 /\ position[1] \in Nat
  BY <1>1 DEF Position
<1> HIDE DEF new
<1>5. QED
  BY <1>1, <1>3, <1>4 DEF Before

(* An UPDATE leaves a row as it is, or moves it to a newer position. *)
LEMMA UpdateStep ==
  ASSUME NEW row \in Row, NEW e \in IronVaultEvent, NEW position \in Position,
         UpdateRow(row, e, position) # row
  PROVE  /\ UpdateRow(row, e, position) \in Row
         /\ UpdateRow(row, e, position).status # "absent"
         /\ Before(row.last, UpdateRow(row, e, position).last)
<1>1. /\ row.status # "absent" /\ Before(row.last, position)
      /\ UpdateRow(row, e, position) = Changed(row, e, position)
  BY Zenon DEF UpdateRow
<1>2. /\ Changed(row, e, position) \in Row
      /\ Changed(row, e, position).status # "absent"
      /\ Changed(row, e, position).last = position
  BY <1>1, StatusNames, Zenon DEF Changed, Row, IronVaultEvent
<1>3. QED
  BY <1>1, <1>2

(* What the database transaction writes: the event, a checkpoint that      *)
(* stays or moves to the event's transaction, and rows that stay or move   *)
(* to a newer position.                                                    *)
LEMMA PersistEffect ==
  ASSUME ObserverInv, Persist
  PROVE  /\ tx \in (1 .. finalized) \ Failed /\ tx \in Signatures
         /\ Entry \in ObservedEvent /\ Entry.ok
         /\ protocol_events' = protocol_events \cup {EventId(tx, Entry)}
         /\ \/ sync_checkpoint' = sync_checkpoint
            \/ /\ sync_checkpoint' \in
                    [signature : 0 .. Transactions, position : Position]
               /\ sync_checkpoint'.signature = tx
         /\ projections' \in [Subjects -> Row]
         /\ \A s \in Subjects :
              projections'[s] # projections[s] =>
                /\ projections'[s].status # "absent"
                /\ Before(projections[s].last, projections'[s].last)
<1> DEFINE position == <<slot_of[tx], Entry.instruction_index, Entry.event_index>>
           row == projections[Entry.event.subject]
<1>1. tx \in (1 .. finalized) \ Failed /\ tx \in Signatures
  BY StoreAssumption DEF ObserverInv, ObserverTypeOK, WorkInv, Persist, Signatures
<1>2. Entry \in ObservedEvent /\ Entry.ok
  BY <1>1, EntryType DEF Persist
<1>3. Entry.event \in IronVaultEvent /\ Entry.event.subject \in Subjects
  BY <1>2, Zenon DEF ObservedEvent, IronVaultEvent
<1>4. position \in Position /\ position[1] >= 1
  <2>1. /\ slot_of[tx] \in 1 .. tip /\ tip \in 0 .. MaxSlot
        /\ Entry.instruction_index \in Nat /\ Entry.event_index \in Nat
    BY <1>1, <1>2, Zenon DEF ObserverInv, ObserverTypeOK, RowInv, ObservedEvent
  <2>2. slot_of[tx] \in Nat /\ slot_of[tx] >= 1
    BY <2>1
  <2>3. QED
    BY <2>1, <2>2 DEF Position
<1>5. row \in Row /\ (row.status = "absent" => row.last = <<0, 0, 0>>)
  BY <1>3, Zenon DEF ObserverInv, ObserverTypeOK, StoreTypeOK, RowInv
<1>6. /\ protocol_events' = protocol_events \cup {EventId(tx, Entry)}
      /\ \/ projections' = projections
         \/ projections' = apply_projection(Entry.event, position)
      /\ sync_checkpoint' = update_checkpoint(tx, position)
  BY Zenon DEF Persist, persist
<1> HIDE DEF position
<1>7. \/ sync_checkpoint' = sync_checkpoint
      \/ /\ sync_checkpoint' \in [signature : 0 .. Transactions, position : Position]
         /\ sync_checkpoint'.signature = tx
  BY <1>1, <1>4, <1>6, StoreAssumption DEF update_checkpoint, Signatures
<1>8. CASE projections' = projections
  BY <1>1, <1>2, <1>6, <1>7, <1>8, Zenon DEF ObserverInv, ObserverTypeOK, StoreTypeOK
<1>9. CASE projections' = apply_projection(Entry.event, position)
  <2>1. PICK new : /\ projections' = [projections EXCEPT ![Entry.event.subject] = new]
                   /\ new # row => /\ new \in Row /\ new.status # "absent"
                                   /\ Before(row.last, new.last)
    <3>1. CASE Entry.event.name \in Inserting
      <4>1. projections' = [projections EXCEPT ![Entry.event.subject] =
                              InsertRow(row, Entry.event, position)]
        BY <1>9, <3>1, Zenon DEF apply_projection
      <4>2. QED
        BY <1>3, <1>4, <1>5, <3>1, <4>1, InsertStep, Zenon
    <3>2. CASE Entry.event.name \in Updating \ Inserting
      <4>1. projections' = [projections EXCEPT ![Entry.event.subject] =
                              UpdateRow(row, Entry.event, position)]
        BY <1>9, <3>2, Zenon DEF apply_projection
      <4>2. QED
        BY <1>3, <1>4, <1>5, <4>1, UpdateStep, Zenon
    <3>3. CASE Entry.event.name \notin Updating \cup Inserting
      <4>1. projections' = [projections EXCEPT ![Entry.event.subject] = row]
        BY <1>9, <3>3, Zenon DEF apply_projection
      <4>2. QED
        BY <4>1, Zenon
    <3>4. QED
      BY <3>1, <3>2, <3>3
  <2>2. projections \in [Subjects -> Row]
    BY ZenonT(30) DEF ObserverInv, ObserverTypeOK, StoreTypeOK
  <2>3. /\ projections' \in [Subjects -> Row]
        /\ \A s \in Subjects :
             projections'[s] # projections[s] =>
               /\ projections'[s].status # "absent"
               /\ Before(projections[s].last, projections'[s].last)
    BY <1>3, <1>5, <2>1, <2>2, Zenon
  <2>4. QED
    BY <1>1, <1>2, <1>6, <1>7, <2>3, Zenon
<1>10. QED
  BY <1>6, <1>8, <1>9, Zenon

(* persist keeps the invariant. *)
LEMMA PersistStep ==
  ASSUME ObserverInv, Persist
  PROVE  ObserverInv'
<1>1. /\ UNCHANGED <<chainVars, at, socket, listVars, tx, statusVars, historyVars>>
      /\ item > 0 /\ AtEntry /\ Entry.ok
      /\ EventId(tx, Entry) \in protocol_events => ~fresh' /\ item' = item + 1
      /\ EventId(tx, Entry) \notin protocol_events => fresh' /\ item' = item
  BY Zenon DEF Persist
<1>2. /\ protocol_events' = protocol_events \cup {EventId(tx, Entry)}
      /\ EventId(tx, Entry) \in EventIds
      /\ tx \in Signatures
  BY <1>1, PersistEffect, EntryType, Zenon
<1>3. \A k : Settled(k) => Settled(k)'
  BY <1>1, <1>2, Zenon DEF Settled, Stored, historyVars
<1>4. ObserverTypeOK'
  <2>1. protocol_events' \subseteq EventIds
    BY <1>2, Zenon DEF ObserverInv, ObserverTypeOK, StoreTypeOK
  <2>2. StoreTypeOK'
    BY <2>1, PersistEffect, Zenon DEF ObserverInv, ObserverTypeOK, StoreTypeOK
  <2>3. item' \in Nat
    BY <1>1 DEF ObserverInv, ObserverTypeOK
  <2>4. fresh' \in BOOLEAN
    BY Zenon DEF Persist
  <2>5. QED
    BY <1>1, <2>2, <2>3, <2>4, Zenon
       DEF ObserverInv, ObserverTypeOK, chainVars, listVars, statusVars, historyVars
<1>5. (sync_checkpoint.signature <= finalized)' /\ GapsAreMissed'
  <2>1. finalized' = finalized /\ finalized \in Nat /\ tx \in 1 .. finalized
    BY <1>1, PersistEffect, StoreAssumption DEF ObserverInv, ObserverTypeOK, chainVars
  <2>2. \/ sync_checkpoint' = sync_checkpoint
        \/ sync_checkpoint'.signature = tx
    BY PersistEffect, Zenon
  <2>3. /\ sync_checkpoint.signature <= finalized /\ GapsAreMissed /\ SettledBelow(tx)
    BY <1>1, Zenon DEF ObserverInv, WorkInv
  <2>4. CASE sync_checkpoint' = sync_checkpoint
    BY <1>3, <2>1, <2>3, <2>4, Zenon DEF GapsAreMissed
  <2>5. CASE sync_checkpoint'.signature = tx
    <3>1. tx <= finalized
      BY <2>1
    <3>2. QED
      BY <1>3, <2>1, <2>3, <2>5, <3>1, Zenon DEF SettledBelow, GapsAreMissed
  <2>6. QED
    BY <2>2, <2>4, <2>5, Zenon
<1>6. ConnectionInv'
  <2>1. item' > 0
    <3>1. item \in Nat /\ item > 0 /\ (item' = item \/ item' = item + 1)
      BY <1>1, Zenon DEF ObserverInv, ObserverTypeOK
    <3>2. QED
      BY <3>1
  <2>2. QED
    BY <1>1, <1>3, <2>1, ZenonT(30)
       DEF ObserverInv, chainVars, statusVars, ConnectionInv, Accounted
<1>7. ListingInv' /\ ReplayInv'
  BY <1>1, <1>3, ZenonT(30)
     DEF ObserverInv, chainVars, listVars, ListingInv, ReplayInv, SettledBelow,
         BufferedAbove
<1>8. WorkInv'
  <2>1. \A i \in Decoded(tx) :
          i < item' => EventId(tx, Parsed[tx][i]) \in protocol_events'
    <3>1. SUFFICES ASSUME NEW i \in Decoded(tx), i < item'
          PROVE  EventId(tx, Parsed[tx][i]) \in protocol_events'
      BY Zenon
    <3>2. CASE i < item
      BY <1>1, <1>2, <3>2, Zenon DEF ObserverInv, WorkInv
    <3>3. CASE i = item
      BY <1>2, <3>3, Zenon DEF Entry
    <3>4. i \in Nat /\ item \in Nat
      BY <1>2, DecodedNumbers, Zenon DEF ObserverInv, ObserverTypeOK
    <3>5. item' = item \/ item' = item + 1
      BY <1>1, Zenon
    <3>6. i < item \/ i = item
      BY <3>1, <3>4, <3>5, UpToNext, Zenon
    <3>7. QED
      BY <3>2, <3>3, <3>6, Zenon
  <2>2. QED
    BY <1>1, <1>3, <2>1, Zenon DEF ObserverInv, chainVars, listVars, WorkInv, SettledBelow
<1>9. AnnounceInv'
  BY <1>1, <1>2, Zenon DEF ObserverInv, AnnounceInv, AtEntry, Entry, historyVars
<1>10. RowInv'
  BY <1>1, PersistEffect, Zenon DEF ObserverInv, chainVars, RowInv
<1>11. QED
  BY <1>4, <1>5, <1>6, <1>7, <1>8, <1>9, <1>10, Zenon DEF ObserverInv

-----------------------------------------------------------------------------
(***************************************************************************)
(* The other steps of process_logs.                                        *)
(***************************************************************************)

(* An entry that does not decode has nothing to store. *)
LEMMA SkipUndecodableStep ==
  ASSUME ObserverInv, SkipUndecodable
  PROVE  ObserverInv'
<1>1. UNCHANGED <<storeVars, chainVars, announced, missed>>
  BY ZenonT(30) DEF SkipUndecodable, historyVars
<1>2. \A k : Settled(k)' = Settled(k)
  BY <1>1, Frame
<1>3. ObserverTypeOK'
  <2>1. item' \in Nat
    <3>1. item \in Nat /\ item' = item + 1
      BY Zenon DEF ObserverInv, ObserverTypeOK, SkipUndecodable
    <3>2. QED
      BY <3>1
  <2>2. QED
    BY <1>1, <2>1, Frame, ZenonT(30)
       DEF ObserverInv, ObserverTypeOK, SkipUndecodable, chainVars, listVars,
           statusVars, historyVars
<1>4. (sync_checkpoint.signature <= finalized /\ GapsAreMissed /\ RowInv)'
  BY <1>1, Frame DEF ObserverInv, storeVars, chainVars
<1>5. ConnectionInv'
  BY <1>1, <1>2
     DEF ObserverInv, ObserverTypeOK, SkipUndecodable, chainVars, statusVars,
         ConnectionInv, Accounted
<1>6. ListingInv'
  BY <1>1, <1>2, Zenon
     DEF ObserverInv, SkipUndecodable, chainVars, listVars, ListingInv,
         SettledBelow, BufferedAbove
<1>7. ReplayInv'
  BY <1>1, <1>2, Zenon
     DEF ObserverInv, SkipUndecodable, chainVars, listVars, ReplayInv, SettledBelow,
         BufferedAbove
<1>8. WorkInv'
  <2>1. item \notin Decoded(tx)
    BY Zenon DEF SkipUndecodable, Decoded, Entry
  <2>2. item \in Nat /\ tx \in 1 .. finalized
    BY Zenon DEF ObserverInv, ObserverTypeOK, SkipUndecodable, WorkInv
  <2>3. \A i \in Decoded(tx) : i \in Nat /\ i # item
    BY <2>1, <2>2, FinalizedIsListed, DecodedNumbers, Zenon
  <2>4. \A i \in Decoded(tx) : i < item + 1 => i < item
    BY <2>2, <2>3, UpToNext, Zenon
  <2>5. QED
    BY <1>1, <1>2, <2>4, ZenonT(30)
       DEF ObserverInv, SkipUndecodable, storeVars, chainVars, listVars, WorkInv,
           SettledBelow
<1>9. AnnounceInv'
  BY <1>1, Zenon DEF ObserverInv, SkipUndecodable, storeVars, AnnounceInv
<1>10. QED
  BY <1>3, <1>4, <1>5, <1>6, <1>7, <1>8, <1>9 DEF ObserverInv

(* An announcement is due only once. *)
LEMMA AnnounceStep ==
  ASSUME ObserverInv, Announce
  PROVE  ObserverInv'
<1>1. /\ UNCHANGED <<storeVars, chainVars, at, socket, listVars, tx, statusVars, missed,
                     faults>>
      /\ item > 0 /\ fresh /\ ~fresh' /\ item' = item + 1
      /\ announced' = [announced EXCEPT ![EventId(tx, Entry)] = @ + 1]
  BY ZenonT(30) DEF Announce
<1>2. /\ AtEntry /\ Entry.ok /\ EventId(tx, Entry) \in protocol_events
      /\ tx \in (1 .. finalized) \ Failed /\ tx \in Signatures
  BY <1>1, FinalizedIsListed, ZenonT(30) DEF ObserverInv, AnnounceInv, WorkInv
<1>3. \A k : Settled(k)' = Settled(k)
  BY <1>1, Zenon DEF Settled, Stored, storeVars
<1>4. ObserverTypeOK'
  <2>1. announced' \in [EventIds -> Nat]
    <3>1. EventId(tx, Entry) \in EventIds /\ announced \in [EventIds -> Nat]
      BY <1>2, EntryType DEF ObserverInv, ObserverTypeOK
    <3>2. QED
      BY <1>1, <3>1
  <2>2. StoreTypeOK'
    BY <1>1, Zenon DEF ObserverInv, ObserverTypeOK, StoreTypeOK, storeVars
  <2>3. item' \in Nat
    BY <1>1 DEF ObserverInv, ObserverTypeOK
  <2>4. fresh' \in BOOLEAN
    BY ZenonT(30) DEF Announce
  <2>5. QED
    BY Zenon, <1>1, <2>1, <2>2, <2>3, <2>4
       DEF ObserverInv, ObserverTypeOK, chainVars, listVars, statusVars
<1>5. (sync_checkpoint.signature <= finalized)' /\ GapsAreMissed' /\ RowInv'
  BY <1>1, <1>3, Zenon DEF ObserverInv, storeVars, chainVars, GapsAreMissed, RowInv
<1>6. ConnectionInv'
  <2>1. item' > 0
    <3>1. item \in Nat /\ item > 0 /\ item' = item + 1
      BY <1>1, Zenon DEF ObserverInv, ObserverTypeOK
    <3>2. QED
      BY <3>1
  <2>2. QED
    BY <1>1, <1>3, <2>1, ZenonT(30)
       DEF ObserverInv, chainVars, statusVars, ConnectionInv, Accounted
<1>7. ListingInv' /\ ReplayInv'
  BY <1>1, <1>3
     DEF ObserverInv, chainVars, listVars, ListingInv, ReplayInv, SettledBelow,
         BufferedAbove
<1>8. WorkInv'
  <2>1. \A i \in Decoded(tx) :
          i < item + 1 => EventId(tx, Parsed[tx][i]) \in protocol_events
    <3>1. \A i \in Decoded(tx) : i < item => EventId(tx, Parsed[tx][i]) \in protocol_events
      BY <1>1, ZenonT(30) DEF ObserverInv, WorkInv
    <3>2. EventId(tx, Parsed[tx][item]) \in protocol_events /\ item \in Nat
      BY <1>2, Zenon DEF Entry, ObserverInv, ObserverTypeOK
    <3>3. \A i \in Decoded(tx) : i \in Nat
      BY <1>2, DecodedNumbers, Zenon
    <3>4. \A i \in Decoded(tx) : i < item + 1 => i < item \/ i = item
      BY <3>2, <3>3, UpToNext, Zenon
    <3>5. QED
      BY <3>1, <3>2, <3>4, Zenon
  <2>2. QED
    BY <1>1, <1>3, <2>1, ZenonT(30)
       DEF ObserverInv, storeVars, chainVars, listVars, WorkInv, SettledBelow
<1>9. AnnounceInv'
  BY <1>1, <1>2, Zenon DEF ObserverInv, ObserverTypeOK, AnnounceInv, storeVars
<1>10. QED
  BY <1>4, <1>5, <1>6, <1>7, <1>8, <1>9 DEF ObserverInv

(* After its last entry a transaction is stored. *)
LEMMA FinishTransactionStep ==
  ASSUME ObserverInv, FinishTransaction
  PROVE  ObserverInv'
<1>0. tx \in 1 .. finalized /\ Settled(tx) /\ (at = "replay" => tx <= high)
  <2>1. /\ tx \in (1 .. finalized) \ Failed /\ (at = "replay" => tx <= high)
        /\ \A i \in Decoded(tx) :
             i < item => EventId(tx, Parsed[tx][i]) \in protocol_events
    BY ZenonT(30) DEF ObserverInv, FinishTransaction, WorkInv
  <2>2. /\ item \in Nat /\ item > 0 /\ item \notin DOMAIN Parsed[tx]
        /\ tx \in Signatures
    BY <2>1, FinalizedIsListed, Zenon
       DEF ObserverInv, ObserverTypeOK, FinishTransaction, AtEntry
  <2>3. \A i \in Decoded(tx) : i < item
    <3>1. ~(item <= Len(Parsed[tx])) /\ Len(Parsed[tx]) \in Nat
      BY <2>2, DecodedNumbers
    <3>2. \A i \in Decoded(tx) : i \in Nat /\ i <= Len(Parsed[tx])
      BY <2>2, DecodedNumbers, Zenon
    <3>3. QED
      BY <2>2, <3>1, <3>2
  <2>4. QED
    BY <2>1, <2>3, Zenon DEF Settled, Stored
<1>1. UNCHANGED <<storeVars, chainVars, announced, missed>>
  BY Zenon DEF FinishTransaction, historyVars
<1>2. \A k : Settled(k)' = Settled(k)
  BY <1>1, Frame
<1>3. ObserverTypeOK'
  BY <1>0, <1>1, Frame, StoreAssumption
     DEF ObserverInv, ObserverTypeOK, FinishTransaction, chainVars, listVars,
         statusVars, historyVars
<1>4. (sync_checkpoint.signature <= finalized /\ GapsAreMissed /\ RowInv)'
  BY <1>1, Frame DEF ObserverInv, storeVars, chainVars
<1>5. ConnectionInv'
  BY <1>0, <1>1, <1>2, Zenon
     DEF ObserverInv, FinishTransaction, chainVars, statusVars, ConnectionInv,
         Accounted
<1>6. ListingInv'
  BY <1>1, <1>2, Zenon
     DEF ObserverInv, FinishTransaction, chainVars, listVars, ListingInv,
         SettledBelow, BufferedAbove
<1>7. ReplayInv'
  BY <1>0, <1>1, <1>2
     DEF ObserverInv, ObserverTypeOK, FinishTransaction, chainVars, listVars,
         ReplayInv, SettledBelow, BufferedAbove
<1>8. WorkInv'
  <2>1. item' = 0
    BY Zenon DEF FinishTransaction
  <2>2. QED
    BY <2>1, NothingInHand, Zenon
<1>9. AnnounceInv'
  BY <1>1, ZenonT(30) DEF ObserverInv, FinishTransaction, storeVars, AnnounceInv
<1>10. QED
  BY <1>3, <1>4, <1>5, <1>6, <1>7, <1>8, <1>9 DEF ObserverInv

-----------------------------------------------------------------------------
(***************************************************************************)
(* The invariant.                                                          *)
(***************************************************************************)

(* The invariant holds when the process first starts. *)
LEMMA InitInv == ObserverInit => ObserverInv
<1> SUFFICES ASSUME ObserverInit PROVE ObserverInv
  OBVIOUS
<1>1. NoRow.last = <<0, 0, 0>>
  BY Zenon DEF NoRow
<1>2. ObserverTypeOK
  <2>1. NoRow \in Row
    <3>1. (CHOOSE a \in Authorities : TRUE) \in Authorities
      BY StoreAssumption, Zenon
    <3>2. QED
      BY <3>1, Zenon DEF NoRow, Row, Statuses, Position
  <2>2. StoreTypeOK
    BY <2>1, StoreAssumption
       DEF ObserverInit, StoreInit, StoreTypeOK, NoCheckpoint, Position
  <2>3. fresh \in BOOLEAN /\ connected \in BOOLEAN /\ reconciled \in BOOLEAN
    BY Zenon DEF ObserverInit
  <2>4. Transactions \in Nat /\ MaxSlot \in Nat /\ MaxFaults \in Nat
    BY StoreAssumption, ObserverAssumption, Zenon
  <2>5. /\ 0 \in 0 .. Transactions /\ 0 \in 0 .. Transactions + 1 /\ 0 \in 0 .. MaxSlot
        /\ 0 \in 0 .. MaxFaults /\ 0 \in 0 .. 0 /\ 0 \in Nat
    BY <2>4
  <2>6. QED
    BY <2>2, <2>3, <2>5, ZenonT(30) DEF ObserverInit, ObserverTypeOK
<1>3. QED
  BY <1>1, <1>2
     DEF ObserverInit, StoreInit, NoCheckpoint, ObserverInv, GapsAreMissed, ConnectionInv,
         ListingInv, ReplayInv, WorkInv, AnnounceInv, RowInv

(* Every step of the observer and of its environment keeps the invariant. *)
LEMMA NextInv == ObserverInv /\ [ObserverNext]_observerVars => ObserverInv'
<1> SUFFICES ASSUME ObserverInv, [ObserverNext]_observerVars
             PROVE  ObserverInv'
  BY Zenon
<1>1. CASE UNCHANGED observerVars
  <2>1. UNCHANGED <<storeVars, chainVars, announced, missed>>
    BY <1>1 DEF observerVars, historyVars
  <2>2. QED
    BY <1>1, <2>1, Frame, ZenonT(30)
       DEF observerVars, storeVars, chainVars, listVars, workVars, statusVars, historyVars,
           ObserverInv, ObserverTypeOK, ConnectionInv, Accounted, ListingInv, ReplayInv,
           WorkInv, AnnounceInv, SettledBelow, BufferedAbove, AtEntry, Entry
<1>2. CASE ObserverStep
  BY Zenon, <1>2, ConnectStep, ReadCheckpointStep, ListPageStep, FetchTransactionStep,
     FinishReplayStep, ReadSlotStep, HandleMessageStep, ReconciliationTickStep,
     SkipUndecodableStep, PersistStep, AnnounceStep, FinishTransactionStep
     DEF ObserverStep
<1>3. QED
  BY Zenon, <1>1, <1>2, FinalizeSlotStep, MonitorSlotStep, LoseNotificationStep,
     SkipTransactionStep, ConnectionErrorStep, CrashStep
     DEF ObserverNext

(* The invariant holds throughout. *)
LEMMA Invariance == ObserverSpec => []ObserverInv
  BY InitInv, NextInv, PTL DEF ObserverSpec

(* The observer's variables and tables always hold values of their types;  *)
(* the slot it reports never runs ahead of the chain.                      *)
THEOREM ObserverTypeCorrect == ObserverSpec => []ObserverTypeOK
<1>1. ObserverInv => ObserverTypeOK
  BY DEF ObserverInv
<1>2. QED
  BY <1>1, Invariance, PTL

(* Every transaction before the checkpoint that persist moves is stored,   *)
(* or its delivery failed, for every history, page size and number of      *)
(* crashes.                                                                *)
THEOREM CheckpointLeavesNoGap == ObserverSpec => []GapsAreMissed
<1>1. ObserverInv => GapsAreMissed
  BY Zenon DEF ObserverInv
<1>2. QED
  BY <1>1, Invariance, PTL

(* Subscribing before reconciling leaves no race: what run_connection has  *)
(* not stored once it is reconciled is in its receive buffer or in hand.   *)
THEOREM SessionLosesNothing == ObserverSpec => []SessionAccounted
<1>1. ObserverInv => SessionAccounted
  BY SMTT(30) DEF ObserverInv, ConnectionInv, Accounted, SessionAccounted
<1>2. QED
  BY <1>1, Invariance, PTL

(* Only persist writes rows. *)
LEMMA RowsElsewhere ==
  ASSUME [ObserverNext]_observerVars, ~Persist
  PROVE  UNCHANGED projections
  BY ZenonT(30) DEF ObserverNext, ObserverStep, observerVars, storeVars, FinalizeSlot,
         LoseNotification, SkipTransaction, Connect, ReadCheckpoint, ListPage,
         FetchTransaction, FinishReplay, ReadSlot, HandleMessage, ReconciliationTick,
         SkipUndecodable, Announce, FinishTransaction, ConnectionError, Crash,
         MonitorSlot

(* apply_projection never takes a row away or back to an older position,   *)
(* whatever is replayed.                                                   *)
THEOREM RowsOnlyAdvance == ObserverSpec => RowsNeverRegress
<1>1. ObserverInv /\ [ObserverNext]_observerVars =>
        [\A s \in Subjects :
           projections'[s] # projections[s] =>
             Before(projections[s].last, projections'[s].last)]_observerVars
  BY PersistEffect, RowsElsewhere
<1>2. QED
  BY <1>1, Invariance, PTL DEF ObserverSpec, RowsNeverRegress

=============================================================================
