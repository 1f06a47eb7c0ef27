--------------------------- MODULE ObserverProofs ---------------------------
(***************************************************************************)
(* Beyond the invariant of Observer: every reconciliation repairs its      *)
(* pages, the rows follow the stored history, and the observer implements  *)
(* the promised event log.                                                 *)
(***************************************************************************)
EXTENDS ObserverInvariantProofs

-----------------------------------------------------------------------------
(***************************************************************************)
(* Repair. While reconcile pages back, what it listed reaches at least one *)
(* page down from where it began; in the replay the listing reaches the    *)
(* checkpoint as well, and what was replayed so far is stored.             *)
(***************************************************************************)

PassInv ==
  /\ at = "listing" /\ low # 0 => low + PageSize <= high + 1
  /\ at = "replay" =>
       /\ 1 <= low /\ low <= tx
       /\ low = 1 \/ (low <= checkpoint /\ low + PageSize <= high + 1)
       /\ \A k \in low .. tx - 1 : k \in Failed \/ Stored(k) \/ k \in skipped

(* A transaction that process_logs has finished is stored. *)
LEMMA FinishedIsStored ==
  ASSUME ObserverInv, FinishTransaction
  PROVE  Stored(tx)
<1>1. /\ tx \in (1 .. finalized) \ Failed
      /\ \A i \in Decoded(tx) :
           i < item => EventId(tx, Parsed[tx][i]) \in protocol_events
  BY DEF ObserverInv, FinishTransaction, WorkInv
<1>2. Parsed[tx] \in Seq(ObservedEvent)
  BY <1>1, StoreAssumption DEF Signatures, ObserverInv, ObserverTypeOK
<1>3. \A i \in Decoded(tx) : i < item
  BY <1>2 DEF ObserverInv, ObserverTypeOK, FinishTransaction, AtEntry, Decoded
<1>4. QED
  BY <1>1, <1>3 DEF Stored

(* The listing and the replay keep PassInv. *)
LEMMA PassNext == ObserverInv /\ PassInv /\ [ObserverNext]_observerVars => PassInv'
<1> SUFFICES ASSUME ObserverInv, PassInv, [ObserverNext]_observerVars
             PROVE  PassInv'
  BY Zenon
<1>1. /\ PageSize \in Nat \ {0} /\ finalized \in Nat /\ low \in Nat /\ high \in Nat
      /\ checkpoint \in Nat /\ tx \in Nat
  BY ObserverAssumption, StoreAssumption DEF ObserverInv, ObserverTypeOK
<1>2. CASE at' \notin {"listing", "replay"}
  BY <1>2 DEF PassInv
<1>3. ASSUME UNCHANGED <<at, listVars, tx>>, protocol_events \subseteq protocol_events'
      PROVE  PassInv'
  <2>1. \A k : Stored(k) => Stored(k)'
    BY <1>3, Zenon DEF Stored
  <2>2. QED
    BY <1>3, <2>1 DEF PassInv, listVars
<1>4. CASE ReadCheckpoint
  BY <1>4 DEF ReadCheckpoint, PassInv
<1>5. CASE ListPage
  <2>1. /\ at = "listing" /\ low' = Oldest /\ checkpoint' = checkpoint
        /\ high' = IF low = 0 THEN finalized ELSE high
        /\ at' = IF LastPage THEN "replay" ELSE "listing"
        /\ tx' = IF LastPage THEN Oldest ELSE 0
    BY <1>5 DEF ListPage
  <2>2. Newest \in Nat /\ Newest <= high'
    BY <1>1, <2>1 DEF Newest, ObserverInv, ListingInv
  <2>3. /\ Oldest \in Nat /\ Oldest >= 1
        /\ Oldest = 1 \/ Oldest + PageSize <= high' + 1
        /\ LastPage => Oldest = 1 \/ Oldest <= checkpoint
        /\ ~LastPage => Oldest + PageSize <= high' + 1
    BY <1>1, <2>1, <2>2 DEF Oldest, LastPage
  <2>4. QED
    BY <1>1, <2>1, <2>3 DEF PassInv
<1>6. ASSUME at = "replay", at' = "replay", tx' = tx + 1,
             UNCHANGED <<checkpoint, low, high, protocol_events>>,
             skipped \subseteq skipped',
             tx \in Failed \/ Stored(tx) \/ tx \in skipped'
      PROVE  PassInv'
  <2>1. \A k : Stored(k)' = Stored(k)
    BY <1>6 DEF Stored
  <2>2. \A k \in low .. tx : k \in Failed \/ Stored(k) \/ k \in skipped'
    BY <1>1, <1>6 DEF PassInv
  <2>3. QED
    BY <1>1, <1>6, <2>1, <2>2 DEF PassInv
<1>7. CASE FetchTransaction
  <2>1. /\ at = "replay" /\ at' = "replay"
        /\ UNCHANGED <<storeVars, listVars>>
        /\ (tx \in Failed /\ tx' = tx + 1) \/ tx' = tx
    BY <1>7 DEF FetchTransaction
  <2>2. QED
    BY <1>3, <1>6, <2>1 DEF storeVars, listVars
<1>8. CASE SkipTransaction
  BY <1>6, <1>8 DEF SkipTransaction, storeVars
<1>9. CASE FinishTransaction
  <2>1. at = "replay" \/ at' \notin {"listing", "replay"}
    BY <1>9 DEF FinishTransaction, ObserverInv, WorkInv
  <2>2. at = "replay" => /\ at' = "replay" /\ tx' = tx + 1
                         /\ UNCHANGED <<storeVars, listVars>>
    BY <1>9 DEF FinishTransaction
  <2>3. QED
    BY <1>2, <1>6, <1>9, <2>1, <2>2, FinishedIsStored DEF storeVars, listVars
<1>10. CASE Persist
  <2>1. protocol_events \subseteq protocol_events'
    BY <1>10, Zenon DEF Persist, persist
  <2>2. QED
    BY <1>3, <1>10, <2>1 DEF Persist
<1>11. CASE \/ SkipUndecodable \/ Announce \/ MonitorSlot
            \/ \E k \in socket : LoseNotification(k)
            \/ \E n \in 0 .. MaxPerSlot : FinalizeSlot(n)
  <2>1. UNCHANGED <<at, listVars, tx, storeVars>>
    BY <1>11, Zenon DEF SkipUndecodable, Announce, MonitorSlot, LoseNotification,
                        FinalizeSlot, workVars
  <2>2. QED
    BY <1>3, <2>1 DEF storeVars
<1>12. CASE \/ Connect \/ FinishReplay \/ ReadSlot \/ ReconciliationTick
            \/ ConnectionError \/ Crash \/ \E k \in socket : HandleMessage(k)
  <2>1. at' \in {"checkpoint", "slot", "live", "offline"}
    BY <1>12 DEF Connect, FinishReplay, ReadSlot, ReconciliationTick, ConnectionError, Crash,
                 Disconnect, HandleMessage
  <2>2. QED
    BY <1>2, <2>1, Zenon
<1>13. CASE UNCHANGED observerVars
  BY <1>3, <1>13 DEF observerVars, storeVars, workVars
<1>14. QED
  BY <1>4, <1>5, <1>7, <1>8, <1>9, <1>10, <1>11, <1>12, <1>13, Zenon
  DEF ObserverNext, ObserverStep

(* A reconciliation that ends has stored, of what was finalized when it    *)
(* began, everything from the checkpoint on and at least the newest page,  *)
(* but for what getTransaction gave it no logs for: a notification that    *)
(* was lost less than a page ago is repaired, for every page size.         *)
THEOREM ReconciliationRepairsPage == ObserverSpec => ReconciliationRepairs
<1> DEFINE A == at = "replay" /\ at' = "slot" =>
                  \A k \in (1 .. high) \ Failed :
                    k >= checkpoint \/ k + PageSize > high => Stored(k) \/ k \in skipped
<1>1. ObserverInit => PassInv
  BY DEF ObserverInit, PassInv
<1>2. ObserverInv /\ PassInv /\ [ObserverNext]_observerVars => [A]_observerVars
  <2> SUFFICES ASSUME ObserverInv, PassInv, [ObserverNext]_observerVars,
                      at = "replay", at' = "slot",
                      NEW k \in (1 .. high) \ Failed,
                      k >= checkpoint \/ k + PageSize > high
               PROVE  Stored(k) \/ k \in skipped
    OBVIOUS
  <2>1. /\ PageSize \in Nat \ {0} /\ low \in Nat /\ high \in Nat
        /\ checkpoint \in Nat /\ tx \in Nat
    BY SMTT(30), ObserverAssumption, StoreAssumption DEF ObserverInv, ObserverTypeOK
  <2>2. FinishReplay
    BY Zenon DEF ObserverNext, ObserverStep, observerVars, FinalizeSlot, Connect, ReadCheckpoint,
           ListPage, FetchTransaction, ReadSlot, HandleMessage, ReconciliationTick,
           SkipUndecodable, Persist, Announce, FinishTransaction, MonitorSlot,
           LoseNotification, SkipTransaction, ConnectionError, Crash, Disconnect
  <2>3. tx > high
    BY <2>2 DEF FinishReplay
  <2>4. k \in low .. tx - 1
    BY <2>1, <2>3 DEF PassInv
  <2>5. QED
    BY <2>4 DEF PassInv
<1>3. QED
  BY <1>1, <1>2, Invariance, PassNext, PTL DEF ObserverSpec, ReconciliationRepairs

-----------------------------------------------------------------------------
(***************************************************************************)
(* The projections.                                                        *)
(***************************************************************************)

IsStored(x) == EventId(x[1], EntryAt(x)) \in protocol_events

(* What is stored is a beginning of the ledger, but for what was missed.   *)
StoredInOrder ==
  \A x \in Entries : IsStored(x) =>
    /\ x[1] \in (1 .. finalized) \ Failed
    /\ SettledBelow(x[1])
    /\ \A y \in Entries : y[1] = x[1] /\ y[2] < x[2] => IsStored(y)

(* A row exists once the event that creates it is stored, and is at the    *)
(* position of a stored event of its own.                                  *)
RowsPlaced ==
  \A s \in Subjects :
    /\ projections[s].status # "absent" <=> StoredOf(s, Inserting) # {}
    /\ projections[s].status # "absent" =>
         \E x \in StoredOf(s, EventNames) : projections[s].last = PositionOf(x[1], x[2])

HistoryInv == StoredInOrder /\ RowsPlaced /\ ProjectionsFollowHistory

(* What an entry of the ledger is. *)
LEMMA EntriesType ==
  /\ \A x \in Entries :
       /\ x = <<x[1], x[2]>> /\ x[1] \in Signatures /\ x[2] \in Decoded(x[1])
       /\ x[1] \in Nat /\ x[2] \in Nat /\ x[2] \in DOMAIN Parsed[x[1]]
       /\ EntryAt(x) \in ObservedEvent
  /\ \A k \in Signatures : \A i \in Decoded(k) : <<k, i>> \in Entries
<1>1. ASSUME NEW x \in Entries
      PROVE  x = <<x[1], x[2]>> /\ x[1] \in Signatures /\ x[2] \in Decoded(x[1])
  BY DEF Entries
<1>2. ASSUME NEW k \in Signatures, NEW i \in Decoded(k)
      PROVE  /\ k \in Nat /\ i \in Nat /\ i \in DOMAIN Parsed[k]
             /\ Parsed[k][i] \in ObservedEvent
  <2>1. Parsed[k] \in Seq(ObservedEvent) /\ i \in DOMAIN Parsed[k]
    BY StoreAssumption DEF Decoded
  <2>2. QED
    BY <2>1 DEF Signatures
<1>3. ASSUME NEW k \in Signatures, NEW i \in Decoded(k)
      PROVE  <<k, i>> \in Entries
  BY DEF Entries
<1>4. QED
  BY <1>1, <1>2, <1>3, Zenon DEF EntryAt

(* No two entries have the same identity. *)
LEMMA OwnIdentity ==
  ASSUME NEW x \in Entries, NEW y \in Entries,
         EventId(x[1], EntryAt(x)) = EventId(y[1], EntryAt(y))
  PROVE  x = y
<1>1. /\ x[1] \in Signatures /\ EntryAt(x) \in ObservedEvent
      /\ x[2] \in Nat /\ x[2] \in DOMAIN Parsed[x[1]]
      /\ y[2] \in Nat /\ y[2] \in DOMAIN Parsed[y[1]]
      /\ x = <<x[1], x[2]>> /\ y = <<y[1], y[2]>>
  BY EntriesType
<1>2. /\ x[1] = y[1]
      /\ EntryAt(x).instruction_index = EntryAt(y).instruction_index
      /\ EntryAt(x).event_index = EntryAt(y).event_index
  BY DEF EventId
<1>3. EntryAt(x).instruction_index \in Nat /\ EntryAt(x).event_index \in Nat
  BY <1>1, Zenon DEF ObservedEvent
<1>4. ASSUME NEW k \in Signatures, NEW i \in DOMAIN Parsed[k], NEW j \in DOMAIN Parsed[k],
             Parsed[k][i].instruction_index = Parsed[k][j].instruction_index,
             Parsed[k][i].event_index = Parsed[k][j].event_index,
             Parsed[k][i].instruction_index \in Nat, Parsed[k][i].event_index \in Nat
      PROVE  ~(i < j)
  BY <1>4, HistoryAssumption
<1>5. ~(x[2] < y[2]) /\ ~(y[2] < x[2])
  BY <1>1, <1>2, <1>3, <1>4 DEF EntryAt
<1>6. x[2] = y[2]
  BY <1>1, <1>5
<1>7. QED
  BY <1>1, <1>2, <1>6, Zenon

(* The last entry of a set that grew by a later one is that one. *)
LEMMA LastIsNew ==
  ASSUME NEW S \in SUBSET Entries, NEW z \in Entries, \A y \in S : Earlier(y, z)
  PROVE  (CHOOSE x \in S \cup {z} : \A y \in S \cup {z} : y = x \/ Earlier(y, x)) = z
<1>1. \A y \in S \cup {z} : y = z \/ Earlier(y, z)
  OBVIOUS
<1>2. ASSUME NEW w \in S \cup {z}, \A y \in S \cup {z} : y = w \/ Earlier(y, w)
      PROVE  w = z
  <2>1. SUFFICES ASSUME w # z PROVE FALSE
    OBVIOUS
  <2>2. Earlier(w, z) /\ Earlier(z, w)
    BY <1>2, <2>1
  <2>3. w[1] \in Nat /\ w[2] \in Nat /\ z[1] \in Nat /\ z[2] \in Nat
    BY EntriesType
  <2>4. QED
    BY <2>2, <2>3 DEF Earlier
<1>3. QED
  BY <1>1, <1>2, Zenon

(* A step that stores nothing, and at most finalizes or misses more.       *)
LEMMA QuietHistory ==
  ASSUME HistoryInv, UNCHANGED <<protocol_events, projections>>,
         finalized \in Nat, finalized' \in Nat, finalized <= finalized',
         \A k \in 1 .. finalized : slot_of'[k] = slot_of[k],
         missed \subseteq missed'
  PROVE  HistoryInv'
<1>1. \A x : IsStored(x)' = IsStored(x)
  BY DEF IsStored
<1>2. \A s, names : StoredOf(s, names)' = StoredOf(s, names)
  BY DEF StoredOf
<1>3. 1 .. finalized \subseteq 1 .. finalized'
  OBVIOUS
<1>4. \A k : Settled(k) => Settled(k)'
  BY DEF Settled, Stored
<1>5. \A k \in 1 .. finalized : SettledBelow(k) => SettledBelow(k)'
  <2>1. \A k \in 1 .. finalized : \A j \in 1 .. finalized' : j < k => j \in 1 .. finalized
    OBVIOUS
  <2>2. QED
    BY <1>4, <2>1, Zenon DEF SettledBelow
<1>6. StoredInOrder'
  BY <1>1, <1>3, <1>5, Zenon DEF HistoryInv, StoredInOrder
<1>7. \A s, names : \A x \in StoredOf(s, names) :
        PositionOf(x[1], x[2])' = PositionOf(x[1], x[2])
  <2>1. \A s, names : \A x \in StoredOf(s, names) : x[1] \in 1 .. finalized
    BY Zenon DEF HistoryInv, StoredInOrder, StoredOf, IsStored
  <2>2. QED
    BY <2>1, Zenon DEF PositionOf
<1>8. RowsPlaced'
  BY <1>2, <1>7, Zenon DEF HistoryInv, RowsPlaced
<1>9. PositionsFollowLedger' => PositionsFollowLedger
  <2>1. \A k \in 1 .. finalized : \A i : PositionOf(k, i)' = PositionOf(k, i)
    BY Zenon DEF PositionOf
  <2>2. QED
    BY <1>3, <2>1, ZenonT(30) DEF PositionsFollowLedger
<1>10. \A s : RowFollows(s)' = RowFollows(s)
  <2>1. \A s, names : LastOf(s, names)' = LastOf(s, names)
    BY <1>2, Zenon DEF LastOf
  <2>2. QED
    BY <1>2, <2>1, Zenon DEF RowFollows
<1>11. ProjectionsFollowHistory'
  <2>1. missed' = {} => missed = {}
    OBVIOUS
  <2>2. QED
    BY <1>9, <1>10, <2>1, Zenon DEF HistoryInv, ProjectionsFollowHistory
<1>12. QED
  BY <1>6, <1>8, <1>11 DEF HistoryInv

(* What persist stores first is later than everything stored before it. *)
LEMMA NewEntry ==
  ASSUME ObserverInv, StoredInOrder, Persist, EventId(tx, Entry) \notin protocol_events,
         NEW z, z = <<tx, item>>
  PROVE  /\ z \in Entries /\ EntryAt(z) = Entry /\ z[1] = tx /\ z[2] = item
         /\ tx \in (1 .. finalized) \ Failed
         /\ ~IsStored(z) /\ \A x \in Entries : IsStored(x)' <=> IsStored(x) \/ x = z
         /\ missed = {} => \A x \in Entries : IsStored(x) => Earlier(x, z)
<1>1. /\ tx \in (1 .. finalized) \ Failed /\ tx \in Signatures
      /\ protocol_events' = protocol_events \cup {EventId(tx, Entry)}
  BY PersistEffect, Zenon
<1>2. item \in Decoded(tx)
  BY <1>1, EntryType, Zenon DEF Persist
<1>3. z \in Entries /\ z[1] = tx /\ z[2] = item /\ EntryAt(z) = Entry
  BY <1>1, <1>2, EntriesType DEF EntryAt, Entry
<1>4. ~IsStored(z)
  BY <1>3 DEF IsStored
<1>5. ASSUME NEW x \in Entries
      PROVE  IsStored(x)' <=> IsStored(x) \/ x = z
  <2>1. EventId(x[1], EntryAt(x)) = EventId(tx, Entry) => x = z
    BY <1>3, OwnIdentity, Zenon
  <2>2. QED
    BY <1>1, <1>3, <2>1 DEF IsStored
<1>6. ASSUME missed = {}, NEW x \in Entries, IsStored(x)
      PROVE  Earlier(x, z)
  <2>1. /\ x[1] \in Nat /\ x[2] \in Nat /\ tx \in Nat /\ item \in Nat
        /\ x = <<x[1], x[2]>>
    BY <1>3, EntriesType, Zenon
  <2>2. ~(tx < x[1])
    <3>1. SUFFICES ASSUME tx < x[1] PROVE FALSE
      OBVIOUS
    <3>2. Settled(tx)
      BY <1>1, <1>6, <3>1 DEF StoredInOrder, SettledBelow
    <3>3. QED
      BY <1>1, <1>2, <1>6, <3>2 DEF Settled, Stored, Entry, Persist
  <2>3. ~(tx = x[1] /\ item < x[2])
    BY <1>3, <1>4, <1>6, Zenon DEF StoredInOrder
  <2>4. ~(tx = x[1] /\ item = x[2])
    BY <1>4, <1>6, <2>1
  <2>5. QED
    BY <1>3, <2>1, <2>2, <2>3, <2>4 DEF Earlier
<1>7. QED
  BY <1>1, <1>3, <1>4, <1>5, <1>6, Zenon

(* What that does to the stored events of a row, and to the last of them.  *)
LEMMA StoredGrows ==
  ASSUME ObserverInv, StoredInOrder, Persist, EventId(tx, Entry) \notin protocol_events,
         NEW s, NEW names, NEW z, z = <<tx, item>>
  PROVE  /\ Entry.event.subject # s \/ Entry.event.name \notin names =>
              /\ StoredOf(s, names)' = StoredOf(s, names)
              /\ LastOf(s, names)' = LastOf(s, names)
         /\ Entry.event.subject = s /\ Entry.event.name \in names =>
              /\ StoredOf(s, names)' = StoredOf(s, names) \cup {z}
              /\ missed = {} => LastOf(s, names)' = Entry.event
<1>1. /\ z \in Entries /\ EntryAt(z) = Entry
      /\ \A x \in Entries : IsStored(x)' <=> IsStored(x) \/ x = z
      /\ missed = {} => \A x \in Entries : IsStored(x) => Earlier(x, z)
  BY NewEntry, Zenon
<1>2. /\ StoredOf(s, names) =
           {x \in Entries : /\ IsStored(x)
                            /\ EntryAt(x).event.subject = s /\ EntryAt(x).event.name \in names}
      /\ StoredOf(s, names)' =
           {x \in Entries : /\ IsStored(x)'
                            /\ EntryAt(x).event.subject = s /\ EntryAt(x).event.name \in names}
  BY DEF StoredOf, IsStored
<1>3. ASSUME Entry.event.subject # s \/ Entry.event.name \notin names
      PROVE  /\ StoredOf(s, names)' = StoredOf(s, names)
             /\ LastOf(s, names)' = LastOf(s, names)
  <2>1. StoredOf(s, names)' = StoredOf(s, names)
    BY <1>1, <1>2, <1>3
  <2>2. QED
    BY <2>1, Zenon DEF LastOf
<1>4. ASSUME Entry.event.subject = s, Entry.event.name \in names
      PROVE  /\ StoredOf(s, names)' = StoredOf(s, names) \cup {z}
             /\ missed = {} => LastOf(s, names)' = Entry.event
  <2>1. StoredOf(s, names)' = StoredOf(s, names) \cup {z}
    BY <1>1, <1>2, <1>4
  <2>2. ASSUME missed = {}
        PROVE  LastOf(s, names)' = Entry.event
    <3> DEFINE S == StoredOf(s, names)
    <3>1. S \in SUBSET Entries /\ \A y \in S : Earlier(y, z)
      BY <1>1, <1>2, <2>2
    <3>2. (CHOOSE x \in S \cup {z} : \A y \in S \cup {z} : y = x \/ Earlier(y, x)) = z
      BY <1>1, <3>1, LastIsNew
    <3>3. LastOf(s, names)' =
            EntryAt(CHOOSE x \in S \cup {z} : \A y \in S \cup {z} : y = x \/ Earlier(y, x)).event
      BY <2>1, Zenon DEF LastOf
    <3>4. QED
      BY <1>1, <3>2, <3>3, Zenon
  <2>3. QED
    BY <2>1, <2>2, Zenon
<1>5. QED
  BY <1>3, <1>4, Zenon
(* The same, for what the event is not one of and what it is one of. *)
LEMMA StoredSame ==
  ASSUME ObserverInv, StoredInOrder, Persist, EventId(tx, Entry) \notin protocol_events,
         NEW s, NEW names, Entry.event.subject # s \/ Entry.event.name \notin names
  PROVE  StoredOf(s, names)' = StoredOf(s, names) /\ LastOf(s, names)' = LastOf(s, names)
  BY StoredGrows, Zenon

(* It is the last of its own. *)
LEMMA StoredMore ==
  ASSUME ObserverInv, StoredInOrder, Persist, EventId(tx, Entry) \notin protocol_events,
         NEW s, s = Entry.event.subject, NEW names, Entry.event.name \in names
  PROVE  /\ <<tx, item>> \in StoredOf(s, names)'
         /\ StoredOf(s, names) \subseteq StoredOf(s, names)'
         /\ StoredOf(s, names)' # {}
         /\ missed = {} => LastOf(s, names)' = Entry.event
<1>1. /\ StoredOf(s, names)' = StoredOf(s, names) \cup {<<tx, item>>}
      /\ missed = {} => LastOf(s, names)' = Entry.event
  BY StoredGrows, Zenon
<1>2. QED
  BY <1>1, Zenon

(* The events that create a row, end it, rotate its authority and pause it *)
(* are different ones.                                                     *)
LEMMA NamesDiffer ==
  /\ Inserting \cap Updating = {} /\ Inserting \cup Updating \subseteq EventNames
  /\ DOMAIN FinalStatus \subseteq Updating
  /\ {"VaultAuthorityUpdated", "VaultPauseUpdated"} \subseteq Updating
  /\ {"VaultAuthorityUpdated", "VaultPauseUpdated"} \cap DOMAIN FinalStatus = {}
  /\ \A name \in Updating : \/ name \in DOMAIN FinalStatus
                            \/ name = "VaultAuthorityUpdated" \/ name = "VaultPauseUpdated"
<1>1. Inserting = {"EscrowCreated", "VaultCreated", "WithdrawalRequested"}
  BY DEF Inserting, FirstStatus
<1>2. DOMAIN FinalStatus = {"EscrowReleased", "EscrowRefunded", "WithdrawalExecuted",
                            "WithdrawalCancelled"}
  BY DEF FinalStatus
<1>3. QED
  BY <1>1, <1>2 DEF Updating, EventNames

(* The row persist writes. *)
LEMMA RowWritten ==
  ASSUME ObserverInv, Persist, EventId(tx, Entry) \notin protocol_events
  PROVE  /\ Entry.event \in IronVaultEvent /\ Entry.event.subject \in Subjects
         /\ \A s \in Subjects :
              LET row == projections[s]
                  e == Entry.event
                  position == PositionOf(tx, item)
              IN  /\ s # e.subject => projections'[s] = row
                  /\ s = e.subject =>
                       /\ e.name \in Inserting => projections'[s] = InsertRow(row, e, position)
                       /\ e.name \in Updating => projections'[s] = UpdateRow(row, e, position)
                       /\ e.name \notin Inserting \cup Updating => projections'[s] = row
<1> DEFINE e == Entry.event
           row == projections[e.subject]
           position == PositionOf(tx, item)
<1>1. Entry \in ObservedEvent /\ projections \in [Subjects -> Row]
  BY PersistEffect, Zenon DEF ObserverInv, ObserverTypeOK, StoreTypeOK
<1>2. e \in IronVaultEvent /\ e.subject \in Subjects
  BY <1>1 DEF ObservedEvent, IronVaultEvent
<1>3. projections' = apply_projection(e, position)
  BY Zenon DEF Persist, persist, PositionOf, Entry
<1> HIDE DEF position, e
<1>4. PICK new : /\ projections' = [projections EXCEPT ![e.subject] = new]
                 /\ e.name \in Inserting => new = InsertRow(row, e, position)
                 /\ e.name \in Updating => new = UpdateRow(row, e, position)
                 /\ e.name \notin Inserting \cup Updating => new = row
  <2>1. CASE e.name \in Inserting
    BY <1>3, <2>1, NamesDiffer, Zenon DEF apply_projection
  <2>2. CASE e.name \in Updating
    BY <1>3, <2>2, NamesDiffer, Zenon DEF apply_projection
  <2>3. CASE e.name \notin Inserting \cup Updating
    BY <1>3, <2>3, Zenon DEF apply_projection
  <2>4. QED
    BY <2>1, <2>2, <2>3, Zenon
<1>5. \A s \in Subjects : /\ s # e.subject => projections'[s] = projections[s]
                          /\ s = e.subject => projections'[s] = new
  BY <1>1, <1>2, <1>4, Zenon
<1>6. QED
  BY <1>2, <1>4, <1>5, Zenon DEF e, position

(* The history stays in order. *)
LEMMA StoredInOrderStep ==
  ASSUME ObserverInv, StoredInOrder, Persist, EventId(tx, Entry) \notin protocol_events
  PROVE  StoredInOrder'
<1> DEFINE z == <<tx, item>>
<1>1. /\ z \in Entries /\ z[1] = tx /\ z[2] = item /\ tx \in (1 .. finalized) \ Failed
      /\ \A x \in Entries : IsStored(x)' <=> IsStored(x) \/ x = z
  BY NewEntry, Zenon
<1>2. /\ UNCHANGED <<finalized, missed>>
      /\ protocol_events' = protocol_events \cup {EventId(tx, Entry)}
  BY PersistEffect, Zenon DEF Persist, chainVars, historyVars
<1>3. \A k : SettledBelow(k) => SettledBelow(k)'
  BY <1>2 DEF SettledBelow, Settled, Stored
<1>4. SettledBelow(tx) /\ \A y \in Entries : y[1] = tx /\ y[2] < item => IsStored(y)
  <2>1. /\ SettledBelow(tx)
        /\ \A i \in Decoded(tx) : i < item => EventId(tx, Parsed[tx][i]) \in protocol_events
    BY DEF ObserverInv, WorkInv, Persist
  <2>2. QED
    BY <2>1, EntriesType, Zenon DEF IsStored, EntryAt
<1> HIDE DEF z
<1>5. QED
  BY <1>1, <1>2, <1>3, <1>4, Zenon DEF StoredInOrder

(* The row an event is of is older than it, whenever positions follow the  *)
(* ledger.                                                                 *)
LEMMA RowIsOlder ==
  ASSUME ObserverInv, StoredInOrder, RowsPlaced, Persist,
         EventId(tx, Entry) \notin protocol_events, missed = {}, PositionsFollowLedger,
         NEW row, row = projections[Entry.event.subject], row.status # "absent"
  PROVE  Before(row.last, PositionOf(tx, item))
<1> DEFINE z == <<tx, item>>
<1>1. /\ z \in Entries /\ EntryAt(z) = Entry /\ z[1] = tx /\ z[2] = item
      /\ tx \in (1 .. finalized) \ Failed
      /\ \A x \in Entries : IsStored(x) => Earlier(x, z)
  BY NewEntry, Zenon
<1>2. PICK x \in Entries : /\ IsStored(x) /\ EntryAt(x).event.subject = Entry.event.subject
                           /\ row.last = PositionOf(x[1], x[2])
  BY RowWritten, Zenon DEF RowsPlaced, StoredOf, IsStored
<1>3. x[1] \in 1 .. finalized /\ Earlier(x, z)
  BY <1>1, <1>2, Zenon DEF StoredInOrder
<1>4. /\ x[2] \in Decoded(x[1]) /\ item \in Decoded(tx) /\ tx \in Signatures
      /\ x[2] \in DOMAIN Parsed[x[1]] /\ item \in DOMAIN Parsed[tx]
  BY <1>1, EntriesType, Zenon
<1>5. CASE x[1] < tx
  BY <1>1, <1>2, <1>3, <1>4, <1>5, ZenonT(30) DEF PositionsFollowLedger, EntryAt, Entry
<1>6. CASE x[1] = tx /\ x[2] < item
  <2> DEFINE p == Parsed[tx][x[2]]
             q == Parsed[tx][item]
  <2>1. \/ p.instruction_index < q.instruction_index
        \/ p.instruction_index = q.instruction_index /\ p.event_index < q.event_index
    BY <1>4, <1>6, HistoryAssumption, Zenon
  <2>2. /\ row.last = <<slot_of[tx], p.instruction_index, p.event_index>>
        /\ PositionOf(tx, item) = <<slot_of[tx], q.instruction_index, q.event_index>>
    BY <1>2, <1>6, Zenon DEF PositionOf
  <2> HIDE DEF p, q
  <2>3. QED
    BY <2>1, <2>2 DEF Before
<1>7. QED
  BY <1>1, <1>3, <1>5, <1>6, Zenon DEF Earlier
(* Rows stay placed. *)
LEMMA RowsPlacedStep ==
  ASSUME ObserverInv, StoredInOrder, RowsPlaced, Persist,
         EventId(tx, Entry) \notin protocol_events
  PROVE  RowsPlaced'
<1> DEFINE z == <<tx, item>>
           e == Entry.event
           position == PositionOf(tx, item)
<1>1. \A k, i : PositionOf(k, i)' = PositionOf(k, i)
  BY Zenon DEF Persist, chainVars, PositionOf
<1>2. SUFFICES ASSUME NEW s \in Subjects
               PROVE  /\ projections'[s].status # "absent" <=> StoredOf(s, Inserting)' # {}
                      /\ projections'[s].status # "absent" =>
                           \E x \in StoredOf(s, EventNames)' :
                             projections'[s].last = PositionOf(x[1], x[2])
  BY <1>1, Zenon DEF RowsPlaced
<1>3. /\ projections[s].status # "absent" <=> StoredOf(s, Inserting) # {}
      /\ projections[s].status # "absent" =>
           \E x \in StoredOf(s, EventNames) : projections[s].last = PositionOf(x[1], x[2])
  BY Zenon DEF RowsPlaced
<1>4. StoredOf(s, EventNames) \subseteq StoredOf(s, EventNames)'
  BY StoredSame, StoredMore, Zenon
<1>5. CASE projections'[s] = projections[s] /\ StoredOf(s, Inserting)' = StoredOf(s, Inserting)
  BY <1>3, <1>4, <1>5, Zenon
<1>6. CASE s = e.subject /\ e.name \in Inserting
  <2>1. /\ z \in StoredOf(s, Inserting)' /\ z \in StoredOf(s, EventNames)'
        /\ z[1] = tx /\ z[2] = item
    <3>1. e.name \in EventNames
      BY <1>6, NamesDiffer, Zenon
    <3>2. QED
      BY <1>6, <3>1, StoredMore, Zenon
  <2>2. projections'[s] = InsertRow(projections[s], e, position)
    BY <1>6, RowWritten, Zenon
  <2>3. CASE projections[s].status = "absent"
    <3>1. projections'[s].status = FirstStatus[e.name] /\ projections'[s].last = position
      BY <2>2, <2>3 DEF InsertRow
    <3>2. QED
      BY <1>6, <2>1, <3>1, StatusNames, Zenon
  <2>4. CASE projections[s].status # "absent"
    BY <1>3, <1>4, <2>1, <2>2, <2>4, Zenon DEF InsertRow
  <2>5. QED
    BY <2>3, <2>4, Zenon
<1>7. CASE s = e.subject /\ e.name \in Updating
  <2>1. /\ z \in StoredOf(s, EventNames)' /\ z[1] = tx /\ z[2] = item
        /\ StoredOf(s, Inserting)' = StoredOf(s, Inserting)
    <3>1. e.name \in EventNames /\ e.name \notin Inserting
      BY <1>7, NamesDiffer, Zenon
    <3>2. QED
      BY <1>7, <3>1, StoredMore, StoredSame, Zenon
  <2>2. projections'[s] = UpdateRow(projections[s], e, position)
    BY <1>7, RowWritten, Zenon
  <2>3. CASE projections'[s] = Changed(projections[s], e, position)
             /\ projections[s].status # "absent"
    <3>1. /\ projections'[s].last = position
          /\ e.name \in DOMAIN FinalStatus => projections'[s].status = FinalStatus[e.name]
          /\ e.name \notin DOMAIN FinalStatus => projections'[s].status = projections[s].status
      BY <2>3 DEF Changed
    <3>2. projections'[s].status # "absent"
      BY <2>3, <3>1, StatusNames, Zenon
    <3>3. QED
      BY <1>3, <2>1, <2>3, <3>1, <3>2, Zenon
  <2>4. QED
    BY <1>5, <2>1, <2>2, <2>3, Zenon DEF UpdateRow
<1>8. CASE s = e.subject /\ e.name \notin Inserting \cup Updating
  BY <1>5, <1>8, StoredSame, RowWritten, Zenon
<1>9. CASE s # e.subject
  BY <1>5, <1>9, StoredSame, RowWritten, Zenon
<1>10. QED
  BY <1>6, <1>7, <1>8, <1>9, Zenon

(* A row keeps following its history when an event creates it ... *)
LEMMA CreatedFollows ==
  ASSUME ObserverInv, StoredInOrder, RowsPlaced, Persist,
         EventId(tx, Entry) \notin protocol_events, missed = {},
         NEW s, s = Entry.event.subject, Entry.event.name \in Inserting
  PROVE  RowFollows(s)'
<1> DEFINE z == <<tx, item>>
           e == Entry.event
           position == PositionOf(tx, item)
<1>1. /\ z \in Entries /\ EntryAt(z) = Entry /\ z[1] = tx
      /\ tx \notin Failed
      /\ \A x \in Entries : IsStored(x) => Earlier(x, z) /\ x[1] \notin Failed
  BY NewEntry, Zenon DEF StoredInOrder
<1>2. \A x \in Entries : IsStored(x) /\ EntryAt(x).event.subject = s =>
        EntryAt(x).event.name \notin Inserting \cup Updating
  BY <1>1, HistoryAssumption, Zenon
<1>3. \A names \in SUBSET (Inserting \cup Updating) : StoredOf(s, names) = {}
  BY <1>2, Zenon DEF StoredOf, IsStored
<1>4. /\ StoredOf(s, Inserting) = {} /\ StoredOf(s, DOMAIN FinalStatus) = {}
      /\ StoredOf(s, {"VaultPauseUpdated"}) = {}
  BY <1>3, NamesDiffer, Zenon
<1>5. /\ StoredOf(s, DOMAIN FinalStatus)' = {} /\ StoredOf(s, {"VaultPauseUpdated"})' = {}
      /\ StoredOf(s, Inserting)' # {} /\ LastOf(s, Inserting)' = e
      /\ LastOf(s, Inserting \cup {"VaultAuthorityUpdated"})' = e
  <2>1. e.name \notin DOMAIN FinalStatus /\ e.name \notin {"VaultPauseUpdated"}
    BY NamesDiffer
  <2>2. QED
    BY <1>4, <2>1, StoredSame, StoredMore, Zenon
<1>6. projections[s].status = "absent"
  BY <1>4, RowWritten, Zenon DEF RowsPlaced
<1>7. projections'[s] = InsertRow(projections[s], e, position)
  BY RowWritten, Zenon
<1>8. /\ projections'[s].status = FirstStatus[e.name]
      /\ projections'[s].authority = e.authority /\ projections'[s].paused = FALSE
  BY <1>6, <1>7, SMTT(30) DEF InsertRow
<1> HIDE DEF e
<1>9. QED
  BY <1>5, <1>8, Zenon DEF RowFollows

(* The columns an update sets, and the ones it keeps. *)
LEMMA ChangedColumns ==
  ASSUME NEW row, NEW e, NEW position
  PROVE  /\ e.name \in DOMAIN FinalStatus =>
              Changed(row, e, position).status = FinalStatus[e.name]
         /\ e.name \notin DOMAIN FinalStatus =>
              Changed(row, e, position).status = row.status
         /\ e.name = "VaultAuthorityUpdated" =>
              Changed(row, e, position).authority = e.authority
         /\ e.name # "VaultAuthorityUpdated" =>
              Changed(row, e, position).authority = row.authority
         /\ e.name = "VaultPauseUpdated" => Changed(row, e, position).paused = e.paused
         /\ e.name # "VaultPauseUpdated" => Changed(row, e, position).paused = row.paused
  BY Zenon DEF Changed

(* ... and when one updates it. *)
LEMMA UpdatedFollows ==
  ASSUME ObserverInv, StoredInOrder, RowsPlaced, Persist,
         EventId(tx, Entry) \notin protocol_events, missed = {}, PositionsFollowLedger,
         NEW s, s = Entry.event.subject, Entry.event.name \in Updating, RowFollows(s)
  PROVE  RowFollows(s)'
<1> DEFINE e == Entry.event
           position == PositionOf(tx, item)
<1>1. s \in Subjects /\ e \in IronVaultEvent
      /\ projections'[s] = UpdateRow(projections[s], e, position)
  BY RowWritten, Zenon
<1>2. /\ StoredOf(s, Inserting)' = StoredOf(s, Inserting)
      /\ LastOf(s, Inserting)' = LastOf(s, Inserting)
  BY StoredSame, NamesDiffer, Zenon
<1>3. CASE projections[s].status = "absent"
  <2>1. StoredOf(s, Inserting)' = {}
    BY <1>1, <1>2, <1>3, Zenon DEF RowsPlaced
  <2>2. projections'[s].status = "absent"
    BY <1>1, <1>3, Zenon DEF UpdateRow
  <2>3. QED
    BY <2>1, <2>2, Zenon DEF RowFollows
<1>4. CASE projections[s].status # "absent"
  <2>1. StoredOf(s, Inserting) # {}
    BY <1>1, <1>4, Zenon DEF RowsPlaced
  <2>2. projections'[s] = Changed(projections[s], e, position)
    BY <1>1, <1>4, RowIsOlder, Zenon DEF UpdateRow
  <2>3. CASE e.name \in DOMAIN FinalStatus
    <3>1. e.name # "VaultAuthorityUpdated" /\ e.name # "VaultPauseUpdated"
          /\ e.name \notin Inserting \cup {"VaultAuthorityUpdated"}
          /\ e.name \notin {"VaultPauseUpdated"}
      BY <2>3, NamesDiffer, ZenonT(30)
    <3>2. /\ projections'[s].status = FinalStatus[e.name]
          /\ projections'[s].authority = projections[s].authority
          /\ projections'[s].paused = projections[s].paused
      BY <2>2, <2>3, <3>1, ChangedColumns
    <3>3. /\ StoredOf(s, DOMAIN FinalStatus)' # {} /\ LastOf(s, DOMAIN FinalStatus)' = e
          /\ LastOf(s, Inserting \cup {"VaultAuthorityUpdated"})' =
               LastOf(s, Inserting \cup {"VaultAuthorityUpdated"})
          /\ StoredOf(s, {"VaultPauseUpdated"})' = StoredOf(s, {"VaultPauseUpdated"})
          /\ LastOf(s, {"VaultPauseUpdated"})' = LastOf(s, {"VaultPauseUpdated"})
      BY <2>3, <3>1, StoredSame, StoredMore, Zenon
    <3> HIDE DEF e
    <3>4. QED
      BY <1>2, <2>1, <3>2, <3>3, Zenon DEF RowFollows
  <2>4. CASE e.name = "VaultAuthorityUpdated"
    <3>1. e.name \notin DOMAIN FinalStatus /\ e.name # "VaultPauseUpdated"
          /\ e.name \in Inserting \cup {"VaultAuthorityUpdated"}
          /\ e.name \notin {"VaultPauseUpdated"}
      BY <2>4, NamesDiffer, Zenon
    <3>2. /\ projections'[s].status = projections[s].status
          /\ projections'[s].authority = e.authority
          /\ projections'[s].paused = projections[s].paused
      BY <2>2, <2>4, <3>1, ChangedColumns
    <3>3. /\ StoredOf(s, DOMAIN FinalStatus)' = StoredOf(s, DOMAIN FinalStatus)
          /\ LastOf(s, DOMAIN FinalStatus)' = LastOf(s, DOMAIN FinalStatus)
          /\ LastOf(s, Inserting \cup {"VaultAuthorityUpdated"})' = e
          /\ StoredOf(s, {"VaultPauseUpdated"})' = StoredOf(s, {"VaultPauseUpdated"})
          /\ LastOf(s, {"VaultPauseUpdated"})' = LastOf(s, {"VaultPauseUpdated"})
      BY <2>4, <3>1, StoredSame, StoredMore, Zenon
    <3> HIDE DEF e
    <3>4. QED
      BY <1>2, <2>1, <3>2, <3>3, Zenon DEF RowFollows
  <2>5. CASE e.name = "VaultPauseUpdated"
    <3>1. e.name \notin DOMAIN FinalStatus /\ e.name # "VaultAuthorityUpdated"
          /\ e.name \notin Inserting \cup {"VaultAuthorityUpdated"}
          /\ e.name \in {"VaultPauseUpdated"}
      BY <2>5, NamesDiffer, ZenonT(30)
    <3>2. /\ projections'[s].status = projections[s].status
          /\ projections'[s].authority = projections[s].authority
          /\ projections'[s].paused = e.paused
      BY <2>2, <2>5, <3>1, ChangedColumns
    <3>3. /\ StoredOf(s, DOMAIN FinalStatus)' = StoredOf(s, DOMAIN FinalStatus)
          /\ LastOf(s, DOMAIN FinalStatus)' = LastOf(s, DOMAIN FinalStatus)
          /\ LastOf(s, Inserting \cup {"VaultAuthorityUpdated"})' =
               LastOf(s, Inserting \cup {"VaultAuthorityUpdated"})
          /\ StoredOf(s, {"VaultPauseUpdated"})' # {}
          /\ LastOf(s, {"VaultPauseUpdated"})' = e
      BY <2>5, <3>1, StoredSame, StoredMore, Zenon
    <3>4. e.paused \in BOOLEAN
      BY <1>1 DEF IronVaultEvent
    <3> HIDE DEF e
    <3>5. projections'[s].paused = (/\ StoredOf(s, {"VaultPauseUpdated"})' # {}
                                    /\ LastOf(s, {"VaultPauseUpdated"})'.paused)
      BY <3>2, <3>3, <3>4, Zenon
    <3>6. QED
      BY <1>2, <2>1, <3>2, <3>3, <3>5, Zenon DEF RowFollows
  <2>6. QED
    BY <2>3, <2>4, <2>5, NamesDiffer, Zenon
<1>5. QED
  BY <1>3, <1>4
(* persist keeps the history and the rows together. *)
LEMMA PersistHistory ==
  ASSUME ObserverInv, HistoryInv, Persist
  PROVE  HistoryInv'
<1>1. /\ UNCHANGED <<finalized, slot_of, missed>> /\ finalized \in Nat
      /\ StoredInOrder /\ RowsPlaced /\ ProjectionsFollowHistory
  BY StoreAssumption
     DEF Persist, chainVars, historyVars, ObserverInv, ObserverTypeOK, HistoryInv
<1>2. CASE EventId(tx, Entry) \in protocol_events
  <2>1. UNCHANGED <<protocol_events, projections>>
    BY <1>2, Zenon DEF Persist, persist
  <2>2. QED
    BY <1>1, <2>1, QuietHistory
<1>3. CASE EventId(tx, Entry) \notin protocol_events
  <2>1. StoredInOrder' /\ RowsPlaced'
    BY <1>1, <1>3, StoredInOrderStep, RowsPlacedStep, Zenon
  <2>2. ASSUME missed' = {}, PositionsFollowLedger', NEW s \in Subjects
        PROVE  RowFollows(s)'
    <3>1. missed = {} /\ PositionsFollowLedger
      BY <1>1, <2>2, ZenonT(30) DEF PositionsFollowLedger, PositionOf
    <3>2. RowFollows(s)
      BY <1>1, <3>1, Zenon DEF ProjectionsFollowHistory
    <3>3. CASE s = Entry.event.subject /\ Entry.event.name \in Inserting
      BY <1>1, <1>3, <3>1, <3>3, CreatedFollows, Zenon
    <3>4. CASE s = Entry.event.subject /\ Entry.event.name \in Updating
      BY <1>1, <1>3, <3>1, <3>2, <3>4, UpdatedFollows, Zenon
    <3>5. CASE s # Entry.event.subject \/ Entry.event.name \notin Inserting \cup Updating
      <4>1. projections'[s] = projections[s]
        BY <1>3, <3>5, RowWritten, Zenon
      <4>2. \A names \in SUBSET (Inserting \cup Updating) :
              StoredOf(s, names)' = StoredOf(s, names) /\ LastOf(s, names)' = LastOf(s, names)
        BY <1>1, <1>3, <3>5, StoredSame, Zenon
      <4>3. /\ Inserting \subseteq Inserting \cup Updating
            /\ DOMAIN FinalStatus \subseteq Inserting \cup Updating
            /\ Inserting \cup {"VaultAuthorityUpdated"} \subseteq Inserting \cup Updating
            /\ {"VaultPauseUpdated"} \subseteq Inserting \cup Updating
        BY NamesDiffer
      <4>4. QED
        BY <3>2, <4>1, <4>2, <4>3, Zenon DEF RowFollows
    <3>6. QED
      BY <3>3, <3>4, <3>5, Zenon
  <2>3. QED
    BY <2>1, <2>2, Zenon DEF HistoryInv, ProjectionsFollowHistory
<1>4. QED
  BY <1>2, <1>3, Zenon

(* Every other step stores nothing. *)
LEMMA HistoryElsewhere ==
  ASSUME ObserverInv, HistoryInv, [ObserverNext]_observerVars, ~Persist
  PROVE  HistoryInv'
<1>1. finalized \in Nat /\ finalized' \in Nat
  <2>1. ObserverInv'
    BY NextInv, Zenon
  <2>2. QED
    BY <2>1, StoreAssumption DEF ObserverInv, ObserverTypeOK
<1>2. UNCHANGED <<protocol_events, projections>> /\ missed \subseteq missed'
  BY ZenonT(30) DEF ObserverNext, ObserverStep, observerVars, storeVars, historyVars,
         FinalizeSlot, LoseNotification, SkipTransaction, Connect, ReadCheckpoint, ListPage,
         FetchTransaction, FinishReplay, ReadSlot, HandleMessage, ReconciliationTick,
         SkipUndecodable, Announce, FinishTransaction, ConnectionError, Crash, MonitorSlot
<1>3. finalized <= finalized' /\ \A k \in 1 .. finalized : slot_of'[k] = slot_of[k]
  <2>1. CASE UNCHANGED chainVars
    BY <1>1, <2>1 DEF chainVars
  <2>2. ASSUME NEW n \in 0 .. MaxPerSlot, FinalizeSlot(n)
        PROVE  finalized <= finalized' /\ \A k \in 1 .. finalized : slot_of'[k] = slot_of[k]
    <3>1. /\ finalized' = finalized + n /\ finalized + n <= Transactions /\ n \in Nat
          /\ slot_of' = [k \in Signatures |->
               IF k \in finalized + 1 .. finalized + n THEN tip + 1 ELSE slot_of[k]]
      BY <2>2, ObserverAssumption DEF FinalizeSlot
    <3>2. \A k \in 1 .. finalized : k \in Signatures /\ k \notin finalized + 1 .. finalized + n
      BY <1>1, <3>1, StoreAssumption DEF Signatures
    <3>3. QED
      BY <1>1, <3>1, <3>2
  <2>3. QED
    BY <2>1, <2>2, ZenonT(30) DEF ObserverNext, ObserverStep, observerVars,
         LoseNotification, SkipTransaction, Connect, ReadCheckpoint, ListPage,
         FetchTransaction, FinishReplay, ReadSlot, HandleMessage, ReconciliationTick,
         SkipUndecodable, Announce, FinishTransaction, ConnectionError, Crash, MonitorSlot
<1>4. QED
  BY <1>1, <1>2, <1>3, QuietHistory, ZenonT(30)

(* The projections are the fold of the stored events at every moment,      *)
(* through every replay, reconnection and crash, as long as no delivery    *)
(* was lost and positions follow the ledger: apply_projection, which sees  *)
(* each event once and only what is newer, never drops an update.          *)
THEOREM ProjectionsAreTheFold == ObserverSpec => []ProjectionsFollowHistory
<1>1. ObserverInit => HistoryInv
  <2> SUFFICES ASSUME ObserverInit PROVE HistoryInv
    OBVIOUS
  <2>1. /\ protocol_events = {}
        /\ \A s \in Subjects : projections[s].status = "absent"
    BY DEF ObserverInit, StoreInit, NoRow
  <2>2. \A s, names : StoredOf(s, names) = {}
    BY <2>1, Zenon DEF StoredOf
  <2>3. StoredInOrder /\ RowsPlaced
    BY <2>1, <2>2, Zenon DEF StoredInOrder, IsStored, RowsPlaced
  <2>4. ProjectionsFollowHistory
    BY <2>1, <2>2, Zenon DEF ProjectionsFollowHistory, RowFollows
  <2>5. QED
    BY <2>3, <2>4 DEF HistoryInv
<1>2. ObserverInv /\ HistoryInv /\ [ObserverNext]_observerVars => HistoryInv'
  BY PersistHistory, HistoryElsewhere, Zenon
<1>3. HistoryInv => ProjectionsFollowHistory
  BY DEF HistoryInv
<1>4. QED
  BY <1>1, <1>2, <1>3, Invariance, PTL DEF ObserverSpec

-----------------------------------------------------------------------------
(***************************************************************************)
(* Refinement.                                                             *)
(***************************************************************************)

(* A step that finalizes nothing, stores nothing and announces nothing is  *)
(* a stutter of the promised log.                                          *)
LEMMA QuietStutters ==
  ASSUME UNCHANGED <<finalized, protocol_events, announced>>
  PROVE  UNCHANGED <<Known, protocol_events, announced>>
  BY SMTT(30) DEF Known

(* Every step of the observer is a step of the event log, or a stutter. *)
LEMMA PromiseStep ==
  ASSUME ObserverInv, [ObserverNext]_observerVars
  PROVE  [Promise!Next]_<<Known, protocol_events, announced>>
<1>1. ASSUME NEW n \in 0 .. MaxPerSlot, FinalizeSlot(n)
      PROVE  Promise!Grow
  <2>1. UNCHANGED <<protocol_events, announced>> /\ finalized' = finalized + n
    BY <1>1, Zenon DEF FinalizeSlot, storeVars, historyVars
  <2>2. 1 .. finalized \subseteq 1 .. finalized' /\ 1 .. finalized' \subseteq Signatures
    BY <1>1, <2>1, ObserverAssumption, StoreAssumption
       DEF FinalizeSlot, ObserverInv, ObserverTypeOK, Signatures
  <2>3. Known \subseteq Known' /\ Known' \subseteq EventIds
    BY <2>2 DEF Known, EventIds
  <2>4. QED
    BY <2>1, <2>3 DEF Promise!Grow
<1>2. CASE Persist
  <2>1. CASE EventId(tx, Entry) \in protocol_events
    <3>1. UNCHANGED <<finalized, protocol_events, announced>>
      BY <1>2, <2>1, PersistEffect, Zenon DEF Persist, chainVars, historyVars
    <3>2. QED
      BY <3>1, QuietStutters
  <2>2. CASE EventId(tx, Entry) \notin protocol_events
    <3>1. /\ tx \in (1 .. finalized) \ Failed /\ item \in Decoded(tx)
          /\ EventId(tx, Entry) \in EventIds
      BY <1>2, PersistEffect, EntryType, Zenon DEF Persist
    <3>2. EventId(tx, Entry) \in Known
      BY <3>1 DEF Known, Entry
    <3>3. /\ protocol_events' = protocol_events \cup {EventId(tx, Entry)}
          /\ UNCHANGED <<Known, announced>>
      BY <1>2, PersistEffect, Zenon DEF Persist, chainVars, historyVars, Known
    <3>4. Promise!Record(EventId(tx, Entry))
      BY <2>2, <3>2, <3>3, Zenon DEF Promise!Record
    <3>5. QED
      BY <3>1, <3>4 DEF Promise!Next
  <2>3. QED
    BY <2>1, <2>2
<1>3. CASE Announce
  <2>1. /\ tx \in Signatures /\ AtEntry /\ Entry.ok
        /\ EventId(tx, Entry) \in protocol_events
        /\ announced[EventId(tx, Entry)] = 0
    BY <1>3, StoreAssumption
       DEF Announce, ObserverInv, ObserverTypeOK, AnnounceInv, WorkInv, Signatures
  <2>2. EventId(tx, Entry) \in EventIds
    BY <2>1, EntryType, Zenon
  <2>3. announced' = [announced EXCEPT ![EventId(tx, Entry)] = 1]
    <3>1. /\ announced' = [announced EXCEPT ![EventId(tx, Entry)] =
                            announced[EventId(tx, Entry)] + 1]
          /\ 0 + 1 = 1
      BY <1>3 DEF Announce
    <3>2. QED
      BY <2>1, <3>1, Zenon
  <2>4. UNCHANGED <<Known, protocol_events>>
    BY <1>3, Zenon DEF Announce, chainVars, storeVars, Known
  <2>5. Promise!Announce(EventId(tx, Entry))
    BY <2>1, <2>3, <2>4, Zenon DEF Promise!Announce
  <2>6. QED
    BY <2>2, <2>5, ZenonT(30) DEF Promise!Next
<1>4. CASE UNCHANGED <<finalized, protocol_events, announced>>
  BY <1>4, QuietStutters
<1>5. QED
  BY <1>1, <1>2, <1>3, <1>4, Zenon
     DEF ObserverNext, ObserverStep, Promise!Next, observerVars, storeVars, chainVars,
         historyVars, LoseNotification, SkipTransaction, Connect, ReadCheckpoint,
         ListPage, FetchTransaction, FinishReplay, ReadSlot, HandleMessage,
         ReconciliationTick, SkipUndecodable, FinishTransaction, ConnectionError, Crash,
         MonitorSlot

(* The observer implements the promised event log: whatever is delivered   *)
(* twice, replayed or interrupted, an event is stored once, from a         *)
(* finalized and successful transaction, and announced at most once.       *)
THEOREM ObserverKeepsPromise == ObserverSpec => KeepsEventPromise
<1>1. ObserverInit => Promise!Init
  BY DEF ObserverInit, StoreInit, Promise!Init, Known
<1>2. ObserverInv /\ [ObserverNext]_observerVars =>
        [Promise!Next]_<<Known, protocol_events, announced>>
  BY PromiseStep
<1>3. QED
  BY <1>1, <1>2, Invariance, PTL DEF ObserverSpec, KeepsEventPromise, Promise!Spec

=============================================================================
