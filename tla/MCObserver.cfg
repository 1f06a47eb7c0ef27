\* Two slots, pages of two signatures, and any two faults.
SPECIFICATION ObserverFairSpec
CONSTANTS
  Subjects = {"vault", "escrow"}
  Authorities = {"alice", "bob"}
  Transactions = 4
  Failed = {4}
  Parsed <- MCParsed
  MaxSlot = 2
  MaxPerSlot = 2
  PageSize = 2
  MaxReadySlotLag = 0
  FaultKinds = {"lost", "skipped", "error", "crash"}
  MaxFaults = 2
INVARIANTS
  ObserverTypeOK
  GapsAreMissed
  SessionAccounted
  ProjectionsFollowHistory
PROPERTIES
  ReconciliationRepairs
  RowsNeverRegress
  KeepsEventPromise
  StoredWithinPage
  ReadyForEverySlot
