\* One notification is lost; the next page of signatures does not reach back to it.
SPECIFICATION ObserverFairSpec
CONSTANTS
  Subjects = {"vault", "escrow"}
  Authorities = {"alice", "bob"}
  Transactions = 4
  Failed = {4}
  Parsed <- MCParsed
  MaxSlot = 2
  MaxPerSlot = 2
  PageSize = 2
  MaxReadySlotLag = 0
  FaultKinds = {"lost"}
  MaxFaults = 1
PROPERTIES EventuallyStored
