\* No fault at all: two transactions of one slot are enough.
SPECIFICATION ObserverFairSpec
CONSTANTS
  Subjects = {"vault", "escrow"}
  Authorities = {"alice", "bob"}
  Transactions = 4
  Failed = {4}
  Parsed <- MCParsed
  MaxSlot = 2
  MaxPerSlot = 2
  PageSize = 2
  MaxReadySlotLag = 0
  FaultKinds = {}
  MaxFaults = 0
INVARIANTS ReadModelApplied
