\* Every log of at most eleven lines: three programs that nest, emit and print.
SPECIFICATION ParserSpec
CONSTANTS
  program_id = "iron"
  token = "token"
  OtherPrograms = {"other"}
  printed = "log: message"
  Payloads = {"event", "garbage"}
  Decodable = {"event"}
  MaxLines = 11
INVARIANTS IdentitiesIncrease ParserFindsEmissions
CHECK_DEADLOCK FALSE
