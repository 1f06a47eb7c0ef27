\* Two sessions of the SDK, and requests that compete for custody and for the window.
SPECIFICATION ClientSpec
CONSTANTS
  authority = authority  guardian = guardian  operator = operator
  gold = gold  fee = fee  purse = purse
  Keys = {authority, guardian, operator}
  DefaultKey = DefaultKey
  ProtocolAuthorities <- MCAuthorities
  PauseChoices = {}
  MaxTime = 1
  Mints = {gold}
  SupportedMints = {gold}
  Wallets = {purse}
  WalletMint <- MCWalletMint
  InitialBalances <- MCBalances
  Amounts = {2}
  U64Max = 4
  VaultFounders <- MCFounders
  Successors = {}
  RoleGrants <- MCRequestRole
  VaultAddress = VaultAddress
  WalletOwners <- MCWalletOwners
  OwnerChanges = {}
  PolicyChoices <- ClientPolicies
  MaxWithdrawals = 2
  I64Max = 20
  first = first  second = second
  Sessions = {first, second}
  payer <- MCPayer
INVARIANTS RequestsContiguous RequestedAssetHasWindow ReturnedIdIsOwn
