\* A window as long as the largest time.
SPECIFICATION VaultSpec
CONSTANTS
  authority = authority  guardian = guardian  operator = operator
  gold = gold  fee = fee  purse = purse
  Keys = {authority, guardian}
  DefaultKey = DefaultKey
  ProtocolAuthorities <- MCAuthorities
  PauseChoices = {}
  MaxTime = 4
  Mints = {gold}
  SupportedMints = {gold}
  Wallets = {purse}
  WalletMint <- MCWalletMint
  InitialBalances <- MCBalances
  Amounts = {1, 2}
  U64Max = 4
  VaultFounders <- MCFounders
  Successors = {}
  RoleGrants = {}
  VaultAddress = VaultAddress
  WalletOwners <- MCWalletOwners
  OwnerChanges = {}
  PolicyChoices <- LongWindowPolicies
  MaxWithdrawals = 1
  I64Max = 20
INVARIANTS WindowEndsRepresentable
