\* Rotations, roles, pauses and the configuration of two mints, one of them unsupported.
SPECIFICATION VaultSpec
CONSTANTS
  authority = authority  guardian = guardian  operator = operator
  gold = gold  fee = fee  purse = purse
  Keys = {authority, guardian, operator}
  DefaultKey = DefaultKey
  ProtocolAuthorities <- MCAuthorities
  PauseChoices = {{}, {"VAULT_CONFIG"}}
  MaxTime = 1
  Mints = {gold, fee}
  SupportedMints = {gold}
  Wallets = {purse}
  WalletMint <- MCWalletMint
  InitialBalances <- RequestBalances
  Amounts = {1, 2}
  U64Max = 4
  VaultFounders <- MCFounders
  Successors = {authority, operator, guardian, DefaultKey}
  RoleGrants <- AccessGrants
  VaultAddress = VaultAddress
  WalletOwners <- MCWalletOwners
  OwnerChanges = {}
  PolicyChoices <- AccessPolicies
  MaxWithdrawals = 1
  I64Max = 20
INVARIANTS VaultTypeOK GuardianNeverAuthorized
PROPERTIES ConfigPauseFreezesConfig
