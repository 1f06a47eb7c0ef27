\* One request, a tightened policy, both pauses and an account that changes hands.
SPECIFICATION VaultSpec
CONSTANTS
  authority = authority  guardian = guardian  operator = operator
  gold = gold  fee = fee  purse = purse
  Keys = {authority, guardian}
  DefaultKey = DefaultKey
  ProtocolAuthorities <- MCAuthorities
  PauseChoices = {{}, {"VAULT_OUTFLOW"}}
  MaxTime = 3
  Mints = {gold}
  SupportedMints = {gold}
  Wallets = {purse}
  WalletMint <- MCWalletMint
  InitialBalances <- RequestBalances
  Amounts = {1, 2}
  U64Max = 4
  VaultFounders <- MCFounders
  Successors = {}
  RoleGrants = {}
  VaultAddress = VaultAddress
  WalletOwners <- MCWalletOwners
  OwnerChanges <- RequestOwnerChanges
  PolicyChoices <- RequestPolicies
  MaxWithdrawals = 1
  I64Max = 20
INVARIANTS GuardianCanVeto 
PROPERTIES OutflowFollowsRules KeepsWithdrawalPromise
