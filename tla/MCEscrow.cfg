\* One maker, two escrows, two mints (one of them unsupported).
SPECIFICATION EscrowFairSpec
CONSTANTS
  alice = alice  bob = bob  admin = admin  guardian = guardian
  gold = gold  fee = fee
  aliceGold = aliceGold  bobGold = bobGold  bobFee = bobFee
  Keys = {alice, bob, admin, guardian}
  DefaultKey = DefaultKey
  ProtocolAuthorities <- MCAuthorities
  PauseChoices <- MCPauseChoices
  MaxTime = 2
  Mints = {gold, fee}
  SupportedMints = {gold}
  Wallets = {aliceGold, bobGold, bobFee}
  WalletMint <- MCWalletMint
  WalletOwner <- MCWalletOwner
  InitialBalances <- MCBalances
  Amounts = {0, 1, 2}
  U64Max = 3
  Makers = {alice}
  EscrowIds = {1, 2}
  Recipients <- MCRecipients
INVARIANTS TypeOK CustodyCoversFunded ExitsPartitionTime 
PROPERTIES CustodyPaysEntitledParty KeepsPromise EventuallySettled
