SPECIFICATION MCSpec
CONSTANTS
  agent = agent
  flasher = flasher
  lessee = lessee
  prober = prober
  Writer = {agent, flasher, lessee, prober}
  Crews = {{agent, flasher}, {lessee}, {prober}}
  None = None
  Class <- MCClass
  PayloadLen = 2
  LedgerMax = 1
  MaxGen = 1
  MaxSends = 2
CHECK_DEADLOCK FALSE
INVARIANTS
  FlashNeverSplitsPayload
  WalAccountsForLine
PROPERTIES
  ReceiptMeansSilence
  WritesAreAuthorised
  FreezeMeansSilence
