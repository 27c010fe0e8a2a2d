SPECIFICATION Spec
CONSTANTS
    Bodies <- MCBodies
    MaxBlocks = 5
    GenesisCoins <- MCGenesisCoins
    GenesisFunds <- MCGenesisFunds
    Coinbase = 2
    MaturityDelay = 2
    SiafundCount = 2
    TaxMul = 1
    TaxDiv = 3
    SegmentOf <- MCSegmentOf
    SpfAirdropHeight = 99
    ForkedFunds <- MCForkedFunds
    SpfHardforkHeight = 99
    SpfSecondHardforkHeight = 99
    HardforkFunds <- MCHardforkFunds
CHECK_DEADLOCK FALSE
INVARIANTS
    Consistent
    ContractsSettled
    HistoryIndependent
    SubscriberHasDatabase
    TryAgreesWithBlock
