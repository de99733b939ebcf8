\* Seats, funds and blocks from an empty market, and amounts at their limits.
SPECIFICATION RunAccounts
CONSTANTS
    t1 = t1
    t2 = t2
    Traders <- MCTwoTraders
    D18 = 2
    ATOM_LIMIT = 8
    PRICE_LIMIT = 1000
    MAX_BLOCKS = 5
    SPREAD_BASE <- MCSpreadBase
    SPREAD_MODULUS = 4
    MAX_GLOBAL_SEATS = 1
    InitialWallet <- EdgesWallet
    Amounts = {1}
    Batches <- MCBatches
    Swaps <- MCSwaps
    GlobalsPassed <- MCGlobals
    HookMints <- QuoteHook
    MAX_PRICE = 50
    MaxSeq = 4
    MaxSlot = 3
    MaxExpand = 2
    ONE_IN_BASIS_POINTS = 4
    FeeSchedules <- MCFeeSchedules
    MaxGross = 16
INVARIANTS
    TypeOK
    BlocksSound
    VaultBacksClaims
    OrdersReturnable
PROPERTIES
    InstructionTerminates
CHECK_DEADLOCK FALSE
