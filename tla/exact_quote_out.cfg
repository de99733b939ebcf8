\* A swap for an exact output of quote on a book with one bid.
SPECIFICATION RunExactQuoteOut
CONSTANTS
    t1 = t1
    t2 = t2
    Traders <- MCTwoTraders
    D18 = 2
    ATOM_LIMIT = 100
    PRICE_LIMIT = 1000
    MAX_BLOCKS = 5
    SPREAD_BASE <- MCSpreadBase
    SPREAD_MODULUS = 4
    MAX_GLOBAL_SEATS = 1
    InitialWallet <- MCWallet
    Amounts = {2}
    Batches <- MCBatches
    Swaps <- MCSwaps
    GlobalsPassed <- MCGlobals
    HookMints <- NoHooks
    MAX_PRICE = 50
    MaxSeq = 4
    MaxSlot = 3
    MaxExpand = 0
    ONE_IN_BASIS_POINTS = 4
    FeeSchedules <- MCFeeSchedules
    MaxGross = 16
INVARIANTS
    EstimateErrorFree
CHECK_DEADLOCK FALSE
