\* A taker rests at the price that a reverse order came back at.
SPECIFICATION RunSlimReader
CONSTANTS
    t1 = t1
    t2 = t2
    Traders <- MCTwoTraders
    D18 = 2
    ATOM_LIMIT = 100
    PRICE_LIMIT = 1000
    MAX_BLOCKS = 6
    SPREAD_BASE <- MCSpreadBase
    SPREAD_MODULUS = 4
    MAX_GLOBAL_SEATS = 1
    InitialWallet <- MCWallet
    Amounts = {2}
    Batches <- MCBatches
    Swaps <- MCSwaps
    GlobalsPassed <- MCGlobals
    HookMints <- NoHooks
    MAX_PRICE = 50
    MaxSeq = 4
    MaxSlot = 3
    MaxExpand = 0
    ONE_IN_BASIS_POINTS = 4
    FeeSchedules <- MCFeeSchedules
    MaxGross = 16
INVARIANTS
    SlimReaderAccepts
CHECK_DEADLOCK FALSE
