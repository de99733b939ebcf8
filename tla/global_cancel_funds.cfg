\* A batch that cancels a global order and places another one.
SPECIFICATION StartWrapper
CONSTANTS
    t1 = t1
    t2 = t2
    Traders <- MCTwoTraders
    D18 = 2
    ATOM_LIMIT = 100
    PRICE_LIMIT = 1000
    MAX_BLOCKS = 7
    SPREAD_BASE <- MCSpreadBase
    SPREAD_MODULUS = 4
    MAX_GLOBAL_SEATS = 1
    InitialWallet <- WrapperWallet
    Amounts = {2}
    Batches <- WrapperDirect
    Swaps <- Nothing
    GlobalsPassed <- BaseOnly
    HookMints <- NoHooks
    MAX_PRICE = 50
    MaxSeq = 2
    MaxSlot = 3
    MaxExpand = 0
    Owner = t1
    WrapperBatches <- MCWrapperBatches
    WRAPPER_EXPAND_BLOCKS = 2
    RELATIVE_SLOTS = 10
    MAX_INFOS = 1
INVARIANTS
    OrdersFunded
CHECK_DEADLOCK FALSE
