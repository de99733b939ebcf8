\* Orders, cancels and settlements through the UI wrapper, between instructions on
\* the core.
SPECIFICATION StartUi
CONSTANTS
    t1 = t1
    t2 = t2
    Traders <- MCTwoTraders
    D18 = 2
    ATOM_LIMIT = 100
    PRICE_LIMIT = 1000
    MAX_BLOCKS = 7
    SPREAD_BASE <- MCSpreadBase
    SPREAD_MODULUS = 4
    MAX_GLOBAL_SEATS = 1
    InitialWallet <- UiWallet
    Amounts = {2}
    Batches <- UiDirect
    Swaps <- Nothing
    GlobalsPassed <- NoGlobals
    HookMints <- NoHooks
    MAX_PRICE = 50
    MaxSeq = 3
    MaxSlot = 3
    MaxExpand = 0
    Owner = t1
    UiOrders <- MCUiOrders
    FEE_DENOMINATOR = 4
    FeeMantissas = {3}
    PlatformPercents = {50}
INVARIANTS
    UiBlocksSound
    VolumeBilledOnce
    UiOrderFunded
PROPERTIES
    UiViewExact
CHECK_DEADLOCK FALSE
