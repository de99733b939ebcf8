\* A tree whose maximum the caller does not store, of seats or of orders of two
\* owners, walked and looked up.
SPECIFICATION Spec
CONSTANTS
    Index = {b1, b2, b3, b4, b5}
    NIL = NIL
    Keys = {1, 2, 3, 4, 5}
    Owners = {anne, bert}
    TOLERANCE = 1
    TRACKS_MAX = FALSE
VIEW Shape
INVARIANTS
    IterationComplete
    LookupExact
