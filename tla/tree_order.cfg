\* Every sequence of insertions and removals on a tree with a stored maximum.
SPECIFICATION Spec
CONSTANTS
    Index = {b1, b2, b3, b4, b5, b6, b7, b8, b9, b10}
    NIL = NIL
    Keys = {1, 2}
    Owners = {anne}
    TOLERANCE = 0
    TRACKS_MAX = TRUE
VIEW Shape
INVARIANTS
    LinksSound
    BalancedUpToRepair
    MaximumExact
    ListTakesOver
PROPERTIES
    ImplementsPriorityList
    RepairClimbs
