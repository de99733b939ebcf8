\* A bookside with equal prices that the validation of the clients rejects.
SPECIFICATION Spec
CONSTANTS
    Index = {b1, b2, b3, b4}
    NIL = NIL
    Keys = {1, 2}
    Owners = {anne}
    TOLERANCE = 0
    TRACKS_MAX = TRUE
VIEW Shape
INVARIANTS
    ValidationAccepts
