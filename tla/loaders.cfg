\* The lists of the clients, as built and with one mistake.
SPECIFICATION Spec
CONSTANTS
    Payer = payer
    Owner = owner
INVARIANTS
    ListsAgree
CHECK_DEADLOCK FALSE
