SPECIFICATION Spec
CONSTANT
    Bodies <- MCBodies
INVARIANTS
    InOrder
    EndIsComplete
    LengthIsTrue
PROPERTY
    Resolves
CHECK_DEADLOCK FALSE
