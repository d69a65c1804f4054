SPECIFICATION PinSpec
CONSTANTS
    Calls = {r1, r2, r3}
    NumNodes = 2
    Interval = 2
    MaxTime = 4
SYMMETRY Interchangeable
PROPERTY PinsUntilError
