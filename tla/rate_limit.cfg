CONSTANTS
    Workers = {w1, w2, w3}
    Limit = 2
    Window = 4
    MaxStall = 2
    MaxClock = 9
SPECIFICATION Spec
INVARIANTS TypeOK AdmissionsAreSpaced
PROPERTIES RefusalsAreEarned
SYMMETRY Symmetry
