\* Two processes of one user and one of the other, on two machines.
SPECIFICATION Spec
CONSTANTS
    a1 = a1
    a2 = a2
    b1 = b1
    ann = ann
    bob = bob
    here = here
    there = there
    None = None
    Procs = {a1, a2, b1}
    Owner <- MCOwner
    Home <- MCHome
    MaxId = 16
    MaskKept = TRUE
    MaxFaults = 1
SYMMETRY MCSymmetry
INVARIANTS TypeOK CanBeFound Mutual Tidy
PROPERTIES TakesNoOther
\* Everybody has hung up, or waits for a party that does not come.
CHECK_DEADLOCK FALSE
