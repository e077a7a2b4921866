SPECIFICATION Spec
CONSTANTS
    cr = cr
    lf = lf
    nul = nul
    x = x
    SegSize = 2
    Chars = {cr, lf, nul, x}
    CR = cr
    LF = lf
    NUL = nul
    MaxLen = 4
INVARIANTS TypeOK RoundTrip CutsIntoBlocks SentAgainUnchanged WrittenWhenWaiting
CHECK_DEADLOCK FALSE
