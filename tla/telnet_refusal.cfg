\* Both ends ask at most once each.
SPECIFICATION Spec
CONSTANT MaxAsks = 1
INVARIANT NoDisagreement
CHECK_DEADLOCK FALSE
