\* One option, both ends asking for it and against it up to five times each.
\* The system stops when both ends have asked as often as they may.
SPECIFICATION FairSpec
CONSTANT MaxAsks = 5
INVARIANTS TypeOK OfOneMind NoneForgotten Granted
PROPERTIES ComesToRest
CHECK_DEADLOCK FALSE
