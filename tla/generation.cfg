SPECIFICATION FairSpec
CONSTANT MaxLines = 4
CHECK_DEADLOCK FALSE
INVARIANTS TypeOK OneTerminal DoneIsHonest NothingDropped
PROPERTIES GenerationEnds
