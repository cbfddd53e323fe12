SPECIFICATION FairSpec
CONSTANTS
  Reqs = {r1, r2}
  MaxToken = 3
INVARIANTS TypeOK SingleUse PostOnlyWhenNeeded NoRepost DeadDiskFlagged
PROPERTIES Answered
