SPECIFICATION FairSpec
CONSTANTS
  Hosts = {h1, h2}
  Models = {a, b}
  NoModel = NoModel
  MaxCmds = 2
INVARIANTS TypeOK OkMeansDone OkServes
PROPERTIES CommandEnds
