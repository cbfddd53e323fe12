SPECIFICATION Spec
CONSTANTS
  Hosts = {h1, h2}
  Models = {a}
  NoModel = NoModel
  MaxCmds = 1
INVARIANTS FleetHearsAll
