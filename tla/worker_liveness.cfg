SPECIFICATION FairSpec
CONSTANTS
  Gens = {g1, g2}
  MaxConcurrent = 1
  RejectWhenFull = FALSE
  Procs = {p1}
  Specs <- StableSpecs
  OutsideSpecs <- NoSpecs
  Clients = {c1, c2}
  Names <- MCNames
  Catalogs <- StableCatalogs
  ModelName = "a"
  NoModel = NoModel
  VramBudget = 3
  HostVram = 3
PROPERTIES OpEnds EveryWaiterServed
