SPECIFICATION Spec
CONSTANTS
  Gens = {g1}
  MaxConcurrent = 1
  RejectWhenFull = FALSE
  Procs = {p1, p2}
  Specs <- StableSpecs
  OutsideSpecs <- NoSpecs
  Clients = {c1}
  Names <- MCNames
  Catalogs <- StableCatalogs
  ModelName = "a"
  NoModel = NoModel
  VramBudget = 3
  HostVram = 3
INVARIANTS SameModelSwapOk
