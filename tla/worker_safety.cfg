SPECIFICATION Spec
CONSTANTS
  Gens = {g1, g2}
  MaxConcurrent = 1
  RejectWhenFull = TRUE
  Procs = {p1, p2}
  Specs <- EditedSpecs
  OutsideSpecs <- OutsideA
  Clients = {c1, c2}
  Names <- MCNames
  Catalogs <- EditedCatalogs
  ModelName = "a"
  NoModel = NoModel
  VramBudget = 3
  HostVram = 3
SYMMETRY Symmetric
INVARIANTS TypeOK LockDiscipline DrainingIsSwap StoppedIsReaped
  NoUntrackedEngine OneTrackedEngine InstancesAreOurs
PROPERTIES SwapReplies StopEmpties
