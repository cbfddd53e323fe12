SPECIFICATION DeafSpec
CONSTANTS
  Procs = {p1}
  Specs <- MCSpecs
  OutsideSpecs <- NoSpecs
PROPERTIES StopEnds
