SPECIFICATION PathSpec
CONSTANTS
  Null = Null
  base = base
  paid = paid
  spare = spare
  Calls = {c1, c2}
  Models <- SmallModels
  Fallbacks <- SmallFallbacks
  MinPlan <- SmallMinPlan
  MaxFallbacks = 3
  Allocation = 1
  Requested <- SmallRequested
  Edited <- SmallEdited
  Rekeyed <- SmallRekeyed
  Scripts <- SmallScripts
  Proxies = 3
  Cooldown = 2
  Ticks = 2
  Keys = {one, other}
  Window = 2
  Limits = {1, 2}
  Minutes = 5
  Parts = {"pool"}
SYMMETRY Symmetry
PROPERTIES
  OverIsNotRepeated
CHECK_DEADLOCK FALSE
