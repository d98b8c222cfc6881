SPECIFICATION SplitSpec
CONSTANTS
  m1 = m1
  m2 = m2
  m3 = m3
  r1 = r1
  chg = chg
  Machine = {m1, m2, m3}
  Driver = {chg}
  RackOf <- OneRack
  Scope <- WholeRack
  MinHealthyPerRack = 2
  PhasesInUse = {"shutdown", "restore"}
  KeepGoingChoices = {FALSE}
  Hosting = {m1}
  NoEvacuate = FALSE
  MaxFaults = 0
  MaxPlacements = 0
INVARIANT RowOkMeansBack
