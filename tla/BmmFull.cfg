SPECIFICATION FairSpec
CONSTANTS
  m1 = m1
  m2 = m2
  m3 = m3
  r1 = r1
  chg = chg
  Machine = {m1, m2, m3}
  Driver = {chg}
  RackOf <- OneRack
  Scope <- WholeRack
  MinHealthyPerRack = 2
  PhasesInUse = {"full"}
  KeepGoingChoices = {TRUE, FALSE}
  Hosting = {m1}
  NoEvacuate = FALSE
  MaxFaults = 1
  MaxPlacements = 1
INVARIANT TypeOK
INVARIANT PowerFloor
INVARIANT OffIsResumable
INVARIANT RowOkMeansBack
INVARIANT OneAtATime
INVARIANT GoCanStart
PROPERTY ImplementsWindow
PROPERTY RunEnds
PROPERTY JournalledOffComesBack
