SPECIFICATION FairSpec
CONSTANTS
  NIC = {n1, n2}
  PhaseLists <- TheLists
  DryChoices = {TRUE, FALSE}
  PreserveChoices = {TRUE, FALSE}
  KeepIpChoices = {TRUE, FALSE}
  MaxFaults = 3
INVARIANT TypeOK
INVARIANT CleanRunServes
INVARIANT OneInstance
INVARIANT OffOnlyWithDisk
PROPERTY RunEnds
