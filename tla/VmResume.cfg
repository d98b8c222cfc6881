SPECIFICATION Spec
CONSTANTS
  NIC = {n1}
  PhaseLists <- FullList
  DryChoices = {FALSE}
  PreserveChoices = {TRUE}
  KeepIpChoices = {TRUE}
  MaxFaults = 1
PROPERTY ResumePicksUp
