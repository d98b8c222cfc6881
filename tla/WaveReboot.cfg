SPECIFICATION Spec
CONSTANTS
  ha = ha
  hb = hb
  hc = hc
  i1 = i1
  i2 = i2
  i3 = i3
  i4 = i4
  Host = {ha, hb, hc}
  Instance = {i1, i2, i3, i4}
  NoHost = NoHost
  Capacity <- Roomy
  Home <- OnePerHost
  Shutoff = {i3}
  MaxFaults = 0
  MaxStrays = 0
  MaxPlacements = 0
  Wave = {ha, hb}
  MaxParallelDrains = 2
  PoolSlots = 2
  Retries = 1
PROPERTY RebootOnlyEmpty
