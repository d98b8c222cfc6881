SPECIFICATION FairSpec
CONSTANTS
  ha = ha
  hb = hb
  hc = hc
  i1 = i1
  i2 = i2
  i3 = i3
  i4 = i4
  Host = {ha, hb, hc}
  Instance = {i1, i2, i3, i4}
  NoHost = NoHost
  Capacity <- Tight
  Home <- OnePerHost
  Shutoff = {i3}
  MaxFaults = 2
  MaxStrays = 1
  MaxPlacements = 1
  Wave = {ha, hb}
  MaxParallelDrains = 1
  PoolSlots = 1
  Retries = 1
INVARIANT TypeOK
INVARIANT SuccessMeansBack
INVARIANT OutIsAccountedFor
PROPERTY RebootDisabledEmpty
PROPERTY WaveEnds
