SPECIFICATION OnboardingSpec
CONSTANTS
  A = A
  B = B
  C = C
  na = na
  nb = nb
  nc = nc
  a1 = a1
  a2 = a2
  b1 = b1
  c1 = c1
  r1 = r1
  sg = sg
  NoName = NoName
  Blueprint = {A, B, C}
  Name = {na, nb, nc, a1, a2, b1, c1, r1, sg}
  NetOf <- ThreeNets
  Vlan <- ThreeVlans
  SubnetsOf <- ThreeSubnets
  RouterOf <- SharedRouter
  GroupOf <- SharedGroup
  RulesOf <- OneRule
  Overlaps <- OneOverlap
  Sound = {A, B, C}
  MaxBegins = 2
  MaxCallFaults = 1
PROPERTY RerunCompletes
CHECK_DEADLOCK FALSE
