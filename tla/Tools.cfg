SPECIFICATION Spec
CONSTANTS
  A = A
  B = B
  C = C
  na = na
  nb = nb
  nc = nc
  a1 = a1
  a2 = a2
  b1 = b1
  c1 = c1
  r1 = r1
  sg = sg
  NoName = NoName
  Blueprint = {A, B, C}
  Name = {na, nb, nc, a1, a2, b1, c1, r1, sg}
  NetOf <- ThreeNets
  Vlan <- ThreeVlans
  SubnetsOf <- ThreeSubnets
  RouterOf <- SharedRouter
  GroupOf <- SharedGroup
  RulesOf <- OneRule
  Overlaps <- OneOverlap
  Sound = {A, B, C}
  MaxBegins = 3
  MaxCallFaults = 1
  vol = vol
  snap = snap
  port = port
  img = img
  Resource = {vol, snap, port, img}
  KindOf <- EachKind
  VolumeOf <- OfThatVolume
  Exempt = {}
  Undated = {}
  MinAge = 1
  MaxUses = 4
  k1 = k1
  k2 = k2
  lo = lo
  hi = hi
  o1 = o1
  o2 = o2
  aggressive = aggressive
  emergency = emergency
  Operator = {o1, o2}
  Tunable = {k1, k2}
  Setting = {lo, hi}
  Unknown = Unknown
  NoPoint = NoPoint
  Profile = {aggressive, emergency}
  PROFILES <- HighAndLow
  HEAVY_PROFILES = {aggressive}
  Shipped <- Mixed
  MaxSeconds = 1
  MaxThrottles = 3
  n1 = n1
  n2 = n2
  t1 = t1
  Server = {n1, n2}
  Source = {t1}
  Offset <- Apart
  MaxOffset = 100000
  MaxSkew = 200000
  Fine = 10
  Coarse = 100
  MinSources = 1
  MaxPolls = 4
  MaxUpsets = 2
  e1 = e1
  e2 = e2
  g1 = g1
  g2 = g2
  g3 = g3
  Endpoint = {e1, e2}
  Inventory = {e1, e2}
  Agent = {g1, g2, g3}
  EndpointOf <- Reinstalled
  Pages <- TwoPages
  MaxIncidents = 3
  ct0 = ct0
  ct1 = ct1
  v1 = v1
  v2 = v2
  cl1 = cl1
  l1 = l1
  l2 = l2
  p0 = p0
  p1 = p1
  Controller = {ct0, ct1}
  Vip = {v1, v2}
  Client = {cl1}
  Lun = {l1, l2}
  p2 = p2
  Port = {p0, p1, p2}
  OwnerOf <- TwoPortsOnOne
  MaxMishaps = 4
  web = web
  db = db
  Path = {web, db}
  MaxRotations = 2
  MaxRollbacks = 2
  MaxTroubles = 2
  allow = allow
  deny = deny
  net = net
  ingress = ingress
  egress = egress
  Policy = {allow, deny, net}
  Global = {allow, deny}
  Platform = {}
  Deny = {deny}
  DnsAllow = {allow}
  Section = {ingress, egress}
  Directories <- SixSets
  AtFirst <- SixSets
  None = None
  Order <- AllowThenDeny
  ReservedBelow = 100
  MaxRuns = 3
  MaxRefusals = 2
INVARIANT ToolsTypeOK
PROPERTY AppliedIsThere
PROPERTY NoOverlapAlone
PROPERTY DeleteSparesOthers
PROPERTY DeletedIsGone
PROPERTY DeletedWasIdle
INVARIANT UndoIsThere
PROPERTY RestoredExactly
INVARIANT LossIsGraded
PROPERTY SkewIsReal
PROPERTY ZeroMeansCovered
INVARIANT GoSurvivesRestart
INVARIANT RotatedIsWhole
INVARIANT FirstIsUndone
PROPERTY InstallSaves
INVARIANT BackupIsBack
INVARIANT OthersUntouched
INVARIANT OrderedAllowsFirst
CHECK_DEADLOCK FALSE
