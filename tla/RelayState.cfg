SPECIFICATION MCSpec
CONSTANTS
  None = None
  Addrs <- MCAddrs
  ShareIds = {s1, s2}
  Reqs = {r1, r2, r3}
  HourW = 1
  DayW = 2
  PerHour = 2
  PerDay = 2
  MaxKeys = 1
  DailyBytes = 1
  StorageCap = 1
  ShareBytes = 2
  MaxConcurrent = 1
  JoinW = 1
  JoinMax = 1
  EvictAbove = 1
  Sizes = {1, 3}
  MaxTime = 2
  Flows = {f1, f2}
  Jtis = {j1, j2}
  Purposes <- MCPurposes
  Ips = {1, 2}
  ChallengeTtl = 1
  CookieTtl = 2
  StatsTtl = 1
  JwtLeeway = 1
  AuthTime = 4
  Devices = {d1, d2, d3}
  Invites = {i1}
  Tokens = {t1, t2}
  Calls = {c1, c2}
  DeviceTtl = 1
  RefreshWindow = 1
  DeviceLeeway = 0
  InviteTtl = 1
  TokenTtl = 1
  EnrollTime = 1
  Ids = {a}
  Objs = {o1, o2}
  Sessions = {x1, x2, x3}
  MsgSizes = {1, 2}
  MaxMessage = 1
  MaxChannel = 2
  IdleTtl = 0
  ChanTime = 1
  Clients = {b1}
  Hosts = {h1, h2}
  LastKey = 2
  Logins = {l1, l2, l3}
  MaxPerIp = 2
  FailureLimit = 1
  FailureWindow = 0
  FailureBlock = 1
  HostLimit = 1
  HostWindow = 0
  HostBlock = 1
  GateTime = 2
  StTabs = {1, 2}
  StDevices = {1, 2}
  Shapes <- MCShapes
  SinkCap = 2
  FlushMax = 2
  StatsMaxBytes = 2
  TsPast = 0
  StClocks = {0, 1}
  CalStarts = {0, 10926, 47451, 157023}
  MaxRec = 3
  StDays = 800
CHECK_DEADLOCK FALSE
INVARIANTS LimitsInv UploadsInv SlotsExact AuthInv EnrollInv NeverOwnerless ChanInv GateInv StatsInv
SYMMETRY MCSymmetry
