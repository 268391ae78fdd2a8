SPECIFICATION Spec
CONSTANTS
  p1 = p1
  p2 = p2
  p3 = p3
  h1 = h1
  t1 = t1
  g1 = g1
  Players = {p1, p2, p3}
  Handlers = {h1, h2}
  MaxEvents = 2
  MaxDeliveries = 2
  Idle = Idle
  NoRow = NoRow
  MaxMessages = 2
  Founder = p2
  Bots = {p3}
  Tabs = {t1, t2}
  MaxBans = 2
  MaxReports = 2
  MaxSessions = 3
  Clients = {c1, c2}
  Rooms = {r1}
  NoRoom = NoRoom
  BufferSize = 1
  Thresholds <- FewTiers
  Games = {g1, g2}
  MaxStamp = 2
  Skills = {1000, 1130, 1300}
  MaxQueue = 4
  MaxClock = 1
  Requests = {q1, q2, q3}
  Limit = 1
  WindowLength = 2
  MaxInstant = 4
  MaxPlies = 3
  Members = {p1, p2}
  MaxCommits = 3
  MaxFetches = 2
INVARIANTS
  PlatformTypeOK
   StaffSound  GatewaySound RatingsSound LimitSound  
PROPERTIES
  NotificationsSound FriendshipsSound AchievementsSound  MatchmakingSound
CHECK_DEADLOCK FALSE
