\* One part of AccountData at a time.
SPECIFICATION MCSpec
CONSTANTS
  e2 = e2
  s2 = s2
  d1 = d1
  i1 = i1
  c1 = c1
  c2 = c2
  l1 = l1
  user1 = user1
  user2 = user2
  node1 = node1
  node2 = node2
  p1 = p1
  p2 = p2
  ip = ip
  Events = {e1, e2}
  Visible = {e1}
  Sockets = {s1, s2}
  MaxRows = 2
  NULL = NULL
  Absent = Absent
  Devices = {d1, d2}
  Mains = {d1}
  Keys = {k1, k2}
  Envelopes = {i1, i2}
  Capacity = 2
  PageSize = 1
  NoKey = NoKey
  NoSession = NoSession
  Donors = {x1, x2, x3}
  Purchases = {y1, y2, y3}
  Intents = {t1}
  Slots = 1
  Months = 2
  Clients = {c1, c2, l1}
  Account <- MCAccount
  UserOf <- MCUserOf
  Address <- MCAddress
  Heavy = {"pending_fetch", "login"}
  UserCap <- MCUserCap
  SessionCap <- MCSessionCap
  Window = 3
  Threshold = 2
  EventSpan = 2
  SafeSpan = 2
  MinInterval = 2
  IpLimit <- MCIpLimit
  IpWindow = 3
  MaxTime = 4
  Never = Never
  Nodes = {node1, node2}
  Peers = {p1, p2}
  Msgs = {m1}
  QueueSize = 1
  NoNode = NoNode
INVARIANTS    SafeModeIsEarned 
PROPERTIES    QuietIsServed
CHECK_DEADLOCK FALSE
