SPECIFICATION LeaSpec
CONSTANTS
  a = a
  d = d
  e = e
  n1 = n1
  n2 = n2
  x1 = x1
  p1 = p1
  p2 = p2
  s1 = s1
  s2 = s2
  t1 = t1
  t2 = t2
  Missing = Missing
  Null = Null
  Subscribers <- TheSubscribers
  KeyOf <- TheKeys
  NasOf <- OnTwoNases
  Ips = {x1}
  Ports = {p1}
  Dests <- TheDests
  ZoneOf <- TheZones
  SessionZone = 1
  EpochZone = 1
  ResolveWindow = 1
  Window = 1
  WindowMin = 2
  WindowMax = 3
  Asked = {1, 4}
  ListLimit = 2
  TupleLimit = 3
  Stamps <- TheStamps
  Texts <- TheTexts
  StatedPorts = {p1, p2}
  MaxClock = 2
  MaxConns = 3
INVARIANTS HolderNamed PastedHolderNamed FormsAgree
PROPERTY SettledAnswersStand
CHECK_DEADLOCK FALSE
