SPECIFICATION Spec
CONSTANTS
  NoIp = NoIp
  NoLease = NoLease
  NoRow = NoRow
  Null = Null
  MACs = {m1, m2}
  IPs = {i1, i2}
  Pollers = {timer, button}
  Servers = {s1}
  MaxClock = 6
SYMMETRY Symmetry
INVARIANTS TypeOK HistoryAgreesWithLease HistoryHasNoGap ActiveIffInLastPoll
PROPERTY HistoryAppendOnly
