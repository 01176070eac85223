SPECIFICATION Spec
CONSTANTS
  Null = Null
  Nases = {n1, n2}
  Users = {u1}
  Persons = {p1, p2}
  Ips = {i1}
  Macs = {m1, m2}
  Ifaces = {lan, cctv, Wan}
  Wan = Wan
  PublicIps = {g1}
  ArpLimit = 3
  MaxRuns = 2
  MaxFaults = 1
SYMMETRY Symmetry
CHECK_DEADLOCK FALSE
INVARIANTS ToldIsShown OwnIdentity
