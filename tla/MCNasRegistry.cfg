SPECIFICATION Spec
CONSTANTS
  Null = Null
  Done = Done
  Syslog = Syslog
  Acct = Acct
  Ids = {1, 2}
  Zero = Zero
  Odd = {x6}
  Addrs = {x6, Zero}
  Ports = {Syslog, p1}
  Applies = {a1, a2}
  MaxOps = 3
SYMMETRY Symmetry
INVARIANTS TypeOK UndisturbedApplyConverges OrphansExplained
