SPECIFICATION Spec
CONSTANTS
  Null = Null
  NoSid = NoSid
  Users = {u1, u2}
  IPs = {i1}
  NFiles = 2
  CommitEvery = 2
  MaxClock = 3
  MaxFaults = 2
INVARIANTS NothingSkipped SettledWhenAllRead HolderPicked
PROPERTY ReadUnlessBlocked
CHECK_DEADLOCK FALSE
