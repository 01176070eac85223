SPECIFICATION TimelineSpec
CONSTANTS
  Null = Null
  Absent = Absent
  u1 = u1
  u2 = u2
  Users <- MCUsers
  Alike <- MCAlike
  Shared = {}
  Slack = 1
  MaxClock = 5
  Gap = 1
  WindowLimit = 2
  ConnsShown = 2
  RowLimit = 3
  SessionLimit = 2
  MaxConns = 3
INVARIANTS WindowsAreActivity EvidenceShownOnce
