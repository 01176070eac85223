SPECIFICATION Spec
CONSTANTS
  Null = Null
  Absent = Absent
  Users = {u1, u2}
  Shared = {u2}
  Slack = 1
  MaxClock = 8
INVARIANTS
  TypeOK OnlineIsLastListing SessionsDisjoint
  EndedSessionsAreOver NoSplitSession
PROPERTY ClosedRowsStay
