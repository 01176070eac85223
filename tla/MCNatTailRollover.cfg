SPECIFICATION TailSpec
CONSTANTS
  Years = {1, 2}
  Leap = {2}
  LastDay = 3
  LeapDay = 2
  Begin <- MCBegin
  None = None
  MaxReceived = 3
  MaxDeaths = 1
CHECK_DEADLOCK FALSE
INVARIANT RolloverHandled
