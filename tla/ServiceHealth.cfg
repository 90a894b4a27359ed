CONSTANTS
  Caller = {c1, c2}
  Stream = {s1, s2}
  NoStream = NoStream
  Timeout = 1
  Interval = 2
  Cooldown = 2
  MaxTime = 4
  MaxReports = 2
SPECIFICATION HealthSpec
SYMMETRY Interchangeable
INVARIANTS ConnectionIsShared StreamTellsTheLatest
PROPERTY AlertsFollowTheStatus
