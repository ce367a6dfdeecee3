SPECIFICATION Spec
CONSTANTS
  c1 = c1
  c2 = c2
  Caches = {c1, c2}
  Place <- MCPlace
  MaxAge = 1
  Periods = {0, 1}
  Ttls = {1}
  Caps = {2}
  Floor = 1
  Ceiling = 4
  TooLong = TooLong
  Defaults <- MCDefaultsCapped
  TimerIds = {1, 2}
  Absent = Absent
  Same = Same
PROPERTY NextTickContinues
