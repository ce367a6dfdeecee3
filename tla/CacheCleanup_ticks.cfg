SPECIFICATION Spec
CONSTANTS
  c1 = c1
  c2 = c2
  Caches = {c1, c2}
  Place <- MCPlace
  MaxAge = 1
  Periods = {0, 1}
  Ttls = {0}
  Caps = {0}
  Floor = 1
  Ceiling = 4
  TooLong = TooLong
  Defaults <- MCDefaults
  TimerIds = {1, 2}
  Absent = Absent
  Same = Same
INVARIANT TypeOK
PROPERTY FreshStaysWarm
PROPERTY CleanMeansClean
PROPERTY OldFilesGo
