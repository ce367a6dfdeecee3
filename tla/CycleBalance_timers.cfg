SPECIFICATION BSpec
CONSTANTS
  Caches = {}
  Place <- MCPlace
  MaxAge = 1
  Periods = {0, 1, 3}
  Ttls = {}
  Caps = {}
  Floor = 1
  Ceiling = 4
  TooLong = TooLong
  Defaults <- MCDefaults
  TimerIds = {1, 2, 3, 4}
  Absent = Absent
  Same = Same
  BalancePeriod = 3
  Never = Never
  Error = Error
INVARIANT OneTimer
INVARIANT RecentOrRefused
PROPERTY BalanceRefreshed
