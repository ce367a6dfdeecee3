SPECIFICATION Spec
CONSTANTS
  MaxBuild = 2
  m1 = m1
  m2 = m2
  Models = {m1, m2}
  Desc <- DistinctDesc
  Caches = {c1, c2}
  AdminFileOps = FALSE
  NoModel = NoModel
  NoDesc = NoDesc
  NoFile = NoFile
  EmptyFile = EmptyFile
  Garbage = Garbage
  NoStamp = NoStamp
INVARIANT SoundStamps
