SPECIFICATION UpSpec
CONSTANTS
  x = x
  y = y
  Chunks = {x, y}
  Local <- MCLocal
  MaxOffset = 2
  MaxDigest = 12
  MaxRetries = 3
  MaxLate = 2
  MayUpgrade = TRUE
  MayRemove = TRUE
  Hole = Hole
  NoFile = NoFile
  NoMeta = NoMeta
  NoSession = NoSession
  Overflow = Overflow
PROPERTY SuccessIsIntact
PROPERTY LostAnswersAreHarmless
PROPERTY UploadEnds
