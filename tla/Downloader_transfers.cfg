SPECIFICATION DSpec
CONSTANTS
  Chunks = {x, y}
  MaxOffset = 2
  MaxDigest = 3
  Hole = Hole
  NoFile = NoFile
  NoMeta = NoMeta
  NoSession = NoSession
  Overflow = Overflow
  Sizes = {0, 1, 2, 3}
  MaxChunkSize = 2
INVARIANT UTypeOK
INVARIANT MetaIsContent
PROPERTY DownloadIsIntact
PROPERTY DownloadEnds
