--------------------------- MODULE MCCacheCleanup ---------------------------
\* Two caches, listed one after the other, for TLC.
EXTENDS CacheCleanup, TLC

CONSTANTS c1, c2

MCPlace ==
  <<c1, "bytes">> :> 1 @@ <<c1, "stamp">> :> 2 @@
  <<c2, "stamp">> :> 3 @@ <<c2, "bytes">> :> 4

MCDefaults == [period |-> 2, ttl |-> 1, cap |-> 4]
MCDefaultsCapped == [period |-> 1, ttl |-> 1, cap |-> 2]
=============================================================================
