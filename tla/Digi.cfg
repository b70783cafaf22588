SPECIFICATION FairSpec
CONSTANTS
  Digis = {"d1", "d2"}
  Callsigns = {"d1", "d2", "other", "WIDE1", "WIDE2", "WIDE3"}
  Messages = {"m1", "m2", "m3"}
  Hash <- MC_Hash
  Empty = {"m3"}
  Traffic <- MC_Traffic
  MaxRpt = 3
  CacheSize = 2
  Interval = 2
  WrapAt = 2
PROPERTIES  OncePerInterval HopsDecrease RouteKept FallsSilent
