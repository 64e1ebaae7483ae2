\* Three services that share the sqlite cache, of two documents
CONSTANTS
  Callers = {c1, c2, c3}
  NoCache = {}
  Urls = {u1, u2}
  Docs = {1, 2, 3, 4, 5}
  Clocks <- AnyClock
  None = None
SPECIFICATION FairSpec
CHECK_DEADLOCK FALSE
INVARIANTS TypeOK BuiltOnce TimesRead
PROPERTIES CacheKept SetupEnds DocumentsSettle
