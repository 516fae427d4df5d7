SPECIFICATION Spec
CONSTANTS
  Files = {"f", "g", "x"}
  Unprintable = {"x"}
  Dirs <- MCDirs
  NoPath = "nowhere"
  Parallelism = 3
  Urls = {"u"}
  MaxImports = 2
  MaxAdds = 1
INVARIANTS BrokerInv InUseIsConfigured
PROPERTIES EndsWhenAsked
CHECK_DEADLOCK FALSE
