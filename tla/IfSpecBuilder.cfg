CONSTANTS
  Dirs <- MCDirs
  RefWidth <- MCRefWidth
  MaxItems <- MCMaxItems
  RangeSizes <- MCRangeSizes
  MaxCalls <- MCMaxCalls
  MaxBindList <- MCMaxBindList
  MaxAdapters <- MCMaxAdapters

SPECIFICATION Spec

INVARIANT TypeOK
INVARIANT BuildFailsClosed
INVARIANT BuildBindsRequested

\* build is the last call made on a builder; the builder is then discarded.
CHECK_DEADLOCK FALSE
