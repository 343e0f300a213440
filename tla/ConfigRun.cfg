SPECIFICATION SessionSpec
CONSTANTS
  Commands = {"operation", "reportOn", "reportOff", "unknown", "malformed"}
  MaxCommands = 4
  MaxRuns = 2
  Keys <- MCKeys
  ValidPaths <- MCValidPaths
  Expressions <- MCExpressions
  Integers10 <- MCIntegers10
  Numbers <- MCNumbers
  Listed <- MCListed
  Shipped <- MCShipped
  OnPath <- MCOnPath
  Definitions <- MCDefinitions
  Renamed <- MCRenamed
  RenamedArgs <- MCRenamedArgs
  Scripts <- MCScripts
  Disk <- MCDisk
  Dashed <- MCDashed
INVARIANTS InOrderUpToFirstFailure MemoryOwned CallerFindsReport StageCacheKept
           ArgumentsTold Replayed ExitTells OperationsUsable
