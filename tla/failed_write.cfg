SPECIFICATION Spec
CONSTANTS
  seeder = seeder
  other = other
  first = first
  second = second
  up = up
  down = down
  again = again
  Agents <- ChainAgents
  Tasks <- ChainTasks
  SeedTasks = {again}
  Home <- ChainHome
  Admits <- EveryoneAdmits
  Down = {}
  Byte <- MCBytes
  Zero = "-"
  File <- MCFile
  Sizes = {3}
  Copies <- ChainCopies
  MaxPeers = 2
  MinChunk = 1
  ReadSize = 2
  BufSize = 1
  Lossy = FALSE
  Faulty = {up}
  MayCrash = FALSE
PROPERTIES

  FailedWriteLeavesNothing
CHECK_DEADLOCK FALSE
