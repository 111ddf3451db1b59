SPECIFICATION FairSpec
CONSTANTS
  seeder = seeder
  other = other
  first = first
  second = second
  up = up
  down = down
  again = again
  Agents <- LiveAgents
  Tasks = {up, down}
  SeedTasks = {}
  Home <- LiveHome
  Admits <- LiveAdmits
  Down = {other}
  Byte <- MCBytes
  Zero = "-"
  File <- MCFile
  Sizes = {3, 4}
  Copies <- LiveCopies
  MaxPeers = 2
  MinChunk = 1
  ReadSize = 2
  BufSize = 0
  Lossy = FALSE
  Faulty = {}
  MayCrash = FALSE
PROPERTIES
  EveryTaskEnds
  HoldersSuffice
CHECK_DEADLOCK FALSE
