SPECIFICATION Spec
CONSTANTS
  seeder = seeder
  other = other
  first = first
  second = second
  up = up
  down = down
  again = again
  Agents <- SharedAgents
  Tasks = {up, down, again}
  SeedTasks = {again}
  Home <- SharedHome
  Admits <- SharedAdmits
  Down = {}
  Byte <- MCBytes
  Zero = "-"
  File <- MCFile
  Sizes = {3, 4}
  Copies <- SharedCopies
  MaxPeers = 2
  MinChunk = 1
  ReadSize = 2
  BufSize = 1
  Lossy = FALSE
  Faulty = {}
  MayCrash = FALSE
INVARIANTS
  SharedInv
  QuiescentClean
  JointSuccessMeansStored
CHECK_DEADLOCK FALSE
