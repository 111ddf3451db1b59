SPECIFICATION FairSpec
CONSTANTS
  alice = alice
  song = song
  Agents = {alice}
  Files = {song}
  PeerTTL = 3
  KeepAlive = 1
  Timeout = 1
  MaxRetries = 2
  Lag = 2
  Lossy = TRUE
  TrackerRestarts = TRUE
  MayKill = TRUE
INVARIANTS TypeOK ForgottenAfterTTL SeedersGetListed NoEmptyEntry
PROPERTIES ShutdownEnds
