SPECIFICATION Spec
CONSTANTS
  host = host
  friend = friend
  guest = guest
  stranger = stranger
  Ids = {host, friend, guest, stranger}
  Settings <- NoAnchors
  TrustAll = {}
  MaxDepth = 2
  Lifetimes = {0}
  Tampered <- Altered
  Clients = {friend}
  MayVouch <- Acquaintances
  MaxTime = 1
  MaxVouches = 3
  MaxRevokes = 1
INVARIANTS TransferReverifies
