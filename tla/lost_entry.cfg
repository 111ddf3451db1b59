SPECIFICATION HomeSpec
CONSTANTS
  daemon = daemon
  first = first
  second = second
  song = song
  film = film
  nobody = nobody
  missing = missing
  cut = cut
  Procs = {daemon, first, second}
  Daemons = {daemon}
  Hashes = {song, film}
  Nobody = nobody
  Missing = missing
  Cut = cut
  Faulty = {}
  Mortal = {}
INVARIANTS
  StoredIsFound
CHECK_DEADLOCK FALSE
