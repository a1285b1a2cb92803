SPECIFICATION FairSpec
CONSTANTS
  alice = alice
  bob = bob
  u1 = u1
  d1 = d1
  d2 = d2
  Loop = Loop
  Users = {alice}
  Uploads = {u1}
  Directs = {d1}
  Chunks = {c1}
  Owner <- OwnerOf
  Limit = 2
  MaxOpen = 1
  Threads = {}
  MaxCrashes = 0
PROPERTY ExpiredIsRemoved
