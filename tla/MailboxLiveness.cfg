\* One device that keeps fetching and acknowledging, pages of one row.
CONSTANTS
  alice = alice
  bob = bob
  a1 = a1
  a2 = a2
  b1 = b1
  None = None
  Users = {alice}
  Sessions = {a1}
  Owner <- OwnerOf
  Tokens = {t1, t2}
  MaxMsg = 2
  Limit = 1
SPECIFICATION FairSpec
PROPERTIES QueuedReachesClient
