SPECIFICATION FairSpec
CONSTANTS
  alice = alice
  bob = bob
  a1 = a1
  a2 = a2
  b1 = b1
  m1 = m1
  m2 = m2
  None = None
  Users = {alice, bob}
  Devices = {a1, b1}
  Msgs = {m1, m2}
  Owner <- OwnerOf
  From <- FromEach
  To <- ToEach
  Rank <- RankOf
  Removable = {alice, bob}
  MaxRoutes = 1
PROPERTIES ReadIsSettled 
