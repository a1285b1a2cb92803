SPECIFICATION Spec
CONSTANTS
  alice = alice
  bob = bob
  a1 = a1
  a2 = a2
  b1 = b1
  m1 = m1
  m2 = m2
  None = None
  Users = {alice, bob}
  Devices = {a1, a2, b1}
  Msgs = {m1, m2}
  Owner <- OwnerOf
  From <- FromBob
  To <- ToAlice
  Rank <- RankOf
  Removable = {}
  MaxRoutes = 2
INVARIANTS CursorIsAMessage NoticeIsBacked UnreadIsNew
