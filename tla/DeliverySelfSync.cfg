\* One of the sender's other devices is offline, another is online.
CONSTANTS
  alice = alice
  bob = bob
  a1 = a1
  a2 = a2
  a3 = a3
  b1 = b1
  b2 = b2
  ab = ab
  ba = ba
  note = note
  None = None
  Users = {alice, bob}
  Devices = {a1, a2, a3}
  Owner <- OwnerOf
  Msgs = {ab}
  Author <- AuthorOf
  Dest <- DestOf
  Tracked = {ab}
  Unread = {ab}
  Sealed = {}
  Incarnations = 1
SPECIFICATION Spec
INVARIANT NoOtherSessionDropped
CHECK_DEADLOCK FALSE
