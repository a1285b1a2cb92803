\* The scenarios of MCMessageDelivery: crossing traffic, reconnects on either side,
\* and the application mounted in another one.
CONSTANTS
  alice = alice
  bob = bob
  a1 = a1
  a2 = a2
  a3 = a3
  b1 = b1
  b2 = b2
  ab = ab
  ba = ba
  note = note
  None = None
  Users = {alice, bob}
  Devices = {a1, a2, b1}
  Owner <- OwnerOf
  Msgs = {ab, ba, note}
  Author <- AuthorOf
  Dest <- DestOf
  Tracked = {ab, ba, note}
  Unread = {ab, ba}
  Sealed = {note}
  Incarnations = 2
SPECIFICATION MCSpec
INVARIANTS ConfirmedIsNotStored RegisteredIsServed
PROPERTIES AcceptedIsHandedOver LockIsReleased AcceptedIsSettled
CHECK_DEADLOCK FALSE
