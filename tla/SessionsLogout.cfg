SPECIFICATION Spec
CONSTANTS
  u1 = u1
  u2 = u2
  a1 = a1
  a2 = a2
  b1 = b1
  None = None
  Blank = Blank
  Users = {u1}
  Devices = {a1, a2}
  Secrets = {s1, s2}
  Pooled = {}
  Socketed = {}
  Owner <- OwnerOf
PROPERTY LogoutEndsSession
