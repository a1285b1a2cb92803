\* The scenarios of MCLicensing: two rotations, or one and three requests of the
\* launcher for two licences.
SPECIFICATION MCSpec
CONSTANTS
  main = main
  admin = admin
  r1 = r1
  r2 = r2
  l1 = l1
  l2 = l2
  q1 = q1
  q2 = q2
  q3 = q3
  Procs = {main, admin}
  Rotations = {r1, r2}
  MaxKeys = 4
  Issued = Issued
  None = None
  Torn = Torn
  Main = main
  Licences = {l1, l2}
  Requests = {q1, q2, q3}
  MaxTokens = 2
SYMMETRY Alike
INVARIANTS LicensingTypeOK AnnouncementsHold KeysAgree  NewestIsKept 
 
CHECK_DEADLOCK FALSE
