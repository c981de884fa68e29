SPECIFICATION Spec
CONSTANTS
  r1 = r1
  r2 = r2
  r3 = r3
  admin = admin
  stranger = stranger
  ip1 = ip1
  ip2 = ip2
  Nobody = Nobody
  Requests = {r1, r2, r3}
  Usernames = {admin, stranger}
  Stored = {admin}
  Addresses = {ip1, ip2}
  MaxFailedAttempts = 3
  MaxAttemptsPerWindow = 3
SYMMETRY MCSymmetry
INVARIANTS TypeOK LockHolds GuessesBounded
