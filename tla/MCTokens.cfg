SPECIFICATION Spec
CONSTANTS
  a = a
  b = b
  a1 = a1
  a2 = a2
  b1 = b1
  Tokens = {a1, a2, b1}
  Owner <- MCOwner
  Revokes = {r1}
  Lifetime = 2
  Minute = 1
  Deadline = 1
  None = None
  MaxTime = 4
  MaxFaults = 1
INVARIANTS TypeOK RevokedIsRefused BlacklistAgrees CreatedIsListed
