SPECIFICATION Spec
CONSTANTS
  b1 = b1
  b2 = b2
  v1 = v1
  v2 = v2
  Registrations = {b1, b2}
  Resets = {f1}
  Verifies = {v1, v2}
  Seeds = {s1, s2}
  Capitals = {s2}
  TTL = 1
  Deadline = 1
  NoUser = NoUser
  None = None
  MaxTime = 3
  MaxFaults = 1
INVARIANTS TypeOK CreatedOnce AcknowledgedPassword WrittenByLiveOTP
SYMMETRY Alike
