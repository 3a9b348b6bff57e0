SPECIFICATION Spec
CONSTANTS
  p1 = p1
  k1 = k1
  n1 = n1
  n2 = n2
  Uploads = {u1,u2}
  Deletes = {}
  Downloads = {}
  Keys = {k1}
  Paths = {p1}
  Path <- OnePath
  Nodes = {n1,n2}
  Targets <- TwoCopies
  NoRow = NoRow
  None = None
  Absent = Absent
  Torn = Torn
  MaxFaults = 0
INVARIANT CopiesAgree
