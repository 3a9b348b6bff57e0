SPECIFICATION Spec
CONSTANTS
  u1 = u1
  u2 = u2
  b1 = b1
  b2 = b2
  Bodies = {b1, b2}
  Uploads = {u1, u2}
  Deletes = {d1}
  Hides = {h1}
  Settings = {s1}
  Setting <- Publish
  Links = {c1}
  Readers = {g1}
  TTL = 1
  Deadline = 2
  NoRow = NoRow
  None = None
  MaxTime = 3
  MaxFaults = 1
INVARIANTS TypeOK HideIsRecorded HiddenIsNotServed LinkExpires
PROPERTY RowEvolves
SYMMETRY Alike
