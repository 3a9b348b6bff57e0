SPECIFICATION Spec
CONSTANTS
  alice = alice
  home = home
  Requests = {r1, r2, r3}
  User <- OneUser
  IP <- OneAddress
  Limits = {1, 2}
  Window = 2
  MaxEntries = 1
  Deadline = 1
  Lag = 1
  None = None
  MaxTime = 5
  MaxFaults = 1
SYMMETRY RequestsAlike
INVARIANTS TypeOK NoBurst CounterHasEnd
PROPERTY RefusedWhenFull
