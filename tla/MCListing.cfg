SPECIFICATION ListSpec
CONSTANTS
  Keys = {k1, k2, k3}
  Writes = {w1, w2}
  Matching = {k1, k2, k3}
  Filters <- SomeFilters
  Limits = {0, 3}
  DefaultLimit = 1
  MaxLimit = 2
  NoRow = NoRow
  Nothing = Nothing
SYMMETRY Alike
INVARIANTS ListTypeOK NothingSkipped TotalFits
