SPECIFICATION Spec
CONSTANTS
  x = x
  xy = xy
  xyz = xyz
  w1 = w1
  w2 = w2
  w3 = w3
  Paths = {x, xy, xyz}
  Asked = {x, xyz}
  Above <- TreeAbove
  Puts = {w1, w2, w3}
  Gets = {g1}
  Size <- LongAndShort
  NoEntry = NoEntry
  Dir = Dir
  Torn = Torn
SYMMETRY ShortPutsAlike
INVARIANTS TypeOK GetIntact TreeSound
PROPERTY ImplementsRegister
