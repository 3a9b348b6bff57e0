SPECIFICATION Spec
CONSTANTS
  na = na
  nb = nb
  nc = nc
  NodeNames = {na, nb, nc}
  HashSpace = 6
  Configs <- MCConfigs
INVARIANTS TypeOK PlacementDistinct PlacesNearest OnlyTheLostMoves
