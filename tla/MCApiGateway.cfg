SPECIFICATION Spec
CONSTANTS
  Paths <- PathsHere
  Methods = {"GET", "POST", "PUT"}
  Headers <- HeadersHere
  Tokens <- TokensHere
  Sound <- SoundHere
  Sub <- SubHere
  Role <- RoleHere
  Exp <- ExpHere
  Roles = {"user", "admin"}
  Users <- UsersHere
  None = None
  MaxTime = 2
INVARIANTS TypeOK SamePrincipal TablesAgree
