SPECIFICATION Spec
CONSTANTS
  Persons = {"root", "ann"}
  Admin = "root"
  Names = {"ann"}
  Passwords = {"pw1", "pw2"}
  Procs = {p1, p2}
  Providers = {"qq", "apple"}
  SameEight = TRUE
  AccessExpire = 2
  RefreshExpire = 4
  Backends <- MCBackends
  Endpoints <- MCEndpoints
  MaxUsers = 2
  MaxKeys = 1
  MaxClock = 3
  MaxRequests = 4
  MaxRestarts = 1
INVARIANT TokensNameTheirHolder
PROPERTIES RevokedIsRefused DeletedIsFrozen
CHECK_DEADLOCK FALSE
SYMMETRY Symmetry
