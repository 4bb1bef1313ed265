SPECIFICATION Spec
CONSTANTS
  c1 = c1
  c2 = c2
  login = login
  Callers = {c1, c2}
  Logins = {login}
  MaxCred = 3
SYMMETRY Peers
CHECK_DEADLOCK FALSE
INVARIANTS TypeOK PointerNamesStored OneCredentialPerGeneration RefreshesCoalesce
PROPERTIES ImplementsCell ClearsOnlyDead
