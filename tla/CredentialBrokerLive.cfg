SPECIFICATION FairSpec
CONSTANTS
  c1 = c1
  c2 = c2
  login = login
  Callers = {c1}
  Logins = {login}
  MaxCred = 3
CHECK_DEADLOCK FALSE
PROPERTIES DeadIsReplaced
