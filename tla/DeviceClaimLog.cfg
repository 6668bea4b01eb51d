CONSTANTS
  Accounts = {a1}
  Devices = {d1}
  Codes = {c1}
  Nonces = {n1}
  Nobody = nobody
  TTL = 2
  MaxRecords = 1
  MaxRevision = 5
  Lag = 0
  MaxTime = 3
SPECIFICATION Spec
INVARIANT BindingsAreLogged
CHECK_DEADLOCK FALSE
