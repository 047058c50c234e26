SPECIFICATION Spec
CONSTANTS
  e1 = e1
  e2 = e2
  r1 = r1
  r2 = r2
  r3 = r3
  NoExec = NoExec
  NoRun = NoRun
  Exec = {e1, e2}
  Reservation = {r1, r2}
  ModeOf <- MCMode
  ConfiguredLimit <- MCLimit
  ExecutionsMode = "regular"
  CanWait = FALSE
  CanStop = TRUE
  CanTimeOut = TRUE
  CanShutDown = FALSE
  CrashBudget = 0
SYMMETRY Symmetry
INVARIANTS
  CapacityReturned
  RowsAreOwned
CHECK_DEADLOCK FALSE
