SPECIFICATION FairSpec
CONSTANTS
  e1 = e1
  e2 = e2
  r1 = r1
  r2 = r2
  r3 = r3
  NoExec = NoExec
  NoRun = NoRun
  Exec = {e1, e2}
  Reservation = {r1, r2}
  ModeOf <- MCMode
  ConfiguredLimit <- MCLimit
  ExecutionsMode = "regular"
  CanWait = FALSE
  CanStop = FALSE
  CanTimeOut = FALSE
  CanShutDown = TRUE
  CrashBudget = 1
PROPERTIES
  NoResumptionDuringShutdown
  GracefulExit
  ThrottledIsServed
  ShutdownCompletes
CHECK_DEADLOCK FALSE
