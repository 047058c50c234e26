SPECIFICATION CCFairSpec
CONSTANTS
  w1 = w1
  w2 = w2
  ev = ev
  mn = mn
  r1 = r1
  r2 = r2
  r3 = r3
  r4 = r4
  NoExec = NoExec
  Exec = {w1, w2, ev, mn}
  Reservation = {r1, r2, r3, r4}
  ModeOf <- MCMode
  ConfiguredLimit <- MCLimit
  ExecutionsMode = "regular"
INVARIANTS
  TypeOK
  CapacityAccounting
  WorkConserving
  QueueIsExact
PROPERTIES
  OnlyRemoveOvershoots
  FirstComeFirstServed
  QueuedIsServed
CHECK_DEADLOCK FALSE
