CONSTANTS
  p1 = p1
  p2 = p2
  o1 = o1
  o2 = o2
  o3 = o3
  short = short
  long = long
  Procs <- Two
  Ops <- Three
  Payloads <- Bodies
  PayloadOf <- Body
  Size <- Length
  Feeds <- Shared
  Quota = 8
  High = 7
  Low = 3
  Baseline = 1
  MaxFaults = 0
SPECIFICATION Spec
CHECK_DEADLOCK FALSE
INVARIANT FinalCharged
