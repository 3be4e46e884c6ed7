\* The documented release of every waiter on reader exit: violated.
CONSTANTS
  r1 = r1
  r2 = r2
  Requests = {r1, r2}
  NoRequest = NoRequest
  SendCap = 1
  RecvCap = 2
SPECIFICATION Spec
INVARIANT NoWaiterSurvivesReader
