\* Two invocations on two slots, a deadline inside the second sleep.
CONSTANTS
  c1 = c1
  c2 = c2
  Calls = {c1, c2}
  NoCall = NoCall
  s1 = s1
  s2 = s2
  Slots = {s1, s2}
  Timeout = 3
  Interval = 2
SPECIFICATION FairSpec
INVARIANTS IInv OwnOutcome
PROPERTIES Implements NotBeforeDeadline InvocationReturns UntilReports
