\* The documented deadline, with a port that stays silent: violated.
CONSTANTS
  Scan = 2
  Limit = 2
SPECIFICATION FairSpec
PROPERTY HasDeadline
