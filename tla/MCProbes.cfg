\* Two probes in turn, one restart of the daemon.
CONSTANTS
  Runs = 2
  MaxEpochs = 2
SPECIFICATION FairSpec
INVARIANT IInv
PROPERTIES SameDaemon OwnEvidence NothingLeft RunReturns
