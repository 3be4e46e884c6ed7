\* Two assertions, a scene, every way a run may fail.
CONSTANTS
  p1 = p1
  Pids = {p1}
  NoPid = NoPid
  PipeCap = 1
  Chatter = 2
  Duration = 1
  MaxTime = 2
  MaxAsserts = 2
  MaxScenes = 1
SPECIFICATION FairSpec
INVARIANTS IInv NoOrphan ExitHonest VerdictsAgree
PROPERTIES RecordedIsOurs FinishReturns
