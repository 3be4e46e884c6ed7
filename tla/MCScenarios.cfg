\* One or two prompts, an earlier turn, two messages, one row of each text.
CONSTANTS
  N <- MCPrompts
  Named = TRUE
  MaxMessages = 2
  MaxRows = 1
SPECIFICATION FairSpec
INVARIANTS FreshEvidence LaptopUnseen PassMeansRecovery VerdictRestores IInv
PROPERTY RunEnds
