\* The documented cross-cutting assertion: violated.
CONSTANTS
  N <- MCPrompts
  Named = TRUE
  MaxMessages = 2
  MaxRows = 1
SPECIFICATION Spec
INVARIANT LaptopNowhere
