CONSTANTS
  Bytes = {b1, b2}
  START = START
  MaxTokens = 6
SPECIFICATION Spec
INVARIANT EveryUnitLoaded
\* The file is read once.
CHECK_DEADLOCK FALSE
