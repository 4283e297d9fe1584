CONSTANTS
  Top = 7
  WordSize = 3
  Neighbours = TRUE
  MaxBuffer = 6
  MaxEntries = 2
SPECIFICATION Spec
INVARIANTS
  RestKept
