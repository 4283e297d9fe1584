CONSTANTS
  Tid = {t1, t2, t3, t4}
  Root = t1
  NoTid = NoTid
  InitialBuckets = 1
  Threshold = 1
  MaxHash = 3
  MaxBuckets = 16
  MaxTicks = 1
  Top = 7
  WordSize = 3
  Neighbours = FALSE
  MaxBuffer = 6
  MaxEntries = 2
  BufferSize = 2
  Octet = {0, 1}
  Input <- TwoBytes
SPECIFICATION DataSpec
SYMMETRY Symmetry
INVARIANTS
  BufferReplaced
  RestKept
  StringRead
  VdsoRemoved
  ResultOfCall
  ListSound
  ChainsSound
  ChainBounded
  TestPasses
  SameOutput
PROPERTIES
  TableIsMap
