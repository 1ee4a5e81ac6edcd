SPECIFICATION FairSpec
CONSTANTS
  BYTE = 4
  WORD = 2
  GROUP = 1
  MAX_SHIFT = 2
  VERSION = 1
  MaxRecords = 4
  Broken = Broken
  Records <- MCRecords
  BATCH_MAGIC <- MCBatchMagic
  INDEXED_MAGIC <- MCIndexedMagic
  Compress <- MCCompress
  Decompress <- MCDecompress
INVARIANTS RoundTrip NothingInvented Isolated
PROPERTY ReadEnds
\* The reader returns or raises.
CHECK_DEADLOCK FALSE
