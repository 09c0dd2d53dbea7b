\* Two scans on one parallel scanner; a memory of six bytes in chunks of four.
CONSTANTS
  MaxLength = 2
  Texts <- MCTexts
  Top = 5
  Memories <- MCMemories
  ChunkSize = 4
  Scans = {s1, s2}
  ThreadCount = 2
  Ranges <- MCRanges
  AddressSpace = 8
  Requests = {0}
  MIN_CHUNK_SIZE = 2
  MaxPieces = 3
  LastSize = 1
  ScanTexts <- MCScanTexts
  ScanMemory <- MCScanMemory
  Starts = {2, 10}
  ScanChunk = 4
  ScanSpace = 32
  MaxScans = 2
  MaxBytes = 7
  Searchers = {q1, q2}
  LibraryNames = {"x", "y", "#x", "x|1", "x|g"}
  HashNames = {"#x"}
  BarNames = {"x|1", "x|g"}
  HeadOf <- MCHeadOf
  RestOf <- MCRestOf
  LibraryTexts <- MCLibraryTexts
  HandWritten <- MCHandWritten
  MAX_PATTERNS = 2
  MaxLibraryOps = 4
  MaxSearches = 2
SPECIFICATION Spec
INVARIANTS SignaturesSound ParallelSound AsyncSound EnhancedSound LibrarySound
SYMMETRY MCSymmetry
\* A caller may stop calling, and a scan may die or go on for ever.
CHECK_DEADLOCK FALSE
