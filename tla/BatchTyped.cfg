\* The constants of Reads.cfg: the behaviours that violate the property are those of the batch.
CONSTANTS
  Readers = {r1, r2}
  Pids = {4, 5, 6}
  SystemPids = {0, 4}
  Addresses = {1, 3}
  SizeOfT = 2
  MaxWrites = 1
  MaxReads = 3
  Healers = {h1, h2}
  Configs <- MCConfigs
  DefaultConfig <- MCDefaultConfig
  FailureThreshold = 2
  SuccessThreshold = 2
  MaxHeals = 3
  Resolvers = {t1, t2}
  Space = 3
  Bases = {1, 2}
  Steps = {1}
  MaxDepth = 1
  Names = {n1, n2}
  SavedName <- MCSavedName
  MaxChainOps = 4
  BatchPids = {4, 5}
  RejectedPids = {0, 4}
  RequestLists <- MCRequestLists
  RequestSize = 2
  RangeEnds <- MCRangeEnds
  ChunkSizes = {0, 2, 3}
  DefaultChunk = 4
  PageSize = 2
  MaxBatches = 2
  DiffConfigs <- MCDiffConfigs
  DefaultDiff <- MCDefaultDiff
  Region = 6
  Contents <- MCContents
  SearchValues <- MCSearchValues
  FilterLists <- MCFilterLists
  MaxCompares = 1
SPECIFICATION Spec
INVARIANT TypedAnswer
SYMMETRY MCSymmetry
\* Threads may stop calling, and a thread that waits for the breaker's mutex never goes on.
CHECK_DEADLOCK FALSE
