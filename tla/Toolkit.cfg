\* Two threads on one object, one module that moves, a sink of up to three old files, two
\* recorders, two handles, three mock regions.
CONSTANTS
  Callers = {c1, c2}
  ToolPids = {p1}
  MaxTools = 3
  Modules = {m1}
  LoadBases = {4, 6}
  ModuleSize = 3
  Sites = {2}
  OffsetNames = {1, 2}
  MaxMoves = 2
  MaxLookups = 2
  Policies = {"SIZE", "HOURLY"}
  max_size = 2
  MaxFiles = {0, 1, 3}
  TopFile = 3
  MaxLines = 5
  MaxRestarts = 1
  Recorders = {r1, r2}
  Durations = {1, 2}
  Huge = 9
  MaxRecords = 3
  ScatterHandles = {h1, h2}
  MaxRequests = 4
  MockAddresses = {1, 4, 6}
  MIN_VALID_ADDRESS = 2
  MAX_VALID_ADDRESS = 9
  RegionSizes = {0, 2, 3, 4}
  MAX_MEMORY_SIZE = 5
  Wrap = 16
  MaxSets = 4
  MaxMockReads = 2
SPECIFICATION Spec
INVARIANTS NothingDangles PortableOffsets KeptInOrder MetricsAgree NothingMissed MockUsage
SYMMETRY MCSymmetry
\* Every part may stop: the bounds are reached, or the object is gone.
CHECK_DEADLOCK FALSE
