SPECIFICATION CacheSpec
CONSTANTS
  Users = {u1}
  Idle = Idle
  Addrs = {1, 13}
  Sizes = {1, 2}
  Shift = 2
  KeyBits = 4
  MaxSizes = {3}
  TTLs = {1}
  Second = 1
  HitCap = 1
PROPERTIES
  HitIsOwn
