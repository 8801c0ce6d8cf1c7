CONSTANTS
  Wires <- MCWires
  Static <- MCStatic
  Methods = {1, 2}
  Codes <- MCCodes
  SmallTables <- MCSmall
  HPACK_LIMIT = 1024
  Overhead = 2
  RingLen = 2
  MaxWindow = 300
  Resps = {r1, r2}
  Headers <- MCHeaders
  StaticN = 14
  NodeLen = 2
  EntryOver = 2
  Align = 2
  RbMax = 14
  MaxEvict = 2
  MaxHdrs = 2
  MaxIdx = 5
  Sizes = {8}
  PageLen = 10
  ChunkDesc = 2
  HeadOff = 4
  CacheSz = 2
  AllocSizes = {2, 5, 9}
  MaxPages = 4
  MaxLive = 3
CHECK_DEADLOCK FALSE
SPECIFICATION Spec
CONSTRAINT Unhit
INVARIANTS   PoolSafe  
