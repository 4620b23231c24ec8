SPECIFICATION MemorySpec
CONSTANTS
  MaxOrder = 2
  Sub1MiB = 2
  Sub4GiB = 7
  Top = 15
  MemMap <- SmallMap
  PfndbPages = 1
  Reserve = 5
  MaxBootAllocs = 2
  Sizes = {1, 2, 3}
  MaxUsed = 15
INVARIANTS MemoryAccounted WalkExact NothingLeaked
PROPERTY PanicOnlyWhenExhausted
CHECK_DEADLOCK FALSE
