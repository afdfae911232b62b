CONSTANTS
  a1 = a1
  a2 = a2
  c1 = c1
  c2 = c2
  c3 = c3
  d1 = d1
  NoCall = NoCall
  Address = {a1, a2}
  Call = {c1, c2, c3, d1}
  AddressOf <- MCAddressOf
  HangingCall = {d1}
  Loop = {l1}
SPECIFICATION FairSpec
INVARIANTS
  TypeOK
  FifoPerAddress
  NoSleepDuringStop
PROPERTIES
  HangBlocksOnlyItsAddress
  ImplementsExecutor
