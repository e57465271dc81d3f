SPECIFICATION Spec
CONSTANTS
  c1 = c1
  c2 = c2
  owner = owner
  visitor = visitor
  Client = {c1, c2}
  Key = {owner}
  NoKey = NoKey
  NoSlice = NoSlice
  NoChunk = NoChunk
  App = {a1, a2}
  Slot <- MCSlot
  Signer <- MCSigner
  KeyOf <- AllOwners
  MaxSlots = 3
  SuperSlot = 0
  SliceId = {1}
  Val = {1}
  AllocSizes = {1}
  AppSlot = {0}
  Calls = {"open", "alloc"}
  MaxCalls = 4
  MaxFaults = 0
INVARIANTS AllocationsKept
CHECK_DEADLOCK FALSE
