SPECIFICATION FairSpec
CONSTANTS
  c1 = c1
  c2 = c2
  owner = owner
  visitor = visitor
  Client = {c1, c2}
  Key = {owner}
  NoKey = NoKey
  NoSlice = NoSlice
  NoChunk = NoChunk
  App = {a1}
  Slot <- MCSlot
  Signer <- MCSigner
  KeyOf <- AllOwners
  MaxSlots = 3
  SuperSlot = 0
  SliceId = {1}
  Val = {1, 2}
  AllocSizes = {1}
  AppSlot = {0}
  Calls = {"open", "alloc", "fetch", "put_slice", "sync", "put_chunk"}
  MaxCalls = 7
  MaxFaults = 1
INVARIANTS CleanIsSaved
PROPERTIES CallsReturn
CHECK_DEADLOCK FALSE
