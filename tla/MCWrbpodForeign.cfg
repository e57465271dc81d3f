SPECIFICATION Spec
CONSTANTS
  c1 = c1
  c2 = c2
  owner = owner
  visitor = visitor
  Client = {c1, c2}
  Key = {owner, visitor}
  NoKey = NoKey
  NoSlice = NoSlice
  NoChunk = NoChunk
  App = {a1}
  Slot <- MCSlot
  Signer <- MCSigner
  KeyOf <- WithVisitor
  MaxSlots = 2
  SuperSlot = 0
  SliceId = {1}
  Val = {1, 2}
  AllocSizes = {1}
  AppSlot = {0}
  Calls = {"open", "format", "alloc", "delete", "fetch", "put_slice", "sync", "put_chunk", "exit"}
  MaxCalls = 7
  MaxFaults = 1
INVARIANTS SuperblocksSound
PROPERTIES VersionsAdvance FetchIsAuthentic
CHECK_DEADLOCK FALSE
