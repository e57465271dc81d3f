SPECIFICATION Spec
CONSTANTS
  c1 = c1
  c2 = c2
  owner = owner
  visitor = visitor
  Client = {c1}
  Key = {owner}
  NoKey = NoKey
  NoSlice = NoSlice
  NoChunk = NoChunk
  App = {a1, a2}
  Slot <- MCSlot
  Signer <- MCSigner
  KeyOf <- AllOwners
  MaxSlots = 3
  SuperSlot = 0
  SliceId = {"i1", "i2"}
  Val = {1}
  AllocSizes = {1, 2}
  AppSlot = {0}
  Calls = {"open", "format", "alloc", "delete", "fetch", "put_slice", "sync", "put_chunk", "exit"}
  MaxCalls = 8
  MaxFaults = 2
SYMMETRY Syms
INVARIANTS TypeOK SuperblockSlotReserved AllocationsKept
PROPERTIES SlicesKept
CHECK_DEADLOCK FALSE
