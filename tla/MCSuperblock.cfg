SPECIFICATION SuperblockSpec
CONSTANTS
  App = {a1, a2, a3}
  Nobody = Nobody
  Slot <- MCSlot
  SlotIds <- MCSlotIds
  AllocSizes <- MCAllocSizes
INVARIANTS SuperblockTypeOK SlotsSound
PROPERTIES AllOrNothing SlotNumbersStable ImplementsOwnership
CHECK_DEADLOCK FALSE
