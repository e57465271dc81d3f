SPECIFICATION Spec
CONSTANTS
  nil = nil
  small = small
  large = large
  None = None
  Content = {nil, small, large}
  SizeOf <- MCSizeOf
  SliceId = {1, 2, 3}
  MaxSize = 108
INVARIANTS NeverOversized RoundTrip
PROPERTIES ImplementsSliceMap
CHECK_DEADLOCK FALSE
