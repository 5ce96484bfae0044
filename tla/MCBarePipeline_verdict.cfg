CONSTANTS
  MessageCount = 5
  Capacity = 2
SPECIFICATION Spec
INVARIANT NeverFails
