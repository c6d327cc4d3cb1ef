SPECIFICATION Spec
CONSTANTS
  Byte = {0, 1, 130, 255}
  MaxLength = 6
INVARIANTS EncodesAll PendingBits
