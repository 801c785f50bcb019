CONSTANTS
  Size = 4
  Byte = {0, 1}
  MaxLen = 3
SPECIFICATION Spec
INVARIANTS CheckedCallsSucceed CopiesApart
PROPERTY FifoSpec
