SPECIFICATION Spec
CONSTANTS
  Keys = {1, 2, 3}
  MaxElements = 6
  MaxSize = 100
  LongBits = 16
  LongLongBits = 20
  NumberCalls <- MCNumberCalls
  DecimalCalls <- MCDecimalCalls
  ByteCalls <- MCByteCalls
  Words = {0, 6, 27, 114, 177, 228, 255}
  ByteSize = 4
  TimeCalls <- MCTimeCalls
INVARIANTS Sorted WithinInterval NumbersDenote StringsAgree TimeBounded InputsComplete
CHECK_DEADLOCK FALSE
