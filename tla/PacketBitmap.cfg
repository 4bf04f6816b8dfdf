\* Bytes of 2 bits; PidLimit = 1 * sizeof(bitmap), as in the code.
CONSTANTS
  ByteBits = 2
  NBytes = 6
  PidLimit = 6
  PastEnd = 3
  Totals = {1, 5, 7}
SPECIFICATION Spec
INVARIANT CountIsExact
INVARIANT CompleteIsReady
