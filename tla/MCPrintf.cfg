\* Ints of five bits and longs of ten; a call of print returns.
SPECIFICATION PrintSpec
CONSTANTS
  Bits = 5
  BufLen = 4
  Formats <- MCFormats
  Junk = {0, 31}
CHECK_DEADLOCK FALSE
INVARIANTS ArgumentsRead TextRight StaysInside ReadBack
