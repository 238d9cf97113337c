SPECIFICATION CodecSpec
CONSTANTS
  W = 16
  IdLens = {0, 28, 29, 300, 390, 400}
  IdChars <- AsciiAndNot
  SeqNums = {1, 9, 2147483647}
  buffer_size = 2048
  SafeLen = 390
INVARIANTS TypeOK BodyLengthCounts CheckSumAgrees ParsesBack FitsBuffer ConversionsAgree
CHECK_DEADLOCK FALSE
