SPECIFICATION UntilSpec
CONSTANTS
  Byte = {"a", "n"}
  MaxStream = 7
  MaxNeedle = 4
  Hays <- AllStreams
  Needles <- AllNeedles
  Short = 4
  Limits = {0, 1, 3, 7}
  DefaultLen = 6
  MaxLen = 6
  FirstCap = 1
  Chunk = 3
INVARIANTS FirstOccurrence UntilDelimiter BufferHolds LoopKeepsAll
PROPERTIES Terminates
CHECK_DEADLOCK FALSE
