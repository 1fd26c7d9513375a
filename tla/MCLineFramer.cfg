SPECIFICATION Spec
CONSTANTS
  LF = LF
  Byte = {LF, other}
  MaxStream = 8
  MaxRecordBytes = 3
  Streams <- MCStreams
INVARIANTS
  ChunkIndependent
  BufferBounded
CHECK_DEADLOCK FALSE
