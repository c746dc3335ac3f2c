SPECIFICATION Spec
CONSTANTS
  MaxSegments = 2
  Streams <- MCStreams
  Hash <- MCHash
INVARIANT CompleteHeader
