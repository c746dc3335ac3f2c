SPECIFICATION FairSpec
CONSTANTS
  MaxSegments = 3
  Streams <- MCStreams
  Hash <- MCHash
INVARIANTS
  TypeOK
  ByteConservation
  TypedOnlyIfValid
  AlignedFrameSentWhole
PROPERTIES
  InputEndReachesOutput
  SegmentsSpec
