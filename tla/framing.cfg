SPECIFICATION FairSpec
CONSTANTS
  Payloads <- MCPayloads
  Replies <- MCReplies
INVARIANTS
  TypeOK
  ChunksMeet
  RoundTrip
  SequenceFits
PROPERTIES
  MessageEnds
CHECK_DEADLOCK FALSE
