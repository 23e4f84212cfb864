CONSTANTS
  SeqSpace = 32
  ISS <- MCISS
  Bytes = 3
  MSS = 3
  SndBuf = 3
  RcvBuf = 4
  WndUnit = 2
  Cwnds <- OneOrTwoSegments
  RetriesMax = 1
  Burst = 2
  AckLag = 2
  Writes <- OneOrSegment
  Reads <- OneOrAll
SPECIFICATION Spec
CHECK_DEADLOCK FALSE
INVARIANTS
  SenderCovers
  SenderAlive
  StreamPrefix

  
