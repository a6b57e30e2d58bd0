SPECIFICATION PlayerLiveSpec
CONSTANTS
  Frames <- FourFrames
  NoFrame <- BlankFrame
  AnyFormat = FALSE
INVARIANTS
  MemoryIsTheFrames
  ShownFrameIsHeld
  OneCreationAtATime
  OpaqueOnlyIfOpaque
PROPERTIES
  LatestSpec
  FramesGetALayer
CHECK_DEADLOCK FALSE
