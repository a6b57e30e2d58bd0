SPECIFICATION SharingSpec
CONSTANTS
  a = a
  b = b
  x = x
  y = y
  h1 = h1
  h2 = h2
  h3 = h3
  h4 = h4
  m = m
  NoStream = NoStream
  Updaters <- TwoUpdaters
  Streams <- TwoStreams
  Handles <- FourHandles
  Names = {m}
  TargetSurfaceCount = 3
  MaxCommands = 2
SYMMETRY Symmetry
INVARIANTS
  KeptForAUser
  PoolHoldsTheLatest
CHECK_DEADLOCK FALSE
