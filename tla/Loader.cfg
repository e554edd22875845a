SPECIFICATION Spec
CONSTANTS
  Frames <- MCFrames
  SectPages = 4
  Sections = 4
  Widest = 4
  Size <- MCSize
  None = None
  Width = 2
  Kthreads = 5
  Files = {"a", "b"}
  Pages <- MCPages
  HasTail = {"a"}
  Offset <- MCOffset
  SegPages <- MCSegPages
  MemPages <- MCMemPages
  VAddr <- MCVAddr
  Retries = 2
  MaxSessions = 2
  MaxFaults = 2
  MaxThreads = 1
  MaxBreaks = 2
  BreakPages = {1, 3}
INVARIANT ImageIsFile
INVARIANT FramesApart
INVARIANT PidsUnique
PROPERTY MappingsKept
CHECK_DEADLOCK FALSE
