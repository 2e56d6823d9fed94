SPECIFICATION Spec
CONSTANTS
  None = None
  x = x
  y = y
  p1 = p1
  p2 = p2
  s1 = s1
  s2 = s2
  Ids <- TwoIds
  Polls <- TwoPolls
  Streams <- TwoStreams
  Word = 8
  Cap = 2
  Window = 2
  HeaderLen = 3
  SizeLen = 2
  Base = 3
  Newline = 2
  MaxLow = 0
  MaxWidth = 3
  BufLen = 7
  MaxLog <- LinesOf
  Logs <- ShortLogs
  MaxTicks = 2
  MaxChanges = 2
  MaxFaults = 1
INVARIANT RowsHonest
INVARIANT LinesFaithful
INVARIANT TextKept
PROPERTY NoRegress
PROPERTY Settles
CHECK_DEADLOCK FALSE
