SPECIFICATION Spec
CONSTANTS
  None = None
  s1 = s1
  s2 = s2
  s3 = s3
  s4 = s4
  Sockets <- FourSockets
  MaxFrames = 3
  MaxDowns = 2
  MaxSilent = 1
  MaxRemounts = 1
  Ranges <- TwoRanges
  FirstRange = "1h"
  RANGE_MS <- Width
  MaxPoints <- Points
  MinGap = 2
  Skews = {0, 1}
  Jumps <- OneBack
  Retain = 4
  MaxLen = 5
  MaxTime = 2
  MaxLoads = 2
  MaxLoadFaults = 1
  Films <- ThreeFilms
  watchlist <- Watchlist
  watched <- Watched
  Brokens <- BrokenFilms
  MaxLate = 1
  BatchSize = 2
  MaxFaults = 1
  w1 = w1
  w2 = w2
  x = x
  y = y
  z = z
  c = c
  Windows <- TwoWindows
  WIDGETS <- Widgets
  defaultSpan <- Spans
  Presets <- Themes
  FirstTheme = "oled"
  Colours = {3}
  Options = {1}
  Containers <- OneContainer
  Legacy <- LegacyY
  MaxChanges = 2
INVARIANT FeedHonest
INVARIANT ChartFaithful
INVARIANT BatchesSound
INVARIANT DragFollows
INVARIANT ReloadKeeps
PROPERTY NeverBack
PROPERTY Recovers
CHECK_DEADLOCK FALSE
