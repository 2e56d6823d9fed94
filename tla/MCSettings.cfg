SPECIFICATION Spec
CONSTANTS
  x = x
  y = y
  w1 = w1
  c = c
  None = None
  Windows <- OneWindow
  WIDGETS <- TwoWidgets
  defaultSpan <- Spans
  Presets <- OneTheme
  FirstTheme = "oled"
  Colours = {3}
  Options = {1}
  Containers <- OneContainer
  Legacy <- LegacyY
  MaxChanges = 3
INVARIANT MigratesLegacyOnly
CHECK_DEADLOCK FALSE
