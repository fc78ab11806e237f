SPECIFICATION HelpersSpec
CONSTANTS
  MaxLength = 4
  Names = {a, b}
  Threads = {t1, t2}
  MaxSize = 2
  Data = {d1, d2}
  Width = 3
  Margins = {0, 1, 2}
  Zooms = {1, 2}
CHECK_DEADLOCK FALSE
INVARIANTS TypeOK TrimExact NothingElseLost TrimIsStable  OutermostExact TidyReturnsDocument HashOfOwnData
PROPERTIES ReadsWhatWasWritten RgbShowsSymbol TextShowsSymbol
