SPECIFICATION FairCapture
CONSTANTS
  SeqCycle = 3
  MaxPos = 7
  MaxFragments = 3
  MaxGap = 1
  Nothing = Nothing
INVARIANTS MediaIsWhole NothingLeftBehind
PROPERTY CaptureEnds
