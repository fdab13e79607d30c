\* A clock that passes every date, applies of every text, failing at any step.
CONSTANTS
  Texts <- SomeTexts
  First <- FirstSecond
  Last = 7
  Day = 3
  Parts = 2
  Window = 2
  Start = 0
  End = 8
  Faults = TRUE
  NoExpiry = NoExpiry
  NoEntry = NoEntry
SPECIFICATION Spec
\* Time ends.
CHECK_DEADLOCK FALSE
INVARIANTS TypeOK ParsersAgree RecordedIsSent StatusIsTrue
