CONSTANTS
  Sources <- MCSources
  Texts <- MCTexts
SPECIFICATION Spec
INVARIANT TextMeansItsSource
INVARIANT AcceptedAsWritten
INVARIANT EveryRoundConsumes
CHECK_DEADLOCK FALSE
