SPECIFICATION Spec
CHECK_DEADLOCK FALSE
CONSTANTS
  Letters = {"a", "b"}
  NonAscii = {"xC3", "xA9"}
  MaxEmail = 6
  MaxNumber = 15
  MaxOther = 2
INVARIANTS
  NumbersShowLastFourAtMost
  CardsShownIffWellFormed
  LocalPartIsHidden
  MaskingKeepsUtf8
  UnchangedOnlyIfMasked
