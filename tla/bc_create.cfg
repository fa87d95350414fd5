CONSTANTS
  None = None
  Texts <- SomeTexts
  Places = 3
  Prices = {9, 18}
  Units = 2
  MinStep <- DefaultMinStep
  Rounding <- DoubleRounding
  Lots = {9, 10}
  MinNotional = 10
SPECIFICATION Spec
INVARIANT PercentIsHundredth
INVARIANT FormsAgree
INVARIANT PercentsNeverGoStale
INVARIANT ServedBeforeOn
CHECK_DEADLOCK FALSE
