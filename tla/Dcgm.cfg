CONSTANTS
  Values = {0, 1, 3}
  Blank = Blank
  Step = 400000
  Kept = 3
  MaxTime = 1200000
SPECIFICATION MCSpec
INVARIANTS RateIntegratesSamples TotalIsDifference NothingSkipped
PROPERTIES TotalFallsOnlyWithCounter StaleUntilServed ScrapeReturns StopCompletes
CHECK_DEADLOCK FALSE
