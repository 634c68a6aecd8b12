CONSTANTS
  Requests = {r1, r2}
  Payments = {p1, i1}
  TopOffs = {i1}
  Workers = {w1, w2}
  Amount = 5
  MaxRetries = 2
  Estimate = 2
  Margin = 1
  FinalCosts = {1, 3}
  MaxAdjust = 1
  FreeLimit = 1
  StartPaid = 3
  StartFree = 1
  Threshold = 2
  Nobody = nobody
  MaxCrashes = 1
  Part = {"one"}
SPECIFICATION MCFairSpec
PROPERTY EveryChargeSettles
CHECK_DEADLOCK FALSE
