CONSTANTS
  Requests = {r1}
  Payments = {p1}
  TopOffs = {}
  Workers = {w1, w2}
  Amount = 5
  MaxRetries = 2
  Estimate = 2
  Margin = 1
  FinalCosts = {1, 3}
  MaxAdjust = 1
  FreeLimit = 1
  StartPaid = 3
  StartFree = 1
  Threshold = 0
  Nobody = nobody
  MaxCrashes = 1
  Part = {"payments"}
SPECIFICATION MCFairSpec
PROPERTY EveryPaymentIsCredited
CHECK_DEADLOCK FALSE
