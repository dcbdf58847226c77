SPECIFICATION Spec
CONSTANTS
  Sizes <- TwoFiles
  Grow = 1
  Sample = 2
  Gain = 105
  Burst = 2
  BatchMax = 4
  MaxLag = 1
  MaxAttempts = 3
CHECK_DEADLOCK FALSE
INVARIANTS TypeOK RateIsKept CompleteMeansSent ProgressCovers
