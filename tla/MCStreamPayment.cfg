SPECIFICATION FairSpec
CONSTANTS
  source_amount = 7
  U64Max = 20
  IncreaseDivisor = 3
  RateNum = 1
  RateDen = 2
  MarginDen = 1
  MinAttempts = 3
  PathRates <- MCPathRates
  Limits <- MCLimits
  Unlimited = Unlimited
  RatesMayFail = TRUE
  MaxPackets = 6
INVARIANTS TypeOK BooksAgree ReceiptNeverOverstates OkMeansFulfilled NeverWaitsOnNothing RateStaysLearnable
PROPERTIES StaysInWindow PaymentEnds
CHECK_DEADLOCK FALSE
