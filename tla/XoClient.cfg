SPECIFICATION FairSpec
CONSTANTS
  Callers = {c1, c2}
  NoCaller = NoCaller
  MaxLosses = 3
  MaxRedials = 1
INVARIANTS TypeOK OneDialPerLoss OneKnownLossIsInvisible
PROPERTIES CallsReturn Recovers SendsAtMostTwice
