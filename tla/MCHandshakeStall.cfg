CONSTANTS
  ResendLimit = 1
  HalfOpenTime = 1
  SendsEarly = FALSE
  MaxMade = 2
  MaxNumbered = 2
  NetCapacity = 1
SPECIFICATION ShakeSpec
INVARIANT
  NothingLost
