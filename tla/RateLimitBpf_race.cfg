SPECIFICATION Spec
CONSTANTS
  Cpus = {c1, c2}
  NS_PER_SEC = 4
  DROP_HORIZON = 3
  RATE_UNLIMITED <- MCUnlimited
  Lens = {1, 2}
  Limits <- MCLimits
  MaxDelay = 4
  MaxNow = 5
  NoLimit = NoLimit
INVARIANT SameValueExpected
