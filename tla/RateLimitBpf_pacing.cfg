SPECIFICATION Spec
CONSTANTS
  Cpus = {c1, c2}
  NS_PER_SEC = 4
  DROP_HORIZON = 3
  RATE_UNLIMITED <- MCUnlimited
  Lens = {1, 2}
  Limits <- MCLimits
  MaxDelay = 3
  MaxNow = 4
  NoLimit = NoLimit
SYMMETRY CpuSymmetry
INVARIANTS TypeOK RateMet DebtBounded
PROPERTY PacedApart
