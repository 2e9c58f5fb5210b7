SPECIFICATION TierSpec
INVARIANTS
  FilteredTierStaysOut
CHECK_DEADLOCK FALSE
