SPECIFICATION FairSpec
CONSTANTS
  miner = miner  validator = validator
  Roles = {miner, validator}
  Settings <- SomeSettings
  IncrementPercent = 50
  InitialSize = 10
  MaxInt = 2047
  MaxClock = 3
  MaxFaults = 2
CHECK_DEADLOCK FALSE
INVARIANTS TypeOK NewestKept
PROPERTIES RetentionEnforced ExpansionBounded PressureAnswered SnapshotsNeverBlockDeletion
