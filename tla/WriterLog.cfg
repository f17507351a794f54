SPECIFICATION FairSpec
CONSTANTS
  ChannelSize = 2
  MaxRows = 5
  ClickHouseFails = TRUE
INVARIANTS TypeOK CountersHonest
PROPERTY ImplementsRowLog StartReturns RowsDecided
CHECK_DEADLOCK FALSE
