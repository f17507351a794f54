SPECIFICATION FairSpec
CONSTANTS
  a = a  b = b
  Names = {a, b}
  Submissions <- Volumes
  InitialSpec <- Small
  MaxClock = 1
  MaxEvents = 4
CHECK_DEADLOCK FALSE
INVARIANT TypeOK
PROPERTIES ImmutablesSurviveRestore RestoreSucceeds
