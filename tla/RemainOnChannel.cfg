CONSTANTS
  MaxRocs = 3
  Durations <- MCDurations
SPECIFICATION FairSpec
INVARIANT ReadyRocScheduled
PROPERTIES ImplementsRocSession CancelCompletesRoc
CHECK_DEADLOCK FALSE
