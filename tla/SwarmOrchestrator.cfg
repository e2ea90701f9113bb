\* One crash, one retry, one heal; both tasks at once or one after the other.
SPECIFICATION FairSpec
CONSTANTS
  t1 = t1
  t2 = t2
  Tasks = {t1, t2}
  Sensitive = {t1}
  Coders = {t2}
  Priority <- Ranks
  MaxConcurrency = 2
  MaxRetries = 1
  TokenLimit = 1
  MaxHeals = 1
  MaxCrashes = 1
  MaxResets = 1
INVARIANTS AttemptsBounded CompletedWasWorked MissionHonest
PROPERTIES EveryAttemptApproved KeepsRecord SwarmEnds
