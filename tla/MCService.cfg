SPECIFICATION FairSpec
CONSTANTS
  Instances = {app, worker}
  Images = 2
  Settings <- MCSettings
  LockTries = 2
  PingTries = 2
  MaxRequests = 1
  MaxDeploys = 1
  MaxFaults = 2
  Nobody = Nobody
  Orphan = Orphan
INVARIANTS OneMigrator AppliedOnce ServesMigrated
PROPERTY EventuallyServes
CHECK_DEADLOCK FALSE
