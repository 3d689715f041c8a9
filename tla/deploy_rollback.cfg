SPECIFICATION DeploySpec
CONSTANTS
  MaxFailures = 0
  MaxKills = 0
  MaxCommit = 2
  MaxDeploy = 1
  Schema <- MCMigration
  Broken = {}
INVARIANT RollbackSucceeds
CHECK_DEADLOCK FALSE
