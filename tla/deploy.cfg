SPECIFICATION DeploySpec
CONSTANTS
  MaxFailures = 1
  MaxKills = 1
  MaxCommit = 3
  MaxDeploy = 2
  Schema <- MCSchema
  Broken = {2}
INVARIANT DeployTypeOK
INVARIANT TypeOK
INVARIANT FailedRestoreKeepsOldData
INVARIANT OldDataSurvivesRestore
INVARIANT RestoredIsWhole
INVARIANT RollbackReturnsOldData
INVARIANT RollbackFailsByMigration
INVARIANT ReachableAfterSmoke
INVARIANT FailedDeployKeepsCaddy
INVARIANT OneDnsRecord
INVARIANT DoneIsOnProxyNetwork
PROPERTY MigrationsFollowBackups
CHECK_DEADLOCK FALSE
