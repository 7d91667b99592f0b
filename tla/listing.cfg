SPECIFICATION Spec
CONSTANTS
  Nil = Nil
  Buckets <- MCBuckets
  Aliases <- MCAliases
  EnvSuffix <- MCEnvSuffix
  MaxKeyLength = 4
  MaxListKeys = 2
  MaxPartNumber = 2
  MaxCompleteBody = 2
  ConfigBuckets <- MCConfigBuckets
  Files <- MCFiles
  Deployments <- MCDeployments
  Requests <- MCRequests
CHECK_DEADLOCK FALSE
INVARIANT ListedKeysResolve
