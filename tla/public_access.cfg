SPECIFICATION Spec
CONSTANTS
  Nil = Nil
  Buckets <- MCBuckets
  Aliases <- MCAliases
  EnvSuffix <- MCEnvSuffix
  MaxKeyLength = 5
  MaxListKeys = 2
  MaxPartNumber = 2
  MaxCompleteBody = 2
  ByteRanges <- MCByteRanges
  Digits <- MCDigits
  AccessKey = "ours"
  AccessSecret = "ours"
  S3Region = "here"
  HeaderSkew = 1
  MaxPresignExpires = 2
  DayLength = 2
  NoValue = NoValue
  Edges <- MCEdges
  Claims <- MCClaims
  Unsigned <- MCUnsigned
  Changes <- MCChanges
  MaxTime = 3
CHECK_DEADLOCK FALSE
INVARIANTS ServedWasSigned SignedIsServed
