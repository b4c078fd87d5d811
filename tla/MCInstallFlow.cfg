CONSTANTS
  Text <- AnyText
  Locals <- AllLocals
  Remotes <- RemoteFiles
  Disks = {"/dev/sda", "/dev/sdb"}
  COSDisks = {"/dev/sda", "/dev/sdb"}
  DiskAt <- Paths
  FormattedURL <- URLs
  FetchRetries = 2
  WebhookMaxRetries = 1
SPECIFICATION FairSpec
INVARIANTS
  WritesOnlyWhenCleared
  WritesValidConfig
  ReportsTruthful
  WipesOnlyForeign
PROPERTY InstallEnds
