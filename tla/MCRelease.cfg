\* Promotion: four commits, two attempts of the candidate's run, two changes of the world.
\* Automatic releases: three commits, four pushes, a nightly, a failure, rerun or forced push.
\* Version files: two files, one edit by hand, two failures or kills.
\* Transport: pages of two records, four releases, two bad responses.
SPECIFICATION MCSpec
CONSTANTS
  Commits = {1, 2, 3, 4}
  Source = 1
  Ancestors <- MCAncestors
  Workflows <- MCWorkflows
  Policy <- MCPolicy
  Files = {"package", "extra"}
  built = built
  other = other
  Bytes = {built, other}
  Built <- MCBuilt
  Manifests <- MCManifests
  MaxAttempt = 2
  MaxChanges = 2
  None = None
  MaxCommits = 3
  MaxPushes = 4
  MaxNightlies = 1
  MaxRunFaults = 1
  MaxFaults = 2
  Committed <- MCCommitted
  Jobs <- MCJobs
  MaxAppleBuild = 5
  MaxEdits = 1
  MaxStops = 2
  ReadAttempts = 3
  PageSize = 2
  MaxRequests = 3
  MaxRecords = 4
INVARIANTS PromotesAcceptedBytes VerifiedAtOnce EvidenceOfLatestAttempt AutomaticOrder
           EveryDeclarationHolds ReadsSound CreatedOnce
PROPERTIES UndisturbedSucceeds PublishedWasHead HeadReleased NoEditOverwritten SyncCompletes
CHECK_DEADLOCK FALSE
