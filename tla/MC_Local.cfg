\* A merge over a file that may become a directory, with one edit of the user; two
\* chunks each way over a relay; two worktrees over two hunks; one skill of which
\* two versions are published; two jobs under a ceiling one attempt can pass; two
\* tasks that note; three directories with a file each; replies of three lines; two
\* goals and two searches on the terminal.
CONSTANTS
  t1 = t1
  t2 = t2
  j1 = j1
  j2 = j2
  Path <- MCPath
  Rank <- MCRank
  Under <- MCUnder
  Content = {"old", "new"}
  Ignored = {"b"}
  MaxUserEdits = 1
  DiskMayFail = TRUE
  MaxIn = 2
  MaxOut = 2
  Isolated = {t1, t2}
  Hunk = {"g", "h"}
  MaxKeystrokes = 1
  Process = {"one"}
  Offers <- Packs
  AutoInstall = "Verified"
  MaxPublished = 2
  Layout <- AllLayouts
  HomeDot <- Dots
  Probe <- AllTries
  Job = {j1, j2}
  JobSpec <- MCJobs
  Targets <- MCTargets
  RouterCfg <- MCRouter
  Budget = 2
  MaxCost = 3
  MaxTried = 3
  MaxProcesses = 2
  Noted = {t1, t2}
  RecallLimit = 1
  MaxTries = 2
  MaxOutages = 2
  Dir <- Dirs
  StartedIn = "s"
  Global <- GlobalFiles
  Project <- AllProjectFiles
  Environment <- EnvironmentSets
  Flags <- FlagSets
  Works = {"ai-jail"}
  Within <- Alone
  MaxFileEdits = 1
  Reply <- Replies
  Routable = {"Implementation"}
  TuiCapacity = 3
  MaxGoals = 2
  MaxSearches = 2
  MaxSkills = 1
  MemoryAttached = TRUE
SPECIFICATION Spec
INVARIANTS
  TypeOK MergeKeepsBoth SandboxesAreFaithful IsolationHolds GuidanceWithinApproval ProfileHolds
  OverrunIsBounded RecordsAreTrue ServedAsAsked PlansCanFinish ScreenIsCurrent
\* Every behaviour is bounded.
CHECK_DEADLOCK FALSE
