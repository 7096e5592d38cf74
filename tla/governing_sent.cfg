SPECIFICATION Spec
CONSTANTS
  Parts = {"gate"}
  Rulebooks <- InOrder
  h1 = h1
  h2 = h2
  h3 = h3
  Hooks <- HooksHere
  FilesLeft <- SaltLeft
  MaxFaults = 2
  Folders <- FolderSet
  Parent <- Up
  Layouts <- TreeSet
  Environments <- EnvironmentSet
  Homes <- HomeSet
  KeyFiles <- TheKeyFile
  Default = "default"
  MaxWalkUp = 3
  Names <- NameSet
  Root <- WorkspaceAt
  Home <- HomeAt
  Listed <- OnTheList
  Starts <- StartSet
  Words <- ScopeWords
  Values <- HeldByVariable
  MaxDirectories = 3
  MaxNested = 2
  MaxMoves = 3
  ToolCalls <- HookCalls
  Machines <- TheMachines
  Lists <- ListSet
  Stages <- StageSet
  Arounds <- AroundSet
  MaxChanges = 1
  Calls <- Repeated
  Shapeless <- None
  Shape <- OneFile
  Polls <- ThePoll
  Threshold = 3
  MaxCycle = 3
  Keep = 6
  MaxCalls = 8
CHECK_DEADLOCK FALSE
INVARIANT GovernanceContentStays
