SPECIFICATION DeskSpec
CONSTANTS
  c1 = c1
  c2 = c2
  seen1 = seen1
  seen2 = seen2
  stopped = stopped
  r1 = r1
  r2 = r2
  pay = pay
  web = web
  Containers <- TheContainers
  Calls <- TheCalls
  Rules <- TheRules
  Flags <- Overlapping
  Refusals <- Refused
  MaxReviews = 3
  StoreFaults = TRUE
  Crashes = TRUE
  Servers <- TheContainers
  Cap = 3
  PerDraft = 2
  MaxAttempts = 2
  PerContainer = 3
  Inputs <- TheInputs
  Answers <- TheReplies
  RuleSets <- TheSets
  MaxRules = 2
  Reserved <- TheReserved
  TableFails = TRUE
  MaxDays = 2
  MaxDrafts = 3
  Holders <- TheContainers
  Books <- TheBooks
  Found <- AsFound
  Refresh = 2
  RequestTime = 1
  MaxSets = 2
  MaxFailed = 2
  Runners <- TheContainers
  Projects <- PayAndWeb
  Fleets <- TheFleets
  Plans <- TheBatches
  Began <- NewOrPromoted
  Target = 1
  MinObserved = 1
  MinAge = 1
  Horizon = 2
  Cooldown = 1
  RowBudget = 2
  Overlap = TRUE
  MaxTicks = 3
  MaxUpsets = 1
SYMMETRY Alike
CHECK_DEADLOCK FALSE
PROPERTY FailedReadKeepsPolicy
