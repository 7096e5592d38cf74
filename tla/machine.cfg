SPECIFICATION Spec
CONSTANTS
  w1 = w1
  w2 = w2
  Folders <- Worktrees
  Checkouts <- Worktrees
  Agents = {"codex", "muse"}
  Found <- FewFound
  Requests <- FewRequests
  MaxCommands = 3
  MaxUpsets = 1
SYMMETRY Alike
CHECK_DEADLOCK FALSE
INVARIANTS DisconnectHolds ConnectHolds
PROPERTY OthersKept
