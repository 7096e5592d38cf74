------------------------------ MODULE MCInstaller ------------------------------
EXTENDS Installer, TLC

CONSTANTS w1, w2

Worktrees == {w1, w2}

(* Which of the two worktrees is which makes no difference.                *)
Alike == Permutations(Worktrees)

Ask(how, who, m, inc, py) ==
  [form |-> how, agents |-> who, mode |-> m, include |-> inc, python |-> py]

FewRequests ==
  {Ask("connect", {"codex"}, "kept", FALSE, "py1"),
   Ask("connect", {"codex", "muse"}, "enforce", TRUE, "py2"),
   Ask("repo", {"codex"}, "observe", TRUE, "py1")}

There(files, own, followed, elsewhere) ==
  [files |-> files, hook |-> own, tracked |-> followed, hooksPath |-> elsewhere]

FewFound ==
  {There({}, "none", {}, FALSE),
   There({"config", "codex", "exclude"}, "own", {}, FALSE),
   There({"codex"}, "own", {"codex"}, TRUE)}
=============================================================================
