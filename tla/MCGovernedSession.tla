------------------------- MODULE MCGovernedSession -------------------------
(* Small instances of GovernedSession: which calls agents send, and the    *)
(* worlds they are sent in.                                                *)
EXTENDS GovernedSession, TLC

Call(stage, finding, cost) ==
  [stage |-> stage, finding |-> finding, budgetWatched |-> FALSE, cost |-> cost]

Clean     == Call("ENFORCE", "none", 1)
Broken    == Call("ENFORCE", "rule", 1)
Looping   == Call("ENFORCE", "repeat_halts", 1)
Costly    == Call("ENFORCE", "none", 3)
WatchedBy == Call("ENFORCE", "watched_rule", 1)
Observed  == Call("OBSERVE", "repeat_halts", 1)
Leaking   == Call("OBSERVE", "credential", 1)
DryRun    == Call("DRY_RUN", "credential", 1)
Lenient   == [Costly EXCEPT !.budgetWatched = TRUE]

AllRequests  == {Clean, Broken, Looping, Costly, WatchedBy, Observed, Leaking, DryRun, Lenient}
CoreRequests == {Clean, Broken, Looping, Observed}
RaceRequests == {Clean, Looping, Costly, Observed}

(* Two containers and a kill switch, over reads that see the last write.   *)
Halting == [containers |-> Containers, requests |-> CoreRequests, calls |-> 3,
            orders |-> {"terminate"}, asks |-> 1,
            stale |-> FALSE, faults |-> FALSE, crashes |-> TRUE]

(* The same with resumes, over a store that lags and fails.                *)
Racing == [Halting EXCEPT !.requests = RaceRequests, !.calls = 2, !.orders = Order,
                          !.asks = 2, !.stale = TRUE, !.faults = TRUE]

(* One container, and every kind of call.                                  *)
Lone(c) == [Halting EXCEPT !.containers = {c}, !.requests = AllRequests, !.calls = 5,
                           !.orders = Order, !.asks = 3]

EveryWorld == {Halting, Racing} \cup {Lone(c) : c \in Containers}

(* Resumes between two containers whose reads see the last write.          *)
Resumed == {[Halting EXCEPT !.orders = Order, !.asks = 3, !.crashes = FALSE]}

Interchangeable == Permutations(Containers)
=============================================================================
