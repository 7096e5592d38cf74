--------------------------------- MODULE MCFront ---------------------------------
(***************************************************************************)
(* What stands between a visitor and the service, each part on a small     *)
(* instance: whom a request is counted against, who may ask it and what is *)
(* remembered of it, the sign-in store, and the pages of the ledger a      *)
(* reader goes through.  They share no state but their inputs, so each     *)
(* behaviour is of one part: the others stand still in an initial state.   *)
(***************************************************************************)
EXTENDS SignIn, RateLimit, Requests, Pages, TLC

CONSTANTS
  Parts,      \* which of them run
  c1, c2,     \* containers
  t1, t2, t3, \* request threads
  k1, k2      \* session tokens

VARIABLE part

-----------------------------------------------------------------------------
(* A subscriber with one address and one with a network, behind one edge.  *)
TheSubscribers == {"v4", "v6"}
TheNetworks    == {"v6"}
TheEdge        == {"edge"}
TwoHosts       == {1, 2}

-----------------------------------------------------------------------------
(* A path for each name the lists of the middleware and the routes have,   *)
(* and one that neither has.                                               *)
Listed ==
  {<<"page">>, <<"status">>, <<"api", "auth", "sessions">>, <<"api", "auth", "whoami">>, <<"assets", "icon">>,
   <<"api", "sessions">>, <<"sessions.json">>, <<"api", "insights">>, <<"insights.json">>,
   <<"rules">>, <<"rules", "layering">>, <<"policy">>, <<"policy", "config">>, <<"rules", "explain">>, <<"rules", "draft">>,
   <<"api", "overview">>, <<"api", "decisions">>, <<"api", "decision">>, <<"api", "projects">>,
   <<"issue-certificate">>, <<"simulate-loop">>, <<"simulate-secret">>, <<"api", "auth", "links">>, <<"api", "sandbox">>}
Patterned ==
  {<<"sessions", "s">>, <<"sessions", "s", "x">>, <<"sessions", "s", "resume">>, <<"sessions", "s", "terminate">>,
   <<"sessions", "sim", "terminate">>, <<"api", "projects", "p">>, <<"api", "projects", "p", "promote">>,
   <<"api", "projects", "sandbox", "promote">>}
Unlisted ==
  {<<"readyz">>, <<"docs", "openapi.json">>, <<"evaluate-tool-call">>, <<"adapter", "universal-tool-call">>, <<"nowhere">>}
ThePaths == Listed \cup Patterned \cup Unlisted
Repeated == {<<"rules">>, <<"rules", "explain">>, <<"sessions", "sim", "terminate">>}

-----------------------------------------------------------------------------
(* Two threads in one container and one in another, two tokens, every call *)
(* that may fail.                                                          *)
TheThreads == {t1, t2, t3}
TheContainers == {c1, c2}
TwoAndOne  == [t \in TheThreads |-> IF t = t3 THEN c2 ELSE c1]
TheTokens  == {k1, k2}

-----------------------------------------------------------------------------
(* Up to three rows in each of two days, wanted or not.                    *)
OfDay(d) == {{}} \cup {{LedgerRow(d, k, w[k]) : k \in 1..n} : n \in 1..3, w \in [1..3 -> BOOLEAN]}
TheLedgers == {x \cup y : x \in OfDay(1), y \in OfDay(2)}
TheLimits  == {1, 2}
TheBudgets == {2, 3, 6}

-----------------------------------------------------------------------------
ASSUME FrontFits == LimitFits /\ RequestsFit /\ ConstantsFit /\ PagesFit

Alike == Permutations(TheTokens) \cup Permutations({t1, t2})

FrontInit ==
  /\ part \in Parts /\ Init /\ LimitInit /\ RequestsInit /\ PagesInit
  /\ part # "limit" => ~vouched
  /\ part # "requests" => stack = [public |-> FALSE, keys |-> FALSE, enforced |-> FALSE]
  /\ part # "pages" => ledger = {}

LimitStep    == part = "limit"    /\ LimitNext    /\ UNCHANGED <<part, requestVars, vars, pageVars>>
RequestsStep == part = "requests" /\ RequestsNext /\ UNCHANGED <<part, limitVars, vars, pageVars>>
SignInStep   == part = "sign in"  /\ Next         /\ UNCHANGED <<part, limitVars, requestVars, pageVars>>
PagesStep    == part = "pages"    /\ PagesNext    /\ UNCHANGED <<part, limitVars, requestVars, vars>>

FrontNext == LimitStep \/ RequestsStep \/ SignInStep \/ PagesStep

(* The properties are those of the four modules.                           *)
FrontSpec == FrontInit /\ [][FrontNext]_<<part, limitVars, requestVars, vars, pageVars>>
=============================================================================
