--------------------------------- MODULE Requests ---------------------------------
(***************************************************************************)
(* What one container does with a request (lambda_handler and _route of    *)
(* interfaces/api_handlers.py, validate_request_security of                *)
(* infrastructure/security_middleware.py, infrastructure/idempotency.py):  *)
(* who may ask it is decided from the method and the path, a POST that     *)
(* repeats a key is answered from memory, and otherwise a route runs and   *)
(* some of them remember their answer.  A container takes one request at a *)
(* time.                                                                   *)
(*                                                                         *)
(* A path is the tuple of its segments; "sim" is a session of a scenario   *)
(* and "sandbox" a sandbox's name.  A request may be refused by its route  *)
(* for what it says, or fail in the middle of what it does.                *)
(***************************************************************************)
EXTENDS Integers, Sequences, FiniteSets

CONSTANTS
  Paths,      \* the paths asked for
  Keyed,      \* the paths that are asked for with an Idempotency-Key as well
  Life        \* how long an answer is remembered, in ticks: ttl_seconds

(* What the constants must be. *)
RequestsFit == Paths \subseteq Seq(STRING) /\ Keyed \subseteq Paths /\ Life \in Nat

VARIABLES
  stack,      \* how it is deployed: reads public, operator keys configured, keys enforced
  phase, request,
  held,       \* what the request in hand was answered: its status, and the request it answers for
  memory,     \* memory[r]: the age of the answer remembered for r, and the request it was made for
  done,       \* HISTORY: done[r]: how long ago a keyed r was answered 200 by its route
  again       \* HISTORY: the keyed requests that acted although they had been answered in time

requestVars == <<stack, phase, request, held, memory, done, again>>

Who   == {"nobody", "wrong key", "placeholder", "session", "key"}
Verbs == {"GET", "POST"}

Request(verb, path, who, key) == [verb |-> verb, path |-> path, who |-> who, key |-> key]
Asks == [verb : Verbs, path : Paths, who : Who, key : BOOLEAN]
NoRequest == Request("GET", <<>>, "nobody", FALSE)
NoAnswer  == [status |-> 0, for |-> <<"GET", <<>>>>]
Scopes == {"POST"} \X Keyed
Never  == Life + 1

RequestsInit ==
  /\ stack \in [public : BOOLEAN, keys : BOOLEAN, enforced : BOOLEAN]
  /\ phase = "idle" /\ request = NoRequest /\ held = NoAnswer
  /\ memory = [s \in Scopes |-> [age |-> Never, for |-> s]]
  /\ done = [s \in Scopes |-> Never] /\ again = {}

-----------------------------------------------------------------------------
(* WHO ASKS: the placeholder is printed in the source, and a session lives *)
(* only while the key that opened it is configured.                        *)

Identified(who) == stack.keys /\ who \in {"key", "session"}
Presents(who)   == who # "nobody"

(* _require_operator_key                                                   *)
Climbs(who, allowSession) ==
  IF Identified(who) /\ (allowSession \/ who = "key") THEN 200
  ELSE IF stack.keys /\ ~Presents(who) THEN 401 ELSE 403

-----------------------------------------------------------------------------
(* WHAT IS ASKED                                                           *)

StartsWith(path, with) == Len(path) >= Len(with) /\ SubSeq(path, 1, Len(with)) = with
EndsIn(path, action) == Len(path) >= 2 /\ path[1] = "sessions" /\ path[Len(path)] = action

PublicPaths == {<<"page">>, <<"status">>, <<"openapi.json">>, <<"install.py">>,
                <<"api", "auth", "sessions">>, <<"api", "auth", "whoami">>}
SessionsRead == {<<"api", "sessions">>, <<"sessions.json">>}
InsightsRead == {<<"api", "insights">>, <<"insights.json">>}
RulesPaths   == {<<"rules">>, <<"rules", "layering">>}
PolicyPaths  == {<<"policy">>, <<"policy", "config">>}
AppReads     == {<<"api", "overview">>, <<"api", "decisions">>, <<"api", "decision">>, <<"api", "projects">>}
PageReads    == SessionsRead \cup InsightsRead \cup RulesPaths \cup PolicyPaths \cup AppReads
PageReadPosts == {<<"rules", "explain">>, <<"rules", "draft">>}
Scenarios    == {<<"simulate-loop">>, <<"simulate-secret">>}
Certificate  == {<<"issue-certificate">>}
Recordings   == {<<"evaluate-tool-call">>, <<"adapter", "universal-tool-call">>}
Links        == <<"api", "auth", "links">>
Sandbox      == <<"api", "sandbox">>

IsResume(r)    == r.verb = "POST" /\ EndsIn(r.path, "resume")
IsTerminate(r) == r.verb = "POST" /\ EndsIn(r.path, "terminate")
IsScenarioTerminate(r) == IsTerminate(r) /\ r.path[2] = "sim"
IsProtectedWrite(r)  == r.verb = "POST" /\ r.path \in RulesPaths \cup PolicyPaths
IsProjectWrite(r)    == r.verb # "GET" /\ StartsWith(r.path, <<"api", "projects">>)
IsSandboxProject(r)  == StartsWith(r.path, <<"api", "projects", "sandbox">>)
IsServedAsset(r)     == r.verb = "GET" /\ StartsWith(r.path, <<"assets">>)
IsPageRead(r) ==
  \/ r.verb = "GET" /\ (\/ r.path \in PageReads
                        \/ StartsWith(r.path, <<"sessions">>) /\ Len(r.path) = 2
                        \/ StartsWith(r.path, <<"api", "projects">>) /\ Len(r.path) = 3)
  \/ r.verb = "POST" /\ r.path \in PageReadPosts
IsSessionAnsweringPost(r) == r.verb = "POST" /\ r.path \in Certificate \cup Scenarios

-----------------------------------------------------------------------------
(* WHO MAY ASK IT: validate_request_security, in its order.                *)

UnlistedRead(r) == r.verb = "GET" /\ ~stack.public

(* Steps 3 to 3b: what only the operator may ever do.                      *)
OperatorsAlone(r) ==
  \/ IsResume(r) \/ IsProtectedWrite(r)
  \/ IsProjectWrite(r) /\ ~(stack.public /\ IsSandboxProject(r))

(* Steps 3c and 3d: what a public demo leaves to its visitors.             *)
VisitorsWhenPublic(r) ==
  \/ IsProjectWrite(r) \/ (r.verb = "POST" /\ r.path = Sandbox)
OperatorsFreeze(r) == IsTerminate(r) /\ ~(stack.public /\ IsScenarioTerminate(r))

(* Step 5: a key where keys are enforced, the placeholder while no other is*)
(* configured.                                                             *)
Enforced(who) ==
  IF ~stack.enforced \/ Identified(who) THEN 200
  ELSE IF ~Presents(who) THEN 401
  ELSE IF (who = "key" /\ stack.keys) \/ (who = "placeholder" /\ ~stack.keys) THEN 200 ELSE 403

Validate(r) ==
  IF r.verb = "POST" /\ r.path = Links THEN Climbs(r.who, FALSE)
  ELSE IF OperatorsAlone(r) THEN Climbs(r.who, TRUE)
  ELSE IF VisitorsWhenPublic(r) THEN IF stack.public THEN 200 ELSE Climbs(r.who, TRUE)
  ELSE IF OperatorsFreeze(r) THEN Climbs(r.who, TRUE)
  ELSE IF r.path \in PublicPaths \/ IsServedAsset(r) THEN 200
  ELSE IF IsPageRead(r) THEN IF stack.public THEN 200 ELSE Climbs(r.who, TRUE)
  ELSE IF UnlistedRead(r) THEN Climbs(r.who, TRUE)
  ELSE IF IsSessionAnsweringPost(r) /\ ~stack.public THEN Climbs(r.who, TRUE)
  ELSE Enforced(r.who)

-----------------------------------------------------------------------------
(* WHAT ITS ROUTE DOES                                                     *)

(* The routes there are: the others answer 404.                            *)
IsRoute(r) ==
  \/ r.verb = "GET" /\ (\/ r.path \in (PublicPaths \cup PageReads) \ {<<"api", "auth", "sessions">>}
                        \/ r.path \in {<<"readyz">>, <<"docs", "openapi.json">>}
                        \/ StartsWith(r.path, <<"assets">>) \/ StartsWith(r.path, <<"sessions">>)
                        \/ StartsWith(r.path, <<"api", "projects">>) /\ Len(r.path) = 3)
  \/ r.verb = "POST" /\ (\/ r.path \in RulesPaths \cup PolicyPaths \cup PageReadPosts \cup Certificate \cup Scenarios
                         \/ r.path \in Recordings \cup {Links, Sandbox, <<"api", "auth", "sessions">>}
                         \/ IsTerminate(r) \/ IsResume(r)
                         \/ StartsWith(r.path, <<"api", "projects">>) /\ Len(r.path) = 4)

(* The routes that leave something behind.                                 *)
Acts(r) == r.verb = "POST" /\ r.path \notin PageReadPosts \cup Certificate

(* The routes that store what they answered: terminate, resume, the rules, *)
(* the policy, and every POST of the application (_remember).              *)
Remembers(r) ==
  \/ IsTerminate(r) \/ IsResume(r) \/ IsProtectedWrite(r)
  \/ r.verb = "POST" /\ (r.path = Sandbox \/ IsProjectWrite(r))

-----------------------------------------------------------------------------
Goes(label) == phase' = label
Asked(r) == <<r.verb, r.path>>

(* Slip: an answer is remembered under the caller's key alone.             *)
ByKeyAlone(r) == CHOOSE s \in Scopes : TRUE

Scope(r) == Asked(r)

(* Slip: an answer is forgotten when it is as old as it may be.            *)
StrictlyYounger(age) == age < Life

Remembered(age) == age <= Life

Arrive(r) ==
  /\ phase = "idle" /\ (r.key => r.path \in Keyed)
  /\ request' = r
  /\ IF Validate(r) = 200 THEN Goes("look up") /\ held' = NoAnswer
     ELSE Goes("answered") /\ held' = [status |-> Validate(r), for |-> Asked(r)]
  /\ UNCHANGED <<stack, memory, done, again>>

LookUp ==
  LET r == request IN
    /\ phase = "look up"
    /\ IF r.key /\ r.verb = "POST" /\ Remembered(memory[Scope(r)].age)
       THEN Goes("answered") /\ held' = [status |-> 200, for |-> memory[Scope(r)].for]
       ELSE Goes("route") /\ UNCHANGED held
    /\ UNCHANGED <<stack, request, memory, done, again>>

(* A route that is refused, or fails when it has already changed something,*)
(* stores nothing.                                                         *)
Refused ==
  /\ phase = "route" /\ Goes("answered")
  /\ held' \in {[status |-> s, for |-> Asked(request)] : s \in IF IsRoute(request) THEN {400, 500} ELSE {404}}
  /\ UNCHANGED <<stack, request, memory, done, again>>

RunRoute ==
  LET r == request IN
    /\ phase = "route" /\ IsRoute(r) /\ Goes("answered")
    /\ held' = [status |-> 200, for |-> Asked(r)]
    /\ again' = IF r.key /\ Acts(r) /\ done[Asked(r)] <= Life THEN again \cup {r.path} ELSE again
    /\ done'  = IF r.key /\ Acts(r) THEN [done EXCEPT ![Asked(r)] = 0] ELSE done
    /\ memory' = IF r.key /\ Remembers(r) THEN [memory EXCEPT ![Scope(r)] = [age |-> 0, for |-> Asked(r)]] ELSE memory
    /\ UNCHANGED <<stack, request>>

Answered ==
  /\ phase = "answered" /\ Goes("idle") /\ request' = NoRequest /\ held' = NoAnswer
  /\ UNCHANGED <<stack, memory, done, again>>

-----------------------------------------------------------------------------
Older(age) == IF age = Never THEN Never ELSE age + 1

Aged ==
  /\ \E s \in Scopes : done[s] # Never
  /\ memory' = [s \in Scopes |-> [memory[s] EXCEPT !.age = Older(@)]]
  /\ done' = [s \in Scopes |-> Older(done[s])]
  /\ UNCHANGED <<stack, phase, request, held, again>>

Recycled ==
  /\ \E s \in Scopes : done[s] # Never
  /\ Goes("idle") /\ request' = NoRequest /\ held' = NoAnswer
  /\ memory' = [s \in Scopes |-> [age |-> Never, for |-> s]] /\ done' = [s \in Scopes |-> Never]
  /\ UNCHANGED <<stack, again>>

RequestsNext ==
  \/ \E r \in Asks : Arrive(r)
  \/ LookUp \/ Refused \/ RunRoute \/ Answered \/ Aged \/ Recycled

RequestsSpec == RequestsInit /\ [][RequestsNext]_requestVars

-----------------------------------------------------------------------------
(* PROPERTIES                                                              *)

(* What the routes show of the stack's sessions, ledger, rules or tables,  *)
(* and what changes how others are governed.  Where a list of the          *)
(* middleware names just these routes it is used here too: that its lists  *)
(* name the paths the routes serve is taken from the code, not checked.    *)
Shows(asked) ==
  \/ asked[1] = "GET" /\ (\/ asked[2] \in PageReads \cup {<<"readyz">>}
                          \/ StartsWith(asked[2], <<"sessions">>) \/ StartsWith(asked[2], <<"api", "projects">>))
  \/ asked[1] = "POST" /\ asked[2] \in PageReadPosts \cup Certificate \cup Scenarios \cup {Sandbox}
Governs(asked) ==
  asked[1] = "POST" /\ (\/ asked[2] \in RulesPaths \cup PolicyPaths \/ EndsIn(asked[2], "resume")
                        \/ EndsIn(asked[2], "terminate") /\ asked[2][2] # "sim"
                        \/ StartsWith(asked[2], <<"api", "projects">>) /\ ~StartsWith(asked[2], <<"api", "projects", "sandbox">>))

(* Nobody is answered, by a route or from memory, what another request     *)
(* asked for; what governs others is answered to the operator alone; on a  *)
(* private stack so is everything that shows what it holds; and no session *)
(* is given a link.                                                        *)
AnswersAreTheAskers ==
  phase = "answered" /\ held.status = 200 =>
    /\ held.for = Asked(request)
    /\ Governs(held.for) \/ (Shows(held.for) /\ ~stack.public) => Identified(request.who)
    /\ held.for = <<"POST", Links>> => stack.keys /\ request.who = "key"

(* A write that is repeated under its key while its answer is remembered   *)
(* is not done again; the recordings, the scenarios and the sign-in routes *)
(* remember none.                                                          *)
WritesOnce == again \subseteq Recordings \cup Scenarios \cup {Links, <<"api", "auth", "sessions">>}
=============================================================================
