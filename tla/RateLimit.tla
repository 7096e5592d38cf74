-------------------------------- MODULE RateLimit --------------------------------
(***************************************************************************)
(* Whom a container counts a request against, and how many it lets through *)
(* (infrastructure/security_middleware.py: the token bucket, and the edge  *)
(* that vouches for a viewer).  A request comes to the API's own address,  *)
(* with whatever headers its sender wrote, or through a server of the      *)
(* edge, which writes them over.                                           *)
(***************************************************************************)
EXTENDS Integers, FiniteSets

CONSTANTS
  Subscribers,    \* who sends requests: each has one network of addresses
  Hosts,          \* the addresses of an IPv6 network
  Wide,           \* the subscribers with an IPv6 network; the others have one address
  Edges,          \* the edge's servers
  MaxTokens, Refill, Cost,    \* what a bucket holds, gains in a second and gives a request
  MaxClock        \* BOUND: the clock

(* What the constants must be. *)
LimitFits ==
  /\ {MaxTokens, Refill, Cost, MaxClock} \subseteq Nat /\ Cost <= MaxTokens
  /\ Wide \subseteq Subscribers /\ "none" \notin Subscribers

VARIABLES
  vouched,    \* the function and the edge share a secret
  clock,
  buckets,    \* the limiter's table: what each key has left, and when that was so
  passed,     \* HISTORY: passed[s]: the requests of s let through since `since`
  since,      \* HISTORY: when s was first heard
  demand,     \* HISTORY: the requests of s
  crowded     \* HISTORY: a subscriber was refused who had not used up a bucket

limitVars == <<vouched, clock, buckets, passed, since, demand, crowded>>

Address(net, host) == [net |-> net, host |-> host]
Own(s) == IF s \in Wide THEN {Address(s, host) : host \in Hosts} ELSE {Address(s, "one")}
NoViewer == Address("none", "none")

Each(value) == [s \in Subscribers |-> value]

LimitInit ==
  /\ vouched \in BOOLEAN /\ clock = 0 /\ buckets = {} /\ crowded = FALSE
  /\ since = Each(-1) /\ passed = Each(0) /\ demand = Each(0)

-----------------------------------------------------------------------------
(* A request: the address it comes from, the viewer its header names, and  *)
(* the proofs it carries (two spellings of one header are two values).     *)

Direct(from, says) == [source |-> from, viewer |-> says, proofs |-> {}]
Guessed(from, says) == [source |-> from, viewer |-> says, proofs |-> {"a guess"}]
Through(edge, viewer) == [source |-> Address(edge, "edge"), viewer |-> viewer, proofs |-> {"the secret"}]

(* header_value, edge_request_is_trusted: one value, and it is the secret  *)
(* the function was given.                                                 *)
Trusted(r) == vouched /\ r.proofs = {"the secret"}

(* rate_limit_bucket: an IPv6 address is counted with its /64.             *)
Bucket(address) == IF address.net \in Wide THEN Address(address.net, "every") ELSE address

(* Slip: the viewer's header is read from anyone.                          *)
KeyFromHeader(r) == IF r.viewer # NoViewer THEN Bucket(r.viewer) ELSE Bucket(r.source)

(* rate_limit_key                                                          *)
Key(r) ==
  IF Trusted(r) /\ r.viewer # NoViewer THEN Bucket(r.viewer) ELSE Bucket(r.source)

-----------------------------------------------------------------------------
Least(a, b) == IF a < b THEN a ELSE b

Of(key) == {b \in buckets : b.key = key}
Level(key) ==
  IF Of(key) = {} THEN MaxTokens
  ELSE LET b == CHOOSE x \in Of(key) : TRUE IN Least(MaxTokens, b.left + (clock - b.at) * Refill)

(* Slip: a request that is refused does not move the bucket's clock.       *)
LeftWhenRefused(key, left) ==
  [key |-> key, left |-> left,
   at |-> IF left = Level(key) /\ Of(key) # {} THEN (CHOOSE b \in Of(key) : TRUE).at ELSE clock]

Left(key, left) == [key |-> key, left |-> left, at |-> clock]

(* is_allowed: a key not seen before is let through, whatever it asks.     *)
Allowed(key) == Of(key) = {} \/ Level(key) >= Cost

Ask(s, r) ==
  LET key == Key(r)  first == since[s] < 0 IN
    /\ buckets' = (buckets \ Of(key)) \cup {Left(key, IF Allowed(key) THEN Level(key) - Cost ELSE Level(key))}
    /\ since' = IF first THEN [since EXCEPT ![s] = clock] ELSE since
    /\ passed' = IF Allowed(key) THEN [passed EXCEPT ![s] = @ + 1] ELSE passed
    /\ demand' = [demand EXCEPT ![s] = Least(@ + Cost, MaxTokens)]
    /\ crowded' = (crowded \/ (vouched /\ ~Allowed(key) /\ demand[s] + Cost <= MaxTokens))
    /\ UNCHANGED <<vouched, clock>>

(* The sender chooses the address of its network it sends from, and on the *)
(* API's own address what its headers say.                                 *)
AskDirectly(s, from, says) == Ask(s, Direct(from, says)) \/ Ask(s, Guessed(from, says))
AskThrough(s, from, edge)  == Ask(s, Through(edge, from))

Second ==
  /\ clock < MaxClock /\ clock' = clock + 1
  /\ UNCHANGED <<vouched, buckets, passed, since, demand, crowded>>

Emptied ==
  /\ buckets # {} /\ buckets' = {}
  /\ since' = Each(-1) /\ passed' = Each(0) /\ demand' = Each(0)
  /\ UNCHANGED <<vouched, clock, crowded>>

Asking(s) ==
  \E from \in Own(s) :
    \/ \E says \in UNION {Own(other) : other \in Subscribers} \cup {NoViewer} : AskDirectly(s, from, says)
    \/ \E edge \in Edges : AskThrough(s, from, edge)

LimitNext == Second \/ Emptied \/ \E s \in Subscribers : Asking(s)

LimitSpec == LimitInit /\ [][LimitNext]_limitVars

-----------------------------------------------------------------------------
(* PROPERTIES                                                              *)

(* On a stack that shares a secret with its edge, one subscriber gets no   *)
(* more through a container than a bucket holds and refills, whatever      *)
(* addresses of its network, edge servers and headers it uses; and none is *)
(* refused for what others send.                                           *)
Metered ==
  vouched =>
    /\ ~crowded
    /\ \A s \in Subscribers : passed[s] > 0 => Cost * passed[s] <= MaxTokens + Refill * (clock - since[s])
=============================================================================
