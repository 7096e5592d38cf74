----------------------------- MODULE Requests_proofs -----------------------------
(***************************************************************************)
(* Whom a request is counted against, who may ask it and what is           *)
(* remembered of it: for every set of subscribers, of paths and of keys,   *)
(* every size of a bucket and every time an answer is remembered; what a   *)
(* reader of the ledger is shown, for every ledger and size of a page; and *)
(* that a segment of a path is matched by what its pattern says.           *)
(***************************************************************************)
EXTENDS RateLimit, Requests, Pages, PathMatch, SequenceTheorems, WellFoundedInduction, TLAPS

-----------------------------------------------------------------------------
(* ONE SUBSCRIBER, ONE BUCKET                                              *)

LimitTyped ==
  /\ vouched \in BOOLEAN /\ crowded \in BOOLEAN /\ clock \in Nat
  /\ since \in [Subscribers -> Int]
  /\ passed \in [Subscribers -> Nat] /\ demand \in [Subscribers -> Nat]

(* The bucket a subscriber is counted in behind a trusted edge.            *)
KeyOf(s) == Address(s, IF s \in Wide THEN "every" ELSE "one")

(* What it was let through and what its bucket has left are what the       *)
(* bucket held at first and gained until it was last moved; and it has     *)
(* lost no more than its subscriber asked for.                             *)
Fair(s, b) ==
  /\ b.left \in Nat /\ b.left <= MaxTokens
  /\ b.at \in Nat /\ b.at <= clock /\ since[s] \in Nat /\ since[s] <= b.at
  /\ Cost * passed[s] + b.left <= MaxTokens + Refill * (b.at - since[s])
  /\ MaxTokens - demand[s] <= b.left

Unheard(s) == since[s] = -1 /\ passed[s] = 0 /\ demand[s] = 0

Counted(s) ==
  \/ Of(KeyOf(s)) = {} /\ Unheard(s)
  \/ \E b : Of(KeyOf(s)) = {b} /\ Fair(s, b)

LimitInv == LimitTyped /\ (vouched => ~crowded /\ \A s \in Subscribers : Counted(s))

-----------------------------------------------------------------------------
(* Arithmetic                                                              *)

LEMMA Distributes ==
  ASSUME NEW a \in Int, NEW b \in Int, NEW c \in Int
  PROVE  a * (b + c) = a * b + a * c
  OBVIOUS

LEMMA OneMore ==
  ASSUME NEW a \in Int, NEW b \in Int
  PROVE  a * (b + 1) = a * b + a
  OBVIOUS

LEMMA Grows ==
  ASSUME NEW a \in Nat, NEW b \in Nat
  PROVE  a * b \in Nat
  OBVIOUS

LEMMA NoTimes ==
  ASSUME NEW a \in Int
  PROVE  a * 0 = 0 /\ a * 1 = a
  OBVIOUS

-----------------------------------------------------------------------------
(* What a request is counted against                                       *)

(* Behind a trusted edge, whatever a subscriber sends is counted against   *)
(* it: its address is its own, or the edge says whose it is.               *)
LEMMA KeyIsItsOwn ==
  ASSUME LimitFits, vouched, NEW s \in Subscribers, NEW from \in Own(s), NEW says, NEW edge
  PROVE  /\ Key(Direct(from, says)) = KeyOf(s)
         /\ Key(Guessed(from, says)) = KeyOf(s)
         /\ Key(Through(edge, from)) = KeyOf(s)
<1>1. from.net = s /\ (s \notin Wide => from = Address(s, "one"))
  BY DEF Own, Address
<1>2. Bucket(from) = KeyOf(s)
  <2>1. CASE s \in Wide
    BY <1>1, <2>1 DEF Bucket, KeyOf, Address
  <2>2. CASE s \notin Wide
    BY <1>1, <2>2 DEF Bucket, KeyOf, Address
  <2> QED BY <2>1, <2>2
<1>3. from # NoViewer
  BY <1>1 DEF NoViewer, Address, LimitFits
<1>4. ~Trusted(Direct(from, says)) /\ ~Trusted(Guessed(from, says)) /\ Trusted(Through(edge, from))
  BY DEF Trusted, Direct, Guessed, Through
<1> QED BY <1>2, <1>3, <1>4 DEF Key, Direct, Guessed, Through

LEMMA KeysDiffer ==
  ASSUME NEW s, NEW q, s # q
  PROVE  KeyOf(s) # KeyOf(q)
<1>1. KeyOf(s).net = s /\ KeyOf(q).net = q
  BY DEF KeyOf, Address
<1> QED BY <1>1

(* A request moves the bucket it is counted against and no other.          *)
LEMMA OneBucketMoves ==
  ASSUME NEW key, NEW other, NEW left,
         buckets' = (buckets \ Of(key)) \cup {Left(key, left)}
  PROVE  /\ Of(key)' = {Left(key, left)}
         /\ other # key => Of(other)' = Of(other)
<1>1. Left(key, left).key = key
  BY DEF Left
<1> QED BY <1>1 DEF Of

LEMMA BucketOf ==
  ASSUME NEW key, NEW b, Of(key) = {b}
  PROVE  Level(key) = Least(MaxTokens, b.left + (clock - b.at) * Refill)
  BY DEF Level

-----------------------------------------------------------------------------
(* A request asked                                                         *)

LEMMA FirstIsFair ==
  ASSUME LimitFits, LimitTyped, NEW s \in Subscribers, NEW r, ~crowded,
         Key(r) = KeyOf(s), Of(KeyOf(s)) = {}, Unheard(s), Ask(s, r)
  PROVE  Counted(s)' /\ ~crowded'
<1> PICK b : b = Left(KeyOf(s), MaxTokens - Cost)
  OBVIOUS
<1>1. Allowed(KeyOf(s)) /\ Level(KeyOf(s)) = MaxTokens
  BY DEF Allowed, Level
<1>2. buckets' = (buckets \ Of(KeyOf(s))) \cup {b}
  BY <1>1 DEF Ask
<1>3. Of(KeyOf(s))' = {b}
  BY <1>2, OneBucketMoves
<1>4. /\ since'[s] = clock /\ passed'[s] = 1 /\ demand'[s] = Least(Cost, MaxTokens)
      /\ clock' = clock /\ ~crowded'
  BY <1>1 DEF Ask, Unheard, LimitTyped, LimitFits
<1>5. b.left = MaxTokens - Cost /\ b.at = clock
  BY DEF Left
<1>6. Cost * passed'[s] = Cost /\ Refill * (b.at - since'[s]) = 0
  BY <1>4, <1>5, NoTimes DEF LimitFits, LimitTyped
<1>7. Fair(s, b)'
  <2>1. MaxTokens \in Nat /\ Cost \in Nat /\ Cost <= MaxTokens /\ clock \in Nat
    BY DEF LimitFits, LimitTyped
  <2>2. demand'[s] = Cost
    BY <1>4, <2>1 DEF Least
  <2> QED BY <1>4, <1>5, <1>6, <2>1, <2>2 DEF Fair
<1> QED BY <1>3, <1>4, <1>7 DEF Counted

(* A request counted in a bucket it finds: what the bucket gained since is *)
(* at most the clock's share, and what it gives up is what one more        *)
(* request costs.                                                          *)
LEMMA NextIsFair ==
  ASSUME LimitFits, LimitTyped, NEW s \in Subscribers, NEW r, NEW a, ~crowded,
         Key(r) = KeyOf(s), Of(KeyOf(s)) = {a}, Fair(s, a), Ask(s, r)
  PROVE  Counted(s)' /\ ~crowded'
<1> DEFINE gain  == (clock - a.at) * Refill
           level == Least(MaxTokens, a.left + gain)
           left  == IF level >= Cost THEN level - Cost ELSE level
<1> PICK b : b = Left(KeyOf(s), left)
  OBVIOUS
<1>1. /\ MaxTokens \in Nat /\ Cost \in Nat /\ Cost <= MaxTokens /\ Refill \in Nat /\ clock \in Nat
      /\ a.left \in Nat /\ a.at \in Nat /\ since[s] \in Nat /\ passed[s] \in Nat /\ demand[s] \in Nat
      /\ a.at <= clock /\ since[s] <= a.at /\ a.left <= MaxTokens
  BY DEF LimitFits, LimitTyped, Fair
<1>2. gain \in Nat
  <2>1. clock - a.at \in Nat
    BY <1>1
  <2> QED BY <1>1, <2>1, Grows
<1>3. Level(KeyOf(s)) = level /\ (Allowed(KeyOf(s)) <=> level >= Cost)
  BY BucketOf DEF Allowed
<1>4. level \in Nat /\ level <= MaxTokens /\ level <= a.left + gain /\ a.left <= level
  <2> HIDE DEF gain
  <2> QED BY <1>1, <1>2 DEF Least
<1> HIDE DEF level
<1>5. buckets' = (buckets \ Of(KeyOf(s))) \cup {b}
  BY <1>3 DEF Ask
<1>6. Of(KeyOf(s))' = {b}
  BY <1>5, OneBucketMoves
<1>7. /\ since'[s] = since[s] /\ clock' = clock
      /\ passed'[s] = (IF level >= Cost THEN passed[s] + 1 ELSE passed[s])
      /\ demand'[s] = Least(demand[s] + Cost, MaxTokens)
  BY <1>1, <1>3 DEF Ask, LimitTyped
<1>8. b.left = left /\ b.at = clock
  BY DEF Left
<1>9. Refill * (clock - since[s]) = Refill * (a.at - since[s]) + gain
  <2>1. clock - since[s] = (a.at - since[s]) + (clock - a.at)
    BY <1>1
  <2>2. Refill * ((a.at - since[s]) + (clock - a.at)) = Refill * (a.at - since[s]) + Refill * (clock - a.at)
    BY <1>1, Distributes
  <2>3. Refill * (clock - a.at) = gain
    BY <1>1
  <2> QED BY <2>1, <2>2, <2>3
<1>10. Cost * (passed[s] + 1) = Cost * passed[s] + Cost
  BY <1>1, OneMore
<1>11. Cost * passed[s] + a.left <= MaxTokens + Refill * (a.at - since[s])
  BY DEF Fair
<1>12. MaxTokens - demand[s] <= a.left
  BY DEF Fair
<1>13. Cost * passed[s] \in Nat /\ Refill * (a.at - since[s]) \in Nat
  <2>1. a.at - since[s] \in Nat
    BY <1>1
  <2> QED BY <1>1, <2>1, Grows
<1>14. Cost * passed'[s] + left <= MaxTokens + Refill * (clock - since[s])
  <2> HIDE DEF gain
  <2>1. CASE level >= Cost
    <3>1. Cost * passed'[s] + left = Cost * passed[s] + level
      <4>1. Cost * passed'[s] = Cost * passed[s] + Cost
        BY <1>7, <1>10, <2>1
      <4>2. left = level - Cost
        BY <2>1
      <4> HIDE DEF left
      <4> QED BY <4>1, <4>2, <1>1, <1>4, <1>13
    <3> QED BY <3>1, <1>4, <1>9, <1>11, <1>13, <1>2, <1>1
  <2>2. CASE ~(level >= Cost)
    <3>1. Cost * passed'[s] + left = Cost * passed[s] + level
      BY <1>7, <2>2
    <3> QED BY <3>1, <1>4, <1>9, <1>11, <1>13, <1>2, <1>1
  <2> QED BY <2>1, <2>2
<1>15. left \in Nat /\ left <= MaxTokens /\ MaxTokens - demand'[s] <= left
  BY <1>1, <1>4, <1>7, <1>12 DEF Least
<1>16. Fair(s, b)'
  <2> HIDE DEF left
  <2> QED BY <1>1, <1>7, <1>8, <1>14, <1>15 DEF Fair
<1>17. ~crowded'
  <2>1. level >= Cost \/ ~(demand[s] + Cost <= MaxTokens)
    BY <1>1, <1>4, <1>12
  <2> QED BY <2>1, <1>3 DEF Ask
<1> QED BY <1>6, <1>16, <1>17 DEF Counted

LEMMA AskTyped ==
  ASSUME LimitFits, LimitTyped, NEW s \in Subscribers, NEW r, Ask(s, r)
  PROVE  LimitTyped'
<1>1. Cost \in Nat /\ MaxTokens \in Nat
  BY DEF LimitFits
<1>2. Least(demand[s] + Cost, MaxTokens) \in Nat
  BY <1>1 DEF LimitTyped, Least
<1>3. vouched' \in BOOLEAN /\ clock' \in Nat /\ since' \in [Subscribers -> Int]
  BY DEF Ask, LimitTyped
<1>4. passed' \in [Subscribers -> Nat] /\ demand' \in [Subscribers -> Nat]
  BY <1>2 DEF Ask, LimitTyped
<1>5. crowded' \in BOOLEAN
  BY DEF Ask, LimitTyped
<1> QED BY <1>3, <1>4, <1>5 DEF LimitTyped

(* Nobody else's count is moved.                                           *)
LEMMA OthersAreNotMoved ==
  ASSUME LimitTyped, NEW s \in Subscribers, NEW q \in Subscribers, q # s, NEW r,
         Key(r) = KeyOf(s), Ask(s, r), Counted(q)
  PROVE  Counted(q)'
<1>1. PICK left : buckets' = (buckets \ Of(KeyOf(s))) \cup {Left(KeyOf(s), left)}
  BY DEF Ask
<1>2. Of(KeyOf(q))' = Of(KeyOf(q))
  BY <1>1, KeysDiffer, OneBucketMoves
<1>3. since'[q] = since[q] /\ passed'[q] = passed[q] /\ demand'[q] = demand[q] /\ clock' = clock
  BY DEF Ask, LimitTyped
<1>4. ASSUME NEW b, Fair(q, b) PROVE Fair(q, b)'
  BY <1>3, <1>4 DEF Fair
<1> QED BY <1>2, <1>3, <1>4 DEF Counted, Unheard

LEMMA AskIsCounted ==
  ASSUME LimitFits, LimitInv, NEW s \in Subscribers, NEW r, vouched => Key(r) = KeyOf(s), Ask(s, r)
  PROVE  LimitInv'
<1>1. LimitTyped /\ LimitTyped' /\ vouched' = vouched
  BY AskTyped DEF LimitInv, Ask
<1>2. ASSUME vouched PROVE ~crowded' /\ \A q \in Subscribers : Counted(q)'
  <2>1. ~crowded /\ (\A q \in Subscribers : Counted(q)) /\ Key(r) = KeyOf(s)
    BY <1>2 DEF LimitInv
  <2>2. Counted(s)' /\ ~crowded'
    <3>1. CASE Of(KeyOf(s)) = {} /\ Unheard(s)
      BY <1>1, <2>1, <3>1, FirstIsFair
    <3>2. ASSUME NEW a, Of(KeyOf(s)) = {a}, Fair(s, a) PROVE Counted(s)' /\ ~crowded'
      BY <1>1, <2>1, <3>2, NextIsFair
    <3> QED BY <2>1, <3>1, <3>2 DEF Counted
  <2>3. \A q \in Subscribers : q # s => Counted(q)'
    BY <1>1, <2>1, OthersAreNotMoved
  <2> QED BY <2>2, <2>3
<1> QED BY <1>1, <1>2 DEF LimitInv

-----------------------------------------------------------------------------
(* The other steps                                                         *)

LEMMA LimitStarts == ASSUME LimitFits, LimitInit PROVE LimitInv
<1>1. LimitTyped
  <2>1. vouched \in BOOLEAN /\ crowded \in BOOLEAN /\ clock \in Nat
    BY DEF LimitInit
  <2>2. since \in [Subscribers -> Int] /\ passed \in [Subscribers -> Nat] /\ demand \in [Subscribers -> Nat]
    BY DEF LimitInit, Each
  <2> QED BY <2>1, <2>2 DEF LimitTyped
<1>2. \A s \in Subscribers : Counted(s)
  BY DEF LimitInit, Counted, Unheard, Of, Each
<1> QED BY <1>1, <1>2 DEF LimitInv, LimitInit

LEMMA SecondKeeps == ASSUME LimitFits, LimitInv, Second PROVE LimitInv'
<1>1. LimitTyped /\ LimitTyped'
  BY DEF LimitInv, LimitTyped, Second
<1>2. ASSUME NEW s \in Subscribers, Counted(s) PROVE Counted(s)'
  <2>1. Of(KeyOf(s))' = Of(KeyOf(s)) /\ (Unheard(s) => Unheard(s)')
    BY DEF Second, Of, Unheard
  <2>2. ASSUME NEW b, Fair(s, b) PROVE Fair(s, b)'
    <3>1. /\ passed' = passed /\ since' = since /\ demand' = demand
          /\ clock' = clock + 1 /\ clock \in Nat
      BY <1>1 DEF Second, LimitTyped
    <3> QED BY <2>2, <3>1 DEF Fair
  <2> QED BY <1>2, <2>1, <2>2 DEF Counted
<1> QED BY <1>1, <1>2 DEF LimitInv, Second

LEMMA EmptiedKeeps == ASSUME LimitInv, Emptied PROVE LimitInv'
<1>1. LimitTyped'
  BY DEF LimitInv, LimitTyped, Emptied, Each
<1>2. \A s \in Subscribers : Counted(s)'
  BY DEF Emptied, Counted, Unheard, Of, Each
<1> QED BY <1>1, <1>2 DEF LimitInv, Emptied

LEMMA AskingKeeps ==
  ASSUME LimitFits, LimitInv, NEW s \in Subscribers, Asking(s)
  PROVE  LimitInv'
<1>1. PICK from \in Own(s) :
        \/ \E says \in UNION {Own(other) : other \in Subscribers} \cup {NoViewer} : AskDirectly(s, from, says)
        \/ \E edge \in Edges : AskThrough(s, from, edge)
  BY DEF Asking
<1>2. ASSUME NEW says, AskDirectly(s, from, says) PROVE LimitInv'
  <2>1. vouched => Key(Direct(from, says)) = KeyOf(s) /\ Key(Guessed(from, says)) = KeyOf(s)
    BY KeyIsItsOwn
  <2> QED BY <1>2, <2>1, AskIsCounted DEF AskDirectly
<1>3. ASSUME NEW edge, AskThrough(s, from, edge) PROVE LimitInv'
  <2>1. vouched => Key(Through(edge, from)) = KeyOf(s)
    BY KeyIsItsOwn
  <2> QED BY <1>3, <2>1, AskIsCounted DEF AskThrough
<1> QED BY <1>1, <1>2, <1>3

LEMMA LimitSteps == ASSUME LimitFits, LimitInv, [LimitNext]_limitVars PROVE LimitInv'
<1>1. CASE Second
  BY <1>1, SecondKeeps
<1>2. CASE Emptied
  BY <1>2, EmptiedKeeps
<1>3. ASSUME NEW s \in Subscribers, Asking(s) PROVE LimitInv'
  BY <1>3, AskingKeeps
<1>4. CASE UNCHANGED limitVars
  BY <1>4 DEF limitVars, LimitInv, LimitTyped, Counted, Of, Unheard, Fair
<1> QED BY <1>1, <1>2, <1>3, <1>4 DEF LimitNext

LEMMA CountedIsMetered == ASSUME LimitFits, LimitInv PROVE Metered
<1> SUFFICES ASSUME vouched, NEW s \in Subscribers, passed[s] > 0
             PROVE  Cost * passed[s] <= MaxTokens + Refill * (clock - since[s])
  BY DEF LimitInv, Metered
<1>1. PICK b : Fair(s, b)
  BY DEF LimitInv, Counted, Unheard
<1>2. /\ Refill \in Nat /\ MaxTokens \in Nat /\ Cost \in Nat /\ passed[s] \in Nat
      /\ clock \in Nat /\ b.at \in Nat /\ since[s] \in Nat /\ b.at <= clock /\ since[s] <= b.at /\ b.left \in Nat
  BY <1>1 DEF LimitFits, Fair, LimitInv, LimitTyped
<1>3. Refill * (clock - since[s]) = Refill * (b.at - since[s]) + Refill * (clock - b.at)
  <2>1. clock - since[s] = (b.at - since[s]) + (clock - b.at)
    BY <1>2
  <2> QED BY <1>2, <2>1, Distributes
<1>4. Refill * (clock - b.at) \in Nat /\ Refill * (b.at - since[s]) \in Nat /\ Cost * passed[s] \in Nat
  <2>1. clock - b.at \in Nat /\ b.at - since[s] \in Nat
    BY <1>2
  <2> QED BY <1>2, <2>1, Grows
<1>5. Cost * passed[s] + b.left <= MaxTokens + Refill * (b.at - since[s])
  BY <1>1 DEF Fair
<1> QED BY <1>2, <1>3, <1>4, <1>5

(* Behind a trusted edge a subscriber gets no more through a container     *)
(* than one bucket holds and refills, whatever addresses, edge servers and *)
(* headers it uses, and is not refused for what others send.               *)
THEOREM EachHasItsOwnBucket == ASSUME LimitFits PROVE LimitSpec => []Metered
<1>1. LimitInit => LimitInv
  BY LimitStarts
<1>2. LimitInv /\ [LimitNext]_limitVars => LimitInv'
  BY LimitSteps
<1>3. LimitInv => Metered
  BY CountedIsMetered
<1> QED BY <1>1, <1>2, <1>3, PTL DEF LimitSpec

-----------------------------------------------------------------------------
(* WHO MAY ASK IT                                                          *)

LEMMA ClimbersAreKnown ==
  ASSUME NEW who, NEW allowSession \in BOOLEAN, Climbs(who, allowSession) = 200
  PROVE  Identified(who) /\ (~allowSession => who = "key")
  BY DEF Climbs

LEMMA BeginningOf ==
  ASSUME NEW way \in Seq(STRING), NEW with, Len(with) \in Nat, StartsWith(way, with), NEW i \in 1..Len(with)
  PROVE  way[i] = with[i]
<1>1. Len(way) \in Nat /\ Len(way) >= Len(with)
  BY LenProperties DEF StartsWith
<1>2. \A j \in 1..Len(with) : way[j] \in STRING
  BY <1>1, ElementOfSeq
<1>3. SubSeq(way, 1, Len(with))[i] = way[i]
  BY <1>2, SubSeqProperties
<1> QED BY <1>3 DEF StartsWith

LEMMA FirstSegments ==
  ASSUME NEW way \in Seq(STRING)
  PROVE  /\ StartsWith(way, <<"assets">>) => way[1] = "assets"
         /\ StartsWith(way, <<"sessions">>) => way[1] = "sessions"
         /\ StartsWith(way, <<"api", "projects">>) => way[1] = "api" /\ way[2] = "projects"
<1>1. ASSUME NEW a, StartsWith(way, <<a>>) PROVE way[1] = a
  <2>1. Len(<<a>>) = 1 /\ <<a>>[1] = a
    OBVIOUS
  <2> QED BY <1>1, <2>1, BeginningOf
<1>2. ASSUME NEW a, NEW b, StartsWith(way, <<a, b>>) PROVE way[1] = a /\ way[2] = b
  <2>1. Len(<<a, b>>) = 2 /\ <<a, b>>[1] = a /\ <<a, b>>[2] = b
    OBVIOUS
  <2>2. 1 \in 1..Len(<<a, b>>) /\ 2 \in 1..Len(<<a, b>>)
    BY <2>1
  <2>3. way[1] = <<a, b>>[1] /\ way[2] = <<a, b>>[2]
    BY <1>2, <2>1, <2>2, BeginningOf
  <2> QED BY <2>1, <2>3
<1> QED BY <1>1, <1>2

(* What the branches of Validate let through without a known caller, on    *)
(* any stack and on a private one.                                         *)
LEMMA OperatorsAloneAreKnown ==
  ASSUME NEW r, Validate(r) = 200,
         \/ r.verb = "POST" /\ r.path = Links
         \/ OperatorsAlone(r)
         \/ ~VisitorsWhenPublic(r) /\ OperatorsFreeze(r)
  PROVE  Identified(r.who)
<1>1. CASE r.verb = "POST" /\ r.path = Links
  <2>1. Climbs(r.who, FALSE) = 200
    BY <1>1 DEF Validate
  <2> QED BY <2>1, ClimbersAreKnown
<1>2. CASE ~(r.verb = "POST" /\ r.path = Links)
  <2>1. Climbs(r.who, TRUE) = 200
    BY <1>2 DEF Validate
  <2> QED BY <2>1, ClimbersAreKnown
<1> QED BY <1>1, <1>2

LEMMA PrivateReadersAreKnown ==
  ASSUME NEW r, Validate(r) = 200, ~stack.public,
         r.path \notin PublicPaths, ~IsServedAsset(r),
         VisitorsWhenPublic(r) \/ IsPageRead(r) \/ UnlistedRead(r) \/ IsSessionAnsweringPost(r)
  PROVE  Identified(r.who)
<1>1. CASE r.verb = "POST" /\ r.path = Links
  BY <1>1, OperatorsAloneAreKnown
<1>2. CASE ~(r.verb = "POST" /\ r.path = Links)
  <2>1. Climbs(r.who, TRUE) = 200
    BY <1>2 DEF Validate
  <2> QED BY <2>1, ClimbersAreKnown
<1> QED BY <1>1, <1>2

LEMMA FreezesAreNoProjects ==
  ASSUME NEW r, r.path \in Seq(STRING), EndsIn(r.path, "terminate")
  PROVE  ~VisitorsWhenPublic(r)
<1>1. r.path[1] = "sessions"
  BY DEF EndsIn
<1>2. ~IsProjectWrite(r)
  BY <1>1, FirstSegments DEF IsProjectWrite
<1>3. Sandbox[1] = "api"
  BY DEF Sandbox
<1> QED BY <1>1, <1>2, <1>3 DEF VisitorsWhenPublic

(* What governs others: the rules, the policy, a resume, a freeze of a     *)
(* session that is no scenario's, and the projects outside the sandboxes.  *)
LEMMA GovernorsAreKnown ==
  ASSUME NEW r, r.path \in Seq(STRING), Validate(r) = 200, Governs(Asked(r))
  PROVE  Identified(r.who)
<1>1. /\ r.verb = "POST"
      /\ \/ r.path \in RulesPaths \cup PolicyPaths
         \/ EndsIn(r.path, "resume")
         \/ EndsIn(r.path, "terminate") /\ r.path[2] # "sim"
         \/ StartsWith(r.path, <<"api", "projects">>) /\ ~StartsWith(r.path, <<"api", "projects", "sandbox">>)
  BY DEF Governs, Asked
<1>2. CASE r.path \in RulesPaths \cup PolicyPaths
  <2>1. OperatorsAlone(r)
    BY <1>1, <1>2 DEF OperatorsAlone, IsProtectedWrite
  <2> QED BY <2>1, OperatorsAloneAreKnown
<1>3. CASE EndsIn(r.path, "resume")
  <2>1. OperatorsAlone(r)
    BY <1>1, <1>3 DEF OperatorsAlone, IsResume
  <2> QED BY <2>1, OperatorsAloneAreKnown
<1>4. CASE EndsIn(r.path, "terminate") /\ r.path[2] # "sim"
  <2>1. OperatorsFreeze(r)
    BY <1>1, <1>4 DEF OperatorsFreeze, IsTerminate, IsScenarioTerminate
  <2> QED BY <1>4, <2>1, FreezesAreNoProjects, OperatorsAloneAreKnown
<1>5. CASE StartsWith(r.path, <<"api", "projects">>) /\ ~StartsWith(r.path, <<"api", "projects", "sandbox">>)
  <2>1. OperatorsAlone(r)
    BY <1>1, <1>5 DEF OperatorsAlone, IsProjectWrite, IsSandboxProject
  <2> QED BY <2>1, OperatorsAloneAreKnown
<1> QED BY <1>1, <1>2, <1>3, <1>4, <1>5

(* What is served to everyone has a name of its own.                       *)
LEMMA PublicNames ==
  ASSUME NEW way \in PublicPaths
  PROVE  way[1] \in {"page", "status", "openapi.json", "install.py"} \/ (way[1] = "api" /\ way[2] = "auth")
  BY DEF PublicPaths

LEMMA ShownNames ==
  ASSUME NEW way \in PageReads \cup {<<"readyz">>} \cup PageReadPosts \cup Certificate \cup Scenarios
  PROVE  \/ way[1] \in {"sessions.json", "insights.json", "rules", "policy", "readyz",
                      "issue-certificate", "simulate-loop", "simulate-secret"}
         \/ way[1] = "api" /\ way[2] \in {"sessions", "insights", "overview", "decisions", "decision", "projects"}
  BY DEF PageReads, SessionsRead, InsightsRead, RulesPaths, PolicyPaths, AppReads, PageReadPosts, Certificate, Scenarios

(* On a private stack: what shows what the stack holds.                    *)
LEMMA ShownToTheKnown ==
  ASSUME NEW r, r.path \in Seq(STRING), Validate(r) = 200, ~stack.public, Shows(Asked(r))
  PROVE  Identified(r.who)
<1>1. \/ r.verb = "GET" /\ r.path \in PageReads \cup {<<"readyz">>}
      \/ r.verb = "GET" /\ (StartsWith(r.path, <<"sessions">>) \/ StartsWith(r.path, <<"api", "projects">>))
      \/ r.verb = "POST" /\ r.path \in PageReadPosts \cup Certificate \cup Scenarios
      \/ r.verb = "POST" /\ r.path = Sandbox
  BY DEF Shows, Asked
<1>2. CASE r.verb = "GET" /\ r.path \in PageReads \cup {<<"readyz">>}
  <2>1. r.path \notin PublicPaths /\ ~StartsWith(r.path, <<"assets">>)
    BY <1>2, PublicNames, ShownNames, FirstSegments
  <2>2. UnlistedRead(r)
    BY <1>2 DEF UnlistedRead
  <2> QED BY <2>1, <2>2, PrivateReadersAreKnown DEF IsServedAsset
<1>3. CASE r.verb = "GET" /\ (StartsWith(r.path, <<"sessions">>) \/ StartsWith(r.path, <<"api", "projects">>))
  <2>1. r.path[1] = "sessions" \/ (r.path[1] = "api" /\ r.path[2] = "projects")
    BY <1>3, FirstSegments
  <2>2. r.path \notin PublicPaths /\ ~StartsWith(r.path, <<"assets">>)
    BY <2>1, PublicNames, FirstSegments
  <2>3. UnlistedRead(r)
    BY <1>3 DEF UnlistedRead
  <2> QED BY <2>2, <2>3, PrivateReadersAreKnown DEF IsServedAsset
<1>4. CASE r.verb = "POST" /\ r.path \in PageReadPosts \cup Certificate \cup Scenarios
  <2>1. r.path \notin PublicPaths /\ ~IsServedAsset(r)
    BY <1>4, PublicNames, ShownNames DEF IsServedAsset
  <2>2. IsPageRead(r) \/ IsSessionAnsweringPost(r)
    BY <1>4 DEF IsPageRead, IsSessionAnsweringPost
  <2> QED BY <2>1, <2>2, PrivateReadersAreKnown
<1>5. CASE r.verb = "POST" /\ r.path = Sandbox
  <2>1. r.path[1] = "api" /\ r.path[2] = "sandbox"
    BY <1>5 DEF Sandbox
  <2>2. r.path \notin PublicPaths /\ ~IsServedAsset(r)
    BY <1>5, <2>1, PublicNames DEF IsServedAsset
  <2>3. VisitorsWhenPublic(r)
    BY <1>5 DEF VisitorsWhenPublic
  <2> QED BY <2>2, <2>3, PrivateReadersAreKnown
<1> QED BY <1>1, <1>2, <1>3, <1>4, <1>5

LEMMA LinksAreForKeys ==
  ASSUME NEW r, Validate(r) = 200, Asked(r) = <<"POST", Links>>
  PROVE  stack.keys /\ r.who = "key"
<1>1. r.verb = "POST" /\ r.path = Links
  BY DEF Asked
<1>2. Climbs(r.who, FALSE) = 200
  BY <1>1 DEF Validate
<1>3. Identified(r.who) /\ r.who = "key"
  BY <1>2 DEF Climbs
<1> QED BY <1>3, Zenon DEF Identified

-----------------------------------------------------------------------------
(* WHAT IS REMEMBERED                                                      *)

Phases == {"idle", "look up", "route", "answered"}
Ages   == 0..Never

RequestsTyped ==
  /\ stack \in [public : BOOLEAN, keys : BOOLEAN, enforced : BOOLEAN]
  /\ phase \in Phases
  /\ memory \in [Scopes -> [age : Ages, for : Scopes]]
  /\ done \in [Scopes -> Ages]

(* The request in hand may be asked, and a key came with a path that is    *)
(* asked for with one.                                                     *)
InHand ==
  phase # "idle" =>
    /\ request \in Asks /\ (request.key => request.path \in Keyed)
    /\ (phase # "answered" \/ held.status = 200) => Validate(request) = 200

(* An answer is remembered for the request it answers.                     *)
Owned == \A s \in Scopes : memory[s].for = s
Straight == phase = "answered" /\ held.status = 200 => held.for = Asked(request)

(* A route that remembers its answer has one that is no older than what it *)
(* did; and a route runs when there is none that still counts.             *)
AsPosted(s) == Request("POST", s[2], "nobody", TRUE)
Fresh == \A s \in Scopes : Remembers(AsPosted(s)) => memory[s].age <= done[s]
Unanswered == phase = "route" /\ request.key /\ request.verb = "POST" => ~Remembered(memory[Asked(request)].age)

RequestsInv == RequestsTyped /\ InHand /\ Owned /\ Straight /\ Fresh /\ Unanswered /\ WritesOnce

LEMMA KnownWhenAnswered ==
  ASSUME RequestsFit, RequestsInv
  PROVE  AnswersAreTheAskers
<1> SUFFICES ASSUME phase = "answered", held.status = 200
             PROVE  /\ held.for = Asked(request)
                    /\ Governs(held.for) \/ (Shows(held.for) /\ ~stack.public) => Identified(request.who)
                    /\ held.for = <<"POST", Links>> => stack.keys /\ request.who = "key"
  BY DEF AnswersAreTheAskers
<1>1. Validate(request) = 200 /\ request.path \in Seq(STRING) /\ held.for = Asked(request)
  BY DEF RequestsInv, InHand, Straight, Asks, RequestsFit
<1> QED BY <1>1, GovernorsAreKnown, ShownToTheKnown, LinksAreForKeys

-----------------------------------------------------------------------------
(* The steps of a request                                                  *)

LEMMA KeyedScope ==
  ASSUME NEW r, r.verb = "POST", r.path \in Keyed
  PROVE  Asked(r) \in Scopes
  BY DEF Asked, Scopes

(* Which routes remember is a matter of the verb and the path.             *)
LEMMA RemembersByPath ==
  ASSUME NEW r
  PROVE  /\ Remembers(r) => r.verb = "POST"
         /\ r.verb = "POST" => (Remembers(r) <=> Remembers(AsPosted(Asked(r))))
<1>1. Remembers(r) => r.verb = "POST"
  BY DEF Remembers, IsTerminate, IsResume, IsProtectedWrite
<1>2. ASSUME r.verb = "POST" PROVE Remembers(r) <=> Remembers(AsPosted(Asked(r)))
  <2>1. AsPosted(Asked(r)).verb = "POST" /\ AsPosted(Asked(r)).path = r.path
    BY DEF AsPosted, Asked, Request
  <2> QED BY <1>2, <2>1 DEF Remembers, IsTerminate, IsResume, IsProtectedWrite, IsProjectWrite
<1> QED BY <1>1, <1>2

(* What acts and remembers nothing.                                        *)
LEMMA Forgetful ==
  ASSUME NEW r, IsRoute(r), Acts(r), ~Remembers(r)
  PROVE  r.path \in Recordings \cup Scenarios \cup {Links, <<"api", "auth", "sessions">>}
  BY DEF IsRoute, Acts, Remembers, IsProtectedWrite, IsProjectWrite

LEMMA RequestsStart == ASSUME RequestsFit, RequestsInit PROVE RequestsInv
<1>1. Never \in Nat /\ Never \in Ages
  BY DEF RequestsFit, Never, Ages
<1>2. RequestsTyped
  BY <1>1 DEF RequestsInit, RequestsTyped, Phases
<1>3. InHand /\ Straight /\ Unanswered
  BY DEF RequestsInit, InHand, Straight, Unanswered
<1>4. Owned /\ Fresh
  BY <1>1 DEF RequestsInit, Owned, Fresh, Ages
<1>5. WritesOnce
  BY DEF RequestsInit, WritesOnce
<1> QED BY <1>2, <1>3, <1>4, <1>5 DEF RequestsInv

(* Who may ask is a matter of how the stack is deployed.                   *)
LEMMA StackDecides ==
  ASSUME NEW r, stack' = stack
  PROVE  Validate(r)' = Validate(r)
<1>1. Identified(r.who)' = Identified(r.who)
  BY DEF Identified
<1>2. Climbs(r.who, TRUE)' = Climbs(r.who, TRUE) /\ Climbs(r.who, FALSE)' = Climbs(r.who, FALSE)
  BY DEF Climbs, Identified, Presents
<1>3. Enforced(r.who)' = Enforced(r.who)
  BY DEF Enforced, Identified, Presents
<1>4. OperatorsAlone(r)' <=> OperatorsAlone(r)
  BY DEF OperatorsAlone
<1>5. (OperatorsFreeze(r)' <=> OperatorsFreeze(r)) /\ (UnlistedRead(r)' <=> UnlistedRead(r))
  BY DEF OperatorsFreeze, UnlistedRead
<1>6. VisitorsWhenPublic(r)' <=> VisitorsWhenPublic(r)
  OBVIOUS
<1> QED BY <1>2, <1>3, <1>4, <1>5, <1>6 DEF Validate

LEMMA ArriveKeeps ==
  ASSUME RequestsInv, NEW r \in Asks, Arrive(r)
  PROVE  RequestsInv'
<1>1. /\ stack' = stack /\ memory' = memory /\ done' = done /\ again' = again /\ request' = r
      /\ r.key => r.path \in Keyed
      /\ \/ Validate(r) = 200 /\ phase' = "look up"
         \/ Validate(r) # 200 /\ phase' = "answered" /\ held' = [status |-> Validate(r), for |-> Asked(r)]
  BY DEF Arrive, Goes
<1>2. Validate(r)' = Validate(r)
  BY <1>1, StackDecides
<1>3. RequestsTyped'
  BY <1>1 DEF RequestsInv, RequestsTyped, Phases
<1>4. phase' = "answered" => held'.status # 200
  BY <1>1
<1>5. phase' # "answered" => Validate(request)' = 200
  BY <1>1, <1>2
<1>6. InHand' /\ Straight' /\ Unanswered'
  BY <1>1, <1>4, <1>5 DEF InHand, Straight, Unanswered
<1>7. Owned' /\ Fresh' /\ WritesOnce'
  BY <1>1 DEF RequestsInv, Owned, Fresh, WritesOnce
<1> QED BY <1>3, <1>6, <1>7 DEF RequestsInv

LEMMA LookUpKeeps ==
  ASSUME RequestsInv, LookUp
  PROVE  RequestsInv'
<1>1. /\ phase = "look up" /\ stack' = stack /\ request' = request
      /\ memory' = memory /\ done' = done /\ again' = again
      /\ \/ /\ request.key /\ request.verb = "POST" /\ phase' = "answered"
            /\ held' = [status |-> 200, for |-> memory[Asked(request)].for]
         \/ /\ ~(request.key /\ request.verb = "POST" /\ Remembered(memory[Asked(request)].age))
            /\ phase' = "route"
  BY DEF LookUp, Goes, Scope
<1>2. request \in Asks /\ (request.key => request.path \in Keyed) /\ Validate(request) = 200
  BY <1>1 DEF RequestsInv, InHand
<1>3. Validate(request)' = Validate(request)
  <2>1. \A r : Validate(r)' = Validate(r)
    BY <1>1, StackDecides
  <2> QED BY <1>1, <2>1
<1>4. RequestsTyped'
  BY <1>1 DEF RequestsInv, RequestsTyped, Phases
<1>5. InHand'
  BY <1>1, <1>2, <1>3 DEF InHand
<1>6. Straight'
  <2> SUFFICES ASSUME phase' = "answered" PROVE held'.for = Asked(request)'
    BY DEF Straight
  <2>1. request.key /\ request.verb = "POST" /\ held' = [status |-> 200, for |-> memory[Asked(request)].for]
    BY <1>1, Zenon
  <2>2. memory[Asked(request)].for = Asked(request)
    BY <1>2, <2>1, KeyedScope DEF RequestsInv, Owned
  <2> QED BY <1>1, <2>1, <2>2 DEF Asked
<1>7. Unanswered'
  BY <1>1 DEF Unanswered, Asked
<1>8. Owned' /\ Fresh' /\ WritesOnce'
  BY <1>1 DEF RequestsInv, Owned, Fresh, WritesOnce
<1> QED BY <1>4, <1>5, <1>6, <1>7, <1>8 DEF RequestsInv

LEMMA RefusedKeeps ==
  ASSUME RequestsInv, Refused
  PROVE  RequestsInv'
<1>1. /\ phase = "route" /\ phase' = "answered" /\ stack' = stack /\ request' = request
      /\ memory' = memory /\ done' = done /\ again' = again /\ held'.status # 200
  BY DEF Refused, Goes
<1>2. RequestsTyped'
  BY <1>1 DEF RequestsInv, RequestsTyped, Phases
<1>3. InHand' /\ Straight' /\ Unanswered'
  BY <1>1 DEF RequestsInv, InHand, Straight, Unanswered
<1>4. Owned' /\ Fresh' /\ WritesOnce'
  BY <1>1 DEF RequestsInv, Owned, Fresh, WritesOnce
<1> QED BY <1>2, <1>3, <1>4 DEF RequestsInv

(* A route runs: what it did is not what is still remembered, or it is one *)
(* of those that remember nothing.                                         *)
LEMMA RunRouteKeeps ==
  ASSUME RequestsFit, RequestsInv, RunRoute
  PROVE  RequestsInv'
<1> DEFINE scope == Asked(request)
<1>1. /\ phase = "route" /\ IsRoute(request) /\ phase' = "answered"
      /\ stack' = stack /\ request' = request /\ held' = [status |-> 200, for |-> scope]
  BY DEF RunRoute, Goes
<1>2. request \in Asks /\ (request.key => request.path \in Keyed) /\ Validate(request) = 200
  BY <1>1 DEF RequestsInv, InHand
<1>3. memory \in [Scopes -> [age : Ages, for : Scopes]] /\ done \in [Scopes -> Ages]
  BY DEF RequestsInv, RequestsTyped
<1>4. 0 \in Ages /\ Life \in Nat
  BY DEF RequestsFit, Ages, Never
<1>5. memory' = memory \/ (/\ request.key /\ Remembers(request) /\ scope \in Scopes
                           /\ memory' = [memory EXCEPT ![scope] = [age |-> 0, for |-> scope]])
  BY <1>2, KeyedScope, RemembersByPath DEF RunRoute, Scope
<1>6. \/ done' = done /\ ~(request.key /\ Acts(request))
      \/ /\ request.key /\ Acts(request) /\ scope \in Scopes
         /\ done' = [done EXCEPT ![scope] = 0]
  BY <1>2, KeyedScope DEF RunRoute, Acts
<1>7. request.key /\ Remembers(request) => memory' = [memory EXCEPT ![scope] = [age |-> 0, for |-> scope]]
  BY DEF RunRoute, Scope
<1>8. memory' \in [Scopes -> [age : Ages, for : Scopes]]
  BY <1>3, <1>4, <1>5
<1>9. done' \in [Scopes -> Ages]
  BY <1>3, <1>4, <1>6
<1>10. RequestsTyped'
  BY <1>1, <1>8, <1>9 DEF RequestsInv, RequestsTyped, Phases
<1>11. Validate(request)' = Validate(request)
  <2>1. \A r : Validate(r)' = Validate(r)
    BY <1>1, StackDecides
  <2> QED BY <1>1, <2>1
<1>12. InHand' /\ Straight' /\ Unanswered'
  BY <1>1, <1>2, <1>11 DEF InHand, Straight, Unanswered, Asked
<1>13. Owned'
  BY <1>3, <1>5 DEF RequestsInv, Owned
<1>14. Fresh'
  <2> SUFFICES ASSUME NEW s \in Scopes, Remembers(AsPosted(s)) PROVE memory'[s].age <= done'[s]
    BY DEF Fresh
  <2>1. memory[s].age <= done[s] /\ memory[s].age \in Ages /\ done[s] \in Ages
    BY <1>3 DEF RequestsInv, Fresh
  <2>2. \A a \in Ages : a \in Nat /\ 0 <= a
    BY <1>4 DEF Ages
  <2>3. CASE s = scope /\ request.key /\ Remembers(request)
    <3>1. memory'[s] = [age |-> 0, for |-> scope]
      BY <1>3, <1>7, <2>3
    <3>2. done'[s] \in Ages
      BY <1>9
    <3> QED BY <2>2, <3>1, <3>2
  <2>4. CASE s = scope /\ ~(request.key /\ Remembers(request))
    <3>1. request.verb = "POST"
      BY <2>4 DEF Scopes, Asked
    <3>2. ~request.key
      BY <2>4, <3>1, RemembersByPath
    <3>3. memory' = memory /\ done' = done
      BY <1>5, <1>6, <3>2
    <3> QED BY <2>1, <3>3
  <2>5. CASE s # scope
    <3>1. memory'[s] = memory[s] /\ done'[s] = done[s]
      BY <1>3, <1>5, <1>6, <2>5
    <3> QED BY <2>1, <3>1
  <2> QED BY <2>3, <2>4, <2>5
<1>15. WritesOnce'
  <2>1. CASE ~(request.key /\ Acts(request) /\ done[scope] <= Life)
    BY <2>1 DEF RunRoute, RequestsInv, WritesOnce
  <2>2. CASE request.key /\ Acts(request) /\ done[scope] <= Life
    <3>1. request.verb = "POST" /\ scope \in Scopes
      BY <1>2, <2>2, KeyedScope DEF Acts
    <3>2. ~Remembered(memory[scope].age)
      BY <1>1, <2>2, <3>1 DEF RequestsInv, Unanswered
    <3>3. memory[scope].age \in Nat /\ done[scope] \in Nat
      BY <1>3, <1>4, <3>1 DEF Ages
    <3>4. ~(memory[scope].age <= done[scope])
      BY <1>4, <2>2, <3>2, <3>3 DEF Remembered
    <3>5. ~Remembers(request)
      BY <3>1, <3>4, RemembersByPath DEF RequestsInv, Fresh
    <3>6. request.path \in Recordings \cup Scenarios \cup {Links, <<"api", "auth", "sessions">>}
      BY <1>1, <2>2, <3>5, Forgetful
    <3>7. again' = again \cup {request.path}
      BY <2>2 DEF RunRoute
    <3> QED BY <3>6, <3>7 DEF RequestsInv, WritesOnce
  <2> QED BY <2>1, <2>2
<1> QED BY <1>10, <1>12, <1>13, <1>14, <1>15 DEF RequestsInv

LEMMA AnsweredKeeps ==
  ASSUME RequestsInv, Answered
  PROVE  RequestsInv'
<1>1. /\ phase' = "idle" /\ stack' = stack /\ memory' = memory /\ done' = done /\ again' = again
  BY DEF Answered, Goes
<1> QED BY <1>1 DEF RequestsInv, RequestsTyped, Phases, InHand, Owned, Straight, Fresh, Unanswered, WritesOnce

-----------------------------------------------------------------------------
(* Time, and a new container                                               *)

(* Growing older keeps the order of two ages, and no answer counts again.  *)
LEMMA OlderInOrder ==
  ASSUME Life \in Nat, NEW a \in Ages, NEW b \in Ages
  PROVE  /\ Older(a) \in Ages
         /\ a <= b => Older(a) <= Older(b)
         /\ ~Remembered(a) => ~Remembered(Older(a))
  BY DEF Ages, Never, Older, Remembered

LEMMA AgedKeeps ==
  ASSUME RequestsFit, RequestsInv, Aged
  PROVE  RequestsInv'
<1>1. /\ stack' = stack /\ phase' = phase /\ request' = request /\ held' = held /\ again' = again
      /\ memory' = [s \in Scopes |-> [memory[s] EXCEPT !.age = Older(@)]]
      /\ done' = [s \in Scopes |-> Older(done[s])]
  BY DEF Aged
<1>2. memory \in [Scopes -> [age : Ages, for : Scopes]] /\ done \in [Scopes -> Ages] /\ Life \in Nat
  BY DEF RequestsInv, RequestsTyped, RequestsFit
<1>3. \A s \in Scopes : /\ memory'[s] \in [age : Ages, for : Scopes]
                        /\ memory'[s].age = Older(memory[s].age) /\ memory'[s].for = memory[s].for
                        /\ done'[s] = Older(done[s])
  <2> SUFFICES ASSUME NEW s \in Scopes
               PROVE  /\ memory'[s] \in [age : Ages, for : Scopes]
                      /\ memory'[s].age = Older(memory[s].age) /\ memory'[s].for = memory[s].for
                      /\ done'[s] = Older(done[s])
    OBVIOUS
  <2>1. memory[s] \in [age : Ages, for : Scopes]
    BY <1>2
  <2>2. [memory[s] EXCEPT !.age = Older(@)] = [age |-> Older(memory[s].age), for |-> memory[s].for]
    BY <2>1
  <2>3. memory'[s] = [age |-> Older(memory[s].age), for |-> memory[s].for]
    BY <1>1, <2>2, Zenon
  <2>4. Older(memory[s].age) \in Ages
    BY <1>2, <2>1, OlderInOrder
  <2>5. done'[s] = Older(done[s])
    BY <1>1
  <2> QED BY <2>1, <2>3, <2>4, <2>5
<1>4. \A s \in Scopes : memory[s].age \in Ages /\ memory[s].for \in Scopes /\ done[s] \in Ages
  BY <1>2
<1>5. RequestsTyped'
  <2>1. memory' \in [Scopes -> [age : Ages, for : Scopes]]
    <3>1. \A s \in Scopes : memory'[s] \in [age : Ages, for : Scopes]
      BY <1>3
    <3>2. memory' = [s \in Scopes |-> memory'[s]]
      BY <1>1
    <3> QED BY <3>1, <3>2
  <2>2. done' \in [Scopes -> Ages]
    BY <1>1, <1>2, OlderInOrder
  <2> QED BY <1>1, <2>1, <2>2 DEF RequestsInv, RequestsTyped
<1>6. InHand' /\ Straight'
  <2>1. Validate(request)' = Validate(request)
    <3>1. \A r : Validate(r)' = Validate(r)
      BY <1>1, StackDecides
    <3> QED BY <1>1, <3>1
  <2> QED BY <1>1, <2>1 DEF RequestsInv, InHand, Straight, Asked
<1>7. Owned'
  BY <1>3 DEF RequestsInv, Owned
<1>8. Fresh'
  <2> SUFFICES ASSUME NEW s \in Scopes, Remembers(AsPosted(s)) PROVE memory'[s].age <= done'[s]
    BY DEF Fresh
  <2>1. memory[s].age <= done[s]
    BY DEF RequestsInv, Fresh
  <2> QED BY <1>2, <1>3, <1>4, <2>1, OlderInOrder
<1>9. Unanswered'
  <2> SUFFICES ASSUME phase = "route", request.key, request.verb = "POST"
               PROVE  ~Remembered(memory'[Asked(request)].age)
    BY <1>1 DEF Unanswered, Asked, Remembered
  <2>1. ~Remembered(memory[Asked(request)].age) /\ Asked(request) \in Scopes
    BY KeyedScope DEF RequestsInv, Unanswered, InHand
  <2> QED BY <1>2, <1>3, <1>4, <2>1, OlderInOrder
<1>10. WritesOnce'
  BY <1>1 DEF RequestsInv, WritesOnce
<1> QED BY <1>5, <1>6, <1>7, <1>8, <1>9, <1>10 DEF RequestsInv

LEMMA RecycledKeeps ==
  ASSUME RequestsFit, RequestsInv, Recycled
  PROVE  RequestsInv'
<1>1. /\ stack' = stack /\ phase' = "idle" /\ again' = again
      /\ memory' = [s \in Scopes |-> [age |-> Never, for |-> s]]
      /\ done' = [s \in Scopes |-> Never]
  BY DEF Recycled, Goes
<1>2. Never \in Nat /\ Never \in Ages
  BY DEF RequestsFit, Never, Ages
<1>3. RequestsTyped'
  BY <1>1, <1>2 DEF RequestsInv, RequestsTyped, Phases
<1>4. InHand' /\ Straight' /\ Unanswered'
  BY <1>1 DEF InHand, Straight, Unanswered
<1>5. Owned' /\ Fresh'
  BY <1>1, <1>2 DEF Owned, Fresh, Ages
<1>6. WritesOnce'
  BY <1>1 DEF RequestsInv, WritesOnce
<1> QED BY <1>3, <1>4, <1>5, <1>6 DEF RequestsInv

LEMMA RequestsSteps ==
  ASSUME RequestsFit, RequestsInv, [RequestsNext]_requestVars
  PROVE  RequestsInv'
<1>1. ASSUME NEW r \in Asks, Arrive(r) PROVE RequestsInv'
  BY <1>1, ArriveKeeps
<1>2. CASE LookUp
  BY <1>2, LookUpKeeps
<1>3. CASE Refused
  BY <1>3, RefusedKeeps
<1>4. CASE RunRoute
  BY <1>4, RunRouteKeeps
<1>5. CASE Answered
  BY <1>5, AnsweredKeeps
<1>6. CASE Aged
  BY <1>6, AgedKeeps
<1>7. CASE Recycled
  BY <1>7, RecycledKeeps
<1>8. CASE UNCHANGED requestVars
  <2>1. /\ stack' = stack /\ phase' = phase /\ request' = request /\ held' = held
        /\ memory' = memory /\ done' = done /\ again' = again
    BY <1>8 DEF requestVars
  <2>2. Validate(request)' = Validate(request)
    <3>1. \A r : Validate(r)' = Validate(r)
      BY <2>1, StackDecides
    <3> QED BY <2>1, <3>1
  <2>3. RequestsTyped' /\ InHand' /\ Straight' /\ Unanswered'
    BY <2>1, <2>2 DEF RequestsInv, RequestsTyped, InHand, Straight, Unanswered, Asked
  <2>4. Owned' /\ Fresh' /\ WritesOnce'
    BY <2>1 DEF RequestsInv, Owned, Fresh, WritesOnce
  <2> QED BY <2>3, <2>4 DEF RequestsInv
<1> QED BY <1>1, <1>2, <1>3, <1>4, <1>5, <1>6, <1>7, <1>8 DEF RequestsNext

(* Nobody is answered what another request asked for; what governs others  *)
(* is answered to the operator alone, on a private stack so is what it     *)
(* holds, and no session is given a link.                                  *)
THEOREM AnswersReachTheirAskers == ASSUME RequestsFit PROVE RequestsSpec => []AnswersAreTheAskers
<1>1. RequestsInit => RequestsInv
  BY RequestsStart
<1>2. RequestsInv /\ [RequestsNext]_requestVars => RequestsInv'
  BY RequestsSteps
<1>3. RequestsInv => AnswersAreTheAskers
  BY KnownWhenAnswered
<1> QED BY <1>1, <1>2, <1>3, PTL DEF RequestsSpec

(* A write repeated under its key while its answer is remembered is not    *)
(* done again, except by the routes that remember none.                    *)
THEOREM RepeatsAreNotDoneAgain == ASSUME RequestsFit PROVE RequestsSpec => []WritesOnce
<1>1. RequestsInit => RequestsInv
  BY RequestsStart
<1>2. RequestsInv /\ [RequestsNext]_requestVars => RequestsInv'
  BY RequestsSteps
<1>3. RequestsInv => WritesOnce
  BY DEF RequestsInv
<1> QED BY <1>1, <1>2, <1>3, PTL DEF RequestsSpec

-----------------------------------------------------------------------------
(* THE PAGES OF THE LEDGER                                                 *)

(* A row the reader has passed, standing at a day and a cursor in it.      *)
Behind(r, where) == r.day > where.day \/ (r.day = where.day /\ where.after # NoKey /\ r.key >= where.after)

Following == {"idle", "answered", "paging", "done"}

PagesTyped ==
  /\ ledger \subseteq LedgerRows /\ standing \subseteq ledger /\ items \subseteq ledger
  /\ shown \in Seq(SUBSET LedgerRows) /\ \A i \in 1..Len(shown) : shown[i] \subseteq ledger
  /\ recorded \in Nat /\ failures \in Nat
  /\ reader \in [doing : Following \cup {"window", "complete", "cut short", "unread"}, day : Nat, after : Nat]
  /\ IF reader.doing = "done" THEN reader.day = 0 ELSE reader.day >= 1
  /\ reader.doing = "idle" => items = {} /\ reader.day = Days /\ reader.after = NoKey
  /\ reader.doing \notin {"answered", "paging", "done"} => shown = <<>>

InOrder(pages) == \A i, j \in 1..Len(pages) : i < j => \A r \in pages[i], s \in pages[j] : NewerRow(r, s)

ShownBehind(pages, where) == \A i \in 1..Len(pages) : \A r \in pages[i] : Behind(r, where)

ShownWhole(pages, where) == \A r \in standing : r.wanted /\ Behind(r, where) => \E i \in 1..Len(pages) : r \in pages[i]

(* What is behind the reader was shown, newest first, and nothing else     *)
(* was; or has been read, if it reads a window.                            *)
FollowInv ==
  /\ InOrder(shown) /\ ShownBehind(shown, reader)
  /\ reader.doing \in Following /\ failures = 0 => ShownWhole(shown, reader)

WindowInv ==
  /\ reader.doing \in {"window", "cut short"} =>
       /\ \A r \in items : Behind(r, reader)
       /\ \A r \in standing : Behind(r, reader) => r \in items
  /\ reader.doing = "complete" => standing \subseteq items

PagesInv == PagesTyped /\ FollowInv /\ WindowInv

-----------------------------------------------------------------------------
(* A page holds the first rows of those left in the day, down to its last. *)
LEMMA PageRows ==
  ASSUME PagesTyped, NEW size, NEW page \in ReadsOf(reader.day, reader.after, size)
  PROVE  /\ page.last \in Nat /\ page.next \in Nat
         /\ page.rows = {r \in Rest(reader.day, reader.after) : r.key >= page.last}
         /\ page.next = NoKey => page.rows = Rest(reader.day, reader.after)
         /\ page.next # NoKey => page.next = page.last /\ \E s \in Rest(reader.day, reader.after) : s.key = page.last
<1> DEFINE rest == Rest(reader.day, reader.after)
<1>1. rest \subseteq LedgerRows  BY DEF PagesTyped, Rest
<1> HIDE DEF rest
<1>2. CASE rest = {}
  <2>1. page = Page({}, NoKey, NoKey)  BY <1>2 DEF ReadsOf, NothingRead, rest
  <2> QED  BY <1>2, <2>1 DEF Page, NoKey, rest
<1>3. CASE rest # {}
  <2>1. page \in PagesOf(rest, size)  BY <1>3 DEF ReadsOf, rest
  <2>2. PICK last \in rest :
          page = Page(DownTo(rest, last), last.key,
                      IF DownTo(rest, last) = rest /\ Cardinality(rest) < size THEN NoKey ELSE last.key)
    BY <2>1 DEF PagesOf
  <2>3. last.key \in Nat \ {0}  BY <1>1 DEF LedgerRows
  <2> QED  BY <2>2, <2>3 DEF Page, DownTo, NoKey, rest
<1> QED  BY <1>2, <1>3

LEMMA RestIsAhead ==
  ASSUME PagesTyped, NEW r \in ledger
  PROVE  /\ r \in Rest(reader.day, reader.after) <=> r.day = reader.day /\ ~Behind(r, reader)
         /\ r \in LedgerRows /\ r.day \in Nat /\ r.day >= 1 /\ r.key \in Nat /\ r.key >= 1
<1>1. r \in LedgerRows  BY DEF PagesTyped
<1>2. r.day \in Nat /\ r.day >= 1 /\ r.key \in Nat /\ r.key >= 1  BY <1>1 DEF LedgerRows
<1>3. reader.day \in Nat /\ reader.after \in Nat  BY DEF PagesTyped
<1> QED  BY <1>1, <1>2, <1>3 DEF Rest, Behind, NoKey

(* Where the reader goes, it has passed the rows it read and no others.    *)
Passes(where, rows) ==
  /\ where.day \in Nat /\ where.after \in Nat
  /\ rows \subseteq ledger
  /\ \A r \in rows : ~Behind(r, reader)
  /\ \A r \in ledger : Behind(r, where) <=> Behind(r, reader) \/ r \in rows

LEMMA PassesPage ==
  ASSUME PagesTyped, reader.day >= 1, NEW size, NEW page \in ReadsOf(reader.day, reader.after, size),
         NEW where \in [doing : {"answered", "paging", "window", "done"}, day : Nat, after : Nat],
         \/ DayOver(page, size) /\ where.day = reader.day - 1 /\ where.after = NoKey
         \/ ~DayOver(page, size) /\ where.day = reader.day /\ where.after = page.next
  PROVE  Passes(where, page.rows)
<1>1. page.rows \subseteq ledger /\ \A r \in page.rows : ~Behind(r, reader)
  BY PageRows, RestIsAhead DEF Rest
<1>2. reader.day \in Nat /\ reader.after \in Nat  BY DEF PagesTyped
<1>3. ASSUME NEW r \in ledger PROVE Behind(r, where) <=> Behind(r, reader) \/ r \in page.rows
  <2>1. CASE DayOver(page, size)
    <3>1. page.rows = Rest(reader.day, reader.after)  BY <2>1, PageRows DEF DayOver
    <3> QED  BY <2>1, <3>1, <1>2, RestIsAhead DEF Behind, DayOver, NoKey
  <2>2. CASE ~DayOver(page, size)
    <3>1. page.next # NoKey /\ page.next \in Nat  BY <2>2, PageRows DEF DayOver
    <3>2. r \in page.rows <=> r \in Rest(reader.day, reader.after) /\ r.key >= page.next  BY <3>1, PageRows
    <3>3. \E s \in Rest(reader.day, reader.after) : s.key = page.next /\ s \in ledger  BY <2>2, PageRows DEF DayOver, Rest
    <3> QED  BY <2>2, <3>1, <3>2, <3>3, <1>2, RestIsAhead DEF Behind, DayOver, NoKey
  <2> QED  BY <2>1, <2>2
<1> QED  BY <1>1, <1>3 DEF Passes

LEMMA PassesStop ==
  ASSUME PagesTyped, NEW size, NEW page \in ReadsOf(reader.day, reader.after, size), NEW stop \in page.rows,
         NEW where, where.day = reader.day, where.after = stop.key
  PROVE  Passes(where, {r \in page.rows : r.key >= stop.key})
<1>1. page.rows \subseteq ledger /\ \A r \in page.rows : ~Behind(r, reader)
  BY PageRows, RestIsAhead DEF Rest
<1>2. reader.day \in Nat /\ reader.after \in Nat  BY DEF PagesTyped
<1>3. stop \in Rest(reader.day, reader.after) /\ stop.key \in Nat /\ stop.key >= 1 /\ stop.key >= page.last /\ page.last \in Nat
  BY <1>1, PageRows, RestIsAhead
<1>4. ASSUME NEW r \in ledger
      PROVE  Behind(r, where) <=> Behind(r, reader) \/ r \in {q \in page.rows : q.key >= stop.key}
  <2>1. r \in page.rows <=> r \in Rest(reader.day, reader.after) /\ r.key >= page.last  BY PageRows
  <2>2. r.key \in Nat  BY RestIsAhead
  <2>3. r \in {q \in page.rows : q.key >= stop.key} <=> r \in Rest(reader.day, reader.after) /\ r.key >= stop.key
    BY <2>1, <2>2, <1>3
  <2> QED  BY <2>3, <1>2, <1>3, RestIsAhead DEF Behind, NoKey, Rest
<1> QED  BY <1>1, <1>2, <1>3, <1>4 DEF Passes

(* What a page shows keeps the order, and hides nothing it passes.         *)
Onwards(rows, where) ==
  /\ rows \subseteq ledger
  /\ \A r \in rows : ~Behind(r, reader) /\ Behind(r, where)
  /\ \A r \in ledger : Behind(r, reader) => Behind(r, where)

Misses(rows, where) == \E r \in ledger : r.wanted /\ Behind(r, where) /\ ~Behind(r, reader) /\ r \notin rows

LEMMA PassedOnwards ==
  ASSUME NEW where, NEW rows, Passes(where, rows)
  PROVE  /\ Onwards({r \in rows : r.wanted}, where) /\ ~Misses({r \in rows : r.wanted}, where)
  BY DEF Passes, Onwards, Misses

LEMMA Showing ==
  ASSUME PagesTyped, FollowInv, NEW rows, NEW where, Onwards(rows, where), shown' = Append(shown, rows)
  PROVE  /\ shown' \in Seq(SUBSET LedgerRows) /\ \A i \in 1..Len(shown') : shown'[i] \subseteq ledger
         /\ InOrder(shown') /\ ShownBehind(shown', where)
         /\ ~Misses(rows, where) /\ ShownWhole(shown, reader) =>
              \A r \in standing : r.wanted /\ Behind(r, where) => \E i \in 1..Len(shown') : r \in shown'[i]
<1> DEFINE n == Len(shown)
<1>0. shown \in Seq(SUBSET LedgerRows) /\ ledger \subseteq LedgerRows  BY DEF PagesTyped
<1>1. n \in Nat /\ shown \in Seq(SUBSET LedgerRows) /\ rows \in SUBSET LedgerRows
  BY <1>0 DEF Onwards
<1>2. /\ shown' \in Seq(SUBSET LedgerRows) /\ Len(shown') = n + 1 /\ shown'[n + 1] = rows
      /\ \A i \in 1..n : shown'[i] = shown[i]
  BY <1>1
<1> HIDE DEF n
<1>3. \A i \in 1..Len(shown') : i \in 1..n \/ i = n + 1  BY <1>1, <1>2
<1>4. \A i \in 1..n : shown[i] \subseteq ledger /\ \A r \in shown[i] : Behind(r, reader)
  BY DEF PagesTyped, FollowInv, ShownBehind, n
<1>5. ASSUME NEW r \in ledger, NEW s \in ledger, Behind(r, reader), ~Behind(s, reader) PROVE NewerRow(r, s)
  <2>1. reader.day \in Nat /\ reader.after \in Nat  BY DEF PagesTyped
  <2> QED  BY <2>1, <1>5, RestIsAhead DEF Behind, NewerRow, NoKey
<1>6. ASSUME NEW i \in 1..Len(shown'), NEW j \in 1..Len(shown'), i < j, NEW r \in shown'[i], NEW s \in shown'[j]
      PROVE  NewerRow(r, s)
  <2>1. i \in 1..n  BY <1>1, <1>2, <1>3, <1>6
  <2>2. CASE j \in 1..n  BY <2>1, <2>2, <1>2, <1>6 DEF FollowInv, InOrder, n
  <2>3. CASE j = n + 1  BY <2>1, <2>3, <1>2, <1>4, <1>5, <1>6 DEF Onwards
  <2> QED  BY <2>2, <2>3, <1>3
<1>7. \A i \in 1..Len(shown') : shown'[i] \subseteq ledger  BY <1>2, <1>3, <1>4 DEF Onwards
<1>8. ASSUME NEW i \in 1..Len(shown'), NEW r \in shown'[i] PROVE Behind(r, where)
  <2>1. CASE i \in 1..n  BY <2>1, <1>2, <1>4, <1>8 DEF Onwards
  <2>2. CASE i = n + 1  BY <2>2, <1>2, <1>8 DEF Onwards
  <2> QED  BY <2>1, <2>2, <1>3
<1>9. ASSUME ~Misses(rows, where), ShownWhole(shown, reader), NEW r \in standing, r.wanted, Behind(r, where)
      PROVE  \E i \in 1..Len(shown') : r \in shown'[i]
  <2>1. r \in ledger  BY DEF PagesTyped
  <2>2. CASE Behind(r, reader)
    <3>1. PICK i \in 1..n : r \in shown[i]  BY <2>2, <1>9 DEF ShownWhole, n
    <3> QED  BY <3>1, <1>1, <1>2
  <2>3. CASE ~Behind(r, reader)
    <3>1. r \in rows  BY <2>1, <2>3, <1>9 DEF Misses
    <3> QED  BY <3>1, <1>1, <1>2
  <2> QED  BY <2>2, <2>3
<1>10. InOrder(shown')  BY <1>6 DEF InOrder
<1>11. ShownBehind(shown', where)  BY <1>8 DEF ShownBehind
<1> QED  BY <1>2, <1>7, <1>9, <1>10, <1>11

-----------------------------------------------------------------------------
(* One page of a request: what of it is shown, and where the reader goes.  *)
Places == [doing : {"answered", "paging", "done"}, day : Nat, after : Nat]

Turned(rows, where) ==
  /\ where \in Places /\ reader' = where
  /\ IF where.doing = "done" THEN where.day = 0 ELSE where.day >= 1
  /\ shown' = Append(shown, rows) /\ items' \subseteq ledger

LEMMA Turning ==
  ASSUME PagesTyped, reader.doing = "paging", NEW page \in ReadsOf(reader.day, reader.after, PageSize), TurnPage(page)
  PROVE  \E rows, where : Turned(rows, where) /\ Onwards(rows, where) /\ ~Misses(rows, where)
<1> DEFINE wanted == {r \in page.rows : r.wanted}
<1>1. page.rows \subseteq ledger /\ page.rows \subseteq LedgerRows /\ page.next \in Nat /\ page.last \in Nat
  BY PageRows DEF Rest, PagesTyped
<1>2. reader.day \in Nat /\ reader.day >= 1  BY DEF PagesTyped
<1>3. ASSUME NEW where \in Places, NEW doing, reader' = where, GoesOnAt(doing, page, PageSize), where.doing = doing,
             ~EndOfWindow(page, PageSize)
      PROVE  Passes(where, page.rows) /\ where.day >= 1
  <2>1. CASE DayOver(page, PageSize)
    <3>1. where.day = reader.day - 1 /\ where.after = NoKey  BY <1>3, <2>1 DEF GoesOnAt, ReaderAt
    <3> QED  BY <1>2, <1>3, <2>1, <3>1, PassesPage DEF Places, EndOfWindow
  <2>2. CASE ~DayOver(page, PageSize)
    <3>1. where.day = reader.day /\ where.after = page.next  BY <1>3, <2>2 DEF GoesOnAt, ReaderAt
    <3> QED  BY <1>2, <1>3, <2>2, <3>1, PassesPage DEF Places
  <2> QED  BY <2>1, <2>2
<1>4. ASSUME NEW where \in Places, where.day = 0, where.after = NoKey, EndOfWindow(page, PageSize)
      PROVE  Passes(where, page.rows)
  BY <1>2, <1>4, PassesPage DEF Places, EndOfWindow
<1>5. CASE \E stop \in page.rows : FullAt(page, stop)
  <2>1. PICK stop \in page.rows : FullAt(page, stop)  BY <1>5
  <2> DEFINE passed_ == {r \in page.rows : r.key >= stop.key}  kept == {r \in page.rows : r.wanted /\ r.key >= stop.key}
             stay == [doing |-> "answered", day |-> reader.day, after |-> stop.key]
  <2>2. shown' = Append(shown, kept) /\ items' = {}  BY <2>1 DEF FullAt, RequestEnds, Kept
  <2>3. kept = {r \in passed_ : r.wanted}  OBVIOUS
  <2>4. stop.key \in Nat  BY <1>1 DEF LedgerRows
  <2>5. CASE reader' = stay
    <3>1. Passes(stay, passed_)  BY PassesStop
    <3>2. stay \in Places  BY <1>2, <2>4 DEF Places
    <3> HIDE DEF stay, kept, passed_
    <3>3. Onwards(kept, stay) /\ ~Misses(kept, stay)  BY <2>3, <3>1, PassedOnwards
    <3> QED  BY <1>2, <2>2, <2>5, <3>2, <3>3 DEF Turned, stay
  <2>6. CASE stop.key = page.last /\ page.next = NoKey /\ reader.day = 1 /\ reader' = [doing |-> "done", day |-> 0, after |-> NoKey]
    <3> DEFINE there == [doing |-> "done", day |-> 0, after |-> NoKey]
    <3>1. there \in Places  BY DEF Places, NoKey
    <3>2. Passes(there, page.rows)  BY <1>4, <2>6, <3>1 DEF EndOfWindow, DayOver
    <3>3. passed_ = page.rows  BY <2>6, PageRows
    <3> HIDE DEF there, kept, passed_
    <3>4. Onwards(kept, there) /\ ~Misses(kept, there)  BY <2>3, <3>2, <3>3, PassedOnwards
    <3> QED  BY <2>2, <2>6, <3>1, <3>4 DEF Turned, there
  <2>7. CASE /\ stop.key = page.last /\ page.next = NoKey /\ reader.day # 1
             /\ reader' = [doing |-> "answered", day |-> reader.day - 1, after |-> NoKey]
    <3> DEFINE there == [doing |-> "answered", day |-> reader.day - 1, after |-> NoKey]
    <3>1. there \in Places /\ there.day >= 1  BY <1>2, <2>7 DEF Places, NoKey
    <3>2. Passes(there, page.rows)  BY <1>2, <2>7, <3>1, PassesPage DEF Places, DayOver
    <3>3. passed_ = page.rows  BY <2>7, PageRows
    <3> HIDE DEF there, kept, passed_
    <3>4. Onwards(kept, there) /\ ~Misses(kept, there)  BY <2>3, <3>2, <3>3, PassedOnwards
    <3> QED  BY <2>2, <2>7, <3>1, <3>4 DEF Turned, there
  <2> QED  BY <2>1, <2>5, <2>6, <2>7 DEF FullAt, ReaderAt, ResumeAfter
<1>6. CASE EndOfWindow(page, PageSize) /\ RequestEnds(wanted) /\ ReaderAt("done", 0, NoKey)
  <2> DEFINE there == [doing |-> "done", day |-> 0, after |-> NoKey]
  <2>1. there \in Places /\ reader' = there  BY <1>6 DEF Places, NoKey, ReaderAt
  <2>2. Passes(there, page.rows)  BY <1>4, <1>6, <2>1
  <2>3. shown' = Append(shown, wanted) /\ items' = {}  BY <1>6 DEF RequestEnds, Kept
  <2> HIDE DEF there
  <2>4. Onwards(wanted, there) /\ ~Misses(wanted, there)  BY <2>2, PassedOnwards
  <2> HIDE DEF wanted
  <2> QED  BY <2>1, <2>3, <2>4 DEF Turned, there
<1>7. ASSUME ~EndOfWindow(page, PageSize), NEW doing \in {"answered", "paging"}, GoesOnAt(doing, page, PageSize),
             Kept(wanted), items' \subseteq ledger
      PROVE  \E rows, where : Turned(rows, where) /\ Onwards(rows, where) /\ ~Misses(rows, where)
  <2> DEFINE there == [doing |-> doing, day |-> IF DayOver(page, PageSize) THEN reader.day - 1 ELSE reader.day,
                       after |-> IF DayOver(page, PageSize) THEN NoKey ELSE page.next]
  <2>1. reader' = there  BY <1>7 DEF GoesOnAt, ReaderAt
  <2>2. there \in Places  BY <1>1, <1>2, <1>7 DEF Places, NoKey, EndOfWindow
  <2>3. there.doing = doing  OBVIOUS
  <2> HIDE DEF there
  <2>4. Passes(there, page.rows) /\ there.day >= 1  BY <1>3, <1>7, <2>1, <2>2, <2>3
  <2>5. Onwards(wanted, there) /\ ~Misses(wanted, there)  BY <2>4, PassedOnwards
  <2> HIDE DEF wanted
  <2> QED  BY <1>7, <2>1, <2>2, <2>3, <2>4, <2>5 DEF Turned, Kept
<1>8. CASE /\ ~EndOfWindow(page, PageSize) /\ RequestEnds(wanted) /\ GoesOnAt("answered", page, PageSize)
  <2>1. Kept(wanted) /\ items' \subseteq ledger  BY <1>8 DEF RequestEnds
  <2> QED  BY <1>7, <1>8, <2>1
<1>9. CASE /\ ~EndOfWindow(page, PageSize) /\ Kept(wanted) /\ items' = items \cup wanted /\ GoesOnAt("paging", page, PageSize)
  <2>1. items' \subseteq ledger  BY <1>1, <1>9 DEF PagesTyped
  <2> QED  BY <1>7, <1>9, <2>1
<1> QED  BY <1>5, <1>6, <1>8, <1>9 DEF TurnPage

(* A read that failed shows nothing and moves the reader past the day.     *)
LEMMA TurningNothing ==
  ASSUME PagesTyped, reader.doing = "paging", TurnPage(NothingRead)
  PROVE  \E where : Turned({}, where) /\ Onwards({}, where)
<1> DEFINE over == [doing |-> "done", day |-> 0, after |-> NoKey]
           on(doing) == [doing |-> doing, day |-> reader.day - 1, after |-> NoKey]
<1>1. reader.day \in Nat /\ reader.day >= 1 /\ reader.after \in Nat /\ items \subseteq ledger  BY DEF PagesTyped
<1>2. NothingRead.rows = {} /\ DayOver(NothingRead, PageSize) /\ {r \in NothingRead.rows : r.wanted} = {}
  BY DEF NothingRead, Page, DayOver
<1>3. CASE reader.day = 1
  <2>1. RequestEnds({}) /\ reader' = over
    BY <1>2, <1>3 DEF TurnPage, EndOfWindow, ReaderAt
  <2>2. over \in Places  BY DEF Places, NoKey
  <2>3. Onwards({}, over)  BY <1>1, RestIsAhead DEF Onwards, Behind, NoKey
  <2> HIDE DEF over
  <2>4. over.doing = "done" /\ over.day = 0  BY DEF over
  <2> QED  BY <2>1, <2>2, <2>3, <2>4 DEF Turned, RequestEnds, Kept
<1>4. CASE reader.day # 1
  <2>1. ~EndOfWindow(NothingRead, PageSize)  BY <1>4 DEF EndOfWindow
  <2>2. PICK doing \in {"answered", "paging"} :
          GoesOnAt(doing, NothingRead, PageSize) /\ Kept({}) /\ items' \in {{}, items \cup {}}
    BY <1>2, <2>1 DEF TurnPage, RequestEnds
  <2>3. reader' = on(doing)  BY <1>2, <2>2 DEF GoesOnAt, ReaderAt
  <2>4. on(doing) \in Places /\ on(doing).day >= 1 /\ on(doing).doing # "done"  BY <1>1, <1>4 DEF Places, NoKey
  <2>5. Onwards({}, on(doing))  BY <1>1, RestIsAhead DEF Onwards, Behind, NoKey
  <2> HIDE DEF on
  <2> QED  BY <1>1, <2>2, <2>3, <2>4, <2>5 DEF Turned, Kept
<1> QED  BY <1>3, <1>4

LEMMA TurnedKeeps ==
  ASSUME PagesInv, reader.doing = "paging", NEW rows, NEW where, Turned(rows, where), Onwards(rows, where),
         failures' \in Nat, failures' = 0 => failures = 0 /\ ~Misses(rows, where),
         UNCHANGED <<ledger, standing, recorded>>
  PROVE  PagesInv'
<1>1. PagesTyped /\ FollowInv /\ ledger' = ledger /\ standing' = standing /\ recorded' = recorded  BY DEF PagesInv
<1>2. shown' = Append(shown, rows) /\ reader' = where /\ where \in Places /\ items' \subseteq ledger  BY DEF Turned
<1>3. /\ shown' \in Seq(SUBSET LedgerRows) /\ \A i \in 1..Len(shown') : shown'[i] \subseteq ledger
      /\ InOrder(shown') /\ ShownBehind(shown', where)
  BY <1>1, <1>2, Showing
<1>4. ASSUME failures' = 0, NEW r \in standing, r.wanted, Behind(r, where)
      PROVE  \E i \in 1..Len(shown') : r \in shown'[i]
  <2>1. ~Misses(rows, where) /\ ShownWhole(shown, reader)  BY <1>1, <1>4 DEF FollowInv, Following
  <2> QED  BY <1>1, <1>2, <1>4, <2>1, Showing
<1>5. where.doing \in {"answered", "paging", "done"}  BY <1>2 DEF Places
<1>6. PagesTyped'
  <2>1. where \in [doing : Following \cup {"window", "complete", "cut short", "unread"}, day : Nat, after : Nat]
    BY <1>2 DEF Places, Following
  <2>2. standing' \subseteq ledger' /\ ledger' \subseteq LedgerRows /\ recorded' \in Nat  BY <1>1 DEF PagesTyped
  <2>3. \A i \in 1..Len(shown') : shown'[i] \subseteq ledger'  BY <1>3
  <2>4. IF where.doing = "done" THEN where.day = 0 ELSE where.day >= 1  BY DEF Turned
  <2> QED  BY <1>2, <1>3, <1>5, <2>1, <2>2, <2>3, <2>4 DEF PagesTyped
<1>7. FollowInv'
  <2>1. failures' = 0 => ShownWhole(shown, reader)'  BY <1>2, <1>4 DEF ShownWhole
  <2> QED  BY <1>2, <1>3, <2>1 DEF FollowInv
<1>8. WindowInv'  BY <1>2, <1>5 DEF WindowInv
<1> QED  BY <1>6, <1>7, <1>8 DEF PagesInv

LEMMA ReadPageKeeps == ASSUME PagesInv, ReadPage PROVE PagesInv'
<1>1. PagesTyped /\ reader.doing = "paging" /\ UNCHANGED <<ledger, standing, recorded>>  BY DEF PagesInv, ReadPage
<1>2. failures \in Nat  BY <1>1 DEF PagesTyped
<1>3. CASE ReadWorks /\ \E page \in ReadsOf(reader.day, reader.after, PageSize) : TurnPage(page)
  <2>1. PICK rows, where : Turned(rows, where) /\ Onwards(rows, where) /\ ~Misses(rows, where)  BY <1>1, <1>3, Turning
  <2>2. failures' = failures  BY <1>3 DEF ReadWorks
  <2> QED  BY <1>1, <1>2, <2>1, <2>2, TurnedKeeps
<1>4. CASE ReadFails /\ TurnPage(NothingRead)
  <2>1. PICK where : Turned({}, where) /\ Onwards({}, where)  BY <1>1, <1>4, TurningNothing
  <2>2. failures' = failures + 1  BY <1>4 DEF ReadFails
  <2>3. failures' \in Nat /\ failures' # 0  BY <1>2, <2>2
  <2> QED  BY <1>1, <2>1, <2>3, TurnedKeeps
<1> QED  BY <1>3, <1>4 DEF ReadPage

LEMMA NoPages == ASSUME NEW pages, pages = <<>>, NEW where PROVE InOrder(pages) /\ ShownBehind(pages, where)
  BY DEF InOrder, ShownBehind

LEMMA ReadWindowKeeps == ASSUME PagesInv, ReadWindow PROVE PagesInv'
<1> DEFINE size == Lower(PageSize, remaining)
<1>1. /\ PagesTyped /\ WindowInv /\ reader.doing = "window"
      /\ ledger' = ledger /\ standing' = standing /\ recorded' = recorded /\ shown' = shown
  BY DEF PagesInv, ReadWindow
<1>2. /\ failures \in Nat /\ shown = <<>> /\ items \subseteq ledger /\ standing \subseteq ledger /\ ledger \subseteq LedgerRows
      /\ reader.day \in Nat /\ reader.day >= 1 /\ reader.after \in Nat
  BY <1>1 DEF PagesTyped
<1>3. failures' \in Nat
  <2>1. ReadWorks \/ ReadFails  BY DEF ReadWindow
  <2> QED  BY <1>2, <2>1 DEF ReadWorks, ReadFails
<1>4. /\ \A r \in items : Behind(r, reader)
      /\ \A r \in standing : Behind(r, reader) => r \in items
  BY <1>1 DEF WindowInv
<1> HIDE DEF size
<1>5. ASSUME NEW rows \in SUBSET ledger, NEW where \in [doing : {"window", "complete", "cut short", "unread"}, day : Nat, after : Nat],
             items' = rows, reader' = where, where.day >= 1,
             where.doing \in {"window", "cut short"} =>
               /\ \A r \in rows : Behind(r, where)
               /\ \A r \in standing : Behind(r, where) => r \in rows,
             where.doing = "complete" => standing \subseteq rows
      PROVE  PagesInv'
  <2>1. where.doing \notin Following  BY <1>5 DEF Following
  <2>2. PagesTyped'
    <3>1. where \in [doing : Following \cup {"window", "complete", "cut short", "unread"}, day : Nat, after : Nat]
      BY <1>5 DEF Following
    <3> QED  BY <1>1, <1>2, <1>3, <1>5, <2>1, <3>1 DEF PagesTyped, Following
  <2>3. FollowInv'
    <3>1. shown' = <<>>  BY <1>1, <1>2
    <3>3. InOrder(shown') /\ ShownBehind(shown', where)  BY <3>1, NoPages
    <3> QED  BY <1>5, <2>1, <3>3 DEF FollowInv
  <2>4. WindowInv'  BY <1>1, <1>5 DEF WindowInv
  <2> QED  BY <2>2, <2>3, <2>4 DEF PagesInv
<1>6. ASSUME NEW rows, NEW how \in {"complete", "cut short", "unread"}, WindowEnds(rows, how)
      PROVE  /\ items' = rows /\ reader' = [doing |-> how, day |-> reader.day, after |-> reader.after]
  BY <1>6 DEF WindowEnds, ReaderAt
<1>7. CASE WindowEnds(items, "cut short")
  <2> DEFINE where == [doing |-> "cut short", day |-> reader.day, after |-> reader.after]
  <2>1. \A r : Behind(r, where) <=> Behind(r, reader)  BY DEF Behind
  <2>2. where \in [doing : {"window", "complete", "cut short", "unread"}, day : Nat, after : Nat]  BY <1>2
  <2>3. items' = items /\ reader' = where /\ where.day >= 1 /\ where.doing = "cut short"  BY <1>2, <1>6, <1>7
  <2> HIDE DEF where
  <2> QED  BY <1>2, <1>4, <1>5, <2>1, <2>2, <2>3
<1>8. CASE WindowEnds({}, "unread")
  <2> DEFINE where == [doing |-> "unread", day |-> reader.day, after |-> reader.after]
  <2>1. where \in [doing : {"window", "complete", "cut short", "unread"}, day : Nat, after : Nat]  BY <1>2
  <2>2. items' = {} /\ reader' = where /\ where.day >= 1 /\ where.doing = "unread"  BY <1>2, <1>6, <1>8
  <2> HIDE DEF where
  <2> QED  BY <1>5, <2>1, <2>2
<1>9. ASSUME NEW page \in ReadsOf(reader.day, reader.after, size), WindowPage(page, size) PROVE PagesInv'
  <2> DEFINE kept == items \cup page.rows
  <2>1. page.rows \subseteq ledger /\ page.next \in Nat  BY <1>1, PageRows DEF Rest
  <2>2. kept \in SUBSET ledger  BY <1>2, <2>1
  <2>3. CASE EndOfWindow(page, size)
    <3> DEFINE where == [doing |-> "complete", day |-> reader.day, after |-> reader.after]
    <3>1. where \in [doing : {"window", "complete", "cut short", "unread"}, day : Nat, after : Nat]  BY <1>2
    <3>2. items' = kept /\ reader' = where /\ where.day >= 1 /\ where.doing = "complete"
      BY <1>2, <1>6, <1>9, <2>3 DEF WindowPage
    <3>3. ASSUME NEW r \in standing PROVE r \in kept
      <4>1. page.rows = Rest(reader.day, reader.after) /\ reader.day = 1  BY <1>1, <2>3, PageRows DEF EndOfWindow, DayOver
      <4>2. r \in ledger /\ r.day \in Nat /\ r.day >= 1  BY <1>1, <1>2, RestIsAhead
      <4>3. Behind(r, reader) \/ r.day = reader.day  BY <4>1, <4>2 DEF Behind
      <4> QED  BY <1>1, <1>4, <4>1, <4>2, <4>3, RestIsAhead
    <3> HIDE DEF where, kept
    <3> QED  BY <1>5, <2>2, <3>1, <3>2, <3>3
  <2>4. CASE ~EndOfWindow(page, size)
    <3> DEFINE where == [doing |-> "window", day |-> IF DayOver(page, size) THEN reader.day - 1 ELSE reader.day,
                         after |-> IF DayOver(page, size) THEN NoKey ELSE page.next]
    <3>1. items' = kept /\ reader' = where  BY <1>9, <2>4 DEF WindowPage, GoesOnAt, ReaderAt
    <3>2. where.day \in Nat /\ where.day >= 1 /\ where.after \in Nat /\ where.doing = "window"
      BY <1>2, <2>1, <2>4 DEF EndOfWindow, NoKey
    <3>3. /\ DayOver(page, size) => where.day = reader.day - 1 /\ where.after = NoKey
          /\ ~DayOver(page, size) => where.day = reader.day /\ where.after = page.next
      OBVIOUS
    <3>4. where = [doing |-> "window", day |-> where.day, after |-> where.after]  OBVIOUS
    <3> HIDE DEF where
    <3>5. /\ where \in [doing : {"answered", "paging", "window", "done"}, day : Nat, after : Nat]
          /\ where \in [doing : {"window", "complete", "cut short", "unread"}, day : Nat, after : Nat]
      BY <3>2, <3>4
    <3>6. Passes(where, page.rows)  BY <1>1, <1>2, <3>3, <3>5, PassesPage
    <3>7. \A r \in ledger : Behind(r, reader) => Behind(r, where)  BY <3>6 DEF Passes
    <3>8. \A r \in standing : Behind(r, where) => r \in kept  BY <1>2, <1>4, <3>6 DEF Passes
    <3>9. \A r \in kept : Behind(r, where)  BY <1>2, <1>4, <2>1, <3>6, <3>7 DEF Passes
    <3> HIDE DEF kept
    <3> QED  BY <1>5, <2>2, <3>1, <3>2, <3>5, <3>8, <3>9
  <2> QED  BY <2>3, <2>4
<1> QED  BY <1>7, <1>8, <1>9 DEF ReadWindow, size

LEMMA PagesStart == ASSUME PagesFit, PagesInit PROVE PagesInv
<1>1. /\ ledger \subseteq LedgerRows /\ standing = ledger /\ items = {} /\ shown = <<>> /\ recorded = 0 /\ failures = 0
      /\ reader = [doing |-> "idle", day |-> Days, after |-> NoKey] /\ Days \in Nat /\ Days >= 1
  BY DEF PagesFit, PagesInit
<1>2. PagesTyped  BY <1>1 DEF PagesTyped, Following, NoKey
<1>3. \A r \in ledger : ~Behind(r, reader)
  <2>1. \A r \in ledger : r.day \in 1..Days  BY <1>1 DEF LedgerRows
  <2> QED  BY <1>1, <2>1 DEF Behind, NoKey
<1>4. FollowInv  BY <1>1, <1>3 DEF FollowInv, InOrder, ShownBehind, ShownWhole
<1>5. WindowInv  BY <1>1 DEF WindowInv
<1> QED  BY <1>2, <1>4, <1>5 DEF PagesInv

LEMMA AskPageKeeps == ASSUME PagesInv, NEW n, AskPage(n) PROVE PagesInv'
<1>1. /\ reader.doing \in {"idle", "answered"} /\ reader' = [doing |-> "paging", day |-> reader.day, after |-> reader.after]
      /\ ledger' = ledger /\ items' = items /\ shown' = shown /\ standing' = standing
      /\ recorded' = recorded /\ failures' = failures
  BY DEF AskPage, ReaderAt
<1>2. PagesTyped'
  <2>1. reader.day \in Nat /\ reader.day >= 1 /\ reader.after \in Nat  BY <1>1 DEF PagesInv, PagesTyped
  <2> QED  BY <1>1, <2>1 DEF PagesInv, PagesTyped, Following
<1>3. \A r : Behind(r, reader)' <=> Behind(r, reader)  BY <1>1 DEF Behind
<1>4. FollowInv'  BY <1>1, <1>3 DEF PagesInv, FollowInv, Following, InOrder, ShownBehind, ShownWhole
<1>5. WindowInv'  BY <1>1 DEF WindowInv
<1> QED  BY <1>2, <1>4, <1>5 DEF PagesInv

LEMMA BeginKeeps == ASSUME PagesFit, PagesInv, NEW budget, Begin(budget) PROVE PagesInv'
<1>1. /\ reader.doing = "idle" /\ reader' = [doing |-> "window", day |-> Days, after |-> NoKey]
      /\ ledger' = ledger /\ items' = items /\ shown' = shown /\ standing' = standing
      /\ recorded' = recorded /\ failures' = failures
  BY DEF Begin, ReaderAt
<1>2. Days \in Nat /\ Days >= 1 /\ items = {} /\ shown = <<>> /\ standing \subseteq LedgerRows
  BY <1>1 DEF PagesFit, PagesInv, PagesTyped
<1>3. PagesTyped'  BY <1>1, <1>2 DEF PagesInv, PagesTyped, Following, NoKey
<1>4. \A r \in standing : ~Behind(r, reader')
  <2>1. \A r \in standing : r.day \in 1..Days  BY <1>2 DEF LedgerRows
  <2> QED  BY <1>1, <1>2, <2>1 DEF Behind, NoKey
<1>5. FollowInv'  BY <1>1, <1>2 DEF FollowInv, Following, InOrder, ShownBehind
<1>6. WindowInv'  BY <1>1, <1>2, <1>4 DEF WindowInv
<1> QED  BY <1>3, <1>5, <1>6 DEF PagesInv

LEMMA RecordRowKeeps == ASSUME PagesFit, PagesInv, RecordRow PROVE PagesInv'
<1>1. /\ reader' = reader /\ items' = items /\ shown' = shown /\ standing' = standing /\ failures' = failures
      /\ recorded' = recorded + 1
  BY DEF RecordRow
<1>2. PICK wanted \in BOOLEAN : ledger' = ledger \cup {LedgerRow(Days, NextKey + recorded, wanted)}  BY DEF RecordRow
<1>3. recorded \in Nat /\ ledger \subseteq LedgerRows /\ standing \subseteq ledger /\ items \subseteq ledger
  BY DEF PagesInv, PagesTyped
<1>4. Days \in 1..Days /\ NextKey + recorded \in Nat \ {0} /\ recorded' \in Nat  BY <1>1, <1>3 DEF PagesFit
<1>5. LedgerRow(Days, NextKey + recorded, wanted) \in LedgerRows  BY <1>4 DEF LedgerRow, LedgerRows
<1>6. ledger' \subseteq LedgerRows /\ ledger \subseteq ledger'  BY <1>2, <1>3, <1>5
<1>7. PagesTyped'
  <2>1. standing' \subseteq ledger' /\ items' \subseteq ledger'  BY <1>1, <1>3, <1>6
  <2>2. \A i \in 1..Len(shown') : shown'[i] \subseteq ledger'  BY <1>1, <1>6 DEF PagesInv, PagesTyped
  <2> QED  BY <1>1, <1>4, <1>6, <2>1, <2>2 DEF PagesInv, PagesTyped
<1>8. FollowInv' /\ WindowInv'
  BY <1>1 DEF PagesInv, FollowInv, WindowInv, InOrder, ShownBehind, ShownWhole, Behind
<1> QED  BY <1>7, <1>8 DEF PagesInv

LEMMA PagesStep == ASSUME PagesFit, PagesInv, [PagesNext]_pageVars PROVE PagesInv'
<1>1. CASE \E n \in Limits : AskPage(n)  BY <1>1, AskPageKeeps
<1>2. CASE \E budget \in Budgets : Begin(budget)  BY <1>2, BeginKeeps
<1>3. CASE ReadPage  BY <1>3, ReadPageKeeps
<1>4. CASE ReadWindow  BY <1>4, ReadWindowKeeps
<1>5. CASE RecordRow  BY <1>5, RecordRowKeeps
<1>6. CASE UNCHANGED pageVars
  <2>1. /\ reader' = reader /\ ledger' = ledger /\ items' = items /\ shown' = shown /\ standing' = standing
        /\ recorded' = recorded /\ failures' = failures
    BY <1>6 DEF pageVars
  <2>2. PagesTyped'  BY <2>1 DEF PagesInv, PagesTyped
  <2>3. FollowInv' /\ WindowInv'
    BY <2>1 DEF PagesInv, FollowInv, WindowInv, InOrder, ShownBehind, ShownWhole, Behind
  <2> QED  BY <2>2, <2>3 DEF PagesInv
<1> QED  BY <1>1, <1>2, <1>3, <1>4, <1>5, <1>6 DEF PagesNext

LEMMA BehindNewer ==
  ASSUME NEW r, NEW s, NEW where, {r.day, r.key, s.day, s.key, where.day, where.after} \subseteq Nat,
         Behind(r, where), NewerRow(s, r)
  PROVE  Behind(s, where)
  BY DEF Behind, NewerRow

LEMMA WholeWhenDone == ASSUME PagesInv PROVE ListingsWhole
<1>1. shown \in Seq(SUBSET LedgerRows) /\ standing \subseteq ledger /\ ledger \subseteq LedgerRows /\ items \subseteq ledger
  BY DEF PagesInv, PagesTyped
<1>2. DOMAIN shown = 1..Len(shown)  BY <1>1
<1>3. \A i, j \in DOMAIN shown : i < j => \A r \in shown[i], s \in shown[j] : NewerRow(r, s)
  BY <1>2 DEF PagesInv, FollowInv, InOrder
<1>4. ASSUME reader.doing = "done", failures = 0, NEW r \in standing, r.wanted PROVE r \in AllShown
  <2>1. ShownWhole(shown, reader)  BY <1>4 DEF PagesInv, FollowInv, Following
  <2>2. PagesTyped /\ reader.day = 0 /\ r \in ledger  BY <1>1, <1>4 DEF PagesInv, PagesTyped
  <2>2a. r.day \in Nat /\ r.day >= 1  BY <2>2, RestIsAhead
  <2>2b. Behind(r, reader)  BY <2>2, <2>2a DEF Behind
  <2>3. PICK i \in 1..Len(shown) : r \in shown[i]  BY <1>4, <2>1, <2>2b DEF ShownWhole
  <2> QED  BY <1>2, <2>3 DEF AllShown
<1>5. ASSUME reader.doing = "cut short", NEW r \in items, NEW s \in standing, NewerRow(s, r) PROVE s \in items
  <2>1. Behind(r, reader)  BY <1>5 DEF PagesInv, WindowInv
  <2>2. reader.day \in Nat /\ reader.after \in Nat /\ r \in ledger /\ s \in ledger  BY <1>1 DEF PagesInv, PagesTyped
  <2>2a. r.day \in Nat /\ s.day \in Nat /\ r.key \in Nat /\ s.key \in Nat  BY <2>2, RestIsAhead DEF PagesInv
  <2>3. Behind(s, reader)  BY <1>5, <2>1, <2>2, <2>2a, BehindNewer
  <2> QED  BY <1>5, <2>3 DEF PagesInv, WindowInv
<1>6. reader.doing = "complete" => standing \subseteq items  BY DEF PagesInv, WindowInv
<1> QED  BY <1>3, <1>4, <1>5, <1>6 DEF ListingsWhole, PagesWhole, WindowWhole

(* Whatever pages the table cuts, whatever is recorded meanwhile: who      *)
(* follows the cursors sees each row once, newest first, and every row if  *)
(* no read failed; a window is complete only when it is.                   *)
THEOREM ReadersSeeItAll == ASSUME PagesFit PROVE PagesSpec => []ListingsWhole
<1>1. PagesInit => PagesInv  BY PagesStart
<1>2. PagesInv /\ [PagesNext]_pageVars => PagesInv'  BY PagesStep
<1>3. PagesInv => ListingsWhole  BY WholeWhenDone
<1> QED  BY <1>1, <1>2, <1>3, PTL DEF PagesSpec

-----------------------------------------------------------------------------
(* A SEGMENT IS WHAT ITS PATTERN SAYS: for any letters and any lengths.    *)

LEMMA FromNought ==
  ASSUME NEW S, 0 \in S, \A n \in Nat : n \in S => n + 1 \in S
  PROVE  Nat \subseteq S
<1> DEFINE T == {n \in Nat : n \notin S}
<1>1. SUFFICES ASSUME T # {} PROVE FALSE  OBVIOUS
<1>2. PICK x \in T : \A y \in T : ~(<<y, x>> \in OpToRel(<, Nat))
  BY <1>1, WFMin, NatLessThanWellFounded, Zenon
<1>3. x \in Nat /\ x \notin S /\ x # 0  OBVIOUS
<1>4. x - 1 \in Nat /\ x - 1 < x /\ (x - 1) + 1 = x  BY <1>3
<1>5. x - 1 \notin S  BY <1>3, <1>4
<1>6. <<x - 1, x>> \in OpToRel(<, Nat)  BY <1>3, <1>4, Zenon DEF OpToRel
<1> QED  BY <1>2, <1>4, <1>5, <1>6

(* What the definition of Says asks of its recursive function, up to n.    *)
Ends(e, glob, word, n) ==
  e = [i \in 0..n |->
         IF i = 0 THEN {0}
         ELSE IF glob[i] = Star THEN {j \in 0..Len(word) : \E k \in e[i - 1] : k <= j}
         ELSE {j \in 1..Len(word) : j - 1 \in e[i - 1] /\ glob[i] \in {Mark, word[j]}}]

LEMMA EndsExist ==
  ASSUME NEW glob, NEW word PROVE \A n \in Nat : \E e : Ends(e, glob, word, n)
<1> DEFINE S == {n \in Nat : \E e : Ends(e, glob, word, n)}
<1>1. 0 \in S
  <2> DEFINE e == [i \in 0..0 |-> {0}]
  <2>1. Ends(e, glob, word, 0)  BY DEF Ends
  <2> QED  BY <2>1
<1>2. ASSUME NEW n \in Nat, n \in S PROVE n + 1 \in S
  <2>1. PICK e : Ends(e, glob, word, n)  BY <1>2
  <2> DEFINE After(before, i) ==
               IF glob[i] = Star THEN {j \in 0..Len(word) : \E k \in before : k <= j}
               ELSE {j \in 1..Len(word) : j - 1 \in before /\ glob[i] \in {Mark, word[j]}}
             f == [i \in 0..n + 1 |-> IF i = n + 1 THEN After(e[n], n + 1) ELSE e[i]]
  <2>2. ASSUME NEW i \in 0..n + 1 PROVE f[i] = IF i = 0 THEN {0} ELSE After(f[i - 1], i)
    <3>1. CASE i = 0
      <4>1. e[0] = {0}  BY <2>1 DEF Ends
      <4>2. f[i] = e[0]  BY <3>1
      <4> QED  BY <3>1, <4>1, <4>2
    <3>2. CASE i = n + 1
      <4>1. f[i] = After(e[n], i) /\ f[i - 1] = e[n] /\ i # 0  BY <3>2
      <4> HIDE DEF f, After
      <4> QED  BY <4>1
    <3>3. CASE i \in 1..n
      <4>1. f[i] = e[i] /\ f[i - 1] = e[i - 1] /\ i # 0 /\ i \in 0..n  BY <3>3
      <4>2. e[i] = After(e[i - 1], i)  BY <4>1, <2>1 DEF Ends
      <4> HIDE DEF f, After
      <4> QED  BY <4>1, <4>2
    <3> QED  BY <3>1, <3>2, <3>3
  <2>3. f = [i \in 0..n + 1 |-> IF i = 0 THEN {0} ELSE After(f[i - 1], i)]
    <3>1. f = [i \in 0..n + 1 |-> f[i]]  OBVIOUS
    <3> HIDE DEF f, After
    <3> QED  BY <3>1, <2>2, Zenon
  <2>4. Ends(f, glob, word, n + 1)  BY <2>3, Zenon DEF Ends
  <2> QED  BY <2>4
<1>3. Nat \subseteq S
  <2> HIDE DEF S
  <2> QED  BY <1>1, <1>2, FromNought
<1> QED  BY <1>3

(* The function Says reads, and what it says of one more character.        *)
Reach(glob, word) == CHOOSE e : Ends(e, glob, word, Len(glob))

LEMMA SaysReaches ==
  ASSUME NEW glob, NEW word, Len(glob) \in Nat
  PROVE  /\ Ends(Reach(glob, word), glob, word, Len(glob))
         /\ Says(glob, word) <=> Len(word) \in Reach(glob, word)[Len(glob)]
<1>1. Ends(Reach(glob, word), glob, word, Len(glob))  BY EndsExist, Zenon DEF Reach
<1>2. Says(glob, word) <=> Len(word) \in Reach(glob, word)[Len(glob)]  BY Zenon DEF Says, Reach, Ends
<1> QED  BY <1>1, <1>2

LEMMA ReachOn ==
  ASSUME NEW glob, NEW word, Len(glob) \in Nat, Len(word) \in Nat
  PROVE  /\ Reach(glob, word)[0] = {0}
         /\ \A i \in 0..Len(glob) - 1, j \in 0..Len(word) :
              LET before == Reach(glob, word)[i] IN
              j \in Reach(glob, word)[i + 1] <=>
                IF glob[i + 1] = Star THEN \E k \in before : k <= j
                ELSE j # 0 /\ j - 1 \in before /\ glob[i + 1] \in {Mark, word[j]}
<1> DEFINE e == Reach(glob, word)
<1>1. Ends(e, glob, word, Len(glob))  BY SaysReaches
<1> HIDE DEF e
<1>2. e[0] = {0}  BY <1>1 DEF Ends
<1>3. ASSUME NEW i \in 0..Len(glob) - 1, NEW j \in 0..Len(word)
      PROVE  j \in e[i + 1] <=>
               IF glob[i + 1] = Star THEN \E k \in e[i] : k <= j
               ELSE j # 0 /\ j - 1 \in e[i] /\ glob[i + 1] \in {Mark, word[j]}
  <2>1. i + 1 \in 0..Len(glob) /\ i + 1 # 0 /\ (i + 1) - 1 = i  OBVIOUS
  <2>2. e[i + 1] = IF glob[i + 1] = Star THEN {m \in 0..Len(word) : \E k \in e[i] : k <= m}
                   ELSE {m \in 1..Len(word) : m - 1 \in e[i] /\ glob[i + 1] \in {Mark, word[m]}}
    BY <1>1, <2>1 DEF Ends
  <2>3. j \in 1..Len(word) <=> j # 0  OBVIOUS
  <2>4. CASE glob[i + 1] = Star  BY <2>2, <2>4
  <2>5. CASE glob[i + 1] # Star  BY <2>2, <2>3, <2>5
  <2> QED  BY <2>4, <2>5
<1> QED  BY <1>2, <1>3 DEF e

LEMMA ReachWithin ==
  ASSUME NEW glob, NEW word, Len(glob) \in Nat, Len(word) \in Nat, NEW i \in 0..Len(glob)
  PROVE  Reach(glob, word)[i] \subseteq 0..Len(word)
<1> DEFINE e == Reach(glob, word)
<1>1. Ends(e, glob, word, Len(glob))  BY SaysReaches
<1> HIDE DEF e
<1>2. e[i] = IF i = 0 THEN {0}
             ELSE IF glob[i] = Star THEN {j \in 0..Len(word) : \E k \in e[i - 1] : k <= j}
             ELSE {j \in 1..Len(word) : j - 1 \in e[i - 1] /\ glob[i] \in {Mark, word[j]}}
  BY <1>1 DEF Ends
<1>3. CASE i = 0  BY <1>2, <1>3 DEF e
<1>4. CASE i # 0 /\ glob[i] = Star  BY <1>2, <1>4 DEF e
<1>5. CASE i # 0 /\ glob[i] # Star  BY <1>2, <1>5 DEF e
<1> QED  BY <1>3, <1>4, <1>5

(* Stars at the end stand for nothing.                                     *)
LEMMA StarsAtTheEnd ==
  ASSUME NEW glob, NEW word, Len(glob) \in Nat, Len(word) \in Nat, NEW n \in 0..Len(glob),
         Len(word) \in Reach(glob, word)[n], \A i \in n + 1..Len(glob) : glob[i] = Star
  PROVE  Says(glob, word)
<1> DEFINE S == {m \in Nat : n + m <= Len(glob) => Len(word) \in Reach(glob, word)[n + m]}
<1>1. 0 \in S  OBVIOUS
<1>2. ASSUME NEW m \in Nat, m \in S PROVE m + 1 \in S
  <2>1. SUFFICES ASSUME n + (m + 1) <= Len(glob) PROVE Len(word) \in Reach(glob, word)[n + (m + 1)]  OBVIOUS
  <2>2. n + m \in 0..Len(glob) - 1 /\ n + (m + 1) = (n + m) + 1  BY <2>1
  <2>3. Len(word) \in Reach(glob, word)[n + m]  BY <1>2, <2>2
  <2>4. glob[(n + m) + 1] = Star  BY <2>2
  <2>5. Len(word) \in 0..Len(word) /\ Len(word) <= Len(word)  OBVIOUS
  <2>6. Len(word) \in Reach(glob, word)[(n + m) + 1]  BY <2>2, <2>3, <2>4, <2>5, ReachOn
  <2> QED  BY <2>2, <2>6
<1>3. Nat \subseteq S
  <2> HIDE DEF S
  <2> QED  BY <1>1, <1>2, FromNought
<1>4. Len(glob) - n \in Nat /\ n + (Len(glob) - n) = Len(glob)  OBVIOUS
<1>5. Len(word) \in Reach(glob, word)[Len(glob)]
  <2>1. Len(glob) - n \in S  BY <1>3, <1>4
  <2> QED  BY <2>1, <1>4
<1> QED  BY <1>5, SaysReaches

-----------------------------------------------------------------------------
(* How the first n characters of a glob divide a word among them: up to    *)
(* where each of them has read it.                                         *)
Divides(cut, glob, word, n) ==
  /\ cut \in [0..Len(glob) -> 0..Len(word)] /\ cut[0] = 0
  /\ \A i \in 1..n : IF glob[i] = Star THEN cut[i - 1] <= cut[i]
                     ELSE cut[i] = cut[i - 1] + 1 /\ glob[i] \in {Mark, word[cut[i]]}

(* Whatever the glob may stand for, it stands for by such a division.      *)
LEMMA CutsThere ==
  ASSUME NEW glob, NEW word, Len(glob) \in Nat, Len(word) \in Nat
  PROVE  \A i \in Nat : i <= Len(glob) =>
           \A j \in Reach(glob, word)[i] : \E cut : Divides(cut, glob, word, i) /\ cut[i] = j
<1> DEFINE e == Reach(glob, word)
           P(i) == \A j \in e[i] : \E cut : Divides(cut, glob, word, i) /\ cut[i] = j
           S == {i \in Nat : i <= Len(glob) => P(i)}
<1>1. 0 \in S
  <2>1. SUFFICES ASSUME NEW j \in e[0] PROVE \E cut : Divides(cut, glob, word, 0) /\ cut[0] = j  OBVIOUS
  <2> DEFINE cut == [i \in 0..Len(glob) |-> 0]
  <2>2. j = 0  BY ReachOn
  <2>3. cut \in [0..Len(glob) -> 0..Len(word)] /\ cut[0] = 0  OBVIOUS
  <2>4. Divides(cut, glob, word, 0)  BY <2>3 DEF Divides
  <2> QED  BY <2>2, <2>3, <2>4
<1>2. ASSUME NEW i \in Nat, i \in S PROVE i + 1 \in S
  <2>1. SUFFICES ASSUME i + 1 <= Len(glob), NEW j \in e[i + 1]
                 PROVE  \E cut : Divides(cut, glob, word, i + 1) /\ cut[i + 1] = j
    OBVIOUS
  <2>2. i \in 0..Len(glob) - 1 /\ i \in 0..Len(glob) /\ i + 1 \in 0..Len(glob)  BY <2>1
  <2>3. j \in 0..Len(word)  BY <2>1, <2>2, ReachWithin
  <2>4. PICK k \in e[i] : IF glob[i + 1] = Star THEN k <= j
                          ELSE j # 0 /\ k = j - 1 /\ glob[i + 1] \in {Mark, word[j]}
    BY <2>1, <2>2, <2>3, ReachOn
  <2>5. P(i)  BY <1>2, <2>2
  <2>6. PICK cut : Divides(cut, glob, word, i) /\ cut[i] = k  BY <2>4, <2>5
  <2> HIDE DEF e, S
  <2> DEFINE next == [cut EXCEPT ![i + 1] = j]
  <2>7. cut \in [0..Len(glob) -> 0..Len(word)] /\ cut[0] = 0  BY <2>6 DEF Divides
  <2>8. next \in [0..Len(glob) -> 0..Len(word)] /\ next[i + 1] = j /\ next[0] = 0 /\ next[i] = k
    BY <2>2, <2>3, <2>6, <2>7
  <2>9. \A m \in 0..i : next[m] = cut[m]  BY <2>2, <2>7
  <2> HIDE DEF next
  <2>10. ASSUME NEW m \in 1..i + 1
         PROVE  IF glob[m] = Star THEN next[m - 1] <= next[m]
                ELSE next[m] = next[m - 1] + 1 /\ glob[m] \in {Mark, word[next[m]]}
    <3>1. CASE m = i + 1
      <4>1. next[m - 1] = k /\ next[m] = j  BY <3>1, <2>8
      <4>2. k \in 0..Len(word)  BY <2>6, <2>7, <2>2
      <4> QED  BY <3>1, <4>1, <4>2, <2>3, <2>4
    <3>2. CASE m \in 1..i
      <4>1. m - 1 \in 0..i /\ m \in 0..i  BY <3>2
      <4>2. next[m - 1] = cut[m - 1] /\ next[m] = cut[m]  BY <4>1, <2>9
      <4>3. IF glob[m] = Star THEN cut[m - 1] <= cut[m]
            ELSE cut[m] = cut[m - 1] + 1 /\ glob[m] \in {Mark, word[cut[m]]}
        BY <3>2, <2>6 DEF Divides
      <4> QED  BY <4>2, <4>3
    <3> QED  BY <3>1, <3>2
  <2>11. Divides(next, glob, word, i + 1)  BY <2>8, <2>10 DEF Divides
  <2> QED  BY <2>8, <2>11
<1>3. Nat \subseteq S
  <2> HIDE DEF S
  <2> QED  BY <1>1, <1>2, FromNought
<1> QED  BY <1>3

(* A whole division, of all of the word by all of the glob, goes forward.  *)
Division(cut, glob, word) == Divides(cut, glob, word, Len(glob)) /\ cut[Len(glob)] = Len(word)

LEMMA SaidIsDivided ==
  ASSUME NEW glob, NEW word, Len(glob) \in Nat, Len(word) \in Nat, Says(glob, word)
  PROVE  \E cut : Division(cut, glob, word)
BY CutsThere, SaysReaches DEF Division

LEMMA DivisionOn ==
  ASSUME NEW glob, NEW word, Len(glob) \in Nat, Len(word) \in Nat, NEW cut, Division(cut, glob, word),
         NEW i \in 0..Len(glob) - 1
  PROVE  /\ cut[i] \in 0..Len(word) /\ cut[i + 1] \in 0..Len(word) /\ cut[i] <= cut[i + 1]
         /\ glob[i + 1] # Star => cut[i + 1] = cut[i] + 1 /\ glob[i + 1] \in {Mark, word[cut[i + 1]]}
<1>1. i + 1 \in 1..Len(glob) /\ (i + 1) - 1 = i /\ i \in 0..Len(glob) /\ i + 1 \in 0..Len(glob)  OBVIOUS
<1>2. cut[i] \in 0..Len(word) /\ cut[i + 1] \in 0..Len(word)  BY <1>1 DEF Division, Divides
<1>3. IF glob[i + 1] = Star THEN cut[i] <= cut[i + 1]
      ELSE cut[i + 1] = cut[i] + 1 /\ glob[i + 1] \in {Mark, word[cut[i + 1]]}
  BY <1>1 DEF Division, Divides
<1> QED  BY <1>2, <1>3

LEMMA DivisionForward ==
  ASSUME NEW glob, NEW word, Len(glob) \in Nat, Len(word) \in Nat, NEW cut, Division(cut, glob, word),
         NEW a \in 0..Len(glob), NEW b \in a..Len(glob)
  PROVE  cut[a] <= cut[b]
<1> DEFINE S == {m \in Nat : a + m <= Len(glob) => cut[a] <= cut[a + m]}
<1>0. \A i \in 0..Len(glob) : cut[i] \in 0..Len(word)  BY DEF Division, Divides
<1>1. 0 \in S  BY <1>0
<1>2. ASSUME NEW m \in Nat, m \in S PROVE m + 1 \in S
  <2>1. SUFFICES ASSUME a + (m + 1) <= Len(glob) PROVE cut[a] <= cut[a + (m + 1)]  OBVIOUS
  <2>2. a + m \in 0..Len(glob) - 1 /\ a + (m + 1) = (a + m) + 1  BY <2>1
  <2>3. cut[a + m] <= cut[(a + m) + 1]  BY <2>2, DivisionOn
  <2>4. cut[a] <= cut[a + m]  BY <1>2, <2>2
  <2>5. cut[a] \in Int /\ cut[a + m] \in Int /\ cut[(a + m) + 1] \in Int  BY <1>0, <2>2
  <2> QED  BY <2>2, <2>3, <2>4, <2>5
<1>3. Nat \subseteq S
  <2> HIDE DEF S
  <2> QED  BY <1>1, <1>2, FromNought
<1>4. b - a \in Nat /\ a + (b - a) = b  OBVIOUS
<1>5. b - a \in S  BY <1>3, <1>4
<1> QED  BY <1>4, <1>5

-----------------------------------------------------------------------------
(* The walk.                                                               *)

(* Where the pointers may stand, and how many steps brought them there.    *)
WalkTyped ==
  /\ Len(text) \in Nat /\ Len(pattern) \in Nat /\ DOMAIN text = 1..Len(text)
  /\ t \in 0..Len(text) /\ p \in 0..Len(pattern)
  /\ resume \in 0..t /\ star \in -1..p - 1
  /\ answer \in {"none", "yes", "no"} /\ steps \in Nat
  /\ steps <= resume * (Len(pattern) + 1) + p

(* What was read of the pattern may stand for what was read of the text,   *)
(* and what is before the * met last for what is before it.                *)
Reached ==
  /\ t \in Reach(pattern, text)[p]
  /\ star # -1 => pattern[star + 1] = Star /\ resume \in Reach(pattern, text)[star + 1]

(* However the pattern divides the text, the * met last ends no earlier    *)
(* than where the walk resumed, and what follows it is of the same length. *)
Overtaken ==
  answer = "none" /\ (\A i \in 1..Len(text) : text[i] # Star) =>
    \A cut : Division(cut, pattern, text) =>
      IF star = -1 THEN cut[p] = t
      ELSE resume <= cut[star + 1] /\ cut[p] - cut[star + 1] = t - resume

AnsweredRight ==
  /\ answer = "yes" => Says(pattern, text)
  /\ answer = "no"  => ~Says(pattern, text) \/ \E i \in 1..Len(text) : text[i] = Star

WalkInv == WalkTyped /\ Reached /\ Overtaken /\ AnsweredRight

LEMMA ReadSequence ==
  ASSUME NEW S, NEW m \in Nat, NEW s \in [1..m -> S]
  PROVE  Len(s) \in Nat /\ DOMAIN s = 1..Len(s)
<1>1. s \in Seq(S)  BY SeqDef
<1> QED  BY <1>1, LenProperties

LEMMA WalkBegins == Init => WalkInv
<1> SUFFICES ASSUME Init PROVE WalkInv  OBVIOUS
<1>1. PICK m \in 0..MaxText : text \in [1..m -> Letters]  BY DEF Init, SeqOf
<1>2. PICK n \in 0..MaxPattern : pattern \in [1..n -> Letters \cup {Star, Mark}]  BY DEF Init, SeqOf
<1>3. Len(text) \in Nat /\ DOMAIN text = 1..Len(text)  BY <1>1, ReadSequence
<1>4. Len(pattern) \in Nat  BY <1>2, ReadSequence
<1>5. WalkTyped  BY <1>3, <1>4 DEF Init, WalkTyped
<1>6. Reached  BY <1>3, <1>4, ReachOn DEF Init, Reached
<1>7. Overtaken  BY DEF Init, Overtaken, Division, Divides
<1>8. AnsweredRight  BY DEF Init, AnsweredRight
<1> QED  BY <1>5, <1>6, <1>7, <1>8 DEF WalkInv

(* A letter met brings both pointers on.                                   *)
LEMMA MatchKeeps == ASSUME WalkInv, Match PROVE WalkInv'
<1>1. /\ answer = "none" /\ t < Len(text) /\ p < Len(pattern) /\ pattern[p + 1] \in {Mark, text[t + 1]}
      /\ t' = t + 1 /\ p' = p + 1 /\ steps' = steps + 1
      /\ UNCHANGED <<text, pattern, star, resume, answer>>
  BY DEF Match, Reading, Letter, Ahead, Walks
<1>2. WalkTyped'
  <2>1. resume * (Len(pattern) + 1) \in Nat  BY DEF WalkInv, WalkTyped
  <2> QED  BY <1>1, <2>1 DEF WalkInv, WalkTyped
<1>3. p \in 0..Len(pattern) - 1 /\ t + 1 \in 0..Len(text) /\ Len(text) \in Nat /\ Len(pattern) \in Nat /\ t \in Nat
  BY <1>1 DEF WalkInv, WalkTyped
<1>4. Reached'
  <2>1. t \in Reach(pattern, text)[p]  BY DEF WalkInv, Reached
  <2>2. t + 1 \in Reach(pattern, text)[p + 1]
    <3>1. CASE pattern[p + 1] = Star
      <4>1. \E k \in Reach(pattern, text)[p] : k <= t + 1  BY <2>1, <1>3
      <4> QED  BY <4>1, <3>1, <1>3, ReachOn
    <3>2. CASE pattern[p + 1] # Star
      <4>1. t + 1 # 0 /\ (t + 1) - 1 = t  BY <1>3
      <4> QED  BY <4>1, <3>2, <2>1, <1>1, <1>3, ReachOn
    <3> QED  BY <3>1, <3>2
  <2> QED  BY <1>1, <2>2 DEF WalkInv, Reached
<1>5. Overtaken'
  <2> SUFFICES ASSUME \A i \in 1..Len(text) : text[i] # Star, NEW cut, Division(cut, pattern, text)
               PROVE  IF star = -1 THEN cut[p + 1] = t + 1
                      ELSE resume <= cut[star + 1] /\ cut[p + 1] - cut[star + 1] = (t + 1) - resume
    BY <1>1 DEF Overtaken
  <2>1. pattern[p + 1] # Star
    <3>1. t + 1 \in 1..Len(text)  BY <1>1, <1>3
    <3> QED  BY <3>1, <1>1 DEF Star, Mark
  <2>2. cut[p + 1] = cut[p] + 1 /\ cut[p] \in Int  BY <1>3, <2>1, DivisionOn
  <2>3. IF star = -1 THEN cut[p] = t ELSE resume <= cut[star + 1] /\ cut[p] - cut[star + 1] = t - resume
    BY <1>1 DEF WalkInv, Overtaken
  <2>4. CASE star = -1  BY <2>2, <2>3, <2>4
  <2>5. CASE star # -1
    <3>1. star + 1 \in 0..Len(pattern)  BY <2>5, <1>3 DEF WalkInv, WalkTyped
    <3>2. cut[star + 1] \in Int  BY <3>1 DEF Division, Divides
    <3>3. resume \in Int  BY DEF WalkInv, WalkTyped
    <3>4. resume <= cut[star + 1] /\ cut[p] - cut[star + 1] = t - resume  BY <2>3, <2>5
    <3>5. cut[p + 1] - cut[star + 1] = (t + 1) - resume  BY <2>2, <3>2, <3>3, <3>4, <1>3
    <3> QED  BY <2>5, <3>4, <3>5
  <2> QED  BY <2>4, <2>5
<1>6. AnsweredRight'  BY <1>1 DEF AnsweredRight
<1> QED  BY <1>2, <1>4, <1>5, <1>6 DEF WalkInv

(* A * met may stand for nothing yet.                                      *)
LEMMA MeetStarKeeps == ASSUME WalkInv, MeetStar PROVE WalkInv'
<1>1. /\ answer = "none" /\ t < Len(text) /\ p < Len(pattern) /\ pattern[p + 1] = Star
      /\ star' = p /\ resume' = t /\ t' = t /\ p' = p + 1 /\ steps' = steps + 1
      /\ UNCHANGED <<text, pattern, answer>>
  BY DEF MeetStar, Reading, Ahead, Walks
<1>2. p \in 0..Len(pattern) - 1 /\ t \in 0..Len(text) /\ Len(text) \in Nat /\ Len(pattern) \in Nat
  BY <1>1 DEF WalkInv, WalkTyped
<1>3. WalkTyped'
  <2>1. resume * (Len(pattern) + 1) <= t * (Len(pattern) + 1)
    <3>1. resume \in Nat /\ t \in Nat /\ resume <= t /\ Len(pattern) + 1 \in Nat  BY DEF WalkInv, WalkTyped
    <3> DEFINE n == Len(pattern) + 1
    <3>2. n \in Nat  BY <3>1
    <3> HIDE DEF n
    <3>3. resume * n <= t * n  BY <3>1, <3>2
    <3> QED  BY <3>3 DEF n
  <2>2. resume * (Len(pattern) + 1) \in Int /\ t * (Len(pattern) + 1) \in Int  BY <1>2 DEF WalkInv, WalkTyped
  <2>3. steps' <= resume' * (Len(pattern') + 1) + p'
    <3>1. steps <= resume * (Len(pattern) + 1) + p /\ steps \in Nat  BY DEF WalkInv, WalkTyped
    <3> QED  BY <1>1, <1>2, <2>1, <2>2, <3>1
  <2> QED  BY <1>1, <1>2, <2>3 DEF WalkInv, WalkTyped
<1>4. Reached'
  <2>1. t \in Reach(pattern, text)[p]  BY DEF WalkInv, Reached
  <2>2. \E k \in Reach(pattern, text)[p] : k <= t  BY <2>1, <1>2
  <2>3. t \in Reach(pattern, text)[p + 1]  BY <2>2, <1>1, <1>2, ReachOn
  <2> QED  BY <1>1, <2>3 DEF Reached
<1>5. Overtaken'
  <2> SUFFICES ASSUME \A i \in 1..Len(text) : text[i] # Star, NEW cut, Division(cut, pattern, text)
               PROVE  t <= cut[p + 1] /\ cut[p + 1] - cut[p + 1] = t - t
    BY <1>1, <1>2 DEF Overtaken
  <2>1. cut[p] \in Int /\ cut[p + 1] \in Int /\ cut[p] <= cut[p + 1]  BY <1>2, DivisionOn
  <2>2. IF star = -1 THEN cut[p] = t ELSE resume <= cut[star + 1] /\ cut[p] - cut[star + 1] = t - resume
    BY <1>1 DEF WalkInv, Overtaken
  <2>3. CASE star = -1  BY <2>1, <2>2, <2>3, <1>2
  <2>4. CASE star # -1
    <3>1. star + 1 \in 0..Len(pattern) /\ resume \in Int  BY <2>4, <1>2 DEF WalkInv, WalkTyped
    <3>2. cut[star + 1] \in Int  BY <3>1 DEF Division, Divides
    <3> QED  BY <2>1, <2>2, <2>4, <3>1, <3>2, <1>2
  <2> QED  BY <2>3, <2>4
<1>6. AnsweredRight'  BY <1>1 DEF AnsweredRight
<1> QED  BY <1>3, <1>4, <1>5, <1>6 DEF WalkInv

(* Where the walk is stuck no division goes on.                            *)
LEMMA NoneGoesOn ==
  ASSUME WalkInv, Stuck, \A i \in 1..Len(text) : text[i] # Star, NEW cut, Division(cut, pattern, text)
  PROVE  cut[p] # t
<1>1. /\ t < Len(text) /\ (p < Len(pattern) => pattern[p + 1] \notin {Mark, text[t + 1]} /\ pattern[p + 1] # Star)
  BY DEF Stuck, Reading, Letter, Ahead
<1>2. p \in 0..Len(pattern) /\ t \in 0..Len(text) /\ Len(text) \in Nat /\ Len(pattern) \in Nat
  BY DEF WalkInv, WalkTyped
<1>3. SUFFICES ASSUME cut[p] = t PROVE FALSE  OBVIOUS
<1>4. CASE p = Len(pattern)  BY <1>1, <1>2, <1>3, <1>4 DEF Division
<1>5. CASE p < Len(pattern)
  <2>1. p \in 0..Len(pattern) - 1  BY <1>2, <1>5
  <2>2. cut[p + 1] = t + 1 /\ pattern[p + 1] \in {Mark, text[cut[p + 1]]}
    BY <1>1, <1>2, <1>3, <1>5, <2>1, DivisionOn
  <2> QED  BY <1>1, <1>5, <2>2
<1> QED  BY <1>2, <1>4, <1>5

LEMMA ResumeKeeps == ASSUME WalkInv, Resume PROVE WalkInv'
<1>1. /\ answer = "none" /\ t < Len(text) /\ star # -1
      /\ p' = star + 1 /\ resume' = resume + 1 /\ t' = resume + 1 /\ steps' = steps + 1
      /\ UNCHANGED <<text, pattern, star, answer>>
  BY DEF Resume, Stuck, Reading, Walks
<1>2. /\ star + 1 \in 1..p /\ star \in 0..Len(pattern) - 1 /\ p \in 0..Len(pattern) /\ star \in 0..p - 1
      /\ resume \in 0..t /\ t \in 0..Len(text) /\ resume + 1 \in 0..Len(text)
      /\ Len(text) \in Nat /\ Len(pattern) \in Nat
  BY <1>1 DEF WalkInv, WalkTyped
<1>3. WalkTyped'
  <2>1. (resume + 1) * (Len(pattern) + 1) = resume * (Len(pattern) + 1) + (Len(pattern) + 1)  BY <1>2
  <2>2. resume * (Len(pattern) + 1) \in Int  BY <1>2
  <2>3. steps' <= resume' * (Len(pattern') + 1) + p'
    <3>1. steps <= resume * (Len(pattern) + 1) + p /\ steps \in Nat  BY DEF WalkInv, WalkTyped
    <3>2. steps + 1 <= (resume * (Len(pattern) + 1) + (Len(pattern) + 1)) + (star + 1)  BY <1>2, <2>2, <3>1
    <3> QED  BY <1>1, <2>1, <3>2
  <2> QED  BY <1>1, <1>2, <2>3 DEF WalkInv, WalkTyped
<1>4. Reached'
  <2>1. pattern[star + 1] = Star /\ resume \in Reach(pattern, text)[star + 1]  BY <1>1 DEF WalkInv, Reached
  <2>2. resume \in 0..Len(text)  BY <1>2
  <2>3. PICK k \in Reach(pattern, text)[star] : k <= resume  BY <2>1, <2>2, <1>2, ReachOn
  <2>4. k \in Int
    <3>1. star \in 0..Len(pattern)  BY <1>2
    <3>2. k \in 0..Len(text)  BY <3>1, <1>2, ReachWithin
    <3> QED  BY <3>2
  <2>5. k <= resume + 1  BY <2>3, <2>4, <1>2
  <2>6. resume + 1 \in Reach(pattern, text)[star + 1]  BY <2>1, <2>5, <1>2, ReachOn
  <2> QED  BY <1>1, <2>1, <2>6 DEF Reached
<1>5. Overtaken'
  <2> SUFFICES ASSUME \A i \in 1..Len(text) : text[i] # Star, NEW cut, Division(cut, pattern, text)
               PROVE  resume + 1 <= cut[star + 1] /\ cut[star + 1] - cut[star + 1] = (resume + 1) - (resume + 1)
    BY <1>1 DEF Overtaken
  <2>1. resume <= cut[star + 1] /\ cut[p] - cut[star + 1] = t - resume  BY <1>1 DEF WalkInv, Overtaken
  <2>2. cut[p] # t  BY NoneGoesOn DEF Resume
  <2>3. cut[p] \in Int /\ cut[star + 1] \in Int
    <3>1. p \in 0..Len(pattern) /\ star + 1 \in 0..Len(pattern)  BY <1>2
    <3> QED  BY <3>1 DEF Division, Divides
  <2> QED  BY <1>2, <2>1, <2>2, <2>3
<1>6. AnsweredRight'  BY <1>1 DEF AnsweredRight
<1> QED  BY <1>3, <1>4, <1>5, <1>6 DEF WalkInv

LEMMA FailKeeps == ASSUME WalkInv, Fail PROVE WalkInv'
<1>1. answer = "none" /\ answer' = "no" /\ star = -1 /\ UNCHANGED <<text, pattern, t, p, star, resume, steps>>
  BY DEF Fail, Stuck, Reading
<1>2. ~Says(pattern, text) \/ \E i \in 1..Len(text) : text[i] = Star
  <2>1. SUFFICES ASSUME Says(pattern, text), \A i \in 1..Len(text) : text[i] # Star PROVE FALSE  OBVIOUS
  <2>2. Len(text) \in Nat /\ Len(pattern) \in Nat  BY DEF WalkInv, WalkTyped
  <2>3. PICK cut : Division(cut, pattern, text)  BY <2>1, <2>2, SaidIsDivided
  <2>4. cut[p] = t  BY <1>1, <2>1, <2>3 DEF WalkInv, Overtaken
  <2> QED  BY <2>1, <2>3, <2>4, NoneGoesOn DEF Fail
<1> QED  BY <1>1, <1>2 DEF WalkInv, WalkTyped, Reached, Overtaken, AnsweredRight

LEMMA TextReadKeeps == ASSUME WalkInv, TextRead PROVE WalkInv'
<1> DEFINE ends == \A i \in p + 1..Len(pattern) : pattern[i] = Star
<1>1. answer = "none" /\ t = Len(text) /\ answer' = (IF ends THEN "yes" ELSE "no")
      /\ UNCHANGED <<text, pattern, t, p, star, resume, steps>>
  BY DEF TextRead
<1>2. p \in 0..Len(pattern) /\ Len(text) \in Nat /\ Len(pattern) \in Nat  BY DEF WalkInv, WalkTyped
<1>3. ends => Says(pattern, text)
  <2>1. Len(text) \in Reach(pattern, text)[p]  BY <1>1 DEF WalkInv, Reached
  <2> QED  BY <1>2, <2>1, StarsAtTheEnd
<1>4. ~ends => ~Says(pattern, text) \/ \E i \in 1..Len(text) : text[i] = Star
  <2>1. SUFFICES ASSUME ~ends, Says(pattern, text), \A i \in 1..Len(text) : text[i] # Star PROVE FALSE  OBVIOUS
  <2>2. PICK i \in p + 1..Len(pattern) : pattern[i] # Star  BY <2>1
  <2>3. PICK cut : Division(cut, pattern, text)  BY <2>1, <1>2, SaidIsDivided
  <2>4. IF star = -1 THEN cut[p] = t ELSE resume <= cut[star + 1] /\ cut[p] - cut[star + 1] = t - resume
    BY <1>1, <2>1, <2>3 DEF WalkInv, Overtaken
  <2>5. cut[p] \in Int /\ t <= cut[p]
    <3>1. cut[p] \in Int
      <4>1. cut \in [0..Len(pattern) -> 0..Len(text)]  BY <2>3 DEF Division, Divides
      <4> QED  BY <4>1, <1>2
    <3>2. CASE star = -1  BY <2>4, <3>1, <3>2
    <3>3. CASE star # -1
      <4>1. star + 1 \in 0..Len(pattern) /\ resume \in Int /\ t \in Int  BY <3>3, <1>2 DEF WalkInv, WalkTyped
      <4>2. cut[star + 1] \in Int  BY <4>1, <2>3 DEF Division, Divides
      <4> QED  BY <2>4, <3>1, <3>3, <4>1, <4>2
    <3> QED  BY <3>1, <3>2, <3>3
  <2>6. i - 1 \in 0..Len(pattern) - 1 /\ i - 1 \in p..Len(pattern) /\ (i - 1) + 1 = i  BY <1>2, <2>2
  <2>7. cut[p] <= cut[i - 1]  BY <1>2, <2>3, <2>6, DivisionForward
  <2>8. cut[i - 1] \in Int /\ cut[i] \in 0..Len(text) /\ cut[i] = cut[i - 1] + 1
    BY <1>2, <2>2, <2>3, <2>6, DivisionOn
  <2> QED  BY <1>1, <1>2, <2>5, <2>7, <2>8
<1> HIDE DEF ends
<1> QED  BY <1>1, <1>3, <1>4 DEF WalkInv, WalkTyped, Reached, Overtaken, AnsweredRight

LEMMA WalkAlways == Spec => []WalkInv
<1>1. WalkInv /\ [Next]_vars => WalkInv'
  <2> SUFFICES ASSUME WalkInv, [Next]_vars PROVE WalkInv'  OBVIOUS
  <2>1. CASE Match  BY <2>1, MatchKeeps
  <2>2. CASE MeetStar  BY <2>2, MeetStarKeeps
  <2>3. CASE Resume  BY <2>3, ResumeKeeps
  <2>4. CASE Fail  BY <2>4, FailKeeps
  <2>5. CASE TextRead  BY <2>5, TextReadKeeps
  <2>6. CASE UNCHANGED vars  BY <2>6 DEF vars, WalkInv, WalkTyped, Reached, Overtaken, AnsweredRight
  <2> QED  BY <2>1, <2>2, <2>3, <2>4, <2>5, <2>6 DEF Next
<1> QED  BY <1>1, WalkBegins, PTL DEF Spec

(* The walk says of a segment what its pattern says of it, unless the name *)
(* holds a * itself, and takes no more steps than the two lengths allow.   *)
THEOREM WalkIsRight == Spec => []WalkRight
<1>1. WalkInv => WalkRight
  <2> SUFFICES ASSUME WalkInv PROVE WalkRight  OBVIOUS
  <2>1. answer = "no" => ~Says(pattern, text) \/ Star \in Range(text)
    <3>1. (\E i \in 1..Len(text) : text[i] = Star) => Star \in Range(text)  BY DEF WalkInv, WalkTyped, Range
    <3> QED  BY <3>1 DEF WalkInv, AnsweredRight
  <2>2. steps <= (Len(text) + 1) * (Len(pattern) + 1)
    <3> DEFINE n == Len(pattern) + 1
    <3>1. n \in Nat /\ resume \in Nat /\ Len(text) \in Nat /\ resume <= Len(text) /\ p \in Nat /\ p < n
          /\ steps \in Nat /\ steps <= resume * n + p
      BY DEF WalkInv, WalkTyped
    <3> HIDE DEF n
    <3>2. resume * n <= Len(text) * n  BY <3>1
    <3>3. (Len(text) + 1) * n = Len(text) * n + n  BY <3>1
    <3>4. resume * n \in Int /\ Len(text) * n \in Int  BY <3>1
    <3>5. steps <= (Len(text) + 1) * n  BY <3>1, <3>2, <3>3, <3>4
    <3> QED  BY <3>5 DEF n
  <2> QED  BY <2>1, <2>2 DEF WalkInv, AnsweredRight, WalkRight
<1> QED  BY <1>1, WalkAlways, PTL
=============================================================================
