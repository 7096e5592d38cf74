----------------------------- MODULE SignIn_proofs -----------------------------
(* A code opens one session, and a session ends in time: for any number of *)
(* threads, of containers and of tokens, and whichever calls fail.         *)
EXTENDS SignIn, FiniteSetTheorems, TLAPS

Labels == {"idle", "open", "consume_memory", "lookup_table", "lookup_memory", "lookup_keep",
           "revoke_table"}
Expiries == [Tokens -> Nat]

Typed ==
  /\ now \in Nat /\ minted \in BOOLEAN /\ configured \in BOOLEAN
  /\ code \in Nat /\ codeMem \in [Containers -> Nat]
  /\ item \in Expiries /\ itemMem \in [Containers -> Expiries] /\ cache \in [Containers -> Expiries]
  /\ pc \in [Threads -> Labels] /\ tok \in [Threads -> Tokens]
  /\ at \in [Threads -> Nat] /\ found \in [Threads -> Nat]
  /\ answer \in [Threads -> {"none", "yes", "no"}]
  /\ issued \in Expiries /\ revokedAt \in Expiries /\ droppedAt \in [Containers -> Expiries]

(* The right to open a session is in one place at a time: on the table, in *)
(* one container's memory, with the thread that took it, or used up.       *)
Unused   == \A k \in Tokens : issued[k] = 0
NotTaken == \A t \in Threads : pc[t] # "open"
Unminted == ~minted => code = 0 /\ (\A c \in Containers : codeMem[c] = 0) /\ NotTaken /\ Unused
Stored   == code > 0 => (\A c \in Containers : codeMem[c] = 0) /\ NotTaken /\ Unused
Kept     == \A c \in Containers : codeMem[c] > 0 =>
              (\A d \in Containers : d # c => codeMem[d] = 0) /\ NotTaken /\ Unused
Taken    == \A t \in Threads : pc[t] = "open" => (\A s \in Threads : s # t => pc[s] # "open") /\ Unused
UsedUp   == \A j, k \in Tokens : issued[j] > 0 /\ issued[k] > 0 => j = k

OneRight == Unminted /\ Stored /\ Kept /\ Taken /\ UsedUp

(* What is held of a token is the item it was issued as, and none is on    *)
(* the table once a revoke returned True.                                  *)
Held(c, k) ==
  /\ item[k] \in {0, issued[k]} /\ itemMem[c][k] \in {0, issued[k]}
  /\ revokedAt[k] > 0 => item[k] = 0 /\ issued[k] > 0
  /\ revokedAt[k] <= now /\ droppedAt[c][k] <= now

(* No later than the revoke after which container c has no item to find.   *)
Reached(c, k, time) ==
  revokedAt[k] > 0 /\ itemMem[c][k] = 0 => time <= revokedAt[k] \/ time <= droppedAt[c][k]

(* A container trusts a token until it lapses, and CacheFor after a lookup *)
(* that began before the revoke.                                           *)
Trusted(c, k) ==
  /\ cache[c][k] <= issued[k] /\ cache[c][k] <= now + CacheFor
  /\ cache[c][k] = 0 \/ Reached(c, k, cache[c][k] - CacheFor)

(* A record in a lookup's hands was read while the session was on.         *)
Looking(t) ==
  /\ at[t] <= now
  /\ pc[t] \in {"lookup_table", "lookup_memory", "lookup_keep", "revoke_table"} => issued[tok[t]] > 0
  /\ pc[t] = "lookup_keep" =>
       /\ found[t] \in {0, issued[tok[t]]}
       /\ found[t] = 0 \/ Reached(Home[t], tok[t], at[t])

(* An answer of yes, by the time its lookup began.                         *)
Honest(t) ==
  answer[t] = "yes" =>
    at[t] < issued[tok[t]] /\ Reached(Home[t], tok[t], at[t] + 1 - CacheFor)

InTime ==
  /\ \A c \in Containers, k \in Tokens : Held(c, k) /\ Trusted(c, k)
  /\ \A t \in Threads : Looking(t) /\ Honest(t)

IInv == Typed /\ OneRight /\ InTime

-----------------------------------------------------------------------------
LEMMA Constants == ASSUME ConstantsFit PROVE
  /\ Home \in [Threads -> Containers]
  /\ CodeFor \in Nat /\ SessionFor \in Nat /\ CacheFor \in Nat /\ CacheFor > 0 /\ SessionFor > 0 /\ MaxTime \in Nat
  BY DEF ConstantsFit

LEMMA TypedAtFirst == ASSUME ConstantsFit, Init PROVE Typed
<1> USE DEF Init, Typed, Labels, Expiries, Nowhere
<1>1. now \in Nat /\ minted \in BOOLEAN /\ configured \in BOOLEAN /\ code \in Nat  OBVIOUS
<1>2. codeMem \in [Containers -> Nat] /\ item \in Expiries /\ itemMem \in [Containers -> Expiries] /\ cache \in [Containers -> Expiries]
  OBVIOUS
<1>3. pc \in [Threads -> Labels] /\ tok \in [Threads -> Tokens] /\ at \in [Threads -> Nat] /\ found \in [Threads -> Nat]
  OBVIOUS
<1>4. answer \in [Threads -> {"none", "yes", "no"}] /\ issued \in Expiries /\ revokedAt \in Expiries /\ droppedAt \in [Containers -> Expiries]
  OBVIOUS
<1> QED BY <1>1, <1>2, <1>3, <1>4

LEMMA GotoTyped ==
  ASSUME Typed, NEW t \in Threads, NEW label \in Labels, Goto(t, label)
  PROVE  pc' \in [Threads -> Labels]
  BY DEF Typed, Goto

LEMMA BeginsTyped ==
  ASSUME Typed, NEW t \in Threads, NEW time \in Nat, Begins(t, time)
  PROVE  answer' \in [Threads -> {"none", "yes", "no"}] /\ at' \in [Threads -> Nat]
  BY DEF Typed, Begins

LEMMA RepliesTyped ==
  ASSUME Typed, NEW t \in Threads, NEW yes \in BOOLEAN, Replies(t, yes)
  PROVE  answer' \in [Threads -> {"none", "yes", "no"}] /\ pc' \in [Threads -> Labels]
  BY DEF Typed, Goto, Replies, Labels

(* A step of a request keeps the types.                                    *)
LEMMA ServeTyped ==
  ASSUME ConstantsFit, Typed, NEW t \in Threads, Serve(t) PROVE Typed'
<1> USE Constants DEF Typed, Expiries
<1>0. /\ "idle" \in Labels /\ "open" \in Labels /\ "consume_memory" \in Labels /\ "lookup_table" \in Labels
      /\ "lookup_memory" \in Labels /\ "lookup_keep" \in Labels /\ "revoke_table" \in Labels
  BY DEF Labels
<1>1. CASE MintCode(t)
  <2>1. answer' \in [Threads -> {"none", "yes", "no"}] /\ at' \in [Threads -> Nat]
    BY <1>1, GotoTyped, BeginsTyped, RepliesTyped DEF MintCode
  <2>2. PutCode(t, now + CodeFor) /\ now + CodeFor \in Nat
    BY <1>1 DEF MintCode
  <2>3. code' \in Nat /\ codeMem' \in [Containers -> Nat]
    BY <2>2 DEF PutCode
  <2> QED BY <1>1, <2>1, <2>3 DEF MintCode, history
<1>2. CASE ConsumeOnTable(t)
  <2>1. answer' \in [Threads -> {"none", "yes", "no"}] /\ at' \in [Threads -> Nat]
    BY <1>2, GotoTyped, BeginsTyped, RepliesTyped DEF ConsumeOnTable
  <2>2. code' \in Nat
    BY <1>2 DEF ConsumeOnTable
  <2>3. pc' \in [Threads -> Labels]
    <3>1. pc' = pc \/ \E label \in Labels : Goto(t, label)
      BY <1>0, <1>2 DEF ConsumeOnTable
    <3> QED BY <3>1, GotoTyped
  <2> QED BY <1>2, <2>1, <2>2, <2>3 DEF ConsumeOnTable, history, inMemory
<1>3. CASE ConsumeInMemory(t)
  <2>1. pc' \in [Threads -> Labels]
    BY <1>0, <1>3, GotoTyped, BeginsTyped, RepliesTyped DEF ConsumeInMemory
  <2> QED BY <1>3, <2>1 DEF ConsumeInMemory, history, onTable
<1>4. CASE OpenSession(t)
  <2>1. PICK k \in Tokens : PutToken(t, k, now + SessionFor) /\ issued' = [issued EXCEPT ![k] = now + SessionFor]
    BY <1>4 DEF OpenSession
  <2>2. item' \in Expiries /\ itemMem' \in [Containers -> Expiries]
    <3>1. now + SessionFor \in Nat /\ Home[t] \in Containers
      OBVIOUS
    <3>2. CASE item' = [item EXCEPT ![k] = now + SessionFor] /\ UNCHANGED itemMem
      BY <3>1, <3>2
    <3>3. CASE itemMem' = [itemMem EXCEPT ![Home[t]][k] = now + SessionFor] /\ UNCHANGED item
      BY <3>1, <3>3
    <3> QED BY <2>1, <3>2, <3>3 DEF PutToken
  <2>3. issued' \in Expiries
    BY <2>1
  <2>4. pc' \in [Threads -> Labels]
    BY <1>0, <1>4, GotoTyped, BeginsTyped, RepliesTyped DEF OpenSession
  <2> QED BY <1>4, <2>2, <2>3, <2>4 DEF OpenSession
<1>5. CASE \E k \in Tokens : LookupInCache(t, k)
  <2>1. PICK k \in Tokens : LookupInCache(t, k)  BY <1>5
  <2>2. pc' \in [Threads -> Labels] /\ answer' \in [Threads -> {"none", "yes", "no"}] /\ at' \in [Threads -> Nat]
    <3>1. CASE now < cache[Home[t]][k]
      <4>1. Replies(t, TRUE) /\ at' = [at EXCEPT ![t] = now]
        BY <2>1, <3>1 DEF LookupInCache
      <4> QED BY <4>1, RepliesTyped
    <3>2. CASE ~(now < cache[Home[t]][k])
      <4>1. Goto(t, "lookup_table") /\ Begins(t, now)
        BY <2>1, <3>2 DEF LookupInCache
      <4> QED BY <1>0, <4>1, GotoTyped, BeginsTyped
    <3> QED BY <3>1, <3>2
  <2>3. cache' \in [Containers -> Expiries] /\ tok' \in [Threads -> Tokens]
    <3>1. cache' = cache \/ cache' = [cache EXCEPT ![Home[t]][k] = 0]
      BY <2>1 DEF LookupInCache
    <3>2. [cache EXCEPT ![Home[t]][k] = 0] \in [Containers -> Expiries]
      OBVIOUS
    <3>4. cache' \in [Containers -> Expiries]
      BY <3>1, <3>2
    <3>3. tok' \in [Threads -> Tokens]
      BY <2>1 DEF LookupInCache
    <3> QED BY <3>4, <3>3
  <2> QED BY <2>1, <2>2, <2>3 DEF LookupInCache, history, onTable
<1>6. CASE \E k \in Tokens : RevokeHere(t, k)
  <2>1. PICK k \in Tokens : RevokeHere(t, k)  BY <1>6
  <2>2. droppedAt' \in [Containers -> Expiries]
    BY <2>1 DEF RevokeHere
  <2>3. cache' \in [Containers -> Expiries] /\ itemMem' \in [Containers -> Expiries]
    BY <2>1 DEF RevokeHere
  <2>4. pc' \in [Threads -> Labels] /\ answer' \in [Threads -> {"none", "yes", "no"}] /\ at' \in [Threads -> Nat]
    BY <1>0, <2>1, GotoTyped, BeginsTyped, RepliesTyped DEF RevokeHere
  <2> QED BY <2>1, <2>2, <2>3, <2>4 DEF RevokeHere, onTable
<1>7. CASE LookupOnTable(t)
  <2>1. pc' \in [Threads -> Labels]
    <3>1. \E label \in Labels : Goto(t, label)
      BY <1>0, <1>7 DEF LookupOnTable
    <3> QED BY <3>1, GotoTyped
  <2> QED BY <1>7, <2>1 DEF LookupOnTable, history, onTable, inMemory
<1>8. CASE LookupInMemory(t)
  <2>1. pc' \in [Threads -> Labels]
    BY <1>0, <1>8, GotoTyped, BeginsTyped, RepliesTyped DEF LookupInMemory
  <2> QED BY <1>8, <2>1 DEF LookupInMemory, history, onTable, inMemory
<1>9. CASE LookupKeep(t)
  <2>1. cache' \in [Containers -> Expiries]
    <3>1. Lesser(at[t] + CacheFor, found[t]) \in Nat /\ [k \in Tokens |-> 0] \in [Tokens -> Nat] /\ tok[t] \in Tokens
      BY DEF Lesser
    <3>2. ASSUME NEW kept \in [Tokens -> Nat],
                 cache' = [cache EXCEPT ![Home[t]] = [kept EXCEPT ![tok[t]] = Lesser(at[t] + CacheFor, found[t])]]
          PROVE  cache' \in [Containers -> Expiries]
      BY <3>1, <3>2
    <3>3. cache' = cache \/ \E kept \in [Tokens -> Nat] :
             cache' = [cache EXCEPT ![Home[t]] = [kept EXCEPT ![tok[t]] = Lesser(at[t] + CacheFor, found[t])]]
      <4>1. cache[Home[t]] \in [Tokens -> Nat]
        OBVIOUS
      <4> QED BY <1>9, <3>1, <4>1 DEF LookupKeep
    <3> QED BY <3>2, <3>3
  <2>2. answer' \in [Threads -> {"none", "yes", "no"}] /\ pc' \in [Threads -> Labels]
    <3>1. Replies(t, TRUE) \/ Replies(t, FALSE)
      BY <1>9 DEF LookupKeep
    <3> QED BY <3>1, RepliesTyped
  <2>3. found' \in [Threads -> Nat]
    BY <1>9 DEF LookupKeep
  <2> QED BY <1>9, <2>1, <2>2, <2>3 DEF LookupKeep, history, onTable
<1>10. CASE RevokeOnTable(t)
  <2>1. pc' \in [Threads -> Labels]
    BY <1>0, <1>10, GotoTyped, BeginsTyped, RepliesTyped DEF RevokeOnTable
  <2>2. item' \in Expiries /\ revokedAt' \in Expiries
    <3>1. item' = item \/ item' = [item EXCEPT ![tok[t]] = 0]
      BY <1>10 DEF RevokeOnTable
    <3>2. revokedAt' = revokedAt \/ revokedAt' = [revokedAt EXCEPT ![tok[t]] = IF @ = 0 THEN now ELSE @]
      BY <1>10 DEF RevokeOnTable
    <3>3. item' \in Expiries
      BY <3>1
    <3>4. revokedAt' \in Expiries
      BY <3>2
    <3> QED BY <3>3, <3>4
  <2> QED BY <1>10, <2>1, <2>2 DEF RevokeOnTable, inMemory
<1> QED BY <1>1, <1>2, <1>3, <1>4, <1>5, <1>6, <1>7, <1>8, <1>9, <1>10 DEF Serve

LEMMA OtherTyped ==
  ASSUME ConstantsFit, Typed, \/ Tick \/ RemoveKey \/ vars' = vars \/ \E c \in Containers : Recycle(c)
  PROVE  Typed'
<1> USE Constants DEF Typed, Expiries
<1>1. CASE Tick
  BY <1>1 DEF Tick, onTable, inMemory, thread, history
<1>2. CASE RemoveKey
  BY <1>2 DEF RemoveKey, onTable, inMemory, thread, history
<1>3. CASE vars' = vars
  BY <1>3 DEF vars, onTable, inMemory, thread, history
<1>4. CASE \E c \in Containers : Recycle(c)
  <2>1. PICK c \in Containers : Recycle(c)  BY <1>4
  <2>2. codeMem' \in [Containers -> Nat] /\ itemMem' \in [Containers -> Expiries] /\ cache' \in [Containers -> Expiries]
    BY <2>1 DEF Recycle
  <2>3. pc' \in [Threads -> Labels] /\ answer' \in [Threads -> {"none", "yes", "no"}]
    BY <2>1 DEF Recycle, Labels
  <2>4. at' \in [Threads -> Nat] /\ found' \in [Threads -> Nat]
    BY <2>1 DEF Recycle
  <2> QED BY <2>1, <2>2, <2>3, <2>4 DEF Recycle, onTable, history
<1> QED BY <1>1, <1>2, <1>3, <1>4

-----------------------------------------------------------------------------
(* The right to open a session.                                            *)
LEMMA OneRightAtFirst == ASSUME Init PROVE OneRight
  BY DEF Init, OneRight, Unminted, Stored, Kept, Taken, UsedUp, NotTaken, Unused

(* A step that moves no right keeps it in one place.                       *)
LEMMA RightsStay ==
  ASSUME OneRight, minted' = minted, code' = code, issued' = issued,
         \A c \in Containers : codeMem'[c] \in {codeMem[c], 0},
         \A t \in Threads : pc'[t] = "open" => pc[t] = "open"
  PROVE  OneRight'
<1> USE DEF OneRight, NotTaken, Unused
<1>1. Unminted'  BY DEF Unminted
<1>2. Stored'    BY DEF Stored
<1>3. Kept'      BY DEF Kept
<1>4. Taken'     BY DEF Taken
<1>5. UsedUp'    BY DEF UsedUp
<1> QED BY <1>1, <1>2, <1>3, <1>4, <1>5

LEMMA MintRight ==
  ASSUME ConstantsFit, Typed, OneRight, NEW t \in Threads, MintCode(t) PROVE OneRight'
<1> USE DEF OneRight, NotTaken, Unused
<1>1. /\ minted' /\ pc' = pc /\ issued' = issued /\ code = 0 /\ NotTaken /\ Unused
      /\ \A c \in Containers : codeMem[c] = 0
  BY DEF MintCode, history, Unminted
<1>2. PutCode(t, now + CodeFor)
  BY DEF MintCode
<1>3. \/ codeMem' = codeMem
      \/ code' = 0 /\ codeMem' = [codeMem EXCEPT ![Home[t]] = now + CodeFor]
  BY <1>1, <1>2 DEF PutCode
<1>4. \A c, d \in Containers : codeMem'[c] > 0 => code' = 0 /\ (d # c => codeMem'[d] = 0)
  BY <1>1, <1>3 DEF Typed
<1>5. code' > 0 => \A c \in Containers : codeMem'[c] = 0
  <2>1. CASE codeMem' = codeMem  BY <1>1, <2>1
  <2>2. CASE code' = 0           BY <2>2
  <2> QED BY <1>3, <2>1, <2>2
<1>6. Unminted'  BY <1>1 DEF Unminted
<1>7. Stored'    BY <1>1, <1>5 DEF Stored
<1>8. Kept'      BY <1>1, <1>4 DEF Kept
<1>9. Taken'     BY <1>1 DEF Taken
<1>10. UsedUp'   BY <1>1 DEF UsedUp
<1> QED BY <1>6, <1>7, <1>8, <1>9, <1>10

(* The thread whose delete went through is the only one that may go on.    *)
LEMMA TableRight ==
  ASSUME ConstantsFit, Typed, OneRight, NEW t \in Threads, ConsumeOnTable(t) PROVE OneRight'
<1> USE DEF OneRight, NotTaken, Unused
<1>1. minted' = minted /\ issued' = issued /\ codeMem' = codeMem /\ minted
  BY DEF ConsumeOnTable, inMemory, history
<1>2. CASE code' = code /\ \A s \in Threads : pc'[s] = "open" => pc[s] = "open"
  BY <1>1, <1>2, RightsStay
<1>3. CASE code > now /\ code' = 0 /\ \A s \in Threads : s # t => pc'[s] = pc[s]
  <2>1. code > 0 /\ NotTaken /\ Unused /\ \A c \in Containers : codeMem[c] = 0
    BY <1>3 DEF Stored, Typed
  <2>2. Unminted'  BY <1>1 DEF Unminted
  <2>3. Stored'    BY <1>3 DEF Stored
  <2>4. Kept'      BY <1>1, <2>1 DEF Kept
  <2>5. Taken'     BY <1>1, <1>3, <2>1 DEF Taken
  <2>6. UsedUp'    BY <1>1 DEF UsedUp
  <2> QED BY <2>2, <2>3, <2>4, <2>5, <2>6
<1>4. \/ code' = code /\ \A s \in Threads : pc'[s] = "open" => pc[s] = "open"
      \/ code > now /\ code' = 0 /\ \A s \in Threads : s # t => pc'[s] = pc[s]
  BY DEF ConsumeOnTable, Goto, Typed
<1> QED BY <1>2, <1>3, <1>4

LEMMA MemoryRight ==
  ASSUME ConstantsFit, Typed, OneRight, NEW t \in Threads, ConsumeInMemory(t) PROVE OneRight'
<1> USE Constants DEF OneRight, NotTaken, Unused
<1> DEFINE h == Home[t]
<1>1. minted' = minted /\ issued' = issued /\ code' = code /\ codeMem' = [codeMem EXCEPT ![h] = 0]
  BY DEF ConsumeInMemory, onTable, history
<1>2. h \in Containers /\ \A c \in Containers : codeMem'[c] \in {codeMem[c], 0} /\ codeMem'[h] = 0
  BY <1>1 DEF Typed
<1>3. \A s \in Threads : s # t => pc'[s] = pc[s]
  BY DEF ConsumeInMemory, Goto, Typed
<1>4. CASE codeMem[h] > at[t]
  <2>1. codeMem[h] > 0 /\ NotTaken /\ Unused /\ \A c \in Containers : c # h => codeMem[c] = 0
    BY <1>2, <1>4 DEF Kept, Typed
  <2>2. minted /\ code = 0
    BY <1>2, <2>1 DEF Unminted, Stored, Typed
  <2>3. \A c \in Containers : codeMem'[c] = 0
    BY <1>2, <2>1
  <2>4. Unminted'  BY <1>1, <2>2 DEF Unminted
  <2>5. Stored'    BY <1>1, <2>2 DEF Stored
  <2>6. Kept'      BY <2>3 DEF Kept
  <2>7. Taken'     BY <1>1, <1>3, <2>1 DEF Taken
  <2>8. UsedUp'    BY <1>1 DEF UsedUp
  <2> QED BY <2>4, <2>5, <2>6, <2>7, <2>8
<1>5. CASE ~(codeMem[h] > at[t])
  <2>1. pc'[t] = "idle"
    BY <1>5 DEF ConsumeInMemory, Goto, Typed
  <2> QED BY <1>1, <1>2, <1>3, <2>1, RightsStay
<1> QED BY <1>4, <1>5

LEMMA OpenRight ==
  ASSUME ConstantsFit, Typed, OneRight, NEW t \in Threads, OpenSession(t) PROVE OneRight'
<1> USE Constants DEF OneRight, NotTaken, Unused
<1>1. PICK k \in Tokens : issued' = [issued EXCEPT ![k] = now + SessionFor]
  BY DEF OpenSession
<1>2. /\ minted' = minted /\ code' = code /\ codeMem' = codeMem /\ pc[t] = "open"
      /\ \A s \in Threads : pc'[s] = IF s = t THEN "idle" ELSE pc[s]
  BY DEF OpenSession, Goto, At, Typed
<1>3. /\ Unused /\ minted /\ code = 0 /\ \A c \in Containers : codeMem[c] = 0
      /\ \A s \in Threads : s # t => pc[s] # "open"
  BY <1>2 DEF Taken, Unminted, Stored, Kept, Typed
<1>4. \A j \in Tokens : j # k => issued'[j] = 0
  BY <1>1, <1>3 DEF Typed, Expiries
<1>5. NotTaken'
  BY <1>2, <1>3
<1>6. Unminted'  BY <1>2, <1>3 DEF Unminted
<1>7. Stored'    BY <1>2, <1>3 DEF Stored
<1>8. Kept'      BY <1>2, <1>3 DEF Kept
<1>9. Taken'     BY <1>5 DEF Taken
<1>10. UsedUp'   BY <1>4 DEF UsedUp
<1> QED BY <1>6, <1>7, <1>8, <1>9, <1>10

LEMMA RightKept ==
  ASSUME ConstantsFit, Typed, OneRight, [Next]_vars PROVE OneRight'
<1>1. CASE \E t \in Threads : MintCode(t) \/ ConsumeOnTable(t) \/ ConsumeInMemory(t) \/ OpenSession(t)
  BY <1>1, MintRight, TableRight, MemoryRight, OpenRight
<1>2. ASSUME NEW t \in Threads, NEW k \in Tokens, LookupInCache(t, k) \/ RevokeHere(t, k) PROVE OneRight'
  <2>1. minted' = minted /\ code' = code /\ issued' = issued /\ codeMem' = codeMem
    BY <1>2 DEF LookupInCache, RevokeHere, onTable, history
  <2>2. \E label \in {"idle", "lookup_table", "revoke_table"} : pc' = [pc EXCEPT ![t] = label]
    BY <1>2 DEF LookupInCache, RevokeHere, Replies, Goto
  <2>3. \A s \in Threads : pc'[s] = "open" => pc[s] = "open"
    BY <2>2 DEF Typed
  <2> QED BY <2>1, <2>3, RightsStay
<1>3. ASSUME NEW t \in Threads, LookupOnTable(t) \/ LookupInMemory(t) \/ LookupKeep(t) \/ RevokeOnTable(t) PROVE OneRight'
  <2>1. minted' = minted /\ code' = code /\ issued' = issued /\ codeMem' = codeMem
    BY <1>3 DEF LookupOnTable, LookupInMemory, LookupKeep, RevokeOnTable, onTable, inMemory, history
  <2>2. \E label \in {"idle", "lookup_memory", "lookup_keep"} : pc' = [pc EXCEPT ![t] = label]
    BY <1>3 DEF LookupOnTable, LookupInMemory, LookupKeep, RevokeOnTable, Replies, Goto
  <2>3. \A s \in Threads : pc'[s] = "open" => pc[s] = "open"
    BY <2>2 DEF Typed
  <2> QED BY <2>1, <2>3, RightsStay
<1>4. CASE Tick \/ RemoveKey \/ vars' = vars
  <2>1. minted' = minted /\ code' = code /\ issued' = issued /\ codeMem' = codeMem /\ pc' = pc
    BY <1>4 DEF Tick, RemoveKey, vars, onTable, inMemory, thread, history
  <2> QED BY <2>1, RightsStay
<1>5. ASSUME NEW c \in Containers, Recycle(c) PROVE OneRight'
  <2>1. minted' = minted /\ code' = code /\ issued' = issued
    BY <1>5 DEF Recycle, onTable, history
  <2>2. \A d \in Containers : codeMem'[d] \in {codeMem[d], 0}
    BY <1>5 DEF Recycle, Typed
  <2>3. \A s \in Threads : pc'[s] = "open" => pc[s] = "open"
    BY <1>5 DEF Recycle
  <2> QED BY <2>1, <2>2, <2>3, RightsStay
<1> QED BY <1>1, <1>2, <1>3, <1>4, <1>5 DEF Next, Serve

-----------------------------------------------------------------------------
(* What is remembered of a token ends in time.                             *)
Busy == {"lookup_table", "lookup_memory", "lookup_keep", "revoke_table"}

(* The thread goes no further with a token, nor answers, in this step.     *)
Quiet(t) ==
  /\ at'[t] <= now'
  /\ pc'[t] \in Busy => pc'[t] = pc[t] /\ tok'[t] = tok[t] /\ at'[t] = at[t] /\ found'[t] = found[t]
  /\ answer'[t] = "yes" => answer[t] = "yes" /\ tok'[t] = tok[t] /\ at'[t] = at[t]

LEMMA InTimeAtFirst == ASSUME ConstantsFit, Init PROVE InTime
<1> USE Constants DEF Init, Nowhere
<1>1. ASSUME NEW c \in Containers, NEW k \in Tokens PROVE Held(c, k) /\ Trusted(c, k)
  BY <1>1 DEF Held, Trusted
<1>2. ASSUME NEW t \in Threads PROVE Looking(t) /\ Honest(t)
  BY <1>2 DEF Looking, Honest
<1> QED BY <1>1, <1>2 DEF InTime

(* Whatever was reached in time was so earlier.                            *)
LEMMA ReachedBefore ==
  ASSUME Typed, NEW c \in Containers, NEW k \in Tokens, NEW time \in Int, NEW earlier \in Int,
         earlier <= time, Reached(c, k, time)
  PROVE  Reached(c, k, earlier)
  BY DEF Reached, Typed, Expiries

(* A quiet thread stays in time when nothing stored changes.               *)
LEMMA QuietInTime ==
  ASSUME ConstantsFit, Typed, InTime, NEW t \in Threads, Quiet(t),
         UNCHANGED <<itemMem, issued, revokedAt, droppedAt>>
  PROVE  Looking(t)' /\ Honest(t)'
<1>1. Looking(t) /\ Honest(t)
  BY DEF InTime
<1>2. Looking(t)'
  BY <1>1 DEF Looking, Quiet, Busy, Reached
<1>3. Honest(t)'
  BY <1>1 DEF Honest, Quiet, Reached
<1> QED BY <1>2, <1>3

LEMMA QuietStep ==
  ASSUME ConstantsFit, Typed, Typed', InTime, \A t \in Threads : Quiet(t), now' >= now,
         UNCHANGED <<item, itemMem, cache, issued, revokedAt, droppedAt>>
  PROVE  InTime'
<1>1. ASSUME NEW c \in Containers, NEW k \in Tokens PROVE Held(c, k)' /\ Trusted(c, k)'
  <2>1. Held(c, k) /\ Trusted(c, k)
    BY DEF InTime
  <2>2. Held(c, k)'
    BY <2>1, Constants DEF Held, Typed, Expiries
  <2>3. Trusted(c, k)'
    BY <2>1, Constants DEF Trusted, Reached, Typed, Expiries
  <2> QED BY <2>2, <2>3
<1> QED BY <1>1, QuietInTime DEF InTime

(* Exchanges of the code, the clock and the operator.                      *)
LEMMA ExchangeInTime ==
  ASSUME ConstantsFit, Typed, Typed', InTime,
         \/ Tick \/ RemoveKey \/ vars' = vars
         \/ \E t \in Threads : MintCode(t) \/ ConsumeOnTable(t) \/ ConsumeInMemory(t)
  PROVE  InTime'
<1>1. now' >= now /\ UNCHANGED <<item, itemMem, cache, issued, revokedAt, droppedAt, tok, found>>
  BY DEF Tick, RemoveKey, vars, MintCode, ConsumeOnTable, ConsumeInMemory, onTable, inMemory, thread, history, Typed
<1>2. \A t \in Threads : at[t] <= now
  BY DEF InTime, Looking
<1>3. CASE Tick \/ RemoveKey \/ vars' = vars
  <2>1. \A t \in Threads : Quiet(t)
    BY <1>1, <1>2, <1>3 DEF Tick, RemoveKey, vars, thread, Quiet, Typed
  <2> QED BY <1>1, <2>1, QuietStep
<1>4. ASSUME NEW t \in Threads, MintCode(t) \/ ConsumeOnTable(t) PROVE InTime'
  <2>1. now' = now /\ \E time \in {0, now} : Begins(t, time)
    BY <1>4 DEF MintCode, ConsumeOnTable
  <2>2. \A s \in Threads : pc'[s] \in Busy => pc'[s] = pc[s]
    BY <1>4 DEF MintCode, ConsumeOnTable, Goto, Typed, Busy
  <2>3. \A s \in Threads : pc'[s] \in Busy => s # t
    BY <1>4 DEF MintCode, ConsumeOnTable, Goto, At, Typed, Busy
  <2>4. \A s \in Threads : s # t => at'[s] = at[s] /\ answer'[s] = answer[s]
    BY <2>1 DEF Begins, Typed
  <2>5. answer'[t] = "none" /\ at'[t] <= now
    BY <2>1 DEF Begins, Typed
  <2>6. \A s \in Threads : Quiet(s)
    BY <1>1, <1>2, <2>1, <2>2, <2>3, <2>4, <2>5 DEF Quiet
  <2> QED BY <1>1, <2>6, QuietStep
<1>5. ASSUME NEW t \in Threads, ConsumeInMemory(t) PROVE InTime'
  <2>1. now' = now /\ at' = at /\ answer' = answer
    BY <1>5 DEF ConsumeInMemory
  <2>2. \A s \in Threads : pc'[s] \in Busy => pc'[s] = pc[s]
    BY <1>5 DEF ConsumeInMemory, Goto, Typed, Busy
  <2>3. \A s \in Threads : Quiet(s)
    BY <1>1, <1>2, <2>1, <2>2 DEF Quiet
  <2> QED BY <1>1, <2>3, QuietStep
<1> QED BY <1>3, <1>4, <1>5

(* A token nobody held is issued.                                          *)
LEMMA OpenInTime ==
  ASSUME ConstantsFit, Typed, Typed', InTime, NEW t \in Threads, OpenSession(t) PROVE InTime'
<1> USE Constants
<1>1. PICK k \in Tokens : /\ issued[k] = 0 /\ PutToken(t, k, now + SessionFor)
                          /\ issued' = [issued EXCEPT ![k] = now + SessionFor]
  BY DEF OpenSession
<1>2. /\ issued'[k] = now + SessionFor /\ item'[k] \in {item[k], issued'[k]}
      /\ \A c \in Containers : itemMem'[c][k] \in {itemMem[c][k], issued'[k]}
      /\ \A j \in Tokens : j # k => /\ issued'[j] = issued[j] /\ item'[j] = item[j]
                                   /\ \A c \in Containers : itemMem'[c][j] = itemMem[c][j]
  <2>1. issued'[k] = now + SessionFor /\ \A j \in Tokens : j # k => issued'[j] = issued[j]
    BY <1>1 DEF Typed, Expiries
  <2>2. CASE item' = [item EXCEPT ![k] = now + SessionFor] /\ UNCHANGED itemMem
    BY <2>1, <2>2 DEF Typed, Expiries
  <2>3. CASE itemMem' = [itemMem EXCEPT ![Home[t]][k] = now + SessionFor] /\ UNCHANGED item
    BY <2>1, <2>3 DEF Typed, Expiries
  <2> QED BY <1>1, <2>2, <2>3 DEF PutToken
<1>3. UNCHANGED <<now, revokedAt, droppedAt, cache, tok, at, found, answer>>
  BY DEF OpenSession
<1>4. \A s \in Threads : pc'[s] \in Busy => pc'[s] = pc[s]
  BY DEF OpenSession, Goto, Busy, Typed
<1>5. revokedAt[k] = 0 /\ item[k] = 0 /\ \A c \in Containers : itemMem[c][k] = 0 /\ cache[c][k] = 0
  <2>1. ASSUME NEW c \in Containers PROVE revokedAt[k] = 0 /\ item[k] = 0 /\ itemMem[c][k] = 0 /\ cache[c][k] = 0
    <3>1. Held(c, k) /\ Trusted(c, k)  BY DEF InTime
    <3> QED BY <1>1, <3>1 DEF Held, Trusted, Typed, Expiries
  <2>2. Home[t] \in Containers
    OBVIOUS
  <2> QED BY <2>1, <2>2
<1>6. ASSUME NEW c \in Containers, NEW j \in Tokens PROVE Held(c, j)' /\ Trusted(c, j)'
  <2>1. Held(c, j) /\ Trusted(c, j)  BY DEF InTime
  <2>2. CASE j = k
    BY <1>2, <1>3, <1>5, <2>1, <2>2 DEF Held, Trusted, Typed, Expiries
  <2>3. CASE j # k
    BY <1>2, <1>3, <2>1, <2>3 DEF Held, Trusted, Reached
  <2> QED BY <2>2, <2>3
<1>7. ASSUME NEW s \in Threads PROVE Looking(s)' /\ Honest(s)'
  <2>1. Looking(s) /\ Honest(s) /\ tok[s] \in Tokens /\ Home[s] \in Containers /\ at[s] \in Nat
    BY DEF InTime, Typed
  <2>2. Looking(s)'
    BY <1>1, <1>2, <1>3, <1>4, <2>1 DEF Looking, Reached, Busy
  <2>3. Honest(s)'
    BY <1>1, <1>2, <1>3, <2>1 DEF Honest, Reached
  <2> QED BY <2>2, <2>3
<1> QED BY <1>6, <1>7 DEF InTime

(* The other threads when thread t alone moves and no record is touched.   *)
LEMMA OthersInTime ==
  ASSUME ConstantsFit, Typed, InTime, NEW t \in Threads, now' = now,
         \A s \in Threads : s # t => /\ pc'[s] = pc[s] /\ tok'[s] = tok[s] /\ at'[s] = at[s]
                                    /\ found'[s] = found[s] /\ answer'[s] = answer[s],
         UNCHANGED <<itemMem, issued, revokedAt, droppedAt>>,
         NEW s \in Threads, s # t
  PROVE  Looking(s)' /\ Honest(s)'
<1>1. Quiet(s)
  BY DEF Quiet, InTime, Looking
<1> QED BY <1>1, QuietInTime

(* A lookup begins: it is answered from the cache, or drops the entry.     *)
LEMMA CacheInTime ==
  ASSUME ConstantsFit, Typed, Typed', InTime, NEW t \in Threads, NEW k \in Tokens, LookupInCache(t, k)
  PROVE  InTime'
<1> USE Constants
<1> DEFINE h == Home[t]
<1>0. h \in Containers /\ issued[k] > 0 /\ now \in Nat
  BY DEF LookupInCache, Typed
<1>1. UNCHANGED <<now, item, itemMem, issued, revokedAt, droppedAt, found>>
  BY DEF LookupInCache, onTable, history
<1>2. tok' = [tok EXCEPT ![t] = k] /\ (cache' = cache \/ cache' = [cache EXCEPT ![h][k] = 0])
  BY DEF LookupInCache
<1>3. \A c \in Containers, j \in Tokens : cache'[c][j] \in {cache[c][j], 0}
  <2>1. CASE cache' = cache
    BY <2>1
  <2>2. CASE cache' = [cache EXCEPT ![h][k] = 0]
    BY <1>0, <2>2 DEF Typed, Expiries
  <2> QED BY <1>2, <2>1, <2>2
<1>4. ASSUME NEW c \in Containers, NEW j \in Tokens PROVE Held(c, j)' /\ Trusted(c, j)'
  <2>1. Held(c, j) /\ Trusted(c, j) /\ cache'[c][j] \in {cache[c][j], 0}
    BY <1>3 DEF InTime
  <2>2. Held(c, j)'
    BY <1>1, <2>1 DEF Held
  <2>3. Trusted(c, j)'
    BY <1>1, <2>1 DEF Trusted, Reached, Typed, Expiries
  <2> QED BY <2>2, <2>3
<1>5. CASE now < cache[h][k]
  <2>1. Replies(t, TRUE) /\ at' = [at EXCEPT ![t] = now]
    BY <1>5 DEF LookupInCache
  <2>2. pc'[t] = "idle" /\ at'[t] = now /\ tok'[t] = k
    BY <1>2, <2>1 DEF Replies, Goto, Typed
  <2>3. \A s \in Threads : s # t => pc'[s] = pc[s] /\ tok'[s] = tok[s] /\ at'[s] = at[s] /\ answer'[s] = answer[s]
    BY <1>2, <2>1 DEF Replies, Goto, Typed
  <2>4. Trusted(h, k) /\ cache[h][k] \in Nat /\ issued[k] \in Nat
    BY <1>0 DEF InTime, Typed, Expiries
  <2>5. now < issued[k] /\ Reached(h, k, cache[h][k] - CacheFor)
    BY <1>0, <1>5, <2>4 DEF Trusted
  <2>6. Reached(h, k, now + 1 - CacheFor)
    <3>1. now + 1 - CacheFor \in Int /\ cache[h][k] - CacheFor \in Int /\ now + 1 - CacheFor <= cache[h][k] - CacheFor
      BY <1>0, <1>5, <2>4
    <3> QED BY <1>0, <2>5, <3>1, ReachedBefore
  <2>7. Looking(t)' /\ Honest(t)'
    BY <1>0, <1>1, <2>2, <2>5, <2>6 DEF Looking, Honest, Reached
  <2>8. \A s \in Threads : s # t => Looking(s)' /\ Honest(s)'
    BY <1>1, <2>3, OthersInTime
  <2> QED BY <1>4, <2>7, <2>8 DEF InTime
<1>6. CASE ~(now < cache[h][k])
  <2>1. Goto(t, "lookup_table") /\ Begins(t, now)
    BY <1>6 DEF LookupInCache
  <2>2. pc'[t] = "lookup_table" /\ at'[t] = now /\ tok'[t] = k /\ answer'[t] = "none"
    BY <1>2, <2>1 DEF Begins, Goto, Typed
  <2>3. \A s \in Threads : s # t => pc'[s] = pc[s] /\ tok'[s] = tok[s] /\ at'[s] = at[s] /\ answer'[s] = answer[s]
    BY <1>2, <2>1 DEF Begins, Goto, Typed
  <2>4. Looking(t)' /\ Honest(t)'
    BY <1>0, <1>1, <2>2 DEF Looking, Honest
  <2>5. \A s \in Threads : s # t => Looking(s)' /\ Honest(s)'
    BY <1>1, <2>3, OthersInTime
  <2> QED BY <1>4, <2>4, <2>5 DEF InTime
<1> QED BY <1>5, <1>6

(* What a lookup reads is the item while the session is on: the table has  *)
(* none once a revoke returned True, and a memory that has one is waited   *)
(* for (the exception of EndsInTime).                                      *)
LEMMA ReadInTime ==
  ASSUME ConstantsFit, Typed, Typed', InTime, NEW t \in Threads, LookupOnTable(t) \/ LookupInMemory(t)
  PROVE  InTime'
<1> USE Constants
<1> DEFINE h == Home[t]  k == tok[t]
<1>1. UNCHANGED <<now, item, itemMem, cache, issued, revokedAt, droppedAt, tok, at, answer>>
  BY DEF LookupOnTable, LookupInMemory, onTable, inMemory, history
<1>2. h \in Containers /\ k \in Tokens /\ issued[k] > 0 /\ at[t] <= now /\ Held(h, k)
  BY DEF LookupOnTable, LookupInMemory, At, InTime, Looking, Typed
<1>3. /\ found'[t] \in {0, item[k], itemMem[h][k]}
      /\ \A s \in Threads : s # t => pc'[s] = pc[s] /\ found'[s] = found[s]
  BY DEF LookupOnTable, LookupInMemory, Goto, Typed
<1>4. pc'[t] \in {"lookup_memory", "lookup_keep"}
  BY DEF LookupOnTable, LookupInMemory, Goto, Typed
<1>5. found'[t] \in {0, issued[k]}
  BY <1>2, <1>3 DEF Held
<1>6. found'[t] = 0 \/ Reached(h, k, at[t])
  BY <1>2, <1>3 DEF Held, Reached, Typed, Expiries
<1>7. Looking(t)' /\ Honest(t)'
  <2>1. Honest(t)
    BY DEF InTime
  <2>2. Honest(t)'
    BY <1>1, <2>1 DEF Honest, Reached
  <2>3. Looking(t)'
    BY <1>1, <1>2, <1>4, <1>5, <1>6 DEF Looking, Reached
  <2> QED BY <2>2, <2>3
<1>8. \A s \in Threads : s # t => Looking(s)' /\ Honest(s)'
  BY <1>1, <1>3, OthersInTime
<1>9. \A c \in Containers, j \in Tokens : Held(c, j)' /\ Trusted(c, j)'
  BY <1>1 DEF InTime, Held, Trusted, Reached
<1> QED BY <1>7, <1>8, <1>9 DEF InTime

(* A live record is kept from the time the lookup began, and answered.     *)
LEMMA KeepInTime ==
  ASSUME ConstantsFit, Typed, Typed', InTime, NEW t \in Threads, LookupKeep(t)
  PROVE  InTime'
<1> USE Constants
<1> DEFINE h == Home[t]  k == tok[t]  until == Lesser(at[t] + CacheFor, found[t])
<1>1. UNCHANGED <<now, item, itemMem, issued, revokedAt, droppedAt, tok, at>>
  BY DEF LookupKeep, onTable, history
<1>2. /\ h \in Containers /\ k \in Tokens /\ issued[k] \in Nat /\ at[t] \in Nat /\ found[t] \in Nat
      /\ at[t] <= now /\ now \in Nat /\ found[t] \in {0, issued[k]}
      /\ found[t] = 0 \/ Reached(h, k, at[t])
  BY DEF LookupKeep, At, InTime, Looking, Typed, Expiries
<1>3. until \in Nat /\ until <= at[t] + CacheFor /\ until <= found[t]
  BY <1>2 DEF Lesser
<1>4. pc'[t] = "idle" /\ (answer'[t] = "yes" => found[t] > at[t])
  BY DEF LookupKeep, Replies, Goto, Typed
<1>5. \A s \in Threads : s # t => pc'[s] = pc[s] /\ found'[s] = found[s] /\ answer'[s] = answer[s]
  BY DEF LookupKeep, Replies, Goto, Typed
<1>6. CASE ~(found[t] > at[t])
  <2>1. cache' = cache
    BY <1>6 DEF LookupKeep
  <2>2. \A c \in Containers, j \in Tokens : Held(c, j)' /\ Trusted(c, j)'
    BY <1>1, <2>1 DEF InTime, Held, Trusted, Reached
  <2>3. Looking(t)' /\ Honest(t)'
    BY <1>1, <1>2, <1>4, <1>6 DEF Looking, Honest
  <2>4. \A s \in Threads : s # t => Looking(s)' /\ Honest(s)'
    BY <1>1, <1>5, OthersInTime
  <2> QED BY <2>2, <2>3, <2>4 DEF InTime
<1>7. CASE found[t] > at[t]
  <2>1. Reached(h, k, at[t]) /\ found[t] = issued[k]
    BY <1>2, <1>7
  <2>2. \E kept \in Expiries : /\ \A j \in Tokens : kept[j] \in {0, cache[h][j]}
                               /\ cache' = [cache EXCEPT ![h] = [kept EXCEPT ![k] = until]]
    <3>1. [j \in Tokens |-> 0] \in Expiries /\ cache[h] \in Expiries
      BY <1>2 DEF Expiries, Typed
    <3>2. \/ cache' = [cache EXCEPT ![h] = [[j \in Tokens |-> 0] EXCEPT ![k] = until]]
          \/ cache' = [cache EXCEPT ![h] = [cache[h] EXCEPT ![k] = until]]
      BY <1>7 DEF LookupKeep
    <3>3. CASE cache' = [cache EXCEPT ![h] = [[j \in Tokens |-> 0] EXCEPT ![k] = until]]
      <4>1. \A j \in Tokens : [i \in Tokens |-> 0][j] \in {0, cache[h][j]}
        OBVIOUS
      <4> QED BY <3>1, <3>3, <4>1
    <3>4. CASE cache' = [cache EXCEPT ![h] = [cache[h] EXCEPT ![k] = until]]
      <4>1. \A j \in Tokens : cache[h][j] \in {0, cache[h][j]}
        OBVIOUS
      <4> QED BY <3>1, <3>4, <4>1
    <3> QED BY <3>2, <3>3, <3>4
  <2>3. /\ cache'[h][k] = until
        /\ \A c \in Containers, j \in Tokens : <<c, j>> # <<h, k>> => cache'[c][j] \in {0, cache[c][j]}
    BY <1>2, <2>2 DEF Typed, Expiries
  <2>4. Reached(h, k, until - CacheFor) /\ Reached(h, k, at[t] + 1 - CacheFor)
    <3>1. /\ until - CacheFor \in Int /\ until - CacheFor <= at[t]
          /\ at[t] + 1 - CacheFor \in Int /\ at[t] + 1 - CacheFor <= at[t]
      BY <1>2, <1>3
    <3> QED BY <1>2, <2>1, <3>1, ReachedBefore
  <2>5. ASSUME NEW c \in Containers, NEW j \in Tokens PROVE Held(c, j)' /\ Trusted(c, j)'
    <3>1. Held(c, j) /\ Trusted(c, j)
      BY DEF InTime
    <3>2. Held(c, j)'
      BY <1>1, <3>1 DEF Held
    <3>3. CASE c = h /\ j = k
      <4> HIDE DEF until
      <4>1. cache'[h][k] = until /\ until <= issued'[k] /\ until <= now' + CacheFor
        BY <1>1, <1>2, <1>3, <2>1, <2>3
      <4>2. revokedAt'[k] > 0 /\ itemMem'[h][k] = 0 => until - CacheFor <= revokedAt'[k] \/ until - CacheFor <= droppedAt'[h][k]
        BY <1>1, <2>4 DEF Reached
      <4>3. /\ cache'[c][j] <= issued'[j] /\ cache'[c][j] <= now' + CacheFor
            /\ revokedAt'[j] > 0 /\ itemMem'[c][j] = 0 =>
                 cache'[c][j] - CacheFor <= revokedAt'[j] \/ cache'[c][j] - CacheFor <= droppedAt'[c][j]
        BY <3>3, <4>1, <4>2
      <4> QED BY <3>2, <4>3 DEF Trusted, Reached
    <3>4. CASE <<c, j>> # <<h, k>>
      <4>1. cache'[c][j] \in {0, cache[c][j]}
        BY <2>3, <3>4
      <4> QED BY <1>1, <3>1, <3>2, <4>1 DEF Trusted, Reached, Typed, Expiries
    <3> QED BY <3>2, <3>3, <3>4
  <2>6. Looking(t)' /\ Honest(t)'
    BY <1>1, <1>2, <1>4, <1>7, <2>1, <2>4 DEF Looking, Honest, Reached
  <2>7. \A s \in Threads : s # t => Looking(s)' /\ Honest(s)'
    BY <1>1, <1>5, OthersInTime
  <2> QED BY <2>5, <2>6, <2>7 DEF InTime
<1> QED BY <1>6, <1>7

(* A revoke drops what its own container holds: what was read of it there  *)
(* was read before.                                                        *)
LEMMA HereInTime ==
  ASSUME ConstantsFit, Typed, Typed', InTime, NEW t \in Threads, NEW k \in Tokens, RevokeHere(t, k)
  PROVE  InTime'
<1> USE Constants
<1> DEFINE h == Home[t]
<1>1. UNCHANGED <<now, item, issued, revokedAt, found>>
  BY DEF RevokeHere, onTable
<1>2. /\ h \in Containers /\ issued[k] > 0 /\ now \in Nat
      /\ \A c \in Containers, j \in Tokens : droppedAt[c][j] <= now /\ droppedAt[c][j] \in Nat
  BY DEF RevokeHere, InTime, Held, Typed, Expiries
<1>3. cache' = [cache EXCEPT ![h][k] = 0] /\ itemMem' = [itemMem EXCEPT ![h][k] = 0]
  BY DEF RevokeHere
<1>4. droppedAt' = IF itemMem[h][k] = 0 THEN droppedAt ELSE [droppedAt EXCEPT ![h][k] = now]
  BY DEF RevokeHere
<1>5. /\ cache'[h][k] = 0 /\ itemMem'[h][k] = 0
      /\ \A c \in Containers, j \in Tokens : <<c, j>> # <<h, k>> => cache'[c][j] = cache[c][j] /\ itemMem'[c][j] = itemMem[c][j]
  BY <1>2, <1>3 DEF Typed, Expiries
<1>6. /\ droppedAt'[h][k] = IF itemMem[h][k] = 0 THEN droppedAt[h][k] ELSE now
      /\ \A c \in Containers, j \in Tokens : <<c, j>> # <<h, k>> => droppedAt'[c][j] = droppedAt[c][j]
  <2>1. CASE itemMem[h][k] = 0
    BY <1>4, <2>1
  <2>2. CASE itemMem[h][k] # 0
    BY <1>2, <1>4, <2>2 DEF Typed, Expiries
  <2> QED BY <2>1, <2>2
<1>7. tok' = [tok EXCEPT ![t] = k] /\ Goto(t, "revoke_table") /\ Begins(t, 0)
  BY DEF RevokeHere
<1>8. pc'[t] = "revoke_table" /\ at'[t] = 0 /\ tok'[t] = k /\ answer'[t] = "none"
  BY <1>7 DEF Begins, Goto, Typed
<1>9. \A s \in Threads : s # t => pc'[s] = pc[s] /\ tok'[s] = tok[s] /\ at'[s] = at[s] /\ answer'[s] = answer[s]
  BY <1>7 DEF Begins, Goto, Typed
<1>10. ASSUME NEW c \in Containers, NEW j \in Tokens PROVE Held(c, j)' /\ Trusted(c, j)'
  <2>1. Held(c, j) /\ Trusted(c, j)
    BY DEF InTime
  <2>2. CASE c = h /\ j = k
    BY <1>1, <1>2, <1>5, <1>6, <2>1, <2>2 DEF Held, Trusted, Typed, Expiries
  <2>3. CASE <<c, j>> # <<h, k>>
    BY <1>1, <1>5, <1>6, <2>1, <2>3 DEF Held, Trusted, Reached
  <2> QED BY <2>2, <2>3
<1>11. ASSUME NEW s \in Threads, s # t PROVE Looking(s)' /\ Honest(s)'
  <2>1. /\ Looking(s) /\ Honest(s) /\ tok[s] \in Tokens /\ Home[s] \in Containers
        /\ at[s] \in Nat /\ at[s] <= now
    BY DEF InTime, Looking, Typed
  <2>2. CASE Home[s] = h /\ tok[s] = k
    <3>1. Looking(s)'
      BY <1>1, <1>2, <1>5, <1>6, <1>9, <1>11, <2>1, <2>2 DEF Looking, Reached
    <3>2. Honest(s)'
      BY <1>1, <1>2, <1>5, <1>6, <1>9, <1>11, <2>1, <2>2 DEF Honest, Reached
    <3> QED BY <3>1, <3>2
  <2>3. CASE <<Home[s], tok[s]>> # <<h, k>>
    <3>1. itemMem'[Home[s]][tok[s]] = itemMem[Home[s]][tok[s]] /\ droppedAt'[Home[s]][tok[s]] = droppedAt[Home[s]][tok[s]]
      BY <1>5, <1>6, <2>1, <2>3
    <3>2. Looking(s)'
      BY <1>1, <1>9, <1>11, <2>1, <3>1 DEF Looking, Reached
    <3>3. Honest(s)'
      BY <1>1, <1>9, <1>11, <2>1, <3>1 DEF Honest, Reached
    <3> QED BY <3>2, <3>3
  <2> QED BY <2>2, <2>3
<1>12. Looking(t)' /\ Honest(t)'
  BY <1>1, <1>2, <1>8 DEF Looking, Honest
<1> QED BY <1>10, <1>11, <1>12 DEF InTime

(* A revoke returns True: what is under way or trusted began before.       *)
LEMMA RevokeInTime ==
  ASSUME ConstantsFit, Typed, Typed', InTime, NEW t \in Threads, RevokeOnTable(t)
  PROVE  InTime'
<1> USE Constants
<1> DEFINE k == tok[t]
<1>1. UNCHANGED <<now, itemMem, cache, issued, droppedAt, tok, at, found, answer>>
  BY DEF RevokeOnTable, inMemory
<1>2. k \in Tokens /\ issued[k] > 0 /\ now \in Nat
  BY DEF RevokeOnTable, At, InTime, Looking, Typed
<1>3. \A s \in Threads : pc'[s] = IF s = t THEN "idle" ELSE pc[s]
  BY DEF RevokeOnTable, Goto, Typed
<1>4. \/ item' = item /\ revokedAt' = revokedAt
      \/ item' = [item EXCEPT ![k] = 0] /\ revokedAt' = [revokedAt EXCEPT ![k] = IF @ = 0 THEN now ELSE @]
  BY DEF RevokeOnTable
<1>5. \A j \in Tokens : \/ item'[j] = item[j] /\ revokedAt'[j] = revokedAt[j]
                       \/ /\ j = k /\ item'[j] = 0
                          /\ revokedAt'[j] = IF revokedAt[j] = 0 THEN now ELSE revokedAt[j]
  BY <1>2, <1>4 DEF Typed, Expiries
<1>6. ASSUME NEW c \in Containers, NEW j \in Tokens, NEW time \in Int,
             time <= now, Reached(c, j, time)
      PROVE  revokedAt'[j] > 0 /\ itemMem'[c][j] = 0 => time <= revokedAt'[j] \/ time <= droppedAt'[c][j]
  <2>1. revokedAt[j] \in Nat
    BY DEF Typed, Expiries
  <2> QED BY <1>1, <1>5, <1>6, <2>1 DEF Reached
<1>7. ASSUME NEW c \in Containers, NEW j \in Tokens PROVE Held(c, j)' /\ Trusted(c, j)'
  <2>1. Held(c, j) /\ Trusted(c, j) /\ cache[c][j] \in Nat
    BY DEF InTime, Typed, Expiries
  <2>2. Held(c, j)'
    BY <1>1, <1>2, <1>5, <2>1 DEF Held
  <2>3. Trusted(c, j)'
    <3>1. cache[c][j] - CacheFor \in Int /\ cache[c][j] - CacheFor <= now
      BY <1>2, <2>1 DEF Trusted
    <3>2. cache[c][j] = 0 \/ (revokedAt'[j] > 0 /\ itemMem'[c][j] = 0 =>
             cache[c][j] - CacheFor <= revokedAt'[j] \/ cache[c][j] - CacheFor <= droppedAt'[c][j])
      BY <1>6, <2>1, <3>1 DEF Trusted
    <3> QED BY <1>1, <2>1, <3>2 DEF Trusted, Reached
  <2> QED BY <2>2, <2>3
<1>8. ASSUME NEW s \in Threads PROVE Looking(s)' /\ Honest(s)'
  <2>1. /\ Looking(s) /\ Honest(s) /\ tok[s] \in Tokens /\ Home[s] \in Containers
        /\ at[s] \in Int /\ at[s] <= now /\ at[s] + 1 - CacheFor \in Int /\ at[s] + 1 - CacheFor <= now
    BY <1>2 DEF InTime, Looking, Typed
  <2>2. Looking(s)'
    BY <1>1, <1>3, <1>6, <2>1 DEF Looking, Reached
  <2>3. Honest(s)'
    BY <1>1, <1>6, <2>1 DEF Honest, Reached
  <2> QED BY <2>2, <2>3
<1> QED BY <1>7, <1>8 DEF InTime

(* A recycled container remembers nothing and answers nobody.              *)
LEMMA RecycleInTime ==
  ASSUME ConstantsFit, Typed, Typed', InTime, NEW c \in Containers, Recycle(c)
  PROVE  InTime'
<1> USE Constants
<1>1. UNCHANGED <<now, item, issued, revokedAt, droppedAt, tok>>
  BY DEF Recycle, onTable, history
<1>2. \A j \in Tokens : /\ itemMem'[c][j] = 0 /\ cache'[c][j] = 0
                       /\ \A d \in Containers : d # c => itemMem'[d][j] = itemMem[d][j] /\ cache'[d][j] = cache[d][j]
  BY DEF Recycle, Typed, Expiries
<1>3. \A s \in Threads : Home[s] = c => pc'[s] = "idle" /\ answer'[s] = "none" /\ at'[s] = 0
  BY DEF Recycle
<1>4. \A s \in Threads : Home[s] # c => pc'[s] = pc[s] /\ answer'[s] = answer[s] /\ at'[s] = at[s] /\ found'[s] = found[s]
  BY DEF Recycle
<1>5. ASSUME NEW d \in Containers, NEW j \in Tokens PROVE Held(d, j)' /\ Trusted(d, j)'
  <2>1. Held(d, j) /\ Trusted(d, j) /\ now \in Nat /\ issued[j] \in Nat
    BY DEF InTime, Typed, Expiries
  <2>2. CASE d = c
    BY <1>1, <1>2, <2>1, <2>2 DEF Held, Trusted
  <2>3. CASE d # c
    BY <1>1, <1>2, <2>1, <2>3 DEF Held, Trusted, Reached
  <2> QED BY <2>2, <2>3
<1>6. ASSUME NEW s \in Threads PROVE Looking(s)' /\ Honest(s)'
  <2>1. Looking(s) /\ Honest(s) /\ tok[s] \in Tokens /\ Home[s] \in Containers /\ now \in Nat
    BY DEF InTime, Typed
  <2>2. CASE Home[s] = c
    BY <1>1, <1>3, <2>1, <2>2 DEF Looking, Honest
  <2>3. CASE Home[s] # c
    <3>1. itemMem'[Home[s]][tok[s]] = itemMem[Home[s]][tok[s]]
      BY <1>2, <2>1, <2>3
    <3>2. Looking(s)'
      BY <1>1, <1>4, <2>1, <2>3, <3>1 DEF Looking, Reached
    <3>3. Honest(s)'
      BY <1>1, <1>4, <2>1, <2>3, <3>1 DEF Honest, Reached
    <3> QED BY <3>2, <3>3
  <2> QED BY <2>2, <2>3
<1> QED BY <1>5, <1>6 DEF InTime

-----------------------------------------------------------------------------
(* The three parts of the invariant are kept by every step.                *)
THEOREM SignInInvariant == ASSUME ConstantsFit PROVE Spec => []IInv
<1>1. Init => IInv
  BY TypedAtFirst, OneRightAtFirst, InTimeAtFirst DEF IInv
<1>2. IInv /\ [Next]_vars => IInv'
  <2> SUFFICES ASSUME IInv, [Next]_vars PROVE IInv'
    OBVIOUS
  <2>1. Typed /\ OneRight /\ InTime
    BY DEF IInv
  <2>2. Typed'
    BY <2>1, ServeTyped, OtherTyped DEF Next
  <2>3. OneRight'
    BY <2>1, RightKept
  <2>4. InTime'
    <3>1. CASE \/ Tick \/ RemoveKey \/ vars' = vars
               \/ \E t \in Threads : MintCode(t) \/ ConsumeOnTable(t) \/ ConsumeInMemory(t)
      BY <2>1, <2>2, <3>1, ExchangeInTime
    <3>2. CASE \E t \in Threads : \/ OpenSession(t) \/ \E k \in Tokens : LookupInCache(t, k) \/ RevokeHere(t, k)
      BY <2>1, <2>2, <3>2, OpenInTime, CacheInTime, HereInTime
    <3>3. CASE \E t \in Threads : LookupOnTable(t) \/ LookupInMemory(t) \/ LookupKeep(t) \/ RevokeOnTable(t)
      BY <2>1, <2>2, <3>3, ReadInTime, KeepInTime, RevokeInTime
    <3>4. CASE \E c \in Containers : Recycle(c)
      BY <2>1, <2>2, <3>4, RecycleInTime
    <3> QED BY <3>1, <3>2, <3>3, <3>4 DEF Next, Serve
  <2> QED BY <2>2, <2>3, <2>4 DEF IInv
<1> QED BY <1>1, <1>2, PTL DEF Spec

(* A code is exchanged at most once, however the exchanges interleave, in  *)
(* whichever containers they run and whichever calls fail (consume_code).  *)
THEOREM OneSessionPerCode == ASSUME ConstantsFit PROVE Spec => []SingleUse
<1>1. IInv => SingleUse
  <2> SUFFICES ASSUME IInv PROVE SingleUse
    OBVIOUS
  <2> DEFINE used == {k \in Tokens : issued[k] > 0}
  <2>1. \A j, k \in used : j = k
    BY DEF IInv, OneRight, UsedUp
  <2>2. CASE used = {}
    BY <2>2, FS_EmptySet DEF SingleUse
  <2>3. ASSUME NEW k \in used PROVE SingleUse
    <3>1. used = {k}
      BY <2>1
    <3>2. Cardinality({k}) = 1
      BY FS_Singleton
    <3> QED BY <3>1, <3>2 DEF SingleUse
  <2> QED BY <2>2, <2>3
<1> QED BY <1>1, SignInInvariant, PTL

(* A yes was asked for before the session lapsed, and within CacheFor of   *)
(* the revoke that reached the container (AuthStore.session and revoke).   *)
THEOREM SessionsEndInTime == ASSUME ConstantsFit PROVE Spec => []EndsInTime
<1>1. IInv => EndsInTime
  <2> SUFFICES ASSUME IInv, NEW t \in Threads, answer[t] = "yes"
               PROVE  /\ at[t] < issued[tok[t]]
                      /\ revokedAt[tok[t]] > 0 /\ itemMem[Home[t]][tok[t]] = 0 =>
                           \E revoked \in {revokedAt[tok[t]], droppedAt[Home[t]][tok[t]]} : at[t] < revoked + CacheFor
    BY DEF EndsInTime
  <2>1. at[t] < issued[tok[t]] /\ Reached(Home[t], tok[t], at[t] + 1 - CacheFor)
    BY DEF IInv, InTime, Honest
  <2>2. /\ at[t] \in Nat /\ revokedAt[tok[t]] \in Nat /\ droppedAt[Home[t]][tok[t]] \in Nat /\ CacheFor \in Nat
    BY Constants DEF IInv, Typed, Expiries
  <2> QED BY <2>1, <2>2 DEF Reached
<1> QED BY <1>1, SignInInvariant, PTL
=============================================================================
