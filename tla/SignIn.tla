-------------------------------- MODULE SignIn --------------------------------
(***************************************************************************)
(* Signing an operator in and out (infrastructure/auth_store.py and the    *)
(* three routes of interfaces/access_routes.py that use it): a single-use  *)
(* code is exchanged for a session token, tokens are looked up through a   *)
(* cache in each container, and a token is revoked.                        *)
(*                                                                         *)
(* The table, each container's memory and each container's cache hold, for *)
(* the code and for every token, the time it lapses at; 0 is "no item".    *)
(* Several request threads may share a container (the ThreadingHTTPServer  *)
(* of server.py), and the store's lock covers one step at a time.          *)
(***************************************************************************)
EXTENDS Integers, FiniteSets

CONSTANTS
  Threads, Containers,
  Home,         \* Home[t]: the container thread t runs in
  Tokens,       \* session tokens there are to issue
  CodeFor,      \* CODE_TTL_SECONDS
  SessionFor,   \* SESSION_TTL_SECONDS
  CacheFor,     \* SESSION_CACHE_SECONDS
  CacheLimit,   \* SESSION_CACHE_LIMIT
  MaxTime,      \* BOUND: the clock stops here
  Faults        \* the table's calls that may fail, a subset of TableCalls

TableCalls == {"code_put", "code_delete", "token_put", "token_get", "token_delete"}

(* What the constants must be. *)
ConstantsFit ==
  /\ Home \in [Threads -> Containers]
  /\ {CodeFor, SessionFor, CacheFor, CacheLimit, MaxTime} \subseteq Nat \ {0}
  /\ Faults \subseteq TableCalls

VARIABLES
  now,
  minted,      \* a code was minted
  configured,  \* the operator key behind the code is still configured
  code,        \* the code's item on the table
  codeMem,     \* codeMem[c]: the code's item in container c's memory
  item,        \* item[k]: token k's item on the table
  itemMem,     \* itemMem[c][k]: token k's item in container c's memory
  cache,       \* cache[c][k]: until when container c trusts token k
  pc,          \* pc[t]: what thread t does next
  tok,         \* tok[t]: the token its request presents
  at,          \* at[t]: the time its lookup or exchange read the clock
  found,       \* found[t]: the expiry of the item its lookup read, 0 when it ends
  answer,      \* answer[t]: how its last lookup ended
  issued,      \* HISTORY: issued[k]: when token k lapses, 0 before it is issued
  revokedAt,   \* HISTORY: revokedAt[k]: when a revoke of k first returned True
  droppedAt    \* HISTORY: droppedAt[c][k]: when a revoke in c took k out of c's memory

onTable == <<code, item>>
inMemory == <<codeMem, itemMem, cache>>
thread == <<pc, tok, at, found, answer>>
history == <<issued, revokedAt, droppedAt>>
vars == <<now, minted, configured, onTable, inMemory, thread, history>>

Nowhere == [c \in Containers |-> [k \in Tokens |-> 0]]

Init ==
  /\ now = 1 /\ minted = FALSE /\ configured = TRUE
  /\ code = 0 /\ codeMem = [c \in Containers |-> 0]
  /\ item = [k \in Tokens |-> 0] /\ itemMem = Nowhere /\ cache = Nowhere
  /\ pc = [t \in Threads |-> "idle"]
  /\ tok \in {f \in [Threads -> Tokens] : \A s, t \in Threads : f[s] = f[t]}
  /\ at = [t \in Threads |-> 0] /\ found = [t \in Threads |-> 0]
  /\ answer = [t \in Threads |-> "none"]
  /\ issued = [k \in Tokens |-> 0] /\ revokedAt = [k \in Tokens |-> 0]
  /\ droppedAt = Nowhere

At(t, label) == pc[t] = label
Goto(t, label) == pc' = [pc EXCEPT ![t] = label]
Begins(t, time) ==
  /\ answer' = [answer EXCEPT ![t] = "none"] /\ at' = [at EXCEPT ![t] = time]
Fails(call) == call \in Faults
Lesser(m, n) == IF m < n THEN m ELSE n

(* _put: memory is written only when the table is not.                     *)
(* Slip: memory is written beside the table, not instead of it.            *)
PutCodeTwice(t, expires) ==
  /\ code' = expires /\ codeMem' = [codeMem EXCEPT ![Home[t]] = expires]

PutCode(t, expires) ==
  \/ code' = expires /\ UNCHANGED codeMem
  \/ /\ Fails("code_put")
     /\ codeMem' = [codeMem EXCEPT ![Home[t]] = expires] /\ UNCHANGED code

PutToken(t, k, expires) ==
  \/ item' = [item EXCEPT ![k] = expires] /\ UNCHANGED itemMem
  \/ /\ Fails("token_put")
     /\ itemMem' = [itemMem EXCEPT ![Home[t]][k] = expires] /\ UNCHANGED item

-----------------------------------------------------------------------------
(* Signing in.                                                             *)

(* POST /v1/auth/links, with the operator key.                             *)
MintCode(t) ==
  /\ At(t, "idle") /\ ~minted /\ configured
  /\ PutCode(t, now + CodeFor) /\ minted' = TRUE /\ Begins(t, 0)
  /\ UNCHANGED <<now, configured, item, itemMem, cache, pc, tok, found, history>>

(* POST /v1/auth/sessions: the conditional delete on the table.  A refused  *)
(* condition ends the exchange; any other failure tries memory.            *)
ConsumeOnTable(t) ==
  /\ At(t, "idle") /\ minted
  /\ \/ /\ code > now /\ code' = 0 /\ Begins(t, 0)
        /\ Goto(t, IF configured THEN "open" ELSE "idle")
     \/ ~(code > now) /\ Begins(t, 0) /\ UNCHANGED <<code, pc>>
     \/ /\ Fails("code_delete") /\ Begins(t, now)
        /\ Goto(t, "consume_memory") /\ UNCHANGED code
  /\ UNCHANGED <<now, minted, configured, item, inMemory, tok, found, history>>

(* Under the store's lock: pop it, then see whether it had lapsed.         *)
ConsumeInMemory(t) ==
  /\ At(t, "consume_memory")
  /\ codeMem' = [codeMem EXCEPT ![Home[t]] = 0]
  /\ Goto(t, IF codeMem[Home[t]] > at[t] /\ configured THEN "open" ELSE "idle")
  /\ UNCHANGED <<now, minted, configured, onTable, itemMem, cache, tok, at, found, answer, history>>

(* The code was good: a token nobody holds yet is issued.                  *)
OpenSession(t) ==
  /\ At(t, "open")
  /\ \E k \in Tokens :
       /\ issued[k] = 0
       /\ PutToken(t, k, now + SessionFor)
       /\ issued' = [issued EXCEPT ![k] = now + SessionFor]
  /\ Goto(t, "idle")
  /\ UNCHANGED <<now, minted, configured, code, codeMem, cache, tok, at, found, answer,
                 revokedAt, droppedAt>>

-----------------------------------------------------------------------------
(* Looking a token up (AuthStore.session, through live_session).           *)

Replies(t, yes) ==
  /\ answer' = [answer EXCEPT ![t] = IF yes /\ configured THEN "yes" ELSE "no"]
  /\ Goto(t, "idle")

(* The cache, under the lock.  A lapsed entry is dropped.                  *)
LookupInCache(t, k) ==
  /\ At(t, "idle") /\ issued[k] > 0
  /\ tok' = [tok EXCEPT ![t] = k]
  /\ IF now < cache[Home[t]][k]
     THEN Replies(t, TRUE) /\ at' = [at EXCEPT ![t] = now] /\ UNCHANGED cache
     ELSE /\ cache' = [cache EXCEPT ![Home[t]][k] = 0]
          /\ Goto(t, "lookup_table") /\ Begins(t, now)
  /\ UNCHANGED <<now, minted, configured, onTable, codeMem, itemMem, found,
                 history>>

(* The table, outside the lock.                                            *)
LookupOnTable(t) ==
  /\ At(t, "lookup_table")
  /\ \/ found' = [found EXCEPT ![t] = item[tok[t]]]
     \/ Fails("token_get") /\ found' = [found EXCEPT ![t] = 0]
  /\ Goto(t, IF found'[t] = 0 THEN "lookup_memory" ELSE "lookup_keep")
  /\ UNCHANGED <<now, minted, configured, onTable, inMemory, tok, at, answer, history>>

LookupInMemory(t) ==
  /\ At(t, "lookup_memory")
  /\ found' = [found EXCEPT ![t] = itemMem[Home[t]][tok[t]]]
  /\ Goto(t, "lookup_keep")
  /\ UNCHANGED <<now, minted, configured, onTable, inMemory, tok, at, answer, history>>

(* Slip: the cache runs from the time of keeping, not of asking.           *)
LookupKeepFromNow(t) ==
  /\ At(t, "lookup_keep")
  /\ IF found[t] > at[t]
     THEN /\ cache' = [cache EXCEPT ![Home[t]][tok[t]] = Lesser(now + CacheFor, found[t])]
          /\ Replies(t, TRUE)
     ELSE Replies(t, FALSE) /\ UNCHANGED cache
  /\ found' = [found EXCEPT ![t] = 0]
  /\ UNCHANGED <<now, minted, configured, onTable, codeMem, itemMem, tok, at, history>>

(* A live record is kept, under the lock again, and answered.              *)
LookupKeep(t) ==
  /\ At(t, "lookup_keep")
  /\ LET c == Home[t]
         full == Cardinality({k \in Tokens : cache[c][k] > 0}) >= CacheLimit
         kept == IF full THEN [k \in Tokens |-> 0] ELSE cache[c]
     IN IF found[t] > at[t]
        THEN /\ cache' = [cache EXCEPT ![c] =
                            [kept EXCEPT ![tok[t]] = Lesser(at[t] + CacheFor, found[t])]]
             /\ Replies(t, TRUE)
        ELSE Replies(t, FALSE) /\ UNCHANGED cache
  /\ found' = [found EXCEPT ![t] = 0]
  /\ UNCHANGED <<now, minted, configured, onTable, codeMem, itemMem, tok, at, history>>

-----------------------------------------------------------------------------
(* Signing out (DELETE /v1/auth/sessions): cache and memory first, under   *)
(* the lock, then the table; a failed delete is reported as not recorded.  *)

RevokeHere(t, k) ==
  /\ At(t, "idle") /\ issued[k] > 0
  /\ tok' = [tok EXCEPT ![t] = k]
  /\ cache' = [cache EXCEPT ![Home[t]][k] = 0]
  /\ itemMem' = [itemMem EXCEPT ![Home[t]][k] = 0]
  /\ droppedAt' = IF itemMem[Home[t]][k] = 0 THEN droppedAt ELSE [droppedAt EXCEPT ![Home[t]][k] = now]
  /\ Goto(t, "revoke_table") /\ Begins(t, 0)
  /\ UNCHANGED <<now, minted, configured, onTable, codeMem, found, issued, revokedAt>>

RevokeOnTable(t) ==
  /\ At(t, "revoke_table") /\ Goto(t, "idle")
  /\ \/ /\ item' = [item EXCEPT ![tok[t]] = 0]
        /\ revokedAt' = [revokedAt EXCEPT ![tok[t]] = IF @ = 0 THEN now ELSE @]
     \/ Fails("token_delete") /\ UNCHANGED <<item, revokedAt>>
  /\ UNCHANGED <<now, minted, configured, code, inMemory, tok, at, found, answer,
                 issued, droppedAt>>

-----------------------------------------------------------------------------
Tick ==
  /\ now < MaxTime /\ now' = now + 1
  /\ UNCHANGED <<minted, configured, onTable, inMemory, thread, history>>

(* The operator takes the key off THREEFOLD_API_KEYS.                      *)
RemoveKey ==
  /\ configured /\ configured' = FALSE
  /\ UNCHANGED <<now, minted, onTable, inMemory, thread, history>>

(* A container is recycled, and every request in it ends unanswered.       *)
Recycle(c) ==
  /\ codeMem' = [codeMem EXCEPT ![c] = 0]
  /\ itemMem' = [itemMem EXCEPT ![c] = [k \in Tokens |-> 0]]
  /\ cache' = [cache EXCEPT ![c] = [k \in Tokens |-> 0]]
  /\ pc' = [t \in Threads |-> IF Home[t] = c THEN "idle" ELSE pc[t]]
  /\ answer' = [t \in Threads |-> IF Home[t] = c THEN "none" ELSE answer[t]]
  /\ at' = [t \in Threads |-> IF Home[t] = c THEN 0 ELSE at[t]]
  /\ found' = [t \in Threads |-> IF Home[t] = c THEN 0 ELSE found[t]]
  /\ UNCHANGED <<now, minted, configured, onTable, tok, history>>

Serve(t) ==
  \/ MintCode(t) \/ ConsumeOnTable(t) \/ ConsumeInMemory(t) \/ OpenSession(t)
  \/ \E k \in Tokens : LookupInCache(t, k) \/ RevokeHere(t, k)
  \/ LookupOnTable(t) \/ LookupInMemory(t) \/ LookupKeep(t) \/ RevokeOnTable(t)

Next == \/ \E t \in Threads : Serve(t)
        \/ Tick \/ RemoveKey
        \/ \E c \in Containers : Recycle(c)

Spec == Init /\ [][Next]_vars

-----------------------------------------------------------------------------
(* PROPERTIES                                                              *)

(* A code is exchanged at most once, however exchanges of it interleave,   *)
(* in whichever containers they run and whichever calls to the table fail: *)
(* no second token is ever issued (consume_code's docstring).              *)
SingleUse == Cardinality({k \in Tokens : issued[k] > 0}) <= 1

(* A lookup answered yes began before the session's expiry, for the cache  *)
(* never outlives the item; and within SESSION_CACHE_SECONDS of a revoke   *)
(* that returned True, though lookups already under way may still fill a   *)
(* cache after it (auth_store.py, the comment on that constant).  The      *)
(* exception is a container that issued the token while the table failed,  *)
(* and keeps it in its own memory, where no revoke elsewhere reaches it:   *)
(* there the time runs from the revoke that took it out of that memory.    *)
EndsInTime ==
  \A t \in Threads : answer[t] = "yes" =>
    LET k == tok[t]  c == Home[t]
    IN /\ at[t] < issued[k]
       /\ revokedAt[k] > 0 /\ itemMem[c][k] = 0 =>
            \E revoked \in {revokedAt[k], droppedAt[c][k]} : at[t] < revoked + CacheFor
=============================================================================
