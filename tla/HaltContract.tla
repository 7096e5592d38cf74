---------------------------- MODULE HaltContract ----------------------------
(***************************************************************************)
(* What a governed session promises about its halt, with no store, no      *)
(* containers and no copies: a session that was halted stays halted until  *)
(* an operator's resume, asked for while it was halted, opens it again.    *)
(* This is the promise of the docstring of SessionConflictError in         *)
(* infrastructure/dynamo_repo.py and of resume_session in                  *)
(* application/evaluator.py.  GovernedSession is shown to implement it.    *)
(***************************************************************************)
VARIABLES
  standing,   \* "absent", "open" or "halted": what the stored row says
  asked       \* an operator's resume is under way

contractVars == <<standing, asked>>

Standings == {"absent", "open", "halted"}

ContractInit == standing = "absent" /\ asked = FALSE

(* The first call of a session creates it, open.                           *)
Open == standing = "absent" /\ standing' = "open" /\ UNCHANGED asked

(* A gate or the kill switch halts it; halting a halted session is a       *)
(* stutter.                                                                *)
Halt == standing = "open" /\ standing' = "halted" /\ UNCHANGED asked

(* Only a halted session can be asked to resume (SessionNotHaltedError).   *)
AskResume == standing = "halted" /\ asked' = TRUE /\ UNCHANGED standing

(* The resume lands.  Another one may still be under way.                  *)
Resume == asked /\ standing' = "open" /\ asked' \in BOOLEAN

(* The operator's request dies before it wrote anything.                   *)
DropResume == asked /\ asked' = FALSE /\ UNCHANGED standing

ContractNext == Open \/ Halt \/ AskResume \/ Resume \/ DropResume

ContractSpec == ContractInit /\ [][ContractNext]_contractVars
=============================================================================
