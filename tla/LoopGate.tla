------------------------------- MODULE LoopGate -------------------------------
(***************************************************************************)
(* The loop gate of one session: LoopDetector (domain/loop_detector.py) as *)
(* _run_gates asks it, over the history the session's row carries from one *)
(* call to the next.  The row keeps the last Keep calls, so what the gate  *)
(* can recognise depends on what the row still remembers.                  *)
(*                                                                         *)
(* A call stands for its byte-exact signature.  Calls the other gates      *)
(* refuse leave no trace here and are not sent; requests of one session    *)
(* are judged one after another (GovernedSession has the interleavings).   *)
(***************************************************************************)
EXTENDS Integers, Sequences

CONSTANTS
  Calls,      \* the tool calls an agent may repeat
  Shapeless,  \* the shape of a call that names no target
  Shape,      \* Shape[c]: _fuzzy_signature, the tool, its targets and its keys
  Polls,      \* the calls is_read_or_poll recognises
  Threshold,  \* monomorphic_repetition_threshold
  MaxCycle,   \* loop_history_window, as set_max_cycle_length clamped it
  Keep,       \* how many calls the row keeps (50 in the code)
  MaxCalls    \* BOUND: calls approved in a behaviour

LoopAssumption ==
  /\ Polls \subseteq Calls
  /\ Threshold \in Int
  /\ MaxCycle \in Nat \ {0} /\ Keep \in Nat \ {0} /\ MaxCalls \in Nat

VARIABLES
  history,    \* session.history as the row holds it
  halted,     \* the loop gate froze the session
  last,       \* the last call judged, and how it was answered
  approved    \* HISTORY: every call approved in the session

loopVars == <<history, halted, last, approved>>

-----------------------------------------------------------------------------
(* _repeating_period.  A cycle of p calls counts once the sequence ends in *)
(* n repetitions of it and the first call of one more.  The search stops   *)
(* at the first window the sequence is too short for; every longer one is  *)
(* too long as well.                                                       *)

Closes(s, p, n) ==
  LET w == p * n + 1
      start == Len(s) - w
  IN w <= Len(s) /\ \A i \in 1 .. w : s[start + i] = s[start + 1 + ((i - 1) % p)]

(* Slip: only the shapes with a name, a repeat and a ping-pong.            *)
RepeatsNamedShapes(s, n) == \E p \in {1, 2} : Closes(s, p, n)

Repeats(s, n) == \E p \in 1 .. MaxCycle : Closes(s, p, n)

AtLeastOne(n) == IF n > 1 THEN n ELSE 1
ExactRounds == AtLeastOne(Threshold - 1)

(* Slip: the second tier is as quick as the first.                         *)
FuzzyRoundsAsExact == ExactRounds

FuzzyRounds == AtLeastOne(Threshold + 1)

(* The shapes of a sequence of calls, without the calls that have none.    *)
HasShape(c) == Shape[c] # Shapeless

Shapes(s) ==
  LET shapes[n \in 0 .. Len(s)] ==
        IF n = 0 THEN <<>>
        ELSE IF HasShape(s[n]) THEN Append(shapes[n - 1], Shape[s[n]]) ELSE shapes[n - 1]
  IN shapes[Len(s)]

IsRepeat(c) ==
  \/ Repeats(Append(history, c), ExactRounds)
  \/ Shape[c] # Shapeless /\ Repeats(Append(Shapes(history), Shape[c]), FuzzyRounds)

(* Slip: the row keeps one call less than the longest window needs.        *)
LastKeptShort(s) ==
  IF Len(s) > Keep - 1 THEN SubSeq(s, Len(s) - Keep + 2, Len(s)) ELSE s

(* What save_session keeps of a history.                                   *)
LastKept(s) == IF Len(s) > Keep THEN SubSeq(s, Len(s) - Keep + 1, Len(s)) ELSE s

-----------------------------------------------------------------------------
LoopInit == history = <<>> /\ halted = FALSE /\ last = <<>> /\ approved = <<>>

Answered(c, enforced, how) ==
  last' = [call |-> c, enforced |-> enforced, how |-> how]

(* The call runs and joins the history: no repeat, a repeat of a poll      *)
(* (noted), or a repeat while LOOP is only being watched.                  *)
Approve(c, enforced) ==
  /\ ~halted /\ Len(approved) < MaxCalls
  /\ IsRepeat(c) => (c \in Polls \/ ~enforced)
  /\ history' = LastKept(Append(history, c))
  /\ approved' = Append(approved, c)
  /\ Answered(c, enforced, "approved") /\ UNCHANGED halted

(* An enforced repeat that changes something: refused, out of the history, *)
(* and the end of the session unless a hook sent it (loop_halts_session).  *)
Refuse(c, freezes) ==
  /\ ~halted /\ IsRepeat(c) /\ c \notin Polls
  /\ halted' = freezes
  /\ Answered(c, TRUE, "refused") /\ UNCHANGED <<history, approved>>

(* An operator opens the session again; what it remembers is kept.         *)
Resume == halted /\ halted' = FALSE /\ UNCHANGED <<history, last, approved>>

Judge(c) == \/ \E enforced \in BOOLEAN : Approve(c, enforced)
            \/ \E freezes \in BOOLEAN : Refuse(c, freezes)

LoopNext == (\E c \in Calls : Judge(c)) \/ Resume

LoopSpec == LoopInit /\ [][LoopNext]_loopVars

-----------------------------------------------------------------------------
(* What a runaway is, over everything the session ever approved: a word of *)
(* at most MaxCycle letters said n times, and its first letter again.      *)

WordsOf(letters) == UNION {[1 .. p -> letters] : p \in 1 .. MaxCycle}

Said(word, n) == [i \in 1 .. n * Len(word) |-> word[((i - 1) % Len(word)) + 1]]

EndsWith(s, t) == Len(t) <= Len(s) /\ SubSeq(s, Len(s) - Len(t) + 1, Len(s)) = t

RunsAway(s, n, letters) ==
  \E word \in WordsOf(letters) : EndsWith(s, Append(Said(word, n), word[1]))

-----------------------------------------------------------------------------
(* PROPERTIES                                                              *)

(* Forgetting changes no verdict: whichever call comes next, the exact     *)
(* tier finds in the kept history what it would find in the whole one.     *)
NothingForgotten ==
  \A c \in Calls : Repeats(Append(history, c), ExactRounds)
                     <=> Repeats(Append(approved, c), ExactRounds)

(* The gate refuses the runaways and nothing else.  An enforced call that  *)
(* is not a poll is never approved when it says a cycle of the session's   *)
(* approved calls for the Threshold'th time, whatever polls and watched    *)
(* repeats came before; and a refused call really was the next of a        *)
(* runaway, in bytes or, two rounds later, in the shapes of the calls that *)
(* have one.                                                               *)
RunawayApproved ==
  /\ approved' # approved /\ last'.enforced /\ last'.call \notin Polls
  /\ RunsAway(Append(approved, last'.call), ExactRounds, Calls)

FalseAlarm ==
  /\ last' # last /\ last'.how = "refused"
  /\ ~RunsAway(Append(approved, last'.call), ExactRounds, Calls)
  /\ ~(HasShape(last'.call)
       /\ RunsAway(Shapes(Append(approved, last'.call)), Threshold + 1, {Shape[c] : c \in Calls}))

OnlyRunawaysRefused == [][~RunawayApproved /\ ~FalseAlarm]_loopVars
=============================================================================
