--------------------------------- MODULE Pages ---------------------------------
(***************************************************************************)
(* Reading the ledger back (application/ledger.py): GET /api/decisions,    *)
(* which pages through a window of days one request at a time, each        *)
(* resuming at the cursor the last one gave, and read_window, which reads  *)
(* the newest rows of a window in one request as far as a budget reaches.  *)
(* Both read one day at a time, newest first, while calls are recorded     *)
(* and reads of the table come back short, empty or not at all.            *)
(***************************************************************************)
EXTENDS Integers, Sequences, FiniteSets

CONSTANTS
  Ledgers,       \* the ledgers a reader may find: sets of rows
  Days,          \* the days of the window, of which the last is today
  NextKey,       \* the key of the first call recorded meanwhile
  PageSize,      \* PAGE_SIZE
  MaxPages,      \* MAX_PAGES_PER_REQUEST
  Limits,        \* how many items a request asks for
  Budgets,       \* how many rows a window read may read
  MaxRecorded,   \* BOUND: calls recorded while it is read
  MaxFailures    \* BOUND: reads that fail

(* A row's sort key orders the rows of its day.                            *)
LedgerRow(day, key, wanted) == [day |-> day, key |-> key, wanted |-> wanted]

LedgerRows == [day : 1..Days, key : Nat \ {0}, wanted : BOOLEAN]

(* What the constants must be. *)
PagesFit ==
  /\ {Days, PageSize, MaxPages} \subseteq Nat \ {0} /\ Limits \subseteq Nat \ {0}
  /\ Budgets \cup {MaxRecorded, MaxFailures} \subseteq Nat
  /\ \A rows \in Ledgers : rows \subseteq LedgerRows /\ \A r \in rows : r.key < NextKey
  /\ NextKey \in Nat \ {0}

VARIABLES
  ledger,     \* the rows on the table
  reader,     \* the day and the row the reader resumes after, and what it is doing
  items,      \* what the request has kept
  remaining,  \* the rows a window read may still read
  turns,      \* the reads the request may still make
  limit,      \* the items each request asks for
  shown,      \* HISTORY: what was kept of each page, in the order it was answered
  standing,   \* HISTORY: the rows that were there as the reader began
  recorded, failures

pageVars == <<ledger, reader, items, remaining, turns, limit, shown, standing, recorded, failures>>

NewerRow(r, s) == r.day > s.day \/ (r.day = s.day /\ r.key > s.key)

(* A cursor: a day, and the key of a row in it or none.                    *)
NoKey == 0

ReaderAt(doing, day, after) == reader' = [doing |-> doing, day |-> day, after |-> after]

PagesInit ==
  /\ ledger \in Ledgers /\ standing = ledger
  /\ reader = [doing |-> "idle", day |-> Days, after |-> NoKey]
  /\ items = {} /\ shown = <<>> /\ remaining = 0 /\ turns = 0 /\ limit = 0
  /\ recorded = 0 /\ failures = 0

-----------------------------------------------------------------------------
(* read_decision_day: a page of one day, and where the next one starts.    *)
(* The table says there is more when it filled the page or cut it short.   *)

Rest(day, after) == {r \in ledger : r.day = day /\ (after = NoKey \/ r.key < after)}

DownTo(rows, last) == {r \in rows : r.key >= last.key}

Page(rows, last, next) == [rows |-> rows, last |-> last, next |-> next]

(* A day with nothing left; and a read that fails, which is read as the    *)
(* rows this container holds: none here.                                   *)
NothingRead == Page({}, NoKey, NoKey)

PagesOf(rest, size) ==
  {Page(DownTo(rest, last), last.key,
        IF DownTo(rest, last) = rest /\ Cardinality(rest) < size THEN NoKey ELSE last.key)
    : last \in {r \in rest : Cardinality(DownTo(rest, r)) <= size}}

ReadsOf(day, after, size) ==
  LET rest == Rest(day, after) IN IF rest = {} THEN {NothingRead} ELSE PagesOf(rest, size)

(* Slip: a page shorter than it might be is a day's last.                  *)
DayOverWhenShort(page, size) == Cardinality(page.rows) < size

DayOver(page, size) == page.next = NoKey

(* Where the reader goes on after a page, or that it has reached the end.  *)
EndOfWindow(page, size) == DayOver(page, size) /\ reader.day = 1

GoesOnAt(doing, page, size) ==
  IF DayOver(page, size) THEN ReaderAt(doing, reader.day - 1, NoKey) ELSE ReaderAt(doing, reader.day, page.next)

ReadFails == failures < MaxFailures /\ failures' = failures + 1
ReadWorks == UNCHANGED failures

-----------------------------------------------------------------------------
(* page_decisions.                                                         *)

AskPage(n) ==
  /\ reader.doing \in {"idle", "answered"} /\ limit \in {0, n}
  /\ ReaderAt("paging", reader.day, reader.after) /\ turns' = MaxPages /\ limit' = n
  /\ UNCHANGED <<ledger, items, remaining, shown, standing, recorded, failures>>

Kept(rows) == shown' = Append(shown, rows)

RequestEnds(rows) == Kept(rows) /\ items' = {} /\ turns' = 0

(* Slip: the next request resumes after the page, not after the last item. *)
ResumeAfterPage(page, stop) == page.last

ResumeAfter(page, stop) == stop.key

(* The request has what it asked for at the row stop of the page, and the  *)
(* next goes on from there; at a day's last row, from the day before.      *)
FullAt(page, stop) ==
  LET kept == {r \in page.rows : r.wanted /\ r.key >= stop.key} IN
    /\ stop.wanted /\ Cardinality(items) + Cardinality(kept) = limit
    /\ RequestEnds(kept)
    /\ IF stop.key # page.last \/ page.next # NoKey THEN ReaderAt("answered", reader.day, ResumeAfter(page, stop))
       ELSE IF reader.day = 1 THEN ReaderAt("done", 0, NoKey)
       ELSE ReaderAt("answered", reader.day - 1, NoKey)

TurnPage(page) ==
  LET wanted == {r \in page.rows : r.wanted} IN
    \/ \E stop \in page.rows : FullAt(page, stop)
    \/ /\ Cardinality(items) + Cardinality(wanted) < limit
       /\ IF EndOfWindow(page, PageSize) THEN RequestEnds(wanted) /\ ReaderAt("done", 0, NoKey)
          ELSE IF turns = 1 THEN RequestEnds(wanted) /\ GoesOnAt("answered", page, PageSize)
          ELSE /\ Kept(wanted) /\ items' = items \cup wanted /\ turns' = turns - 1
               /\ GoesOnAt("paging", page, PageSize)

ReadPage ==
  /\ reader.doing = "paging"
  /\ \/ ReadWorks /\ \E page \in ReadsOf(reader.day, reader.after, PageSize) : TurnPage(page)
     \/ ReadFails /\ TurnPage(NothingRead)
  /\ UNCHANGED <<ledger, remaining, limit, standing, recorded>>

-----------------------------------------------------------------------------
(* read_window, whose reader raises when a read fails: the request then    *)
(* answers that it did not read the window.                                *)

Begin(budget) ==
  /\ reader.doing = "idle" /\ limit = 0
  /\ ReaderAt("window", Days, NoKey) /\ remaining' = budget /\ turns' = Days + budget \div PageSize + 1
  /\ UNCHANGED <<ledger, items, limit, shown, standing, recorded, failures>>

Lower(x, y) == IF x < y THEN x ELSE y

WindowEnds(rows, how) == ReaderAt(how, reader.day, reader.after) /\ items' = rows /\ UNCHANGED <<remaining, turns>>

WindowPage(page, size) ==
  LET kept == items \cup page.rows IN
    IF EndOfWindow(page, size) THEN WindowEnds(kept, "complete")
    ELSE /\ items' = kept /\ remaining' = remaining - Cardinality(page.rows) /\ turns' = turns - 1
         /\ GoesOnAt("window", page, size)

ReadWindow ==
  LET size == Lower(PageSize, remaining) IN
    /\ reader.doing = "window"
    /\ \/ 0 \in {remaining, turns} /\ ReadWorks /\ WindowEnds(items, "cut short")
       \/ 0 \notin {remaining, turns} /\ ReadWorks /\ \E page \in ReadsOf(reader.day, reader.after, size) : WindowPage(page, size)
       \/ 0 \notin {remaining, turns} /\ ReadFails /\ WindowEnds({}, "unread")
    /\ UNCHANGED <<ledger, limit, shown, standing, recorded>>

-----------------------------------------------------------------------------
(* A call is recorded: the newest of today's rows.                         *)
RecordRow ==
  /\ recorded < MaxRecorded /\ recorded' = recorded + 1
  /\ reader.doing # "done"
  /\ \E wanted \in BOOLEAN : ledger' = ledger \cup {LedgerRow(Days, NextKey + recorded, wanted)}
  /\ UNCHANGED <<reader, items, remaining, turns, limit, shown, standing, failures>>

PagesNext ==
  \/ \E n \in Limits : AskPage(n)
  \/ \E budget \in Budgets : Begin(budget)
  \/ ReadPage \/ ReadWindow \/ RecordRow

PagesSpec == PagesInit /\ [][PagesNext]_pageVars

-----------------------------------------------------------------------------
(* PROPERTIES                                                              *)

AllShown == UNION {shown[i] : i \in DOMAIN shown}

(* Following the cursors shows each row the filter admits at most once and *)
(* newest first, and by the end every one that was there at the start,     *)
(* however the table cut its pages and whatever was recorded meanwhile,    *)
(* unless a read failed (page_decisions over the cursors it gave).         *)
PagesWhole ==
  /\ \A i, j \in DOMAIN shown : i < j => \A r \in shown[i], s \in shown[j] : NewerRow(r, s)
  /\ (reader.doing = "done" /\ failures = 0) => \A r \in standing : r.wanted => r \in AllShown

(* A window read that says it is complete read every row that was there as *)
(* it began, and one cut short read every row newer than the last it read, *)
(* so that all that followed a call it shows is there to be read           *)
(* (read_window, and the correction rates computed from it).               *)
WindowWhole ==
  /\ reader.doing = "complete" => standing \subseteq items
  /\ reader.doing = "cut short" => \A r \in items : {s \in standing : NewerRow(s, r)} \subseteq items

(* Pages neither skip nor repeat a row that was there all along, and a     *)
(* window that says it is complete has read every row of its days.         *)
ListingsWhole == PagesWhole /\ WindowWhole
=============================================================================
