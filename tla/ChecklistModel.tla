---------------------------- MODULE ChecklistModel ----------------------------
(***************************************************************************)
(* The repair checklist: tui/ChecklistModel.cpp driven by runChecklist()   *)
(* of tui/TuiApp.cpp, with the console it reads records from.  The console *)
(* is outside the program: the user presses keys and changes the window's  *)
(* height at any time, and the records wait in its input buffer until      *)
(* readEvent() takes them one by one.                                      *)
(*                                                                         *)
(* A row is its index, as in the code; what a row says is left out, its    *)
(* check mark is kept.  Esc, Q and Ctrl+C are one key, "cancel".           *)
(***************************************************************************)
EXTENDS Naturals, Sequences

CONSTANTS
  MaxCandidates,  \* bound on the number of rows
  MaxRows,        \* bound on the window's height
  MaxPending      \* bound on the records waiting in the input buffer

ASSUME BoundAssumption == MaxCandidates \in Nat /\ MaxRows \in Nat /\ MaxPending \in Nat

VARIABLES
  size,            \* m_candidates.size()
  selectable,      \* ChecklistCandidate::selectable of each row
  selected,        \* m_selected
  cursor,          \* m_cursor
  viewportHeight,  \* m_viewportHeight
  viewportStart,   \* m_viewportStart
  outcome,         \* "starting", "running", "Confirmed" or "Cancelled"
  result,          \* the rows confirm() returned
  window,          \* the window's height now
  input,           \* records in the console's input buffer
  drawn,           \* history: the mark last drawn for each row
  unseen,          \* history: a toggle was made with no row on the screen
  failed           \* history: the last viewport query failed

candidates == <<size, selectable>>
viewport   == <<viewportHeight, viewportStart>>
console    == <<window, input>>
vars == <<candidates, selected, cursor, viewport, outcome, result, console,
          drawn, unseen, failed>>

kReservedRows == 2

Keys == {"up", "down", "space", "enter", "cancel", "other"}
Mark == {"none", "[-]", "[x]", "[ ]"}
Rows == 0 .. size - 1

TypeOK ==
  /\ size \in Nat \ {0}
  /\ selectable \in [Rows -> BOOLEAN]
  /\ selected \in [Rows -> BOOLEAN]
  /\ cursor \in Rows
  /\ viewportHeight \in Nat
  /\ viewportStart \in Nat
  /\ outcome \in {"starting", "running", "Confirmed", "Cancelled"}
  /\ result \subseteq Rows
  /\ window \in Nat
  /\ input \in Seq(Keys \cup {"resize"})
  /\ drawn \in [Rows -> Mark]
  /\ unseen \in BOOLEAN
  /\ failed \in BOOLEAN

\* runTuiChecklistIfRequested() starts no checklist without rows.
Init ==
  /\ size \in 1 .. MaxCandidates
  /\ selectable \in [Rows -> BOOLEAN]
  /\ selected = [row \in Rows |-> FALSE]
  /\ cursor = 0
  /\ viewportHeight = 0
  /\ viewportStart = 0
  /\ outcome = "starting"
  /\ result = {}
  /\ window \in 1 .. MaxRows
  /\ input = << >>
  /\ drawn = [row \in Rows |-> "none"]
  /\ unseen = FALSE
  /\ failed = FALSE

-------------------------------------------------------------------------------
(***************************************************************************)
(* Pure parts.                                                             *)
(***************************************************************************)
usableHeight(rows) == IF rows > kReservedRows THEN rows - kReservedRows ELSE 0

\* Mutant of clampViewportToCursor: the cursor's row becomes the first one.
clampToTop(start, at, height) ==
  IF height = 0 \/ size <= height THEN 0
  ELSE IF at > size - height THEN size - height ELSE at

\* m_viewportStart after a move of the cursor or a resize.
clampViewportToCursor(start, at, height) ==
  LET scrolled == IF start > at THEN at
                  ELSE IF at >= start + height THEN at - height + 1
                  ELSE start
  IN  IF height = 0 \/ size <= height THEN 0
      ELSE IF scrolled > size - height THEN size - height ELSE scrolled

viewportCount ==
  IF viewportHeight = 0 THEN 0
  ELSE IF viewportHeight < size - viewportStart THEN viewportHeight
  ELSE size - viewportStart

Visible == {row \in Rows : viewportStart <= row /\ row < viewportStart + viewportCount}

isSelected(row) == selectable[row] /\ selected[row]

MarkOf(row) == IF ~selectable[row] THEN "[-]"
               ELSE IF isSelected(row) THEN "[x]" ELSE "[ ]"

-------------------------------------------------------------------------------
(***************************************************************************)
(* One turn of the loop for each record.                                   *)
(***************************************************************************)
\* render(): a full frame; rows outside the viewport are not drawn.
render == drawn' = [row \in Rows |-> IF row \in Visible' THEN MarkOf(row)' ELSE drawn[row]]

\* Mutant of resize: the viewport keeps its start.
resizeUnclamped(height) == /\ viewportHeight' = height
                           /\ UNCHANGED viewportStart

resize(height) ==
  /\ viewportHeight' = height
  /\ viewportStart' = clampViewportToCursor(viewportStart, cursor, height)

\* The initial query and the first frame; without a height nothing is shown.
Start ==
  /\ outcome = "starting"
  /\ \/ resize(usableHeight(window)) /\ failed' = FALSE
     \/ UNCHANGED viewport /\ failed' = TRUE
  /\ outcome' = "running"
  /\ UNCHANGED <<candidates, selected, cursor, result, console, unseen>>
  /\ render

\* readEvent() takes the oldest record.
Take(record) ==
  /\ outcome = "running"
  /\ input # << >>
  /\ Head(input) = record
  /\ input' = Tail(input)
  /\ UNCHANGED <<window, candidates>>

\* Mutant of TakeResize: the record is taken for an ignored one.
TakeResizeIgnored ==
  /\ Take("resize")
  /\ UNCHANGED <<selected, cursor, viewport, outcome, result, drawn, unseen, failed>>

\* A resize record carries no height: the window is queried when the record
\* is read, and a query that fails drops it.
TakeResize ==
  /\ Take("resize")
  /\ UNCHANGED <<selected, cursor, outcome, result, unseen>>
  /\ \/ resize(usableHeight(window)) /\ render /\ failed' = FALSE
     \/ failed' = TRUE /\ UNCHANGED <<viewport, drawn>>

\* moveUp() and moveDown(): the ends are not crossed.
Move(record, to) ==
  /\ Take(record)
  /\ cursor' = to
  /\ viewportStart' = IF to = cursor THEN viewportStart
                      ELSE clampViewportToCursor(viewportStart, to, viewportHeight)
  /\ UNCHANGED <<selected, viewportHeight, outcome, result, unseen, failed>>
  /\ render

MoveUp   == Move("up", IF cursor = 0 THEN 0 ELSE cursor - 1)

\* Mutant of MoveDown: the end of the list is not looked at.
MoveDownPastEnd == Move("down", cursor + 1)

MoveDown == Move("down", IF cursor + 1 >= size THEN cursor ELSE cursor + 1)

\* Mutant of Toggle: the frame is not drawn again.
ToggleUndrawn ==
  /\ Take("space")
  /\ selected' = [selected EXCEPT ![cursor] = IF selectable[cursor] THEN ~@ ELSE @]
  /\ unseen' = (unseen \/ (selectable[cursor] /\ Visible = {}))
  /\ UNCHANGED <<cursor, viewport, outcome, result, drawn, failed>>

\* toggleCurrent()
Toggle ==
  /\ Take("space")
  /\ selected' = [selected EXCEPT ![cursor] = IF selectable[cursor] THEN ~@ ELSE @]
  /\ unseen' = (unseen \/ (selectable[cursor] /\ Visible = {}))
  /\ UNCHANGED <<cursor, viewport, outcome, result, failed>>
  /\ render

Ignore ==
  /\ Take("other")
  /\ UNCHANGED <<selected, cursor, viewport, outcome, result, unseen, failed>>
  /\ render

\* confirm()
Confirm ==
  /\ Take("enter")
  /\ outcome' = "Confirmed"
  /\ result' = {row \in Rows : isSelected(row)}
  /\ UNCHANGED <<selected, cursor, viewport, drawn, unseen, failed>>

\* cancel(), by key or because the read failed.
Cancel ==
  /\ \/ Take("cancel")
     \/ outcome = "running" /\ UNCHANGED <<console, candidates>>
  /\ outcome' = "Cancelled"
  /\ UNCHANGED <<selected, cursor, viewport, result, drawn, unseen, failed>>

-------------------------------------------------------------------------------
\* The console: keys and window changes become records in order.
Post(record) == Len(input) < MaxPending /\ input' = Append(input, record)

Press ==
  /\ \E key \in Keys : Post(key)
  /\ UNCHANGED window

ChangeWindow ==
  /\ \E rows \in 1 .. MaxRows : rows # window /\ window' = rows
  /\ Post("resize")

Console ==
  /\ outcome \in {"starting", "running"}
  /\ Press \/ ChangeWindow
  /\ UNCHANGED <<candidates, selected, cursor, viewport, outcome, result, drawn,
                 unseen, failed>>

Ended == outcome \in {"Confirmed", "Cancelled"}

Next == \/ Start \/ TakeResize \/ MoveUp \/ MoveDown \/ Toggle \/ Ignore
        \/ Confirm \/ Cancel \/ Console
        \/ Ended /\ UNCHANGED vars

Spec == Init /\ [][Next]_vars

-------------------------------------------------------------------------------
\* Properties.

\* Through any moves and resizes the viewport is a full page of the list that
\* holds the cursor: the subtraction in viewportCount() never wraps round, no
\* row is lost past the end, and a list that fits is shown whole.
ViewportOK ==
  viewportHeight > 0 =>
    /\ viewportStart <= cursor /\ cursor < viewportStart + viewportCount
    /\ IF size <= viewportHeight THEN viewportStart = 0
       ELSE viewportStart + viewportHeight <= size

Distance(a, b) == IF a < b THEN b - a ELSE a - b

\* The pages that show the cursor and leave no blank tail.
Pages(at, height) ==
  {start \in 0 .. at : /\ at < start + height
                       /\ start = 0 \/ start + height <= size}

\* The list scrolls no further than it must: of the pages that may be shown
\* after a key or a resize, it is the one nearest to the page shown before.
NearestPage ==
  viewportHeight > 0 /\ viewportHeight' > 0 =>
    \A start \in Pages(cursor', viewportHeight') :
      Distance(viewportStart, viewportStart') <= Distance(viewportStart, start)

ScrollsLeast == [][NearestPage]_vars

ResizePending == \E i \in DOMAIN input : input[i] = "resize"

\* Once the pending records are read, the viewport fits the window as it is
\* now, however many resizes came between keys and whatever they were; only a
\* query that failed leaves it behind.
ViewportFitsWindow ==
  outcome = "running" /\ ~failed /\ ~ResizePending => viewportHeight = usableHeight(window)

\* A row that Enter would repair, or has authorised to be repaired, has been
\* shown checked and not been shown otherwise since, on the screen or before
\* it was scrolled off; unless it was toggled on a screen that had no room.
CheckedRowsWereShown ==
  /\ outcome # "starting" /\ ~unseen
       => \A row \in Rows : isSelected(row) => drawn[row] = "[x]"
  /\ outcome = "Confirmed" /\ ~unseen
       => \A row \in result : drawn[row] = "[x]"
===============================================================================
