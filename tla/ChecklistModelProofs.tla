------------------------- MODULE ChecklistModelProofs -------------------------
(***************************************************************************)
(* Theorems of ChecklistModel, for lists of any length, windows of any     *)
(* height and any number of pending records.                               *)
(***************************************************************************)
EXTENDS ChecklistModel, SequenceTheorems, TLAPS

-------------------------------------------------------------------------------
\* The page on display.

PageOK == /\ ViewportOK
          /\ viewportHeight = 0 => viewportStart = 0

\* A start at which the page of the given height shows the row, and no blank.
FullPage(start, at, height) ==
  IF height = 0 THEN start = 0
  ELSE /\ start <= at /\ at < start + height
       /\ IF size <= height THEN start = 0 ELSE start + height <= size

LEMMA PageIsFull ==
  ASSUME size \in Nat \ {0}, cursor \in 0 .. size - 1,
         viewportHeight \in Nat, viewportStart \in Nat
  PROVE  PageOK <=> FullPage(viewportStart, cursor, viewportHeight)
  BY DEF PageOK, ViewportOK, FullPage, viewportCount

\* clampViewportToCursor() returns the nearest full page.
LEMMA ClampNearest ==
  ASSUME size \in Nat \ {0}, NEW start \in Nat, NEW at \in 0 .. size - 1, NEW height \in Nat
  PROVE  /\ clampViewportToCursor(start, at, height) \in Nat
         /\ FullPage(clampViewportToCursor(start, at, height), at, height)
         /\ height > 0 =>
              \A page \in Pages(at, height) :
                Distance(start, clampViewportToCursor(start, at, height))
                  <= Distance(start, page)
  <1> DEFINE clamped == clampViewportToCursor(start, at, height)
  <1>1. clamped \in Nat /\ FullPage(clamped, at, height)
    BY DEF clampViewportToCursor, FullPage
  <1>2. ASSUME height > 0, NEW page \in Pages(at, height)
        PROVE  Distance(start, clamped) <= Distance(start, page)
    BY <1>2 DEF Pages, Distance, clampViewportToCursor
  <1> QED
    BY <1>1, <1>2

-------------------------------------------------------------------------------
\* The inductive invariant: nothing is checked before the first frame, and a
\* viewport with no room starts at the first row.
ChecklistInv ==
  /\ TypeOK
  /\ PageOK
  /\ ViewportFitsWindow
  /\ CheckedRowsWereShown
  /\ outcome = "starting" => \A row \in Rows : ~selected[row]

\* A turn that keeps every check mark keeps what was shown of them.
LEMMA RenderKeepsShown ==
  ASSUME ChecklistInv, UNCHANGED <<candidates, selected, unseen, result>>,
         render, outcome' = "running"
  PROVE  CheckedRowsWereShown' /\ drawn' \in [Rows -> Mark]
  <1>1. \A row \in Rows : drawn'[row] \in {MarkOf(row)', drawn[row]}
    BY DEF render
  <1>2. \A row \in Rows : /\ isSelected(row)' <=> isSelected(row)
                         /\ MarkOf(row)' = MarkOf(row)
    BY DEF isSelected, MarkOf, candidates
  <1>3. \A row \in Rows : MarkOf(row) \in Mark /\ (isSelected(row) => MarkOf(row) = "[x]")
    BY DEF MarkOf, Mark, isSelected
  <1>4. drawn' \in [Rows -> Mark]
    <2>1. drawn' = [row \in Rows |-> drawn'[row]]
      BY DEF render
    <2>2. \A row \in Rows : drawn[row] \in Mark
      BY DEF ChecklistInv, TypeOK
    <2>3. ASSUME NEW row \in Rows PROVE drawn'[row] \in Mark
      <3>1. MarkOf(row)' \in Mark /\ drawn[row] \in Mark
        BY <1>2, <1>3, <2>2
      <3> QED
        BY <1>1, <3>1
    <2> QED
      BY <2>1, <2>3
  <1>5. ASSUME ~unseen', NEW row \in Rows, isSelected(row)' PROVE drawn'[row] = "[x]"
    <2>1. isSelected(row) /\ ~unseen
      BY <1>2, <1>5
    <2>2. outcome # "starting"
      BY <2>1 DEF ChecklistInv, isSelected
    <2>3. drawn[row] = "[x]"
      BY <2>1, <2>2 DEF ChecklistInv, CheckedRowsWereShown
    <2>4. MarkOf(row)' = "[x]"
      BY <1>2, <1>3, <2>1
    <2> QED
      BY <1>1, <2>3, <2>4
  <1>6. Rows' = Rows
    BY DEF Rows, candidates
  <1> QED
    BY <1>4, <1>5, <1>6 DEF CheckedRowsWereShown

\* The queries of Start and TakeResize.
LEMMA ResizeInv ==
  ASSUME ChecklistInv, resize(usableHeight(window)),
         UNCHANGED <<candidates, cursor, window>>
  PROVE  /\ viewportHeight' \in Nat /\ viewportStart' \in Nat
         /\ PageOK'
         /\ viewportHeight' = usableHeight(window)'
  <1>1. usableHeight(window) \in Nat
    BY DEF usableHeight, kReservedRows, ChecklistInv, TypeOK
  <1>2. /\ viewportHeight' \in Nat /\ viewportStart' \in Nat
        /\ FullPage(viewportStart', cursor, viewportHeight')
    BY <1>1, ClampNearest DEF ChecklistInv, TypeOK, Rows, resize
  <1>3. FullPage(viewportStart, cursor, viewportHeight)'
    BY <1>2 DEF FullPage, candidates
  <1>4. PageOK'
    BY <1>2, <1>3 DEF PageOK, FullPage, ViewportOK, viewportCount, candidates,
       ChecklistInv, TypeOK, Rows
  <1> QED
    BY <1>2, <1>4 DEF resize, usableHeight

\* Reading a record other than a resize leaves no fewer resizes pending.
LEMMA TakeInv ==
  ASSUME TypeOK, NEW record \in Keys \cup {"resize"}, Take(record)
  PROVE  /\ input' \in Seq(Keys \cup {"resize"})
         /\ outcome = "running"
         /\ UNCHANGED <<window, candidates>>
         /\ record # "resize" /\ ~ResizePending' => ~ResizePending
  <1>1. input \in Seq(Keys \cup {"resize"}) /\ input # << >>
    BY DEF TypeOK, Take
  <1>2. /\ Len(input') = Len(input) - 1
        /\ \A i \in 1 .. Len(input') : input'[i] = input[i + 1]
        /\ DOMAIN input' = 1 .. Len(input')
        /\ input' \in Seq(Keys \cup {"resize"})
    BY <1>1, HeadTailProperties DEF Take
  <1>3. ASSUME ResizePending, record # "resize" PROVE ResizePending'
    <2>1. PICK i \in 1 .. Len(input) : input[i] = "resize"
      BY <1>1, <1>3 DEF ResizePending
    <2>2. i # 1
      BY <1>1, <1>3, <2>1 DEF Take
    <2>3. i - 1 \in 1 .. Len(input') /\ input'[i - 1] = "resize"
      BY <1>1, <1>2, <2>1, <2>2
    <2> QED
      BY <1>2, <2>3 DEF ResizePending
  <1> QED
    BY <1>2, <1>3 DEF Take

LEMMA InitInv == Init => ChecklistInv
  <1> SUFFICES ASSUME Init PROVE ChecklistInv
    OBVIOUS
  <1>1. size \in Nat \ {0} /\ 0 \in Rows
    BY BoundAssumption DEF Init, Rows
  <1>2. input \in Seq(Keys \cup {"resize"})
    BY DEF Init
  <1>3. TypeOK
    BY <1>1, <1>2, BoundAssumption DEF Init, TypeOK, Mark
  <1>4. PageOK /\ ViewportFitsWindow /\ CheckedRowsWereShown
    BY DEF Init, PageOK, ViewportOK, ViewportFitsWindow, CheckedRowsWereShown
  <1> QED
    BY <1>3, <1>4 DEF ChecklistInv, Init

LEMMA StartInv == ASSUME ChecklistInv, Start PROVE ChecklistInv'
  <1>1. CheckedRowsWereShown' /\ drawn' \in [Rows -> Mark]
    BY RenderKeepsShown DEF Start
  <1>2. CASE resize(usableHeight(window)) /\ failed' = FALSE
    <2>1. /\ viewportHeight' \in Nat /\ viewportStart' \in Nat /\ PageOK'
          /\ viewportHeight' = usableHeight(window)'
      BY <1>2, ResizeInv DEF Start, console
    <2> QED
      BY <1>1, <1>2, <2>1 DEF Start, ChecklistInv, TypeOK, Rows, candidates, console,
         ViewportFitsWindow
  <1>3. CASE UNCHANGED viewport /\ failed' = TRUE
    <2>1. PageOK'
      BY <1>3 DEF Start, ChecklistInv, PageOK, ViewportOK, viewportCount, candidates,
         viewport
    <2> QED
      BY <1>1, <1>3, <2>1 DEF Start, ChecklistInv, TypeOK, Rows, candidates, console,
         viewport, ViewportFitsWindow
  <1> QED
    BY <1>2, <1>3 DEF Start

LEMMA TakeResizeInv == ASSUME ChecklistInv, TakeResize PROVE ChecklistInv'
  <1>1. /\ input' \in Seq(Keys \cup {"resize"}) /\ outcome = "running"
        /\ UNCHANGED <<window, candidates>>
    BY TakeInv DEF TakeResize, ChecklistInv
  <1>2. CASE resize(usableHeight(window)) /\ render /\ failed' = FALSE
    <2>1. /\ viewportHeight' \in Nat /\ viewportStart' \in Nat /\ PageOK'
          /\ viewportHeight' = usableHeight(window)'
      BY <1>1, <1>2, ResizeInv DEF TakeResize
    <2>2. CheckedRowsWereShown' /\ drawn' \in [Rows -> Mark]
      BY <1>1, <1>2, RenderKeepsShown DEF TakeResize
    <2> QED
      BY <1>1, <1>2, <2>1, <2>2 DEF TakeResize, ChecklistInv, TypeOK, Rows, candidates,
         ViewportFitsWindow
  <1>3. CASE failed' = TRUE /\ UNCHANGED <<viewport, drawn>>
    <2>1. PageOK'
      BY <1>1, <1>3 DEF TakeResize, ChecklistInv, PageOK, ViewportOK, viewportCount,
         candidates, viewport
    <2>2. CheckedRowsWereShown'
      BY <1>1, <1>3 DEF TakeResize, ChecklistInv, CheckedRowsWereShown, isSelected,
         candidates, Rows
    <2> QED
      BY <1>1, <1>3, <2>1, <2>2 DEF TakeResize, ChecklistInv, TypeOK, Rows, candidates,
         viewport, ViewportFitsWindow
  <1> QED
    BY <1>2, <1>3 DEF TakeResize

LEMMA MoveInv ==
  ASSUME ChecklistInv, NEW record \in {"up", "down"}, NEW to \in Rows, Move(record, to)
  PROVE  ChecklistInv'
  <1>1. /\ input' \in Seq(Keys \cup {"resize"}) /\ outcome = "running"
        /\ UNCHANGED <<window, candidates>>
        /\ ~ResizePending' => ~ResizePending
    BY TakeInv DEF Move, ChecklistInv, Keys
  <1>2. CheckedRowsWereShown' /\ drawn' \in [Rows -> Mark]
    BY <1>1, RenderKeepsShown DEF Move
  <1>3. FullPage(viewportStart, cursor, viewportHeight)
    BY PageIsFull DEF ChecklistInv, TypeOK, Rows
  <1>4. viewportStart' \in Nat /\ FullPage(viewportStart', to, viewportHeight)
    BY <1>3, ClampNearest DEF Move, ChecklistInv, TypeOK, Rows
  <1>5. PageOK'
    BY <1>1, <1>4 DEF Move, PageOK, FullPage, ViewportOK, viewportCount, candidates,
       ChecklistInv, TypeOK, Rows
  <1> QED
    BY <1>1, <1>2, <1>4, <1>5 DEF Move, ChecklistInv, TypeOK, Rows, candidates,
       ViewportFitsWindow, usableHeight

LEMMA ToggleInv == ASSUME ChecklistInv, Toggle PROVE ChecklistInv'
  <1>1. /\ input' \in Seq(Keys \cup {"resize"}) /\ outcome = "running"
        /\ UNCHANGED <<window, candidates>>
        /\ ~ResizePending' => ~ResizePending
    BY TakeInv DEF Toggle, ChecklistInv, Keys
  <1>2. UNCHANGED <<Rows, Visible>>
    BY <1>1 DEF Toggle, Rows, Visible, viewportCount, viewport, candidates
  <1>3. selected' \in [Rows -> BOOLEAN]
    BY DEF Toggle, ChecklistInv, TypeOK
  <1>4. \A row \in Rows : drawn'[row] = IF row \in Visible THEN MarkOf(row)' ELSE drawn[row]
    BY <1>2 DEF Toggle, render
  <1>5. \A row \in Rows : MarkOf(row)' \in Mark /\ (isSelected(row)' => MarkOf(row)' = "[x]")
    BY DEF MarkOf, Mark, isSelected
  <1>6. drawn' \in [Rows -> Mark]
    <2>1. drawn' = [row \in Rows |-> drawn'[row]]
      BY <1>2 DEF Toggle, render
    <2>2. \A row \in Rows : drawn[row] \in Mark
      BY DEF ChecklistInv, TypeOK
    <2>3. \A row \in Rows : drawn'[row] \in Mark
      BY <1>4, <1>5, <2>2
    <2> QED
      BY <2>1, <2>3
  <1>7. CheckedRowsWereShown'
    <2> SUFFICES ASSUME ~unseen', NEW row \in Rows, isSelected(row)'
                 PROVE  drawn'[row] = "[x]"
      BY <1>1, <1>2 DEF CheckedRowsWereShown, Toggle
    <2>1. CASE row \in Visible
      BY <1>4, <1>5, <2>1
    <2>2. CASE row \notin Visible
      <3>1. row # cursor \/ ~selectable[row]
        <4>1. viewportHeight > 0 => cursor \in Visible
          BY DEF ChecklistInv, TypeOK, PageOK, ViewportOK, Visible
        <4>2. viewportHeight = 0 => Visible = {}
          BY DEF ChecklistInv, TypeOK, Visible, viewportCount, Rows
        <4>3. viewportHeight \in Nat
          BY DEF ChecklistInv, TypeOK
        <4>4. ~selectable[cursor] \/ Visible # {}
          BY DEF Toggle
        <4> QED
          BY <2>2, <4>1, <4>2, <4>3, <4>4
      <3>2. isSelected(row) /\ ~unseen
        <4>1. ~unseen
          BY DEF Toggle
        <4>2. selectable[row] /\ selected'[row]
          BY <1>1 DEF isSelected, candidates
        <4>3. selected'[row] = selected[row]
          BY <3>1, <4>2 DEF Toggle, ChecklistInv, TypeOK
        <4> QED
          BY <4>1, <4>2, <4>3 DEF isSelected
      <3> QED
        BY <1>1, <1>4, <2>2, <3>2 DEF ChecklistInv, CheckedRowsWereShown
    <2> QED
      BY <2>1, <2>2
  <1>8. PageOK'
    BY <1>1 DEF Toggle, ChecklistInv, PageOK, ViewportOK, viewportCount, viewport,
       candidates
  <1> QED
    BY <1>1, <1>3, <1>6, <1>7, <1>8 DEF Toggle, ChecklistInv, TypeOK, Rows, candidates,
       viewport, ViewportFitsWindow, usableHeight

\* Steps that draw nothing and end the checklist, or only fill the buffer.
LEMMA QuietInv ==
  ASSUME ChecklistInv, UNCHANGED <<candidates, selected, cursor, viewport, drawn,
                                   unseen, failed>>,
         input' \in Seq(Keys \cup {"resize"}), window' \in Nat,
         \/ /\ outcome = "running"
            /\ outcome' = "Confirmed" /\ result' = {row \in Rows : isSelected(row)}
         \/ outcome = "running" /\ outcome' = "Cancelled" /\ UNCHANGED result
         \/ UNCHANGED <<outcome, result>> /\ (UNCHANGED window \/ ResizePending')
            /\ (~ResizePending' => ~ResizePending)
  PROVE  ChecklistInv'
  <1>1. PageOK'
    BY DEF ChecklistInv, PageOK, ViewportOK, viewportCount, viewport, candidates
  <1>2. CheckedRowsWereShown'
    BY DEF ChecklistInv, CheckedRowsWereShown, isSelected, candidates, Rows
  <1>3. ViewportFitsWindow'
    BY DEF ChecklistInv, ViewportFitsWindow, viewport, usableHeight
  <1>4. TypeOK'
    BY DEF ChecklistInv, TypeOK, Rows, candidates, viewport
  <1>5. Rows' = Rows
    BY DEF Rows, candidates
  <1> QED
    BY <1>1, <1>2, <1>3, <1>4, <1>5 DEF ChecklistInv

LEMMA IgnoreInv == ASSUME ChecklistInv, Ignore PROVE ChecklistInv'
  <1>1. /\ input' \in Seq(Keys \cup {"resize"}) /\ outcome = "running"
        /\ UNCHANGED <<window, candidates>>
        /\ ~ResizePending' => ~ResizePending
    BY TakeInv DEF Ignore, ChecklistInv, Keys
  <1>2. CheckedRowsWereShown' /\ drawn' \in [Rows -> Mark]
    BY <1>1, RenderKeepsShown DEF Ignore
  <1>3. PageOK'
    BY <1>1 DEF Ignore, ChecklistInv, PageOK, ViewportOK, viewportCount, viewport,
       candidates
  <1> QED
    BY <1>1, <1>2, <1>3 DEF Ignore, ChecklistInv, TypeOK, Rows, candidates,
       viewport, ViewportFitsWindow, usableHeight

LEMMA ConsoleInv == ASSUME ChecklistInv, Console PROVE ChecklistInv'
  <1>1. PICK record \in Keys \cup {"resize"} :
          /\ input' = Append(input, record)
          /\ UNCHANGED window \/ record = "resize"
    BY DEF Console, Press, ChangeWindow, Post
  <1>2. input \in Seq(Keys \cup {"resize"}) /\ window' \in Nat
    BY BoundAssumption DEF Console, Press, ChangeWindow, ChecklistInv, TypeOK
  <1>3. /\ DOMAIN input' = 1 .. Len(input) + 1 /\ Len(input) \in Nat
        /\ DOMAIN input = 1 .. Len(input)
        /\ \A i \in 1 .. Len(input) : input'[i] = input[i]
        /\ input'[Len(input) + 1] = record
    BY <1>1, <1>2
  <1>4. /\ UNCHANGED window \/ ResizePending'
        /\ ~ResizePending' => ~ResizePending
    BY <1>1, <1>3 DEF ResizePending
  <1> QED
    BY <1>1, <1>2, <1>4, QuietInv DEF Console

LEMMA StepInv == ASSUME ChecklistInv, [Next]_vars PROVE ChecklistInv'
  <1> USE DEF Keys
  <1>1. cursor \in Nat /\ size \in Nat \ {0} /\ cursor <= size - 1
    BY DEF ChecklistInv, TypeOK, Rows
  <1>2. CASE MoveUp
    BY <1>1, <1>2, MoveInv DEF MoveUp, Rows
  <1>3. CASE MoveDown
    BY <1>1, <1>3, MoveInv DEF MoveDown, Rows
  <1>4. CASE Confirm
    BY <1>4, TakeInv, QuietInv DEF Confirm, ChecklistInv, TypeOK
  <1>5. CASE Cancel
    BY <1>5, TakeInv, QuietInv DEF Cancel, console, ChecklistInv, TypeOK
  <1>6. CASE UNCHANGED vars
    BY <1>6, QuietInv DEF vars, console, ChecklistInv, TypeOK, ResizePending
  <1> QED
    BY <1>2, <1>3, <1>4, <1>5, <1>6, StartInv, TakeResizeInv, ToggleInv, IgnoreInv,
       ConsoleInv DEF Next

LEMMA ChecklistCorrect == Spec => []ChecklistInv
  BY InitInv, StepInv, PTL DEF Spec

\* Every variable keeps its type in every behaviour.
THEOREM TypeCorrect == Spec => []TypeOK
  BY ChecklistCorrect, PTL DEF ChecklistInv

\* For every list and every window: the rows drawn are rows of the list, the
\* cursor is among them, and the subtraction in viewportCount() never wraps.
THEOREM ViewportCorrect == Spec => []ViewportOK
  BY ChecklistCorrect, PTL DEF ChecklistInv, PageOK

\* However resizes and keys are queued, the viewport catches up with the window.
THEOREM WindowCorrect == Spec => []ViewportFitsWindow
  BY ChecklistCorrect, PTL DEF ChecklistInv

\* What Enter authorises is what was shown checked.
THEOREM ConsentCorrect == Spec => []CheckedRowsWereShown
  BY ChecklistCorrect, PTL DEF ChecklistInv

\* No key and no resize scrolls further than it has to.
THEOREM ScrollCorrect == Spec => ScrollsLeast
  <1>1. ChecklistInv /\ [Next]_vars => [NearestPage]_vars
    <2> SUFFICES ASSUME ChecklistInv, [Next]_vars, viewportHeight' > 0
                 PROVE  \A page \in Pages(cursor', viewportHeight') :
                          Distance(viewportStart, viewportStart')
                            <= Distance(viewportStart, page)
      BY DEF NearestPage
    <2>1. /\ size \in Nat \ {0} /\ viewportStart \in Nat /\ viewportHeight \in Nat
          /\ usableHeight(window) \in Nat /\ cursor \in 0 .. size - 1
      BY DEF ChecklistInv, TypeOK, usableHeight, kReservedRows, Rows
    <2>2. /\ size' \in Nat \ {0} /\ cursor' \in 0 .. size' - 1
      BY StepInv DEF ChecklistInv, TypeOK, Rows
    <2>3. CASE UNCHANGED viewportStart
      BY <2>1, <2>2, <2>3 DEF Pages, Distance
    <2>4. ASSUME NEW height \in Nat, UNCHANGED size, viewportHeight' = height,
                 viewportStart' = clampViewportToCursor(viewportStart, cursor', height)
          PROVE  \A page \in Pages(cursor', viewportHeight') :
                   Distance(viewportStart, viewportStart')
                     <= Distance(viewportStart, page)
      <3>1. cursor' \in 0 .. size - 1
        BY <2>2, <2>4
      <3> QED
        BY <2>1, <2>4, <3>1, ClampNearest
    <2>5. CASE UNCHANGED <<size, cursor>> /\ resize(usableHeight(window))
      BY <2>1, <2>4, <2>5 DEF resize
    <2>6. CASE Start \/ TakeResize
      BY <2>3, <2>5, <2>6 DEF Start, TakeResize, Take, candidates, viewport
    <2>7. ASSUME NEW record, NEW to, Move(record, to)
          PROVE  \/ UNCHANGED viewportStart
                 \/ /\ UNCHANGED <<size, viewportHeight>>
                    /\ viewportStart' =
                         clampViewportToCursor(viewportStart, cursor', viewportHeight)
      BY <2>7 DEF Move, Take, candidates
    <2>8. CASE MoveUp \/ MoveDown
      BY <2>1, <2>3, <2>4, <2>7, <2>8 DEF MoveUp, MoveDown
    <2>9. CASE UNCHANGED vars \/ Toggle \/ Ignore \/ Confirm \/ Cancel \/ Console
      BY <2>3, <2>9 DEF vars, viewport, Toggle, Ignore, Confirm, Cancel, Console
    <2> QED
      BY <2>6, <2>8, <2>9 DEF Next
  <1> QED
    BY <1>1, ChecklistCorrect, PTL DEF Spec, ScrollsLeast
===============================================================================
