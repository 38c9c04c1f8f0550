---------------------------- MODULE TerminalSession ----------------------------
(***************************************************************************)
(* tui/TerminalSession.cpp: the interactive terminal session around the    *)
(* checklist.  The main thread acquires the terminal (tryCreate), uses it  *)
(* and restores it; when the console window is closed, or at logoff or     *)
(* shutdown, the system runs terminalCloseHandler() on a thread of its     *)
(* own, which restores it too, and then ends the process.                  *)
(*                                                                         *)
(* A step is one call on the terminal or one locked section.  Writing a    *)
(* control sequence is taken to succeed: the code ignores its result.      *)
(***************************************************************************)
EXTENDS Naturals

VARIABLES
  pc,         \* where the two threads are
  alt,        \* terminal: the alternate screen is shown
  hidden,     \* terminal: the cursor is hidden
  raw,        \* terminal: stdin has the session's input mode
  flags,      \* State: alternateScreenEntered, cursorHidden, stdinModeChanged
  restored,   \* State::restored
  held,       \* State is referred to by the session (main), by the handler
  mutex,      \* holder of g_closeHandlerMutex, or "none"
  callback,   \* g_activeCloseCallback is set
  installed,  \* terminalCloseHandler is registered with the system
  process,    \* "running", "closing" (the handler was started) or "ended"
  winner      \* history: the thread whose restore() did the work, or "none"

terminal == <<alt, hidden, raw>>
state    == <<flags, restored, held>>
slot     == <<mutex, callback, installed>>
vars     == <<pc, terminal, state, slot, process, winner>>

Threads == {"main", "handler"}

\* Labels inside the body of restore(), past the compare-exchange.
Restoring == {"mode", "cursor", "screen", "lock-uninstall", "uninstall"}

\* Labels inside a locked section.
Locked == {"install", "uninstall", "copy"}

\* The types of the variables; a thread holds the mutex in its locked sections
\* only.
TypeOK ==
  /\ pc \in [Threads -> {"enter", "hide", "getMode", "setMode", "lock-install",
                         "install", "session", "restore", "destroy", "after",
                         "idle", "lock-copy", "copy", "acquire", "return"}
                           \cup Restoring]
  /\ alt \in BOOLEAN /\ hidden \in BOOLEAN /\ raw \in BOOLEAN
  /\ flags \subseteq {"alternateScreenEntered", "cursorHidden", "stdinModeChanged"}
  /\ restored \in BOOLEAN
  /\ held \subseteq Threads
  /\ mutex \in Threads \cup {"none"}
  /\ \A t \in Threads : mutex = t <=> pc[t] \in Locked
  /\ callback \in BOOLEAN /\ installed \in BOOLEAN
  /\ process \in {"running", "closing", "ended"}
  /\ winner \in Threads \cup {"none"}

Init ==
  /\ pc = [main |-> "enter", handler |-> "idle"]
  /\ alt = FALSE /\ hidden = FALSE /\ raw = FALSE
  /\ flags = {}
  /\ restored = FALSE
  /\ held = {"main"}
  /\ mutex = "none"
  /\ callback = FALSE /\ installed = FALSE
  /\ process = "running"
  /\ winner = "none"

At(t, label) == process # "ended" /\ pc[t] = label

Goto(t, label) == pc' = [pc EXCEPT ![t] = label]

\* g_closeHandlerMutex: a section is entered by Lock and left by its own step.
Lock(t, from, to) ==
  /\ At(t, from)
  /\ mutex = "none"
  /\ mutex' = t
  /\ Goto(t, to)
  /\ UNCHANGED <<terminal, state, callback, installed, process, winner>>

-------------------------------------------------------------------------------
\* tryCreate(), on the main thread.
EnterScreen ==
  /\ At("main", "enter")
  /\ alt' = TRUE
  /\ flags' = flags \cup {"alternateScreenEntered"}
  /\ Goto("main", "hide")
  /\ UNCHANGED <<hidden, raw, restored, held, slot, process, winner>>

HideCursor ==
  /\ At("main", "hide")
  /\ hidden' = TRUE
  /\ flags' = flags \cup {"cursorHidden"}
  /\ Goto("main", "getMode")
  /\ UNCHANGED <<alt, raw, restored, held, slot, process, winner>>

\* Mutant of GetMode: a failure returns without unwinding.
GetModeLeaves ==
  /\ At("main", "getMode")
  /\ Goto("main", "setMode") \/ Goto("main", "after")
  /\ UNCHANGED <<terminal, state, slot, process, winner>>

\* getStdinMode: a failure unwinds what was done so far.
GetMode ==
  /\ At("main", "getMode")
  /\ Goto("main", "setMode") \/ Goto("main", "restore")
  /\ UNCHANGED <<terminal, state, slot, process, winner>>

\* Mutant of SetMode: the change is not recorded.
SetModeUnrecorded ==
  /\ At("main", "setMode")
  /\ raw' = TRUE
  /\ Goto("main", "lock-install")
  /\ UNCHANGED <<alt, hidden, flags, restored, held, slot, process, winner>>

\* setStdinMode, unless the mode is the desired one already.
SetMode ==
  /\ At("main", "setMode")
  /\ \/ /\ raw' = TRUE
        /\ flags' = flags \cup {"stdinModeChanged"}
        /\ Goto("main", "lock-install")
     \/ /\ Goto("main", "lock-install") \/ Goto("main", "restore")
        /\ UNCHANGED <<raw, flags>>
  /\ UNCHANGED <<alt, hidden, restored, held, slot, process, winner>>

LockInstall == Lock("main", "lock-install", "install")

\* setCloseHandler(true): the registration itself may fail.
Install ==
  /\ At("main", "install")
  /\ callback' = TRUE
  /\ installed' \in BOOLEAN
  /\ mutex' = "none"
  /\ Goto("main", "session")
  /\ UNCHANGED <<terminal, state, process, winner>>

\* runChecklist() is over and restore() is called.
SessionEnds ==
  /\ At("main", "session")
  /\ Goto("main", "restore")
  /\ UNCHANGED <<terminal, state, slot, process, winner>>

\* ~TerminalSession() calls restore() once more, which does nothing, and drops
\* the session's reference; after a failed tryCreate() only the latter.
Destroy ==
  /\ At("main", "destroy")
  /\ held' = held \ {"main"}
  /\ Goto("main", "after")
  /\ UNCHANGED <<terminal, flags, restored, slot, process, winner>>

-------------------------------------------------------------------------------
\* State::restore(), on either thread.
AfterRestore(t) == IF t = "main" THEN "destroy" ELSE "return"

\* Mutant of Exchange: the flag is tested, and not set.
ExchangeTestsOnly(t) ==
  /\ At(t, "restore")
  /\ IF restored THEN Goto(t, AfterRestore(t)) /\ UNCHANGED winner
     ELSE Goto(t, "mode") /\ winner' = t
  /\ UNCHANGED <<terminal, state, slot, process>>

\* restored.compare_exchange_strong(false, true)
Exchange(t) ==
  /\ At(t, "restore")
  /\ restored' = TRUE
  /\ IF restored THEN Goto(t, AfterRestore(t)) /\ UNCHANGED winner
     ELSE Goto(t, "mode") /\ winner' = t
  /\ UNCHANGED <<terminal, flags, held, slot, process>>

\* Mutant of RestoreMode: the cursor is forgotten.
RestoreModeOnly(t) ==
  /\ At(t, "mode")
  /\ raw' = (raw /\ "stdinModeChanged" \notin flags)
  /\ Goto(t, "screen")
  /\ UNCHANGED <<alt, hidden, state, slot, process, winner>>

RestoreMode(t) ==
  /\ At(t, "mode")
  /\ raw' = (raw /\ "stdinModeChanged" \notin flags)
  /\ Goto(t, "cursor")
  /\ UNCHANGED <<alt, hidden, state, slot, process, winner>>

ShowCursor(t) ==
  /\ At(t, "cursor")
  /\ hidden' = (hidden /\ "cursorHidden" \notin flags)
  /\ Goto(t, "screen")
  /\ UNCHANGED <<alt, raw, state, slot, process, winner>>

LeaveScreen(t) ==
  /\ At(t, "screen")
  /\ alt' = (alt /\ "alternateScreenEntered" \notin flags)
  /\ Goto(t, "lock-uninstall")
  /\ UNCHANGED <<hidden, raw, state, slot, process, winner>>

LockUninstall(t) == Lock(t, "lock-uninstall", "uninstall")

\* setCloseHandler(false); the handler's reference ends with its callback.
Uninstall(t) ==
  /\ At(t, "uninstall")
  /\ callback' = FALSE /\ installed' = FALSE
  /\ mutex' = "none"
  /\ Goto(t, AfterRestore(t))
  /\ UNCHANGED <<terminal, state, process, winner>>

-------------------------------------------------------------------------------
\* The system, and terminalCloseHandler() on the thread it starts.

\* The window is closed.  With no handler registered the process just ends.
Close ==
  /\ process = "running"
  /\ IF installed THEN process' = "closing" /\ Goto("handler", "lock-copy")
     ELSE process' = "ended" /\ UNCHANGED pc
  /\ UNCHANGED <<terminal, state, slot, winner>>

LockCopy == Lock("handler", "lock-copy", "copy")

\* Mutant of Copy: the callback is called with the mutex held.
CopyAndHold ==
  /\ At("handler", "copy")
  /\ Goto("handler", IF callback THEN "acquire" ELSE "return")
  /\ UNCHANGED <<terminal, state, slot, process, winner>>

\* The callback is copied and the mutex released before it is called.
Copy ==
  /\ At("handler", "copy")
  /\ mutex' = "none"
  /\ Goto("handler", IF callback THEN "acquire" ELSE "return")
  /\ UNCHANGED <<terminal, state, callback, installed, process, winner>>

\* Mutant of Acquire: the callback has a plain pointer.
AcquireUnchecked ==
  /\ At("handler", "acquire")
  /\ Goto("handler", "restore")
  /\ UNCHANGED <<terminal, state, slot, process, winner>>

\* weak.lock(): the callback does nothing once the state is gone.
Acquire ==
  /\ At("handler", "acquire")
  /\ IF held = {} THEN Goto("handler", "return") /\ UNCHANGED held
     ELSE Goto("handler", "restore") /\ held' = held \cup {"handler"}
  /\ UNCHANGED <<terminal, flags, restored, slot, process, winner>>

\* FALSE is returned: the system's default handling ends the process.
HandlerReturns ==
  /\ At("handler", "return")
  /\ process' = "ended"
  /\ UNCHANGED <<pc, terminal, state, slot, winner>>

Restore(t) == \/ Exchange(t) \/ RestoreMode(t) \/ ShowCursor(t) \/ LeaveScreen(t)
              \/ LockUninstall(t) \/ Uninstall(t)

Main == \/ EnterScreen \/ HideCursor \/ GetMode \/ SetMode \/ LockInstall \/ Install
        \/ SessionEnds \/ Destroy \/ Restore("main")

Handler == LockCopy \/ Copy \/ Acquire \/ Restore("handler") \/ HandlerReturns

Next == \/ Main \/ Handler \/ Close
        \/ (process = "ended" \/ pc["main"] = "after") /\ UNCHANGED vars

Spec == Init /\ [][Next]_vars

\* Both threads are scheduled; nothing forces the window to be closed, or the
\* user to end the checklist.
FairSpec == Spec /\ WF_vars(Main /\ ~SessionEnds) /\ WF_vars(Handler)

-------------------------------------------------------------------------------
\* Properties.

Clean == ~alt /\ ~hidden /\ ~raw

\* The two threads never restore the terminal at the same time: no escape
\* sequence is written twice or out of order by the race of the handler with
\* normal teardown.
RestoredByOne ==
  ~(pc["main"] \in Restoring /\ pc["handler"] \in Restoring)

\* Whichever step of tryCreate() failed, and whether or not a checklist ran:
\* what the caller writes next lands on the terminal as it was found, with no
\* handler left behind, unless a handler is restoring it at that moment.
NeverPartial ==
  pc["main"] = "after" /\ pc["handler"] \notin Restoring =>
    Clean /\ ~callback /\ ~installed

\* Teardown reverses the order of initialization, on either thread.
ReversesOrder == /\ hidden /\ ~hidden' => ~raw
                 /\ alt /\ ~alt' => ~raw /\ ~hidden
TeardownReverses == [][ReversesOrder]_vars

\* What the close handler has restored stays restored: the main thread makes
\* no change of its own after the handler could be started.
HandlerRestores == winner = "handler" /\ pc["handler"] = "return" => Clean

\* The handler never restores through a state that has been destroyed.
NeverUsesFreedState == pc["handler"] \in Restoring \cup {"restore"} => "handler" \in held

\* The handler's own restore() takes the mutex it has just released, so a
\* close always gets to the end of the process.
CloseEnds == process = "closing" ~> process = "ended"
===============================================================================
