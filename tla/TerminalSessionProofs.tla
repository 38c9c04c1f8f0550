-------------------------- MODULE TerminalSessionProofs --------------------------
(***************************************************************************)
(* The terminal session: what the two threads may do to the terminal, and  *)
(* to the state they share, in any order of their steps.                   *)
(***************************************************************************)
EXTENDS TerminalSession, TLAPS

\* Labels of tryCreate(): the session is not handed out yet.
Acquiring == {"enter", "hide", "getMode", "setMode", "lock-install", "install"}

\* Every change of the terminal has its flag.
Recorded ==
  /\ alt    => "alternateScreenEntered" \in flags
  /\ hidden => "cursorHidden" \in flags
  /\ raw    => "stdinModeChanged" \in flags

\* How far restore() has come, by the label of the thread that is in it.
Undone ==
  \A t \in Threads :
    /\ pc[t] \in {"cursor", "screen", "lock-uninstall", "uninstall"} => ~raw
    /\ pc[t] \in {"screen", "lock-uninstall", "uninstall"} => ~hidden
    /\ pc[t] \in {"lock-uninstall", "uninstall"} => ~alt

\* Only the thread that won the compare-exchange is past it.
OneWinner ==
  /\ restored <=> winner # "none"
  /\ \A t \in Threads : pc[t] \in Restoring => winner = t

\* The terminal is as it was found and no handler is left behind.
Released == Clean /\ ~callback /\ ~installed

\* A session is over only if somebody restores or has restored it; the winner
\* has left restore() only when everything was released.
Finished ==
  /\ pc["main"] \in {"destroy", "after"} => winner # "none"
  /\ \A t \in Threads : winner = t /\ pc[t] \notin Restoring => Released

\* The handler is started by the close event, and not before there is a session.
Started ==
  /\ process = "running" => pc["handler"] = "idle"
  /\ pc["main"] \in Acquiring =>
       ~installed /\ pc["handler"] = "idle" /\ winner = "none"

SessionInv ==
  TypeOK /\ Recorded /\ Undone /\ OneWinner /\ Finished /\ Started /\ NeverUsesFreedState

-------------------------------------------------------------------------------
LEMMA InitInv == Init => SessionInv
  <1> SUFFICES ASSUME Init PROVE SessionInv
    OBVIOUS
  <1> USE DEF Init, Threads, Restoring
  <1>1. TypeOK
    <2>1. pc = [t \in Threads |-> IF t = "main" THEN "enter" ELSE "idle"]
      OBVIOUS
    <2> QED
      BY <2>1 DEF TypeOK, Locked
  <1>2. Recorded /\ Undone /\ NeverUsesFreedState
    BY DEF Recorded, Undone, NeverUsesFreedState
  <1>3. OneWinner /\ Finished /\ Started
    BY DEF OneWinner, Finished, Started, Acquiring
  <1> QED
    BY <1>1, <1>2, <1>3 DEF SessionInv

\* A step changes the label of one thread and follows the mutex.
LEMMA StepTypes == SessionInv /\ [Next]_vars => TypeOK'
  <1> SUFFICES ASSUME SessionInv, [Next]_vars PROVE TypeOK'
    OBVIOUS
  <1> USE DEF SessionInv, TypeOK, Threads, Restoring, Locked, At, Goto, Lock, terminal, state, slot
  <1>1. CASE EnterScreen \/ HideCursor \/ GetMode
    <2>1. CASE EnterScreen
      BY <2>1 DEF EnterScreen
    <2>2. CASE HideCursor
      BY <2>2 DEF HideCursor
    <2>3. CASE GetMode
      BY <2>3 DEF GetMode
    <2> QED
      BY <1>1, <2>1, <2>2, <2>3
  <1>2. CASE SetMode
    <2>1. PICK label \in {"lock-install", "restore"} :
            pc["main"] = "setMode" /\ pc' = [pc EXCEPT !["main"] = label]
      BY <1>2 DEF SetMode
    <2>2. /\ pc' \in [Threads -> {"enter", "hide", "getMode", "setMode", "lock-install",
                                  "install", "session", "restore", "destroy", "after",
                                  "idle", "lock-copy", "copy", "acquire", "return"}
                                    \cup Restoring]
          /\ \A t \in Threads : mutex = t <=> pc'[t] \in Locked
      BY <2>1
    <2>3. raw' \in BOOLEAN
      BY <1>2, Zenon DEF SetMode
    <2>4. flags' \subseteq {"alternateScreenEntered", "cursorHidden", "stdinModeChanged"}
      BY <1>2 DEF SetMode
    <2>5. UNCHANGED <<alt, hidden, restored, held, mutex, callback, installed, process, winner>>
      BY <1>2 DEF SetMode
    <2> QED
      BY <2>2, <2>3, <2>4, <2>5
  <1>3. CASE LockInstall \/ Install \/ SessionEnds \/ Destroy
    <2>1. CASE LockInstall
      BY <2>1 DEF LockInstall
    <2>2. CASE Install
      BY <2>2 DEF Install
    <2>3. CASE SessionEnds
      BY <2>3 DEF SessionEnds
    <2>4. CASE Destroy
      BY <2>4 DEF Destroy
    <2> QED
      BY <1>3, <2>1, <2>2, <2>3, <2>4
  <1>4. ASSUME NEW t \in Threads, Restore(t) PROVE TypeOK'
    <2>1. CASE Exchange(t)
      BY <2>1 DEF Exchange, AfterRestore
    <2>2. CASE RestoreMode(t)
      <3>1. raw' \in BOOLEAN
        BY <2>2, Zenon DEF RestoreMode
      <3> QED
        BY <2>2, <3>1 DEF RestoreMode
    <2>3. CASE ShowCursor(t)
      <3>1. hidden' \in BOOLEAN
        BY <2>3, Zenon DEF ShowCursor
      <3> QED
        BY <2>3, <3>1 DEF ShowCursor
    <2>4. CASE LeaveScreen(t)
      <3>1. alt' \in BOOLEAN
        BY <2>4, Zenon DEF LeaveScreen
      <3> QED
        BY <2>4, <3>1 DEF LeaveScreen
    <2>5. CASE LockUninstall(t)
      BY <2>5 DEF LockUninstall
    <2>6. CASE Uninstall(t)
      <3>1. AfterRestore(t) \in {"destroy", "return"}
        BY DEF AfterRestore
      <3>2. mutex = t /\ mutex' = "none" /\ pc' = [pc EXCEPT ![t] = AfterRestore(t)]
        BY <2>6 DEF Uninstall
      <3>3. PICK label \in {"destroy", "return"} : pc' = [pc EXCEPT ![t] = label]
        BY <3>1, <3>2
      <3>4. /\ callback' \in BOOLEAN /\ installed' \in BOOLEAN
            /\ UNCHANGED <<alt, hidden, raw, flags, restored, held, process, winner>>
        BY <2>6 DEF Uninstall
      <3> QED
        BY <3>2, <3>3, <3>4
    <2> QED
      BY <1>4, <2>1, <2>2, <2>3, <2>4, <2>5, <2>6 DEF Restore
  <1>5. CASE LockCopy \/ Copy
    <2>1. CASE LockCopy
      BY <2>1 DEF LockCopy
    <2>2. CASE Copy
      <3>1. PICK label \in {"acquire", "return"} :
              pc["handler"] = "copy" /\ mutex' = "none" /\ pc' = [pc EXCEPT !["handler"] = label]
        BY <2>2 DEF Copy
      <3> QED
        BY <2>2, <3>1 DEF Copy
    <2> QED
      BY <1>5, <2>1, <2>2
  <1>6. CASE Acquire \/ HandlerReturns
    <2>1. CASE Acquire
      <3>1. PICK label \in {"restore", "return"} :
              pc["handler"] = "acquire" /\ pc' = [pc EXCEPT !["handler"] = label]
        BY <2>1 DEF Acquire
      <3>2. held' \subseteq Threads
        BY <2>1 DEF Acquire
      <3> QED
        BY <2>1, <3>1, <3>2 DEF Acquire
    <2>2. CASE HandlerReturns
      BY <2>2 DEF HandlerReturns
    <2> QED
      BY <1>6, <2>1, <2>2
  <1>7. CASE Close
    BY <1>7 DEF Close, Started
  <1>8. CASE UNCHANGED vars
    BY <1>8 DEF vars
  <1> QED
    BY <1>1, <1>2, <1>3, <1>4, <1>5, <1>6, <1>7, <1>8 DEF Next, Main, Handler

\* Steps of tryCreate(): nobody restores yet, and what is changed is recorded.
LEMMA AcquisitionInv ==
  ASSUME SessionInv, TypeOK',
         EnterScreen \/ HideCursor \/ GetMode \/ SetMode \/ LockInstall \/ Install
  PROVE  SessionInv'
  <1>1. /\ pc["main"] \in Acquiring
        /\ \E label \in Acquiring \cup {"session", "restore"} : pc' = [pc EXCEPT !["main"] = label]
        /\ pc["main"] # "install" => UNCHANGED <<callback, installed>>
        /\ pc["main"] = "install" => pc'["main"] = "session"
        /\ UNCHANGED <<restored, held, process, winner>>
    BY DEF SessionInv, TypeOK, Threads, EnterScreen, HideCursor, GetMode, SetMode, LockInstall, Install,
           Lock, At, Goto, Acquiring, terminal, state, slot
  <1>2. Recorded'
    BY DEF SessionInv, Recorded, EnterScreen, HideCursor, GetMode, SetMode, LockInstall, Install,
           Lock, terminal, state
  <1>3. winner = "none" /\ pc["handler"] = "idle" /\ ~installed
    BY <1>1 DEF SessionInv, Started
  <1>4. /\ pc'["handler"] = "idle"
        /\ pc'["main"] \in Acquiring \cup {"session", "restore"}
    BY <1>1, <1>3 DEF SessionInv, TypeOK, Threads
  <1>5. Undone' /\ OneWinner'
    BY <1>1, <1>3, <1>4 DEF SessionInv, Undone, OneWinner, Threads, Restoring, Acquiring
  <1>6. Finished'
    BY <1>1, <1>3, <1>4 DEF Finished, Threads, Acquiring
  <1>7. Started' /\ NeverUsesFreedState'
    BY <1>1, <1>3, <1>4 DEF SessionInv, Started, NeverUsesFreedState, Acquiring, Restoring
  <1> QED
    BY <1>2, <1>5, <1>6, <1>7 DEF SessionInv

\* Steps of restore() past the compare-exchange, which one thread alone makes.
LEMMA UndoInv ==
  ASSUME SessionInv, TypeOK', NEW t \in Threads,
         RestoreMode(t) \/ ShowCursor(t) \/ LeaveScreen(t) \/ LockUninstall(t) \/ Uninstall(t)
  PROVE  SessionInv'
  <1>1. /\ winner = t /\ restored
        /\ pc["main"] \notin Acquiring
        /\ \A u \in Threads \ {t} : pc[u] \notin Restoring
    BY DEF SessionInv, OneWinner, Started, RestoreMode, ShowCursor, LeaveScreen, LockUninstall,
           Uninstall, Lock, At, Acquiring, Restoring, Threads
  <1>2. /\ process # "ended"
        /\ UNCHANGED <<flags, restored, held, process, winner>>
        /\ (alt' => alt) /\ (hidden' => hidden) /\ (raw' => raw)
        /\ (installed' => installed)
    <2>1. CASE RestoreMode(t)
      BY <2>1, Zenon DEF RestoreMode, At, state, slot
    <2>2. CASE ShowCursor(t)
      BY <2>2, Zenon DEF ShowCursor, At, state, slot
    <2>3. CASE LeaveScreen(t)
      BY <2>3, Zenon DEF LeaveScreen, At, state, slot
    <2>4. CASE LockUninstall(t) \/ Uninstall(t)
      BY <2>4 DEF LockUninstall, Uninstall, Lock, At, terminal, state
    <2> QED
      BY <2>1, <2>2, <2>3, <2>4
  <1>3. Recorded'
    BY <1>2 DEF SessionInv, Recorded
  <1>4. /\ \A u \in Threads \ {t} : pc'[u] = pc[u]
        /\ pc[t] \in Restoring
        /\ pc'[t] \in Restoring \cup {AfterRestore(t)}
    BY DEF SessionInv, TypeOK, RestoreMode, ShowCursor, LeaveScreen, LockUninstall,
           Uninstall, Lock, At, Goto, Restoring
  <1>5. Undone'
    <2>1. ASSUME NEW u \in Threads \ {t}, pc'[u] \in Restoring PROVE FALSE
      BY <1>1, <1>4, <2>1
    <2>2. /\ pc'[t] \in {"cursor", "screen", "lock-uninstall", "uninstall"} => ~raw'
          /\ pc'[t] \in {"screen", "lock-uninstall", "uninstall"} => ~hidden'
          /\ pc'[t] \in {"lock-uninstall", "uninstall"} => ~alt'
      <3> USE DEF SessionInv, TypeOK, Recorded, Undone, At, Goto, AfterRestore
      <3>1. CASE RestoreMode(t)
        BY <3>1 DEF RestoreMode
      <3>2. CASE ShowCursor(t)
        BY <3>2 DEF ShowCursor
      <3>3. CASE LeaveScreen(t)
        BY <3>3 DEF LeaveScreen
      <3>4. CASE LockUninstall(t)
        BY <3>4 DEF LockUninstall, Lock, terminal
      <3>5. CASE Uninstall(t)
        BY <3>5 DEF Uninstall
      <3> QED
        BY <3>1, <3>2, <3>3, <3>4, <3>5
    <2> QED
      BY <2>1, <2>2 DEF Undone, Restoring
  <1>6. OneWinner'
    BY <1>1, <1>2, <1>4 DEF OneWinner, SessionInv
  <1>7. Finished'
    <2>1. ASSUME pc'[t] \notin Restoring PROVE Released'
      <3>1. Uninstall(t)
        BY <2>1 DEF SessionInv, TypeOK, RestoreMode, ShowCursor, LeaveScreen, LockUninstall, Lock, Goto, Restoring
      <3>2. pc[t] = "uninstall" /\ UNCHANGED terminal /\ ~callback' /\ ~installed'
        BY <3>1 DEF Uninstall, At
      <3>3. ~alt /\ ~hidden /\ ~raw
        BY <3>2 DEF SessionInv, Undone
      <3> QED
        BY <3>2, <3>3 DEF Released, Clean, terminal
    <2> QED
      BY <1>1, <1>2, <2>1 DEF Finished, Threads
  <1>8. Started'
    <2>1. pc'["main"] \notin Acquiring
      BY <1>1, <1>4 DEF AfterRestore, Threads, Acquiring, Restoring
    <2>2. pc["handler"] = "idle" => pc'["handler"] = "idle"
      BY <1>4 DEF Threads, Restoring
    <2> QED
      BY <1>2, <2>1, <2>2 DEF SessionInv, Started
  <1>9. NeverUsesFreedState'
    BY <1>2, <1>4 DEF SessionInv, NeverUsesFreedState, AfterRestore, Threads, Restoring
  <1> QED
    BY <1>3, <1>5, <1>6, <1>7, <1>8, <1>9 DEF SessionInv

\* The compare-exchange, on either thread.
LEMMA ExchangeInv ==
  ASSUME SessionInv, TypeOK', NEW t \in Threads, Exchange(t)
  PROVE  SessionInv'
  <1>1. /\ pc[t] = "restore" /\ restored'
        /\ pc' = [pc EXCEPT ![t] = IF restored THEN AfterRestore(t) ELSE "mode"]
        /\ winner' = IF restored THEN winner ELSE t
        /\ UNCHANGED <<alt, hidden, raw, flags, held, mutex, callback, installed, process>>
    BY DEF Exchange, At, Goto, terminal, slot
  <1>2. pc["main"] \notin Acquiring /\ pc'["main"] \notin Acquiring
    BY <1>1 DEF SessionInv, TypeOK, Started, Threads, AfterRestore, Acquiring
  <1>3. /\ pc'[t] = IF restored THEN AfterRestore(t) ELSE "mode"
        /\ \A u \in Threads \ {t} : pc'[u] = pc[u]
    BY <1>1 DEF SessionInv, TypeOK
  <1>4. Recorded'
    BY <1>1 DEF SessionInv, Recorded
  <1>5. Undone'
    BY <1>1, <1>3 DEF SessionInv, Undone, AfterRestore
  <1>6. OneWinner'
    BY <1>1, <1>3 DEF SessionInv, OneWinner, AfterRestore, Threads, Restoring
  <1>7. Finished'
    BY <1>1, <1>3 DEF SessionInv, OneWinner, Finished, Released, Clean, AfterRestore, Threads, Restoring
  <1>8. Started'
    BY <1>1, <1>2, <1>3 DEF SessionInv, Started, Threads
  <1>9. NeverUsesFreedState'
    BY <1>1, <1>3 DEF SessionInv, NeverUsesFreedState, AfterRestore, Threads, Restoring
  <1> QED
    BY <1>4, <1>5, <1>6, <1>7, <1>8, <1>9 DEF SessionInv

\* The rest of the main thread's steps and of the handler's, and the close event.
LEMMA OtherInv ==
  ASSUME SessionInv, TypeOK',
         SessionEnds \/ Destroy \/ LockCopy \/ Copy \/ Acquire \/ HandlerReturns \/ Close
  PROVE  SessionInv'
  <1>1. /\ UNCHANGED <<alt, hidden, raw, flags, restored, callback, installed, winner>>
        /\ ("handler" \in held => "handler" \in held')
    BY DEF SessionEnds, Destroy, LockCopy, Copy, Acquire, HandlerReturns, Close, Lock,
           terminal, state, slot
  <1>2. \/ /\ pc["main"] \in {"session", "destroy"} /\ pc'["handler"] = pc["handler"]
           /\ pc'["main"] = (IF pc["main"] = "session" THEN "restore" ELSE "after")
           /\ process' = process
        \/ /\ pc["handler"] \in {"lock-copy", "copy", "acquire", "return"}
           /\ pc'["main"] = pc["main"]
           /\ pc'["handler"] \in {"copy", "acquire", "restore", "return"}
           /\ process' # "running" \/ process' = process
           /\ pc'["handler"] = "restore" => "handler" \in held'
        \/ /\ process = "running" /\ process' # "running" /\ pc'["main"] = pc["main"]
           /\ \/ installed /\ pc'["handler"] = "lock-copy"
              \/ pc'["handler"] = pc["handler"]
    <2> USE DEF SessionInv, TypeOK, Threads, At, Goto
    <2>1. CASE SessionEnds \/ Destroy
      BY <2>1 DEF SessionEnds, Destroy
    <2>2. CASE LockCopy \/ Copy
      BY <2>2 DEF LockCopy, Copy, Lock
    <2>3. CASE Acquire
      BY <2>3 DEF Acquire
    <2>4. CASE HandlerReturns
      BY <2>4 DEF HandlerReturns
    <2>5. CASE Close
      BY <2>5 DEF Close
    <2> QED
      BY <2>1, <2>2, <2>3, <2>4, <2>5
  <1> USE DEF SessionInv, Threads, Restoring
  <1>3. Recorded'
    BY <1>1 DEF Recorded
  <1>4. Undone'
    BY <1>1, <1>2 DEF Undone
  <1>5. OneWinner'
    BY <1>1, <1>2 DEF OneWinner
  <1>6. Finished'
    BY <1>1, <1>2 DEF Finished, Released, Clean, Started
  <1>7. Started'
    BY <1>1, <1>2 DEF Started, Acquiring
  <1>8. NeverUsesFreedState'
    BY <1>1, <1>2 DEF NeverUsesFreedState
  <1> QED
    BY <1>3, <1>4, <1>5, <1>6, <1>7, <1>8

LEMMA NextInv == SessionInv /\ [Next]_vars => SessionInv'
  <1> SUFFICES ASSUME SessionInv, [Next]_vars PROVE SessionInv'
    OBVIOUS
  <1>1. TypeOK'
    BY StepTypes
  <1>2. CASE EnterScreen \/ HideCursor \/ GetMode \/ SetMode \/ LockInstall \/ Install
    BY <1>1, <1>2, AcquisitionInv
  <1>3. ASSUME NEW t \in Threads, Restore(t) PROVE SessionInv'
    BY <1>1, <1>3, ExchangeInv, UndoInv DEF Restore
  <1>4. CASE SessionEnds \/ Destroy \/ LockCopy \/ Copy \/ Acquire \/ HandlerReturns \/ Close
    BY <1>1, <1>4, OtherInv
  <1>5. CASE UNCHANGED vars
    BY <1>5 DEF SessionInv, TypeOK, Recorded, Undone, OneWinner, Finished, Released, Clean, Started,
                NeverUsesFreedState, vars, terminal, state, slot
  <1> QED
    BY <1>2, <1>3, <1>4, <1>5 DEF Next, Main, Handler, Threads

-------------------------------------------------------------------------------
THEOREM InvHolds == Spec => []SessionInv
  BY InitInv, NextInv, PTL DEF Spec

\* The types, and that the mutex is held in the locked sections only, by the
\* thread that is in one: restore() on the handler's thread does not find it
\* held by its own caller.
THEOREM TypeCorrect == Spec => []TypeOK
  <1>1. SessionInv => TypeOK
    BY DEF SessionInv
  <1> QED
    BY <1>1, InvHolds, PTL

\* The handler and normal teardown never restore the terminal at the same time.
THEOREM RaceCorrect == Spec => []RestoredByOne
  <1>1. SessionInv => RestoredByOne
    BY DEF SessionInv, OneWinner, RestoredByOne, Threads
  <1> QED
    BY <1>1, InvHolds, PTL

\* Whichever step of the acquisition failed, and whether or not there was a
\* session, the terminal is left as it was found.
THEOREM UnwindCorrect == Spec => []NeverPartial
  <1>1. SessionInv => NeverPartial
    BY DEF SessionInv, TypeOK, OneWinner, Finished, Released, NeverPartial, Threads, Restoring
  <1> QED
    BY <1>1, InvHolds, PTL

\* What the close handler restored stays restored.
THEOREM HandlerCorrect == Spec => []HandlerRestores
  <1>1. SessionInv => HandlerRestores
    BY DEF SessionInv, Finished, Released, HandlerRestores, Threads, Restoring
  <1> QED
    BY <1>1, InvHolds, PTL

\* The handler restores only through a state that it keeps alive itself.
THEOREM LifetimeCorrect == Spec => []NeverUsesFreedState
  <1>1. SessionInv => NeverUsesFreedState
    BY DEF SessionInv
  <1> QED
    BY <1>1, InvHolds, PTL

\* On either thread the input mode comes first, then the cursor, then the
\* screen: the reverse of the acquisition.
THEOREM TeardownCorrect == Spec => TeardownReverses
  <1>1. SessionInv /\ [Next]_vars => [ReversesOrder]_vars
    <2> SUFFICES ASSUME SessionInv, Next PROVE ReversesOrder
      OBVIOUS
    <2>1. ASSUME NEW t \in Threads, ShowCursor(t) PROVE ReversesOrder
      BY <2>1 DEF SessionInv, Undone, ShowCursor, At, ReversesOrder
    <2>2. ASSUME NEW t \in Threads, LeaveScreen(t) PROVE ReversesOrder
      BY <2>2 DEF SessionInv, Undone, LeaveScreen, At, ReversesOrder
    <2>3. CASE (hidden => hidden') /\ (alt => alt')
      BY <2>3 DEF ReversesOrder
    <2> QED
      BY <2>1, <2>2, <2>3 DEF Next, Main, Handler, Restore, Threads, vars, terminal, state,
         EnterScreen, HideCursor, GetMode, SetMode, LockInstall, Install, SessionEnds, Destroy,
         Exchange, RestoreMode, LockUninstall, Uninstall, LockCopy, Copy, Acquire, HandlerReturns,
         Close, Lock
  <1> QED
    BY <1>1, InvHolds, PTL DEF Spec, TeardownReverses
===============================================================================
