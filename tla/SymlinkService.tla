---------------------------- MODULE SymlinkService ----------------------------
(***************************************************************************)
(* repairLink() of core/SymlinkService.cpp on the production operations,   *)
(* together with the two inspectLink() calls it makes.                     *)
(*                                                                         *)
(* A call is one repairLink() invocation; several calls run at once when   *)
(* several instances of the program do.  Every Win32 call that reads or    *)
(* changes the file system is a step of its own, so other calls and other  *)
(* processes (Interfere) can act between any two of them; what the code    *)
(* computes between two Win32 calls is part of the step of the first one.  *)
(*                                                                         *)
(* Deletion is what SetFileInformationByHandle(FileDispositionInfo) does:  *)
(* it marks the entry, nobody can open it or its name from then on, and it *)
(* goes when the last handle on it is closed, whoever has that one.        *)
(***************************************************************************)
EXTENDS LinkInspector, Naturals

CONSTANTS
  Links,           \* link paths, Links\<alias>.exe
  Calls,           \* repairLink() invocations
  LinkOf,          \* candidate.linkPath of a call
  ExeOf,           \* candidate.executable.path of a call
  ModeOf,          \* RepairMode of a call
  Faults,          \* errors a Win32 call may fail with whatever the entry is
  Killable,        \* calls whose process may end at any point
  Holdable,        \* link paths other processes may have open
  MaxInterference  \* bound on the changes other processes make

RepairMode == {"Execute", "DryRun"}

Win32Error == {"ACCESS_DENIED", "PRIVILEGE_NOT_HELD", "SHARING_VIOLATION"}

ASSUME CallAssumption ==
  /\ LinkOf \in [Calls -> Links]
  /\ ExeOf \in [Calls -> Paths]
  /\ ModeOf \in [Calls -> RepairMode]
  /\ Faults \subseteq Win32Error
  /\ Killable \subseteq Calls
  /\ Holdable \subseteq Links
  /\ MaxInterference \in Nat

VARIABLES
  entry,         \* the directory entry at each link path
  pending,       \* the entry at a link path is marked as deleted
  held,          \* another process has the entry open, sharing deletion
  file,          \* the identity found behind each path, or NoFile
  interference,  \* number of changes made by other processes so far
  pc,            \* the Win32 call a repairLink() invocation makes next
  target,        \* inspectLink(): decodedTarget of the inspection under way
  targetId,      \* inspectLink(): targetIdentity of the inspection under way
  fresh,         \* fresh.status, "Unknown" until the first inspection ends
  handle,        \* the call has a handle open on the entry at the path
  answer         \* what the call returned or threw

folder == <<entry, pending, held, handle>>
vars   == <<folder, file, interference, pc, target, targetId, fresh, answer>>

SymlinkRepairOutcome == {"SkippedOk", "RefusedMismatch", "WouldCreate",
                         "WouldReplaceBroken", "Created", "ReplacedBroken"}
SymlinkServiceErrorKind == {"InsufficientPermission", "DeleteFailed",
                            "CreateFailed", "VerificationFailed"}
Answer == SymlinkRepairOutcome \cup SymlinkServiceErrorKind
            \cup {"LinkInspectionError", "invalid_argument"}

Label == {"attributes", "reparse", "closeLink", "target", "executable", "open",
          "dispose", "closeEntry", "create", "done", "killed"}

TypeOK ==
  /\ entry \in [Links -> Entry]
  /\ pending \in [Links -> BOOLEAN]
  /\ held \in [Links -> BOOLEAN]
  /\ file \in [Paths -> FileIds \cup {NoFile}]
  /\ interference \in 0 .. MaxInterference
  /\ pc \in [Calls -> Label]
  /\ target \in [Calls -> Paths \cup {NoPath}]
  /\ \A c \in Calls : pc[c] \in {"target", "executable"} => target[c] # NoPath
  /\ targetId \in [Calls -> FileIds \cup {NoFile}]
  /\ fresh \in [Calls -> LinkStatus \cup {"Unknown"}]
  /\ handle \in [Calls -> BOOLEAN]
  /\ answer \in [Calls -> Answer \cup {"none"}]

Init ==
  /\ entry \in [Links -> Entry]
  /\ pending = [l \in Links |-> FALSE]
  /\ held = [l \in Links |-> FALSE]
  /\ file \in [Paths -> FileIds \cup {NoFile}]
  /\ interference = 0
  /\ pc = [c \in Calls |-> "attributes"]
  /\ target = [c \in Calls |-> NoPath]
  /\ targetId = [c \in Calls |-> NoFile]
  /\ fresh = [c \in Calls |-> "Unknown"]
  /\ handle = [c \in Calls |-> FALSE]
  /\ answer = [c \in Calls |-> "none"]

-------------------------------------------------------------------------------
(***************************************************************************)
(* Control flow of one call.                                               *)
(***************************************************************************)
Goto(c, label) == /\ pc' = [pc EXCEPT ![c] = label]
                  /\ UNCHANGED answer

Return(c, a) == /\ pc' = [pc EXCEPT ![c] = "done"]
                /\ answer' = [answer EXCEPT ![c] = a]

dryRunOutcomeFor(status) ==
  CASE status = "Missing"  -> "WouldCreate"
    [] status = "Broken"   -> "WouldReplaceBroken"
    [] status = "Ok"       -> "SkippedOk"
    [] status = "Mismatch" -> "RefusedMismatch"

\* Mutant of buildError: the Win32 code itself is reported.
buildErrorRaw(kind, error) == error

\* The kind of the SymlinkServiceError thrown for a Win32 error.
buildError(kind, error) ==
  IF error \in {"ACCESS_DENIED", "PRIVILEGE_NOT_HELD"}
  THEN "InsufficientPermission"
  ELSE kind

\* validateObservation() and repairLink()'s own check of a Broken status.
Rejected(o) == \/ ~ValidObservation(o)
               \/ StatusFor(o) = "Broken" /\ o.entryKind # "SymbolicLink"

\* Mutant of Decide: a Broken link is recreated without being deleted first.
DecideNoDelete(c, o) ==
  LET status == StatusFor(o) IN
  /\ fresh' = [fresh EXCEPT ![c] = status]
  /\ IF ModeOf[c] = "DryRun" \/ status \in {"Ok", "Mismatch"}
     THEN Return(c, dryRunOutcomeFor(status))
     ELSE Goto(c, "create")

\* The first inspection ended with o: repairLink() chooses what to do.
Decide(c, o) ==
  LET status == StatusFor(o) IN
  /\ fresh' = [fresh EXCEPT ![c] = status]
  /\ IF Rejected(o) THEN Return(c, "invalid_argument")
     ELSE IF ModeOf[c] = "DryRun" \/ status \in {"Ok", "Mismatch"}
          THEN Return(c, dryRunOutcomeFor(status))
          ELSE Goto(c, IF status = "Broken" THEN "open" ELSE "create")

\* Mutants of Verify: any result passes; a failure is inspected again.
VerifyAnything(c, o) ==
  /\ UNCHANGED fresh
  /\ Return(c, IF fresh[c] = "Broken" THEN "ReplacedBroken" ELSE "Created")

VerifyRetrying(c, o) ==
  /\ UNCHANGED fresh
  /\ IF StatusFor(o) # "Ok" THEN Goto(c, "attributes")
     ELSE Return(c, IF fresh[c] = "Broken" THEN "ReplacedBroken" ELSE "Created")

\* The inspection after the creation ended with o.
Verify(c, o) ==
  /\ UNCHANGED fresh
  /\ Return(c, IF ~ValidObservation(o) THEN "invalid_argument"
               ELSE IF StatusFor(o) # "Ok" THEN "VerificationFailed"
                    ELSE IF fresh[c] = "Broken" THEN "ReplacedBroken" ELSE "Created")

Classified(c, o) == IF fresh[c] = "Unknown" THEN Decide(c, o) ELSE Verify(c, o)

\* A Win32 error of an inspection propagates out of repairLink().
InspectionFails(c) == /\ Return(c, "LinkInspectionError")
                      /\ UNCHANGED fresh

-------------------------------------------------------------------------------
(***************************************************************************)
(* Entries and the handles open on them.  Any change of an entry puts      *)
(* another object at its path, and no handle that was open on the old one  *)
(* denotes the new one: other processes are taken to replace entries       *)
(* (delete, rename, create), not to rewrite the reparse data of the open   *)
(* object in place.                                                        *)
(***************************************************************************)
SetEntry(l, e) ==
  /\ entry' = [entry EXCEPT ![l] = e]
  /\ pending' = [pending EXCEPT ![l] = FALSE]
  /\ held' = [held EXCEPT ![l] = FALSE]
  /\ handle' = [c \in Calls |-> handle[c] /\ LinkOf[c] # l]

OpenHandle(c) == /\ handle' = [handle EXCEPT ![c] = TRUE]
                 /\ UNCHANGED <<entry, pending, held>>

HoldersOf(l) == {c \in Calls : handle[c] /\ LinkOf[c] = l}

\* A marked entry goes with the last handle on it.  A handle that denotes
\* nothing at the path any more closes without effect.
CloseHandle(c) ==
  LET l == LinkOf[c] IN
  IF pending[l] /\ ~held[l] /\ HoldersOf(l) = {c}
  THEN SetEntry(l, Absent)
  ELSE /\ handle' = [handle EXCEPT ![c] = FALSE]
       /\ UNCHANGED <<entry, pending, held>>

-------------------------------------------------------------------------------
(***************************************************************************)
(* inspectLink(), run for the decision and again for the verification.     *)
(***************************************************************************)
\* What can be opened at a link path, or asked for its attributes: a marked
\* entry denies access.
Reachable(l) == IF pending[l] THEN "marked" ELSE entry[l].kind

\* GetFileAttributesW on the link path.
ReadAttributes(c) ==
  LET kind == Reachable(LinkOf[c]) IN
  /\ pc[c] = "attributes"
  /\ \/ kind = "absent" /\ Classified(c, Unlinked("None"))
     \/ kind = "plain" /\ Classified(c, Unlinked("RegularFile"))
     \/ kind = "dirlink" /\ Classified(c, Unlinked("OtherReparsePoint"))
     \/ kind \in {"foreign", "symlink"} /\ Goto(c, "reparse") /\ UNCHANGED fresh
     \/ (kind = "marked" \/ Faults # {}) /\ InspectionFails(c)
  /\ UNCHANGED <<folder, file, interference, target, targetId>>

\* readSymbolicLinkTarget(): the open and the query.  The entry may no longer
\* be what its attributes said: one that vanished or is marked fails the open,
\* a file that is no reparse point or carries another tag decodes to
\* std::nullopt, and a directory link decodes.
ReadReparsePoint(c) ==
  LET l == LinkOf[c] IN
  /\ pc[c] = "reparse"
  /\ \/ /\ Reachable(l) \in {"symlink", "dirlink", "plain", "foreign"}
        /\ target' = [target EXCEPT ![c] = entry[l].target]
        /\ OpenHandle(c)
        /\ Goto(c, "closeLink")
        /\ UNCHANGED fresh
     \/ /\ Reachable(l) \in {"absent", "marked"} \/ Faults # {}
        /\ InspectionFails(c)
        /\ UNCHANGED <<folder, target>>
  /\ UNCHANGED <<file, interference, targetId>>

\* Mutant of CloseReparsePoint: an undecodable reparse point is still reported
\* as a symbolic link, with no target.
CloseReparsePointBlind(c) ==
  /\ pc[c] = "closeLink"
  /\ CloseHandle(c)
  /\ \/ target[c] # NoPath /\ Goto(c, "target") /\ UNCHANGED fresh
     \/ target[c] = NoPath /\ Classified(c, Linked(NoPath, "Missing"))
  /\ UNCHANGED <<file, interference, target, targetId>>

\* readSymbolicLinkTarget() returns, and closes what it had opened.
CloseReparsePoint(c) ==
  /\ pc[c] = "closeLink"
  /\ CloseHandle(c)
  /\ \/ target[c] # NoPath /\ Goto(c, "target") /\ UNCHANGED fresh
     \/ target[c] = NoPath /\ Classified(c, Unlinked("OtherReparsePoint"))
  /\ UNCHANGED <<file, interference, target, targetId>>

\* tryGetFileIdentity(*decodedTarget): only a clean absence is a status.
ReadTarget(c) ==
  LET found == file[target[c]] IN
  /\ pc[c] = "target"
  /\ \/ /\ found = NoFile
        /\ Classified(c, Linked(target[c], "Missing"))
        /\ UNCHANGED targetId
     \/ /\ found # NoFile
        /\ targetId' = [targetId EXCEPT ![c] = found]
        /\ Goto(c, "executable")
        /\ UNCHANGED fresh
     \/ Faults # {} /\ InspectionFails(c) /\ UNCHANGED targetId
  /\ UNCHANGED <<folder, file, interference, target>>

\* getFileIdentity(executable.path): its absence is an error, not a status.
ReadExecutable(c) ==
  LET found == file[ExeOf[c]] IN
  /\ pc[c] = "executable"
  /\ \/ /\ found # NoFile
        /\ Classified(c, Linked(target[c], Relation(targetId[c], found)))
     \/ found = NoFile /\ InspectionFails(c)
     \/ Faults # {} /\ InspectionFails(c)
  /\ UNCHANGED <<folder, file, interference, target, targetId>>

-------------------------------------------------------------------------------
(***************************************************************************)
(* The mutation.                                                           *)
(***************************************************************************)
\* Mutant of OpenEntry: what was opened is not checked.
OpenEntryUnchecked(c) ==
  /\ pc[c] = "open"
  /\ Reachable(LinkOf[c]) \notin {"absent", "marked"}
  /\ Goto(c, "dispose")
  /\ OpenHandle(c)
  /\ UNCHANGED <<file, interference, target, targetId, fresh>>

\* deleteEntry: the open, and the check of what the handle is open on.
OpenEntry(c) ==
  LET kind == Reachable(LinkOf[c]) IN
  /\ pc[c] = "open"
  /\ \/ /\ kind = "symlink"
        /\ Goto(c, "dispose")
        /\ OpenHandle(c)
     \/ /\ \/ /\ kind = "marked"
              /\ Return(c, buildError("DeleteFailed", "ACCESS_DENIED"))
           \/ /\ kind = "absent"
              /\ Return(c, buildError("DeleteFailed", "FILE_NOT_FOUND"))
           \/ /\ kind \in {"plain", "foreign", "dirlink"}
              /\ Return(c, buildError("DeleteFailed", "INVALID_DATA"))
           \/ \E error \in Faults : Return(c, buildError("DeleteFailed", error))
        /\ UNCHANGED folder
  /\ UNCHANGED <<file, interference, target, targetId, fresh>>

\* deleteEntry: the disposition set through the handle.  When the object has
\* already left the path, this may succeed without touching the entry there
\* now, or fail; the handle is closed on the way out.
DisposeEntry(c) ==
  /\ pc[c] = "dispose"
  /\ \/ /\ pending' = [pending EXCEPT ![LinkOf[c]] = @ \/ handle[c]]
        /\ Goto(c, "closeEntry")
        /\ UNCHANGED <<entry, held, handle>>
     \/ /\ ~handle[c]
        /\ Return(c, buildError("DeleteFailed", "FILE_NOT_FOUND"))
        /\ UNCHANGED folder
     \/ /\ \E error \in Faults : Return(c, buildError("DeleteFailed", error))
        /\ CloseHandle(c)
  /\ UNCHANGED <<file, interference, target, targetId, fresh>>

\* deleteEntry returns, and closes its handle.
CloseEntry(c) ==
  /\ pc[c] = "closeEntry"
  /\ CloseHandle(c)
  /\ Goto(c, "create")
  /\ UNCHANGED <<file, interference, target, targetId, fresh>>

\* CreateSymbolicLinkW; it does not look at the target.
CreateLink(c) ==
  LET l == LinkOf[c] IN
  /\ pc[c] = "create"
  /\ \/ /\ Reachable(l) = "absent"
        /\ SetEntry(l, Symlink(ExeOf[c]))
        /\ Goto(c, "attributes")
     \/ /\ \/ /\ Reachable(l) = "marked"
              /\ Return(c, buildError("CreateFailed", "ACCESS_DENIED"))
           \/ /\ Reachable(l) \notin {"absent", "marked"}
              /\ Return(c, buildError("CreateFailed", "ALREADY_EXISTS"))
           \/ \E error \in Faults : Return(c, buildError("CreateFailed", error))
        /\ UNCHANGED folder
  /\ UNCHANGED <<file, interference, target, targetId, fresh>>

-------------------------------------------------------------------------------
(***************************************************************************)
(* The environment: a process that ends, and other processes at work on    *)
(* the Links folder (winget itself) and on the package folders.            *)
(***************************************************************************)
Kill(c) ==
  /\ c \in Killable
  /\ pc[c] \notin {"done", "killed"}
  /\ pc' = [pc EXCEPT ![c] = "killed"]
  /\ CloseHandle(c)
  /\ UNCHANGED <<file, interference, target, targetId, fresh, answer>>

\* A marked entry cannot be renamed, opened or replaced.
ReplaceEntry(l, e) ==
  /\ e # entry[l] /\ ~pending[l]
  /\ SetEntry(l, e)
  /\ UNCHANGED file

ReplaceFile(p, f) ==
  /\ f # file[p]
  /\ file' = [file EXCEPT ![p] = f]
  /\ UNCHANGED folder

Interfere ==
  /\ interference < MaxInterference
  /\ interference' = interference + 1
  /\ \/ \E l \in Links, e \in Entry : ReplaceEntry(l, e)
     \/ \E p \in Paths, f \in FileIds \cup {NoFile} : ReplaceFile(p, f)
  /\ UNCHANGED <<pc, target, targetId, fresh, answer>>

\* A virus scanner, an indexer or the Explorer opens the entry.
Hold(l) ==
  /\ l \in Holdable
  /\ Reachable(l) \notin {"absent", "marked"} /\ ~held[l]
  /\ held' = [held EXCEPT ![l] = TRUE]
  /\ UNCHANGED <<entry, pending, handle, file, interference, pc, target, targetId, fresh, answer>>

\* It closes the entry again.
Release(l) ==
  /\ held[l]
  /\ IF pending[l] /\ HoldersOf(l) = {}
     THEN SetEntry(l, Absent)
     ELSE /\ held' = [held EXCEPT ![l] = FALSE]
          /\ UNCHANGED <<entry, pending, handle>>
  /\ UNCHANGED <<file, interference, pc, target, targetId, fresh, answer>>

Step(c) == \/ ReadAttributes(c) \/ ReadReparsePoint(c) \/ CloseReparsePoint(c)
           \/ ReadTarget(c) \/ ReadExecutable(c)
           \/ OpenEntry(c) \/ DisposeEntry(c) \/ CloseEntry(c) \/ CreateLink(c)

Ended == \A c \in Calls : pc[c] \in {"done", "killed"}

Next == \/ \E c \in Calls : Step(c) \/ Kill(c)
        \/ Interfere
        \/ \E l \in Links : Hold(l) \/ Release(l)
        \/ Ended /\ UNCHANGED vars

Spec == Init /\ [][Next]_vars

\* The scheduler runs every live process; nothing forces a kill or a change
\* by another process.
FairSpec == Spec /\ \A c \in Calls : WF_vars(Step(c))

-------------------------------------------------------------------------------
\* Properties.

\* deleteEntry's re-check, through every race with other processes: while a
\* call's handle denotes the entry at its path and is about to dispose of it,
\* that entry is a file symbolic link.
DisposesOnlySymlinks ==
  \A c \in Calls : pc[c] = "dispose" /\ handle[c] => entry[LinkOf[c]].kind = "symlink"

\* Only an Execute call ever reaches a mutation.
MutatesInExecute ==
  \A c \in Calls :
    pc[c] \in {"open", "dispose", "closeEntry", "create"} => ModeOf[c] = "Execute"

\* Only a file symbolic link is ever marked as deleted, whoever's handle it then
\* goes with, and only on behalf of an Execute call.
MarksOnlySymlinks ==
  \A l \in Links :
    pending[l] => /\ entry[l].kind = "symlink"
                  /\ \E c \in Calls : LinkOf[c] = l /\ ModeOf[c] = "Execute"

\* What every mutation rests on.
RepairInv == DisposesOnlySymlinks /\ MutatesInExecute /\ MarksOnlySymlinks

\* What a step of the program may do to the Links folder: remove a file
\* symbolic link, or create its own executable's link where nothing stands,
\* and only on behalf of an Execute call.  A regular file, a directory or a
\* foreign reparse point survives, whatever replaces the entry meanwhile.
MutatesSafely ==
  \A l \in Links :
    entry'[l] # entry[l] /\ interference' = interference =>
      \E c \in Calls :
        /\ LinkOf[c] = l /\ ModeOf[c] = "Execute"
        /\ \/ entry[l].kind = "symlink" /\ entry'[l] = Absent
           \/ entry[l] = Absent /\ entry'[l] = Symlink(ExeOf[c])

ForeignEntriesSurvive == [][MutatesSafely]_vars

\* Neither validateObservation() nor repairLink()'s own check ever fires: an
\* inspection torn by a racing change still yields a consistent observation.
NeverInvalidArgument == \A c \in Calls : answer[c] # "invalid_argument"

CallsOn(l) == {c \in Calls : LinkOf[c] = l}

\* Every call on l ended by itself and no other process touched anything.
Settled(l) == interference = 0 /\ \A c \in CallsOn(l) : pc[c] = "done"

Repairs(c) == ModeOf[c] = "Execute" /\ file[ExeOf[c]] # NoFile

StatusAt(c) == StatusOf(entry[LinkOf[c]], file, ExeOf[c])

Succeeded(c) == answer[c] \in SymlinkRepairOutcome

\* Several instances repairing one link, each for its executable, and others that
\* may have it open but do not change it: in whatever order the inspections,
\* deletes, closes and creates interleave, the link ends up Ok (or is the
\* Mismatch it was) and one call says so, or it is gone, or goes when its last
\* handle is closed, and one call has said that it could not be made.
LossIsReported ==
  \A l \in Links :
    /\ Faults = {} /\ Settled(l) /\ CallsOn(l) # {}
    /\ \A c \in CallsOn(l) : Repairs(c)
    => /\ pending[l] => held[l]
       /\ \/ /\ \A c \in CallsOn(l) : StatusAt(c) \in {"Ok", "Mismatch"}
             /\ \E c \in CallsOn(l) : Succeeded(c)
             /\ ~pending[l]
          \/ /\ pending[l] \/ \A c \in CallsOn(l) : StatusAt(c) = "Missing"
             /\ \E c \in CallsOn(l) : answer[c] = "InsufficientPermission"

\* The comment on Ctrl+C in runFix(): a process that ends, however it ends,
\* never leaves a candidate half-mutated.
NeverHalfMutated ==
  \A c \in Calls :
    pc[c] = "killed" /\ fresh[c] = "Broken" /\ interference = 0
      => StatusAt(c) \in {"Broken", "Ok"}

\* Every call returns or throws, unless its process ends.
EveryCallEnds == \A c \in Calls : <>(pc[c] \in {"done", "killed"})

-------------------------------------------------------------------------------
(***************************************************************************)
(* Refinement: repairLink() implements LinkRepair, for a call whose link   *)
(* nobody else touches.  The status when the call began is then what the   *)
(* first inspection found; what has been done to the link is told by where *)
(* the call is, or where it ended.                                         *)
(***************************************************************************)
\* No other call repairs c's link, nobody else has it open, and c's process runs
\* to its end.
Alone(c) == /\ \A d \in Calls \ {c} : LinkOf[d] # LinkOf[c]
            /\ LinkOf[c] \notin Holdable
            /\ c \notin Killable

Inspecting == {"attributes", "reparse", "closeLink", "target", "executable"}

Found(c) == IF fresh[c] = "Unknown" THEN StatusAt(c) ELSE fresh[c]

Made(c) ==
  /\ fresh[c] # "Unknown"
  /\ \/ pc[c] \in Inspecting
     \/ answer[c] \in {"Created", "ReplacedBroken", "VerificationFailed",
                       "LinkInspectionError"}

Removed(c) ==
  /\ fresh[c] = "Broken"
  /\ \/ pc[c] = "create"
     \/ /\ answer[c] \in {"CreateFailed", "InsufficientPermission"}
        /\ entry[LinkOf[c]] = Absent

Stage(c) == IF Made(c) THEN "made" ELSE IF Removed(c) THEN "removed" ELSE "untouched"

Contract(c) == INSTANCE LinkRepair WITH
                 mode <- ModeOf[c], link <- StatusAt(c), found <- Found(c),
                 stage <- Stage(c), answer <- answer[c]

\* repairLink(), step by Win32 step and with an error possible at each one,
\* does to a link and answers only what its header promises, as long as no other
\* process has changed anything.
ImplementsContract ==
  /\ \A c \in Calls : Contract(c)!Init
  /\ [][\A c \in Calls : Alone(c) /\ interference' = 0 =>
           [Contract(c)!Next]_(Contract(c)!vars)]_vars
===============================================================================
