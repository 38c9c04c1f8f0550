------------------------- MODULE SymlinkServiceProofs -------------------------
(***************************************************************************)
(* Theorems of SymlinkService, for any set of links, calls, paths, faults  *)
(* and any amount of interference by other processes:                      *)
(*                                                                         *)
(*   TypeCorrect          Spec => []TypeOK                                 *)
(*   RepairCorrect        Spec => []RepairInv                              *)
(*   MutationsCorrect     Spec => ForeignEntriesSurvive                    *)
(*   NeverInvalid         Spec => []NeverInvalidArgument                   *)
(*   ContractImplemented  Spec => ImplementsContract                       *)
(*   LossCorrect          Spec => []LossIsReported                         *)
(*                                                                         *)
(* and, of what an inspection computes, for every buffer and every path:   *)
(* ReadsAreInside, NamesAreInPathBuffer, LastCheckNeverFires,              *)
(* WellFormedIsDecoded, EveryPathComesBack.                                *)
(***************************************************************************)
EXTENDS SymlinkService, ReparseBuffer, Paths, SequenceTheorems, TLAPS

-------------------------------------------------------------------------------
\* What the constant-level helpers return.

LEMMA StatusForType == \A o \in LinkObservation : StatusFor(o) \in LinkStatus
  BY DEF StatusFor, LinkStatus, LinkObservation

LEMMA UnlinkedType ==
  ASSUME NEW kind \in LinkEntryKind
  PROVE  Unlinked(kind) \in LinkObservation
  BY DEF Unlinked, LinkObservation, TargetRelation

LEMMA LinkedType ==
  ASSUME NEW p \in Paths \cup {NoPath}, NEW relation \in TargetRelation
  PROVE  Linked(p, relation) \in LinkObservation
  BY DEF Linked, LinkObservation, LinkEntryKind

LEMMA RelationType ==
  ASSUME NEW a, NEW b
  PROVE  Relation(a, b) \in TargetRelation
  BY DEF Relation, TargetRelation

LEMMA OutcomeType ==
  ASSUME NEW status \in LinkStatus
  PROVE  dryRunOutcomeFor(status) \in Answer
  BY DEF LinkStatus, dryRunOutcomeFor, Answer, SymlinkRepairOutcome

LEMMA ErrorType ==
  ASSUME NEW kind \in SymlinkServiceErrorKind, NEW error
  PROVE  buildError(kind, error) \in Answer
  BY DEF buildError, Answer, SymlinkServiceErrorKind

LEMMA EntryType ==
  /\ Absent \in Entry
  /\ \A p \in Paths : Symlink(p) \in Entry
  /\ \A e \in Entry : /\ e.kind \in {"absent", "plain", "foreign", "symlink", "dirlink"}
                      /\ e.target \in Paths \cup {NoPath}
                      /\ e.kind = "absent" => e = Absent
  BY DEF Absent, Symlink, Entry

-------------------------------------------------------------------------------
\* Type correctness.  A call that has classified what it saw, or failed to,
\* goes on at a step that needs no decoded target and no handle.

ControlOK == /\ pc \in [Calls -> Label]
             /\ \A c \in Calls :
                  pc[c] \in {"target", "executable"} => target[c] # NoPath

Settling == {"reparse", "open", "create", "done"}

LEMMA InspectedType ==
  ASSUME TypeOK, NEW c \in Calls, NEW o \in LinkObservation, Classified(c, o)
  PROVE  /\ \E label \in Settling : pc' = [pc EXCEPT ![c] = label]
         /\ answer' \in [Calls -> Answer \cup {"none"}]
         /\ fresh' \in [Calls -> LinkStatus \cup {"Unknown"}]
  <1>1. StatusFor(o) \in LinkStatus
    BY StatusForType
  <1>2. CASE fresh[c] = "Unknown"
    <2>1. Decide(c, o)
      BY <1>2 DEF Classified
    <2>2. fresh' \in [Calls -> LinkStatus \cup {"Unknown"}]
      BY <2>1, <1>1 DEF Decide, TypeOK
    <2>3. dryRunOutcomeFor(StatusFor(o)) \in Answer
      BY <1>1, OutcomeType
    <2>4. \/ \E a \in Answer : Return(c, a)
          \/ Goto(c, "open") \/ Goto(c, "create")
      BY <2>1, <2>3 DEF Decide, Answer
    <2> QED
      BY <2>2, <2>4 DEF Return, Goto, Label, Settling, TypeOK
  <1>3. CASE fresh[c] # "Unknown"
    <2>1. Verify(c, o)
      BY <1>3 DEF Classified
    <2>2. \E a \in Answer : Return(c, a)
      BY <2>1 DEF Verify, Answer, SymlinkRepairOutcome, SymlinkServiceErrorKind
    <2> QED
      BY <2>1, <2>2 DEF Verify, Return, Label, Settling, TypeOK
  <1> QED
    BY <1>2, <1>3

LEMMA FailedInspectionType ==
  ASSUME TypeOK, NEW c \in Calls, InspectionFails(c)
  PROVE  /\ \E label \in Settling : pc' = [pc EXCEPT ![c] = label]
         /\ answer' \in [Calls -> Answer \cup {"none"}]
         /\ fresh' \in [Calls -> LinkStatus \cup {"Unknown"}]
  BY DEF InspectionFails, Return, Label, Settling, Answer, TypeOK

FolderOK == /\ entry \in [Links -> Entry]
            /\ pending \in [Links -> BOOLEAN]
            /\ held \in [Links -> BOOLEAN]
            /\ handle \in [Calls -> BOOLEAN]

LEMMA SetEntryType ==
  ASSUME TypeOK, NEW l \in Links, NEW e \in Entry, SetEntry(l, e)
  PROVE  FolderOK'
  BY DEF SetEntry, FolderOK, TypeOK

LEMMA OpenHandleType ==
  ASSUME TypeOK, NEW c \in Calls, OpenHandle(c)
  PROVE  FolderOK'
  BY DEF OpenHandle, FolderOK, TypeOK

LEMMA CloseHandleType ==
  ASSUME TypeOK, NEW c \in Calls, CloseHandle(c)
  PROVE  FolderOK'
  <1>1. LinkOf[c] \in Links
    BY CallAssumption
  <1>2. \/ SetEntry(LinkOf[c], Absent)
        \/ handle' = [handle EXCEPT ![c] = FALSE] /\ UNCHANGED <<entry, pending, held>>
    BY DEF CloseHandle
  <1>3. CASE SetEntry(LinkOf[c], Absent)
    BY <1>1, <1>3, EntryType, SetEntryType
  <1>4. CASE handle' = [handle EXCEPT ![c] = FALSE] /\ UNCHANGED <<entry, pending, held>>
    BY <1>4 DEF FolderOK, TypeOK
  <1> QED
    BY <1>2, <1>3, <1>4

LEMMA SameFolderType == ASSUME TypeOK, UNCHANGED folder PROVE FolderOK'
  BY DEF folder, FolderOK, TypeOK

LEMMA StepType == ASSUME TypeOK, [Next]_vars PROVE TypeOK'
  <1> USE CallAssumption, SentinelAssumption
  <1>1. ASSUME NEW c \in Calls, ReadAttributes(c) PROVE TypeOK'
    <2>1. \A kind \in LinkEntryKind : Unlinked(kind) \in LinkObservation
      BY UnlinkedType
    <2>2. \/ \E o \in LinkObservation : Classified(c, o)
          \/ Goto(c, "reparse") /\ UNCHANGED fresh
          \/ InspectionFails(c)
      BY <1>1, <2>1 DEF ReadAttributes, LinkEntryKind
    <2>3. /\ ControlOK'
          /\ answer' \in [Calls -> Answer \cup {"none"}]
          /\ fresh' \in [Calls -> LinkStatus \cup {"Unknown"}]
      <3>1. UNCHANGED target
        BY <1>1 DEF ReadAttributes
      <3>2. CASE \/ \E o \in LinkObservation : Classified(c, o)
                 \/ InspectionFails(c)
        BY <3>1, <3>2, InspectedType, FailedInspectionType
           DEF ControlOK, Label, Settling, TypeOK
      <3>3. CASE Goto(c, "reparse") /\ UNCHANGED fresh
        BY <3>1, <3>3 DEF ControlOK, Goto, Label, TypeOK
      <3> QED
        BY <2>2, <3>2, <3>3
    <2>4. FolderOK'
      BY <1>1, SameFolderType DEF ReadAttributes
    <2> QED
      BY <1>1, <2>3, <2>4 DEF ReadAttributes, ControlOK, FolderOK, TypeOK
  <1>2. ASSUME NEW c \in Calls, ReadReparsePoint(c) PROVE TypeOK'
    <2>1. /\ target' \in [Calls -> Paths \cup {NoPath}]
          /\ \A d \in Calls \ {c} : target'[d] = target[d]
      <3>1. CASE target' = [target EXCEPT ![c] = entry[LinkOf[c]].target]
        <4>1. entry[LinkOf[c]].target \in Paths \cup {NoPath}
          BY EntryType DEF TypeOK
        <4> QED
          BY <3>1, <4>1 DEF TypeOK
      <3>2. CASE UNCHANGED target
        BY <3>2 DEF TypeOK
      <3> QED
        BY <1>2, <3>1, <3>2 DEF ReadReparsePoint
    <2>2. \/ Goto(c, "closeLink") /\ UNCHANGED fresh
          \/ InspectionFails(c)
      BY <1>2 DEF ReadReparsePoint
    <2>3. /\ ControlOK'
          /\ answer' \in [Calls -> Answer \cup {"none"}]
          /\ fresh' \in [Calls -> LinkStatus \cup {"Unknown"}]
      <3>1. CASE Goto(c, "closeLink") /\ UNCHANGED fresh
        BY <2>1, <3>1 DEF ControlOK, Goto, Label, TypeOK
      <3>2. CASE InspectionFails(c)
        BY <2>1, <3>2, FailedInspectionType DEF ControlOK, Label, Settling, TypeOK
      <3> QED
        BY <2>2, <3>1, <3>2
    <2>4. FolderOK'
      BY <1>2, SameFolderType, OpenHandleType DEF ReadReparsePoint
    <2> QED
      BY <1>2, <2>1, <2>3, <2>4 DEF ReadReparsePoint, ControlOK, FolderOK, TypeOK
  <1>3. ASSUME NEW c \in Calls, CloseReparsePoint(c) PROVE TypeOK'
    <2>1. Unlinked("OtherReparsePoint") \in LinkObservation
      BY UnlinkedType DEF LinkEntryKind
    <2>2. \/ target[c] # NoPath /\ Goto(c, "target") /\ UNCHANGED fresh
          \/ \E o \in LinkObservation : Classified(c, o)
      BY <1>3, <2>1 DEF CloseReparsePoint
    <2>3. /\ ControlOK'
          /\ answer' \in [Calls -> Answer \cup {"none"}]
          /\ fresh' \in [Calls -> LinkStatus \cup {"Unknown"}]
      BY <1>3, <2>2, InspectedType
         DEF CloseReparsePoint, ControlOK, Goto, Label, Settling, TypeOK
    <2>4. FolderOK'
      BY <1>3, CloseHandleType DEF CloseReparsePoint
    <2> QED
      BY <1>3, <2>3, <2>4 DEF CloseReparsePoint, ControlOK, FolderOK, TypeOK
  <1>4. ASSUME NEW c \in Calls, ReadTarget(c) PROVE TypeOK'
    <2>1. Linked(target[c], "Missing") \in LinkObservation
      BY LinkedType DEF TypeOK, TargetRelation
    <2>2. targetId' \in [Calls -> FileIds \cup {NoFile}]
      <3>1. target[c] \in Paths
        BY <1>4 DEF ReadTarget, TypeOK
      <3> QED
        BY <3>1, <1>4 DEF ReadTarget, TypeOK
    <2>3. \/ \E o \in LinkObservation : Classified(c, o)
          \/ Goto(c, "executable") /\ UNCHANGED fresh
          \/ InspectionFails(c)
      BY <1>4, <2>1 DEF ReadTarget
    <2>4. /\ ControlOK'
          /\ answer' \in [Calls -> Answer \cup {"none"}]
          /\ fresh' \in [Calls -> LinkStatus \cup {"Unknown"}]
      BY <1>4, <2>3, InspectedType, FailedInspectionType
         DEF ReadTarget, ControlOK, Goto, Label, Settling, TypeOK
    <2>5. FolderOK'
      BY <1>4, SameFolderType DEF ReadTarget
    <2> QED
      BY <1>4, <2>2, <2>4, <2>5 DEF ReadTarget, ControlOK, FolderOK, TypeOK
  <1>5. ASSUME NEW c \in Calls, ReadExecutable(c) PROVE TypeOK'
    <2>1. \A a, b : Linked(target[c], Relation(a, b)) \in LinkObservation
      BY LinkedType, RelationType DEF TypeOK
    <2>2. \/ \E o \in LinkObservation : Classified(c, o)
          \/ InspectionFails(c)
      BY <1>5, <2>1 DEF ReadExecutable
    <2>3. /\ ControlOK'
          /\ answer' \in [Calls -> Answer \cup {"none"}]
          /\ fresh' \in [Calls -> LinkStatus \cup {"Unknown"}]
      BY <1>5, <2>2, InspectedType, FailedInspectionType
         DEF ReadExecutable, ControlOK, Label, Settling, TypeOK
    <2>4. FolderOK'
      BY <1>5, SameFolderType DEF ReadExecutable
    <2> QED
      BY <1>5, <2>3, <2>4 DEF ReadExecutable, ControlOK, FolderOK, TypeOK
  <1>6. ASSUME NEW c \in Calls, OpenEntry(c) PROVE TypeOK'
    <2>1. \A error : buildError("DeleteFailed", error) \in Answer
      BY ErrorType DEF SymlinkServiceErrorKind
    <2>2. \/ \E a \in Answer : Return(c, a)
          \/ Goto(c, "dispose")
      BY <1>6, <2>1 DEF OpenEntry
    <2>3. /\ ControlOK'
          /\ answer' \in [Calls -> Answer \cup {"none"}]
      BY <1>6, <2>2 DEF OpenEntry, ControlOK, Return, Goto, Label, TypeOK
    <2>4. FolderOK'
      BY <1>6, SameFolderType, OpenHandleType DEF OpenEntry
    <2> QED
      BY <1>6, <2>3, <2>4 DEF OpenEntry, ControlOK, FolderOK, TypeOK
  <1>7. ASSUME NEW c \in Calls, DisposeEntry(c) PROVE TypeOK'
    <2>1. \A error : buildError("DeleteFailed", error) \in Answer
      BY ErrorType DEF SymlinkServiceErrorKind
    <2>2. \/ \E a \in Answer : Return(c, a)
          \/ Goto(c, "closeEntry")
      BY <1>7, <2>1 DEF DisposeEntry
    <2>3. /\ ControlOK'
          /\ answer' \in [Calls -> Answer \cup {"none"}]
      BY <1>7, <2>2 DEF DisposeEntry, ControlOK, Return, Goto, Label, TypeOK
    <2>4. FolderOK'
      <3>1. CASE /\ pending' = [pending EXCEPT ![LinkOf[c]] = @ \/ handle[c]]
                 /\ UNCHANGED <<entry, held, handle>>
        BY <3>1 DEF FolderOK, TypeOK
      <3> QED
        BY <1>7, <3>1, SameFolderType, CloseHandleType DEF DisposeEntry
    <2> QED
      BY <1>7, <2>3, <2>4 DEF DisposeEntry, ControlOK, FolderOK, TypeOK
  <1>8. ASSUME NEW c \in Calls, CloseEntry(c) PROVE TypeOK'
    <2>1. FolderOK'
      BY <1>8, CloseHandleType DEF CloseEntry
    <2> QED
      BY <1>8, <2>1 DEF CloseEntry, FolderOK, Goto, Label, TypeOK
  <1>9. ASSUME NEW c \in Calls, CreateLink(c) PROVE TypeOK'
    <2>1. \A error : buildError("CreateFailed", error) \in Answer
      BY ErrorType DEF SymlinkServiceErrorKind
    <2>2. \/ \E a \in Answer : Return(c, a)
          \/ Goto(c, "attributes")
      BY <1>9, <2>1 DEF CreateLink
    <2>3. /\ ControlOK'
          /\ answer' \in [Calls -> Answer \cup {"none"}]
      BY <1>9, <2>2 DEF CreateLink, ControlOK, Return, Goto, Label, TypeOK
    <2>4. FolderOK'
      BY <1>9, EntryType, SameFolderType, SetEntryType DEF CreateLink
    <2> QED
      BY <1>9, <2>3, <2>4 DEF CreateLink, ControlOK, FolderOK, TypeOK
  <1>10. ASSUME NEW c \in Calls, Kill(c) PROVE TypeOK'
    <2>1. FolderOK'
      BY <1>10, CloseHandleType DEF Kill
    <2> QED
      BY <1>10, <2>1 DEF Kill, FolderOK, Label, TypeOK
  <1>11. CASE Interfere
    <2>1. interference' \in 0 .. MaxInterference
      BY <1>11 DEF Interfere, TypeOK
    <2>2. FolderOK' /\ file' \in [Paths -> FileIds \cup {NoFile}]
      BY <1>11, SetEntryType, SameFolderType DEF Interfere, ReplaceEntry, ReplaceFile, TypeOK
    <2> QED
      BY <1>11, <2>1, <2>2 DEF Interfere, FolderOK, TypeOK
  <1>12. ASSUME NEW l \in Links, Hold(l) \/ Release(l) PROVE TypeOK'
    <2>1. FolderOK'
      <3>1. CASE \E b \in BOOLEAN : held' = [held EXCEPT ![l] = b]
                                   /\ UNCHANGED <<entry, pending, handle>>
        BY <3>1 DEF FolderOK, TypeOK
      <3> QED
        BY <1>12, <3>1, EntryType, SetEntryType DEF Hold, Release
    <2> QED
      BY <1>12, <2>1 DEF Hold, Release, FolderOK, TypeOK
  <1>13. CASE UNCHANGED vars
    BY <1>13 DEF vars, folder, TypeOK
  <1> QED
    BY <1>1, <1>2, <1>3, <1>4, <1>5, <1>6, <1>7, <1>8, <1>9, <1>10, <1>11, <1>12, <1>13
       DEF Next, Step

\* Every variable keeps its type in every behaviour.
THEOREM TypeCorrect == Spec => []TypeOK
  <1>1. Init => TypeOK
    BY CallAssumption DEF Init, TypeOK, Label
  <1>2. TypeOK /\ [Next]_vars => TypeOK'
    BY StepType
  <1> QED
    BY <1>1, <1>2, PTL DEF Spec

-------------------------------------------------------------------------------
\* The invariant behind the mutations.

\* A step of an inspection goes on at no disposal, and at another step of the
\* mutation only in an Execute call.
Onward(c, label) == /\ pc' = [pc EXCEPT ![c] = label]
                    /\ label \in {"open", "closeEntry", "create"} => ModeOf[c] = "Execute"

GoesOnward(c) == \E label \in Label \ {"dispose"} : Onward(c, label)

LEMMA ReturnGoesOnward ==
  ASSUME NEW c \in Calls, NEW a, Return(c, a)
  PROVE  GoesOnward(c)
  <1>1. Onward(c, "done")
    BY DEF Return, Onward
  <1> QED
    BY <1>1 DEF GoesOnward, Label

LEMMA ClassifiedGoesOnward ==
  ASSUME NEW c \in Calls, NEW o, Classified(c, o)
  PROVE  GoesOnward(c)
  <1>1. \/ \E a : Return(c, a)
        \/ /\ ModeOf[c] = "Execute"
           /\ Goto(c, "open") \/ Goto(c, "create")
    BY CallAssumption DEF Classified, Decide, Verify, RepairMode
  <1>2. CASE \E a : Return(c, a)
    BY <1>2, ReturnGoesOnward
  <1>3. CASE ModeOf[c] = "Execute" /\ (Goto(c, "open") \/ Goto(c, "create"))
    <2>1. Onward(c, "open") \/ Onward(c, "create")
      BY <1>3 DEF Goto, Onward
    <2> QED
      BY <2>1 DEF GoesOnward, Label
  <1> QED
    BY <1>1, <1>2, <1>3

LEMMA GotoGoesOnward ==
  ASSUME NEW c \in Calls, NEW label \in {"reparse", "closeLink", "target", "executable"},
         Goto(c, label)
  PROVE  GoesOnward(c)
  <1>1. Onward(c, label)
    BY DEF Goto, Onward
  <1> QED
    BY <1>1 DEF GoesOnward, Label

Inspects(c) == \/ ReadAttributes(c) \/ ReadReparsePoint(c)
               \/ ReadTarget(c) \/ ReadExecutable(c)

LEMMA InspectionControl ==
  ASSUME NEW c \in Calls, Inspects(c)
  PROVE  /\ GoesOnward(c)
         /\ UNCHANGED <<entry, pending, interference>>
         /\ handle' \in {handle, [handle EXCEPT ![c] = TRUE]}
  <1>1. \/ \E o : Classified(c, o)
        \/ InspectionFails(c)
        \/ \E label \in {"reparse", "closeLink", "target", "executable"} : Goto(c, label)
    <2>1. CASE ReadAttributes(c)
      BY <2>1 DEF ReadAttributes
    <2>2. CASE ReadReparsePoint(c)
      BY <2>2 DEF ReadReparsePoint
    <2>3. CASE ReadTarget(c)
      BY <2>3 DEF ReadTarget
    <2>4. CASE ReadExecutable(c)
      BY <2>4 DEF ReadExecutable
    <2> QED
      BY <2>1, <2>2, <2>3, <2>4 DEF Inspects
  <1>2. GoesOnward(c)
    BY <1>1, ReturnGoesOnward, ClassifiedGoesOnward, GotoGoesOnward
       DEF InspectionFails
  <1>3. /\ UNCHANGED <<entry, pending, interference>>
        /\ handle' \in {handle, [handle EXCEPT ![c] = TRUE]}
    BY DEF Inspects, ReadAttributes, ReadReparsePoint, ReadTarget, ReadExecutable,
           OpenHandle, folder
  <1> QED
    BY <1>2, <1>3

LEMMA CloseControl ==
  ASSUME NEW c \in Calls, CloseReparsePoint(c)
  PROVE  GoesOnward(c)
  BY ClassifiedGoesOnward, GotoGoesOnward DEF CloseReparsePoint

\* Handles and marks that are there after a step were there before it, on the
\* same entry.
Kept == /\ \A c \in Calls : handle'[c] => handle[c] /\ entry'[LinkOf[c]] = entry[LinkOf[c]]
        /\ \A l \in Links : pending'[l] => pending[l] /\ entry'[l] = entry[l]

LEMMA SetEntryKeeps ==
  ASSUME TypeOK, NEW l \in Links, NEW e, SetEntry(l, e)
  PROVE  Kept
  BY CallAssumption DEF SetEntry, Kept, TypeOK

LEMMA CloseHandleKeeps ==
  ASSUME TypeOK, NEW c \in Calls, CloseHandle(c)
  PROVE  /\ Kept
         /\ \A l \in Links : entry'[l] # entry[l] => pending[l] /\ entry'[l] = Absent
  <1>1. LinkOf[c] \in Links
    BY CallAssumption
  <1>2. CASE pending[LinkOf[c]] /\ SetEntry(LinkOf[c], Absent)
    BY <1>1, <1>2, SetEntryKeeps DEF SetEntry, TypeOK
  <1>3. CASE handle' = [handle EXCEPT ![c] = FALSE] /\ UNCHANGED <<entry, pending, held>>
    BY <1>3 DEF Kept, TypeOK
  <1> QED
    BY <1>2, <1>3 DEF CloseHandle

LEMMA KeptInv ==
  ASSUME TypeOK, RepairInv, Kept,
         UNCHANGED pc \/ \E c \in Calls : GoesOnward(c)
  PROVE  RepairInv'
  <1> USE CallAssumption DEF RepairInv, DisposesOnlySymlinks, MutatesInExecute, MarksOnlySymlinks
  <1>1. MarksOnlySymlinks'
    BY DEF Kept
  <1>2. CASE UNCHANGED pc
    BY <1>1, <1>2 DEF Kept
  <1>3. ASSUME NEW c \in Calls, GoesOnward(c) PROVE RepairInv'
    <2>1. PICK label \in Label \ {"dispose"} : Onward(c, label)
      BY <1>3 DEF GoesOnward
    <2>2. MutatesInExecute'
      BY <2>1 DEF Onward, TypeOK
    <2>3. DisposesOnlySymlinks'
      BY <2>1 DEF Onward, Kept, TypeOK
    <2> QED
      BY <1>1, <2>2, <2>3
  <1> QED
    BY <1>2, <1>3

LEMMA RepairStepInv == ASSUME TypeOK, RepairInv, [Next]_vars PROVE RepairInv'
  <1> USE CallAssumption DEF RepairInv
  <1>1. ASSUME NEW c \in Calls, Inspects(c) PROVE RepairInv'
    <2>1. /\ UNCHANGED <<entry, pending>>
          /\ handle' \in {handle, [handle EXCEPT ![c] = TRUE]}
      BY <1>1, InspectionControl
    <2>2. PICK label \in Label \ {"dispose"} : Onward(c, label)
      BY <1>1, InspectionControl DEF GoesOnward
    <2>3. MarksOnlySymlinks'
      BY <2>1 DEF MarksOnlySymlinks
    <2> QED
      BY <2>1, <2>2, <2>3 DEF Onward, DisposesOnlySymlinks, MutatesInExecute, TypeOK
  <1>2. ASSUME NEW c \in Calls, CloseReparsePoint(c) PROVE RepairInv'
    BY <1>2, CloseControl, CloseHandleKeeps, KeptInv DEF CloseReparsePoint
  <1>3. ASSUME NEW c \in Calls, OpenEntry(c) PROVE RepairInv'
    BY <1>3 DEF OpenEntry, OpenHandle, Reachable, Goto, Return, folder, TypeOK,
                DisposesOnlySymlinks, MutatesInExecute, MarksOnlySymlinks
  <1>4. ASSUME NEW c \in Calls, DisposeEntry(c) PROVE RepairInv'
    <2>0. ModeOf[c] = "Execute"
      BY <1>4 DEF DisposeEntry, MutatesInExecute
    <2>1. CASE /\ pending' = [pending EXCEPT ![LinkOf[c]] = @ \/ handle[c]]
               /\ Goto(c, "closeEntry")
               /\ UNCHANGED <<entry, held, handle>>
      <3>1. MarksOnlySymlinks'
        <4> SUFFICES ASSUME NEW l \in Links, pending'[l]
                     PROVE  /\ entry[l].kind = "symlink"
                            /\ \E d \in Calls : LinkOf[d] = l /\ ModeOf[d] = "Execute"
          BY <2>1 DEF MarksOnlySymlinks
        <4>1. CASE pending[l]
          BY <4>1 DEF MarksOnlySymlinks
        <4>2. CASE ~pending[l]
          <5>1. l = LinkOf[c] /\ handle[c]
            BY <2>1, <4>2 DEF TypeOK
          <5>2. entry[l].kind = "symlink"
            BY <1>4, <5>1 DEF DisposeEntry, DisposesOnlySymlinks
          <5> QED
            BY <2>0, <5>1, <5>2
        <4> QED
          BY <4>1, <4>2
      <3>2. DisposesOnlySymlinks' /\ MutatesInExecute'
        BY <2>0, <2>1 DEF Goto, DisposesOnlySymlinks, MutatesInExecute, TypeOK
      <3> QED
        BY <3>1, <3>2
    <2>2. CASE \E a : Return(c, a) /\ (UNCHANGED folder \/ CloseHandle(c))
      <3>1. UNCHANGED folder => Kept
        BY DEF folder, Kept
      <3> QED
        BY <2>2, <3>1, CloseHandleKeeps, ReturnGoesOnward, KeptInv
    <2> QED
      BY <1>4, <2>1, <2>2 DEF DisposeEntry
  <1>5. ASSUME NEW c \in Calls, CloseEntry(c) PROVE RepairInv'
    <2>1. Onward(c, "create")
      BY <1>5 DEF CloseEntry, Goto, Onward, MutatesInExecute
    <2>2. GoesOnward(c)
      BY <2>1 DEF GoesOnward, Label
    <2> QED
      BY <1>5, <2>2, CloseHandleKeeps, KeptInv DEF CloseEntry
  <1>6. ASSUME NEW c \in Calls, CreateLink(c) PROVE RepairInv'
    <2>1. GoesOnward(c)
      <3>1. CASE Goto(c, "attributes")
        <4>1. Onward(c, "attributes")
          BY <3>1 DEF Goto, Onward
        <4> QED
          BY <4>1 DEF GoesOnward, Label
      <3>2. CASE \E a : Return(c, a)
        BY <3>2, ReturnGoesOnward
      <3> QED
        BY <1>6, <3>1, <3>2 DEF CreateLink
    <2>2. Kept
      <3>1. UNCHANGED folder => Kept
        BY DEF folder, Kept
      <3> QED
        BY <1>6, <3>1, SetEntryKeeps DEF CreateLink
    <2> QED
      BY <2>1, <2>2, KeptInv
  <1>7. ASSUME NEW c \in Calls, Kill(c) PROVE RepairInv'
    <2>1. Onward(c, "killed")
      BY <1>7 DEF Kill, Onward
    <2>2. GoesOnward(c)
      BY <2>1 DEF GoesOnward, Label
    <2> QED
      BY <1>7, <2>2, CloseHandleKeeps, KeptInv DEF Kill
  <1>8. CASE Interfere
    <2>1. Kept
      <3>1. UNCHANGED folder => Kept
        BY DEF folder, Kept
      <3> QED
        BY <1>8, <3>1, SetEntryKeeps DEF Interfere, ReplaceEntry, ReplaceFile
    <2> QED
      BY <1>8, <2>1, KeptInv DEF Interfere
  <1>9. ASSUME NEW l \in Links, Hold(l) \/ Release(l) PROVE RepairInv'
    <2>1. Kept
      <3>1. UNCHANGED <<entry, pending, handle>> => Kept
        BY DEF Kept
      <3> QED
        BY <1>9, <3>1, SetEntryKeeps DEF Hold, Release
    <2> QED
      BY <1>9, <2>1, KeptInv DEF Hold, Release
  <1>10. CASE UNCHANGED vars
    BY <1>10 DEF vars, folder, DisposesOnlySymlinks, MutatesInExecute, MarksOnlySymlinks
  <1> QED
    BY <1>1, <1>2, <1>3, <1>4, <1>5, <1>6, <1>7, <1>8, <1>9, <1>10 DEF Next, Step, Inspects

\* Whatever other processes do between any two Win32 calls of any number of
\* calls: what a call is about to dispose of through its handle is a file
\* symbolic link, only an Execute call gets there, and what is marked as deleted
\* stays a symbolic link until it is gone (SymlinkService.cpp's re-check in
\* deleteEntry, and repairLink()'s dry-run return).
THEOREM RepairCorrect == Spec => []RepairInv
  <1>1. Init => RepairInv
    BY DEF Init, RepairInv, DisposesOnlySymlinks, MutatesInExecute, MarksOnlySymlinks
  <1>2. TypeOK /\ RepairInv /\ [Next]_vars => RepairInv'
    BY RepairStepInv
  <1> QED
    BY <1>1, <1>2, TypeCorrect, PTL DEF Spec

-------------------------------------------------------------------------------
\* What the program does to the Links folder.

LEMMA SafeStep == ASSUME TypeOK, RepairInv, [Next]_vars PROVE MutatesSafely \/ UNCHANGED vars
  <1> SUFFICES ASSUME NEW l \in Links, entry'[l] # entry[l], interference' = interference
               PROVE  \E c \in Calls :
                        /\ LinkOf[c] = l /\ ModeOf[c] = "Execute"
                        /\ \/ entry[l].kind = "symlink" /\ entry'[l] = Absent
                           \/ entry[l] = Absent /\ entry'[l] = Symlink(ExeOf[c])
    BY DEF MutatesSafely
  <1> USE CallAssumption
  <1>1. ASSUME pending[l], entry'[l] = Absent
        PROVE  \E c \in Calls : /\ LinkOf[c] = l /\ ModeOf[c] = "Execute"
                                /\ entry[l].kind = "symlink" /\ entry'[l] = Absent
    BY <1>1 DEF RepairInv, MarksOnlySymlinks
  <1>2. ASSUME NEW c \in Calls, Inspects(c) \/ OpenEntry(c) PROVE FALSE
    BY <1>2, InspectionControl DEF OpenEntry, OpenHandle, folder
  <1>3. ASSUME NEW c \in Calls, CloseHandle(c)
        PROVE  pending[l] /\ entry'[l] = Absent
    BY <1>3, CloseHandleKeeps
  <1>4. ASSUME NEW c \in Calls, DisposeEntry(c) PROVE CloseHandle(c)
    BY <1>4 DEF DisposeEntry, folder
  <1>5. ASSUME NEW c \in Calls, CreateLink(c)
        PROVE  /\ LinkOf[c] = l /\ ModeOf[c] = "Execute"
               /\ entry[l] = Absent /\ entry'[l] = Symlink(ExeOf[c])
    <2>1. SetEntry(LinkOf[c], Symlink(ExeOf[c])) /\ Reachable(LinkOf[c]) = "absent"
      BY <1>5 DEF CreateLink, folder
    <2>2. LinkOf[c] = l /\ entry'[l] = Symlink(ExeOf[c])
      BY <2>1 DEF SetEntry, TypeOK
    <2>3. entry[l].kind = "absent"
      BY <2>1, <2>2 DEF Reachable
    <2> QED
      BY <1>5, <2>2, <2>3, EntryType DEF CreateLink, TypeOK, RepairInv, MutatesInExecute
  <1>6. ~Interfere
    BY DEF Interfere, TypeOK
  <1>7. ASSUME NEW m \in Links, Hold(m) \/ Release(m)
        PROVE  pending[l] /\ entry'[l] = Absent
    BY <1>7 DEF Hold, Release, SetEntry, TypeOK
  <1>8. ~UNCHANGED vars
    BY DEF vars, folder
  <1> QED
    BY <1>1, <1>2, <1>3, <1>4, <1>5, <1>6, <1>7, <1>8
       DEF Next, Step, Inspects, CloseReparsePoint, CloseEntry, Kill

\* No step of the program, in any race, removes anything but a file symbolic
\* link or creates a link where something stands.
THEOREM MutationsCorrect == Spec => ForeignEntriesSurvive
  <1>1. TypeOK /\ RepairInv /\ [Next]_vars => [MutatesSafely]_vars
    BY SafeStep
  <1> QED
    BY <1>1, TypeCorrect, RepairCorrect, PTL DEF Spec, ForeignEntriesSurvive
-------------------------------------------------------------------------------
\* No observation is ever rejected.

\* Every answer but the one an inconsistent observation would give.
Sound == (Answer \cup {"none"}) \ {"invalid_argument"}

LEMMA SoundHelpers ==
  /\ \A status \in LinkStatus : dryRunOutcomeFor(status) \in Sound
  /\ \A kind \in SymlinkServiceErrorKind : \A error : buildError(kind, error) \in Sound
  BY DEF Sound, Answer, SymlinkRepairOutcome, SymlinkServiceErrorKind, LinkStatus,
         dryRunOutcomeFor, buildError

\* What the inspection passes on is consistent: only a decoded symbolic link
\* is reported as one.
Consistent(o) == o \in LinkObservation /\ ValidObservation(o) /\ ~Rejected(o)

LEMMA UnlinkedConsistent ==
  \A kind \in {"None", "RegularFile", "OtherReparsePoint"} : Consistent(Unlinked(kind))
  BY DEF Consistent, Unlinked, LinkObservation, LinkEntryKind, TargetRelation,
         ValidObservation, Rejected, StatusFor

LEMMA LinkedConsistent ==
  ASSUME NEW p \in Paths, NEW relation \in TargetRelation \ {"NotApplicable"}
  PROVE  Consistent(Linked(p, relation))
  <1>1. Linked(p, relation) \in LinkObservation
    BY LinkedType
  <1>2. p # NoPath
    BY SentinelAssumption
  <1>3. ValidObservation(Linked(p, relation))
    BY <1>2 DEF ValidObservation, Linked
  <1>4. Linked(p, relation).entryKind = "SymbolicLink"
    BY DEF Linked
  <1> QED
    BY <1>1, <1>3, <1>4 DEF Consistent, Rejected

LEMMA ClassifiedSound ==
  ASSUME NEW c \in Calls, NEW o, Consistent(o), Classified(c, o)
  PROVE  UNCHANGED answer \/ \E a \in Sound : Return(c, a)
  <1>1. StatusFor(o) \in LinkStatus
    BY StatusForType DEF Consistent
  <1>2. dryRunOutcomeFor(StatusFor(o)) \in Sound
    BY <1>1, SoundHelpers
  <1>3. CASE Decide(c, o)
    BY <1>2, <1>3 DEF Decide, Consistent, Goto
  <1>4. CASE Verify(c, o)
    BY <1>4 DEF Verify, Consistent, Sound, Answer, SymlinkRepairOutcome,
               SymlinkServiceErrorKind
  <1> QED
    BY <1>3, <1>4 DEF Classified

LEMMA StepSound ==
  ASSUME TypeOK, NEW c \in Calls, Step(c)
  PROVE  UNCHANGED answer \/ \E a \in Sound : Return(c, a)
  <1> USE CallAssumption
  <1>1. "LinkInspectionError" \in Sound
    BY DEF Sound, Answer
  <1>2. \A kind \in {"DeleteFailed", "CreateFailed"} : \A error :
          buildError(kind, error) \in Sound
    BY SoundHelpers DEF SymlinkServiceErrorKind
  <1>3. \A a : Return(c, a) /\ a \in Sound => \E b \in Sound : Return(c, b)
    OBVIOUS
  <1>4. CASE Inspects(c)
    <2>1. \/ \E o : Consistent(o) /\ Classified(c, o)
          \/ InspectionFails(c)
          \/ UNCHANGED answer
      <3>1. CASE ReadAttributes(c)
        BY <3>1, UnlinkedConsistent DEF ReadAttributes, Goto
      <3>2. CASE ReadReparsePoint(c)
        BY <3>2 DEF ReadReparsePoint, Goto
      <3>3. CASE ReadTarget(c)
        <4>1. target[c] \in Paths
          BY <3>3 DEF ReadTarget, TypeOK
        <4>2. Consistent(Linked(target[c], "Missing"))
          BY <4>1, LinkedConsistent DEF TargetRelation
        <4> QED
          BY <3>3, <4>2 DEF ReadTarget, Goto
      <3>4. CASE ReadExecutable(c)
        <4>1. target[c] \in Paths
          BY <3>4 DEF ReadExecutable, TypeOK
        <4>2. \A a, b : Relation(a, b) \in TargetRelation \ {"NotApplicable"}
          BY DEF Relation, TargetRelation
        <4>3. \A a, b : Consistent(Linked(target[c], Relation(a, b)))
          BY <4>1, <4>2, LinkedConsistent
        <4> QED
          BY <3>4, <4>3 DEF ReadExecutable
      <3> QED
        BY <1>4, <3>1, <3>2, <3>3, <3>4 DEF Inspects
    <2> QED
      BY <1>1, <2>1, ClassifiedSound DEF InspectionFails
  <1>5. CASE CloseReparsePoint(c)
    BY <1>5, UnlinkedConsistent, ClassifiedSound DEF CloseReparsePoint, Goto
  <1>6. CASE OpenEntry(c)
    BY <1>2, <1>6 DEF OpenEntry, Goto
  <1>7. CASE DisposeEntry(c)
    BY <1>2, <1>7 DEF DisposeEntry, Goto
  <1>8. CASE CloseEntry(c)
    BY <1>8 DEF CloseEntry, Goto
  <1>9. CASE CreateLink(c)
    BY <1>2, <1>9 DEF CreateLink, Goto
  <1> QED
    BY <1>4, <1>5, <1>6, <1>7, <1>8, <1>9 DEF Step, Inspects

\* However the entries and files change while they are being inspected, no
\* inspection hands inspectLink() or repairLink() an observation they reject
\* with std::invalid_argument.
THEOREM NeverInvalid == Spec => []NeverInvalidArgument
  <1>1. Init => NeverInvalidArgument
    BY DEF Init, NeverInvalidArgument
  <1>2. TypeOK /\ NeverInvalidArgument /\ [Next]_vars => NeverInvalidArgument'
    <2> SUFFICES ASSUME TypeOK, NeverInvalidArgument, [Next]_vars
                 PROVE  NeverInvalidArgument'
      OBVIOUS
    <2>1. ASSUME NEW c \in Calls, Step(c) PROVE NeverInvalidArgument'
      <3>1. UNCHANGED answer \/ \E a \in Sound : Return(c, a)
        BY <2>1, StepSound
      <3> QED
        BY <3>1 DEF Return, NeverInvalidArgument, Sound, TypeOK
    <2>2. CASE UNCHANGED answer
      BY <2>2 DEF NeverInvalidArgument
    <2> QED
      BY <2>1, <2>2 DEF Next, Kill, Interfere, Hold, Release, vars
  <1> QED
    BY <1>1, <1>2, TypeCorrect, PTL DEF Spec

-------------------------------------------------------------------------------
\* The inspection.  What c has read so far is what stands at its path.
ReadsTruly(c) ==
  LET e == entry[LinkOf[c]] IN
  /\ pc[c] \in Inspecting
  /\ pc[c] # "attributes" => e.kind \in {"symlink", "foreign"}
  /\ pc[c] \in {"closeLink", "target", "executable"} => target[c] = e.target
  /\ pc[c] \in {"target", "executable"} => e.kind = "symlink"
  /\ pc[c] = "executable" => targetId[c] = file[target[c]] /\ targetId[c] # NoFile

LEMMA Statuses ==
  ASSUME TypeOK, NEW c \in Calls
  PROVE  /\ StatusAt(c) \in LinkStatus
         /\ StatusAt(c) = "Missing" <=> entry[LinkOf[c]] = Absent
         /\ StatusAt(c) \in {"Broken", "Ok"} => entry[LinkOf[c]].kind = "symlink"
         /\ entry[LinkOf[c]].kind = "symlink" =>
              StatusAt(c) = IF file[entry[LinkOf[c]].target] = NoFile THEN "Broken"
                            ELSE IF file[entry[LinkOf[c]].target] = file[ExeOf[c]] THEN "Ok"
                                 ELSE "Mismatch"
         /\ entry[LinkOf[c]].kind \in {"plain", "foreign", "dirlink"} => StatusAt(c) = "Mismatch"
  <1>1. entry[LinkOf[c]] \in Entry
    BY CallAssumption DEF TypeOK
  <1>2. /\ entry[LinkOf[c]].kind \in {"absent", "plain", "foreign", "symlink", "dirlink"}
        /\ entry[LinkOf[c]].kind = "absent" <=> entry[LinkOf[c]] = Absent
    BY <1>1, EntryType DEF Absent
  <1> QED
    BY <1>2 DEF StatusAt, StatusOf, ObservationOf, StatusFor, Unlinked, Linked, Relation, LinkStatus

\* What the others have open stays open.
OthersHold(c) == \A d \in Calls : d # c => (handle'[d] <=> handle[d])

LEMMA UnmarkedClose ==
  ASSUME TypeOK, NEW c \in Calls, ~pending[LinkOf[c]], CloseHandle(c)
  PROVE  ~handle'[c] /\ UNCHANGED <<entry, pending, held>> /\ OthersHold(c)
  BY DEF CloseHandle, OthersHold, TypeOK

\* A step of an inspection: it reads on, or classifies what stands there, or fails.
ReadsOn(c) == ReadsTruly(c)' /\ fresh'[c] = fresh[c] /\ answer'[c] = answer[c]

Recognizes(c) ==
  \E o : Consistent(o) /\ StatusFor(o) = StatusAt(c) /\ Classified(c, o)

FailsToRead(c) == InspectionFails(c) /\ (Faults # {} \/ file[ExeOf[c]] = NoFile)

LEMMA ReadAttributesTruly ==
  ASSUME TypeOK, NEW c \in Calls, ~pending[LinkOf[c]], ReadAttributes(c)
  PROVE  ReadsOn(c) \/ Recognizes(c) \/ FailsToRead(c)
  <1> USE CallAssumption
  <1>1. Reachable(LinkOf[c]) = entry[LinkOf[c]].kind /\ entry' = entry
    BY DEF Reachable, ReadAttributes, folder
  <1>2. entry[LinkOf[c]].kind # "marked"
    BY EntryType DEF TypeOK
  <1>3. ASSUME NEW kind \in {"None", "RegularFile", "OtherReparsePoint"},
               Classified(c, Unlinked(kind)), StatusFor(Unlinked(kind)) = StatusAt(c)
        PROVE  Recognizes(c)
    BY <1>3, UnlinkedConsistent DEF Recognizes
  <1>4. /\ StatusFor(Unlinked("None")) = "Missing"
        /\ \A kind \in {"RegularFile", "OtherReparsePoint"} :
             StatusFor(Unlinked(kind)) = "Mismatch"
    BY DEF StatusFor, Unlinked
  <1>5. entry[LinkOf[c]].kind = "absent" => StatusAt(c) = "Missing"
    BY DEF StatusAt, StatusOf, ObservationOf, StatusFor, Unlinked
  <1>6. entry[LinkOf[c]].kind \in {"plain", "dirlink"} => StatusAt(c) = "Mismatch"
    BY Statuses
  <1>7. CASE entry[LinkOf[c]].kind \in {"foreign", "symlink"}
             /\ Goto(c, "reparse") /\ UNCHANGED fresh
    <2>1. pc'[c] = "reparse" /\ answer'[c] = answer[c] /\ fresh'[c] = fresh[c]
      BY <1>7 DEF Goto, TypeOK
    <2> QED
      BY <1>1, <1>7, <2>1 DEF ReadsOn, ReadsTruly, Inspecting
  <1> QED
    BY <1>1, <1>2, <1>3, <1>4, <1>5, <1>6, <1>7 DEF ReadAttributes, FailsToRead

LEMMA ReadReparsePointTruly ==
  ASSUME TypeOK, NEW c \in Calls, ReadsTruly(c), ~pending[LinkOf[c]], ReadReparsePoint(c)
  PROVE  ReadsOn(c) \/ FailsToRead(c)
  <1>1. /\ entry[LinkOf[c]].kind \in {"symlink", "foreign"} /\ entry' = entry
        /\ Reachable(LinkOf[c]) = entry[LinkOf[c]].kind
    BY DEF ReadReparsePoint, ReadsTruly, Reachable, OpenHandle, folder
  <1>2. CASE /\ target' = [target EXCEPT ![c] = entry[LinkOf[c]].target]
             /\ Goto(c, "closeLink") /\ UNCHANGED fresh
    <2>1. /\ pc'[c] = "closeLink" /\ answer'[c] = answer[c] /\ fresh'[c] = fresh[c]
          /\ target'[c] = entry[LinkOf[c]].target
      BY <1>2 DEF Goto, TypeOK
    <2> QED
      BY <1>1, <2>1 DEF ReadsOn, ReadsTruly, Inspecting
  <1> QED
    BY <1>1, <1>2 DEF ReadReparsePoint, FailsToRead

LEMMA CloseReparsePointTruly ==
  ASSUME TypeOK, NEW c \in Calls, ReadsTruly(c), ~pending[LinkOf[c]], CloseReparsePoint(c)
  PROVE  ReadsOn(c) \/ Recognizes(c)
  <1> USE CallAssumption
  <1>1. /\ entry[LinkOf[c]].kind \in {"symlink", "foreign"}
        /\ target[c] = entry[LinkOf[c]].target
        /\ entry[LinkOf[c]] \in Entry
    BY DEF CloseReparsePoint, ReadsTruly, TypeOK
  <1>2. entry' = entry
    BY UnmarkedClose DEF CloseReparsePoint
  <1>3. target[c] # NoPath <=> entry[LinkOf[c]].kind = "symlink"
    BY <1>1, SentinelAssumption DEF Entry
  <1>4. CASE target[c] = NoPath /\ Classified(c, Unlinked("OtherReparsePoint"))
    <2>1. StatusAt(c) = "Mismatch"
      BY <1>1, <1>3, <1>4, Statuses
    <2>2. StatusFor(Unlinked("OtherReparsePoint")) = "Mismatch"
      BY DEF StatusFor, Unlinked
    <2> QED
      BY <1>4, <2>1, <2>2, UnlinkedConsistent DEF Recognizes
  <1>5. CASE target[c] # NoPath /\ Goto(c, "target") /\ UNCHANGED fresh
    <2>1. /\ pc'[c] = "target" /\ answer'[c] = answer[c] /\ fresh'[c] = fresh[c]
          /\ target'[c] = target[c]
      BY <1>5 DEF CloseReparsePoint, Goto, TypeOK
    <2> QED
      BY <1>1, <1>2, <1>3, <1>5, <2>1 DEF ReadsOn, ReadsTruly, Inspecting
  <1> QED
    BY <1>4, <1>5 DEF CloseReparsePoint

LEMMA ReadTargetTruly ==
  ASSUME TypeOK, NEW c \in Calls, ReadsTruly(c), ReadTarget(c)
  PROVE  ReadsOn(c) \/ Recognizes(c) \/ FailsToRead(c)
  <1>1. /\ entry[LinkOf[c]].kind = "symlink" /\ target[c] = entry[LinkOf[c]].target
        /\ entry' = entry /\ file' = file
    BY DEF ReadTarget, ReadsTruly, folder
  <1>2. target[c] \in Paths
    BY DEF ReadTarget, TypeOK
  <1>3. CASE file[target[c]] = NoFile /\ Classified(c, Linked(target[c], "Missing"))
    <2>1. StatusAt(c) = "Broken"
      BY <1>1, <1>3, Statuses
    <2>2. StatusFor(Linked(target[c], "Missing")) = "Broken"
      BY DEF StatusFor, Linked
    <2>3. Consistent(Linked(target[c], "Missing"))
      BY <1>2, LinkedConsistent DEF TargetRelation
    <2> QED
      BY <1>3, <2>1, <2>2, <2>3 DEF Recognizes
  <1>4. CASE /\ file[target[c]] # NoFile
             /\ targetId' = [targetId EXCEPT ![c] = file[target[c]]]
             /\ Goto(c, "executable") /\ UNCHANGED fresh
    <2>1. /\ pc'[c] = "executable" /\ answer'[c] = answer[c] /\ fresh'[c] = fresh[c]
          /\ target'[c] = target[c] /\ targetId'[c] = file[target[c]]
      BY <1>4 DEF ReadTarget, Goto, TypeOK
    <2> QED
      BY <1>1, <1>4, <2>1 DEF ReadsOn, ReadsTruly, Inspecting
  <1> QED
    BY <1>3, <1>4 DEF ReadTarget, FailsToRead

LEMMA ReadExecutableTruly ==
  ASSUME TypeOK, NEW c \in Calls, ReadsTruly(c), ReadExecutable(c)
  PROVE  Recognizes(c) \/ FailsToRead(c)
  <1>1. /\ entry[LinkOf[c]].kind = "symlink" /\ target[c] = entry[LinkOf[c]].target
        /\ targetId[c] = file[target[c]] /\ targetId[c] # NoFile
    BY DEF ReadExecutable, ReadsTruly
  <1>2. target[c] \in Paths
    BY DEF ReadExecutable, TypeOK
  <1>3. CASE Classified(c, Linked(target[c], Relation(targetId[c], file[ExeOf[c]])))
    <2>1. PICK relation : relation = Relation(targetId[c], file[ExeOf[c]])
      OBVIOUS
    <2>2. relation = IF file[target[c]] = file[ExeOf[c]] THEN "SameFile" ELSE "DifferentFile"
      BY <1>1, <2>1 DEF Relation
    <2>3. StatusFor(Linked(target[c], relation)) = StatusAt(c)
      BY <1>1, <2>2, Statuses DEF StatusFor, Linked
    <2>4. Consistent(Linked(target[c], relation))
      BY <1>2, <2>2, LinkedConsistent DEF TargetRelation
    <2> QED
      BY <1>3, <2>1, <2>3, <2>4 DEF Recognizes
  <1> QED
    BY <1>3 DEF ReadExecutable, FailsToRead

LEMMA ClosedHandle ==
  ASSUME TypeOK, NEW c \in Calls, CloseHandle(c)
  PROVE  ~handle'[c]
  BY DEF CloseHandle, SetEntry, TypeOK

\* Between two steps of an inspection only the handle on the reparse point is open.
LEMMA ReadingHandle ==
  ASSUME TypeOK, NEW c \in Calls, handle[c] => pc[c] = "closeLink",
         Inspects(c) \/ CloseReparsePoint(c)
  PROVE  handle'[c] <=> pc'[c] = "closeLink"
  <1>1. ASSUME NEW o, Classified(c, o), Consistent(o) PROVE pc'[c] # "closeLink"
    BY <1>1, InspectedType DEF Consistent, Settling, TypeOK
  <1>2. ASSUME InspectionFails(c) PROVE pc'[c] # "closeLink"
    BY <1>2 DEF InspectionFails, Return, TypeOK
  <1>3. \A label \in Label : Goto(c, label) => pc'[c] = label
    BY DEF Goto, TypeOK
  <1>4. CASE ReadReparsePoint(c)
    <2>1. CASE OpenHandle(c) /\ Goto(c, "closeLink")
      BY <2>1 DEF OpenHandle, Goto, TypeOK
    <2>2. CASE InspectionFails(c) /\ UNCHANGED folder
      BY <1>2, <1>4, <2>2 DEF ReadReparsePoint, folder
    <2> QED
      BY <1>4, <2>1, <2>2 DEF ReadReparsePoint
  <1>5. CASE CloseReparsePoint(c)
    <2>1. ~handle'[c]
      BY <1>5, ClosedHandle DEF CloseReparsePoint
    <2>2. Consistent(Unlinked("OtherReparsePoint"))
      BY UnlinkedConsistent
    <2> QED
      BY <1>1, <1>3, <1>5, <2>1, <2>2 DEF CloseReparsePoint, Label
  <1>6. CASE ReadAttributes(c) \/ ReadTarget(c) \/ ReadExecutable(c)
    <2>1. \A relation \in TargetRelation \ {"NotApplicable"} :
            pc[c] \in {"target", "executable"} => Consistent(Linked(target[c], relation))
      BY LinkedConsistent DEF TypeOK
    <2>2. /\ Consistent(Unlinked("None")) /\ Consistent(Unlinked("RegularFile"))
          /\ Consistent(Unlinked("OtherReparsePoint"))
      BY UnlinkedConsistent
    <2>3. \A a, b : Relation(a, b) \in TargetRelation \ {"NotApplicable"}
      BY DEF Relation, TargetRelation
    <2>4. "Missing" \in TargetRelation \ {"NotApplicable"}
      BY DEF TargetRelation
    <2>5. \/ \E label \in {"reparse", "executable"} : Goto(c, label)
          \/ \E o : Consistent(o) /\ Classified(c, o)
          \/ InspectionFails(c)
      BY <1>6, <2>1, <2>2, <2>3, <2>4 DEF ReadAttributes, ReadTarget, ReadExecutable
    <2>6. pc'[c] # "closeLink"
      BY <1>1, <1>2, <1>3, <2>5 DEF Label
    <2>7. ~handle'[c]
      BY <1>6 DEF ReadAttributes, ReadTarget, ReadExecutable, folder
    <2> QED
      BY <2>6, <2>7
  <1> QED
    BY <1>4, <1>5, <1>6 DEF Inspects

LEMMA InspectingStep ==
  ASSUME NEW c \in Calls, pc[c] \in Inspecting, Step(c)
  PROVE  Inspects(c) \/ CloseReparsePoint(c)
  BY DEF Step, Inspects, Inspecting, OpenEntry, DisposeEntry, CloseEntry, CreateLink

\* An inspection leaves the folder as it is, and finds what stands there.
LEMMA TrueReading ==
  ASSUME TypeOK, NEW c \in Calls, ReadsTruly(c), ~pending[LinkOf[c]],
         handle[c] => pc[c] = "closeLink", Step(c)
  PROVE  /\ UNCHANGED <<entry, pending, held, file>> /\ OthersHold(c)
         /\ handle'[c] <=> pc'[c] = "closeLink"
         /\ ReadsOn(c) \/ Recognizes(c) \/ FailsToRead(c)
  <1>1. Inspects(c) \/ CloseReparsePoint(c)
    BY InspectingStep DEF ReadsTruly
  <1>2. ReadsOn(c) \/ Recognizes(c) \/ FailsToRead(c)
    BY <1>1, ReadAttributesTruly, ReadReparsePointTruly, CloseReparsePointTruly, ReadTargetTruly,
       ReadExecutableTruly
       DEF Inspects
  <1>3. UNCHANGED <<entry, pending, held, file>> /\ OthersHold(c)
    BY <1>1, UnmarkedClose
       DEF Inspects, ReadAttributes, ReadReparsePoint, CloseReparsePoint, ReadTarget,
           ReadExecutable, OpenHandle, OthersHold, folder, TypeOK
  <1> QED
    BY <1>1, <1>2, <1>3, ReadingHandle

-------------------------------------------------------------------------------
(***************************************************************************)
(* The refinement.  A call nobody disturbs finds at each Win32 call what   *)
(* the one before left, or found, there.                                   *)
(***************************************************************************)
Undisturbed(c) ==
  LET l == LinkOf[c] IN
  /\ ~held[l] /\ pc[c] # "killed"
  /\ handle[c] <=> pc[c] \in {"closeLink", "dispose", "closeEntry"}
  /\ pending[l] <=> pc[c] = "closeEntry"
  /\ answer[c] = "none" <=> pc[c] # "done"
  /\ fresh[c] = "Unknown" => pc[c] \in Inspecting \cup {"done"}
  /\ pc[c] \in Inspecting =>
       /\ ReadsTruly(c)
       /\ fresh[c] # "Unknown" => /\ fresh[c] \in {"Missing", "Broken"}
                                  /\ ModeOf[c] = "Execute"
                                  /\ entry[l] = Symlink(ExeOf[c])
  /\ pc[c] \in {"open", "dispose", "closeEntry"} =>
       fresh[c] = "Broken" /\ StatusAt(c) = "Broken" /\ ModeOf[c] = "Execute"
  /\ pc[c] = "create" =>
       /\ fresh[c] \in {"Missing", "Broken"}
       /\ ModeOf[c] = "Execute" /\ entry[l] = Absent

AloneInv == interference = 0 => \A c \in Calls : Alone(c) => Undisturbed(c)

-------------------------------------------------------------------------------
\* What the call's own part of the state is.
Unmoved(c) == /\ entry'[LinkOf[c]] = entry[LinkOf[c]]
              /\ pending'[LinkOf[c]] <=> pending[LinkOf[c]]
              /\ held'[LinkOf[c]] <=> held[LinkOf[c]]
              /\ handle'[c] <=> handle[c]
              /\ UNCHANGED file
              /\ pc'[c] = pc[c] /\ target'[c] = target[c] /\ targetId'[c] = targetId[c]
              /\ fresh'[c] = fresh[c] /\ answer'[c] = answer[c]

LEMMA SetEntryElsewhere ==
  ASSUME TypeOK, NEW c \in Calls, NEW l \in Links, NEW e, l # LinkOf[c], SetEntry(l, e)
  PROVE  /\ entry'[LinkOf[c]] = entry[LinkOf[c]]
         /\ pending'[LinkOf[c]] <=> pending[LinkOf[c]]
         /\ held'[LinkOf[c]] <=> held[LinkOf[c]]
         /\ handle'[c] <=> handle[c]
  BY CallAssumption DEF SetEntry, TypeOK

LEMMA CloseHandleElsewhere ==
  ASSUME TypeOK, NEW c \in Calls, NEW d \in Calls, LinkOf[d] # LinkOf[c], CloseHandle(d)
  PROVE  /\ entry'[LinkOf[c]] = entry[LinkOf[c]]
         /\ pending'[LinkOf[c]] <=> pending[LinkOf[c]]
         /\ held'[LinkOf[c]] <=> held[LinkOf[c]]
         /\ handle'[c] <=> handle[c]
  <1>1. LinkOf[d] \in Links
    BY CallAssumption
  <1> QED
    BY <1>1, SetEntryElsewhere DEF CloseHandle, TypeOK

LEMMA ClassifiedElsewhere ==
  ASSUME TypeOK, NEW c \in Calls, NEW d \in Calls, c # d, NEW o,
         Classified(d, o) \/ InspectionFails(d)
  PROVE  pc'[c] = pc[c] /\ fresh'[c] = fresh[c] /\ answer'[c] = answer[c]
  BY DEF Classified, Decide, Verify, InspectionFails, Return, Goto, TypeOK

\* What another call knows, and where it is, no call changes.
LEMMA OthersKnow ==
  ASSUME TypeOK, NEW c \in Calls, NEW d \in Calls, c # d, Step(d) \/ Kill(d)
  PROVE  /\ UNCHANGED file
         /\ pc'[c] = pc[c] /\ fresh'[c] = fresh[c] /\ answer'[c] = answer[c]
         /\ target'[c] = target[c] /\ targetId'[c] = targetId[c]
  <1> DEFINE ControlThere == pc'[c] = pc[c] /\ fresh'[c] = fresh[c] /\ answer'[c] = answer[c]
  <1>1. \A o : Classified(d, o) => ControlThere
    BY ClassifiedElsewhere
  <1>2. InspectionFails(d) => ControlThere
    BY DEF InspectionFails, Return, TypeOK
  <1>3. \A label : Goto(d, label) /\ UNCHANGED fresh => ControlThere
    BY DEF Goto, TypeOK
  <1>4. \A a : Return(d, a) /\ UNCHANGED fresh => ControlThere
    BY DEF Return, TypeOK
  <1>5. ControlThere
    <2> HIDE DEF ControlThere
    <2>1. CASE Inspects(d) \/ CloseReparsePoint(d)
      BY <2>1, <1>1, <1>2, <1>3
         DEF Inspects, ReadAttributes, ReadReparsePoint, CloseReparsePoint, ReadTarget,
             ReadExecutable
    <2>2. CASE OpenEntry(d) \/ DisposeEntry(d) \/ CloseEntry(d) \/ CreateLink(d)
      BY <2>2, <1>3, <1>4 DEF OpenEntry, DisposeEntry, CloseEntry, CreateLink
    <2>3. CASE Kill(d)
      BY <2>3 DEF Kill, ControlThere, TypeOK
    <2> QED
      BY <2>1, <2>2, <2>3 DEF Step, Inspects
  <1>6. UNCHANGED file /\ target'[c] = target[c] /\ targetId'[c] = targetId[c]
    BY DEF Step, Kill, ReadAttributes, ReadReparsePoint, CloseReparsePoint, ReadTarget,
           ReadExecutable, OpenEntry, DisposeEntry, CloseEntry, CreateLink, TypeOK
  <1> QED
    BY <1>5, <1>6

LEMMA OthersElsewhere ==
  ASSUME TypeOK, NEW c \in Calls, NEW d \in Calls, LinkOf[d] # LinkOf[c], Step(d) \/ Kill(d)
  PROVE  Unmoved(c)
  <1> DEFINE FolderThere == /\ entry'[LinkOf[c]] = entry[LinkOf[c]]
                            /\ pending'[LinkOf[c]] <=> pending[LinkOf[c]]
                            /\ held'[LinkOf[c]] <=> held[LinkOf[c]]
                            /\ handle'[c] <=> handle[c]
  <1>0. c # d /\ LinkOf[c] \in Links /\ LinkOf[d] \in Links
    BY CallAssumption
  <1>1. UNCHANGED folder => FolderThere
    BY DEF folder
  <1>2. OpenHandle(d) => FolderThere
    BY <1>0 DEF OpenHandle, TypeOK
  <1>3. CloseHandle(d) => FolderThere
    BY CloseHandleElsewhere
  <1>4. CASE CreateLink(d)
    BY <1>0, <1>1, <1>4, SetEntryElsewhere, OthersKnow DEF CreateLink, Unmoved
  <1>5. CASE DisposeEntry(d)
    <2>1. ASSUME pending' = [pending EXCEPT ![LinkOf[d]] = @ \/ handle[d]],
                 UNCHANGED <<entry, held, handle>>
          PROVE  FolderThere
      BY <1>0, <2>1 DEF TypeOK
    <2>2. FolderThere
      BY <1>1, <1>3, <1>5, <2>1 DEF DisposeEntry
    <2> QED
      BY <1>0, <2>2, OthersKnow DEF Unmoved
  <1>6. CASE ~CreateLink(d) /\ ~DisposeEntry(d)
    <2>1. FolderThere
      BY <1>1, <1>2, <1>3, <1>6
         DEF Step, Kill, ReadAttributes, ReadReparsePoint, CloseReparsePoint, ReadTarget,
             ReadExecutable, OpenEntry, CloseEntry, folder
    <2> QED
      BY <1>0, <2>1, OthersKnow DEF Unmoved
  <1> QED
    BY <1>4, <1>5, <1>6

\* A step that is not the call's own leaves its part of the state alone.
LEMMA OthersLeave ==
  ASSUME TypeOK, NEW c \in Calls, Alone(c), ~held[LinkOf[c]],
         [Next]_vars, interference' = interference
  PROVE  Step(c) \/ Unmoved(c)
  <1>1. ASSUME NEW d \in Calls, Step(d) \/ Kill(d) PROVE Step(c) \/ Unmoved(c)
    BY <1>1, OthersElsewhere DEF Alone, Kill
  <1>2. ~Interfere
    BY DEF Interfere, TypeOK
  <1>3. ASSUME NEW l \in Links, Hold(l) PROVE Unmoved(c)
    BY <1>3, CallAssumption DEF Hold, Alone, Unmoved, TypeOK
  <1>4. ASSUME NEW l \in Links, Release(l) PROVE Unmoved(c)
    <2>1. l # LinkOf[c]
      BY <1>4 DEF Release
    <2>2. CASE SetEntry(l, Absent)
      BY <1>4, <2>1, <2>2, SetEntryElsewhere DEF Release, Unmoved
    <2>3. CASE held' = [held EXCEPT ![l] = FALSE] /\ UNCHANGED <<entry, pending, handle>>
      BY <1>4, <2>1, <2>3, CallAssumption DEF Release, Unmoved, TypeOK
    <2> QED
      BY <1>4, <2>2, <2>3 DEF Release
  <1>5. CASE UNCHANGED vars
    BY <1>5 DEF vars, folder, Unmoved
  <1> QED
    BY <1>1, <1>2, <1>3, <1>4, <1>5 DEF Next

LEMMA UnmovedStutters ==
  ASSUME NEW c \in Calls, Unmoved(c)
  PROVE  /\ Undisturbed(c) => Undisturbed(c)'
         /\ UNCHANGED Contract(c)!vars
  <1>1. StatusAt(c)' = StatusAt(c)
    BY DEF Unmoved, StatusAt, StatusOf, ObservationOf
  <1>2. Found(c)' = Found(c) /\ Stage(c)' = Stage(c)
    BY <1>1 DEF Unmoved, Found, Stage, Made, Removed
  <1> QED
    BY <1>1, <1>2 DEF Contract!vars, Unmoved, Undisturbed, ReadsTruly

-------------------------------------------------------------------------------
\* What the call's own steps do to the contract.
Conforms(c) == Undisturbed(c)' /\ [Contract(c)!Next]_(Contract(c)!vars)

Locked(c) == handle'[c] \/ held'[LinkOf[c]] \/ pending'[LinkOf[c]]

LEMMA ReplyConforms ==
  ASSUME NEW c \in Calls, answer[c] = "none",
         answer'[c] \in Contract(c)!Outcomes \cup Contract(c)!Errors,
         StatusAt(c)' = StatusAt(c), Found(c)' = Found(c), Stage(c)' = Stage(c)
  PROVE  Contract(c)!Next
  BY DEF Contract!Next, Contract!Reply

LEMMA StutterConforms ==
  ASSUME NEW c \in Calls, answer'[c] = answer[c],
         StatusAt(c)' = StatusAt(c), Found(c)' = Found(c), Stage(c)' = Stage(c)
  PROVE  [Contract(c)!Next]_(Contract(c)!vars)
  BY DEF Contract!vars

LEMMA ReturnedUndisturbed ==
  ASSUME TypeOK, NEW c \in Calls, NEW a, a # "none", Return(c, a), ~Locked(c)
  PROVE  Undisturbed(c)'
  BY DEF Return, Undisturbed, Locked, Inspecting, TypeOK

LEMMA SameStatus ==
  ASSUME NEW c \in Calls, entry'[LinkOf[c]] = entry[LinkOf[c]], UNCHANGED file
  PROVE  StatusAt(c)' = StatusAt(c)
  BY DEF StatusAt, StatusOf, ObservationOf

LEMMA FailedInspectionConforms ==
  ASSUME TypeOK, NEW c \in Calls, Undisturbed(c), pc[c] \in Inspecting,
         InspectionFails(c), ~Locked(c),
         entry'[LinkOf[c]] = entry[LinkOf[c]], UNCHANGED file
  PROVE  Conforms(c)
  <1>1. StatusAt(c)' = StatusAt(c)
    BY SameStatus
  <1>2. /\ answer[c] = "none" /\ answer'[c] = "LinkInspectionError"
        /\ pc'[c] = "done" /\ fresh'[c] = fresh[c]
    BY DEF Undisturbed, InspectionFails, Return, Inspecting, TypeOK
  <1>3. Found(c)' = Found(c) /\ Stage(c)' = Stage(c)
    BY <1>1, <1>2 DEF Found, Stage, Made, Removed
  <1>4. "LinkInspectionError" \in Contract(c)!Errors
    BY DEF Contract!Errors, Stage, Made, Removed
  <1> QED
    BY <1>1, <1>2, <1>3, <1>4, ReplyConforms, ReturnedUndisturbed DEF InspectionFails, Conforms

LEMMA GoOnConforms ==
  ASSUME NEW c \in Calls, pc[c] \in Inspecting, pc'[c] \in Inspecting,
         fresh'[c] = fresh[c], answer'[c] = answer[c],
         entry'[LinkOf[c]] = entry[LinkOf[c]], UNCHANGED file
  PROVE  [Contract(c)!Next]_(Contract(c)!vars)
  <1>1. StatusAt(c)' = StatusAt(c)
    BY SameStatus
  <1>2. Found(c)' = Found(c) /\ Stage(c)' = Stage(c)
    BY <1>1 DEF Found, Stage, Made, Removed
  <1> QED
    BY <1>1, <1>2, StutterConforms

LEMMA DecisionConforms ==
  ASSUME TypeOK, NEW c \in Calls, Undisturbed(c), pc[c] \in Inspecting, fresh[c] = "Unknown",
         NEW o, ~Rejected(o), StatusFor(o) = StatusAt(c), Decide(c, o), ~Locked(c),
         entry'[LinkOf[c]] = entry[LinkOf[c]], UNCHANGED file
  PROVE  Conforms(c)
  <1> DEFINE status == StatusAt(c)
  <1>0. status \in LinkStatus /\ ModeOf[c] \in {"Execute", "DryRun"}
    BY Statuses, CallAssumption DEF RepairMode
  <1>1. StatusAt(c)' = status /\ fresh'[c] = status
    BY SameStatus DEF Decide, TypeOK
  <1>2. Found(c) = status /\ Found(c)' = status
    BY <1>0, <1>1 DEF Found, LinkStatus
  <1>3. Stage(c) = "untouched" /\ answer[c] = "none"
    BY DEF Stage, Made, Removed, Undisturbed, Inspecting
  <1>4. CASE ModeOf[c] = "DryRun" \/ status \in {"Ok", "Mismatch"}
    <2>1. Return(c, dryRunOutcomeFor(status))
      BY <1>4 DEF Decide
    <2>2. pc'[c] = "done" /\ answer'[c] = dryRunOutcomeFor(status)
      BY <2>1 DEF Return, TypeOK
    <2>3. /\ dryRunOutcomeFor(status) \in Contract(c)!Outcomes
          /\ dryRunOutcomeFor(status) \in
               {"SkippedOk", "RefusedMismatch", "WouldCreate", "WouldReplaceBroken"}
      BY <1>0, <1>3, <1>4 DEF dryRunOutcomeFor, Contract!Outcomes, LinkStatus
    <2>4. Stage(c)' = "untouched"
      BY <2>2, <2>3 DEF Stage, Made, Removed, Inspecting
    <2>5. Undisturbed(c)'
      BY <2>1, <2>3, ReturnedUndisturbed
    <2> QED
      BY <1>1, <1>2, <1>3, <2>2, <2>3, <2>4, <2>5, ReplyConforms DEF Conforms
  <1>5. CASE ~(ModeOf[c] = "DryRun" \/ status \in {"Ok", "Mismatch"})
    <2>1. Goto(c, IF status = "Broken" THEN "open" ELSE "create")
      BY <1>5 DEF Decide
    <2>2. /\ pc'[c] = IF status = "Broken" THEN "open" ELSE "create"
          /\ answer'[c] = "none"
      BY <1>3, <2>1 DEF Goto, TypeOK
    <2>3. Stage(c)' = "untouched"
      BY <1>0, <1>1, <1>5, <2>2 DEF Stage, Made, Removed, Inspecting, LinkStatus
    <2>4. status = "Missing" => entry'[LinkOf[c]] = Absent
      BY Statuses
    <2>5. Undisturbed(c)'
      BY <1>0, <1>1, <1>5, <2>2, <2>4 DEF Undisturbed, Inspecting, LinkStatus, Locked
    <2> QED
      BY <1>1, <1>2, <1>3, <2>2, <2>3, <2>5, StutterConforms DEF Conforms
  <1> QED
    BY <1>4, <1>5

LEMMA VerificationConforms ==
  ASSUME TypeOK, NEW c \in Calls, Undisturbed(c), pc[c] \in Inspecting, fresh[c] # "Unknown",
         NEW o, ValidObservation(o), StatusFor(o) = StatusAt(c), Verify(c, o), ~Locked(c),
         entry'[LinkOf[c]] = entry[LinkOf[c]], UNCHANGED file
  PROVE  Conforms(c)
  <1>1. PICK a \in {"VerificationFailed", "ReplacedBroken", "Created"} :
          /\ Return(c, a)
          /\ a = IF StatusAt(c) # "Ok" THEN "VerificationFailed"
                 ELSE IF fresh[c] = "Broken" THEN "ReplacedBroken" ELSE "Created"
    BY DEF Verify
  <1>2. /\ answer[c] = "none" /\ answer'[c] = a
        /\ pc'[c] = "done" /\ fresh'[c] = fresh[c]
    BY <1>1 DEF Undisturbed, Verify, Return, Inspecting, TypeOK
  <1>3. StatusAt(c)' = StatusAt(c)
    BY SameStatus
  <1>4. Found(c) = fresh[c] /\ Found(c)' = fresh[c]
    BY <1>2 DEF Found
  <1>5. Stage(c) = "made" /\ Stage(c)' = "made"
    BY <1>1, <1>2 DEF Stage, Made, Removed
  <1>6. a \in Contract(c)!Outcomes \cup Contract(c)!Errors
    BY <1>1, <1>4, <1>5 DEF Contract!Outcomes, Contract!Errors
  <1> QED
    BY <1>1, <1>2, <1>3, <1>4, <1>5, <1>6, ReplyConforms, ReturnedUndisturbed DEF Conforms

LEMMA ClassifiedConforms ==
  ASSUME TypeOK, NEW c \in Calls, Undisturbed(c), pc[c] \in Inspecting,
         NEW o, Consistent(o), StatusFor(o) = StatusAt(c), Classified(c, o), ~Locked(c),
         entry'[LinkOf[c]] = entry[LinkOf[c]], UNCHANGED file
  PROVE  Conforms(c)
  BY DecisionConforms, VerificationConforms DEF Classified, Consistent

-------------------------------------------------------------------------------
\* Each step of the call itself.


LEMMA InspectionConforms ==
  ASSUME TypeOK, NEW c \in Calls, Undisturbed(c), pc[c] \in Inspecting, Step(c)
  PROVE  Conforms(c)
  <1>1. /\ ReadsTruly(c) /\ ~held[LinkOf[c]] /\ ~pending[LinkOf[c]]
        /\ handle[c] => pc[c] = "closeLink"
    BY DEF Undisturbed, Inspecting
  <1>2. /\ UNCHANGED <<entry, pending, held, file>>
        /\ handle'[c] <=> pc'[c] = "closeLink"
    BY <1>1, TrueReading
  <1>3. CASE ReadsOn(c)
    <2>1. Undisturbed(c)'
      BY <1>1, <1>2, <1>3 DEF Undisturbed, ReadsOn, ReadsTruly, Inspecting
    <2>2. [Contract(c)!Next]_(Contract(c)!vars)
      BY <1>2, <1>3, GoOnConforms DEF ReadsOn, ReadsTruly
    <2> QED
      BY <2>1, <2>2 DEF Conforms
  <1>4. CASE Recognizes(c)
    <2>1. PICK o : Consistent(o) /\ StatusFor(o) = StatusAt(c) /\ Classified(c, o)
      BY <1>4 DEF Recognizes
    <2>2. pc'[c] # "closeLink"
      BY <2>1, InspectedType DEF Consistent, Settling, TypeOK
    <2>3. ~Locked(c)
      BY <1>1, <1>2, <2>2 DEF Locked
    <2> QED
      BY <1>2, <2>1, <2>3, ClassifiedConforms
  <1>5. CASE InspectionFails(c)
    <2>1. pc'[c] # "closeLink"
      BY <1>5 DEF InspectionFails, Return, TypeOK
    <2>2. ~Locked(c)
      BY <1>1, <1>2, <2>1 DEF Locked
    <2> QED
      BY <1>2, <1>5, <2>2, FailedInspectionConforms
  <1> QED
    BY <1>1, <1>3, <1>4, <1>5, TrueReading DEF FailsToRead

\* deleteEntry and the creation, up to their errors.
Deleting == {"open", "dispose", "closeEntry"}

LEMMA FailedDeletionConforms ==
  ASSUME TypeOK, NEW c \in Calls, Undisturbed(c), pc[c] \in Deleting,
         NEW error, Return(c, buildError("DeleteFailed", error)), UNCHANGED <<file, fresh>>,
         ~Locked(c), entry'[LinkOf[c]] = entry[LinkOf[c]]
  PROVE  Conforms(c)
  <1>1. StatusAt(c)' = StatusAt(c) /\ StatusAt(c) = "Broken" /\ fresh[c] = "Broken"
    BY SameStatus DEF Undisturbed, Deleting
  <1>2. PICK a \in {"DeleteFailed", "InsufficientPermission"} : Return(c, a)
    BY DEF buildError
  <1>3. /\ answer[c] = "none" /\ answer'[c] = a /\ pc'[c] = "done" /\ fresh'[c] = fresh[c]
        /\ ModeOf[c] = "Execute"
    BY <1>2 DEF Return, Undisturbed, Deleting, TypeOK
  <1>4. entry[LinkOf[c]].kind = "symlink"
    BY <1>1, Statuses
  <1>5. entry'[LinkOf[c]] # Absent
    BY <1>4 DEF Absent
  <1>6. Stage(c) = "untouched" /\ Stage(c)' = "untouched"
    BY <1>1, <1>3, <1>5 DEF Stage, Made, Removed, Inspecting, Deleting
  <1>7. a \in Contract(c)!Errors
    BY <1>1, <1>3, <1>6 DEF Contract!Errors
  <1>8. Found(c) = "Broken" /\ Found(c)' = "Broken"
    BY <1>1, <1>3 DEF Found
  <1> QED
    BY <1>1, <1>2, <1>3, <1>6, <1>7, <1>8, ReplyConforms, ReturnedUndisturbed DEF Conforms

LEMMA OpenEntryConforms ==
  ASSUME TypeOK, NEW c \in Calls, Undisturbed(c), OpenEntry(c)
  PROVE  Conforms(c)
  <1> USE CallAssumption
  <1>1. /\ pc[c] = "open" /\ ~held[LinkOf[c]] /\ ~pending[LinkOf[c]] /\ ~handle[c]
        /\ answer[c] = "none" /\ fresh[c] = "Broken" /\ StatusAt(c) = "Broken"
        /\ ModeOf[c] = "Execute" /\ UNCHANGED <<file, fresh>>
        /\ entry'[LinkOf[c]] = entry[LinkOf[c]]
    BY DEF OpenEntry, Undisturbed, folder, OpenHandle
  <1>2. ASSUME NEW error, Return(c, buildError("DeleteFailed", error)), UNCHANGED folder
        PROVE  Conforms(c)
    <2>1. ~Locked(c)
      BY <1>1, <1>2 DEF folder, Locked
    <2> QED
      BY <1>1, <1>2, <2>1, FailedDeletionConforms DEF Deleting
  <1>3. CASE Goto(c, "dispose") /\ OpenHandle(c)
    <2>1. /\ pc'[c] = "dispose" /\ answer'[c] = answer[c] /\ fresh'[c] = "Broken"
          /\ handle'[c] /\ ~held'[LinkOf[c]] /\ ~pending'[LinkOf[c]]
      BY <1>1, <1>3 DEF Goto, OpenHandle, TypeOK
    <2>2. StatusAt(c)' = StatusAt(c)
      BY <1>1, SameStatus
    <2>3. Undisturbed(c)'
      BY <1>1, <2>1, <2>2 DEF Undisturbed, Inspecting
    <2>4. Found(c)' = Found(c) /\ Stage(c)' = Stage(c)
      BY <1>1, <2>1 DEF Found, Stage, Made, Removed, Inspecting
    <2> QED
      BY <2>1, <2>2, <2>3, <2>4, StutterConforms DEF Conforms
  <1> QED
    BY <1>2, <1>3 DEF OpenEntry

LEMMA DisposeEntryConforms ==
  ASSUME TypeOK, NEW c \in Calls, Undisturbed(c), DisposeEntry(c)
  PROVE  Conforms(c)
  <1> USE CallAssumption
  <1>1. /\ pc[c] = "dispose" /\ ~held[LinkOf[c]] /\ ~pending[LinkOf[c]] /\ handle[c]
        /\ answer[c] = "none" /\ fresh[c] = "Broken" /\ StatusAt(c) = "Broken"
        /\ ModeOf[c] = "Execute" /\ UNCHANGED <<file, fresh>>
    BY DEF DisposeEntry, Undisturbed
  <1>2. ASSUME NEW error, Return(c, buildError("DeleteFailed", error)), CloseHandle(c)
        PROVE  Conforms(c)
    <2>1. ~Locked(c) /\ entry' = entry
      BY <1>1, <1>2, UnmarkedClose DEF Locked
    <2> QED
      BY <1>1, <1>2, <2>1, FailedDeletionConforms DEF Deleting
  <1>3. CASE /\ pending' = [pending EXCEPT ![LinkOf[c]] = @ \/ handle[c]]
             /\ Goto(c, "closeEntry")
             /\ UNCHANGED <<entry, held, handle>>
    <2>1. /\ pc'[c] = "closeEntry" /\ answer'[c] = answer[c] /\ fresh'[c] = "Broken"
          /\ handle'[c] /\ ~held'[LinkOf[c]] /\ pending'[LinkOf[c]]
      BY <1>1, <1>3 DEF Goto, TypeOK
    <2>2. StatusAt(c)' = StatusAt(c)
      BY <1>1, <1>3, SameStatus
    <2>3. Undisturbed(c)'
      BY <1>1, <2>1, <2>2 DEF Undisturbed, Inspecting
    <2>4. Found(c)' = Found(c) /\ Stage(c)' = Stage(c)
      BY <1>1, <2>1 DEF Found, Stage, Made, Removed, Inspecting
    <2> QED
      BY <2>1, <2>2, <2>3, <2>4, StutterConforms DEF Conforms
  <1> QED
    BY <1>1, <1>2, <1>3 DEF DisposeEntry

LEMMA CloseEntryConforms ==
  ASSUME TypeOK, NEW c \in Calls, Alone(c), Undisturbed(c), CloseEntry(c)
  PROVE  Conforms(c)
  <1> USE CallAssumption
  <1>1. /\ pc[c] = "closeEntry" /\ ~held[LinkOf[c]] /\ pending[LinkOf[c]] /\ handle[c]
        /\ answer[c] = "none" /\ fresh[c] = "Broken" /\ StatusAt(c) = "Broken"
        /\ ModeOf[c] = "Execute" /\ UNCHANGED <<file, fresh>>
    BY DEF CloseEntry, Undisturbed
  <1>2. HoldersOf(LinkOf[c]) = {c}
    BY <1>1 DEF HoldersOf, Alone
  <1>3. SetEntry(LinkOf[c], Absent)
    BY <1>1, <1>2 DEF CloseEntry, CloseHandle
  <1>4. entry'[LinkOf[c]] = Absent /\ ~Locked(c)
    BY <1>3 DEF SetEntry, Locked, TypeOK
  <1>5. pc'[c] = "create" /\ answer'[c] = answer[c] /\ fresh'[c] = "Broken"
    BY <1>1 DEF CloseEntry, Goto, TypeOK
  <1>6. StatusAt(c)' = "Missing"
    BY <1>4 DEF StatusAt, StatusOf, ObservationOf, StatusFor, Absent, Unlinked
  <1>7. Undisturbed(c)'
    BY <1>1, <1>4, <1>5 DEF Undisturbed, Inspecting, Locked
  <1>8. Found(c) = "Broken" /\ Found(c)' = "Broken"
    BY <1>1, <1>5 DEF Found
  <1>9. Stage(c) = "untouched" /\ Stage(c)' = "removed"
    BY <1>1, <1>5 DEF Stage, Made, Removed, Inspecting
  <1>10. Contract(c)!Remove
    BY <1>1, <1>5, <1>6, <1>8, <1>9 DEF Contract!Remove
  <1> QED
    BY <1>7, <1>10 DEF Conforms, Contract!Next

LEMMA CreateLinkConforms ==
  ASSUME TypeOK, NEW c \in Calls, Undisturbed(c), CreateLink(c)
  PROVE  Conforms(c)
  <1> USE CallAssumption
  <1>1. /\ pc[c] = "create" /\ ~held[LinkOf[c]] /\ ~pending[LinkOf[c]] /\ ~handle[c]
        /\ answer[c] = "none" /\ fresh[c] \in {"Missing", "Broken"}
        /\ entry[LinkOf[c]] = Absent
        /\ ModeOf[c] = "Execute" /\ UNCHANGED <<file, fresh>>
    BY DEF CreateLink, Undisturbed
  <1>2. StatusAt(c) = "Missing"
    BY <1>1, Statuses
  <1>3. Found(c) = fresh[c] /\ Found(c)' = fresh[c]
    BY <1>1 DEF Found
  <1>4. Stage(c) = IF fresh[c] = "Broken" THEN "removed" ELSE "untouched"
    BY <1>1 DEF Stage, Made, Removed, Inspecting
  <1>5. ASSUME NEW error, Return(c, buildError("CreateFailed", error)), UNCHANGED folder
        PROVE  Conforms(c)
    <2>1. ~Locked(c) /\ entry'[LinkOf[c]] = entry[LinkOf[c]]
      BY <1>1, <1>5 DEF folder, Locked
    <2>2. PICK a \in {"CreateFailed", "InsufficientPermission"} : Return(c, a)
      BY <1>5 DEF buildError
    <2>3. answer'[c] = a /\ pc'[c] = "done" /\ fresh'[c] = fresh[c]
      BY <1>1, <2>2 DEF Return, TypeOK
    <2>4. StatusAt(c)' = StatusAt(c)
      BY <1>1, <2>1, SameStatus
    <2>5. Stage(c)' = Stage(c)
      BY <1>1, <1>4, <2>1, <2>3 DEF Stage, Made, Removed, Inspecting
    <2>6. a \in Contract(c)!Errors
      BY <1>1, <1>2, <1>4 DEF Contract!Errors
    <2> QED
      BY <1>1, <1>3, <2>1, <2>2, <2>3, <2>4, <2>5, <2>6, ReplyConforms, ReturnedUndisturbed
         DEF Conforms
  <1>6. CASE SetEntry(LinkOf[c], Symlink(ExeOf[c])) /\ Goto(c, "attributes")
    <2>1. /\ entry'[LinkOf[c]] = Symlink(ExeOf[c]) /\ ~Locked(c)
          /\ pc'[c] = "attributes" /\ answer'[c] = answer[c] /\ fresh'[c] = fresh[c]
      BY <1>1, <1>6 DEF SetEntry, Goto, Locked, TypeOK
    <2>2. StatusAt(c)' \in {"Ok", "Broken"}
      BY <2>1 DEF StatusAt, StatusOf, ObservationOf, StatusFor, Symlink, Linked, Relation
    <2>3. Undisturbed(c)'
      BY <1>1, <2>1 DEF ReadsTruly, Undisturbed, Inspecting, Locked
    <2>4. Stage(c)' = "made"
      BY <1>1, <2>1 DEF Stage, Made, Inspecting
    <2>5. Contract(c)!Make
      BY <1>1, <1>3, <1>4, <2>1, <2>2, <2>4 DEF Contract!Make
    <2> QED
      BY <2>3, <2>5 DEF Conforms, Contract!Next
  <1>7. Reachable(LinkOf[c]) = "absent"
    BY <1>1 DEF Reachable, Absent
  <1> QED
    BY <1>5, <1>6, <1>7 DEF CreateLink

-------------------------------------------------------------------------------
LEMMA AloneStep ==
  ASSUME TypeOK, AloneInv, [Next]_vars, interference' = 0, NEW c \in Calls, Alone(c)
  PROVE  Conforms(c)
  <1>1. interference = 0
    BY DEF Next, Interfere, TypeOK, Step, ReadAttributes, ReadReparsePoint, CloseReparsePoint,
           ReadTarget, ReadExecutable, OpenEntry, DisposeEntry, CloseEntry, CreateLink, Kill,
           Hold, Release, vars
  <1>2. Undisturbed(c)
    BY <1>1 DEF AloneInv
  <1>3. CASE Step(c)
    <2>1. CASE pc[c] \in Inspecting
      BY <1>2, <1>3, <2>1, InspectionConforms
    <2>2. CASE pc[c] \notin Inspecting
      BY <1>2, <1>3, <2>2, OpenEntryConforms, DisposeEntryConforms, CloseEntryConforms,
         CreateLinkConforms
         DEF Step, Inspecting, ReadAttributes, ReadReparsePoint, CloseReparsePoint, ReadTarget,
             ReadExecutable
    <2> QED
      BY <2>1, <2>2
  <1>4. CASE Unmoved(c)
    BY <1>2, <1>4, UnmovedStutters DEF Conforms
  <1> QED
    BY <1>1, <1>2, <1>3, <1>4, OthersLeave DEF Undisturbed

LEMMA AloneInit == Init => AloneInv
  <1> SUFFICES ASSUME Init, NEW c \in Calls PROVE Undisturbed(c)
    BY DEF AloneInv
  <1> QED
    BY CallAssumption DEF ReadsTruly, Init, Undisturbed, Inspecting

LEMMA ContractInit == ASSUME Init, TypeOK, NEW c \in Calls PROVE Contract(c)!Init
  <1>1. Found(c) = StatusAt(c) /\ Stage(c) = "untouched" /\ answer[c] = "none"
    BY DEF Init, Found, Stage, Made, Removed
  <1>2. StatusAt(c) \in LinkStatus /\ ModeOf[c] \in {"Execute", "DryRun"}
    BY Statuses, CallAssumption DEF RepairMode
  <1> QED
    BY <1>1, <1>2 DEF Contract!Init, LinkStatus

\* repairLink(), for any number of calls, links and Win32 errors: a call whose
\* link nobody else touches does to it, and answers, only what LinkRepair allows,
\* and between its changes of the link and its answer nothing shows.
THEOREM ContractImplemented == Spec => ImplementsContract
  <1>1. Init /\ TypeOK => \A c \in Calls : Contract(c)!Init
    BY ContractInit
  <1>2. TypeOK /\ AloneInv /\ [Next]_vars => AloneInv'
    BY AloneStep DEF AloneInv, Conforms
  <1>3. TypeOK /\ AloneInv /\ [Next]_vars =>
          [\A c \in Calls : Alone(c) /\ interference' = 0 =>
             [Contract(c)!Next]_(Contract(c)!vars)]_vars
    BY AloneStep DEF Conforms
  <1> QED
    BY <1>1, <1>2, <1>3, AloneInit, TypeCorrect, PTL DEF Spec, ImplementsContract

-------------------------------------------------------------------------------
(***************************************************************************)
(* Several instances at one link.  None of the calls on l is killed, and   *)
(* nothing but they has changed anything.                                  *)
(***************************************************************************)
Contended(l) ==
  /\ Faults = {} /\ interference = 0 /\ CallsOn(l) # {}
  /\ \A c \in CallsOn(l) : Repairs(c) /\ pc[c] # "killed"

Dangling(l) == entry[l].kind = "symlink" /\ file[entry[l].target] = NoFile

\* A link that is gone, or marked, is on a call that will create it, or has
\* said that it could not.
WillCreate(c) ==
  \/ pc[c] \in {"closeEntry", "create"}
  \/ pc[c] = "done" /\ answer[c] = "InsufficientPermission"
  \/ pc[c] = "attributes" /\ fresh[c] = "Unknown" /\ ~pending[LinkOf[c]]

\* As long as a broken link is not marked, every call is on its way to mark it.
WillDelete(c) ==
  \/ ReadsTruly(c) /\ pc[c] # "executable" /\ fresh[c] = "Unknown"
  \/ pc[c] = "open"
  \/ pc[c] = "dispose" /\ handle[c]

\* A link that may stay has a call that says so, or will.
WillSucceed(c) ==
  \/ pc[c] = "done" /\ Succeeded(c)
  \/ ReadsTruly(c) /\ (fresh[c] = "Unknown" \/ StatusAt(c) = "Ok")

Watched(l) ==
  /\ \A c \in CallsOn(l) : handle[c] => pc[c] \in {"closeLink", "dispose", "closeEntry"}
  /\ pending[l] => held[l] \/ HoldersOf(l) # {}
  /\ pending[l] \/ entry[l] = Absent => \E c \in CallsOn(l) : WillCreate(c)
  /\ ~pending[l] /\ Dangling(l) => \A c \in CallsOn(l) : WillDelete(c)
  /\ ~pending[l] /\ entry[l] # Absent /\ ~Dangling(l) => \E c \in CallsOn(l) : WillSucceed(c)

WatchInv == \A l \in Links : Contended(l) => Watched(l)

-------------------------------------------------------------------------------
\* Another call that neither moves nor has its handle closed keeps its promise.
LEMMA PromisesKept ==
  ASSUME NEW c \in Calls, entry'[LinkOf[c]] = entry[LinkOf[c]], handle'[c] <=> handle[c],
         UNCHANGED file,
         pc'[c] = pc[c], fresh'[c] = fresh[c], answer'[c] = answer[c],
         target'[c] = target[c], targetId'[c] = targetId[c]
  PROVE  /\ WillCreate(c) /\ (pending'[LinkOf[c]] => pending[LinkOf[c]]) => WillCreate(c)'
         /\ WillDelete(c) => WillDelete(c)'
         /\ WillSucceed(c) => WillSucceed(c)'
  <1>1. StatusAt(c)' = StatusAt(c)
    BY SameStatus
  <1>2. ReadsTruly(c) => ReadsTruly(c)'
    BY DEF ReadsTruly
  <1> QED
    BY <1>1, <1>2 DEF WillCreate, WillDelete, WillSucceed, Succeeded

LEMMA IdleWatched ==
  ASSUME NEW l \in Links, Watched(l), \A c \in CallsOn(l) : Unmoved(c) , CallsOn(l) # {}
  PROVE  Watched(l)'
  <1>0. PICK e \in CallsOn(l) : TRUE
    OBVIOUS
  <1>1. \A c \in CallsOn(l) : c \in Calls /\ LinkOf[c] = l
    BY DEF CallsOn
  <1>2. /\ entry'[l] = entry[l] /\ (pending'[l] <=> pending[l]) /\ (held'[l] <=> held[l])
        /\ UNCHANGED file
    BY <1>0, <1>1 DEF Unmoved
  <1>3. HoldersOf(l)' = HoldersOf(l)
    BY DEF HoldersOf, CallsOn, Unmoved
  <1>4. \A c \in CallsOn(l) : /\ WillCreate(c) => WillCreate(c)'
                              /\ WillDelete(c) => WillDelete(c)'
                              /\ WillSucceed(c) => WillSucceed(c)'
    BY <1>1, PromisesKept DEF Unmoved
  <1>5. Dangling(l)' <=> Dangling(l)
    BY <1>2 DEF Dangling
  <1>6. CallsOn(l)' = CallsOn(l)
    BY DEF CallsOn
  <1> QED
    BY <1>2, <1>3, <1>4, <1>5, <1>6 DEF Watched, Unmoved

\* What c's own step has to do, as long as the entry stays and is not marked.
Advances(c) ==
  LET l == LinkOf[c] IN
  /\ handle'[c] => pc'[c] \in {"closeLink", "dispose", "closeEntry"}
  /\ (pending[l] \/ entry[l] = Absent) /\ WillCreate(c) => WillCreate(c)'
  /\ ~pending[l] /\ Dangling(l) /\ WillDelete(c) => WillDelete(c)'
  /\ ~pending[l] /\ entry[l] # Absent /\ ~Dangling(l) /\ WillSucceed(c) => WillSucceed(c)'

LEMMA CallsAreOn ==
  ASSUME NEW l
  PROVE  CallsOn(l)' = CallsOn(l) /\ \A c \in CallsOn(l) : c \in Calls /\ LinkOf[c] = l
  BY DEF CallsOn

LEMMA StillWatched ==
  ASSUME TypeOK, NEW l \in Links, Watched(l), NEW c \in CallsOn(l), Step(c), Advances(c),
         UNCHANGED <<entry, pending, held>>, OthersHold(c),
         pending[l] /\ ~held[l] => HoldersOf(l)' # {}
  PROVE  Watched(l)'
  <1>1. c \in Calls /\ LinkOf[c] = l /\ UNCHANGED file
    BY CallsAreOn DEF Step, ReadAttributes, ReadReparsePoint, CloseReparsePoint, ReadTarget,
           ReadExecutable, OpenEntry, DisposeEntry, CloseEntry, CreateLink
  <1>2. \A d \in CallsOn(l) : d # c =>
          /\ handle'[d] <=> handle[d]
          /\ pc'[d] = pc[d] /\ fresh'[d] = fresh[d] /\ answer'[d] = answer[d]
          /\ target'[d] = target[d] /\ targetId'[d] = targetId[d]
    BY <1>1, CallsAreOn, OthersKnow DEF OthersHold
  <1>3. \A d \in CallsOn(l) : d # c => /\ WillCreate(d) => WillCreate(d)'
                                       /\ WillDelete(d) => WillDelete(d)'
                                       /\ WillSucceed(d) => WillSucceed(d)'
    BY <1>1, <1>2, CallsAreOn, PromisesKept
  <1>4. Dangling(l)' <=> Dangling(l)
    BY <1>1 DEF Dangling
  <1>5. \A d \in CallsOn(l) :
          handle'[d] => pc'[d] \in {"closeLink", "dispose", "closeEntry"}
    BY <1>2 DEF Watched, Advances
  <1>6. pending[l] \/ entry[l] = Absent => \E d \in CallsOn(l) : WillCreate(d)'
    BY <1>1, <1>3 DEF Watched, Advances
  <1>7. ~pending[l] /\ Dangling(l) => \A d \in CallsOn(l) : WillDelete(d)'
    BY <1>1, <1>3 DEF Watched, Advances
  <1>8. ~pending[l] /\ entry[l] # Absent /\ ~Dangling(l) => \E d \in CallsOn(l) : WillSucceed(d)'
    BY <1>1, <1>3 DEF Watched, Advances
  <1>9. CallsOn(l)' = CallsOn(l)
    BY CallsAreOn
  <1> QED
    BY <1>4, <1>5, <1>6, <1>7, <1>8, <1>9 DEF Watched

\* The last handle on a marked entry is closed.
LEMMA GoneWatched ==
  ASSUME TypeOK, NEW l \in Links, Watched(l), pending[l], SetEntry(l, Absent),
         \A c \in CallsOn(l) : WillCreate(c) => WillCreate(c)'
  PROVE  Watched(l)'
  <1>1. entry'[l] = Absent /\ ~pending'[l]
    BY DEF SetEntry, TypeOK
  <1>2. \A c \in CallsOn(l) : ~handle'[c]
    BY CallsAreOn DEF SetEntry
  <1>3. ~Dangling(l)'
    BY <1>1 DEF Dangling, Absent
  <1>4. CallsOn(l)' = CallsOn(l)
    BY CallsAreOn
  <1> QED
    BY <1>1, <1>2, <1>3, <1>4 DEF Watched

LEMMA ReadingAdvances ==
  ASSUME TypeOK, NEW c \in Calls, pc[c] \in Inspecting, Step(c), Faults = {}, Repairs(c),
         handle[c] => pc[c] \in {"closeLink", "dispose", "closeEntry"},
         UNCHANGED <<entry, pending, file>>
  PROVE  Advances(c)
  <1>0. handle[c] => pc[c] = "closeLink"
    BY DEF Inspecting
  <1>1. handle'[c] => pc'[c] = "closeLink"
    BY <1>0, InspectingStep, ReadingHandle
  <1>2. CASE pending[LinkOf[c]] \/ ~ReadsTruly(c)
    BY <1>1, <1>2 DEF Advances, WillCreate, WillDelete, WillSucceed, ReadsTruly, Inspecting
  <1>3. CASE ~pending[LinkOf[c]] /\ ReadsTruly(c) /\ ReadsOn(c)
    <2>1. StatusAt(c)' = StatusAt(c)
      BY SameStatus
    <2>2. /\ ReadsTruly(c)' /\ fresh'[c] = fresh[c] /\ pc'[c] \in Inspecting
          /\ pc'[c] = "attributes" \/ entry[LinkOf[c]].kind \in {"symlink", "foreign"}
          /\ pc'[c] = "executable" => file[entry[LinkOf[c]].target] # NoFile
      BY <1>3 DEF ReadsOn, ReadsTruly
    <2>3. entry[LinkOf[c]] = Absent /\ WillCreate(c) => WillCreate(c)'
      BY <1>3, <2>2 DEF WillCreate, Absent, Inspecting
    <2>4. Dangling(LinkOf[c]) /\ WillDelete(c) => WillDelete(c)'
      BY <2>2 DEF WillDelete, Dangling, Inspecting
    <2>5. WillSucceed(c) => WillSucceed(c)'
      BY <2>1, <2>2 DEF WillSucceed, Inspecting
    <2> QED
      BY <1>1, <1>3, <2>3, <2>4, <2>5 DEF Advances
  <1>4. CASE ~pending[LinkOf[c]] /\ ReadsTruly(c) /\ Recognizes(c)
    <2>1. PICK o : Consistent(o) /\ StatusFor(o) = StatusAt(c) /\ Classified(c, o)
      BY <1>4 DEF Recognizes
    <2>2. StatusAt(c) \in LinkStatus /\ ModeOf[c] = "Execute" /\ ~Rejected(o)
      BY <2>1, Statuses DEF Repairs, Consistent
    <2>3. /\ entry[LinkOf[c]] = Absent => StatusAt(c) = "Missing"
          /\ Dangling(LinkOf[c]) => StatusAt(c) = "Broken"
          /\ entry[LinkOf[c]] # Absent /\ ~Dangling(LinkOf[c]) => StatusAt(c) \in {"Ok", "Mismatch"}
      BY <2>2, Statuses DEF Dangling, LinkStatus
    <2>4. CASE fresh[c] = "Unknown"
      <3>1. CASE StatusAt(c) \in {"Ok", "Mismatch"}
        <4>1. PICK a \in {"SkippedOk", "RefusedMismatch"} : Return(c, a)
          BY <2>1, <2>2, <2>4, <3>1 DEF Classified, Decide, dryRunOutcomeFor
        <4>2. pc'[c] = "done" /\ Succeeded(c)'
          BY <4>1 DEF Return, Succeeded, SymlinkRepairOutcome, TypeOK
        <4>3. WillSucceed(c)'
          BY <4>2 DEF WillSucceed
        <4>4. entry[LinkOf[c]] # Absent /\ ~Dangling(LinkOf[c])
          BY <2>3, <3>1
        <4> QED
          BY <1>1, <1>4, <4>3, <4>4 DEF Advances
      <3>2. CASE StatusAt(c) \in {"Missing", "Broken"}
        <4>1. pc'[c] = IF StatusAt(c) = "Broken" THEN "open" ELSE "create"
          BY <2>1, <2>2, <2>4, <3>2 DEF Classified, Decide, Goto, TypeOK
        <4>2. /\ StatusAt(c) = "Missing" => WillCreate(c)' /\ ~Dangling(LinkOf[c])
              /\ StatusAt(c) = "Broken" => WillDelete(c)' /\ entry[LinkOf[c]] # Absent
          BY <2>3, <4>1 DEF WillCreate, WillDelete
        <4>3. entry[LinkOf[c]] = Absent \/ Dangling(LinkOf[c])
          BY <2>3, <3>2
        <4> QED
          BY <1>1, <1>4, <3>2, <4>2, <4>3 DEF Advances
      <3> QED
        BY <2>2, <3>1, <3>2 DEF LinkStatus
    <2>5. CASE fresh[c] # "Unknown"
      <3>1. ~WillCreate(c) /\ ~WillDelete(c)
        BY <2>5 DEF WillCreate, WillDelete, Inspecting
      <3>2. ASSUME WillSucceed(c) PROVE WillSucceed(c)'
        <4>1. StatusAt(c) = "Ok"
          BY <2>5, <3>2 DEF WillSucceed, Inspecting
        <4>2. PICK a \in {"Created", "ReplacedBroken"} : Return(c, a)
          BY <2>1, <2>5, <4>1 DEF Classified, Verify, Consistent
        <4> QED
          BY <4>2 DEF Return, WillSucceed, Succeeded, SymlinkRepairOutcome, TypeOK
      <3> QED
        BY <1>1, <3>1, <3>2 DEF Advances
    <2> QED
      BY <2>4, <2>5
  <1> QED
    BY <1>0, <1>2, <1>3, <1>4, TrueReading DEF FailsToRead, Repairs

LEMMA CloseHandleLeaves ==
  ASSUME TypeOK, NEW l \in Links, NEW c \in CallsOn(l), Watched(l), CloseHandle(c)
  PROVE  \/ pending[l] /\ SetEntry(l, Absent)
         \/ /\ UNCHANGED <<entry, pending, held>> /\ OthersHold(c) /\ ~handle'[c]
            /\ pending[l] /\ ~held[l] => HoldersOf(l)' # {}
  <1>1. c \in Calls /\ LinkOf[c] = l
    BY CallsAreOn
  <1>2. CASE pending[l] /\ SetEntry(l, Absent)
    BY <1>2
  <1>3. CASE /\ ~(pending[l] /\ ~held[l] /\ HoldersOf(l) = {c})
             /\ handle' = [handle EXCEPT ![c] = FALSE] /\ UNCHANGED <<entry, pending, held>>
    <2>1. OthersHold(c) /\ ~handle'[c]
      BY <1>1, <1>3 DEF OthersHold, TypeOK
    <2>2. ASSUME pending[l], ~held[l] PROVE HoldersOf(l)' # {}
      <3>1. PICK d \in HoldersOf(l) : d # c
        BY <1>3, <2>2 DEF Watched
      <3>2. d \in HoldersOf(l)'
        BY <2>1, <3>1 DEF HoldersOf, OthersHold
      <3> QED
        BY <3>2
    <2> QED
      BY <1>3, <2>1, <2>2
  <1> QED
    BY <1>1, <1>2, <1>3 DEF CloseHandle

LEMMA OwnRead ==
  ASSUME TypeOK, NEW l \in Links, Contended(l), Watched(l), NEW c \in CallsOn(l),
         pc[c] \in Inspecting, Step(c)
  PROVE  Watched(l)'
  <1>1. c \in Calls /\ LinkOf[c] = l
    BY CallsAreOn
  <1>2. Inspects(c) \/ CloseReparsePoint(c)
    BY <1>1, InspectingStep
  <1>3. /\ Faults = {} /\ Repairs(c) /\ UNCHANGED file
        /\ handle[c] => pc[c] \in {"closeLink", "dispose", "closeEntry"}
    BY <1>2 DEF Contended, Watched, Inspects, ReadAttributes, ReadReparsePoint,
                CloseReparsePoint, ReadTarget, ReadExecutable
  <1>4. ASSUME UNCHANGED <<entry, pending, held>>, OthersHold(c),
               pending[l] /\ ~held[l] => HoldersOf(l)' # {}
        PROVE  Watched(l)'
    BY <1>1, <1>3, <1>4, ReadingAdvances, StillWatched
  <1>5. CASE Inspects(c)
    <2>1. /\ UNCHANGED <<entry, pending, held>>
          /\ \A d \in Calls : d # c => (handle'[d] <=> handle[d])
          /\ handle[c] => handle'[c]
      BY <1>1, <1>5 DEF Inspects, ReadAttributes, ReadReparsePoint, ReadTarget, ReadExecutable,
                        OpenHandle, folder, TypeOK
    <2>2. HoldersOf(l) \subseteq HoldersOf(l)'
      BY <2>1 DEF HoldersOf
    <2> QED
      BY <1>4, <2>1, <2>2 DEF Watched, OthersHold
  <1>6. CASE CloseReparsePoint(c)
    <2>1. CASE pending[l] /\ SetEntry(l, Absent)
      <3>1. ~WillCreate(c)
        BY <1>6 DEF CloseReparsePoint, WillCreate
      <3>2. \A d \in CallsOn(l) : WillCreate(d) => WillCreate(d)'
        <4> SUFFICES ASSUME NEW d \in CallsOn(l), WillCreate(d) PROVE WillCreate(d)'
          OBVIOUS
        <4>1. d # c /\ d \in Calls /\ LinkOf[d] = l
          BY <3>1, CallsAreOn
        <4>2. pc'[d] = pc[d] /\ answer'[d] = answer[d]
          BY <1>1, <4>1, OthersKnow
        <4> QED
          BY <2>1, <4>1, <4>2 DEF WillCreate
      <3> QED
        BY <2>1, <3>2, GoneWatched
    <2> QED
      BY <1>4, <1>6, <2>1, CloseHandleLeaves DEF CloseReparsePoint
  <1> QED
    BY <1>2, <1>5, <1>6

LEMMA OwnOpen ==
  ASSUME TypeOK, NEW l \in Links, Contended(l), Watched(l), NEW c \in CallsOn(l), OpenEntry(c)
  PROVE  Watched(l)'
  <1>1. c \in Calls /\ LinkOf[c] = l /\ pc[c] = "open" /\ Faults = {} /\ Step(c)
    BY CallsAreOn DEF OpenEntry, Contended, Step
  <1>2. ~handle[c] /\ ~WillCreate(c) /\ ~WillSucceed(c)
    BY <1>1 DEF Watched, WillCreate, WillSucceed, ReadsTruly, Inspecting
  <1>3. /\ UNCHANGED <<entry, pending, held>>
        /\ \A d \in Calls : d # c => (handle'[d] <=> handle[d])
        /\ handle'[c] => pc'[c] = "dispose"
    BY <1>1, <1>2 DEF OpenEntry, OpenHandle, Goto, folder, TypeOK
  <1>4. HoldersOf(l) \subseteq HoldersOf(l)'
    BY <1>2, <1>3 DEF HoldersOf
  <1>5. ASSUME ~pending[l], Dangling(l) PROVE WillDelete(c)'
    <2>1. Reachable(l) = "symlink"
      BY <1>5 DEF Reachable, Dangling
    <2>2. Goto(c, "dispose") /\ OpenHandle(c)
      BY <1>1, <2>1 DEF OpenEntry
    <2> QED
      BY <1>1, <2>2 DEF Goto, OpenHandle, WillDelete, TypeOK
  <1>6. Advances(c)
    BY <1>1, <1>2, <1>3, <1>5 DEF Advances
  <1> QED
    BY <1>1, <1>3, <1>4, <1>6, StillWatched DEF Watched, OthersHold

LEMMA OwnDispose ==
  ASSUME TypeOK, NEW l \in Links, Contended(l), Watched(l), NEW c \in CallsOn(l), DisposeEntry(c)
  PROVE  Watched(l)'
  <1>1. c \in Calls /\ LinkOf[c] = l /\ pc[c] = "dispose" /\ Faults = {} /\ Step(c)
    BY CallsAreOn DEF DisposeEntry, Contended, Step
  <1>2. ~WillCreate(c) /\ ~WillSucceed(c)
    BY <1>1 DEF WillCreate, WillSucceed, ReadsTruly, Inspecting
  <1>3. CASE ~handle[c] /\ UNCHANGED folder
    <2>1. UNCHANGED <<entry, pending, held, handle>>
      BY <1>3 DEF folder
    <2>2. Advances(c)
      BY <1>1, <1>2, <1>3, <2>1 DEF Advances, WillDelete, ReadsTruly, Inspecting
    <2>3. HoldersOf(l)' = HoldersOf(l)
      BY <2>1 DEF HoldersOf
    <2> QED
      BY <1>1, <2>1, <2>2, <2>3, StillWatched DEF Watched, OthersHold
  <1>4. CASE /\ pending' = [pending EXCEPT ![l] = @ \/ handle[c]]
             /\ Goto(c, "closeEntry")
             /\ UNCHANGED <<entry, held, handle>>
    <2>1. /\ pc'[c] = "closeEntry"
          /\ pending'[l] <=> pending[l] \/ handle[c]
          /\ UNCHANGED <<entry, held, handle, file>>
      BY <1>1, <1>4 DEF Goto, DisposeEntry, TypeOK
    <2>2. CallsOn(l)' = CallsOn(l) /\ WillCreate(c)'
      BY <2>1, CallsAreOn DEF WillCreate
    <2>3. \A d \in CallsOn(l) : handle'[d] => pc'[d] \in {"closeLink", "dispose", "closeEntry"}
      BY <1>1, <2>1, CallsAreOn, OthersKnow DEF Watched
    <2>4. HoldersOf(l)' = HoldersOf(l)
      BY <2>1 DEF HoldersOf
    <2>5. handle[c] => HoldersOf(l) # {}
      BY <1>1 DEF HoldersOf
    <2>6. ~pending'[l] => ~Dangling(l)'
      BY <1>1, <2>1 DEF Watched, WillDelete, ReadsTruly, Inspecting, Dangling
    <2>7. ASSUME ~pending'[l], entry'[l] # Absent PROVE \E d \in CallsOn(l) : WillSucceed(d)'
      <3>1. PICK d \in CallsOn(l) : WillSucceed(d)
        BY <2>1, <2>6, <2>7 DEF Watched, Dangling
      <3>2. d # c /\ d \in Calls
        BY <1>2, <3>1, CallsAreOn
      <3>3. /\ pc'[d] = pc[d] /\ fresh'[d] = fresh[d] /\ answer'[d] = answer[d]
            /\ target'[d] = target[d] /\ targetId'[d] = targetId[d]
        BY <1>1, <3>2, OthersKnow
      <3>4. entry'[LinkOf[d]] = entry[LinkOf[d]] /\ (handle'[d] <=> handle[d])
        BY <2>1
      <3> QED
        BY <2>1, <3>1, <3>2, <3>3, <3>4, PromisesKept
    <2>8. pending'[l] => held'[l] \/ HoldersOf(l)' # {}
      BY <2>1, <2>4, <2>5 DEF Watched
    <2> QED
      BY <2>2, <2>3, <2>6, <2>7, <2>8 DEF Watched
  <1> QED
    BY <1>1, <1>3, <1>4 DEF DisposeEntry

LEMMA OwnClose ==
  ASSUME TypeOK, NEW l \in Links, Contended(l), Watched(l), NEW c \in CallsOn(l), CloseEntry(c)
  PROVE  Watched(l)'
  <1>1. /\ c \in Calls /\ LinkOf[c] = l /\ pc[c] = "closeEntry" /\ Step(c)
        /\ pc'[c] = "create"
    BY CallsAreOn DEF CloseEntry, Goto, Step, TypeOK
  <1>2. WillCreate(c)'
    BY <1>1 DEF WillCreate
  <1>3. CASE pending[l] /\ SetEntry(l, Absent)
    <2>1. \A d \in CallsOn(l) : WillCreate(d) => WillCreate(d)'
      <3> SUFFICES ASSUME NEW d \in CallsOn(l), WillCreate(d), d # c PROVE WillCreate(d)'
        BY <1>2
      <3>1. d \in Calls /\ LinkOf[d] = l
        BY CallsAreOn
      <3>2. pc'[d] = pc[d] /\ answer'[d] = answer[d]
        BY <1>1, <3>1, OthersKnow
      <3> QED
        BY <1>3, <3>1, <3>2 DEF WillCreate
    <2> QED
      BY <1>3, <2>1, GoneWatched
  <1>4. ASSUME ~handle'[c] PROVE Advances(c)
    <2>1. ~WillDelete(c) /\ ~WillSucceed(c)
      BY <1>1 DEF WillDelete, WillSucceed, ReadsTruly, Inspecting
    <2> QED
      BY <1>1, <1>2, <1>4, <2>1 DEF Advances
  <1> QED
    BY <1>1, <1>3, <1>4, CloseHandleLeaves, StillWatched DEF CloseEntry

LEMMA OwnCreate ==
  ASSUME TypeOK, NEW l \in Links, Contended(l), Watched(l), NEW c \in CallsOn(l), CreateLink(c)
  PROVE  Watched(l)'
  <1>1. /\ c \in Calls /\ LinkOf[c] = l /\ pc[c] = "create" /\ Faults = {} /\ Step(c)
        /\ ~handle[c] /\ file[ExeOf[c]] # NoFile /\ UNCHANGED file
    BY CallsAreOn DEF CreateLink, Contended, Watched, Repairs, Step
  <1>2. CASE SetEntry(l, Symlink(ExeOf[c])) /\ Goto(c, "attributes")
    <2>1. entry'[l] = Symlink(ExeOf[c]) /\ ~pending'[l] /\ pc'[c] = "attributes"
      BY <1>1, <1>2 DEF SetEntry, Goto, TypeOK
    <2>2. entry'[l] # Absent /\ ~Dangling(l)'
      BY <1>1, <2>1 DEF Dangling, Symlink, Absent
    <2>3. StatusAt(c)' = "Ok"
      BY <1>1, <2>1 DEF StatusAt, StatusOf, ObservationOf, StatusFor, Symlink, Linked, Relation
    <2>4. WillSucceed(c)'
      BY <2>1, <2>3 DEF WillSucceed, ReadsTruly, Inspecting
    <2>5. \A d \in CallsOn(l) : ~handle'[d]
      BY <1>2, CallsAreOn DEF SetEntry
    <2>6. CallsOn(l)' = CallsOn(l)
      BY CallsAreOn
    <2> QED
      BY <2>1, <2>2, <2>4, <2>5, <2>6 DEF Watched
  <1>3. CASE UNCHANGED folder
    <2>1. UNCHANGED <<entry, pending, held, handle>>
      BY <1>3 DEF folder
    <2>2. ~WillDelete(c) /\ ~WillSucceed(c)
      BY <1>1 DEF WillDelete, WillSucceed, ReadsTruly, Inspecting
    <2>3. ASSUME pending[l] \/ entry[l] = Absent PROVE WillCreate(c)'
      <3>1. Reachable(l) \in {"absent", "marked"}
        BY <2>3 DEF Reachable, Absent
      <3>2. CASE Return(c, buildError("CreateFailed", "ACCESS_DENIED"))
        BY <1>1, <3>2 DEF buildError, Return, WillCreate, TypeOK
      <3>3. ASSUME Reachable(l) = "absent", SetEntry(l, Symlink(ExeOf[c])) PROVE FALSE
        <4>1. entry[l].kind = "symlink"
          BY <2>1, <3>3 DEF SetEntry, Symlink, TypeOK
        <4> QED
          BY <3>3, <4>1 DEF Reachable
      <3> QED
        BY <1>1, <3>1, <3>2, <3>3 DEF CreateLink
    <2>4. Advances(c)
      BY <1>1, <2>1, <2>2, <2>3 DEF Advances
    <2>5. HoldersOf(l)' = HoldersOf(l)
      BY <2>1 DEF HoldersOf
    <2> QED
      BY <1>1, <2>1, <2>4, <2>5, StillWatched DEF Watched, OthersHold
  <1> QED
    BY <1>1, <1>2, <1>3 DEF CreateLink

\* Another process opens the entry, or closes it again.
LEMMA HeldWatched ==
  ASSUME TypeOK, NEW l \in Links, Watched(l), NEW m \in Links, Hold(m) \/ Release(m)
  PROVE  Watched(l)'
  <1>1. /\ UNCHANGED <<file, pc, target, targetId, fresh, answer>>
        /\ CallsOn(l)' = CallsOn(l)
    BY CallsAreOn DEF Hold, Release
  <1>2. ASSUME entry'[l] = entry[l], pending'[l] <=> pending[l],
               \A c \in CallsOn(l) : handle'[c] <=> handle[c],
               pending[l] => held'[l] \/ HoldersOf(l)' # {}
        PROVE  Watched(l)'
    <2>1. \A c \in CallsOn(l) : /\ WillCreate(c) => WillCreate(c)'
                                /\ WillDelete(c) => WillDelete(c)'
                                /\ WillSucceed(c) => WillSucceed(c)'
      BY <1>1, <1>2, CallsAreOn, PromisesKept
    <2>2. Dangling(l)' <=> Dangling(l)
      BY <1>1, <1>2 DEF Dangling
    <2> QED
      BY <1>1, <1>2, <2>1, <2>2 DEF Watched
  <1>3. CASE Hold(m)
    <2>1. /\ UNCHANGED <<entry, pending, handle>>
          /\ held[l] => held'[l]
      BY <1>3 DEF Hold, TypeOK
    <2>2. HoldersOf(l)' = HoldersOf(l)
      BY <2>1 DEF HoldersOf
    <2> QED
      BY <1>2, <2>1, <2>2 DEF Watched
  <1>4. CASE Release(m) /\ SetEntry(m, Absent) /\ pending[m]
    <2>1. CASE m = l
      <3>1. \A c \in CallsOn(l) : WillCreate(c) => WillCreate(c)'
        BY <1>1, <1>4, <2>1, CallsAreOn DEF WillCreate
      <3> QED
        BY <1>4, <2>1, <3>1, GoneWatched
    <2>2. CASE m # l
      <3>1. /\ entry'[l] = entry[l] /\ (pending'[l] <=> pending[l]) /\ (held'[l] <=> held[l])
            /\ \A c \in CallsOn(l) : handle'[c] <=> handle[c]
        BY <1>4, <2>2, CallsAreOn DEF SetEntry, TypeOK
      <3>2. HoldersOf(l)' = HoldersOf(l)
        BY <3>1 DEF HoldersOf, CallsOn
      <3> QED
        BY <1>2, <3>1, <3>2 DEF Watched
    <2> QED
      BY <2>1, <2>2
  <1>5. CASE /\ Release(m) /\ ~(pending[m] /\ HoldersOf(m) = {})
             /\ held' = [held EXCEPT ![m] = FALSE] /\ UNCHANGED <<entry, pending, handle>>
    <2>1. HoldersOf(l)' = HoldersOf(l)
      BY <1>5 DEF HoldersOf
    <2>2. held[l] /\ l # m => held'[l]
      BY <1>5 DEF TypeOK
    <2>3. pending[l] => held'[l] \/ HoldersOf(l)' # {}
      BY <1>5, <2>1, <2>2 DEF Watched
    <2> QED
      BY <1>2, <1>5, <2>3
  <1> QED
    BY <1>3, <1>4, <1>5 DEF Release

LEMMA WatchStep == ASSUME TypeOK, WatchInv, [Next]_vars PROVE WatchInv'
  <1> SUFFICES ASSUME NEW l \in Links, Contended(l)' PROVE Watched(l)'
    BY DEF WatchInv
  <1>1. interference' = 0 /\ interference = 0 /\ ~Interfere
    BY DEF Contended, Next, Interfere, TypeOK, Step, ReadAttributes, ReadReparsePoint,
           CloseReparsePoint, ReadTarget, ReadExecutable, OpenEntry, DisposeEntry, CloseEntry,
           CreateLink, Kill, Hold, Release, vars
  <1>2. UNCHANGED file
    BY <1>1 DEF Next, Step, ReadAttributes, ReadReparsePoint,
           CloseReparsePoint, ReadTarget, ReadExecutable, OpenEntry, DisposeEntry, CloseEntry,
           CreateLink, Kill, Hold, Release, vars
  <1>3. CallsOn(l)' = CallsOn(l) /\ \A c \in CallsOn(l) : c \in Calls /\ LinkOf[c] = l
    BY CallsAreOn
  <1>4. \A c \in CallsOn(l) : ~Kill(c)
    BY <1>3 DEF Contended, Kill, TypeOK
  <1>5. ASSUME NEW c \in Calls, pc[c] = "killed" PROVE pc'[c] = "killed"
    <2>1. ~Step(c) /\ ~Kill(c)
      BY <1>5 DEF Step, Kill, ReadAttributes, ReadReparsePoint, CloseReparsePoint, ReadTarget,
                  ReadExecutable, OpenEntry, DisposeEntry, CloseEntry, CreateLink
    <2>2. \A d \in Calls : Step(d) \/ Kill(d) => pc'[c] = pc[c]
      BY <2>1, OthersKnow
    <2> QED
      BY <1>1, <1>5, <2>2 DEF Next, Hold, Release, vars
  <1>6. Contended(l)
    BY <1>1, <1>2, <1>3, <1>5 DEF Contended, Repairs
  <1>7. Watched(l)
    BY <1>6 DEF WatchInv
  <1>8. ASSUME NEW c \in Calls, Step(c) PROVE Watched(l)'
    <2>1. CASE c \in CallsOn(l)
      <3>1. CASE pc[c] \in Inspecting
        BY <1>6, <1>7, <1>8, <2>1, <3>1, OwnRead
      <3>2. CASE pc[c] \notin Inspecting
        BY <1>6, <1>7, <1>8, <2>1, <3>2, OwnOpen, OwnDispose, OwnClose, OwnCreate
           DEF Step, Inspecting, ReadAttributes, ReadReparsePoint, CloseReparsePoint, ReadTarget,
               ReadExecutable
      <3> QED
        BY <3>1, <3>2
    <2>2. CASE c \notin CallsOn(l)
      BY <1>3, <1>6, <1>7, <1>8, <2>2, OthersElsewhere, IdleWatched DEF CallsOn, Contended
    <2> QED
      BY <2>1, <2>2
  <1>9. ASSUME NEW c \in Calls, Kill(c) PROVE Watched(l)'
    BY <1>3, <1>4, <1>6, <1>7, <1>9, OthersElsewhere, IdleWatched DEF CallsOn, Contended
  <1>10. ASSUME NEW m \in Links, Hold(m) \/ Release(m) PROVE Watched(l)'
    BY <1>7, <1>10, HeldWatched
  <1>11. CASE UNCHANGED vars
    <2>1. \A c \in CallsOn(l) : Unmoved(c)
      BY <1>11 DEF vars, folder, Unmoved
    <2> QED
      BY <1>6, <1>7, <2>1, IdleWatched DEF Contended
  <1> QED
    BY <1>1, <1>8, <1>9, <1>10, <1>11 DEF Next

LEMMA WatchInit == Init => WatchInv
  <1> SUFFICES ASSUME Init, NEW l \in Links, Contended(l) PROVE Watched(l)
    BY DEF WatchInv
  <1>1. /\ \A c \in CallsOn(l) : /\ c \in Calls /\ pc[c] = "attributes"
                                 /\ fresh[c] = "Unknown" /\ ~handle[c]
        /\ CallsOn(l) # {} /\ ~pending[l]
    BY CallsAreOn DEF Init, Contended
  <1>2. \A c \in CallsOn(l) : ReadsTruly(c)
    BY <1>1 DEF ReadsTruly, Inspecting
  <1>3. \A c \in CallsOn(l) : WillDelete(c) /\ WillSucceed(c)
    BY <1>1, <1>2 DEF WillDelete, WillSucceed
  <1>4. \A c \in CallsOn(l) : WillCreate(c)
    BY <1>1, CallsAreOn DEF Init, WillCreate
  <1> QED
    BY <1>1, <1>3, <1>4 DEF Watched

\* However the inspections, deletions and creations of any number of instances at
\* one link interleave, and whoever has it open meanwhile: a link that is lost
\* has a call that answered that it could not be made.
THEOREM LossCorrect == Spec => []LossIsReported
  <1>1. TypeOK /\ WatchInv => LossIsReported
    <2> SUFFICES ASSUME TypeOK, WatchInv, NEW l \in Links, Faults = {}, Settled(l),
                        CallsOn(l) # {}, \A c \in CallsOn(l) : Repairs(c)
                 PROVE  /\ pending[l] => held[l]
                        /\ \/ /\ \A c \in CallsOn(l) : StatusAt(c) \in {"Ok", "Mismatch"}
                              /\ \E c \in CallsOn(l) : Succeeded(c)
                              /\ ~pending[l]
                           \/ /\ pending[l] \/ \A c \in CallsOn(l) : StatusAt(c) = "Missing"
                              /\ \E c \in CallsOn(l) : answer[c] = "InsufficientPermission"
      BY DEF LossIsReported
    <2>1. \A c \in CallsOn(l) : c \in Calls /\ LinkOf[c] = l /\ pc[c] = "done"
      BY CallsAreOn DEF Settled
    <2>2. Watched(l)
      BY <2>1 DEF WatchInv, Contended, Settled
    <2>3. HoldersOf(l) = {}
      BY <2>1, <2>2 DEF HoldersOf, CallsOn, Watched
    <2>4. pending[l] => held[l]
      BY <2>2, <2>3 DEF Watched
    <2>5. CASE pending[l] \/ entry[l] = Absent
      <3>1. PICK c \in CallsOn(l) : WillCreate(c)
        BY <2>2, <2>5 DEF Watched
      <3>2. answer[c] = "InsufficientPermission"
        BY <2>1, <3>1 DEF WillCreate
      <3>3. entry[l] = Absent => \A d \in CallsOn(l) : StatusAt(d) = "Missing"
        BY <2>1, Statuses
      <3> QED
        BY <2>4, <2>5, <3>2, <3>3
    <2>6. CASE ~pending[l] /\ entry[l] # Absent
      <3>1. ~Dangling(l)
        BY <2>1, <2>2, <2>6 DEF Watched, WillDelete, ReadsTruly, Inspecting
      <3>2. PICK c \in CallsOn(l) : WillSucceed(c)
        BY <2>2, <2>6, <3>1 DEF Watched
      <3>3. Succeeded(c)
        BY <2>1, <3>2 DEF WillSucceed, ReadsTruly, Inspecting
      <3>4. \A d \in CallsOn(l) : StatusAt(d) \in {"Ok", "Mismatch"}
        BY <2>1, <2>6, <3>1, Statuses DEF Dangling, LinkStatus
      <3> QED
        BY <2>6, <3>3, <3>4
    <2> QED
      BY <2>5, <2>6
  <1> QED
    BY <1>1, WatchInit, WatchStep, TypeCorrect, PTL DEF Spec

-------------------------------------------------------------------------------
(***************************************************************************)
(* ReparseBuffer: decodeSymbolicLinkTarget(), which gives the inspection   *)
(* its target, for every buffer the system can return.                     *)
(***************************************************************************)
LEMMA FieldTypes ==
  ASSUME NEW b \in Buffer
  PROVE  /\ b.size \in Nat /\ b.reparseDataLength \in Nat
         /\ b.substituteNameOffset \in Nat /\ b.substituteNameLength \in Nat
  <1>1. UInt16 \subseteq Nat
    BY DEF UInt16
  <1>2. /\ b.size \in Nat /\ b.reparseDataLength \in UInt16
        /\ b.substituteNameOffset \in UInt16 /\ b.substituteNameLength \in UInt16
    BY DEF Buffer
  <1> QED
    BY <1>1, <1>2

LEMMA Sizes == kReparseHeaderSize = 8 /\ kSymlinkFixedFieldsSize = 12 /\ kPathBufferStart = 20
  BY DEF kReparseHeaderSize, kSymlinkFixedFieldsSize, kPathBufferStart

\* What the chain of checks establishes for the one that follows it.
LEMMA FixedFieldsArePresent ==
  ASSUME NEW b \in Buffer, HasFixedFields(b)
  PROVE  /\ b.size >= kPathBufferStart
         /\ pathBufferSize(b) \in Nat
         /\ b.size = kPathBufferStart + pathBufferSize(b)
  <1>1. kReparseHeaderSize + b.reparseDataLength = b.size
    BY DEF HasFixedFields
  <1>2. b.reparseDataLength >= kSymlinkFixedFieldsSize
    BY DEF HasFixedFields
  <1> QED
    BY <1>1, <1>2, FieldTypes, Sizes DEF pathBufferSize

LEMMA NameEndsInside ==
  ASSUME NEW b \in Buffer, NameFits(b)
  PROVE  absoluteOffset(b) + b.substituteNameLength <= b.size
  <1>1. b.size = kPathBufferStart + pathBufferSize(b) /\ pathBufferSize(b) \in Nat
    BY FixedFieldsArePresent DEF NameFits, IsAligned
  <1>2. substituteNameEnd(b) <= pathBufferSize(b)
    BY DEF NameFits
  <1> QED
    BY <1>1, <1>2, FieldTypes, Sizes DEF absoluteOffset, substituteNameEnd

LEMMA EvenIsTwiceItsHalf == ASSUME NEW n \in Nat, n % 2 = 0 PROVE 2 * (n \div 2) = n
  BY SMT

\* Whatever the fields say, no read goes past the end of the buffer, and the
\* name fills the string it is copied to: the promise of LinkInspector.h on
\* malformed reparse data.
THEOREM ReadsAreInside == \A b \in Buffer : ReadsStayInside(b)
  <1> SUFFICES ASSUME NEW b \in Buffer PROVE ReadsStayInside(b)
    OBVIOUS
  <1>1. ASSUME NEW r \in Reads(b) PROVE r.at + r.size <= b.size
    <2>1. CASE HasHeader(b) /\ r = Read(0, 4)
      BY <2>1, FieldTypes, Sizes DEF HasHeader, Read
    <2>2. CASE ReadsLength(b) /\ r = Read(4, 2)
      BY <2>2, FieldTypes, Sizes DEF ReadsLength, HasHeader, Read
    <2>3. CASE HasFixedFields(b) /\ r \in {Read(8, 2), Read(10, 2), Read(16, 4)}
      <3>1. b.size >= 20
        BY <2>3, FixedFieldsArePresent, Sizes
      <3> QED
        BY <2>3, <3>1, FieldTypes DEF Read
    <2>4. CASE Decodes(b) /\ r = Read(absoluteOffset(b), b.substituteNameLength)
      BY <2>4, NameEndsInside DEF Decodes, Read
    <2> QED
      BY <1>1, <2>1, <2>2, <2>3, <2>4 DEF Reads
  <1>2. ASSUME Decodes(b) PROVE Allocated(b) = b.substituteNameLength
    <2>1. b.substituteNameLength \in Nat /\ b.substituteNameLength % 2 = 0
      BY <1>2, FieldTypes DEF Decodes, NameFits, IsAligned
    <2> QED
      BY <2>1, EvenIsTwiceItsHalf DEF Allocated
  <1> QED
    BY <1>1, <1>2 DEF ReadsStayInside

\* The unsigned difference reparseDataLength - kSymlinkFixedFieldsSize never
\* wraps, and a name is never taken from the fields in front of the path buffer.
THEOREM NamesAreInPathBuffer == \A b \in Buffer : NameIsInPathBuffer(b)
  <1> SUFFICES ASSUME NEW b \in Buffer PROVE NameIsInPathBuffer(b)
    OBVIOUS
  <1>1. IsAligned(b) => pathBufferSize(b) >= 0
    BY FixedFieldsArePresent DEF IsAligned
  <1>2. absoluteOffset(b) >= kPathBufferStart
    BY FieldTypes, Sizes DEF absoluteOffset
  <1> QED
    BY <1>1, <1>2 DEF NameIsInPathBuffer

\* The check that the code makes once more from the size of the buffer, rather
\* than trusting the chain of the others, rejects nothing the others let pass.
THEOREM LastCheckNeverFires == \A b \in Buffer : LastCheckIsRedundant(b)
  <1> SUFFICES ASSUME NEW b \in Buffer, NameFits(b)
               PROVE  ~(absoluteOffset(b) + b.substituteNameLength > b.size)
    BY DEF LastCheckIsRedundant, IsRejectedAtLast
  <1>1. /\ absoluteOffset(b) + b.substituteNameLength \in Nat
        /\ b.size \in Nat
    BY FieldTypes, Sizes DEF absoluteOffset
  <1> QED
    BY <1>1, NameEndsInside

\* The checks are no stricter than the format: every buffer of a symbolic link
\* whose fields agree with each other and with its size is decoded.
THEOREM WellFormedIsDecoded == \A b \in Buffer : AcceptsWellFormed(b)
  <1> SUFFICES ASSUME NEW b \in Buffer, b.isSymlink,
                      b.size = kPathBufferStart + pathBufferSize(b), pathBufferSize(b) >= 0,
                      substituteNameEnd(b) <= pathBufferSize(b),
                      b.substituteNameOffset % 2 = 0, b.substituteNameLength % 2 = 0
               PROVE  Decodes(b)
    BY DEF AcceptsWellFormed
  <1>1. /\ kReparseHeaderSize + b.reparseDataLength = b.size
        /\ b.reparseDataLength >= kSymlinkFixedFieldsSize
        /\ b.size >= kReparseHeaderSize
    BY FieldTypes, Sizes DEF pathBufferSize
  <1>2. NameFits(b)
    BY <1>1 DEF NameFits, IsAligned, HasFixedFields, ReadsLength, HasHeader
  <1>3. ~IsRejectedAtLast(b)
    BY LastCheckNeverFires DEF LastCheckIsRedundant
  <1> QED
    BY <1>2, <1>3 DEF Decodes

-------------------------------------------------------------------------------
(***************************************************************************)
(* Paths: the prefixes that a path is given, and that come off a target.   *)
(***************************************************************************)
LEMMA PrefixesDiffer ==
  /\ Extended # Device /\ Extended # Network /\ Extended # Nt /\ Extended # UNC
  /\ Device # Network /\ Network # Nt /\ Network # UNC
  BY DEF Extended, Device, Network, Nt, UNC

LEMMA StartsIs ==
  ASSUME NEW D, NEW path \in Seq(D), NEW prefix \in Seq(D)
  PROVE  Starts(path, prefix) <=> /\ Len(prefix) <= Len(path)
                                  /\ \A i \in 1 .. Len(prefix) : path[i] = prefix[i]
  <1>1. Len(prefix) \in Nat /\ Len(path) \in Nat
    BY LenProperties
  <1>2. ASSUME Len(prefix) <= Len(path)
        PROVE  SubSeq(path, 1, Len(prefix)) = prefix
                 <=> \A i \in 1 .. Len(prefix) : path[i] = prefix[i]
    <2>1. PICK s : s = SubSeq(path, 1, Len(prefix))
      OBVIOUS
    <2>2. \A i \in 1 .. Len(prefix) : path[i] \in D
      BY <1>1, <1>2, ElementOfSeq
    <2>3. /\ s \in Seq(D) /\ Len(s) = IF 1 <= Len(prefix) THEN Len(prefix) - 1 + 1 ELSE 0
          /\ \A i \in 1 .. Len(prefix) - 1 + 1 : s[i] = path[1 + i - 1]
      BY <1>1, <2>1, <2>2, SubSeqProperties
    <2>4. Len(s) = Len(prefix) /\ \A i \in 1 .. Len(prefix) : s[i] = path[i]
      BY <1>1, <2>3
    <2>5. s = prefix <=> \A i \in 1 .. Len(prefix) : s[i] = prefix[i]
      BY <2>3, <2>4, SeqEqual
    <2> QED
      BY <2>1, <2>4, <2>5
  <1> QED
    BY <1>2 DEF Starts

LEMMA StartsWithOne ==
  ASSUME NEW D, NEW path \in Seq(D), NEW a \in D
  PROVE  Starts(path, <<a>>) <=> Len(path) >= 1 /\ path[1] = a
  <1>1. <<a>> \in Seq(D) /\ Len(<<a>>) = 1 /\ <<a>>[1] = a /\ Len(path) \in Nat
    BY LenProperties
  <1>2. PICK p : p = <<a>>
    OBVIOUS
  <1>3. p \in Seq(D) /\ Len(p) = 1 /\ p[1] = a
    BY <1>1, <1>2
  <1>4. Starts(path, p) <=> Len(p) <= Len(path) /\ \A i \in 1 .. Len(p) : path[i] = p[i]
    BY <1>3, StartsIs
  <1> QED
    BY <1>1, <1>2, <1>3, <1>4

LEMMA StartsWithTwo ==
  ASSUME NEW D, NEW path \in Seq(D), NEW a \in D, NEW b \in D
  PROVE  Starts(path, <<a, b>>) <=> Len(path) >= 2 /\ path[1] = a /\ path[2] = b
  <1>1. /\ <<a, b>> \in Seq(D) /\ Len(<<a, b>>) = 2
        /\ <<a, b>>[1] = a /\ <<a, b>>[2] = b /\ Len(path) \in Nat
    BY LenProperties
  <1>2. \A i \in 1 .. 2 : i = 1 \/ i = 2
    OBVIOUS
  <1>3. PICK p : p = <<a, b>>
    OBVIOUS
  <1>4. p \in Seq(D) /\ Len(p) = 2 /\ p[1] = a /\ p[2] = b
    BY <1>1, <1>3
  <1>5. Starts(path, p) <=> Len(p) <= Len(path) /\ \A i \in 1 .. Len(p) : path[i] = p[i]
    BY <1>4, StartsIs
  <1> QED
    BY <1>1, <1>2, <1>3, <1>4, <1>5

\* A prefix put before a path is there, and comes off again.
LEMMA PrefixComesOff ==
  ASSUME NEW D, NEW path \in Seq(D), NEW prefix \in Seq(D)
  PROVE  /\ prefix \o path \in Seq(D)
         /\ Starts(prefix \o path, prefix)
         /\ Without(prefix \o path, prefix) = path
  <1>1. Len(prefix) \in Nat /\ Len(path) \in Nat
    BY LenProperties
  <1>2. PICK s, n, m : s = prefix \o path /\ n = Len(prefix) /\ m = Len(path)
    OBVIOUS
  <1>3. /\ s \in Seq(D) /\ Len(s) = n + m
        /\ \A i \in 1 .. n + m : s[i] = IF i <= n THEN prefix[i] ELSE path[i - n]
    BY <1>2, ConcatProperties
  <1>4. Starts(s, prefix)
    <2>1. n <= Len(s) /\ \A i \in 1 .. n : s[i] = prefix[i]
      BY <1>1, <1>2, <1>3
    <2> QED
      BY <1>2, <1>3, <2>1, StartsIs
  <1>5. SubSeq(s, n + 1, n + m) = path
    <2>1. \A i \in n + 1 .. n + m : s[i] \in D
      BY <1>1, <1>2, <1>3, ElementOfSeq
    <2>2. PICK w : w = SubSeq(s, n + 1, n + m)
      OBVIOUS
    <2>3. /\ w \in Seq(D)
          /\ Len(w) = IF n + 1 <= n + m THEN (n + m) - (n + 1) + 1 ELSE 0
          /\ \A i \in 1 .. (n + m) - (n + 1) + 1 : w[i] = s[n + 1 + i - 1]
      BY <1>1, <1>2, <2>1, <2>2, SubSeqProperties
    <2>4. (n + m) - (n + 1) + 1 = m /\ Len(w) = m
      BY <1>1, <1>2, <2>3
    <2>5. \A i \in 1 .. m : w[i] = path[i]
      <3> SUFFICES ASSUME NEW i \in 1 .. m PROVE w[i] = path[i]
        OBVIOUS
      <3>1. n + 1 + i - 1 = n + i /\ n + i \in 1 .. n + m /\ ~(n + i <= n) /\ (n + i) - n = i
        BY <1>1, <1>2
      <3> QED
        BY <1>3, <2>3, <2>4, <3>1
    <2> QED
      BY <1>2, <2>2, <2>3, <2>4, <2>5, SeqEqual
  <1>6. Without(s, prefix) = SubSeq(s, n + 1, n + m)
    BY <1>2, <1>3 DEF Without
  <1> QED
    BY <1>2, <1>3, <1>4, <1>5, <1>6

\* One that is there is put back.
LEMMA PrefixGoesBack ==
  ASSUME NEW D, NEW path \in Seq(D), NEW prefix \in Seq(D), Starts(path, prefix)
  PROVE  Without(path, prefix) \in Seq(D) /\ prefix \o Without(path, prefix) = path
  <1>1. /\ Len(prefix) \in Nat /\ Len(path) \in Nat /\ Len(prefix) <= Len(path)
        /\ \A i \in 1 .. Len(prefix) : path[i] = prefix[i]
    BY LenProperties, StartsIs
  <1>2. PICK n, m, w : n = Len(prefix) /\ m = Len(path) /\ w = Without(path, prefix)
    OBVIOUS
  <1>3. w \in Seq(D) /\ Len(w) = m - n /\ \A i \in 1 .. m - n : w[i] = path[n + i]
    <2>1. \A i \in n + 1 .. m : path[i] \in D
      BY <1>1, <1>2, ElementOfSeq
    <2>2. w = SubSeq(path, n + 1, m)
      BY <1>2 DEF Without
    <2>3. /\ w \in Seq(D) /\ Len(w) = IF n + 1 <= m THEN m - (n + 1) + 1 ELSE 0
          /\ \A i \in 1 .. m - (n + 1) + 1 : w[i] = path[n + 1 + i - 1]
      BY <1>1, <1>2, <2>1, <2>2, SubSeqProperties
    <2>4. m - (n + 1) + 1 = m - n /\ Len(w) = m - n
      BY <1>1, <1>2, <2>3
    <2>5. \A i \in 1 .. m - n : n + 1 + i - 1 = n + i
      BY <1>1, <1>2
    <2> QED
      BY <2>3, <2>4, <2>5
  <1>4. PICK s : s = prefix \o w
    OBVIOUS
  <1>5. /\ s \in Seq(D) /\ Len(s) = n + (m - n)
        /\ \A i \in 1 .. n + (m - n) : s[i] = IF i <= n THEN prefix[i] ELSE w[i - n]
    BY <1>2, <1>3, <1>4, ConcatProperties
  <1>6. \A i \in 1 .. m : s[i] = path[i]
    <2> SUFFICES ASSUME NEW i \in 1 .. m PROVE s[i] = path[i]
      OBVIOUS
    <2>1. i \in 1 .. n + (m - n)
      BY <1>1, <1>2
    <2>2. CASE i <= n
      BY <1>1, <1>2, <1>5, <2>1, <2>2
    <2>3. CASE ~(i <= n)
      <3>1. i - n \in 1 .. m - n /\ n + (i - n) = i
        BY <1>1, <1>2, <2>3
      <3> QED
        BY <1>3, <1>5, <2>1, <2>3, <3>1
    <2> QED
      BY <2>2, <2>3
  <1>7. Len(s) = m
    BY <1>1, <1>2, <1>5
  <1>8. s = path
    BY <1>2, <1>5, <1>6, <1>7, SeqEqual
  <1> QED
    BY <1>2, <1>3, <1>4, <1>8


\* A path as the system makes it: it begins with a drive or is a network path,
\* and is left as it is when it is made one again.
IsNormal(path, D) == /\ path \in Seq(D) /\ path # << >>
                     /\ path[1] \notin {Extended, Device, Nt, UNC, unc}
                     /\ Normal(path) = path

\* What the second piece is after one put in front.
LEMMA SecondPiece ==
  ASSUME NEW D, NEW path \in Seq(D), NEW a \in D
  PROVE  /\ <<a>> \o path \in Seq(D) /\ Len(<<a>> \o path) = 1 + Len(path) /\ Len(path) \in Nat
         /\ (<<a>> \o path)[1] = a
         /\ Len(path) >= 1 => (<<a>> \o path)[2] = path[1]
         /\ Without(<<a>> \o path, <<a>>) = path
  <1>1. <<a>> \in Seq(D) /\ Len(<<a>>) = 1 /\ <<a>>[1] = a /\ Len(path) \in Nat
    BY LenProperties
  <1>2. PICK s : s = <<a>> \o path
    OBVIOUS
  <1>3. /\ s \in Seq(D) /\ Len(s) = 1 + Len(path)
        /\ \A i \in 1 .. 1 + Len(path) : s[i] = IF i <= 1 THEN <<a>>[i] ELSE path[i - 1]
    BY <1>1, <1>2, ConcatProperties
  <1>4. s[1] = a /\ (Len(path) >= 1 => s[2] = path[1])
    BY <1>1, <1>3
  <1>5. Without(s, <<a>>) = path
    BY <1>1, <1>2, PrefixComesOff
  <1> QED
    BY <1>1, <1>2, <1>3, <1>4, <1>5

LEMMA TwoPieces ==
  ASSUME NEW D, NEW path \in Seq(D), NEW a \in D, NEW b \in D
  PROVE  /\ <<a, b>> \o path = <<a>> \o (<<b>> \o path)
         /\ Starts(<<a, b>> \o path, <<a, b>>)
         /\ Without(<<a, b>> \o path, <<a, b>>) = path
  <1>1. <<a>> \in Seq(D) /\ <<b>> \in Seq(D) /\ <<a, b>> \in Seq(D) /\ <<a>> \o <<b>> = <<a, b>>
    <2>1. <<a>> \in Seq(D) /\ <<b>> \in Seq(D) /\ <<a, b>> \in Seq(D)
      OBVIOUS
    <2>2. PICK s, t, u : s = <<a>> /\ t = <<b>> /\ u = <<a, b>>
      OBVIOUS
    <2>3. /\ s \in Seq(D) /\ t \in Seq(D) /\ u \in Seq(D)
          /\ Len(s) = 1 /\ Len(t) = 1 /\ Len(u) = 2
          /\ s[1] = a /\ t[1] = b /\ u[1] = a /\ u[2] = b
      BY <2>1, <2>2
    <2>4. PICK v : v = s \o t
      OBVIOUS
    <2>5. /\ v \in Seq(D) /\ Len(v) = Len(s) + Len(t)
          /\ \A i \in 1 .. Len(s) + Len(t) : v[i] = IF i <= Len(s) THEN s[i] ELSE t[i - Len(s)]
      BY <2>3, <2>4, ConcatProperties
    <2>6. Len(v) = 2 /\ v[1] = a /\ v[2] = b
      BY <2>3, <2>5
    <2>7. \A i \in 1 .. 2 : i = 1 \/ i = 2
      OBVIOUS
    <2>8. v = u
      BY <2>3, <2>5, <2>6, <2>7, SeqEqual
    <2> QED
      BY <2>1, <2>2, <2>4, <2>8
  <1>2. (<<a>> \o <<b>>) \o path = <<a>> \o (<<b>> \o path)
    BY <1>1, ConcatAssociative
  <1> QED
    BY <1>1, <1>2, PrefixComesOff

LEMMA DriveComesBack ==
  ASSUME NEW D, {Extended, Device, Network, Nt, UNC, unc} \subseteq D, NEW path \in Seq(D),
         ~Prefixed(path), IsNormal(Normal(path), D), Normal(path)[1] # Network
  PROVE  ComesBack(path)
  <1>0. Extended \in D /\ Network \in D /\ Nt \in D /\ UNC \in D
    OBVIOUS
  <1>1. PICK n : n = Normal(path)
    OBVIOUS
  <1>2. /\ n \in Seq(D) /\ Len(n) \in Nat /\ Len(n) >= 1 /\ Normal(n) = n
        /\ n[1] \notin {Extended, Device, Nt, UNC, unc, Network}
    BY <1>1, LenProperties, EmptySeq DEF IsNormal
  <1>3. PICK p, name : p = <<Extended>> \o n /\ name = <<Nt>> \o n
    OBVIOUS
  <1>4. /\ p \in Seq(D) /\ Len(p) \in Nat /\ Len(p) >= 2 /\ p[1] = Extended /\ p[2] = n[1]
        /\ Without(p, <<Extended>>) = n
    BY <1>2, <1>3, <1>0, SecondPiece
  <1>5. /\ name \in Seq(D) /\ Len(name) \in Nat /\ Len(name) >= 2 /\ name[1] = Nt /\ name[2] = n[1]
        /\ Without(name, <<Nt>>) = n
    BY <1>2, <1>3, <1>0, SecondPiece
  <1>6. ~Prefixed(n) /\ ~Starts(n, <<Network>>)
    BY <1>2, StartsWithOne DEF Prefixed
  <1>7. toExtendedLengthPath(path) = p
    BY <1>1, <1>3, <1>6 DEF toExtendedLengthPath
  <1>8. Prefixed(p) /\ Starts(p, <<Extended>>)
    BY <1>4, StartsWithOne DEF Prefixed
  <1>9. toExtendedLengthPath(p) = p
    BY <1>8 DEF toExtendedLengthPath
  <1>10. ~Starts(p, <<Extended, Network>>) /\ ~Starts(p, <<Extended, UNC>>)
    BY <1>2, <1>4, StartsWithTwo
  <1>11. fromExtendedLengthPath(p) = n
    BY <1>4, <1>8, <1>10 DEF fromExtendedLengthPath
  <1>12. SubstituteName(p) = name
    BY <1>3, <1>4, <1>8 DEF SubstituteName
  <1>13. stripNtNamespacePrefix(name) = n
    <2>1. Starts(name, <<Nt>>)
      BY <1>5, StartsWithOne
    <2>2. ~Starts(name, <<Nt, UNC>>) /\ ~Starts(name, <<Nt, unc>>)
      BY <1>2, <1>5, StartsWithTwo
    <2> QED
      BY <1>5, <2>1, <2>2 DEF stripNtNamespacePrefix
  <1>14. fromExtendedLengthPath(n) = n
    <2>1. ~Starts(n, <<Extended>>) /\ ~Starts(n, <<Extended, UNC>>)
      BY <1>2, StartsWithOne, StartsWithTwo
    <2> QED
      BY <2>1 DEF fromExtendedLengthPath
  <1>15. Target(name, FALSE, << >>) = n
    BY <1>2, <1>13, <1>14 DEF Target
  <1> QED
    BY <1>1, <1>7, <1>8, <1>9, <1>10, <1>11, <1>12, <1>15 DEF ComesBack

LEMMA NetworkComesBack ==
  ASSUME NEW D, {Extended, Device, Network, Nt, UNC, unc} \subseteq D, NEW path \in Seq(D),
         ~Prefixed(path), IsNormal(Normal(path), D), Normal(path)[1] = Network
  PROVE  ComesBack(path)
  <1>0. Extended \in D /\ Network \in D /\ Nt \in D /\ UNC \in D
    OBVIOUS
  <1>1. PICK n, rest : n = Normal(path) /\ rest = Without(n, <<Network>>)
    OBVIOUS
  <1>2. n \in Seq(D) /\ Len(n) \in Nat /\ Len(n) >= 1 /\ Normal(n) = n /\ n[1] = Network
    BY <1>1, LenProperties, EmptySeq DEF IsNormal
  <1>3. Starts(n, <<Network>>) /\ rest \in Seq(D) /\ <<Network>> \o rest = n
    <2>1. Starts(n, <<Network>>) /\ <<Network>> \in Seq(D)
      BY <1>2, StartsWithOne
    <2> QED
      BY <1>1, <1>2, <2>1, PrefixGoesBack
  <1>4. PICK tail, p, name : /\ tail = <<UNC>> \o rest
                             /\ p = <<Extended, UNC>> \o rest
                             /\ name = <<Nt, UNC>> \o rest
    OBVIOUS
  <1>5. tail \in Seq(D) /\ Len(tail) \in Nat /\ Len(tail) >= 1 /\ tail[1] = UNC
    BY <1>3, <1>4, SecondPiece
  <1>6. p = <<Extended>> \o tail /\ Starts(p, <<Extended, UNC>>) /\ Without(p, <<Extended, UNC>>) = rest
    <2>1. Extended \in D /\ UNC \in D /\ rest \in Seq(D)
      BY <1>0, <1>3
    <2>2. /\ <<Extended, UNC>> \o rest = <<Extended>> \o (<<UNC>> \o rest)
          /\ Starts(<<Extended, UNC>> \o rest, <<Extended, UNC>>)
          /\ Without(<<Extended, UNC>> \o rest, <<Extended, UNC>>) = rest
      BY <2>1, TwoPieces
    <2> QED
      BY <1>4, <2>2
  <1>7. name = <<Nt>> \o tail /\ Starts(name, <<Nt, UNC>>) /\ Without(name, <<Nt, UNC>>) = rest
    <2>1. Nt \in D /\ UNC \in D /\ rest \in Seq(D)
      BY <1>0, <1>3
    <2>2. /\ <<Nt, UNC>> \o rest = <<Nt>> \o (<<UNC>> \o rest)
          /\ Starts(<<Nt, UNC>> \o rest, <<Nt, UNC>>)
          /\ Without(<<Nt, UNC>> \o rest, <<Nt, UNC>>) = rest
      BY <2>1, TwoPieces
    <2> QED
      BY <1>4, <2>2
  <1>8. /\ p \in Seq(D) /\ Len(p) \in Nat /\ Len(p) >= 2 /\ p[1] = Extended /\ p[2] = UNC
        /\ Without(p, <<Extended>>) = tail
    BY <1>5, <1>6, <1>0, SecondPiece
  <1>9. name \in Seq(D) /\ Len(name) \in Nat /\ Len(name) >= 2 /\ name[1] = Nt /\ name[2] = UNC
    BY <1>5, <1>7, SecondPiece
  <1>10. ~Prefixed(n)
    BY <1>2, StartsWithOne, PrefixesDiffer DEF Prefixed
  <1>11. toExtendedLengthPath(path) = p
    BY <1>1, <1>3, <1>4, <1>10 DEF toExtendedLengthPath
  <1>12. Prefixed(p) /\ Starts(p, <<Extended>>)
    BY <1>8, StartsWithOne DEF Prefixed
  <1>13. toExtendedLengthPath(p) = p
    BY <1>12 DEF toExtendedLengthPath
  <1>14. ~Starts(p, <<Extended, Network>>)
    BY <1>8, StartsWithTwo, PrefixesDiffer
  <1>15. fromExtendedLengthPath(p) = n
    BY <1>3, <1>6 DEF fromExtendedLengthPath
  <1>16. SubstituteName(p) = name
    BY <1>7, <1>8, <1>12 DEF SubstituteName
  <1>17. stripNtNamespacePrefix(name) = n
    <2>1. Starts(name, <<Nt>>)
      BY <1>9, StartsWithOne
    <2>2. SubSeq(name, 3, Len(name)) = rest
      BY <1>7 DEF Without
    <2> QED
      BY <1>3, <1>7, <2>1, <2>2 DEF stripNtNamespacePrefix
  <1>18. fromExtendedLengthPath(n) = n
    <2>1. ~Starts(n, <<Extended>>) /\ ~Starts(n, <<Extended, UNC>>)
      BY <1>2, StartsWithOne, StartsWithTwo, PrefixesDiffer
    <2> QED
      BY <2>1 DEF fromExtendedLengthPath
  <1>19. Target(name, FALSE, << >>) = n
    BY <1>2, <1>17, <1>18 DEF Target
  <1> QED
    BY <1>1, <1>11, <1>12, <1>13, <1>14, <1>15, <1>16, <1>19 DEF ComesBack

\* Whatever its length, a path goes to the system in its extended form, which
\* for a network path is \\?\UNC\, and is read back from a directory walk, and
\* from the link made with it as its target, as the path it was.
THEOREM EveryPathComesBack ==
  ASSUME NEW D, {Extended, Device, Network, Nt, UNC, unc} \subseteq D, NEW path \in Seq(D),
         IF Prefixed(path) THEN ~Starts(path, <<Extended, Network>>) ELSE IsNormal(Normal(path), D)
  PROVE  ComesBack(path)
  <1>1. CASE Prefixed(path)
    <2>1. toExtendedLengthPath(path) = path
      BY <1>1 DEF toExtendedLengthPath
    <2> QED
      BY <1>1, <2>1 DEF ComesBack
  <1>2. CASE ~Prefixed(path) /\ Normal(path)[1] # Network
    BY <1>2, DriveComesBack
  <1>3. CASE ~Prefixed(path) /\ Normal(path)[1] = Network
    BY <1>3, NetworkComesBack
  <1> QED
    BY <1>1, <1>2, <1>3
===============================================================================
