---------------------------- MODULE LinkInspector ----------------------------
(***************************************************************************)
(* What stands at Links\<alias>.exe and how core/LinkInspector.cpp         *)
(* classifies it.  Constant-level: the state machine that reads these in   *)
(* several Win32 calls, with other processes in between, is SymlinkService.*)
(*                                                                         *)
(* A path's spelling is abstracted to a model value.  What is kept is what *)
(* the classification tells apart: the shape of the directory entry, the   *)
(* path a symbolic link decodes to, and the file identity (volume serial   *)
(* and 128-bit id) found behind a path.                                    *)
(***************************************************************************)
CONSTANTS
  Paths,    \* paths of package executables, and other link targets
  FileIds,  \* FILE_ID_INFO values
  NoPath,   \* std::nullopt for a decoded target
  NoFile    \* nothing exists at a path

ASSUME SentinelAssumption == NoPath \notin Paths /\ NoFile \notin FileIds

(***************************************************************************)
(* Directory entries.  "plain" is a regular file or an ordinary directory, *)
(* "foreign" a reparse point whose tag is not IO_REPARSE_TAG_SYMLINK,      *)
(* "dirlink" a symbolic link carrying FILE_ATTRIBUTE_DIRECTORY (a junction *)
(* is classified by the same attribute test), "symlink" the file symbolic  *)
(* link this program manages.                                              *)
(***************************************************************************)
Entry == [kind : {"absent", "plain", "foreign"}, target : {NoPath}]
           \cup [kind : {"symlink", "dirlink"}, target : Paths]

Absent     == [kind |-> "absent", target |-> NoPath]
Symlink(p) == [kind |-> "symlink", target |-> p]

LinkStatus     == {"Ok", "Missing", "Broken", "Mismatch"}
LinkEntryKind  == {"None", "RegularFile", "SymbolicLink", "OtherReparsePoint"}
TargetRelation == {"NotApplicable", "Missing", "SameFile", "DifferentFile"}

LinkObservation == [entryKind      : LinkEntryKind,
                    decodedTarget  : Paths \cup {NoPath},
                    targetRelation : TargetRelation]

\* The observation of an entry that is not a symbolic link.
Unlinked(kind) == [entryKind      |-> kind,
                   decodedTarget  |-> NoPath,
                   targetRelation |-> "NotApplicable"]

Linked(target, relation) == [entryKind      |-> "SymbolicLink",
                             decodedTarget  |-> target,
                             targetRelation |-> relation]

\* validateObservation(): FALSE is the std::invalid_argument it throws.
ValidObservation(o) ==
  /\ (o.entryKind = "SymbolicLink") <=> (o.decodedTarget # NoPath)
  /\ (o.entryKind = "SymbolicLink") <=> (o.targetRelation # "NotApplicable")

StatusFor(o) ==
  CASE o.entryKind = "None"              -> "Missing"
    [] o.entryKind = "SymbolicLink"
         /\ o.targetRelation = "Missing"  -> "Broken"
    [] o.entryKind = "SymbolicLink"
         /\ o.targetRelation = "SameFile" -> "Ok"
    [] OTHER                              -> "Mismatch"

\* sameFileIdentity() applied to two identities that were both read.
Relation(targetId, expectedId) ==
  IF targetId = expectedId THEN "SameFile" ELSE "DifferentFile"

(***************************************************************************)
(* The classification of an entry that nobody changes while it is being    *)
(* inspected: the reference the step-by-step inspection is compared with.  *)
(* file maps a path to the identity found there.                           *)
(***************************************************************************)
ObservationOf(e, file, executable) ==
  CASE e.kind = "absent"                  -> Unlinked("None")
    [] e.kind = "plain"                   -> Unlinked("RegularFile")
    [] e.kind \in {"foreign", "dirlink"}  -> Unlinked("OtherReparsePoint")
    [] e.kind = "symlink"                 ->
         Linked(e.target,
                IF file[e.target] = NoFile
                THEN "Missing"
                ELSE Relation(file[e.target], file[executable]))

StatusOf(e, file, executable) == StatusFor(ObservationOf(e, file, executable))
==============================================================================
