------------------------------ MODULE LinkRepair ------------------------------
(***************************************************************************)
(* What repairLink() promises its caller about one link that nobody else   *)
(* touches (core/SymlinkService.h): no Win32 calls, no inspection, only    *)
(* the link's status, what has been done to it, and which answers are      *)
(* honest then.  SymlinkService implements this.                           *)
(***************************************************************************)
VARIABLES
  mode,    \* "Execute" or "DryRun", for the whole call
  link,    \* the link's status now
  found,   \* its status when the call began
  stage,   \* what the call has done: "untouched", "removed", "made"
  answer   \* what the call returned or threw

vars == <<mode, link, found, stage, answer>>

Init ==
  /\ mode \in {"Execute", "DryRun"}
  /\ link \in {"Ok", "Missing", "Broken", "Mismatch"}
  /\ found = link
  /\ stage = "untouched"
  /\ answer = "none"

\* A Broken link may be removed, to be recreated.
Remove ==
  /\ mode = "Execute"
  /\ answer = "none"
  /\ stage = "untouched" /\ found = "Broken"
  /\ link' = "Missing"
  /\ stage' = "removed"
  /\ UNCHANGED <<mode, found, answer>>

\* A link is made where there is none; it dangles if the executable is gone.
Make ==
  /\ mode = "Execute"
  /\ answer = "none"
  /\ \/ stage = "removed"
     \/ stage = "untouched" /\ found = "Missing"
  /\ link' \in {"Ok", "Broken"}
  /\ stage' = "made"
  /\ UNCHANGED <<mode, found, answer>>

\* The outcomes that may be reported: each one true of the link at that time.
Outcomes ==
  CASE stage = "made"      -> IF link # "Ok" THEN {}
                              ELSE IF found = "Broken" THEN {"ReplacedBroken"}
                                   ELSE {"Created"}
    [] stage = "removed"   -> {}
    [] stage = "untouched" ->
         CASE link = "Ok"       -> {"SkippedOk"}
           [] link = "Mismatch" -> {"RefusedMismatch"}
           [] link = "Missing"  -> IF mode = "DryRun" THEN {"WouldCreate"} ELSE {}
           [] link = "Broken"   ->
                IF mode = "DryRun" THEN {"WouldReplaceBroken"} ELSE {}

\* The errors that may be thrown: each one naming the operation that failed.
Errors ==
  CASE stage = "made"    -> IF link = "Ok" THEN {"LinkInspectionError"}
                            ELSE {"LinkInspectionError", "VerificationFailed"}
    [] stage = "removed" -> {"CreateFailed", "InsufficientPermission"}
    [] stage = "untouched" ->
         {"LinkInspectionError"}
           \cup (IF mode = "DryRun" THEN {}
                 ELSE CASE link = "Broken"  -> {"DeleteFailed", "InsufficientPermission"}
                        [] link = "Missing" -> {"CreateFailed", "InsufficientPermission"}
                        [] OTHER            -> {})

Reply ==
  /\ answer = "none"
  /\ answer' \in Outcomes \cup Errors
  /\ UNCHANGED <<mode, link, found, stage>>

Next == Remove \/ Make \/ Reply

Spec == Init /\ [][Next]_vars
===============================================================================
