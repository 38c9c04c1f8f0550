------------------------------ MODULE RepairBatch ------------------------------
(***************************************************************************)
(* runRepairBatch() of core/RepairBatch.cpp: the loop that takes the       *)
(* candidates of a scan one by one, asks for consent, repairs, counts, and *)
(* stops between two items once Ctrl+C was noticed.                        *)
(*                                                                         *)
(* A repair is LinkRepair, the contract SymlinkService implements for a    *)
(* link nobody else touches; other processes (Interfere) change links at   *)
(* any other time, before the scan's findings are acted on above all.      *)
(***************************************************************************)
EXTENDS Naturals, Sequences, FiniteSets

CONSTANTS
  Links,           \* link paths; an alias is identified with its link
  MaxCandidates,   \* bound on the number of candidates of a batch
  MaxInterference  \* bound on the changes other processes make

ASSUME BoundAssumption == MaxCandidates \in Nat /\ MaxInterference \in Nat

VARIABLES
  link,          \* the status of each link now
  interference,  \* number of changes made by other processes so far
  candidates,    \* the RepairItems offered, each with its status at the scan
  options,       \* RepairBatchOptions: mode, consent source, approved aliases
  ctrlC,         \* g_ctrlCRequested, what pollInterrupted() reads
  pc,            \* "poll", "consent", "repair", "returned" or "aborted"
  index,         \* position of the candidate at hand, from 1
  found, stage, answer,  \* the repairLink() call under way (LinkRepair)
  items,         \* RepairBatchResult::items
  counts,        \* RepairBatchSummary: one counter per kind of disposition
  processed, remaining, anyInsufficientPermission, interrupted, \* its others
  consented,     \* history: positions approved by the user or the checklist
  mutated,       \* history: positions whose link this batch has changed
  noticedAt      \* history: the position at hand when ctrlC was set, or 0

world   == <<link, interference, ctrlC, noticedAt>>
given   == <<candidates, options>>
call    == <<found, stage, answer>>
result  == <<items, counts, processed, remaining, anyInsufficientPermission,
             interrupted>>
history == <<consented, mutated>>
vars    == <<world, given, pc, index, call, result, history>>

LinkStatus  == {"Ok", "Missing", "Broken", "Mismatch"}
Candidate   == [alias : Links, status : LinkStatus]
Disposition == {"Created", "ReplacedBroken", "PlannedCreate",
                "PlannedReplaceBroken", "Declined", "SkippedOk",
                "RefusedMismatch", "Failed"}
Counter     == {"created", "replaced", "planned", "declined", "skippedOk",
                "refusedMismatch", "failed"}

SymlinkServiceError == {"InsufficientPermission", "DeleteFailed",
                        "CreateFailed", "VerificationFailed"}
Outcome == {"SkippedOk", "RefusedMismatch", "WouldCreate",
            "WouldReplaceBroken", "Created", "ReplacedBroken"}

\* error is set only on the item whose repairLink() threw it.
RepairItemResult ==
  {item \in [disposition : Disposition, error : SymlinkServiceError \cup {"none"}] :
     item.disposition = "Failed" <=> item.error # "none"}

\* RepairBatchOptions as runFix() fills it: consent comes from --yes, from the
\* checklist's selection (approved), or from a prompt for each item.
RepairBatchOptions == [mode     : {"Execute", "DryRun"},
                       consent  : {"assumeYes", "preApproved", "ask"},
                       approved : SUBSET Links]

selected == Len(candidates)

TypeOK ==
  /\ link \in [Links -> LinkStatus]
  /\ interference \in 0 .. MaxInterference
  /\ candidates \in Seq(Candidate)
  /\ options \in RepairBatchOptions
  /\ ctrlC \in BOOLEAN
  /\ pc \in {"poll", "consent", "repair", "returned", "aborted"}
  /\ index \in 1 .. selected + 1
  /\ pc \in {"consent", "repair"} => index <= selected
  /\ found \in LinkStatus
  /\ stage \in {"untouched", "removed", "made"}
  /\ answer \in Outcome \cup SymlinkServiceError \cup {"LinkInspectionError", "none"}
  /\ items \in Seq(RepairItemResult)
  /\ counts \in [Counter -> Nat]
  /\ processed \in Nat
  /\ remaining \in Nat
  /\ anyInsufficientPermission \in BOOLEAN
  /\ interrupted \in BOOLEAN
  /\ consented \subseteq 1 .. selected
  /\ mutated \subseteq 1 .. selected
  /\ noticedAt \in 0 .. selected + 1

\* The checklist offers, and so approves, Missing and Broken candidates only.
Approvable(cs) == {cs[i].alias : i \in {j \in DOMAIN cs : cs[j].status \in {"Missing", "Broken"}}}

\* The batch as it is called: candidates as scanned, and options.
Offered(cs, os) ==
  /\ candidates = cs
  /\ options = os
  /\ os.approved \subseteq (IF os.consent = "preApproved" THEN Approvable(cs) ELSE {})

\* The locals of a batch that is about to run.
Fresh ==
  /\ pc = "poll"
  /\ index = 1
  /\ found = "Ok" /\ stage = "untouched" /\ answer = "none"
  /\ items = << >>
  /\ counts = [k \in Counter |-> 0]
  /\ processed = 0
  /\ remaining = 0
  /\ anyInsufficientPermission = FALSE
  /\ interrupted = FALSE
  /\ consented = {}
  /\ mutated = {}

Init ==
  /\ link \in [Links -> LinkStatus]
  /\ interference = 0
  /\ ctrlC = FALSE
  /\ noticedAt = 0
  /\ \E n \in 0 .. MaxCandidates :
       \E cs \in [1 .. n -> Candidate], os \in RepairBatchOptions :
         /\ \A i \in 1 .. n : cs[i].status = link[cs[i].alias]
         /\ Offered(cs, os)
  /\ Fresh

-------------------------------------------------------------------------------
(***************************************************************************)
(* Pure parts.                                                             *)
(***************************************************************************)
\* Mutant of needsConsent: replacing a broken link is not asked about.
needsConsentMissing(status) == status = "Missing"

needsConsent(status) == status \in {"Missing", "Broken"}

dispositionFor(outcome) ==
  CASE outcome = "WouldCreate"        -> "PlannedCreate"
    [] outcome = "WouldReplaceBroken" -> "PlannedReplaceBroken"
    [] OTHER                          -> outcome

counterFor(disposition) ==
  CASE disposition = "Created"         -> "created"
    [] disposition = "ReplacedBroken"  -> "replaced"
    [] disposition \in {"PlannedCreate", "PlannedReplaceBroken"} -> "planned"
    [] disposition = "Declined"        -> "declined"
    [] disposition = "SkippedOk"       -> "skippedOk"
    [] disposition = "RefusedMismatch" -> "refusedMismatch"
    [] disposition = "Failed"          -> "failed"

\* Mutant of exitCodeFor: an interruption is looked at first.
exitCodeInterruptedFirst ==
  IF interrupted /\ remaining > 0 THEN "PartialFailure"
  ELSE IF anyInsufficientPermission THEN "InsufficientPermission"
       ELSE IF counts["failed"] > 0 THEN "PartialFailure" ELSE "Success"

\* RepairBatch.cpp exitCodeFor(), meaningful once the batch returned.
exitCodeFor ==
  IF anyInsufficientPermission THEN "InsufficientPermission"
  ELSE IF (interrupted /\ remaining > 0) \/ counts["failed"] > 0
       THEN "PartialFailure"
       ELSE "Success"

candidate == candidates[index]

\* A candidate whose repair has to be approved first.
MustAsk == /\ needsConsent(candidate.status)
           /\ options.mode = "Execute"
           /\ options.consent # "assumeYes"

-------------------------------------------------------------------------------
(***************************************************************************)
(* The loop.                                                               *)
(***************************************************************************)
\* Mutant of Return: the operands of the subtraction are swapped.
ReturnSwapped == /\ pc' = "returned"
                 /\ remaining' = processed - selected

\* The loop is left; remaining is derived, not counted.
Return == /\ pc' = "returned"
          /\ remaining' = selected - processed

\* The loop ran out of candidates.
Complete ==
  /\ pc = "poll" /\ index > selected
  /\ Return
  /\ UNCHANGED <<world, given, index, call, items, counts, processed,
                 anyInsufficientPermission, interrupted, history>>

\* pollInterrupted() returned true before the next candidate.
Interrupt ==
  /\ pc = "poll" /\ index <= selected /\ ctrlC
  /\ interrupted' = TRUE
  /\ Return
  /\ UNCHANGED <<world, given, index, call, items, counts, processed,
                 anyInsufficientPermission, history>>

\* Mutant of Record: the permission flag follows the last item.
RecordLastError(item) ==
  /\ counts' = [counts EXCEPT ![counterFor(item.disposition)] = @ + 1]
  /\ anyInsufficientPermission' = (item.error = "InsufficientPermission")
  /\ processed' = processed + 1
  /\ items' = Append(items, item)
  /\ index' = index + 1
  /\ pc' = "poll"
  /\ UNCHANGED <<remaining, interrupted>>

\* accumulate(), processed, onProgress and push_back, and on to the next item.
Record(item) ==
  /\ counts' = [counts EXCEPT ![counterFor(item.disposition)] = @ + 1]
  /\ anyInsufficientPermission' =
       (anyInsufficientPermission \/ item.error = "InsufficientPermission")
  /\ processed' = processed + 1
  /\ items' = Append(items, item)
  /\ index' = index + 1
  /\ pc' = "poll"
  /\ UNCHANGED <<remaining, interrupted>>

\* repairFunction is called: it inspects the link as it is now.
CallRepair ==
  /\ pc' = "repair"
  /\ found' = link[candidate.alias]
  /\ stage' = "untouched"
  /\ answer' = "none"

Declined == [disposition |-> "Declined", error |-> "none"]

\* Mutant of Begin: the flag is not polled.
BeginUnpolled ==
  /\ pc = "poll" /\ index <= selected
  /\ \/ /\ ~MustAsk
        /\ CallRepair
        /\ UNCHANGED <<index, result, history>>
     \/ /\ MustAsk /\ options.consent = "ask"
        /\ pc' = "consent"
        /\ UNCHANGED <<index, call, result, history>>
  /\ UNCHANGED <<world, given>>

\* The next candidate needs no approval, or the checklist's list decides it.
Begin ==
  /\ pc = "poll" /\ index <= selected /\ ~ctrlC
  /\ \/ /\ ~MustAsk
        /\ CallRepair
        /\ UNCHANGED <<index, result, history>>
     \/ /\ MustAsk /\ options.consent = "preApproved"
        /\ candidate.alias \in options.approved
        /\ CallRepair
        /\ consented' = consented \cup {index}
        /\ UNCHANGED <<index, result, mutated>>
     \/ /\ MustAsk /\ options.consent = "preApproved"
        /\ candidate.alias \notin options.approved
        /\ Record(Declined)
        /\ UNCHANGED <<call, history>>
     \/ /\ MustAsk /\ options.consent = "ask"
        /\ pc' = "consent"
        /\ UNCHANGED <<index, call, result, history>>
  /\ UNCHANGED <<world, given>>

\* consent() returned the user's answer.
Consent ==
  /\ pc = "consent"
  /\ \/ /\ CallRepair
        /\ consented' = consented \cup {index}
        /\ UNCHANGED <<index, result, mutated>>
     \/ /\ Record(Declined)
        /\ UNCHANGED <<call, history>>
  /\ UNCHANGED <<world, given>>

Repair == INSTANCE LinkRepair WITH
            mode <- options.mode, link <- link[candidate.alias]

\* One step of the repairLink() call under way.
RepairStep ==
  /\ pc = "repair"
  /\ \E status \in LinkStatus : link' = [link EXCEPT ![candidate.alias] = status]
  /\ UNCHANGED <<index, given>>
  /\ Repair!Next
  /\ mutated' = IF stage' # stage THEN mutated \cup {index} ELSE mutated
  /\ UNCHANGED <<interference, ctrlC, noticedAt, pc, result, consented>>

\* Mutant of RepairEnds: a failed item is skipped instead of recorded.
RepairEndsSkipping ==
  /\ pc = "repair" /\ answer \in Outcome \cup SymlinkServiceError
  /\ IF answer \in Outcome
     THEN Record([disposition |-> dispositionFor(answer), error |-> "none"])
     ELSE /\ index' = index + 1
          /\ pc' = "poll"
          /\ UNCHANGED result
  /\ UNCHANGED <<world, given, call, history>>

\* repairLink() returned, or threw the one exception the loop catches.
RepairEnds ==
  /\ pc = "repair" /\ answer \in Outcome \cup SymlinkServiceError
  /\ Record(IF answer \in Outcome
            THEN [disposition |-> dispositionFor(answer), error |-> "none"]
            ELSE [disposition |-> "Failed", error |-> answer])
  /\ UNCHANGED <<world, given, call, history>>

\* Any other exception leaves runRepairBatch() with it; result is lost.
RepairThrows ==
  /\ pc = "repair" /\ answer = "LinkInspectionError"
  /\ pc' = "aborted"
  /\ UNCHANGED <<world, given, index, call, result, history>>

-------------------------------------------------------------------------------
(***************************************************************************)
(* The environment.                                                        *)
(***************************************************************************)
Ended == pc \in {"returned", "aborted"}

\* The console control handler, on a thread of its own.
CtrlC ==
  /\ ~Ended /\ ~ctrlC
  /\ ctrlC' = TRUE
  /\ noticedAt' = index
  /\ UNCHANGED <<link, interference, given, pc, index, call, result, history>>

\* Another process changes a link, or the executable behind it, while no
\* repairLink() call is at work (SymlinkService has the races within one).
Interfere ==
  /\ pc \in {"poll", "consent"}
  /\ interference < MaxInterference
  /\ interference' = interference + 1
  /\ \E l \in Links, status \in LinkStatus :
       /\ status # link[l]
       /\ link' = [link EXCEPT ![l] = status]
  /\ UNCHANGED <<ctrlC, noticedAt, given, pc, index, call, result, history>>

Loop == Complete \/ Interrupt \/ Begin \/ RepairStep \/ RepairEnds \/ RepairThrows

Next == Loop \/ Consent \/ CtrlC \/ Interfere \/ (Ended /\ UNCHANGED vars)

Spec == Init /\ [][Next]_vars

-------------------------------------------------------------------------------
\* Properties.

ItemsCounted(k) == {i \in DOMAIN items : counterFor(items[i].disposition) = k}

\* The summary tells what happened: every counter is the number of recorded
\* items of its kind, every item reached is recorded exactly once and in order,
\* and the permission flag is set just when an item failed for permission.
SummaryMatchesItems ==
  /\ processed = Len(items)
  /\ Len(items) = index - 1
  /\ \A k \in Counter : counts[k] = Cardinality(ItemsCounted(k))
  /\ anyInsufficientPermission <=>
       \E i \in DOMAIN items : items[i].error = "InsufficientPermission"

\* RepairBatch.h: the exit code is InsufficientPermission whatever else went
\* wrong, and Success only if every candidate was reached and none failed.
ExitCodeIsHonest ==
  pc = "returned" =>
    /\ exitCodeFor = "InsufficientPermission" <=>
         \E i \in DOMAIN items : items[i].error = "InsufficientPermission"
    /\ exitCodeFor = "Success" <=>
         /\ Len(items) = selected
         /\ \A i \in DOMAIN items : items[i].disposition # "Failed"

\* What the batch changed on disk is what it reports: a candidate whose link
\* was touched ends as Created, ReplacedBroken or Failed, and one reported
\* Created or ReplacedBroken was touched.  Ctrl+C in mid-repair included.
MutationsAreReported ==
  /\ \A i \in mutated :
       i \in DOMAIN items => items[i].disposition \in {"Created", "ReplacedBroken", "Failed"}
  /\ pc = "returned" => mutated \subseteq DOMAIN items
  /\ \A i \in DOMAIN items :
       items[i].disposition \in {"Created", "ReplacedBroken"} => i \in mutated

\* No link offered as Missing or Broken is touched without --yes, a checked
\* row, or a yes at the prompt, nor any link at all in a dry run; a declined
\* item's link is left alone.
MutationsAreApproved ==
  /\ options.mode = "DryRun" => mutated = {}
  /\ \A i \in mutated : \/ options.consent = "assumeYes"
                        \/ i \in consented
                        \/ candidates[i].status \in {"Ok", "Mismatch"}
  /\ \A i \in DOMAIN items : items[i].disposition = "Declined" => i \notin mutated

\* The README's promise is stronger: links are recreated after confirmation,
\* whatever the scan found before.
EveryMutationConfirmed ==
  \A i \in mutated : options.consent = "assumeYes" \/ i \in consented

\* Once the handler has set the flag, the candidate at hand is the last one.
StopsAfterCurrentItem == noticedAt # 0 => index <= noticedAt + 1
===============================================================================
