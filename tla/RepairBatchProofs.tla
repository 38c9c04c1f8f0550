--------------------------- MODULE RepairBatchProofs ---------------------------
(***************************************************************************)
(* Theorems of RepairBatch, for any set of links, batches of any length    *)
(* and any amount of interference by other processes.                      *)
(***************************************************************************)
EXTENDS RepairBatch, FiniteSetTheorems, SequenceTheorems, TLAPS

-------------------------------------------------------------------------------
\* What the pure parts return.

Answers == Outcome \cup SymlinkServiceError \cup {"LinkInspectionError", "none"}

LEMMA CounterType == \A d \in Disposition : counterFor(d) \in Counter
  BY DEF counterFor, Disposition, Counter

LEMMA FailedCounter == \A d \in Disposition : counterFor(d) = "failed" <=> d = "Failed"
  BY DEF counterFor, Disposition

LEMMA DispositionType ==
  \A o \in Outcome : dispositionFor(o) \in Disposition \ {"Failed"}
  BY DEF dispositionFor, Outcome, Disposition

LEMMA DeclinedType == Declined \in RepairItemResult
  BY DEF Declined, RepairItemResult, Disposition

LEMMA ItemType ==
  ASSUME NEW o \in Outcome \cup SymlinkServiceError
  PROVE  (IF o \in Outcome
          THEN [disposition |-> dispositionFor(o), error |-> "none"]
          ELSE [disposition |-> "Failed", error |-> o]) \in RepairItemResult
  BY DispositionType DEF RepairItemResult, Disposition, SymlinkServiceError

\* One step of a repairLink() call keeps its state in the contract's types.
LEMMA RepairStepType ==
  ASSUME Repair!Next, link[candidate.alias] \in LinkStatus,
         stage \in {"untouched", "removed", "made"}, answer \in Answers
  PROVE  /\ stage' \in {"untouched", "removed", "made"}
         /\ answer' \in Answers
         /\ UNCHANGED found
  <1>1. CASE Repair!Remove \/ Repair!Make
    BY <1>1 DEF Repair!Remove, Repair!Make
  <1>2. CASE Repair!Reply
    <2>1. Repair!Outcomes \subseteq Outcome
      BY DEF Repair!Outcomes, Outcome, LinkStatus
    <2>2. Repair!Errors \subseteq SymlinkServiceError \cup {"LinkInspectionError"}
      BY DEF Repair!Errors, SymlinkServiceError
    <2> QED
      BY <1>2, <2>1, <2>2 DEF Repair!Reply, Answers
  <1> QED
    BY <1>1, <1>2 DEF Repair!Next

-------------------------------------------------------------------------------
(***************************************************************************)
(* The inductive invariant.  SummaryMatchesItems and the exit code speak   *)
(* of counters and of the items they count; what makes them inductive is   *)
(* when the derived and the final counters are settled (LoopInv).  Notice  *)
(* stands apart: it is all the batch has to know of Ctrl+C.                *)
(***************************************************************************)
\* remaining and interrupted are set by the step that leaves the loop, which
\* either ran out of candidates or was interrupted before one.
Settlement ==
  /\ pc # "returned" => ~interrupted
  /\ pc = "returned" => /\ remaining = selected - processed
                        /\ interrupted <=> index <= selected

\* Since the flag is set, the loop has not gone past the item at hand.
Notice ==
  /\ noticedAt # 0 => ctrlC /\ index <= noticedAt + 1
  /\ noticedAt # 0 /\ pc \in {"consent", "repair"} => index = noticedAt

LoopInv == TypeOK /\ SummaryMatchesItems /\ Settlement

BatchInv == LoopInv /\ Notice

\* What the environment may have done to a batch that has not begun.
Worldly == /\ link \in [Links -> LinkStatus]
           /\ interference \in 0 .. MaxInterference
           /\ ctrlC \in BOOLEAN
           /\ noticedAt \in 0 .. selected + 1
           /\ candidates \in Seq(Candidate)
           /\ options \in RepairBatchOptions

LEMMA FreshInv == Fresh /\ Worldly => LoopInv
  <1> SUFFICES ASSUME Fresh, Worldly PROVE LoopInv
    OBVIOUS
  <1>1. \A k \in Counter : ItemsCounted(k) = {}
    BY DEF Fresh, ItemsCounted
  <1>2. SummaryMatchesItems
    <2>1. \A k \in Counter : counts[k] = Cardinality(ItemsCounted(k))
      BY <1>1, FS_EmptySet DEF Fresh
    <2>2. items = << >> /\ processed = 0 /\ index = 1 /\ ~anyInsufficientPermission
      BY DEF Fresh
    <2> QED
      BY <2>1, <2>2 DEF SummaryMatchesItems
  <1>3. TypeOK
    <2>1. selected \in Nat
      BY DEF Worldly, selected
    <2>2. index \in 1 .. selected + 1
      BY <2>1 DEF Fresh
    <2>3. counts \in [Counter -> Nat] /\ items \in Seq(RepairItemResult)
      BY DEF Fresh
    <2> QED
      BY <2>2, <2>3 DEF Worldly, Fresh, TypeOK, LinkStatus
  <1>4. Settlement
    BY DEF Fresh, Settlement
  <1> QED
    BY <1>2, <1>3, <1>4 DEF LoopInv

LEMMA InitInv == Init => BatchInv
  <1> SUFFICES ASSUME Init PROVE BatchInv
    OBVIOUS
  <1>1. candidates \in Seq(Candidate) /\ options \in RepairBatchOptions
    <2>1. PICK n \in 0 .. MaxCandidates : candidates \in [1 .. n -> Candidate]
      BY DEF Init, Offered
    <2>2. n \in Nat
      BY <2>1, BoundAssumption
    <2>3. candidates \in Seq(Candidate)
      BY <2>1, <2>2
    <2> QED
      BY <2>3 DEF Init, Offered
  <1>2. Worldly
    <2>1. selected \in Nat
      BY <1>1 DEF selected
    <2>2. noticedAt \in 0 .. selected + 1
      BY <2>1 DEF Init
    <2>3. interference \in 0 .. MaxInterference
      BY BoundAssumption DEF Init
    <2> QED
      BY <1>1, <2>2, <2>3 DEF Init, Worldly
  <1>3. Notice
    BY DEF Init, Notice
  <1> QED
    BY <1>2, <1>3, FreshInv DEF Init, BatchInv

LEMMA CountsAppend ==
  ASSUME NEW s \in Seq(RepairItemResult), NEW item \in RepairItemResult,
         NEW k \in Counter, items = s, items' = Append(s, item)
  PROVE  Cardinality(ItemsCounted(k)') =
           Cardinality(ItemsCounted(k)) + (IF counterFor(item.disposition) = k THEN 1 ELSE 0)
  <1>1. /\ Len(items) \in Nat /\ DOMAIN items = 1 .. Len(items)
        /\ DOMAIN items' = 1 .. Len(items) + 1
        /\ \A i \in 1 .. Len(items) : items'[i] = items[i]
        /\ items'[Len(items) + 1] = item
    OBVIOUS
  <1>2. IsFiniteSet(ItemsCounted(k)) /\ Len(items) + 1 \notin ItemsCounted(k)
    <2>1. ItemsCounted(k) \subseteq 1 .. Len(items)
      BY <1>1 DEF ItemsCounted
    <2>2. IsFiniteSet(1 .. Len(items))
      BY <1>1, FS_Interval
    <2>3. IsFiniteSet(ItemsCounted(k))
      BY <2>1, <2>2, FS_Subset
    <2>4. Len(items) + 1 \notin ItemsCounted(k)
      BY <1>1, <2>1
    <2> QED
      BY <2>3, <2>4
  <1>3. CASE counterFor(item.disposition) = k
    <2>1. ItemsCounted(k)' = ItemsCounted(k) \cup {Len(items) + 1}
      BY <1>1, <1>3 DEF ItemsCounted
    <2> QED
      BY <1>2, <1>3, <2>1, FS_AddElement
  <1>4. CASE counterFor(item.disposition) # k
    <2>1. ItemsCounted(k)' = ItemsCounted(k)
      BY <1>1, <1>4 DEF ItemsCounted
    <2>2. Cardinality(ItemsCounted(k)) \in Nat
      BY <1>2, FS_CardinalityType
    <2> QED
      BY <1>4, <2>1, <2>2
  <1> QED
    BY <1>3, <1>4

\* Recording an item keeps the summary in step with the items.
LEMMA RecordSummary ==
  ASSUME TypeOK, SummaryMatchesItems, index <= selected,
         NEW item \in RepairItemResult, Record(item), UNCHANGED candidates
  PROVE  /\ SummaryMatchesItems'
         /\ items' \in Seq(RepairItemResult)
         /\ counts' \in [Counter -> Nat]
         /\ processed' \in Nat /\ anyInsufficientPermission' \in BOOLEAN
         /\ index' \in 1 .. selected + 1
  <1>1. counterFor(item.disposition) \in Counter
    BY CounterType DEF RepairItemResult
  <1>2. \A k \in Counter : counts'[k] = Cardinality(ItemsCounted(k)')
    <2> TAKE k \in Counter
    <2>1. Cardinality(ItemsCounted(k)') =
            counts[k] + (IF counterFor(item.disposition) = k THEN 1 ELSE 0)
      BY CountsAppend DEF TypeOK, SummaryMatchesItems, Record
    <2> QED
      BY <1>1, <2>1 DEF Record, TypeOK
  <1>3. anyInsufficientPermission' <=>
          \E i \in DOMAIN items' : items'[i].error = "InsufficientPermission"
    <2>1. /\ Len(items) \in Nat /\ DOMAIN items = 1 .. Len(items)
          /\ DOMAIN items' = 1 .. Len(items) + 1
          /\ \A i \in 1 .. Len(items) : items'[i] = items[i]
          /\ items'[Len(items) + 1] = item
      BY DEF TypeOK, Record
    <2>2. anyInsufficientPermission <=>
            \E i \in 1 .. Len(items) : items[i].error = "InsufficientPermission"
      BY <2>1 DEF SummaryMatchesItems
    <2>3. anyInsufficientPermission' <=>
            anyInsufficientPermission \/ item.error = "InsufficientPermission"
      BY DEF Record
    <2>4. (\E i \in DOMAIN items' : items'[i].error = "InsufficientPermission") <=>
            \/ \E i \in 1 .. Len(items) : items[i].error = "InsufficientPermission"
            \/ item.error = "InsufficientPermission"
      BY <2>1
    <2> QED
      BY <2>2, <2>3, <2>4
  <1>4. processed' = Len(items') /\ Len(items') = index' - 1
    BY DEF TypeOK, SummaryMatchesItems, Record
  <1>5. SummaryMatchesItems'
    BY <1>2, <1>3, <1>4 DEF SummaryMatchesItems
  <1> QED
    BY <1>1, <1>5 DEF Record, TypeOK, selected

\* What recording an item leaves alone or settles, for the other conjuncts.
LEMMA RecordInv ==
  ASSUME LoopInv, pc \in {"poll", "consent", "repair"}, index <= selected,
         NEW item \in RepairItemResult, Record(item),
         UNCHANGED <<world, given, call, mutated>>, consented' \subseteq 1 .. selected
  PROVE  LoopInv'
  <1>1. SummaryMatchesItems'
    BY RecordSummary DEF LoopInv, given
  <1>2. TypeOK'
    BY RecordSummary DEF LoopInv, given, world, call, TypeOK, Record, selected
  <1>3. Settlement'
    BY DEF LoopInv, Settlement, Record
  <1> QED
    BY <1>1, <1>2, <1>3 DEF LoopInv

LEMMA CallRepairInv ==
  ASSUME LoopInv, pc \in {"poll", "consent"}, index <= selected,
         CallRepair, UNCHANGED <<world, given, index, result, mutated>>,
         consented' \subseteq 1 .. selected
  PROVE  LoopInv'
  <1>1. SummaryMatchesItems'
    BY DEF LoopInv, SummaryMatchesItems, ItemsCounted, result
  <1>2. candidates[index] \in Candidate
    BY DEF LoopInv, TypeOK, selected
  <1>3. TypeOK'
    BY <1>2 DEF LoopInv, given, world, result, TypeOK, CallRepair, candidate, Candidate,
                selected
  <1>4. Settlement'
    BY DEF LoopInv, Settlement, CallRepair, result
  <1> QED
    BY <1>1, <1>3, <1>4 DEF LoopInv

\* The loop is left in a state whose remaining is the number never reached.
LEMMA ReturnInv ==
  ASSUME LoopInv, pc = "poll", Return, interrupted' \in BOOLEAN,
         interrupted' <=> index <= selected,
         UNCHANGED <<world, given, index, call, items, counts, processed,
                     anyInsufficientPermission, history>>
  PROVE  LoopInv'
  <1>1. processed = index - 1 /\ selected' = selected
    BY DEF LoopInv, SummaryMatchesItems, given, selected
  <1>2. remaining' \in Nat /\ remaining' = selected - processed
    BY <1>1 DEF LoopInv, TypeOK, Return, selected
  <1>3. SummaryMatchesItems'
    BY DEF LoopInv, SummaryMatchesItems, ItemsCounted
  <1>4. TypeOK'
    BY <1>2 DEF LoopInv, TypeOK, Return, world, given, call, history, selected
  <1>5. Settlement'
    BY <1>1, <1>2 DEF Settlement, Return
  <1> QED
    BY <1>3, <1>4, <1>5 DEF LoopInv

\* Steps that leave the loop's position and all of its results alone.
LEMMA IdleInv ==
  ASSUME LoopInv, TypeOK', UNCHANGED <<given, index, result>>,
         pc = "returned" <=> pc' = "returned"
  PROVE  LoopInv'
  <1>1. SummaryMatchesItems'
    BY DEF LoopInv, SummaryMatchesItems, ItemsCounted, result
  <1>2. Settlement'
    BY DEF LoopInv, Settlement, given, result, selected
  <1> QED
    BY <1>1, <1>2 DEF LoopInv

LEMMA StepInv == ASSUME LoopInv, [Next]_vars PROVE LoopInv'
  <1> USE DEF Ended
  <1>1. CASE Complete
    BY <1>1, ReturnInv DEF Complete, LoopInv, TypeOK, Settlement, selected
  <1>2. CASE Interrupt
    BY <1>2, ReturnInv DEF Interrupt
  <1>3. CASE Begin
    <2>1. pc = "poll" /\ index <= selected /\ ~ctrlC /\ UNCHANGED <<world, given>>
      BY <1>3 DEF Begin
    <2>2. index \in 1 .. selected /\ consented \subseteq 1 .. selected
      BY <2>1 DEF LoopInv, TypeOK, selected
    <2>3. CASE /\ CallRepair /\ UNCHANGED <<index, result, mutated>>
               /\ consented' \subseteq 1 .. selected
      BY <2>1, <2>3, CallRepairInv
    <2>4. CASE Record(Declined) /\ UNCHANGED <<call, history>>
      BY <2>1, <2>2, <2>4, DeclinedType, RecordInv DEF history
    <2>5. CASE pc' = "consent" /\ UNCHANGED <<index, call, result, history>>
      <3>1. TypeOK'
        BY <2>1, <2>5 DEF LoopInv, TypeOK, world, given, call, result, history, selected
      <3> QED
        BY <2>1, <2>5, <3>1, IdleInv DEF world
    <2> QED
      BY <1>3, <2>2, <2>3, <2>4, <2>5 DEF Begin, history
  <1>4. CASE Consent
    <2>1. /\ pc = "consent" /\ UNCHANGED <<world, given>>
          /\ index \in 1 .. selected /\ consented \subseteq 1 .. selected
      BY <1>4 DEF Consent, LoopInv, TypeOK, selected
    <2>2. CASE /\ CallRepair /\ UNCHANGED <<index, result, mutated>>
               /\ consented' \subseteq 1 .. selected
      BY <2>1, <2>2, CallRepairInv
    <2>3. CASE Record(Declined) /\ UNCHANGED <<call, history>>
      BY <2>1, <2>3, DeclinedType, RecordInv DEF history
    <2> QED
      BY <1>4, <2>1, <2>2, <2>3 DEF Consent
  <1>5. CASE RepairStep
    <2>1. /\ pc = "repair" /\ index \in 1 .. selected
          /\ candidates[index] \in Candidate
      BY <1>5 DEF RepairStep, LoopInv, TypeOK, selected
    <2>2. /\ stage' \in {"untouched", "removed", "made"}
          /\ answer' \in Answers
          /\ UNCHANGED found
      BY <1>5, <2>1, RepairStepType
         DEF RepairStep, LoopInv, TypeOK, Answers, candidate, Candidate
    <2>3. link' \in [Links -> LinkStatus] /\ mutated' \subseteq 1 .. selected
      BY <1>5, <2>1 DEF RepairStep, LoopInv, TypeOK
    <2>4. TypeOK'
      BY <1>5, <2>2, <2>3
         DEF RepairStep, LoopInv, TypeOK, Answers, given, result, selected
    <2> QED
      BY <1>5, <2>4, IdleInv DEF RepairStep
  <1>6. CASE RepairEnds
    <2>1. index \in 1 .. selected /\ consented \subseteq 1 .. selected
      BY <1>6 DEF RepairEnds, LoopInv, TypeOK, selected
    <2> QED
      BY <1>6, <2>1, ItemType, RecordInv DEF RepairEnds, history
  <1>7. CASE RepairThrows
    <2>1. TypeOK'
      BY <1>7 DEF RepairThrows, LoopInv, TypeOK, world, given, call, result, history, selected
    <2> QED
      BY <1>7, <2>1, IdleInv DEF RepairThrows, world
  <1>8. CASE CtrlC
    <2>1. TypeOK'
      BY <1>8 DEF CtrlC, LoopInv, TypeOK, given, call, result, history, selected
    <2> QED
      BY <1>8, <2>1, IdleInv DEF CtrlC
  <1>9. CASE Interfere
    <2>1. interference' \in 0 .. MaxInterference
      BY <1>9, BoundAssumption DEF Interfere, LoopInv, TypeOK
    <2>2. TypeOK'
      BY <1>9, <2>1 DEF Interfere, LoopInv, TypeOK, given, call, result, history, selected
    <2> QED
      BY <1>9, <2>2, IdleInv DEF Interfere
  <1>10. CASE UNCHANGED vars
    <2>1. UNCHANGED <<world, given, pc, index, call, result, history>>
      BY <1>10 DEF vars
    <2>2. TypeOK'
      BY <2>1 DEF LoopInv, TypeOK, world, given, call, result, history, selected
    <2> QED
      BY <2>1, <2>2, IdleInv DEF world
  <1> QED
    BY <1>1, <1>2, <1>3, <1>4, <1>5, <1>6, <1>7, <1>8, <1>9, <1>10 DEF Next, Loop

LEMMA StepNotice == ASSUME LoopInv, Notice, [Next]_vars PROVE Notice'
  <1>1. index \in Nat
    BY DEF LoopInv, TypeOK, selected
  <1>2. CASE Complete \/ Interrupt
    BY <1>2 DEF Complete, Interrupt, Return, world, Notice
  <1>3. CASE Begin
    BY <1>1, <1>3 DEF Begin, CallRepair, Record, world, Notice
  <1>4. CASE Consent
    BY <1>1, <1>4 DEF Consent, CallRepair, Record, world, Notice
  <1>5. CASE RepairStep
    BY <1>5 DEF RepairStep, Notice
  <1>6. CASE RepairEnds \/ RepairThrows
    BY <1>1, <1>6 DEF RepairEnds, RepairThrows, Record, world, Notice
  <1>7. CASE CtrlC \/ Interfere
    BY <1>1, <1>7 DEF CtrlC, Interfere, Notice
  <1>8. CASE UNCHANGED vars
    BY <1>8 DEF vars, world, Notice
  <1> QED
    BY <1>2, <1>3, <1>4, <1>5, <1>6, <1>7, <1>8 DEF Next, Loop

LEMMA BatchCorrect == Spec => []BatchInv
  BY InitInv, StepInv, StepNotice, PTL DEF BatchInv, Spec

\* Every variable of the batch keeps its type in every behaviour.
THEOREM TypeCorrect == Spec => []TypeOK
  BY BatchCorrect, PTL DEF BatchInv, LoopInv

\* In every behaviour the summary's counters are the numbers of recorded items
\* of their kinds, for batches of any length.
THEOREM SummaryCorrect == Spec => []SummaryMatchesItems
  BY BatchCorrect, PTL DEF BatchInv, LoopInv

LEMMA HonestExit == LoopInv => ExitCodeIsHonest
  <1> SUFFICES ASSUME LoopInv, pc = "returned" PROVE ExitCodeIsHonest
    BY DEF ExitCodeIsHonest
  <1>1. counts["failed"] > 0 <=> \E i \in DOMAIN items : items[i].disposition = "Failed"
    <2>1. "failed" \in Counter /\ items \in Seq(RepairItemResult)
      BY DEF Counter, LoopInv, TypeOK
    <2>2. ItemsCounted("failed") = {i \in DOMAIN items : items[i].disposition = "Failed"}
      BY <2>1, FailedCounter DEF ItemsCounted, RepairItemResult
    <2>3. IsFiniteSet(ItemsCounted("failed"))
      <3>1. ItemsCounted("failed") \subseteq 1 .. Len(items) /\ Len(items) \in Nat
        BY <2>1 DEF ItemsCounted
      <3>2. IsFiniteSet(1 .. Len(items))
        BY <3>1, FS_Interval
      <3> QED
        BY <3>1, <3>2, FS_Subset
    <2>4. counts["failed"] = Cardinality(ItemsCounted("failed"))
      BY <2>1 DEF LoopInv, SummaryMatchesItems
    <2>5. counts["failed"] > 0 <=> ItemsCounted("failed") # {}
      BY <2>3, <2>4, FS_EmptySet, FS_CardinalityType
    <2> QED
      BY <2>2, <2>5
  <1>2. anyInsufficientPermission <=>
          \E i \in DOMAIN items : items[i].error = "InsufficientPermission"
    BY DEF LoopInv, SummaryMatchesItems
  <1>3. (interrupted /\ remaining > 0) <=> Len(items) # selected
    BY DEF LoopInv, SummaryMatchesItems, Settlement, TypeOK, selected
  <1>4. \A i \in DOMAIN items :
          items[i].error = "InsufficientPermission" => items[i].disposition = "Failed"
    BY DEF LoopInv, TypeOK, RepairItemResult
  <1> QED
    BY <1>1, <1>2, <1>3, <1>4 DEF ExitCodeIsHonest, exitCodeFor

\* Whatever fails, is declined or is interrupted, and in any order, the exit
\* code tells of a permission failure first, and of success only if every
\* candidate was reached and none failed.
THEOREM ExitCodeCorrect == Spec => []ExitCodeIsHonest
  BY HonestExit, BatchCorrect, PTL DEF BatchInv

\* Once the handler has set the flag, no batch goes past the item at hand.
THEOREM InterruptCorrect == Spec => []StopsAfterCurrentItem
  <1>1. BatchInv => StopsAfterCurrentItem
    BY DEF BatchInv, Notice, StopsAfterCurrentItem
  <1> QED
    BY <1>1, BatchCorrect, PTL DEF BatchInv

-------------------------------------------------------------------------------
(***************************************************************************)
(* What is changed on disk.  A position may be in mutated once its repair  *)
(* has begun, and its item is recorded after that: the two promises need   *)
(* to know what stage and answer say of the repair under way, and that it  *)
(* was approved when it began.                                             *)
(***************************************************************************)
ApprovedAt(i) == \/ options.consent = "assumeYes"
                 \/ i \in consented
                 \/ candidates[i].status \in {"Ok", "Mismatch"}

\* What a repairLink() call answers goes with what it has done.
AnswerFitsStage ==
  /\ answer \in {"Created", "ReplacedBroken"} => stage # "untouched"
  /\ answer \in Outcome \ {"Created", "ReplacedBroken"} => stage = "untouched"

MutationInv ==
  /\ mutated \subseteq 1 .. index
  /\ pc \in {"poll", "consent", "returned"} => index \notin mutated
  /\ pc = "repair" =>
       /\ index \in mutated <=> stage # "untouched"
       /\ AnswerFitsStage
       /\ options.mode = "Execute" => ApprovedAt(index)
  /\ MutationsAreReported
  /\ MutationsAreApproved

LEMMA RepairStepStage ==
  ASSUME Repair!Next, AnswerFitsStage, stage \in {"untouched", "removed", "made"},
         link[candidate.alias] \in LinkStatus
  PROVE  /\ stage # "untouched" => stage' # "untouched"
         /\ stage' # stage => options.mode = "Execute" /\ stage' # "untouched"
         /\ AnswerFitsStage'
  <1>1. CASE Repair!Remove \/ Repair!Make
    BY <1>1 DEF Repair!Remove, Repair!Make, AnswerFitsStage, Outcome
  <1>2. CASE Repair!Reply
    <2>1. UNCHANGED stage /\ answer' \in Repair!Outcomes \cup Repair!Errors
      BY <1>2 DEF Repair!Reply
    <2>2. Repair!Errors \cap Outcome = {}
      BY DEF Repair!Errors, Outcome
    <2>3. stage # "untouched" => Repair!Outcomes \subseteq {"Created", "ReplacedBroken"}
      BY DEF Repair!Outcomes
    <2>4. stage = "untouched" => Repair!Outcomes \cap {"Created", "ReplacedBroken"} = {}
      BY DEF Repair!Outcomes, LinkStatus
    <2>5. {"Created", "ReplacedBroken"} \subseteq Outcome
      BY DEF Outcome
    <2> QED
      BY <2>1, <2>2, <2>3, <2>4, <2>5 DEF AnswerFitsStage
  <1> QED
    BY <1>1, <1>2 DEF Repair!Next

LEMMA FreshMutation == Fresh => MutationInv
  BY DEF Fresh, MutationInv, MutationsAreReported, MutationsAreApproved

\* The item at hand is recorded as what was done.
LEMMA RecordMutation ==
  ASSUME LoopInv, MutationInv, pc \in {"poll", "consent", "repair"},
         NEW item \in RepairItemResult, Record(item), UNCHANGED <<given, history>>,
         index \in mutated => item.disposition \in {"Created", "ReplacedBroken", "Failed"},
         item.disposition \in {"Created", "ReplacedBroken"} => index \in mutated
  PROVE  MutationInv'
  <1>1. /\ index \in Nat \ {0} /\ DOMAIN items = 1 .. index - 1
        /\ DOMAIN items' = 1 .. index
        /\ \A i \in 1 .. index - 1 : items'[i] = items[i]
        /\ items'[index] = item
    <2>1. /\ items \in Seq(RepairItemResult) /\ Len(items) = index - 1 /\ index \in Nat \ {0}
          /\ items' = Append(items, item)
      BY DEF LoopInv, TypeOK, SummaryMatchesItems, Record, selected
    <2> QED
      BY <2>1
  <1>2. pc' = "poll" /\ index' = index + 1 /\ UNCHANGED <<options, candidates, consented, mutated>>
    BY DEF Record, given, history
  <1>3. mutated \subseteq 1 .. index
    BY DEF MutationInv
  <1>4. MutationsAreReported'
    BY <1>1, <1>2, <1>3 DEF MutationInv, MutationsAreReported
  <1>5. MutationsAreApproved'
    <2>1. \A i \in DOMAIN items' : items'[i].disposition = "Declined" => i \notin mutated
      BY <1>1 DEF MutationInv, MutationsAreApproved
    <2> QED
      BY <1>2, <2>1 DEF MutationInv, MutationsAreApproved
  <1> QED
    BY <1>1, <1>2, <1>3, <1>4, <1>5 DEF MutationInv

\* The repair of the item at hand begins, with an approval if it needs one.
LEMMA CallRepairMutation ==
  ASSUME LoopInv, MutationInv, pc \in {"poll", "consent"},
         CallRepair, UNCHANGED <<given, index, items, mutated>>,
         consented \subseteq consented',
         options.mode = "Execute" => ApprovedAt(index)'
  PROVE  MutationInv'
  <1>1. /\ pc' = "repair" /\ stage' = "untouched" /\ answer' = "none"
        /\ UNCHANGED <<options, candidates>>
    BY DEF CallRepair, given
  <1>2. AnswerFitsStage'
    BY <1>1 DEF AnswerFitsStage, Outcome
  <1>3. MutationsAreReported' /\ MutationsAreApproved'
    BY <1>1 DEF MutationInv, MutationsAreReported, MutationsAreApproved
  <1> QED
    BY <1>1, <1>2, <1>3 DEF MutationInv

\* Steps that neither record nor repair.
LEMMA IdleMutation ==
  ASSUME LoopInv, MutationInv, UNCHANGED <<given, index, items, call, history>>,
         \/ pc' = pc
         \/ pc \in {"poll", "consent"} /\ pc' \in {"consent", "returned"}
         \/ pc' = "aborted"
  PROVE  MutationInv'
  <1>1. UNCHANGED <<options, candidates, index, items, stage, answer, consented, mutated>>
    BY DEF given, call, history
  <1>2. MutationsAreApproved'
    BY <1>1 DEF MutationInv, MutationsAreApproved
  <1>3. MutationsAreReported'
    <2>1. DOMAIN items = 1 .. index - 1 /\ index \in Nat
      <3>1. items \in Seq(RepairItemResult) /\ Len(items) = index - 1 /\ index \in Nat
        BY DEF LoopInv, TypeOK, SummaryMatchesItems, selected
      <3> QED
        BY <3>1
    <2>2. pc' = "returned" => mutated \subseteq DOMAIN items
      BY <2>1 DEF MutationInv
    <2> QED
      BY <1>1, <2>2 DEF MutationInv, MutationsAreReported
  <1> QED
    BY <1>1, <1>2, <1>3 DEF MutationInv, AnswerFitsStage, ApprovedAt

LEMMA StepMutation ==
  ASSUME LoopInv, MutationInv, [Next]_vars PROVE MutationInv'
  <1>1. CASE Complete \/ Interrupt
    BY <1>1, IdleMutation DEF Complete, Interrupt, Return
  <1>2. CASE Begin
    <2>1. pc = "poll" /\ UNCHANGED given
      BY <1>2 DEF Begin
    <2>2. index \notin mutated
      BY <2>1 DEF MutationInv
    <2>3. CASE ~MustAsk /\ CallRepair /\ UNCHANGED <<index, result, history>>
      <3>1. candidate \in Candidate /\ options \in RepairBatchOptions
        BY <1>2 DEF Begin, LoopInv, TypeOK, candidate, selected
      <3>2. options.mode = "Execute" => ApprovedAt(index)
        BY <2>3, <3>1
           DEF MustAsk, needsConsent, ApprovedAt, candidate, Candidate, LinkStatus
      <3>3. UNCHANGED ApprovedAt(index)
        BY <2>1, <2>3 DEF ApprovedAt, given, history
      <3> QED
        BY <2>1, <2>3, <3>2, <3>3, CallRepairMutation DEF result, history
    <2>4. CASE /\ CallRepair /\ consented' = consented \cup {index}
               /\ UNCHANGED <<index, result, mutated>>
      <3>1. ApprovedAt(index)'
        BY <2>4 DEF ApprovedAt
      <3> QED
        BY <2>1, <2>4, <3>1, CallRepairMutation DEF result
    <2>5. CASE Record(Declined) /\ UNCHANGED <<call, history>>
      BY <2>1, <2>2, <2>5, DeclinedType, RecordMutation DEF Declined
    <2>6. CASE pc' = "consent" /\ UNCHANGED <<index, call, result, history>>
      BY <2>1, <2>6, IdleMutation DEF result
    <2> QED
      BY <1>2, <2>3, <2>4, <2>5, <2>6 DEF Begin
  <1>3. CASE Consent
    <2>1. pc = "consent" /\ UNCHANGED given
      BY <1>3 DEF Consent
    <2>2. index \notin mutated
      BY <2>1 DEF MutationInv
    <2>3. CASE /\ CallRepair /\ consented' = consented \cup {index}
               /\ UNCHANGED <<index, result, mutated>>
      <3>1. ApprovedAt(index)'
        BY <2>3 DEF ApprovedAt
      <3> QED
        BY <2>1, <2>3, <3>1, CallRepairMutation DEF result
    <2>4. CASE Record(Declined) /\ UNCHANGED <<call, history>>
      BY <2>1, <2>2, <2>4, DeclinedType, RecordMutation DEF Declined
    <2> QED
      BY <1>3, <2>3, <2>4 DEF Consent
  <1>4. CASE RepairStep
    <2>1. /\ pc = "repair" /\ pc' = "repair" /\ Repair!Next
          /\ mutated' = IF stage' # stage THEN mutated \cup {index} ELSE mutated
          /\ UNCHANGED <<options, candidates, index, items, consented>>
      BY <1>4 DEF RepairStep, given, result
    <2>2. /\ index \in mutated <=> stage # "untouched"
          /\ AnswerFitsStage
          /\ options.mode = "Execute" => ApprovedAt(index)
      BY <2>1 DEF MutationInv
    <2>3. /\ stage # "untouched" => stage' # "untouched"
          /\ stage' # stage => options.mode = "Execute" /\ stage' # "untouched"
          /\ AnswerFitsStage'
      <3>1. link[candidate.alias] \in LinkStatus
        <4>1. index \in 1 .. Len(candidates) /\ candidates \in Seq(Candidate)
          BY <2>1 DEF LoopInv, TypeOK, selected
        <4>2. candidates[index] \in Candidate
          BY <4>1
        <4>3. candidates[index].alias \in Links
          BY <4>2 DEF Candidate
        <4>4. link \in [Links -> LinkStatus]
          BY DEF LoopInv, TypeOK
        <4> QED
          BY <4>3, <4>4 DEF candidate
      <3>2. stage \in {"untouched", "removed", "made"}
        BY DEF LoopInv, TypeOK
      <3> QED
        BY <2>1, <2>2, <3>1, <3>2, RepairStepStage
    <2>4. index \in mutated' <=> stage' # "untouched"
      BY <2>1, <2>2, <2>3
    <2>5. /\ DOMAIN items = 1 .. index - 1 /\ index \in Nat \ {0}
      <3>1. items \in Seq(RepairItemResult) /\ Len(items) = index - 1 /\ index \in Nat \ {0}
        BY DEF LoopInv, TypeOK, SummaryMatchesItems, selected
      <3> QED
        BY <3>1
    <2>6. mutated' \subseteq 1 .. index
      BY <2>1, <2>5 DEF MutationInv
    <2>7. \A i \in DOMAIN items : i \in mutated' <=> i \in mutated
      BY <2>1, <2>5
    <2>8. MutationsAreReported'
      BY <2>1, <2>7 DEF MutationInv, MutationsAreReported
    <2>9. MutationsAreApproved'
      <3>1. options.mode = "DryRun" => mutated' = {}
        BY <2>1, <2>3 DEF MutationInv, MutationsAreApproved
      <3>2. \A i \in mutated' : ApprovedAt(i)
        BY <2>1, <2>2, <2>3 DEF MutationInv, MutationsAreApproved, ApprovedAt
      <3> QED
        BY <2>1, <2>7, <3>1, <3>2 DEF MutationInv, MutationsAreApproved, ApprovedAt
    <2>10. options.mode = "Execute" => ApprovedAt(index)'
      BY <2>1, <2>2 DEF ApprovedAt
    <2> QED
      BY <2>1, <2>3, <2>4, <2>6, <2>8, <2>9, <2>10 DEF MutationInv
  <1>5. CASE RepairEnds
    <2>1. /\ pc = "repair" /\ UNCHANGED <<given, call, history>>
          /\ answer \in Outcome \cup SymlinkServiceError
      BY <1>5 DEF RepairEnds
    <2>2. (index \in mutated <=> stage # "untouched") /\ AnswerFitsStage
      BY <2>1 DEF MutationInv
    <2>3. CASE answer \in Outcome
      <3> DEFINE item == [disposition |-> dispositionFor(answer), error |-> "none"]
      <3>1. item \in RepairItemResult /\ Record(item)
        BY <1>5, <2>3, ItemType DEF RepairEnds
      <3>2. item.disposition \in {"Created", "ReplacedBroken"}
              <=> answer \in {"Created", "ReplacedBroken"}
        BY <2>3 DEF dispositionFor, Outcome
      <3> HIDE DEF item
      <3> QED
        BY <2>1, <2>2, <2>3, <3>1, <3>2, RecordMutation DEF AnswerFitsStage
    <2>4. CASE answer \notin Outcome
      <3> DEFINE item == [disposition |-> "Failed", error |-> answer]
      <3>1. item \in RepairItemResult /\ Record(item)
        BY <1>5, <2>1, <2>4, ItemType DEF RepairEnds
      <3>2. item.disposition = "Failed"
        OBVIOUS
      <3> HIDE DEF item
      <3> QED
        BY <2>1, <3>1, <3>2, RecordMutation
    <2> QED
      BY <2>3, <2>4
  <1>6. CASE RepairThrows
    BY <1>6, IdleMutation DEF RepairThrows, result
  <1>7. CASE CtrlC \/ Interfere
    BY <1>7, IdleMutation DEF CtrlC, Interfere, result
  <1>8. CASE UNCHANGED vars
    BY <1>8, IdleMutation DEF vars, result
  <1> QED
    BY <1>1, <1>2, <1>3, <1>4, <1>5, <1>6, <1>7, <1>8 DEF Next, Loop

LEMMA MutationCorrect == Spec => []MutationInv
  BY BatchCorrect, FreshMutation, StepMutation, PTL DEF BatchInv, Spec, Init

\* For batches of any length: no link offered as Missing or Broken is changed
\* without --yes, a checked row or a yes at the prompt, none in a dry run, and
\* none that was declined.
THEOREM ApprovalCorrect == Spec => []MutationsAreApproved
  BY MutationCorrect, PTL DEF MutationInv

\* Whatever fails in between, what a batch that returns has changed is what it
\* reports, and it reports no change that it has not made.
THEOREM ReportCorrect == Spec => []MutationsAreReported
  BY MutationCorrect, PTL DEF MutationInv
===============================================================================
