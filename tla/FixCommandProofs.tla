---------------------------- MODULE FixCommandProofs ----------------------------
(***************************************************************************)
(* What a whole process promises, for any command line, inventory and      *)
(* batch, any Ctrl+C and any interference: links of colliding aliases are  *)
(* left alone, the exit code and the notice say what happened, nothing is  *)
(* changed without consent, a prompt is answered by the line typed for it, *)
(* and JSON output is not mixed with text.                                 *)
(*                                                                         *)
(* The inductive invariant FixInv says in which phases which part of the   *)
(* state is settled, and takes from RepairBatchProofs what the batch keeps. *)
(***************************************************************************)
EXTENDS FixCommand, RepairBatchProofs, TextProofs
LOCAL INSTANCE SequencesExt

\* An item of the scan as the batch takes it.
AsCandidate(item) == [alias |-> item.alias, status |-> item.status]

\* The candidates the batch is given: items of the scan, of aliases that do not
\* collide.
Offerable == {cs \in Seq(Candidate) : \A i \in DOMAIN cs : cs[i].alias \notin Collisions}

LEMMA OfferableAppend ==
  ASSUME NEW cs \in Offerable, NEW item \in RepairItem, item.alias \notin Collisions
  PROVE  Append(cs, AsCandidate(item)) \in Offerable
  <1> DEFINE c == AsCandidate(item)
  <1>1. c \in Candidate /\ c.alias \notin Collisions
    BY DEF AsCandidate, Candidate, RepairItem
  <1> HIDE DEF c
  <1>2. cs \in Seq(Candidate) /\ \A i \in DOMAIN cs : cs[i].alias \notin Collisions
    BY DEF Offerable
  <1>3. Append(cs, c) \in Seq(Candidate)
    BY <1>1, <1>2
  <1>4. \A i \in DOMAIN Append(cs, c) : Append(cs, c)[i].alias \notin Collisions
    BY <1>1, <1>2
  <1> QED
    BY <1>3, <1>4 DEF Offerable, c

\* Whatever the scan found, what is left of it once the colliding aliases are
\* taken out is a list of candidates without them.
LEMMA NonCollisionItemsType ==
  ASSUME allItems \in Seq(RepairItem)
  PROVE  NonCollisionItems \in Offerable
  <1> DEFINE N == Len(allItems)
             Body(f, n) == IF n = 0 THEN << >>
                           ELSE IF allItems[n].alias \in Collisions THEN f[n - 1]
                           ELSE Append(f[n - 1], [alias  |-> allItems[n].alias,
                                                  status |-> allItems[n].status])
             kept == CHOOSE f : f = [n \in 0 .. N |-> Body(f, n)]
             step == [n \in 1 .. N |-> [cs \in Offerable |->
                        IF allItems[n].alias \in Collisions THEN cs
                        ELSE Append(cs, [alias  |-> allItems[n].alias,
                                         status |-> allItems[n].status])]]
  <1>1. N \in Nat /\ \A n \in 1 .. N : allItems[n] \in RepairItem
    OBVIOUS
  <1>2. << >> \in Offerable
    BY DEF Offerable
  <1>3. \A n \in 1 .. N, cs \in Offerable :
          allItems[n].alias \notin Collisions =>
            Append(cs, [alias |-> allItems[n].alias, status |-> allItems[n].status]) \in Offerable
    BY <1>1, OfferableAppend DEF AsCandidate
  <1>4. IsLoop(step, N, Offerable)
    BY <1>3 DEF IsLoop
  <1>5. \A n \in 1 .. N, cs \in Offerable :
          step[n][cs] = IF allItems[n].alias \in Collisions THEN cs
                        ELSE Append(cs, [alias  |-> allItems[n].alias,
                                         status |-> allItems[n].status])
    OBVIOUS
  <1>6. NonCollisionItems = kept[N]
    BY DEF NonCollisionItems
  <1> HIDE DEF step, N
  <1>7. PICK f : ValuesOfLoop(f, step, N, Offerable, << >>)
    BY <1>1, <1>2, <1>4, LoopExists
  <1>8. f = [n \in 0 .. N |-> Body(f, n)]
    <2>1. /\ f \in [0 .. N -> Offerable] /\ f[0] = << >>
          /\ \A n \in 1 .. N : f[n] = step[n][f[n - 1]]
      BY <1>7 DEF ValuesOfLoop
    <2>2. ASSUME NEW n \in 1 .. N PROVE f[n] = Body(f, n)
      <3>1. n - 1 \in 0 .. N /\ n # 0
        BY <1>1
      <3>2. f[n - 1] \in Offerable
        BY <2>1, <3>1
      <3> QED
        BY <1>5, <2>1, <3>1, <3>2
    <2>3. f[0] = Body(f, 0)
      BY <2>1
    <2>4. \A n \in 0 .. N : f[n] = Body(f, n)
      <3> HIDE DEF Body
      <3> QED
        BY <1>1, <2>2, <2>3
    <2> HIDE DEF Body
    <2> QED
      BY <2>1, <2>4
  <1>9. kept = [n \in 0 .. N |-> Body(kept, n)]
    <2> HIDE DEF Body
    <2> QED
      BY <1>8
  <1> HIDE DEF kept
  <1>10. \A n \in 0 .. N : kept[n] \in Offerable
    <2> DEFINE S == {n \in 0 .. N : kept[n] \in Offerable}
    <2>1. \A n \in 0 .. N : kept[n] = Body(kept, n)
      BY <1>9
    <2>2. 0 \in S
      <3>1. 0 \in 0 .. N /\ kept[0] = Body(kept, 0)
        <4> HIDE DEF Body
        <4> QED
          BY <1>1, <2>1
      <3>2. kept[0] = << >>
        BY <3>1
      <3> QED
        BY <1>2, <3>1, <3>2
    <2>3. ASSUME NEW n \in 0 .. N, n \in S, n < N PROVE n + 1 \in S
      <3>1. n + 1 \in 1 .. N /\ n + 1 \in 0 .. N /\ n + 1 # 0 /\ (n + 1) - 1 = n
        BY <1>1, <2>3
      <3>2. kept[n + 1] = IF allItems[n + 1].alias \in Collisions THEN kept[n]
                          ELSE Append(kept[n], [alias  |-> allItems[n + 1].alias,
                                                status |-> allItems[n + 1].status])
        BY <2>1, <3>1
      <3> QED
        BY <1>3, <2>3, <3>1, <3>2
    <2> HIDE DEF S
    <2>4. \A n \in 0 .. N : n \in S
      BY <1>1, <2>2, <2>3, BoundedInduction
    <2> QED
      BY <2>4 DEF S
  <1> QED
    BY <1>1, <1>6, <1>10

-------------------------------------------------------------------------------
(***************************************************************************)
(* The command line.  Whatever its tokens are, options that conflict are   *)
(* not accepted, so the command runs without them.                         *)
(***************************************************************************)
AppOptions(opts) ==
  opts = [command      |-> opts.command,      source   |-> opts.source,
              logLevel     |-> opts.logLevel,     paths    |-> opts.paths,
              patterns     |-> opts.patterns,
              testRuleName |-> opts.testRuleName, flags    |-> opts.flags]

\* Options the program may be asked to run with.
Permitted(opts) == \/ opts.command \in {"Help", "Version"}
                       \/ ~Conflicting(opts.command, opts.flags)

ParserInv == /\ AppOptions(parsed)
             /\ parseOutcome = "accepted" => Permitted(parsed)

LEMMA DefaultsPermitted == AppOptions(DefaultOptions) /\ Permitted(DefaultOptions)
  BY DEF AppOptions, Permitted, DefaultOptions, Conflicting

LEMMA StepParser == ASSUME ParserInv, ParseStep PROVE ParserInv'
  <1>1. CASE Terminator \/ Positional
    BY <1>1 DEF Terminator, Positional, ParserInv
  <1>2. CASE GlobalFlag
    <2>1. PICK c \in DOMAIN GlobalFlags : parsed' = [parsed EXCEPT !.command = c]
      BY <1>2 DEF GlobalFlag
    <2>2. c \in {"Help", "Version"}
      BY DEF GlobalFlags
    <2> QED
      BY <2>1, <2>2 DEF ParserInv, AppOptions, Permitted
  <1>3. CASE FlagOption \/ LevelOption
    BY <1>3 DEF FlagOption, LevelOption, Reading, ParserInv, AppOptions
  <1>4. CASE MissingValue \/ UnknownOption \/ UnknownCommand
    BY <1>4 DEF MissingValue, UnknownOption, UnknownCommand, throwError, ParserInv
  <1>5. CASE SourceOption \/ PathOption \/ PatternOption
    BY <1>5 DEF SourceOption, PathOption, PatternOption, TakesValue, Reading, Accept,
                throwError, ParserInv, AppOptions
  <1>6. CASE Conclude
    <2>1. PICK c \in DOMAIN Commands :
            IF PositionalError(c) # "none" THEN throwError(PositionalError(c))
            ELSE IF Conflicting(c, parsed.flags) THEN throwError("ConflictingOptions")
            ELSE /\ parsed' = [parsed EXCEPT !.command = c,
                                 !.testRuleName = IF c = "TestRule" THEN positionals[2] ELSE @]
                 /\ parseOutcome' = "accepted"
                 /\ UNCHANGED argIndex
      BY <1>6 DEF Conclude
    <2>2. CASE throwError(PositionalError(c)) /\ PositionalError(c) # "none"
      BY <2>2 DEF throwError, ParserInv, PositionalError
    <2>3. CASE throwError("ConflictingOptions")
      BY <2>3 DEF throwError, ParserInv
    <2>4. CASE /\ ~Conflicting(c, parsed.flags)
               /\ parsed' = [parsed EXCEPT !.command = c,
                               !.testRuleName = IF c = "TestRule" THEN positionals[2] ELSE @]
      <3>1. parsed'.command = c /\ parsed'.flags = parsed.flags /\ AppOptions(parsed')
        BY <2>4 DEF ParserInv, AppOptions
      <3> QED
        BY <2>4, <3>1 DEF ParserInv, Permitted
    <2> QED
      BY <2>1, <2>2, <2>3, <2>4
  <1> QED
    BY <1>1, <1>2, <1>3, <1>4, <1>5, <1>6 DEF ParseStep

-------------------------------------------------------------------------------
(***************************************************************************)
(* The batch.  What RepairBatchProofs proves of a step of the batch holds  *)
(* of the steps of the command, but for the three that prepare the batch:  *)
(* those are taken before it has done anything.  Notice is not among what  *)
(* holds: Reset forgets a Ctrl+C.                                          *)
(***************************************************************************)
LEMMA BatchSteps ==
  [FixNext]_fixVars => [Next]_vars \/ Offer \/ Checklist \/ Reset
  BY DEF FixNext, fixVars, Program, User, Start, Parse, Parsed, TestRule, Enumerate, Inspect,
         Scanned, Register, Batch, Finish, Catch, Elevated, Gate, Prompted, HandledCtrlC,
         DefaultCtrlC, OtherProcess, Next

\* Who is asked is asked because the options say so, and what the checklist
\* stands for is what was checked in it.
ConsentFits ==
  /\ pc = "consent" => options.consent = "ask"
  /\ options.consent = "preApproved" =>
       \A i \in consented : candidates[i].alias \in options.approved

LEMMA StepConsent == ASSUME ConsentFits, [Next]_vars PROVE ConsentFits'
  <1>1. CASE Complete \/ Interrupt
    BY <1>1 DEF Complete, Interrupt, Return, given, history, ConsentFits
  <1>2. CASE Begin
    BY <1>2 DEF Begin, CallRepair, Record, given, history, candidate, ConsentFits
  <1>3. CASE Consent
    BY <1>3 DEF Consent, CallRepair, Record, given, history, ConsentFits
  <1>4. CASE RepairStep
    BY <1>4 DEF RepairStep, given, ConsentFits
  <1>5. CASE RepairEnds \/ RepairThrows
    BY <1>5 DEF RepairEnds, RepairThrows, Record, given, history, ConsentFits
  <1>6. CASE CtrlC \/ Interfere
    BY <1>6 DEF CtrlC, Interfere, given, history, ConsentFits
  <1>7. CASE UNCHANGED vars
    BY <1>7 DEF vars, given, history, ConsentFits
  <1> QED
    BY <1>1, <1>2, <1>3, <1>4, <1>5, <1>6, <1>7 DEF Next, Loop

-------------------------------------------------------------------------------
(***************************************************************************)
(* How far the process has come, and what is settled by then.              *)
(***************************************************************************)
Unset    == [mode |-> "Execute", consent |-> "ask", approved |-> {}]
Early    == {"start", "parse", "gate", "testRule", "enumerate", "inspect", "elevated"}
Offering == {"checklist", "register", "reset"}

\* The checklist has been shown or not, and was not cancelled.
Undecided == /\ app.command = "Fix"
             /\ options.mode = "Execute"
             /\ \/ tui = "NotRun"    /\ options.consent = "ask"
                \/ tui = "Confirmed" /\ options.consent = "preApproved"

\* The options the command line and the checklist arrive at.
Configured ==
  /\ app.command = "Fix"
  /\ options.mode = IF Wants("dryRun") THEN "DryRun" ELSE "Execute"
  /\ \/ tui \in {"NotRun", "Confirmed"} /\ Wants("assumeYes") /\ options.consent = "assumeYes"
     \/ tui = "NotRun"    /\ ~Wants("assumeYes") /\ options.consent = "ask"
     \/ tui = "Confirmed" /\ ~Wants("assumeYes") /\ options.consent = "preApproved"

PhaseInv ==
  /\ phase \in Early \cup Offering \cup {"batch", "exited"}
  /\ phase \notin {"batch", "exited"} => Fresh
  /\ phase \in Early => candidates = << >> /\ options = Unset /\ tui = "NotRun"
  /\ phase \in Early \ {"inspect"} => position = 1
  /\ phase \in Offering => Undecided
  /\ phase = "checklist" => tui = "NotRun" /\ Wants("useTui")
  /\ phase = "testRule" => app.command = "TestRule"
  /\ phase = "batch" \/ ~Fresh => Configured
  /\ exit = "running" <=> phase \notin {"elevated", "exited"}
  /\ phase = "elevated" => exit = "Relaunched"

LEMMA FreshUnchanged == UNCHANGED <<pc, index, call, result, history>> => (Fresh' <=> Fresh)
  BY DEF Fresh, call, result, history

LEMMA StepPhase ==
  ASSUME PhaseInv, options \in RepairBatchOptions, [FixNext]_fixVars
  PROVE  PhaseInv'
  <1> USE DEF Wants
  <1>1. UNCHANGED vars => UNCHANGED <<candidates, options, pc>> /\ (Fresh' <=> Fresh)
    BY FreshUnchanged DEF vars, given
  <1>2. CASE Start
    BY <1>1, <1>2 DEF Start, Enter, Exit, PhaseInv, Early, Offering, Undecided, Configured
  <1>3. CASE Parse
    BY <1>1, <1>3 DEF Parse, command, PhaseInv, Undecided, Configured
  <1>4. CASE Parsed
    BY <1>1, <1>4 DEF Parsed, Enter, Exit, PhaseInv, Early, Offering, Undecided, Configured
  <1>5. CASE Gate
    BY <1>1, <1>5 DEF Gate, WithoutElevation, Proceed, Leave, Elevate, Enter, Exit, DefaultOptions,
                      PhaseInv, Early, Offering, Undecided, Configured
  <1>6. CASE TestRule \/ Scanned
    BY <1>1, <1>6 DEF TestRule, Scanned, Exit, PhaseInv, Early, Offering, Undecided, Configured
  <1>7. CASE Enumerate \/ Inspect
    BY <1>1, <1>7 DEF Enumerate, Inspect, Enter, Exit, PhaseInv, Early, Offering, Undecided,
                      Configured
  <1>8. CASE Offer
    <2>1. Fresh' <=> Fresh
      BY <1>8, FreshUnchanged DEF Offer
    <2> QED
      BY <1>8, <2>1 DEF Offer, Enter, PhaseInv, Early, Offering, Undecided, Unset
  <1>9. CASE Checklist
    <2>1. (Fresh' <=> Fresh) /\ Fresh
      BY <1>9, FreshUnchanged DEF Checklist, PhaseInv
    <2> QED
      BY <1>9, <2>1 DEF Checklist, Enter, Exit, PhaseInv, Early, Offering, Undecided,
                        RepairBatchOptions
  <1>10. CASE Register
    BY <1>1, <1>10 DEF Register, Enter, PhaseInv, Early, Offering, Undecided, Configured
  <1>11. CASE Reset
    <2>1. (Fresh' <=> Fresh) /\ Fresh
      BY <1>11, FreshUnchanged DEF Reset, PhaseInv, Offering
    <2> QED
      BY <1>11, <2>1 DEF Reset, Enter, PhaseInv, Early, Offering, Undecided, Configured,
                         RepairBatchOptions
  <1>12. CASE Batch \/ Prompted
    <2>1. phase = "batch" /\ UNCHANGED command
      BY <1>12 DEF Batch, Prompted
    <2>2. UNCHANGED given
      BY <1>12 DEF Batch, Prompted, Loop, Complete, Interrupt, Begin, RepairStep, RepairEnds,
                   RepairThrows, Consent
    <2> QED
      BY <2>1, <2>2 DEF command, given, PhaseInv, Early, Offering, Configured
  <1>13. CASE Finish \/ Catch \/ DefaultCtrlC \/ Elevated
    BY <1>1, <1>13 DEF Finish, Catch, DefaultCtrlC, Elevated, Exit, PhaseInv, Early, Offering,
                       Undecided, Configured, exitCodeFor
  <1>14. CASE HandledCtrlC \/ OtherProcess
    <2>1. UNCHANGED <<command, given, pc, index, call, result, history>>
      BY <1>14 DEF HandledCtrlC, OtherProcess, CtrlC, Interfere
    <2>2. Fresh' <=> Fresh
      BY <2>1, FreshUnchanged
    <2> QED
      BY <2>1, <2>2 DEF command, given, PhaseInv, Undecided, Configured
  <1>15. CASE UNCHANGED fixVars
    BY <1>1, <1>15 DEF fixVars, command, PhaseInv, Undecided, Configured
  <1> QED
    BY <1>2, <1>3, <1>4, <1>5, <1>6, <1>7, <1>8, <1>9, <1>10, <1>11, <1>12, <1>13, <1>14, <1>15
       DEF FixNext, Program, User

-------------------------------------------------------------------------------
(***************************************************************************)
(* What the batch is offered.                                              *)
(***************************************************************************)
ListsOK == /\ allItems \in Seq(RepairItem)
           /\ inventory \in Seq(Executables)
           /\ position \in 1 .. Len(inventory) + 1

OfferInv == /\ candidates \in Offerable
            /\ options.approved \subseteq Approvable(candidates)

LEMMA StepLists ==
  ASSUME ListsOK, PhaseInv, link \in [Links -> LinkStatus], [FixNext]_fixVars
  PROVE  ListsOK'
  <1>1. CASE Enumerate
    <2>1. CASE UNCHANGED inventory
      BY <1>1, <2>1 DEF Enumerate, ListsOK
    <2>2. CASE \E n \in 0 .. MaxInventory : inventory' \in [1 .. n -> Executables]
      <3>1. PICK n \in 0 .. MaxInventory : inventory' \in [1 .. n -> Executables]
        BY <2>2
      <3>2. inventory' \in Seq(Executables)
        <4>1. n \in Nat
          BY <3>1, AliasAssumption
        <4> QED
          BY <3>1, <4>1
      <3>3. position' = 1 /\ UNCHANGED allItems
        BY <1>1 DEF Enumerate, PhaseInv, Early
      <3>4. position' \in 1 .. Len(inventory') + 1
        BY <3>2, <3>3
      <3> QED
        BY <3>2, <3>3, <3>4 DEF ListsOK
    <2> QED
      BY <1>1, <2>1, <2>2 DEF Enumerate
  <1>2. CASE Inspect
    <2>1. inventory[position] \in Executables /\ position \in 1 .. Len(inventory)
      BY <1>2 DEF Inspect, ListsOK
    <2> DEFINE alias == AliasOf[inventory[position]]
               item  == [executable |-> inventory[position], alias |-> alias,
                         status |-> link[alias]]
    <2>2. /\ UNCHANGED inventory
          /\ \/ UNCHANGED allItems /\ position' \in {position, position + 1}
             \/ /\ alias # NoAlias
                /\ allItems' = Append(allItems, item)
                /\ position' = position + 1
      <3> HIDE DEF item
      <3> QED
        BY <1>2 DEF Inspect, item
    <2>3. alias # NoAlias => item \in RepairItem
      BY <2>1, AliasAssumption DEF RepairItem
    <2> HIDE DEF item, alias
    <2> QED
      BY <2>1, <2>2, <2>3, SMTT(30) DEF ListsOK
  <1>3. CASE Scanned \/ Offer
    <2>1. UNCHANGED allItems /\ inventory' = << >> /\ position' = 1
      BY <1>3 DEF Scanned, Offer, Inspected
    <2>2. inventory' \in Seq(Executables) /\ Len(inventory') = 0
      BY <2>1
    <2> QED
      BY <2>1, <2>2 DEF ListsOK
  <1>4. CASE UNCHANGED <<allItems, inventory, position>>
    BY <1>4 DEF ListsOK
  <1> QED
    BY <1>1, <1>2, <1>3, <1>4
       DEF FixNext, fixVars, command, Program, User, Start, Parse, Parsed, TestRule, Register,
           Reset, Checklist, Batch, Finish, Catch, Elevated, Gate, Prompted, HandledCtrlC,
           DefaultCtrlC, OtherProcess

\* allItems grows while nothing is offered yet; what is offered then stays.
LEMMA OfferSteps ==
  ASSUME [FixNext]_fixVars
  PROVE  \/ UNCHANGED <<given, allItems>>
         \/ Inspect /\ UNCHANGED given
         \/ Offer \/ Checklist \/ Reset
  <1>1. CASE Batch \/ Prompted \/ HandledCtrlC \/ OtherProcess
    BY <1>1 DEF Batch, Loop, Complete, Interrupt, Begin, RepairStep, RepairEnds, RepairThrows,
                Prompted, Consent, HandledCtrlC, CtrlC, OtherProcess, Interfere, command
  <1>2. CASE UNCHANGED vars /\ (UNCHANGED allItems \/ Inspect)
    BY <1>2 DEF vars
  <1> QED
    BY <1>1, <1>2
       DEF FixNext, fixVars, command, Program, User, Start, Parse, Parsed, TestRule, Enumerate,
           Inspect, Scanned, Register, Finish, Catch, Elevated, Gate, DefaultCtrlC

LEMMA StepOffer ==
  ASSUME OfferInv, ListsOK, PhaseInv, options \in RepairBatchOptions, [FixNext]_fixVars
  PROVE  OfferInv'
  <1>1. CASE UNCHANGED <<given, allItems>>
    BY <1>1 DEF given, OfferInv, Offerable, Collisions, Approvable
  <1>2. CASE Inspect /\ UNCHANGED given
    <2>1. candidates' = << >> /\ options'.approved = {}
      BY <1>2 DEF Inspect, given, PhaseInv, Early, Unset
    <2>2. << >> \in Offerable'
      BY DEF Offerable
    <2> QED
      BY <2>1, <2>2 DEF OfferInv
  <1>3. CASE Offer
    <2>1. NonCollisionItems \in Offerable
      BY NonCollisionItemsType DEF ListsOK
    <2>2. Offerable' = Offerable
      BY <1>3 DEF Offer, Offerable, Collisions
    <2>3. options'.approved = {}
      BY <1>3 DEF Offer, PhaseInv, Early, Unset
    <2> QED
      BY <1>3, <2>1, <2>2, <2>3 DEF Offer, OfferInv
  <1>4. CASE Checklist \/ Reset
    <2>1. UNCHANGED <<candidates, allItems>>
      BY <1>4 DEF Checklist, Reset
    <2>2. candidates' \in Offerable' /\ Approvable(candidates)' = Approvable(candidates)
      BY <2>1 DEF OfferInv, Offerable, Collisions, Approvable
    <2>3. options'.approved \subseteq Approvable(candidates)
      BY <1>4 DEF Checklist, Reset, OfferInv, RepairBatchOptions
    <2> QED
      BY <2>1, <2>2, <2>3 DEF OfferInv
  <1> QED
    BY <1>1, <1>2, <1>3, <1>4, OfferSteps

LEMMA ApprovableLinks ==
  ASSUME candidates \in Seq(Candidate) PROVE Approvable(candidates) \subseteq Links
  <1>1. \A i \in DOMAIN candidates : candidates[i] \in Candidate
    OBVIOUS
  <1> QED
    BY <1>1 DEF Approvable, Candidate

LEMMA FreshInvNext == (Fresh /\ Worldly => LoopInv /\ MutationInv)'
  BY FreshInv, FreshMutation, PTL

\* The batch's own invariants hold of the command's batch.
LEMMA StepBatch ==
  ASSUME LoopInv, MutationInv, ConsentFits, PhaseInv, ListsOK, OfferInv, [FixNext]_fixVars
  PROVE  LoopInv' /\ MutationInv' /\ ConsentFits'
  <1>1. CASE [Next]_vars
    BY <1>1, StepInv, StepMutation, StepConsent
  <1>2. CASE Offer \/ Checklist \/ Reset
    <2>1. Fresh /\ UNCHANGED <<pc, index, call, result, history>>
      BY <1>2 DEF Offer, Checklist, Reset, PhaseInv, Offering
    <2>2. Fresh'
      BY <2>1, FreshUnchanged
    <2>3. options' \in RepairBatchOptions
      <3>1. Approvable(candidates) \subseteq Links /\ options \in RepairBatchOptions
        BY ApprovableLinks DEF LoopInv, TypeOK
      <3> QED
        BY <1>2, <3>1 DEF Offer, Checklist, Reset, RepairBatchOptions
    <2>4. candidates' \in Seq(Candidate) /\ selected' \in Nat /\ selected <= selected'
      <3>1. candidates \in Seq(Candidate) /\ selected \in Nat
        BY DEF LoopInv, TypeOK, selected
      <3>2. CASE Offer
        <4>1. candidates' = NonCollisionItems /\ candidates = << >>
          BY <3>2 DEF Offer, PhaseInv, Early
        <4>2. candidates' \in Seq(Candidate)
          BY <4>1, NonCollisionItemsType DEF ListsOK, Offerable
        <4> QED
          BY <4>1, <4>2 DEF selected
      <3>3. CASE Checklist \/ Reset
        <4>1. UNCHANGED candidates
          BY <3>3 DEF Checklist, Reset
        <4> QED
          BY <3>1, <4>1 DEF selected
      <3> QED
        BY <1>2, <3>2, <3>3
    <2>5. Worldly'
      <3>1. UNCHANGED <<link, interference, noticedAt>> /\ ctrlC' \in {ctrlC, FALSE}
        BY <1>2 DEF Offer, Checklist, Reset, world
      <3>2. selected \in Nat /\ noticedAt \in 0 .. selected + 1
        BY DEF LoopInv, TypeOK, selected
      <3>3. noticedAt' \in 0 .. selected' + 1
        <4>1. \A m, n \in Nat : m <= n => \A k \in 0 .. m + 1 : k \in 0 .. n + 1
          OBVIOUS
        <4> QED
          BY <2>4, <3>1, <3>2, <4>1
      <3> QED
        BY <2>3, <2>4, <3>1, <3>3 DEF Worldly, LoopInv, TypeOK
    <2>6. ConsentFits'
      BY <2>2 DEF Fresh, ConsentFits
    <2> QED
      BY <2>2, <2>5, <2>6, FreshInvNext
  <1> QED
    BY <1>1, <1>2, BatchSteps

-------------------------------------------------------------------------------
(***************************************************************************)
(* What the process tells its caller: its exit code and its output.        *)
(***************************************************************************)
Returned(code) == pc = "returned" /\ exitCodeFor = code

ExitInv ==
  /\ exit = "Success" /\ app.command = "Fix" => tui = "Cancelled" \/ Returned("Success")
  /\ exit = "InsufficientPermission" => Fresh \/ Returned("InsufficientPermission")

LEMMA StepExit == ASSUME ExitInv, PhaseInv, [FixNext]_fixVars PROVE ExitInv'
  <1>1. UNCHANGED <<pc, result>> => \A code : Returned(code)' <=> Returned(code)
    BY DEF Returned, result, exitCodeFor
  <1>2. UNCHANGED vars => /\ Fresh' <=> Fresh
                          /\ \A code : Returned(code)' <=> Returned(code)
    BY <1>1, FreshUnchanged DEF vars
  <1>3. UNCHANGED <<exit, app, tui>> /\ UNCHANGED vars => ExitInv'
    BY <1>2 DEF ExitInv
  <1>4. exit' \in {"running", "ArgumentError", "FixNeeded", "PackageEnumerationFailed",
                   "Relaunched", "Terminated"} => ExitInv'
    BY DEF ExitInv
  <1>5. CASE UNCHANGED exit /\ exit = "running"
    BY <1>4, <1>5
  <1>6. CASE Start \/ TestRule \/ Enumerate \/ Inspect \/ Scanned \/ Catch \/ DefaultCtrlC
    <2>1. CASE exit' = "Success"
      <3>1. app'.command # "Fix"
        BY <1>6, <2>1 DEF Start, Enter, Exit, TestRule, Enumerate, Inspect, Scanned, Catch,
                          DefaultCtrlC, PhaseInv
      <3> QED
        BY <2>1, <3>1 DEF ExitInv
    <2>2. CASE exit' # "Success"
      BY <1>4, <1>6, <2>2 DEF Start, Enter, Exit, TestRule, Enumerate, Inspect, Scanned, Catch,
                              DefaultCtrlC, PhaseInv, Early, Offering
    <2> QED
      BY <2>1, <2>2
  <1>7. CASE Parsed
    BY <1>4, <1>7 DEF Parsed, Enter, Exit, PhaseInv, Early, ExitInv
  <1>8. CASE Gate
    <2>1. Fresh'
      BY <1>2, <1>8 DEF Gate, PhaseInv
    <2>2. exit' \in {"running", "Relaunched", "InsufficientPermission"}
      BY <1>8 DEF Gate, WithoutElevation, Proceed, Leave, Elevate, Enter, Exit, PhaseInv, Early
    <2> QED
      BY <2>1, <2>2 DEF ExitInv
  <1>9. CASE Checklist
    BY <1>4, <1>9 DEF Checklist, Enter, Exit, PhaseInv, Early, ExitInv
  <1>10. CASE Finish
    <2>1. PICK code : code = exitCodeFor
      OBVIOUS
    <2>2. exit' = code /\ Returned(code) /\ UNCHANGED vars
      BY <1>10, <2>1 DEF Finish, Exit, Returned
    <2>3. Returned(code)'
      BY <1>2, <2>2
    <2> QED
      BY <2>2, <2>3 DEF ExitInv
  <1>11. CASE Parse \/ Elevated
    BY <1>3, <1>11 DEF Parse, Elevated, command
  <1>12. CASE HandledCtrlC
    <2>1. UNCHANGED <<pc, index, call, result, history, exit, app, tui>>
      BY <1>12 DEF HandledCtrlC, CtrlC, command
    <2> QED
      BY <1>1, <2>1, FreshUnchanged DEF ExitInv
  <1>13. CASE UNCHANGED fixVars
    BY <1>3, <1>13 DEF fixVars, command
  <1> QED
    BY <1>5, <1>6, <1>7, <1>8, <1>9, <1>10, <1>11, <1>12, <1>13
       DEF FixNext, Program, User, Offer, Register, Reset, Batch, Prompted, OtherProcess, Enter,
           command, PhaseInv, Early, Offering

\* Only a batch that was reached with its options settled has changed anything.
LEMMA MutatedConfigured == ASSUME PhaseInv, mutated # {} PROVE Configured
  BY DEF PhaseInv, Fresh

LEMMA ExitReported ==
  ASSUME LoopInv, MutationInv, PhaseInv, ExitInv PROVE ExitCodeReports
  <1> USE DEF Wants
  <1>1. ASSUME exit = "Success", app.command = "Fix", tui # "Cancelled"
        PROVE  Len(items) = selected /\ \A i \in DOMAIN items : items[i].disposition # "Failed"
    BY <1>1, HonestExit DEF ExitInv, Returned, ExitCodeIsHonest
  <1>2. ASSUME exit = "InsufficientPermission"
        PROVE  \/ mutated = {} /\ items = << >>
               \/ \E i \in DOMAIN items : items[i].error = "InsufficientPermission"
    BY <1>2, HonestExit DEF ExitInv, Returned, ExitCodeIsHonest, Fresh
  <1>3. ASSUME tui = "Cancelled" \/ app.command = "Scan" \/ Wants("dryRun") PROVE mutated = {}
    BY <1>3, MutatedConfigured DEF Configured, MutationInv, MutationsAreApproved
  <1> QED
    BY <1>1, <1>2, <1>3 DEF ExitCodeReports

\* A batch without --yes takes its consent from where the options say.
LEMMA ConsentGiven ==
  ASSUME LoopInv, MutationInv, ConsentFits, PhaseInv PROVE CommandConsent
  <1> SUFFICES ASSUME NEW i \in mutated, candidates[i].status \in {"Missing", "Broken"},
                      ~Wants("assumeYes")
               PROVE  \/ tui = "Confirmed" /\ candidates[i].alias \in options.approved
                      \/ tui = "NotRun" /\ i \in consented
    BY DEF CommandConsent
  <1>1. Configured
    BY MutatedConfigured
  <1>2. ApprovedAt(i)
    BY DEF MutationInv, MutationsAreApproved, ApprovedAt
  <1>3. i \in consented
    BY <1>1, <1>2 DEF Configured, ApprovedAt
  <1> QED
    BY <1>1, <1>3 DEF Configured, ConsentFits

LEMMA NoneCollides ==
  ASSUME LoopInv, OfferInv PROVE CollisionsUntouched
  <1>1. /\ \A i \in DOMAIN candidates : candidates[i].alias \notin Collisions
        /\ candidates \in Seq(Candidate)
    BY DEF OfferInv, Offerable
  <1>2. mutated \subseteq DOMAIN candidates
    BY <1>1 DEF LoopInv, TypeOK, selected
  <1>3. Approvable(candidates) \cap Collisions = {}
    BY <1>1 DEF Approvable
  <1> QED
    BY <1>1, <1>2, <1>3 DEF OfferInv, CollisionsUntouched

\* The options that a JSON document rules out are not there, nor is what they
\* would write; a result is written before the process exits with it.
OutputInv ==
  /\ ParserInv
  /\ AppOptions(app) /\ Permitted(app)
  /\ phase \in {"start", "parse"} => printed = {}
  /\ JsonPure

\* With --json a fix runs with --yes and without the checklist.
LEMMA JsonOptions ==
  ASSUME Permitted(app), Wants("jsonOutput"), app.command = "Fix"
  PROVE  Wants("assumeYes") /\ ~Wants("useTui")
  BY DEF Permitted, Conflicting, Wants

LEMMA StepOutput ==
  ASSUME OutputInv, PhaseInv, ConsentFits, [FixNext]_fixVars PROVE OutputInv'
  <1>1. ParserInv'
    <2>1. CASE Parse
      BY <2>1, StepParser DEF Parse, OutputInv
    <2>2. CASE Gate
      <3>1. CASE UNCHANGED parseVars
        BY <3>1 DEF parseVars, OutputInv, ParserInv, AppOptions, Permitted, Conflicting
      <3>2. CASE parsed' = DefaultOptions /\ parseOutcome' = "parsing"
        BY <3>2, DefaultsPermitted DEF ParserInv, AppOptions
      <3> QED
        BY <2>2, <3>1, <3>2 DEF Gate, WithoutElevation, Proceed, Leave, Elevate, Restart
    <2>3. CASE UNCHANGED parseVars
      BY <2>3 DEF parseVars, OutputInv, ParserInv, AppOptions, Permitted, Conflicting
    <2> QED
      BY <2>1, <2>2, <2>3
         DEF FixNext, fixVars, aside, Program, User, Start, Parsed, TestRule, Enumerate, Inspect,
             Scanned, Offer, Register, Reset, Checklist, Batch, Finish, Catch, Elevated,
             Prompted, HandledCtrlC, DefaultCtrlC, OtherProcess
  <1>2. CASE UNCHANGED <<app, printed>> /\ phase' \notin {"start", "parse"}
             /\ exit' \notin {"Success", "FixNeeded", "PartialFailure"}
    BY <1>1, <1>2 DEF OutputInv, JsonPure, Wants
  <1>3. CASE UNCHANGED <<app, printed, phase, exit>>
    BY <1>1, <1>3 DEF OutputInv, JsonPure, Wants
  <1>4. CASE Start
    BY <1>1, <1>4 DEF Start, Enter, Exit, terminal, OutputInv, JsonPure, Wants
  <1>5. CASE Parsed
    BY <1>1, <1>5 DEF Parsed, Enter, Exit, Write, OutputInv, ParserInv, PhaseInv, Early, JsonPure,
                      Wants
  <1>6. CASE Gate
    <2>1. /\ exit' \in {"running", "Relaunched", "InsufficientPermission"}
          /\ phase' \notin {"start", "parse"}
          /\ app'.command = app.command /\ app'.flags = app.flags /\ AppOptions(app')
      BY <1>6 DEF Gate, WithoutElevation, Proceed, Leave, Elevate, Enter, Exit, PhaseInv, Early,
                  OutputInv, AppOptions, DefaultOptions
    <2>2. Wants("jsonOutput") /\ app.command \in {"Scan", "Fix"} => UNCHANGED printed
      <3>1. CASE app.command = "Fix" /\ Wants("jsonOutput")
        BY <1>6, <3>1, JsonOptions DEF Gate, OutputInv, terminal
      <3>2. CASE app.command = "Scan"
        BY <1>6, <3>2 DEF Gate, terminal
      <3> QED
        BY <3>1, <3>2
    <2> QED
      BY <1>1, <2>1, <2>2 DEF OutputInv, JsonPure, Wants, Permitted, Conflicting
  <1>7. CASE TestRule
    BY <1>1, <1>7 DEF TestRule, Exit, OutputInv, JsonPure, PhaseInv, Wants
  <1>8. CASE Scanned
    BY <1>1, <1>8 DEF Scanned, Exit, Write, OutputInv, JsonPure, Wants
  <1>9. CASE Offer
    BY <1>1, <1>9 DEF Offer, Enter, Preview, Write, OutputInv, JsonPure, PhaseInv, Early, Wants
  <1>10. CASE Checklist
    <2>1. ~(Wants("jsonOutput") /\ app.command \in {"Scan", "Fix"})
      BY <1>10, JsonOptions DEF Checklist, PhaseInv, Undecided, Offering, OutputInv
    <2>2. phase' \notin {"start", "parse"} /\ UNCHANGED app
      BY <1>10 DEF Checklist, Enter, Exit
    <2> QED
      BY <1>1, <2>1, <2>2 DEF OutputInv, JsonPure, Wants
  <1>11. CASE Batch
    BY <1>1, <1>11 DEF Batch, Progress, Write, command, OutputInv, JsonPure, PhaseInv, Early,
                       Offering, Wants
  <1>12. CASE Prompted
    <2>1. Configured /\ options.consent = "ask"
      BY <1>12 DEF Prompted, Consent, PhaseInv, ConsentFits
    <2>2. ~(Wants("jsonOutput") /\ app.command \in {"Scan", "Fix"})
      BY <2>1, JsonOptions DEF Configured, OutputInv
    <2>3. phase = "batch" /\ UNCHANGED <<app, phase>>
      BY <1>12 DEF Prompted, command
    <2> QED
      BY <1>1, <2>2, <2>3 DEF OutputInv, JsonPure, Wants
  <1>13. CASE Finish
    BY <1>1, <1>13 DEF Finish, Exit, Write, OutputInv, JsonPure, Wants
  <1> QED
    BY <1>2, <1>3, <1>4, <1>5, <1>6, <1>7, <1>8, <1>9, <1>10, <1>11, <1>12, <1>13
       DEF FixNext, fixVars, aside, terminal, command, Program, User, Parse, Enumerate, Inspect,
           Register, Reset, Catch, Elevated, HandledCtrlC, DefaultCtrlC, OtherProcess, Enter, Exit,
           PhaseInv, Early, Offering

-------------------------------------------------------------------------------
(* What is left of the standard input is whole lines that nobody has read. *)

InputInv == AreLines(unasked) /\ AnswersKeepToTheirQuestions

\* A line is taken from the front of those typed and leaves the others.
LEMMA FirstLineTaken ==
  ASSUME NEW lines, lines # << >>, AreLines(lines), NEW input, input = FlattenSeq(lines)
  PROVE  /\ input \in Text /\ input # << >>
         /\ From(input, LineEnd(input) + 1) = FlattenSeq(Tail(lines))
         /\ StdinIsConsole => Last(input) = LineFeed
         /\ AreLines(Tail(lines))
  <1>1. PICK n, head, rest, others :
          /\ n = Len(lines) /\ head = Head(lines)
          /\ rest = FlattenSeq(Tail(lines)) /\ others = Tail(lines)
    OBVIOUS
  <1>2. /\ n \in Nat \ {0} /\ lines \in Seq(Text) /\ head = lines[1] /\ 1 \in DOMAIN lines
        /\ n \in DOMAIN lines
    BY <1>1 DEF AreLines
  <1>3. input = head \o rest /\ rest \in Text /\ input \in Text
    BY <1>1, <1>2, FlattenHead DEF Text
  <1>4. head \in Text /\ head # << >> /\ LineEnd(head) = Len(head)
    BY <1>2 DEF AreLines
  <1>5. Len(head) \in Nat \ {0} /\ Len(rest) \in Nat
    BY <1>3, <1>4 DEF Text
  <1>6. /\ Len(input) = Len(head) + Len(rest)
        /\ \A i \in 1 .. Len(head) : input[i] = head[i]
    BY <1>3, <1>4, <1>5, ConcatProperties DEF Text
  <1>7. /\ others \in Seq(Text) /\ Len(others) = n - 1
        /\ \A i \in 1 .. n - 1 : others[i] = lines[i + 1]
    BY <1>1, <1>2, HeadTailProperties
  <1>8. LineEnd(input) = Len(head)
    <2>1. \A i \in 1 .. Len(head) - 1 : input[i] # LineFeed
      BY <1>4, <1>5, <1>6, LineEndOf
    <2>2. CASE n = 1
      <3>1. rest = << >>
        BY <1>1, <1>7, <2>2 DEF FlattenSeq
      <3>2. Len(head) \in 1 .. Len(input) /\ Len(head) = Len(input)
        BY <1>5, <1>6, <3>1
      <3> QED
        BY <1>3, <2>1, <3>2, LineEndIs
    <2>3. CASE n # 1
      <3>1. head[Len(head)] = LineFeed
        BY <1>1, <1>2, <2>3 DEF AreLines, Last
      <3>2. Len(head) \in 1 .. Len(input) /\ input[Len(head)] = LineFeed
        BY <1>5, <1>6, <3>1
      <3> QED
        BY <1>3, <2>1, <3>2, LineEndIs
    <2> QED
      BY <2>2, <2>3
  <1>9. From(input, Len(head) + 1) = rest
    <2>1. Len(head) + 1 \in 1 .. Len(input) + 1
      BY <1>5, <1>6
    <2>2. /\ From(input, Len(head) + 1) \in Text
          /\ Len(From(input, Len(head) + 1)) = Len(rest)
          /\ \A i \in 1 .. Len(rest) : From(input, Len(head) + 1)[i] = rest[i]
      <3>1. PICK k : k = Len(head) + 1
        OBVIOUS
      <3>2. /\ From(input, k) \in Text
            /\ Len(From(input, k)) = Len(input) - k + 1
            /\ \A i \in 1 .. Len(input) - k + 1 : From(input, k)[i] = input[k - 1 + i]
        BY <1>3, <2>1, <3>1, FromIs
      <3>3. Len(input) - k + 1 = Len(rest) /\ k - 1 = Len(head)
        BY <1>5, <1>6, <3>1
      <3>4. ASSUME NEW i \in 1 .. Len(rest) PROVE input[Len(head) + i] = rest[i]
        <4>1. PICK j : j = Len(head) + i
          OBVIOUS
        <4>2. /\ j \in 1 .. Len(head) + Len(rest) /\ ~ (j <= Len(head))
              /\ j - Len(head) = i
          BY <1>5, <4>1
        <4>3. input[j] = rest[j - Len(head)]
          BY <1>3, <1>4, <4>2, ConcatProperties DEF Text
        <4> QED
          BY <4>1, <4>2, <4>3
      <3> QED
        BY <3>1, <3>2, <3>3, <3>4
    <2> QED
      BY <1>3, <2>2, SeqEqual DEF Text
  <1>10. input # << >>
    BY <1>5, <1>6
  <1>11. ASSUME StdinIsConsole PROVE Last(input) = LineFeed
    <2>1. Last(lines[n]) = LineFeed /\ lines[n] # << >>
      BY <1>2, <1>11 DEF AreLines
    <2> QED
      BY <1>1, <1>2, <2>1, FlattenLast DEF Text
  <1>12. AreLines(others)
    <2> SUFFICES ASSUME NEW i \in DOMAIN others
                 PROVE  /\ others[i] # << >> /\ LineEnd(others[i]) = Len(others[i])
                        /\ Last(others[i]) = LineFeed \/ (~StdinIsConsole /\ i = Len(others))
      BY <1>7 DEF AreLines
    <2>1. /\ i \in 1 .. n - 1 /\ i + 1 \in DOMAIN lines /\ others[i] = lines[i + 1]
          /\ i + 1 = n => i = Len(others)
      BY <1>1, <1>2, <1>7
    <2> QED
      BY <1>1, <2>1 DEF AreLines
  <1> QED
    BY <1>1, <1>3, <1>8, <1>9, <1>10, <1>11, <1>12

LEMMA AskKeepsLines ==
  ASSUME InputInv, NEW yes, Ask(yes)
  PROVE  InputInv'
  <1>1. CASE UNCHANGED <<stdin, unasked>>
    BY <1>1 DEF InputInv, AreLines, AnswersKeepToTheirQuestions
  <1>2. ASSUME NEW lines \in IF unasked = << >> THEN TypedInputs ELSE {unasked},
               NEW input, input = IF unasked = << >> THEN stdin \o FlattenSeq(lines) ELSE stdin,
               stdin' = (IF StdinIsConsole THEN readLineFromConsole(input)
                         ELSE readLineFromRedirectedStream(input)).rest,
               unasked' = Tail(lines)
        PROVE  InputInv'
    <2>1. lines # << >> /\ AreLines(lines)
      BY <1>2, InputAssumption DEF InputInv
    <2>2. input = FlattenSeq(lines)
      <3>1. CASE unasked = << >>
        <4>1. stdin = << >>
          BY <3>1 DEF InputInv, AnswersKeepToTheirQuestions, FlattenSeq
        <4>2. FlattenSeq(lines) \in Text
          BY <2>1, FirstLineTaken
        <4> QED
          BY <1>2, <3>1, <4>1, <4>2, ConcatEmptySeq DEF Text
      <3>2. CASE unasked # << >>
        BY <1>2, <3>2 DEF InputInv, AnswersKeepToTheirQuestions
      <3> QED
        BY <3>1, <3>2
    <2>3. /\ input \in Text /\ input # << >> /\ AreLines(Tail(lines))
          /\ From(input, LineEnd(input) + 1) = FlattenSeq(Tail(lines))
          /\ StdinIsConsole => Last(input) = LineFeed
      BY <2>1, <2>2, FirstLineTaken
    <2>4. stdin' = From(input, LineEnd(input) + 1)
      BY <1>2, <2>3, ConsoleTakesLine, RedirectedTakesLine
    <2>5. stdin' = FlattenSeq(unasked') /\ AreLines(unasked')
      BY <1>2, <2>3, <2>4
    <2> QED
      BY <2>5 DEF InputInv, AnswersKeepToTheirQuestions, AreLines
  <1> QED
    BY <1>1, <1>2 DEF Ask

LEMMA StepInput == ASSUME InputInv, [FixNext]_fixVars PROVE InputInv'
  <1>1. CASE UNCHANGED <<stdin, unasked>>
    BY <1>1 DEF InputInv, AreLines, AnswersKeepToTheirQuestions
  <1>2. CASE Gate
    <2>1. CASE UNCHANGED terminal
      BY <1>1, <2>1 DEF terminal
    <2>2. CASE \E yes \in BOOLEAN : Ask(yes)
      BY <2>2, AskKeepsLines
    <2> QED
      BY <1>2, <2>1, <2>2 DEF Gate
  <1>3. CASE Prompted
    BY <1>3, AskKeepsLines DEF Prompted
  <1> QED
    BY <1>1, <1>2, <1>3
       DEF FixNext, fixVars, aside, terminal, Program, User, Start, Parse, Parsed, TestRule,
           Enumerate, Inspect, Scanned, Offer, Register, Reset, Checklist, Batch, Finish, Catch,
           Elevated, HandledCtrlC, DefaultCtrlC, OtherProcess

-------------------------------------------------------------------------------
(* What the variables that the invariants above do not speak of can be. *)

\* One token of the command line at a time, none beyond its end.
LEMMA StepParseType ==
  ASSUME ParseTypeOK, AppOptions(parsed), ParseStep PROVE ParseTypeOK'
  <1> USE DEF ParseTypeOK
  <1>1. UNCHANGED args
    BY DEF ParseStep, Terminator, GlobalFlag, FlagOption, LevelOption, MissingValue, SourceOption,
           PathOption, PatternOption, UnknownOption, Positional, UnknownCommand, Conclude
  <1>2. Reading => /\ argIndex \in 1 .. Len(args) /\ arg \in Token
                   /\ argIndex + 1 \in 1 .. Len(args) + 1
    BY DEF Reading, arg
  <1>3. TakesValue => /\ argIndex + 2 \in 1 .. Len(args) + 1 /\ value \in Token
    <2> SUFFICES ASSUME TakesValue
                 PROVE  argIndex + 2 \in 1 .. Len(args) + 1 /\ value \in Token
      OBVIOUS
    <2>1. argIndex + 1 \in 1 .. Len(args)
      BY <1>2 DEF TakesValue, Reading
    <2> QED
      BY <1>2, <2>1 DEF TakesValue, value
  <1>4. CASE Terminator
    BY <1>1, <1>2, <1>4 DEF Terminator
  <1>5. CASE Positional
    BY <1>1, <1>2, <1>5 DEF Positional
  <1>6. CASE GlobalFlag
    <2>1. PICK c \in DOMAIN GlobalFlags : parsed' = [parsed EXCEPT !.command = c]
      BY <1>6 DEF GlobalFlag
    <2>2. c \in AppCommand
      BY <2>1 DEF AppCommand
    <2>3. /\ parsed'.command = c /\ parsed'.source = parsed.source
          /\ parsed'.logLevel = parsed.logLevel /\ parsed'.patterns = parsed.patterns
          /\ parsed'.testRuleName = parsed.testRuleName /\ parsed'.flags = parsed.flags
      BY <2>1 DEF AppOptions
    <2> QED
      BY <1>1, <1>6, <2>2, <2>3 DEF GlobalFlag
  <1>7. CASE FlagOption
    <2>1. PICK flag \in Flag : parsed' = [parsed EXCEPT !.flags = @ \cup {flag}]
      BY <1>7 DEF FlagOption
    <2>2. /\ parsed'.command = parsed.command /\ parsed'.source = parsed.source
          /\ parsed'.logLevel = parsed.logLevel /\ parsed'.patterns = parsed.patterns
          /\ parsed'.testRuleName = parsed.testRuleName /\ parsed'.flags = parsed.flags \cup {flag}
      BY <2>1 DEF AppOptions
    <2> QED
      BY <1>1, <1>2, <1>7, <2>2 DEF FlagOption
  <1>8. CASE LevelOption
    <2>1. PICK level \in DOMAIN Levels : parsed' = [parsed EXCEPT !.logLevel = level]
      BY <1>8 DEF LevelOption
    <2>2. /\ parsed'.command = parsed.command /\ parsed'.source = parsed.source
          /\ parsed'.logLevel = level /\ parsed'.patterns = parsed.patterns
          /\ parsed'.testRuleName = parsed.testRuleName /\ parsed'.flags = parsed.flags
      BY <2>1 DEF AppOptions
    <2> QED
      BY <1>1, <1>2, <1>8, <2>2 DEF LevelOption
  <1>9. \A kind \in ArgParseErrorKind :
          throwError(kind) /\ UNCHANGED <<args, sawTerminator, positionals>> => ParseTypeOK'
    BY DEF throwError
  <1>10. CASE MissingValue \/ UnknownOption \/ UnknownCommand
    BY <1>9, <1>10 DEF MissingValue, UnknownOption, UnknownCommand, ArgParseErrorKind
  <1>11. CASE SourceOption
    <2>1. CASE throwError("InvalidOptionValue")
      BY <1>9, <1>11, <2>1 DEF SourceOption, ArgParseErrorKind
    <2>2. CASE \E source \in DOMAIN Sources : Accept([parsed EXCEPT !.source = source])
      <3>1. PICK source \in DOMAIN Sources : Accept([parsed EXCEPT !.source = source])
        BY <2>2
      <3>2. /\ parsed'.command = parsed.command /\ parsed'.source = source
            /\ parsed'.logLevel = parsed.logLevel /\ parsed'.patterns = parsed.patterns
            /\ parsed'.testRuleName = parsed.testRuleName /\ parsed'.flags = parsed.flags
        BY <3>1 DEF AppOptions, Accept
      <3> QED
        BY <1>1, <1>3, <1>11, <3>1, <3>2 DEF SourceOption, Accept
    <2> QED
      BY <1>11, <2>1, <2>2 DEF SourceOption
  <1>12. CASE PathOption
    <2>1. CASE throwError("InvalidPathOverride")
      BY <1>9, <1>12, <2>1 DEF PathOption, ArgParseErrorKind
    <2>2. CASE \E option \in DOMAIN PathOptions :
                 Accept([parsed EXCEPT !.paths[option] = Absolute(value)])
      <3>1. PICK option \in DOMAIN PathOptions :
              Accept([parsed EXCEPT !.paths[option] = Absolute(value)])
        BY <2>2
      <3>2. /\ parsed'.command = parsed.command /\ parsed'.source = parsed.source
            /\ parsed'.logLevel = parsed.logLevel /\ parsed'.patterns = parsed.patterns
            /\ parsed'.testRuleName = parsed.testRuleName /\ parsed'.flags = parsed.flags
        BY <3>1 DEF AppOptions, Accept
      <3> QED
        BY <1>1, <1>3, <1>12, <3>1, <3>2 DEF PathOption, Accept
    <2> QED
      BY <1>12, <2>1, <2>2 DEF PathOption
  <1>13. CASE PatternOption
    <2>1. PICK option \in DOMAIN PatternOptions :
            Accept([parsed EXCEPT !.patterns[option] = Append(@, value)])
      BY <1>13 DEF PatternOption
    <2>2. /\ parsed'.command = parsed.command /\ parsed'.source = parsed.source
          /\ parsed'.logLevel = parsed.logLevel
          /\ parsed'.patterns = [parsed.patterns EXCEPT ![option] = Append(@, value)]
          /\ parsed'.testRuleName = parsed.testRuleName /\ parsed'.flags = parsed.flags
      BY <2>1 DEF AppOptions, Accept
    <2>3. parsed'.patterns \in [DOMAIN PatternOptions -> Seq(Token)]
      <3>1. TakesValue
        BY <1>13 DEF PatternOption
      <3>2. parsed.patterns[option] \in Seq(Token)
        BY <2>1
      <3>3. Append(parsed.patterns[option], value) \in Seq(Token)
        BY <1>3, <3>1, <3>2
      <3> QED
        BY <2>2, <3>3
    <2> QED
      BY <1>1, <1>3, <1>13, <2>1, <2>2, <2>3 DEF PatternOption, Accept
  <1>14. CASE Conclude
    <2>1. PICK c \in DOMAIN Commands :
            IF PositionalError(c) # "none" THEN throwError(PositionalError(c))
            ELSE IF Conflicting(c, parsed.flags) THEN throwError("ConflictingOptions")
            ELSE /\ parsed' = [parsed EXCEPT !.command = c,
                                 !.testRuleName = IF c = "TestRule" THEN positionals[2] ELSE @]
                 /\ parseOutcome' = "accepted"
                 /\ UNCHANGED argIndex
      BY <1>14 DEF Conclude
    <2>2. UNCHANGED <<args, sawTerminator, positionals>>
      BY <1>14 DEF Conclude
    <2>3. CASE PositionalError(c) # "none" /\ throwError(PositionalError(c))
      <3>1. PositionalError(c) \in ArgParseErrorKind
        BY <2>3 DEF PositionalError, ArgParseErrorKind
      <3> QED
        BY <1>9, <2>2, <2>3, <3>1
    <2>4. CASE throwError("ConflictingOptions")
      BY <1>9, <2>2, <2>4 DEF ArgParseErrorKind
    <2>5. CASE /\ PositionalError(c) = "none"
               /\ parsed' = [parsed EXCEPT !.command = c,
                               !.testRuleName = IF c = "TestRule" THEN positionals[2] ELSE @]
               /\ parseOutcome' = "accepted"
               /\ UNCHANGED argIndex
      <3>1. PICK name : name = IF c = "TestRule" THEN positionals[2] ELSE parsed.testRuleName
        OBVIOUS
      <3>2. name \in Token
        <4>1. c = "TestRule" => 2 \in 1 .. Len(positionals)
          BY <2>5 DEF PositionalError
        <4> QED
          BY <3>1, <4>1
      <3>3. /\ parsed'.command = c /\ parsed'.source = parsed.source
            /\ parsed'.logLevel = parsed.logLevel /\ parsed'.patterns = parsed.patterns
            /\ parsed'.testRuleName = name /\ parsed'.flags = parsed.flags
        BY <2>5, <3>1 DEF AppOptions
      <3>4. c \in AppCommand
        BY <2>1 DEF AppCommand
      <3> QED
        BY <1>1, <2>2, <2>5, <3>2, <3>3, <3>4
    <2> QED
      BY <2>1, <2>3, <2>4, <2>5
  <1> QED
    BY <1>4, <1>5, <1>6, <1>7, <1>8, <1>10, <1>11, <1>12, <1>13, <1>14 DEF ParseStep

\* A process, this one or the elevated one, begins to read.
LEMMA RestartType ==
  ASSUME NEW tokens \in Seq(Token)
  PROVE  (Restart(tokens) => ParseTypeOK') /\ (Unread(tokens) => ParseTypeOK)
  <1>1. /\ DefaultOptions.command \in AppCommand /\ DefaultOptions.source \in DOMAIN Sources
        /\ DefaultOptions.logLevel \in {"Normal"} \cup DOMAIN Levels
        /\ DefaultOptions.patterns \in [DOMAIN PatternOptions -> Seq(Token)]
        /\ DefaultOptions.testRuleName \in Token /\ DefaultOptions.flags \subseteq Flag
    BY DEF DefaultOptions, AppCommand, Commands, GlobalFlags, Sources, Levels, PatternOptions, Token
  <1>2. 1 \in 1 .. Len(tokens) + 1 /\ << >> \in Seq(Token)
    OBVIOUS
  <1> QED
    BY <1>1, <1>2 DEF Restart, Unread, ParseTypeOK

TypedInv ==
  /\ ParseTypeOK
  /\ app.command \in AppCommand /\ app.flags \subseteq Flag
  /\ printed \subseteq Printed
  /\ tui \in {"NotRun", "Cancelled", "Confirmed"}
  /\ registered \in BOOLEAN
  /\ exit \in ExitCode \cup {"running", "Relaunched", "Terminated"}

LEMMA StepTyped ==
  ASSUME TypedInv, ParserInv, [FixNext]_fixVars PROVE TypedInv'
  <1>1. ParseTypeOK'
    <2>1. CASE Parse
      BY <2>1, StepParseType DEF Parse, TypedInv, ParserInv
    <2>2. CASE UNCHANGED parseVars
      BY <2>2 DEF parseVars, TypedInv, ParseTypeOK
    <2>3. CASE Gate /\ (Restart(<< >>) \/ Restart(Arguments(Parameters(args))))
      <3>1. << >> \in Seq(Token) /\ args \in Seq(Seq(Pieces))
        BY DEF TypedInv, ParseTypeOK, Token
      <3>2. Arguments(Parameters(args)) \in Seq(Token)
        BY <3>1, CommandLineAssumption, ArgumentsType DEF Token
      <3> QED
        BY <2>3, <3>1, <3>2, RestartType
    <2>4. CASE Gate /\ ~UNCHANGED parseVars
      BY <2>3, <2>4 DEF Gate, WithoutElevation, Proceed, Leave, Elevate
    <2> QED
      BY <2>1, <2>2, <2>4
         DEF FixNext, fixVars, aside, Program, User, Start, Parsed, TestRule, Enumerate, Inspect,
             Scanned, Offer, Register, Reset, Checklist, Batch, Finish, Catch, Elevated,
             Prompted, HandledCtrlC, DefaultCtrlC, OtherProcess
  <1>2. app'.command \in AppCommand /\ app'.flags \subseteq Flag
    <2>1. UNCHANGED app \/ app' = parsed \/ (app'.command = app.command /\ app'.flags = app.flags)
      BY DEF FixNext, fixVars, command, Program, User, Start, Parse, Parsed, TestRule, Enumerate,
             Inspect, Scanned, Offer, Register, Reset, Checklist, Batch, Finish, Catch, Elevated,
             Prompted, HandledCtrlC, DefaultCtrlC, OtherProcess, Gate, WithoutElevation, Proceed,
             Leave, Elevate, DefaultOptions
    <2> QED
      BY <2>1 DEF TypedInv, ParseTypeOK
  <1>3. printed' \subseteq Printed
    BY DEF TypedInv, Printed, Write, Supplementary, Preview, Progress, Ask, terminal, aside,
           FixNext, fixVars, Program, User, Start, Parse, Parsed, TestRule, Enumerate,
           Inspect, Scanned, Offer, Register, Reset, Checklist, Batch, Finish, Catch, Elevated,
           Prompted, HandledCtrlC, DefaultCtrlC, OtherProcess, Gate
  <1>4. tui' \in {"NotRun", "Cancelled", "Confirmed"} /\ registered' \in BOOLEAN
    BY DEF TypedInv, FixNext, fixVars, command, Program, User, Start, Parse, Parsed, TestRule,
           Enumerate, Inspect, Scanned, Offer, Register, Reset, Checklist, Batch, Finish, Catch,
           Elevated, Prompted, HandledCtrlC, DefaultCtrlC, OtherProcess, Gate
  <1>5. exit' \in ExitCode \cup {"running", "Relaunched", "Terminated"}
    BY DEF TypedInv, ExitCode, Enter, Exit, exitCodeFor, FixNext, fixVars, command, Program, User,
           Start, Parse, Parsed, TestRule, Enumerate, Inspect, Scanned, Offer, Register, Reset,
           Checklist, Batch, Finish, Catch, Elevated, Prompted, HandledCtrlC, DefaultCtrlC,
           OtherProcess, Gate, WithoutElevation, Proceed, Leave, Elevate
  <1> QED
    BY <1>1, <1>2, <1>3, <1>4, <1>5 DEF TypedInv

-------------------------------------------------------------------------------
(***************************************************************************)
(* The inductive invariant of the command.                                 *)
(***************************************************************************)
FixInv == /\ LoopInv /\ MutationInv /\ ConsentFits
          /\ PhaseInv /\ ListsOK /\ OfferInv
          /\ ExitInv /\ OutputInv /\ InputInv /\ TypedInv

LEMMA InitFix == FixInit => FixInv
  <1> SUFFICES ASSUME FixInit PROVE FixInv
    OBVIOUS
  <1> USE DEF FixInit
  <1>1. Fresh /\ candidates = << >> /\ options = Unset /\ phase = "start" /\ exit = "running"
    BY DEF Unset
  <1>2. Worldly
    <2>1. selected = 0 /\ candidates \in Seq(Candidate)
      BY <1>1 DEF selected
    <2>2. noticedAt \in 0 .. selected + 1 /\ interference \in 0 .. MaxInterference
      BY <2>1, BoundAssumption
    <2>3. options \in RepairBatchOptions
      BY <1>1 DEF Unset, RepairBatchOptions
    <2> QED
      BY <2>1, <2>2, <2>3 DEF Worldly
  <1>3. ConsentFits /\ PhaseInv
    BY <1>1 DEF Fresh, ConsentFits, PhaseInv, Early, Offering
  <1>4. ListsOK
    BY DEF ListsOK
  <1>5. OfferInv
    <2>1. << >> \in Offerable
      BY DEF Offerable
    <2> QED
      BY <1>1, <2>1 DEF OfferInv, Unset
  <1>6. ExitInv
    BY <1>1 DEF ExitInv
  <1>7. OutputInv
    BY <1>1, DefaultsPermitted DEF OutputInv, ParserInv, AppOptions, JsonPure, Unread, Wants,
                                   DefaultOptions
  <1>8. InputInv
    BY DEF InputInv, AreLines, AnswersKeepToTheirQuestions, FlattenSeq
  <1>9. TypedInv
    <2>1. ParseTypeOK
      BY CommandLineAssumption, RestartType
    <2>2. app.command \in AppCommand /\ app.flags \subseteq Flag
      BY DEF DefaultOptions, AppCommand, Commands
    <2> QED
      BY <2>1, <2>2 DEF TypedInv
  <1> QED
    BY <1>1, <1>2, <1>3, <1>4, <1>5, <1>6, <1>7, <1>8, <1>9, FreshInv, FreshMutation DEF FixInv

LEMMA StepFix == ASSUME FixInv, [FixNext]_fixVars PROVE FixInv'
  <1>1. options \in RepairBatchOptions /\ link \in [Links -> LinkStatus]
    BY DEF FixInv, LoopInv, TypeOK
  <1>2. LoopInv' /\ MutationInv' /\ ConsentFits'
    BY StepBatch DEF FixInv
  <1>3. PhaseInv' /\ ListsOK' /\ OfferInv'
    BY <1>1, StepPhase, StepLists, StepOffer DEF FixInv
  <1>4. ExitInv' /\ OutputInv' /\ InputInv' /\ TypedInv'
    BY StepExit, StepOutput, StepInput, StepTyped DEF FixInv, OutputInv
  <1> QED
    BY <1>2, <1>3, <1>4 DEF FixInv

LEMMA FixCorrect == FixSpec => []FixInv
  BY InitFix, StepFix, PTL DEF FixSpec

\* For every command line, every piece of it and every answer of the run-time
\* library to the one handed over: the process is in one of the states described.
THEOREM FixTypeCorrect == FixSpec => []FixTypeOK
  <1>1. FixInv => FixTypeOK
    BY DEF FixInv, LoopInv, PhaseInv, Early, Offering, ListsOK, TypedInv, FixTypeOK
  <1> QED
    BY <1>1, FixCorrect, PTL

\* Whatever the scan finds, in whatever order, and whatever is chosen in the
\* checklist: no alias that two executables resolve to is repaired or approved.
THEOREM CollisionsSafe == FixSpec => []CollisionsUntouched
  <1>1. FixInv => CollisionsUntouched
    BY NoneCollides DEF FixInv
  <1> QED
    BY <1>1, FixCorrect, PTL

\* On every way through the command, with any number of candidates: an exit
\* code of 0 or 2 is what the batch did, and a scan, a dry run and a cancelled
\* checklist have changed nothing.
THEOREM ExitCodesTrue == FixSpec => []ExitCodeReports
  <1>1. FixInv => ExitCodeReports
    BY ExitReported DEF FixInv
  <1> QED
    BY <1>1, FixCorrect, PTL

\* For every command line: without --yes no link found Missing or Broken is
\* changed but with the checklist's or the prompt's consent.
THEOREM ConsentCorrect == FixSpec => []CommandConsent
  <1>1. FixInv => CommandConsent
    BY ConsentGiven DEF FixInv
  <1> QED
    BY <1>1, FixCorrect, PTL

\* For every command line: with --json a scan or a fix writes nothing but its
\* document, and that one before it ends with a result.
THEOREM OutputCorrect == FixSpec => []JsonPure
  <1>1. FixInv => JsonPure
    BY DEF FixInv, OutputInv
  <1> QED
    BY <1>1, FixCorrect, PTL

\* However the user types ahead, and however long the lines: what a prompt has not
\* been given yet is there for the next one, whole, and nothing else is.
THEOREM AnswersCorrect == FixSpec => []AnswersKeepToTheirQuestions
  <1>1. FixInv => AnswersKeepToTheirQuestions
    BY DEF FixInv, InputInv
  <1> QED
    BY <1>1, FixCorrect, PTL
===============================================================================
