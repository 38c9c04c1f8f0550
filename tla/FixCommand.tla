------------------------------ MODULE FixCommand ------------------------------
(***************************************************************************)
(* One process of the program from wmain() to its exit code (main.cpp,     *)
(* cli/Dispatch.cpp): the command line (ArgParser), the permission gate    *)
(* with its restart as administrator (Relaunch), the inventory and its     *)
(* inspection, the collision filter, the checklist, the Ctrl+C handler,    *)
(* the repair batch (RepairBatch), the prompts (Prompt), what goes to the  *)
(* standard output, and what is caught on the way.                         *)
(*                                                                         *)
(* An alias is abstracted to its case-insensitive spelling, which is what  *)
(* every comparison in the code uses and what the file system identifies a *)
(* link path by; so an alias is a link.                                    *)
(***************************************************************************)
EXTENDS RepairBatch, ArgParser, Relaunch, Prompt
LOCAL INSTANCE SequencesExt

CONSTANTS
  Executables,     \* paths of package executables
  AliasOf,         \* resolveAlias(): an alias, or NoAlias
  NoAlias,
  CommandLines,    \* the command lines considered
  TypedInputs,     \* what the user types at a prompt: the lines of it, in order
  StdinIsConsole,  \* it is, or it is redirected
  MaxInventory     \* bound on the number of executables enumerated

ASSUME AliasAssumption ==
  /\ NoAlias \notin Links
  /\ AliasOf \in [Executables -> Links \cup {NoAlias}]
  /\ MaxInventory \in Nat

\* Whole lines, with their ends; only the last one of a redirected input may have
\* none.
AreLines(lines) ==
  /\ lines \in Seq(Text)
  /\ \A i \in DOMAIN lines :
       /\ lines[i] # << >> /\ LineEnd(lines[i]) = Len(lines[i])
       /\ Last(lines[i]) = LineFeed \/ (~StdinIsConsole /\ i = Len(lines))

ASSUME InputAssumption ==
  /\ StdinIsConsole \in BOOLEAN
  /\ \A lines \in TypedInputs : lines # << >> /\ AreLines(lines)

\* Command lines are made of the pieces the parser knows, and so are those that
\* are put together of them.
ASSUME CommandLineAssumption ==
  /\ {Backslash, Quote, Blank} \subseteq Pieces
  /\ CommandLines \subseteq Seq(Token)

VARIABLES
  app,         \* AppOptions of this process
  phase,       \* how far wmain() has come
  inventory,   \* the executables enumerated and filtered, in order
  position,    \* of the executable inspected next
  allItems,    \* RepairCandidateSet::allItems
  tui,         \* TuiRunOutcome
  registered,  \* consoleCtrlHandler is registered
  stdin,       \* what was typed and not read yet
  unasked,     \* history: the lines typed that no prompt has been given yet
  printed,     \* history: the kinds of text written to the standard output
  exit         \* the process exit code, "running" before

terminal == <<stdin, unasked, printed>>
command  == <<app, phase, inventory, position, allItems, tui, registered, exit>>
aside    == <<parseVars, terminal>>
fixVars  == <<vars, command, aside>>

RepairItem == [executable : Executables, alias : Links, status : LinkStatus]

ExitCode == {"Success", "FixNeeded", "InsufficientPermission", "ArgumentError",
             "PackageEnumerationFailed", "PartialFailure"}

Printed == {"text", "prompt", "report", "progress", "summary", "document"}

\* "Relaunched": exit code 0 of a process that left the work to an elevated
\* one it does not wait for.  "Terminated": ended by Ctrl+C, no handler there.
\* In phase "elevated" the process has exited and the new one reads the
\* command line it was given.
FixTypeOK ==
  /\ TypeOK
  /\ ParseTypeOK
  /\ app.command \in AppCommand /\ app.flags \subseteq Flag
  /\ phase \in {"start", "parse", "gate", "testRule", "enumerate", "inspect", "checklist",
                "register", "reset", "batch", "elevated", "exited"}
  /\ printed \subseteq Printed
  /\ inventory \in Seq(Executables)
  /\ position \in 1 .. Len(inventory) + 1
  /\ allItems \in Seq(RepairItem)
  /\ tui \in {"NotRun", "Cancelled", "Confirmed"}
  /\ registered \in BOOLEAN
  /\ exit \in ExitCode \cup {"running", "Relaunched", "Terminated"}

FixInit ==
  /\ link \in [Links -> LinkStatus]
  /\ interference = 0
  /\ ctrlC = FALSE
  /\ noticedAt = 0
  /\ candidates = << >>
  /\ options = [mode |-> "Execute", consent |-> "ask", approved |-> {}]
  /\ Fresh
  /\ \E commandLine \in CommandLines : Unread(commandLine)
  /\ app = DefaultOptions
  /\ phase = "start"
  /\ inventory = << >>
  /\ position = 1
  /\ allItems = << >>
  /\ tui = "NotRun"
  /\ registered = FALSE
  /\ stdin = << >> /\ unasked = << >>
  /\ printed = {}
  /\ exit = "running"

-------------------------------------------------------------------------------
Enter(next) == /\ phase' = next
               /\ UNCHANGED exit

Exit(code) == /\ phase' = "exited"
              /\ exit' = code

Wants(flag) == flag \in app.flags

Write(kinds) == printed' = printed \cup kinds

\* Lines that --quiet suppresses.
Supplementary(kinds) == IF app.logLevel = "Quiet" THEN {} ELSE kinds

\* Console::confirm() of a prompt nobody answered beforehand: the user types,
\* unless lines typed together with an earlier answer are still there, and one
\* line is read.  A failed read is a refusal.
Ask(yes) ==
  /\ Write({"prompt"})
  /\ \/ /\ yes = FALSE
        /\ UNCHANGED <<stdin, unasked>>
     \/ \E lines \in IF unasked = << >> THEN TypedInputs ELSE {unasked} :
          LET input == IF unasked = << >> THEN stdin \o FlattenSeq(lines) ELSE stdin
              read  == IF StdinIsConsole THEN readLineFromConsole(input)
                       ELSE readLineFromRedirectedStream(input)
          IN  /\ yes = isAffirmative(read.line)
              /\ stdin' = read.rest
              /\ unasked' = Tail(lines)

\* wmain(): the COM apartment, then run().
Start ==
  /\ phase = "start"
  /\ Enter("parse") \/ Exit("ArgumentError")
  /\ UNCHANGED <<vars, parseVars, terminal, app, inventory, position, allItems, tui, registered>>

Parse ==
  /\ phase \in {"parse", "elevated"}
  /\ ParseStep
  /\ UNCHANGED <<vars, command, terminal>>

\* run() once parseArguments() has returned or thrown.
Parsed ==
  /\ phase = "parse" /\ parseOutcome # "parsing"
  /\ \/ /\ parseOutcome # "accepted"
        /\ Exit("ArgumentError")
        /\ UNCHANGED <<app, printed>>
     \/ /\ parseOutcome = "accepted" /\ parsed.command \in {"Help", "Version"}
        /\ app' = parsed
        /\ Exit("Success")
        /\ Write({"text"})
     \/ /\ parseOutcome = "accepted" /\ parsed.command \notin {"Help", "Version"}
        /\ app' = parsed
        /\ Enter("gate")
        /\ UNCHANGED printed
  /\ UNCHANGED <<vars, parseVars, stdin, unasked, inventory, position, allItems, tui, registered>>

\* The command proper.  Of the command line nothing is read any more but the
\* options; those that only choose an inventory are of no use to this module.
Proceed ==
  /\ Enter(IF app.command = "TestRule" THEN "testRule" ELSE "enumerate")
  /\ Restart(<< >>)
  /\ app' = [DefaultOptions EXCEPT !.command = app.command, !.flags = app.flags,
                                   !.logLevel = app.logLevel]

Leave(code) == /\ Exit(code)
               /\ UNCHANGED <<parseVars, app>>

\* exitCodeAfterElevationDeclined(): a checklist must not be followed by
\* repairs that cannot succeed; without one the batch runs and reports.
WithoutElevation == IF Wants("useTui") THEN Leave("InsufficientPermission") ELSE Proceed

\* relaunchElevated(): the new process finds in its command line what the
\* run-time library makes of it.
Elevate ==
  /\ phase' = "elevated"
  /\ exit' = "Relaunched"
  /\ Restart(Arguments(Parameters(args)))
  /\ UNCHANGED app

\* handleFixStartupPermissionGate().  What the registry and the token say can
\* be anything.
Gate ==
  /\ phase = "gate"
  /\ \/ /\ app.command # "Fix" \/ Wants("dryRun")
        /\ Proceed
        /\ UNCHANGED terminal
     \/ /\ app.command = "Fix" /\ ~Wants("dryRun")
        /\ \E developerMode \in {"Enabled", "Disabled", "Unknown"},
              elevation \in {"Elevated", "NotElevated", "Unknown"} :
             \/ /\ developerMode = "Enabled" \/ elevation = "Elevated"
                /\ Proceed
                /\ UNCHANGED terminal
             \/ /\ developerMode # "Enabled" /\ elevation # "Elevated" /\ Wants("silent")
                /\ WithoutElevation
                /\ UNCHANGED terminal
             \/ /\ developerMode # "Enabled" /\ elevation # "Elevated" /\ ~Wants("silent")
                /\ \E confirmed \in BOOLEAN :
                     /\ IF Wants("assumeYes") THEN confirmed /\ UNCHANGED terminal
                                              ELSE Ask(confirmed)
                     /\ \/ ~confirmed /\ WithoutElevation
                        \/ confirmed /\ (Elevate \/ Leave("InsufficientPermission"))
  /\ UNCHANGED <<vars, inventory, position, allItems, tui, registered>>

\* runTestRule(): the rules are chosen and read, or cannot be.
TestRule ==
  /\ phase = "testRule"
  /\ \/ /\ Exit("Success")
        /\ Write({"text"})
     \/ /\ Exit("ArgumentError")
        /\ UNCHANGED printed
  /\ UNCHANGED <<vars, parseVars, stdin, unasked, app, inventory, position, allItems, tui,
                 registered>>

\* createPackageSource(), enumeratePackages(), the filter and the rule set: an
\* inventory, in some order and perhaps with repetitions, or an exception.
Enumerate ==
  /\ phase = "enumerate"
  /\ \/ \E n \in 0 .. MaxInventory :
          /\ inventory' \in [1 .. n -> Executables]
          /\ Enter("inspect")
     \/ /\ Exit("PackageEnumerationFailed")   \* PackageSourceError
        /\ UNCHANGED inventory
     \/ /\ Exit("ArgumentError")              \* RuleSetError, std::exception
        /\ UNCHANGED inventory
  /\ UNCHANGED <<vars, aside, app, position, allItems, tui, registered>>

\* Mutant of Inspect: an executable without an alias is not stepped over.
InspectStuck ==
  /\ phase = "inspect" /\ position <= Len(inventory)
  /\ LET executable == inventory[position]
         alias      == AliasOf[executable]
     IN /\ IF alias = NoAlias THEN UNCHANGED <<allItems, position>>
           ELSE /\ allItems' = Append(allItems, [executable |-> executable, alias |-> alias,
                                                 status |-> link[alias]])
                /\ position' = position + 1
        /\ UNCHANGED <<phase, exit>>
  /\ UNCHANGED <<vars, aside, app, inventory, tui, registered>>

\* One iteration of buildRepairCandidates(): resolveAlias() and inspectLink().
\* The status of a colliding alias, which depends on the executable it is
\* compared with, is left to be the link's: only Ok or not Ok is used of it.
Inspect ==
  /\ phase = "inspect" /\ position <= Len(inventory)
  /\ LET executable == inventory[position]
         alias      == AliasOf[executable]
     IN \/ /\ alias = NoAlias
           /\ position' = position + 1
           /\ UNCHANGED <<allItems, phase, exit>>
        \/ /\ alias # NoAlias
           /\ allItems' = Append(allItems, [executable |-> executable, alias |-> alias,
                                            status |-> link[alias]])
           /\ position' = position + 1
           /\ UNCHANGED <<phase, exit>>
        \/ /\ alias # NoAlias
           /\ Exit("ArgumentError")           \* LinkInspectionError
           /\ UNCHANGED <<allItems, position>>
  /\ UNCHANGED <<vars, aside, app, inventory, tui, registered>>

\* detectAliasCollisions(): aliases that two different executables resolve to.
Collisions ==
  {allItems[i].alias : i \in {i \in DOMAIN allItems :
     \E j \in DOMAIN allItems : /\ allItems[j].alias = allItems[i].alias
                                /\ allItems[j].executable # allItems[i].executable}}

\* Mutant of NonCollisionItems: nothing is left out.
AllItemsOffered == [i \in DOMAIN allItems |-> [alias  |-> allItems[i].alias,
                                               status |-> allItems[i].status]]

\* nonCollisionItems, in order, as the batch takes them.
NonCollisionItems ==
  LET kept[n \in 0 .. Len(allItems)] ==
        IF n = 0 THEN << >>
        ELSE IF allItems[n].alias \in Collisions THEN kept[n - 1]
        ELSE Append(kept[n - 1], [alias |-> allItems[n].alias, status |-> allItems[n].status])
  IN  kept[Len(allItems)]

\* Mutant of Inspected: positions are counted from 0.
InspectedAtZero == /\ inventory' = << >>
                   /\ position' = 0

\* buildRepairCandidates() returns: its list of packages is gone.
Inspected == /\ inventory' = << >>
             /\ position' = 1

anyNotOk == \E i \in DOMAIN allItems : allItems[i].status # "Ok"

\* runScan() after the inspection.
Scanned ==
  /\ phase = "inspect" /\ position > Len(inventory) /\ app.command = "Scan"
  /\ Exit(IF Wants("failOnMissing") /\ anyNotOk THEN "FixNeeded" ELSE "Success")
  /\ Write(IF Wants("jsonOutput") THEN {"document"}
           ELSE IF anyNotOk THEN {"report"} ELSE Supplementary({"report"}))
  /\ Inspected
  /\ UNCHANGED <<vars, parseVars, stdin, unasked, app, allItems, tui, registered>>

\* The preview of a run without a checklist.
Preview == IF Wants("jsonOutput") THEN {} ELSE Supplementary({"report"})

\* runFix() after the inspection.
Offer ==
  /\ phase = "inspect" /\ position > Len(inventory) /\ app.command = "Fix"
  /\ candidates' = NonCollisionItems
  /\ \/ /\ Wants("useTui")
        /\ Enter("checklist")
        /\ UNCHANGED printed
     \/ /\ ~Wants("useTui")
        /\ Enter("register")
        /\ Write(Preview)
  /\ Inspected
  /\ UNCHANGED <<world, options, pc, index, call, result, history>>
  /\ UNCHANGED <<parseVars, stdin, unasked, app, allItems, tui, registered>>

\* runTuiChecklistIfRequested(): rows are the candidates that are not Ok; the
\* checklist falls back without rows or a capable terminal, is cancelled, or
\* confirms some of the selectable rows.
Checklist ==
  /\ phase = "checklist"
  /\ \/ /\ Enter("register")
        /\ Write(Preview)
        /\ UNCHANGED <<tui, options>>
     \/ /\ \E i \in DOMAIN candidates : candidates[i].status # "Ok"
        /\ StdinIsConsole
        /\ tui' = "Cancelled"
        /\ Exit("Success")
        /\ UNCHANGED <<options, printed>>
     \/ /\ \E i \in DOMAIN candidates : candidates[i].status # "Ok"
        /\ StdinIsConsole
        /\ tui' = "Confirmed"
        /\ \E selection \in SUBSET Approvable(candidates) :
             options' = [options EXCEPT !.consent = "preApproved", !.approved = selection]
        /\ Enter("register")
        /\ UNCHANGED printed
  /\ UNCHANGED <<world, candidates, pc, index, call, result, history>>
  /\ UNCHANGED <<parseVars, stdin, unasked, app, inventory, position, allItems, registered>>

\* SetConsoleCtrlHandler(TRUE); it may fail, with a warning.
Register ==
  /\ phase = "register"
  /\ registered' \in BOOLEAN
  /\ Enter("reset")
  /\ UNCHANGED <<vars, aside, app, inventory, position, allItems, tui>>

\* Mutant of Reset: a confirmed checklist is taken as consent to everything.
ResetTrusting ==
  /\ phase = "reset"
  /\ ctrlC' = FALSE
  /\ options' = [options EXCEPT
       !.mode    = IF Wants("dryRun") THEN "DryRun" ELSE "Execute",
       !.consent = IF Wants("assumeYes") \/ tui = "Confirmed" THEN "assumeYes" ELSE @]
  /\ Enter("batch")
  /\ UNCHANGED <<link, interference, noticedAt, candidates, pc, index, call, result, history>>
  /\ UNCHANGED <<aside, app, inventory, position, allItems, tui, registered>>

\* g_ctrlCRequested.store(false), and batchOptions.
Reset ==
  /\ phase = "reset"
  /\ ctrlC' = FALSE
  /\ options' = [options EXCEPT
       !.mode    = IF Wants("dryRun") THEN "DryRun" ELSE "Execute",
       !.consent = IF Wants("assumeYes") THEN "assumeYes" ELSE @]
  /\ Enter("batch")
  /\ UNCHANGED <<link, interference, noticedAt, candidates, pc, index, call, result, history>>
  /\ UNCHANGED <<aside, app, inventory, position, allItems, tui, registered>>

\* onProgress(): a failed item is reported on the standard error instead.
Progress ==
  Write(IF Len(items') = Len(items) \/ items'[Len(items')].disposition = "Failed"
             \/ Wants("jsonOutput")
        THEN {} ELSE Supplementary({"progress"}))

Batch ==
  /\ phase = "batch"
  /\ Loop
  /\ Progress
  /\ UNCHANGED <<parseVars, command, stdin, unasked>>

\* The consent callback's prompt for the candidate at hand, and what follows of
\* the answer.
Prompted ==
  /\ phase = "batch"
  /\ Consent
  /\ Ask(pc' = "repair")
  /\ UNCHANGED <<parseVars, command>>

\* The batch returned: the handler is unregistered and its exit code is run()'s.
Finish ==
  /\ phase = "batch" /\ pc = "returned"
  /\ registered' = FALSE
  /\ Write(IF Wants("jsonOutput") THEN {"document"} ELSE Supplementary({"summary"}))
  /\ Exit(exitCodeFor)
  /\ UNCHANGED <<vars, parseVars, stdin, unasked, app, inventory, position, allItems, tui>>

\* Mutant of Catch: the summary so far decides.
CatchWithSummary ==
  /\ phase = "batch" /\ pc = "aborted"
  /\ Exit(exitCodeFor)
  /\ UNCHANGED <<vars, aside, app, inventory, position, allItems, tui, registered>>

\* An exception came through the batch to run()'s catch clauses.
Catch ==
  /\ phase = "batch" /\ pc = "aborted"
  /\ Exit("ArgumentError")
  /\ UNCHANGED <<vars, aside, app, inventory, position, allItems, tui, registered>>

-------------------------------------------------------------------------------
\* Ctrl+C with the handler registered: consoleCtrlHandler() sets the flag.
HandledCtrlC ==
  /\ registered
  /\ CtrlC
  /\ UNCHANGED <<command, aside>>

\* Ctrl+C without it ends the process.  While the checklist runs Ctrl+C is a
\* key (its Cancelled outcome).
DefaultCtrlC ==
  /\ ~registered /\ phase \notin {"checklist", "elevated", "exited"}
  /\ Exit("Terminated")
  /\ UNCHANGED <<vars, aside, app, inventory, position, allItems, tui, registered>>

\* What changes before the inspection is in the choice of the links at first.
OtherProcess ==
  /\ phase \in {"inspect", "checklist", "register", "reset", "batch"}
  /\ Interfere
  /\ UNCHANGED <<command, aside>>

\* The elevated process has read its command line and goes on as this module
\* says of any process.
Elevated ==
  /\ phase = "elevated" /\ parseOutcome # "parsing"
  /\ phase' = "exited"
  /\ UNCHANGED <<vars, aside, app, inventory, position, allItems, tui, registered, exit>>

Program == \/ Start \/ Parse \/ Parsed \/ TestRule \/ Enumerate \/ Inspect \/ Scanned \/ Offer
           \/ Register \/ Reset \/ Batch \/ Finish \/ Catch \/ Elevated

User == Gate \/ Checklist \/ Prompted \/ HandledCtrlC \/ DefaultCtrlC

FixNext == \/ Program \/ User \/ OtherProcess
           \/ phase = "exited" /\ UNCHANGED fixVars

FixSpec == FixInit /\ [][FixNext]_fixVars

\* The program runs on; nobody has to answer, or to press anything.
FairFixSpec == FixSpec /\ WF_fixVars(Program)

-------------------------------------------------------------------------------
\* Properties.

\* An alias that two different executables resolve to is never repaired, by
\* whatever path the batch is reached, nor approved in the checklist.
CollisionsUntouched ==
  /\ \A i \in mutated : candidates[i].alias \notin Collisions
  /\ options.approved \cap Collisions = {}

\* What an exit code tells a script.  0 from a fix that neither was cancelled
\* nor handed over: every candidate was reached and none failed.  2: some repair
\* lacked permission, or none was attempted.  A scan, a dry run and a cancelled
\* checklist repaired nothing.
ExitCodeReports ==
  /\ exit = "Success" /\ app.command = "Fix" /\ tui # "Cancelled" =>
       /\ Len(items) = selected
       /\ \A i \in DOMAIN items : items[i].disposition # "Failed"
  /\ exit = "InsufficientPermission" =>
       \/ mutated = {} /\ items = << >>
       \/ \E i \in DOMAIN items : items[i].error = "InsufficientPermission"
  /\ tui = "Cancelled" \/ app.command = "Scan" \/ Wants("dryRun") => mutated = {}

\* A repair without --yes happens only with the checklist's or the prompt's
\* consent, in the options the command line and the checklist arrive at.
CommandConsent ==
  \A i \in mutated :
    candidates[i].status \in {"Missing", "Broken"} =>
      \/ Wants("assumeYes")
      \/ tui = "Confirmed" /\ candidates[i].alias \in options.approved
      \/ tui = "NotRun" /\ i \in consented

\* docs/PLAN.md: with --json the standard output of a scan or a fix carries one
\* JSON document and nothing else, no prompt above all, on whichever way it comes
\* to an end; and a run that ends with a result has written it.
JsonPure ==
  Wants("jsonOutput") /\ app.command \in {"Scan", "Fix"} =>
    /\ printed \subseteq {"document"}
    /\ exit \in {"Success", "FixNeeded", "PartialFailure"} => printed = {"document"}

\* Every prompt is answered by the line typed for it: what is left to read is
\* always whole lines no prompt has had yet, and never the rest of a line that
\* answered an earlier one.
AnswersKeepToTheirQuestions == stdin = FlattenSeq(unasked)

\* adr-phase-9: the elevated process takes over the work, so it has to find in
\* its command line the options the user gave.
HandedOver ==
  phase = "elevated" /\ parseOutcome # "parsing" =>
    parseOutcome = "accepted" /\ parsed = app

\* Dispatch.cpp: a Ctrl+C the handler took stops the batch at the next
\* opportunity.
CtrlCStopsBatch == StopsAfterCurrentItem

\* The process exits, unless it waits for the user for ever.
Waiting == phase \in {"gate", "checklist"} \/ pc = "consent"
ProcessExits == <>(phase = "exited") \/ <>[]Waiting
===============================================================================
