# Verification of syncwingetlink

syncwingetlink repairs the symbolic links `%LOCALAPPDATA%\Microsoft\WinGet\Links\<alias>.exe`
that winget should have made for its portable packages. This directory holds TLA+ models of
the program, the TLC configurations that check them on small instances, and theorems about
them that TLAPS proves for every value of the constants. Paths below are relative to the
repository; the C++ source is under `src/`.

1. [The system](#1-the-system)
2. [Modules and how they follow the code](#2-modules-and-how-they-follow-the-code)
3. [Runs: what is checked](#3-runs-what-is-checked)
4. [Fairness](#4-fairness)
5. [Theorems: what is proved](#5-theorems-what-is-proved)
6. [Where code and documents disagree](#6-where-code-and-documents-disagree)
7. [What is not modelled](#7-what-is-not-modelled)
8. [Plan](#8-plan)
9. [Running it](#9-running-it)

## 1. The system

One process runs one command and ends. It has one thread, except for two that Windows makes:
the Ctrl+C handler sets a flag, and the console-close handler restores the terminal. It
persists nothing of its own; what survives it is the Links directory, which other processes
(winget, other instances of the program, the user) change as they like.

```
 main.cpp -> run() (cli/Dispatch) -> ArgParser
                 |
                 |  permission gate (may relaunch elevated)
                 |  PackageSourceFactory -> WingetComSource | FsScanSource
                 |  PackageFilter -> RuleSetSelector -> AliasResolver
                 |  LinkInspector            one inspection per executable
                 |  collisions taken out
                 |  checklist (tui/)         with --tui
                 |  Ctrl+C handler
                 `> runRepairBatch() -> consent prompt -> repairLink() -> Win32
```

| component | state it keeps | operations | what makes it correct |
|---|---|---|---|
| **Link inspection** `core/LinkInspector` | none; reads a link in four Win32 calls | `inspectLink`, `findAliasCollisions` | a link that changes between two of the reads is never described in a way the decision table has no answer to |
| **Link repair** `core/SymlinkService` | locals of one call: first observation, handle of the entry to delete | inspect, decide, delete the entry, create, verify | only a symbolic link is ever deleted, only in Execute mode; the answer says what was done; a link that is lost between two instances is reported by one |
| **Repair batch** `core/RepairBatch` | items and summary so far, interruption flag | consent, repair, count, stop; `exitCodeFor` | every change is counted and was approved; the exit code follows from what happened; Ctrl+C stops after the item at hand |
| **Command dispatch** `cli/Dispatch` | inventory, candidate set, checklist outcome, handler registration | gate, enumerate, inspect, filter collisions, checklist, batch, catch clauses | links of colliding aliases are left alone; a dry run or scan changes nothing; a process always ends with an honest code |
| **Checklist** `tui/ChecklistModel`, `tui/TuiApp` | cursor, viewport, selection | keys, resizes, draw, confirm, cancel | the rows drawn fit the window and hold the cursor; what Enter confirms is what was shown checked |
| **Terminal session** `tui/TerminalSession` | shared `State` with three undo flags and an atomic, a global callback slot and mutex | acquire, unwind, restore on two threads | terminal restored once, in reverse order, never from freed memory, no deadlock when the window closes |
| **Package sources** `core/*Source*`, `core/ExecutableScanner` | the list under construction | COM calls, directory walk, choice and degradation | no mixing of sources; an error never passes for an empty list |
| **Package filter** `core/PackageFilter` | none | `matchesGlob`, include and exclude | excluded packages and executables stay out |
| **Alias rules** `rules/`, `core/AliasResolver` | none | choose the rules file, read it bounded, parse, first match | an unusable rules file is an error and never a silent fall-through; an oversized text is never parsed |
| **Argument parser** `cli/ArgParser` | position, positionals, options so far | one token, the end of the line | the first error is the one thrown; options that would mix a prompt with JSON never pass |
| **Console** `cli/Console` | the input not read yet | `confirm()` with its two line readers, `sanitizeForDisplay` | an answer goes to the question it was given for |
| **Entry point** `main.cpp` | the COM apartment | start, exit | an apartment that cannot be had is an exit code |
| **Reports** `cli/ScanReport`, `cli/Json`, `cli/PathDisplay` | none | the table of links, JSON strings, known folders | what has to be acted on is always shown; any file name comes out of the JSON as it went in; no known folder's path is left in what is printed |
| **Paths** `core/Paths` | none | to and from the extended-length form | a path comes back from the system as it went there |

How they interact: calls go down the picture; the only callbacks are those the batch makes
into the dispatcher (`confirmItem`, `pollInterrupted`) and the close handler's call through
the callback slot. Shared between threads: `g_ctrlCRequested`, and the terminal session's
`State` and slot. Shared between processes: the file system, the winget server, the rules
file.

What is hard in this program, and where a test would hardly reach:

* every decision is made on a link read some Win32 calls ago, or some minutes ago (the scan);
* delete and create are two calls: an error, a kill or another process can come between;
* a deleted entry stays until the last handle on it is closed, an inspecting instance's too;
* Ctrl+C, the window being closed, and the winget server's end come at any moment;
* a window resized while the checklist scrolls, with keys waiting behind the resize;
* errors that unwind in the middle of a batch, after some links were changed;
* a list that is incomplete and does not look it;
* a command line that is put together to one text and taken apart again by rules of another
  library; an answer typed for one question that is read by the next.

`PROJECT.json` lists each of these hazards at its line, with the properties that cover it
or the reason none does.

## 2. Modules and how they follow the code

```
 LinkInspector <- SymlinkService ------(implements)----> LinkRepair
                    ^        ^                               |
      MCSymlinkService   SymlinkServiceProofs         INSTANCE in
                                                             v
 FixCommand  ----------------- EXTENDS ---------------> RepairBatch
  ^     ^    `-- EXTENDS --> ArgParser                   ^        ^
  |     |                    Relaunch, Prompt   MCRepairBatch   RepairBatchProofs
  |  MCFixCommand                                                 ^
  FixCommandProofs ------------------- EXTENDS -------------------'
      `-- EXTENDS --> TextProofs -- EXTENDS --> Relaunch, Prompt, JsonText

 PackageSource, PackageFilter, RuleSet <- Inventory <- MCInventory
                                              ^
                                       InventoryProofs

 ChecklistModel <- ChecklistModelProofs          TerminalSession <- TerminalSessionProofs

 Paths <- PathDisplay, JsonText, ScanReport,
          ReparseBuffer <- MCReports <- MCRepairBatch
 Paths, ReparseBuffer <- SymlinkServiceProofs

 DataInduction <- TextProofs, InventoryProofs
```

**LinkInspector** (constant level). A path's spelling is a model value; what stays of a link
is what the classification tells apart: the kind of directory entry, the decoded target, the
file identity behind it. `StatusFor` is the decision table, `ValidObservation` the check that
throws `std::invalid_argument`.

**SymlinkService**. A call is one `repairLink()`; several run at once when several instances
of the program do. One action per Win32 call: `ReadAttributes`, `ReadReparsePoint`,
`CloseReparsePoint`, `ReadTarget`, `ReadExecutable` (one inspection; a call makes two),
`OpenEntry`, `DisposeEntry`, `CloseEntry`, `CreateLink`. What the code computes between two Win32 calls is in the action
of the first. `Interfere` is any other process changing an entry or a file, `Kill` the end of
the process; each action has the error outcomes of its call, classified by `buildError`.
`handle` says whether the open handle still denotes what stands at the path: deletion is by
handle, so a swapped-in foreign entry survives. Other processes are taken to replace entries
(delete, rename, create), not to rewrite the reparse data of an open one in place. `pending` is
the mark `FileDispositionInfo` sets: nobody can open the entry or reuse its name
(`ERROR_ACCESS_DENIED`) until the last handle on it is closed, by `CloseHandle` of any call, by
`Kill`, or by `Release` of another process that `Hold`s it.

**LinkRepair** is the abstract specification: what `repairLink()` promises about a link nobody
else touches. Three actions (`Remove`, `Make`, `Reply`), five variables, no Win32. It is used
twice: `SymlinkService` implements it (the refinement mapping is at the end of that module: the
stage of a call is told by where it is, or where it ended), and `RepairBatch` uses it as the
repair.

**RepairBatch** is `runRepairBatch()`: `Begin`, `Consent`, the repair (`RepairStep`,
`RepairEnds`, `RepairThrows`), `Interrupt`, `Complete`. `items`, `counts` and the flags are
`RepairBatchResult`. `consented`, `mutated` and `noticedAt` are history variables: no action
reads them.

**ArgParser** is `parseArguments()`, one action per kind of token (`Terminator`, `GlobalFlag`,
`FlagOption`, `LevelOption`, `SourceOption`, `PathOption`, `PatternOption`, `Positional`, the
errors) and `Conclude` for what is decided at the end of the line, in the code's order. A token
is a sequence of pieces; absolute paths and valid alias names are constants.

**Relaunch** (constant level) has both directions of the restart as administrator: `Parameters`
is the text `relaunchElevated()` puts together, `Arguments` what the C run-time library makes of
it, as a scan of the text piece by piece (`Scans`). `Fragile` is the one kind of argument that
does not survive.

**Prompt** (constant level) has the two line readers of `cli/Console` as functions from the
input to an answer and the rest of the input, with the chunked draining of a line longer than
the buffer, and `isAffirmative()`. `TakesOneLine` is what a prompt promises.

**FixCommand** extends all of them to one process from `wmain()` to its exit code; `phase` is
how far it has come. `Start` is the apartment, `Parse` and `Parsed` the command line, `Gate` asks
the registry, token and user, and may hand over to an elevated process (`Elevate`, after which
`Parse` is that process reading its command line, and `Elevated` the end of the story told);
`TestRule` is that command; `Enumerate` yields any inventory or an exception; `Inspect`,
`Scanned`, `Offer`, `Checklist`, `Register`, `Reset`, `Batch`, `Prompted`, `Finish`, `Catch`
follow the code's order. `stdin` is what was typed and not read yet, `printed` the kinds of text
that went to the standard output. The checklist's outcome is any set of selectable
rows, which ChecklistModel justifies. Ctrl+C is `HandledCtrlC` once the handler is there and
`DefaultCtrlC`, which ends the process, before.

**ChecklistModel** is the model object and `runChecklist()`'s event loop, with the console
as environment: `Press` and `ChangeWindow` add records to the input buffer at any time, the
`Take...`, `Move...`, `Toggle`, `Confirm`, `Cancel` actions handle one record and draw the
frame. Esc, Q and Ctrl+C are one key, as in the code. A failed viewport query keeps the old
height.

**TerminalSession** has a program counter per thread. A step is one terminal call or one
section under `g_closeHandlerMutex`. Acquisition can fail at each step and unwinds through
`restore()`. The compare-exchange, the three undos and the uninstallation are separate steps,
so that the two threads' `restore()` calls interleave. `held` is the set of owners of the
shared state, the handler's part coming from `weak_ptr::lock()`.

**PackageSource** has one step per COM call and per directory entry. Each call can fail by
itself; `ServerGone` makes every later call fail with `RPC_E_DISCONNECTED`, also in the middle
of a match. `Visit`, `Increment` and `IncrementFails` are the scan of the Packages directory.
`Unavailable` is the degradation of `--source auto`.

**PackageFilter** has `matchesGlob()` as the same state machine over two indices that the code
loops with, as a recursive function over its `Positions`, and `GlobMatches` for what a glob
means. `Characters` is any set of characters with any case folding that takes nothing else to
the wildcard (`FoldAssumption`). **RuleSet** has
acceptance (`Accepts`) and first match (`FirstOutcome`); a regular expression is its effect on
each name.

**Inventory** composes the three: `Source`, `Enumerated`, `Filter`, `Select`, `PreCheck`,
`Open`, `Read`, `Verbose`, `Resolve`. `Edit` changes the rules file between any two of the
file's look-ups. This is what FixCommand has as the single step `Enumerate`.

The rest is pure and at constant level. Each module has the functions of the code and, after a
rule, what they promise in terms that do not follow the code; **MCReports** compares the two
for all short inputs.

* **JsonText**: `escapeJsonString()` on code units and bytes, against what a reader by RFC 8259
  and RFC 3629 finds in the bytes.
* **Paths**: the prefixes `\\?\`, `\\.\`, `\\` and `\??\` in both directions, and the end of
  `decodeSymbolicLinkTarget()`; normalization is the constant `Normal`.
* **PathDisplay**: which known folder a path or a message names, against path components.
* **ScanReport**: `formatGroupedReport()` with its groups, order, column widths and the
  importance that `--quiet` goes by.
* **ReparseBuffer**: every read that `decodeSymbolicLinkTarget()` makes of the bytes the system
  returned, as offset and size, and the checks before it. A buffer is any size with any value in
  any field.

`map` in `PROJECT.json` names the lines behind every definition. Definitions commented as
"Mutant of" are faulty variants of the definition that follows, used to see that a property
notices the fault; no specification refers to them.

## 3. Runs: what is checked

Every run explores its whole state space; the sizes are the distinct states found.

| run | instance | what it shows |
|---|---|---|
| **RepairContract** (16 thousand) | one Execute and one DryRun call on two links, every initial entry and file table, `ACCESS_DENIED` and `SHARING_VIOLATION` at every call | `ImplementsContract`: with an error possible at each Win32 call, each step of `repairLink()` does and answers only what LinkRepair allows, as long as nobody else has touched the call's link. `EveryCallEnds` |
| **RepairRaces** (5 million) | three Execute calls on one link, one change by another process at any point, one call may be killed, others may open and close the entry as they like | `RepairInv`, `ForeignEntriesSurvive`: only a symbolic link is disposed of, only in Execute mode. `NeverInvalidArgument`: no torn inspection reaches the exception no caller catches. `LossIsReported`: when all calls have ended by themselves, with no errors injected and nothing changed by others, the link is Ok (or the Mismatch it was) and one of the calls says so, or it is gone (at the latest when another process closes it) and one of the calls has answered `InsufficientPermission` |
| **RepairKilled** | as above | violated: section 6 |
| **RepairBatchSafety** (1.8 million) | two aliases, up to three candidates (so one alias repeats), one change by another process, Ctrl+C at any point | `SummaryMatchesItems`, `ExitCodeIsHonest`, `MutationsAreReported`, `MutationsAreApproved`, `StopsAfterCurrentItem`; before the search, `ReadersTakeOneLine`: both line readers take one whole line, and a yes is just what that line says, for every input of up to six characters over `y blank CR LF`, with limits of four and three; and all of MCReports, see below |
| **RepairUnconfirmed** | same | violated: section 6 |
| **FixCommandSafety** (3.3 million, two and a half minutes) | every command line of up to two of six tokens and seventeen longer ones of each kind, inventories of up to two of four executables (two collide, one has no alias), three ways to type, one change by another process | `CollisionsUntouched`, `CommandConsent`, `ExitCodeReports`; `JsonPure`: with `--json` the standard output of every run is one document or nothing; `AnswersKeepToTheirQuestions`; `ProcessExits`. Before the search, `QuotingIsExact`: command lines of up to two arguments over `a \ " blank` come back as they were unless an argument is fragile, and a fragile one never does |
| **RelaunchAltered** | one command line with a quoted directory that ends in a backslash | violated: section 6 |
| **FixLostCtrlC** | same, no interference | violated: section 6 |
| **Checklist** (3.3 million) | up to three rows, windows of up to five lines (two are reserved), two records waiting | `ViewportOK`, `ViewportFitsWindow`, `CheckedRowsWereShown`, `ScrollsLeast` |
| **Terminal** (240, the whole space) | one session, one closing of the window | `RestoredByOne`, `NeverPartial`, `TeardownReverses`, `HandlerRestores`, `NeverUsesFreedState`, `CloseEnds` |
| **Inventory** (1.5 million) | three packages of different kinds, a catalog of two matches, four pattern sets, five rules files, one edit | `SourceAsRequested`, `OnlyFaultsAlter`, `FilterHonoursPatterns`, `OversizeNeverParsed`, `TierIsFinal`, `ReportedSource`, `InventoryEnds`; and, before the search, `GlobsMatch`: `matchesGlob()` agrees with the meaning of a glob for every pattern of up to three characters over `a b * ?` and every value of up to three |
| **InventoryPartial** | the source alone | violated: section 6 |

MCReports is evaluated before the search of the two RepairBatch runs, whose items the reports
show:

| assumption | inputs | what it shows |
|---|---|---|
| `JsonReadsBack` | texts of up to two code units around every limit of `escapeJsonString()`, and of up to four over backslash, a letter and surrogates | the bytes are exactly the characters of the text in a row, each with one legal representation; a lone surrogate is U+FFFD; nothing in a text ends the string early |
| `InnermostFolderIsNamed` | paths of up to five characters over a folder, its inner folder, another case and the separator, with and without `\\?\` | a path in known folders gets the variable of the innermost, by components, and any other is left alone |
| `MessagesNameNoFolder` | messages of up to five pieces, quotes among them | no known folder is left before a separator, a quote or the end, and nothing else is changed |
| `ShownPathsAreClean` | paths with a character that turns the text | it is never printed; without `-s` nothing else is changed |
| `PathsComeBack` | drive, network, extended and device paths, folders called `UNC` | the extended form is a fixed point, comes back as the path, also by way of the target of a link |
| `DecoderStaysInBuffer` | sizes up to 30 and the largest, twelve values for each field | the properties of ReparseBuffer that section 5 proves for all buffers |
| `ReportIsComplete` | reports of up to two items with wide, narrow and broken characters | every item to act on is in a quiet scan and no other; a preview is never in a quiet fix; the bars of all rows stand below each other |
| `WidthCountsCharacters` | texts of up to four units | `displayWidth()` counts each character once |
| `ReportHasItsOrder` | three different items in every order | the report does not depend on the order the links were found in |

Why the bounds are enough for the cases of interest:

* *Calls and links.* Calls on different links share nothing but the files, so one link with
  three calls has all contention; three is the least number where one call can delete, another
  create and a third verify or keep the entry open. Repairs take at most one deletion and one creation, so one outside
  change can fall into every window; two would only repeat it.
* *Candidates.* Three are needed for one before, one at and one after the moment of an
  interruption; two aliases for a repeated and a distinct one. Statuses are unbounded choices
  out of four.
* *Rows and lines.* The two reserved lines leave pages of 0, 1, 2 and 3 rows: no row, a page
  shorter than the list, and one as long as it. Two records make a key wait behind a resize.
* *Command lines and typed input.* Two tokens are what it takes for an option and its value, an
  error and what comes after it, a terminator and what it hides; the longer lines are one of each
  kind that gets as far as the inventory and one for each late error. `BufferSize` 5 holds the
  answers with their line ends and cuts the line `Long` just before the yes at its end. The code's sizes are 1024 and 64 KiB.
* *Catalog.* Two matches separate "the server is gone, and a later call notices" from "no
  later call is left". One edit separates the size check, the opening and the reading of the
  rules file.

`MaxInterference`, `MaxCandidates`, `MaxInventory`, `MaxRows`, `MaxPending` and `MaxEdits`
bound the environment and the sizes of inputs only; no loop of the program is cut short.
Symmetry is used in RepairBatchSafety alone, over the aliases, which that run's
properties do not tell apart and where no liveness is checked.

Deadlock is checked in all runs but the two of Inventory: the specifications have an explicit
stuttering step for their ends, so that any other state without a successor is reported. In
Inventory a finished program simply has no step left (`CHECK_DEADLOCK FALSE`), and
`InventoryEnds` is the property that it gets there.

## 4. Fairness

* SymlinkService `FairSpec`: weak fairness of each call's next Win32 step. The code has no
  loop and no wait, so this says that each Win32 call returns. Kills and other processes have
  none.
* FixCommand `FairFixSpec`: weak fairness of the program's own steps. The user's (the
  elevation prompt, the checklist, the consent prompt, Ctrl+C) have none, hence `ProcessExits`
  says: the process exits, or waits for the user for ever.
* TerminalSession `FairSpec`: weak fairness of the handler thread, and of the main thread
  apart from `SessionEnds`, the user's end of the checklist.
* Inventory `FairSpec`: weak fairness of the program. It rests on each COM call returning,
  for which the code has no timeout (a hazard listed in `PROJECT.json`).

ChecklistModel has no fairness, since only the user moves it; RepairBatch is checked for
safety, its end being part of `ProcessExits`.

## 5. Theorems: what is proved

TLAPS checks every leaf of eight proof modules, and takes nothing on trust but the named
`ASSUME`s of the models, which TLC evaluates in the runs:

* `CallAssumption`, `SentinelAssumption`, `AliasAssumption`, `PackageAssumption`,
  `RuleAssumption`, `InventoryAssumption`: constants have their types, and
  what stands for "nothing" is not one of the values;
* `BoundAssumption`: bounds are natural numbers;
* `CommandLineAssumption`: command lines are made of the parser's pieces, among which are the
  three that `relaunchElevated()` adds;
* `PromptAssumption` and `InputAssumption`: what is typed is whole lines, of which only the last
  one of a redirected input may lack its end; a refused read is not a text;
* `FoldAssumption`, `GlobAssumption`: patterns, package ids and file names are texts, and no id or
  file name has a `*`, which winget and Windows forbid in them. Without that `matchesGlob()` would
  miss matches: it compares a pattern's `*` as an ordinary character first, so that one in the
  value is taken by it.

**SymlinkServiceProofs**, for any set of calls, links, paths and file identities, any number of
outside changes:

* `TypeCorrect`; `RepairCorrect` (`RepairInv`): a call about to dispose of an entry, with a
  handle that denotes what stands at the path, has a symbolic link there; every call that
  has come as far as a change is an Execute call; and an entry marked as deleted is a symbolic
  link with an Execute call on it, whoever's handle it goes with. It is inductive together with
  `TypeOK`: all that is needed of the way to the deletion is the check `OpenEntry` repeats on the
  open handle. Most steps only let go of handles and marks (`Kept`), and `KeptInv` does those.
* `MutationsCorrect` (`ForeignEntriesSurvive`): the action property, from the same invariant.
* `NeverInvalid` (`NeverInvalidArgument`): however other processes interleave with the four
  reads, the observation they assemble is one the validation accepts. The lemmas show it for
  each way an inspection can end.

* `ContractImplemented` (`ImplementsContract`): the step simulation. A step of an
  undisturbed call has to be explained by what the call has read some steps ago; `AloneInv` says
  that it still stands there: while nobody has interfered, an inspection's attributes, target and
  identity are those of the entry (`TrueReading`), the first finding is the status the link had,
  and a call between deletion and creation finds nothing. It is needed that no step of another
  call changes an entry of this one or marks it (`OthersElsewhere`), which is what "alone on its
  link" buys. Each Win32 step has one lemma that maps it to a step of LinkRepair or to none.
* `LossCorrect` (`LossIsReported`): for any number of instances at one link, each for an
  executable of its own. The invariant `WatchInv` follows the link instead of the calls, in three
  promises: while the entry is gone or going, some call is on its way to create it or has already
  answered that it could not (`WillCreate`); while it is dangling, some call is on its way to
  delete it (`WillDelete`); while it is sound, some call will find it so or has said so
  (`WillSucceed`). Every step hands the promise on, to the same call or to the one that acts.
* Of ReparseBuffer, for buffers of any size and content: `ReadsAreInside` (no read leaves the
  buffer), `NamesAreInPathBuffer` (the name is in the path buffer and the unsigned difference
  before it does not wrap), `LastCheckNeverFires` (the check repeated against the size of the
  buffer follows from the others), `WellFormedIsDecoded` (no well-formed link is rejected). The
  argument is the chain of the checks: the header makes the length readable, the length is the
  size, so that the fixed fields are there, and the name's end is within what the length leaves.
* Of Paths, for paths of any length: `EveryPathComesBack`. A path that has no prefix yet is
  assumed to be made, by the system's normalization, into one that begins with a drive or with
  `\\`, no other prefix, and is left alone when normalized again; a path that comes with `\\?\` is assumed not to
  go on with `\\`.

**RepairBatchProofs**, for any number of candidates, links and outside changes: `TypeCorrect`,
`SummaryCorrect`, `ExitCodeCorrect`, `InterruptCorrect`, `ApprovalCorrect`
(`MutationsAreApproved`), `ReportCorrect` (`MutationsAreReported`). The properties are not inductive:
`ExitCodeIsHonest` reads only a returned summary and so says nothing of the loop before it, and
`StopsAfterCurrentItem` would let an item begin after Ctrl+C. The inductive `BatchInv` is
`TypeOK`, `SummaryMatchesItems` (which keeps counters, items and position in step), `Settlement`
(`interrupted` and `remaining` are set by the return alone, and say whether a candidate was
left) and `Notice` (once the flag is set, the item at hand is the one it was set at). Lemmas
give what one more item does to the sets that are counted. The last two theorems need
`MutationInv` on top of `BatchInv`: a changed position is never ahead of the item at hand, and
during a repair the item at hand is changed exactly if the call has come as far as its stage says
(`AnswerFitsStage`: an answer of `Created` or `ReplacedBroken` is given after a change only, no
other outcome after one), and is approved before it begins.

**ChecklistModelProofs**, for lists and windows of any size and any input buffer: `TypeCorrect`,
`ViewportCorrect`, `WindowCorrect`, `ConsentCorrect`, `ScrollCorrect`. `ChecklistInv` adds to the
checked invariants that the page is clamped after every event (`PageOK`), and that nothing is
selected before the first frame. That no page nearer to the old one would hold the cursor
(`ScrollsLeast`) is then a fact of arithmetic about `clampViewportToCursor()`.

**FixCommandProofs**, for every command line, inventory and batch of any length, any Ctrl+C and
any outside change: `CollisionsSafe` (`CollisionsUntouched`), `ExitCodesTrue`
(`ExitCodeReports`), `ConsentCorrect` (`CommandConsent`), `OutputCorrect` (`JsonPure`),
`AnswersCorrect` (`AnswersKeepToTheirQuestions`), `FixTypeCorrect` (`FixTypeOK`). The inductive `FixInv` takes `LoopInv` and `MutationInv` of RepairBatchProofs, since the batch's
steps are steps of this module, and adds what the command prepares for it: `PhaseInv` (what is
settled in which phase: before the batch nothing of it has happened), `ListsOK` and `OfferInv` (the
candidates are items of the scan whose alias does not collide, and the checklist approves
only such), `ConsentFits` (the batch's options are those of the command line), `ExitInv` (which
exit code is left which way), `OutputInv` (what was printed by whom; the parser accepts no
`--json` that would ask), `InputInv` (what waits to be read is whole lines, each for a prompt to
come) and `TypedInv`. TLC checks `FixInv` on the instance of FixCommandSafety as well. That
the collisions are really taken out is an induction over `buildRepairCandidates()`' loop.

**TextProofs**, for texts of any length. `ConsoleCorrect` and `RedirectedCorrect`: each line
reader takes one whole line of any input, whatever the buffer and the limit, and leaves the rest
as it was; the answer is yes exactly if that line says so and fits. The console's reader gets a
line in chunks; the induction is over them, with what the queue is after each (`AfterChunk`,
`DrainedIs`). `QuotingExact`: the arguments the elevated process finds are those handed over, as
many and each as it was, unless one is `Fragile`. The scan is followed through one
argument (`Within`: what is taken of it so far, and how many backslashes at its end have not been
decided on) and then from argument to argument (`Between`, `Closed`). The case of a fragile
argument is the finding of RelaunchAltered. `JsonReadsBackExactly`: `escapeJsonString()` of any
sequence of UTF-16 code units, unpaired surrogates included, is read as the characters of that
text and in one way only. A character's bytes are in one of three forms (`ThreeForms`), whose
first two bytes settle how many there are, so that no representation of a character goes on where
another of the same ends (`OneLength`); that each is a legal one is arithmetic in steps of six
bits (`AppendsUtf8`). The loop steps over the second half of a surrogate pair, so that its
values are found by strides of one or two.

**InventoryProofs**, for any catalog, directory, pattern sets, rules files and failures:
`TypeCorrect`, `SourceCorrect` (`SourceAsRequested`), `ListCorrect` (`OnlyFaultsAlter`),
`SizeCorrect` (`OversizeNeverParsed`), `TierCorrect` (`TierIsFinal`), `ReportCorrect`
(`ReportedSource`), `FilterIsExact` (`FilterHonoursPatterns`), and, for patterns and values of any
length over any alphabet, `GlobsMatchExactly`: `matchesGlob()` remembers only the last `*` it has
passed; that this is enough is the lemma `AlwaysGreedy`: what an earlier `*` could take more, the
last one can as well. The loop goes back in the value, so that the recursion is along the star,
then the mark, then the position in the value. `FullInv` has one part for each of
the modules Inventory is made of: `SourceInv` (a list under construction is of the source at
work, and a second source starts only after `Unavailable`), `ListInv` (what is complete of the list
at each step of each loop), `FilterInv`, and `TierInv` (a tier is looked at only after those
before it were seen absent, and a text is parsed only if its size was within the limit). TLC
checks it on the instance of the run Inventory.

**TerminalSessionProofs**: `TypeCorrect`, `RaceCorrect` (`RestoredByOne`), `UnwindCorrect`
(`NeverPartial`), `HandlerCorrect` (`HandlerRestores`), `LifetimeCorrect`
(`NeverUsesFreedState`), `TeardownCorrect` (`TeardownReverses`). Taken alone they
say too little of the steps before: each looks at one thread at one place, while what makes it
true was done earlier, by either thread. `SessionInv` says it by the step: what is changed has its flag (`Recorded`); a
thread inside `restore()` has undone what its label says (`Undone`); only the winner of the
compare-exchange is inside (`OneWinner`); once the winner is out, everything is released, and the
session is not over before somebody has won (`Finished`); and the close handler cannot run before
there is a session (`Started`). TLC finds `SessionInv` to hold, and to be inductive from every
well-typed state that satisfies it.

**DataInduction** has what these need of induction: over a set of naturals, and for the
existence of a recursive function whose body is given as a function rather than an operator, on
the previous value (`LoopExists`) or the next two (`StrideExists`).
The library's theorems take the formula as an operator, which the provers cannot instantiate; a
set or a function they can.

Only model-checked:

* that a fragile argument never comes back as it was (`QuotingIsExact`, both directions of it,
  over short arguments);
* the liveness properties (`EveryCallEnds`, `ProcessExits`, `CloseEnds`, `InventoryEnds`): they
  rest on fairness and ENABLED, which the prover cannot treat;
* the functions of PathDisplay and ScanReport that MCReports compares.

No module declares a RECURSIVE operator.

## 6. Where code and documents disagree

Each has a run whose counterexample shows it.

| run, property | code | statement |
|---|---|---|
| RepairKilled, `NeverHalfMutated` | delete (`SymlinkService.cpp:304`) and create (`:315`) are two calls; a process that ends in between leaves Missing what was Broken | "repairLink() itself never leaves a candidate half-mutated regardless of how the process ends" (`Dispatch.cpp:773-774`) |
| RepairUnconfirmed, `EveryMutationConfirmed` | the prompt goes by the status of the scan, the repair by a new inspection: an item that was Ok or Mismatch and has become Missing or Broken is changed without a question | "recreates them after user confirmation" (`README.md:28`), "unless `--yes`, confirm one-by-one or in bulk" (`docs/PLAN.md:215`) |
| FixLostCtrlC, `CtrlCStopsBatch` | the handler is registered, then the flag is cleared (`Dispatch.cpp:777-785`): a Ctrl+C between the two is swallowed | "Ctrl+C stops the batch at the next opportunity" (`Dispatch.cpp:43-45`) |
| RelaunchAltered, `HandedOver` | arguments are quoted without doubling the backslashes before a closing quote (`Dispatch.cpp:224-232`), so `--links-dir "C:\links\" --yes` arrives as one directory, and `--yes` and what follows it is lost | "the original process exits successfully after handing off to the elevated instance" (`docs/adr-phase-9.md:34-35`) |
| InventoryPartial, `NeverSilentlyPartial` | the server's end during the last match makes a skipped package or an empty field of it; no later call notices | "Throws on unrecoverable enumeration failure ... rather than returning a partial result silently" (`IPackageSource.h:18-19`) |

Noticed while reading, without a run of their own:

* an inspection error in the middle of a batch unwinds it, and the command exits with the
  code of an argument error although links were changed, against `RepairBatch.h:156-157`
  (`Catch` in FixCommand has it);
* two instances repairing one link: the second may delete the healthy link the first just
  made and make it again, against `SymlinkService.h:187-188` ("Never touches an entry whose fresh
  state is Ok"). Or the handle that one has open to inspect keeps the entry the other has deleted:
  the creation fails with `ACCESS_DENIED`, the first instance then finds nothing to delete, and
  the link is gone although nothing failed. `LossIsReported` shows that one of them says so, but
  what it says is exit code 2, "insufficient permission (Developer Mode off and not elevated)"
  (`Dispatch.cpp:975`), with Developer Mode on;
* `--bogus --help` reports the unknown option: options are read left to right
  (`ArgParser.cpp:298-299` against `ArgParser.h:48-51`); ArgParser has the order;
* a close handler that loses the compare-exchange to the main thread returns at once, so that the
  process may end before the winner has restored the terminal, against
  `docs/adr-phase-6.md:102-118` (TerminalSession reaches the state);
* `test-rule --json` prints text (`JsonPure` is about scan and fix), and `fix --json --yes` that
  restarts as administrator exits with 0 and no document, against `docs/PLAN.md:484`;
* an elevated process is not waited for: 0 says that it was started (`Relaunched`);
* `abbreviateKnownFoldersInText()` rewrites the part behind `\\?\` of a path within a message,
  which `PathDisplay.cpp:182-184` says is left alone (PathDisplay has it);
* `fromExtendedLengthPath()` knows `\\?\UNC\` in capitals only, `stripNtNamespacePrefix()` in any
  case: the folders below a `--packages-dir` given as `\\?\unc\server\...` become relative paths
  (`Paths.cpp:93` and `LinkInspector.cpp:130-134`; Paths has both);
* `--verbose` looks a second time for the user's rules file and can name a tier other than the
  one used when the file comes or goes in between (`Dispatch.cpp:433`);
* an error of `directory_iterator::increment` makes the iterator the end iterator according to
  the C++ standard, so the loop's `continue` on it ends the scan (`FsScanSource.cpp:87`).
  `IncrementFails` has both outcomes.

## 7. What is not modelled

| part | why |
|---|---|
| which bytes of a name are which characters | SymlinkService takes a link's target as decoded or not; ReparseBuffer has the bounds, not the text |
| ECMAScript regular expressions, characters of alias file names, JSON syntax of rules | effects on each name, membership and well-formedness stand for them |
| the walk below one package's directory | one step that finds any part of what is there |
| event decoding and chunked writes of the terminal | keep no state |
| how `test-rule` chooses and reads the rules | Inventory has the same code for the other commands; in FixCommand it succeeds or fails |
| encoding and colour of Console; the names and order of the members of JSON documents | text of results that are modelled where they are made; FixCommand has which kind of text goes to the standard output |
| lexical normalization of paths, the shell's answers for known folders | the C++ library and Windows; `Normal` and `Reported` are constants, an unknown profile directory is an input of the package sources |
| the restriction of DLL directories in main.cpp | changes nothing here |
| calls that never return | the code has no timeouts; fairness assumes they return |
| system locks around the handler list | undocumented and outside the repository |

## 8. Plan

The order is that of importance: what changes the user's files first.

1. *Done.* LinkInspector, SymlinkService, LinkRepair and the refinement; RepairBatch on top of
   LinkRepair; FixCommand around it, with the command line, the restart as administrator and the
   prompts; ChecklistModel and TerminalSession; the package sources, filter, rules and their
   composition; the pure functions of reports, paths and reparse buffers. Every safety property
   of the passing runs proved but for those named at the end of section 5, and with them the
   refinement, the line readers, the quoting of arguments, the exactness of globs, the JSON
   writer's strings, the decoder of reparse buffers and the prefixes of paths.
2. *Prove next.* The functions of PathDisplay and ScanReport that MCReports compares over small
   inputs: that the innermost known folder is the one named first.
3. *Extend next.* Inventory shown to implement FixCommand's `Enumerate`; TerminalSession
   composed with the drawing of frames, so that a write after the close handler's restore is a
   step.

## 9. Running it

```
tlasany SymlinkService.tla                               # parse
tlc -workers 2 -config RepairRaces.cfg MCSymlinkService  # one run
tlapm RepairBatchProofs.tla                              # one proof module
```

`PROJECT.json` names the module and configuration of every run. A run listed there as
"violation" is expected to end with a counterexample, all others without error.
