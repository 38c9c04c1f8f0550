---------------------------- MODULE PackageSource ----------------------------
(***************************************************************************)
(* Where the list of installed packages comes from: the winget COM server  *)
(* (core/WingetComSource.cpp), a scan of the Packages directory            *)
(* (core/FsScanSource.cpp, core/ExecutableScanner.cpp), and the --source   *)
(* option that chooses between them (core/PackageSourceFactory.cpp).       *)
(*                                                                         *)
(* Every COM call goes to another process.  It can fail by itself, and the *)
(* server can be gone between any two calls.  A list sorted by id is the   *)
(* set of its elements.                                                    *)
(***************************************************************************)
EXTENDS Naturals, Sequences, FiniteSets

CONSTANTS
  Packages,      \* what winget knows and what lies in the Packages directory
  Executables,
  Catalog,       \* the matches of FindPackages, in the server's order
  Installed,     \* those with an InstalledVersion()
  Portable,      \* those whose InstallerType is "portable"
  Located,       \* those with an InstalledLocation
  Folder,        \* what a package's entry in the Packages directory is
  Named,         \* those whose directory name gives a non-empty id
  ExecutablesOf, \* the .exe files below a package's folder
  HResults       \* the HRESULTs a COM call fails with while its server lives

\* HRESULT of a call to a server that is gone, and the mark of a failed file
\* system call, which has no HRESULT.
Disconnected == "RPC_E_DISCONNECTED"
IoError      == "IoError"

ASSUME PackageAssumption ==
  /\ Catalog \in Seq(Packages)
  /\ {Installed, Portable, Located, Named} \subseteq SUBSET Packages
  /\ Folder \in [Packages -> {"directory", "reparse", "file", "none"}]
  /\ ExecutablesOf \in [Packages -> SUBSET Executables]
  /\ HResults \subseteq {"REGDB_E_CLASSNOTREG", "CO_E_SERVER_EXEC_FAILURE",
                         "CLASS_E_CLASSNOTAVAILABLE", "E_ACCESSDENIED",
                         "APPMODEL_ERROR_NO_PACKAGE", "E_FAIL"}

PackageSourceErrorKind ==
  {"AppInstallerMissing", "PolicyBlocked", "AccessDenied", "ServerUnavailable",
   "CatalogError", "ScanFailed", "PackageIdentityRequired", "Unknown"}

mapHresultToKind(hresult) ==
  CASE hresult \in {"REGDB_E_CLASSNOTREG", "CO_E_SERVER_EXEC_FAILURE",
                    "CLASS_E_CLASSNOTAVAILABLE"}    -> "AppInstallerMissing"
    [] hresult = "E_ACCESSDENIED"                   -> "AccessDenied"
    [] hresult = Disconnected                       -> "ServerUnavailable"
    [] hresult = "APPMODEL_ERROR_NO_PACKAGE"        -> "PackageIdentityRequired"
    [] OTHER                                        -> "Unknown"

classifyFindPackagesStatus(status) ==
  CASE status = "BlockedByPolicy" -> "PolicyBlocked"
    [] status = "AccessDenied"    -> "AccessDenied"
    [] status = "CatalogError"    -> "CatalogError"
    [] OTHER                      -> "Unknown"

VARIABLES
  requested,  \* AppOptions::source
  root,       \* what is at the path of the Packages directory
  server,     \* the winget server behind the PackageManager; "released" once done with
  step,       \* the call made next
  current,    \* index in Catalog of the match looked at
  unvisited,  \* entries the directory iterator has not returned yet
  packages,   \* the list built so far, then the result
  resolved,   \* AutoPackageSource::m_resolvedSource
  degraded,   \* the errors onDegrade was called with, in order
  outcome,    \* "running", "packages", or the exception that ended it
  swallowed   \* history: packages a failed call about which was passed over

sourceVars  == <<requested, root, server, step, current, unvisited, packages,
                 resolved, degraded, outcome, swallowed>>

\* The calls of Impl::initialize() and buildFindPackagesOptions(), in order,
\* and those of enumeratePackagesImpl() before and for each match.
AfterCall ==
  [PackageManager |-> "GetLocalPackageCatalog", GetLocalPackageCatalog |-> "Connect",
   Connect |-> "ConnectResult", ConnectResult |-> "FindPackagesOptions",
   FindPackagesOptions |-> "PackageMatchFilter", PackageMatchFilter |-> "Filters",
   Filters |-> "FindPackages", FindPackages |-> "Status", Status |-> "Matches",
   Matches |-> "NextMatch", NextMatch |-> "InstalledVersion",
   InstalledVersion |-> "InstallerType", InstallerType |-> "InstalledLocation",
   InstalledLocation |-> "Id", Id |-> "NextMatch"]

Activations    == {"PackageManager", "FindPackagesOptions", "PackageMatchFilter"}
Initialization == Activations \cup {"GetLocalPackageCatalog", "Connect",
                                    "ConnectResult", "Filters"}
MatchCalls     == {"InstalledVersion", "InstallerType", "InstalledLocation", "Id"}
ComCalls       == DOMAIN AfterCall

InstalledPackage ==
  [package : Packages, executables : SUBSET Executables, origin : {"Com", "FileSystem"}]

SourceTypeOK ==
  /\ requested \in {"Auto", "Com", "FileSystem"}
  /\ root \in {"directory", "file", "absent", "denied", "unknown"}
  /\ server \in {"up", "gone", "released"}
  /\ step \in ComCalls \cup {"packagesDirectory", "isDirectory", "open", "visit",
                             "increment", "end"}
  /\ current \in 0 .. Len(Catalog)
  /\ unvisited \subseteq Packages
  /\ packages \subseteq InstalledPackage
  /\ resolved \in {"Auto", "Com", "FileSystem"}
  /\ degraded \in Seq(PackageSourceErrorKind)
  /\ outcome \in {"running", "packages", "system_error"} \cup PackageSourceErrorKind
  /\ swallowed \subseteq Packages \X (HResults \cup {Disconnected, IoError})

\* createPackageSource(): the COM factory is never called for --source fs.
SourceInit ==
  /\ requested \in {"Auto", "Com", "FileSystem"}
  /\ root \in {"directory", "file", "absent", "denied", "unknown"}
  /\ server = IF requested = "FileSystem" THEN "released" ELSE "up"
  /\ step = IF requested = "FileSystem" THEN "packagesDirectory" ELSE "PackageManager"
  /\ current = 0
  /\ unvisited = {}
  /\ packages = {}
  /\ resolved = "Auto"
  /\ degraded = << >>
  /\ outcome = "running"
  /\ swallowed = {}

-------------------------------------------------------------------------------
\* The ways enumeratePackages() of the source in use ends.
Return(result) == /\ packages' = result
                  /\ outcome' = "packages"
                  /\ step' = "end"

Throw(error) == /\ packages' = {}
                /\ outcome' = error
                /\ step' = "end"
                /\ swallowed' = {}

\* Mutant: the list is built in a member that survives the exception.
UnavailableKeepsList(kind) ==
  /\ server' = "released"
  /\ current' = 0
  /\ IF requested = "Auto"
     THEN /\ degraded' = Append(degraded, kind)
          /\ resolved' = "FileSystem"
          /\ step' = "packagesDirectory"
          /\ UNCHANGED <<packages, swallowed, outcome>>
     ELSE /\ Throw(kind)
          /\ UNCHANGED <<degraded, resolved>>
  /\ UNCHANGED <<requested, root, unvisited>>

\* A PackageSourceError of the COM source, whether initialize() reports it or
\* enumeratePackages() throws it: what was collected goes with it.  Only
\* AutoPackageSource goes on, to the Packages directory.
Unavailable(kind) ==
  /\ server' = "released"
  /\ current' = 0
  /\ IF requested = "Auto"
     THEN /\ degraded' = Append(degraded, kind)
          /\ resolved' = "FileSystem"
          /\ step' = "packagesDirectory"
          /\ packages' = {}
          /\ swallowed' = {}
          /\ UNCHANGED outcome
     ELSE /\ Throw(kind)
          /\ UNCHANGED <<degraded, resolved>>
  /\ UNCHANGED <<requested, root, unvisited>>

\* A CoCreateInstance() starts a server if it must, and the filter is built in
\* the one that start gave; every other call needs the server of the manager.
StartsServer == Activations \cup {"Filters"}

Returns(call) == /\ step = call
                 /\ call \in StartsServer \/ server = "up"

Fails(call, hresult) ==
  /\ step = call
  /\ IF server = "gone" /\ call \notin StartsServer
     THEN hresult = Disconnected
     ELSE hresult \in HResults

\* One call of Impl::initialize(), or of enumeratePackagesImpl() before the
\* loop, that succeeds.
Call(call) ==
  /\ Returns(call)
  /\ step' = AfterCall[call]
  /\ UNCHANGED <<requested, root, server, current, unvisited, packages, resolved,
                 degraded, outcome, swallowed>>

\* The same call failing: createInstanceNoThrow() reports, the others throw a
\* winrt::hresult_error, and all become a PackageSourceError.  A failing GetAt()
\* of the loop's iterator is one of them.
CallFails(call) ==
  \E hresult \in HResults \cup {Disconnected} :
    /\ Fails(call, hresult)
    /\ Unavailable(mapHresultToKind(hresult))

\* Connect() returned a status other than Ok.
ConnectNotOk ==
  /\ Returns("ConnectResult")
  /\ Unavailable("CatalogError")

\* FindPackages() returned a status other than Ok.
FindNotOk ==
  /\ Returns("Status")
  /\ \E status \in {"BlockedByPolicy", "AccessDenied", "CatalogError", "InternalError"} :
       Unavailable(classifyFindPackagesStatus(status))

\* Mutant: the loop's bound is one too many.
GetAtPastEnd ==
  /\ Returns("NextMatch")
  /\ current' = current + 1
  /\ step' = "InstalledVersion"
  /\ UNCHANGED <<requested, root, server, unvisited, packages, resolved, degraded,
                 outcome, swallowed>>

\* The iterator moves to the next match.
GetAt ==
  /\ Returns("NextMatch")
  /\ current < Len(Catalog)
  /\ current' = current + 1
  /\ step' = "InstalledVersion"
  /\ UNCHANGED <<requested, root, server, unvisited, packages, resolved, degraded,
                 outcome, swallowed>>

\* The loop is over: its bound was read when it began, so no call is needed.
ComReturns ==
  /\ step = "NextMatch"
  /\ current = Len(Catalog)
  /\ Return(packages)
  /\ resolved' = IF requested = "Auto" THEN "Com" ELSE resolved
  /\ server' = "released"
  /\ current' = 0
  /\ UNCHANGED <<requested, root, unvisited, degraded, swallowed>>

Match == Catalog[current]

\* What the calls about a match say of it, in the order they are made.
Wanted(call) == CASE call = "InstalledVersion"  -> Match \in Installed
                  [] call = "InstallerType"     -> Match \in Portable
                  [] call = "InstalledLocation" -> Match \in Located
                  [] call = "Id"                -> TRUE

\* Id(), Name() and Version() were the last calls; the executables are found on
\* disk, by a walk that stops without a word where the file system fails.
\* A package without any is listed all the same.
Listed(p, found) ==
  /\ packages' = packages \cup {[package |-> p, executables |-> found, origin |-> "Com"]}
  /\ swallowed' = IF found = ExecutablesOf[p] THEN swallowed
                  ELSE swallowed \cup {<<p, IoError>>}

MatchCall(call) ==
  /\ Returns(call)
  /\ IF call = "Id"
     THEN /\ \E found \in SUBSET ExecutablesOf[Match] : Listed(Match, found)
          /\ step' = "NextMatch"
     ELSE /\ step' = IF Wanted(call) THEN AfterCall[call] ELSE "NextMatch"
          /\ UNCHANGED <<packages, swallowed>>
  /\ UNCHANGED <<requested, root, server, current, unvisited, resolved, degraded,
                 outcome>>

\* Mutant: a call about a match is made again when it fails.
MatchCallRetries(call) ==
  /\ \E hresult \in HResults \cup {Disconnected} : Fails(call, hresult)
  /\ UNCHANGED sourceVars

\* A call about one match fails: the match is passed over, either by the inner
\* catch or because getMetadataOrEmpty() makes an empty string of the failure.
MatchCallFails(call) ==
  /\ \E hresult \in HResults \cup {Disconnected} :
       /\ Fails(call, hresult)
       /\ swallowed' = swallowed \cup {<<Match, hresult>>}
  /\ step' = "NextMatch"
  /\ UNCHANGED <<requested, root, server, current, unvisited, packages, resolved,
                 degraded, outcome>>

\* The server ends, is updated or crashes.
ServerGone ==
  /\ server = "up"
  /\ server' = "gone"
  /\ UNCHANGED <<requested, root, step, current, unvisited, packages, resolved,
                 degraded, outcome, swallowed>>

-------------------------------------------------------------------------------
fixed == <<requested, root, server, current, resolved, degraded>>

\* The factory of the filesystem source asks for the Packages directory; the
\* std::system_error of a profile without one is no PackageSourceError.
PackagesDirectory ==
  /\ step = "packagesDirectory"
  /\ IF root = "unknown"
     THEN Throw("system_error")
     ELSE /\ step' = "isDirectory"
          /\ UNCHANGED <<packages, outcome, swallowed>>
  /\ UNCHANGED <<fixed, unvisited>>

\* No directory there is an empty result; one that cannot be seen is an error.
IsDirectory ==
  /\ step = "isDirectory"
  /\ \/ /\ root \in {"absent", "file"}
        /\ Return({})
        /\ UNCHANGED swallowed
     \/ /\ root = "denied"
        /\ Throw("ScanFailed")
     \/ /\ root = "directory"
        /\ step' = "open"
        /\ UNCHANGED <<packages, outcome, swallowed>>
  /\ UNCHANGED <<fixed, unvisited>>

Entries == {p \in Packages : Folder[p] # "none"}

\* The iterator is made, with its first entry, or cannot be.
OpenDirectory ==
  /\ step = "open"
  /\ unvisited' = Entries
  /\ \/ /\ Entries = {}
        /\ Return({})
        /\ UNCHANGED swallowed
     \/ /\ Entries # {}
        /\ step' = "visit"
        /\ UNCHANGED <<packages, outcome, swallowed>>
     \/ Throw("ScanFailed")
  /\ UNCHANGED fixed

\* Mutant: junctions and symbolic links are entered like folders.
VisitReparsePoints(p) ==
  /\ step = "visit"
  /\ p \in unvisited
  /\ unvisited' = unvisited \ {p}
  /\ \E found \in SUBSET ExecutablesOf[p] :
       LET entered == Folder[p] \in {"directory", "reparse"}
       IN  /\ packages' = IF entered /\ found # {} /\ p \in Named
                          THEN packages \cup {[package |-> p, executables |-> found,
                                               origin |-> "FileSystem"]}
                          ELSE packages
           /\ swallowed' = IF entered /\ found # ExecutablesOf[p]
                           THEN swallowed \cup {<<p, IoError>>}
                           ELSE swallowed
  /\ step' = "increment"
  /\ UNCHANGED <<fixed, outcome>>

\* The loop's body for an entry.  isReparsePoint() takes an attribute query that
\* fails for a no; a folder without executables or without an id is left out.
Visit(p) ==
  /\ step = "visit"
  /\ p \in unvisited
  /\ unvisited' = unvisited \ {p}
  /\ \E misread \in BOOLEAN, found \in SUBSET ExecutablesOf[p] :
       LET entered == Folder[p] = "directory" \/ (misread /\ Folder[p] = "reparse")
       IN  /\ packages' = IF entered /\ found # {} /\ p \in Named
                          THEN packages \cup {[package |-> p, executables |-> found,
                                               origin |-> "FileSystem"]}
                          ELSE packages
           /\ swallowed' = IF entered /\ (misread \/ found # ExecutablesOf[p])
                           THEN swallowed \cup {<<p, IoError>>}
                           ELSE swallowed
  /\ step' = "increment"
  /\ UNCHANGED <<fixed, outcome>>

\* increment(error), then the loop's condition.
Increment ==
  /\ step = "increment"
  /\ IF unvisited # {} THEN /\ step' = "visit"
                            /\ UNCHANGED <<packages, outcome>>
                       ELSE Return(packages)
  /\ UNCHANGED <<fixed, unvisited, swallowed>>

\* It fails.  The C++ standard makes the iterator equal to end(), and the loop
\* is over before its body sees the error; a library that leaves the iterator
\* where it is lets the body throw.
IncrementFails ==
  /\ step = "increment"
  /\ \/ /\ Return(packages)
        /\ swallowed' = swallowed \cup {<<p, IoError>> : p \in unvisited}
     \/ Throw("ScanFailed")
  /\ UNCHANGED <<fixed, unvisited>>

\* The calls whose failure ends the COM source.
FatalCalls == Initialization \cup {"FindPackages", "Status", "Matches"}

ComStep ==
  \/ \E call \in FatalCalls : Call(call) \/ CallFails(call)
  \/ ConnectNotOk
  \/ FindNotOk
  \/ GetAt
  \/ current < Len(Catalog) /\ CallFails("NextMatch")
  \/ \E call \in MatchCalls : MatchCall(call) \/ MatchCallFails(call)
  \/ ComReturns

FileSystemStep ==
  \/ PackagesDirectory
  \/ IsDirectory
  \/ OpenDirectory
  \/ \E p \in Packages : Visit(p)
  \/ Increment
  \/ IncrementFails

SourceStep == ComStep \/ FileSystemStep

-------------------------------------------------------------------------------
Origin == IF requested = "Auto" THEN resolved ELSE requested

\* The list comes from one source, the one asked for.  With --source auto it
\* comes from the Packages directory exactly when the user was told, once, that
\* the COM source failed; an empty list of that source is no such failure.
SourceAsRequested ==
  /\ outcome = "packages" =>
       /\ \A entry \in packages : entry.origin = Origin
       /\ Origin = "FileSystem" <=> (requested = "FileSystem" \/ degraded # << >>)
  /\ Len(degraded) <= IF requested = "Auto" THEN 1 ELSE 0
  /\ outcome = "ScanFailed" => requested # "Com"

\* What each source lists of a package when no call about it fails.
Expected(p) ==
  LET entry == [package |-> p, executables |-> ExecutablesOf[p], origin |-> Origin]
      listed == IF Origin = "Com"
                THEN p \in Installed \cap Portable \cap Located /\ \E i \in DOMAIN Catalog : Catalog[i] = p
                ELSE /\ root = "directory" /\ Folder[p] = "directory"
                     /\ p \in Named /\ ExecutablesOf[p] # {}
  IN  {e \in {entry} : listed}

\* A failed call costs the list the package it was about, and no other one: of
\* all the rest, the list has exactly what the source is there to find.
OnlyFaultsAlter ==
  outcome = "packages" =>
    \A p \in Packages : (\A fault \in swallowed : fault[1] # p)
                          => {entry \in packages : entry.package = p} = Expected(p)

\* core/IPackageSource.h:18-19: an unrecoverable failure is thrown, and never
\* returned as a partial result.  A server that is gone is one, since every call
\* after it fails: no package it would have listed is missing for that reason.
NeverSilentlyPartial ==
  outcome = "packages" =>
    \A p \in Packages : <<p, Disconnected>> \in swallowed => Expected(p) = {}
===============================================================================
