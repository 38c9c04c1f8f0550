--------------------------- MODULE MCSymlinkService ---------------------------
(***************************************************************************)
(* Instances of SymlinkService for TLC.                                    *)
(***************************************************************************)
EXTENDS SymlinkService, TLC

CONSTANTS link1, link2, exe, other, call1, call2, call3

\* One Execute call and one DryRun call, each on a link of its own.
ModesCalls  == {call1, call2}
ModesLinks  == {link1, link2}
ModesLinkOf == (call1 :> link1) @@ (call2 :> link2)
ModesModeOf == (call1 :> "Execute") @@ (call2 :> "DryRun")

\* Calls of several instances of the program, all on one link.
SharedLinks     == {link1}
SharedLinkOf    == [c \in Calls |-> link1]
SharedExeOf     == [c \in Calls |-> exe]
SharedModeOf    == [c \in Calls |-> "Execute"]

===============================================================================
