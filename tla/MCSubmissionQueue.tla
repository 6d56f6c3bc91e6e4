-------------------------- MODULE MCSubmissionQueue --------------------------
(***************************************************************************)
(* Small instances of SubmissionQueue for TLC.  Back pressure is reached   *)
(* with MaxQueued = 0 or 1 in place of 18: submit() then blocks on the     *)
(* second or third list.                                                   *)
(***************************************************************************)
EXTENDS SubmissionQueue, TLC

CONSTANTS l1, l2, l3, cs, app

OneList    == {l1}
TwoLists   == {l1, l2}
ThreeLists == {l1, l2, l3}
CsOnly     == {cs}
AppOnly    == {app}
CsAndApp   == {cs, app}
NoThread   == {}

NoFailure   == {}
LossOnly    == {"DEVICE_LOST"}
MemoryOnly  == {"OUT_OF_MEMORY"}
AnyFailure  == {"OUT_OF_MEMORY", "DEVICE_LOST"}

\* Command lists are interchangeable.  Used by the runs without liveness.
ListSymmetry == Permutations(CmdLists)
=============================================================================
