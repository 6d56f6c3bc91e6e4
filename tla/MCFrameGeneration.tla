-------------------------- MODULE MCFrameGeneration --------------------------
(* Environments of FrameGeneration for TLC.                                *)
EXTENDS FrameGeneration

World(faults, changes, overtake) ==
    [faults |-> faults, changes |-> changes, overtake |-> overtake]

(* Nothing fails and nothing changes.                                      *)
calm == World({}, FALSE, FALSE)

(* The same, with a CS thread that may be slower than the present thread.  *)
slow == World({}, FALSE, TRUE)

(* The failures whose error path leaves the frame.                         *)
failing == World({"firstPresent", "renderedAcquire", "renderedPresent"}, FALSE, FALSE)

(* A multiplier that changes and a swap chain that is recreated for it.    *)
changing == World({}, TRUE, FALSE)

(* The failures after which the loops go on with the frame.                *)
breaking == World({"interpolatedAcquire", "pacedPresent"}, FALSE, FALSE)

frames      == {calm, slow, failing, changing}
overtaking  == {World({"renderedPresent"}, FALSE, TRUE)}
onlyFailing == {failing}
onlyBreaks  == {breaking}
onlyChanges == {changing}
=============================================================================
