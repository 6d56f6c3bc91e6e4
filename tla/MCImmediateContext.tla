-------------------------- MODULE MCImmediateContext --------------------------
(* Instances of ImmediateContext: one buffer of each usage; the slices of a  *)
(* buffer are interchangeable.                                               *)
EXTENDS ImmediateContext

CONSTANTS a1, a2, b1, s1, s2, s3

AllCommands == Command

OneThread   == {a1}
TwoThreads  == {a1, a2}
OneBuffer   == {b1}
AnyUsage    == Usage
Staging     == {"staging"}
Shared      == {"shared"}
TwoSlices   == {s1, s2}
ThreeSlices == {s1, s2, s3}

SliceSymmetry == Permutations(Slices)
=============================================================================
