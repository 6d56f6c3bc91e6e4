--------------------------- MODULE MCMicromapStore ---------------------------
(***************************************************************************)
(* The opacity micromap store with two keys, one of which takes all the    *)
(* room there is.                                                          *)
(***************************************************************************)
EXTENDS MicromapStore

CONSTANTS k1, k2

TwoKeys == {k1, k2}
InOrder == <<k1, k2>>
TwoAndOne == (k1 :> 2) @@ (k2 :> 1)
OneAndTwo == (k1 :> 1) @@ (k2 :> 2)

=============================================================================
