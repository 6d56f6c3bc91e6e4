---------------------------- MODULE MCWorkerPool -----------------------------
(* The instantiations of WorkerThreadPool the program has.                 *)
EXTENDS WorkerPool

(* D3D11Rtx: spins, and sleeps when idle waiting is on.                    *)
geometry == [stealing |-> TRUE, lowLatency |-> TRUE, idle |-> TRUE, collected |-> TRUE]

(* The finalizer of deferred pipeline compilations.                        *)
finalizer == [stealing |-> TRUE, lowLatency |-> FALSE, idle |-> FALSE, collected |-> TRUE]

(* The asset exporter.                                                     *)
exporter == [stealing |-> FALSE, lowLatency |-> FALSE, idle |-> FALSE, collected |-> FALSE]

AllPools == {geometry, finalizer, exporter}

(* A behaviour is followed up to an overrun, after which the properties    *)
(* promise nothing.  It is a step of Schedule, which nothing obliges the   *)
(* client to take.                                                         *)
BeforeOverrun == ~overrun
=============================================================================
