-------------------------- MODULE MCGeometryClient ---------------------------
(* The pool of a deferred context: one worker, no idle waiting.            *)
EXTENDS GeometryClient

deferredGeometry == [stealing |-> TRUE, lowLatency |-> TRUE, idle |-> FALSE, collected |-> TRUE]

Deferred == {deferredGeometry}
=============================================================================
