--------------------------- MODULE MCContextThreads --------------------------
(* The CS thread under the context, or bare: under callers that dispatch   *)
(* and synchronize at any time, as CsThread has them.                      *)
EXTENDS MCImmediateContext

VARIABLE bare

contextVars ==
  <<callVars, streamVars, seqOf, sliceVars, listVars, deferred, closing, usage>>
threadVars  == <<vars, bare>>

Under(step) == ~bare /\ step /\ UNCHANGED bare
Bare(step)  == bare /\ step /\ UNCHANGED <<contextVars, bare>>

ThreadInit == Init /\ bare \in BOOLEAN

ThreadNext == Under(Next) \/ Bare(CsNext)

\* The fairness of FairSpec for the one, of CsFairSpec for the other.
ThreadSpec ==
  /\ ThreadInit /\ [][ThreadNext]_threadVars
  /\ \A a \in Callers : WF_threadVars(Under(CallStep(a)) \/ Bare(SyncStep(a)))
  /\ WF_threadVars(Under(CsStep) \/ Bare(WorkerStep))
  /\ WF_threadVars(Under(GpuStep))
=============================================================================
