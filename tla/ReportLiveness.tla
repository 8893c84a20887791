--------------------------- MODULE ReportLiveness ---------------------------
(***************************************************************************)
(* Does recovery finish what a crash, an OSError or a power failure left?  *)
(* ReportFinalization under the fairness its callers justify. The faults   *)
(* end when, from some moment on, every step is one that a process without *)
(* faults might have taken.                                                *)
(***************************************************************************)
EXTENDS ReportFinalization

OneGoesOn == \E w \in Workers : Work(w)
OneRecovers == \E w \in Workers : BeginRecovery(w)

Normal == (\E w \in Workers : Call(w) \/ Work(w)) \/ Seal

FaultsEnd == <>[][Normal]_vars

\* A transaction that has begun ends, a worker goes on, and somebody runs
\* recover again and again while the mission runs.
Fairness == WF_vars(Seal) /\ WF_vars(OneGoesOn) /\ SF_vars(OneRecovers)

LiveSpec == Spec /\ Fairness

\* Recovery settles a mission that crashed around its report: whatever files
\* were left or lost, once the faults end it is sealed or interrupted, and does
\* not run for good.
RunningEnds == FaultsEnd => (status = "running" ~> status # "running")
=============================================================================
