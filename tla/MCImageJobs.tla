----------------------------- MODULE MCImageJobs -----------------------------
(* The model-checking instance of ImageJobs. *)
EXTENDS ImageJobs, TLC

\* A provider that can cancel a submission can also be asked for a lost one, or neither.
MCInit == Init /\ target.cancel = target.reconcile

\* Items are worked on at once until the process ends or the job is reopened, and one at
\* a time after that.
OneAtATime == stops + reconciles > 0 /\ Running # {} => Running' \subseteq Running

MCSpec == MCInit /\ [][Next /\ OneAtATime]_vars /\ Fairness
=============================================================================
