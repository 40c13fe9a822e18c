--------------------------- MODULE MC_Lifecycle ---------------------------
(* Lifecycle on small instances.                                           *)
EXTENDS Lifecycle

\* Bound: an upload is looked at in behaviours with at most one fault, which leaves no
\* loop hanging and no pass without its lock.
UploadOrFault ==
  \/ history.uploads = 0
  \/ /\ faults <= 1
     /\ \A i \in Instances : stuck[i] = {} /\ (pass[i] # NoPass => lock = i)
=============================================================================
