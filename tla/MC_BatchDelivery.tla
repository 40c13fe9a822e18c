-------------------------- MODULE MC_BatchDelivery --------------------------
\* BatchDelivery on small instances: bounds and symmetry for TLC.
EXTENDS BatchDelivery, TLC

\* Instances are interchangeable, and so are destinations.
BatchSymmetry == Permutations(Instances) \cup Permutations(Dests)

\* A bound for the search of a counterexample: some file is malformed, and scanning
\* starts when all files are there.
MalformedCompany ==
  /\ setup.bad # {}
  /\ \A n \in Names : arrivals[n] = 0 => \A i \in Instances : scan[i] = NoScan

\* Two searches in one run: a single file through all of its processing, and the
\* formation of batches of several files while no worker has started.
OneBatchOrFormation ==
  \/ (\A n \in Names : arrivals[n] > 0 => n = 1) /\ Len(bt) <= 1
  \/ (\A i \in Instances, b \in Batches : w[i][b] = Idle) /\ faults = 0
=============================================================================
