---------------------------- MODULE MC_FileClaim ----------------------------
\* FileClaim on small instances: bounds and symmetry for TLC.
EXTENDS FileClaim, TLC

\* Instances are interchangeable: no action or invariant names one.
InstanceSymmetry == Permutations(Instances)
=============================================================================
