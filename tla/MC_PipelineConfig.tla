------------------------- MODULE MC_PipelineConfig -------------------------
(* PipelineConfig on small instances.                                      *)
EXTENDS PipelineConfig, TLC

A   == <<"a">>
C   == <<"c">>
X   == <<"x">>
Dft == <<"default">>
Out == <<"output">>

AllReads == [d \in DestNames |-> IF d = Default THEN Fields ELSE {}]
Old == [p \in Legacy |-> A]

\* Two requests overlap with each other and with one batch; a third one and a second
\* batch come in behaviours in which no copy is out of date and every pipeline was made
\* with the fields its destinations draw from.
TwoOverlap ==
  \/ history.writes <= 2 /\ history.batches <= 1
  \/ /\ \A p \in Pipelines : ~history.raced[p] /\ <<p, {}>> \notin unseen
     /\ Cardinality({u \in Requests : desk[u] # Idle}) <= 1

SameRequests == Permutations(Requests)

TwoNames == {A, C}
TwoDests == {Dft, X}
=============================================================================
