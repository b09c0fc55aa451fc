--------------------------- MODULE MCAsyncHandler ---------------------------
\* Instances of AsyncHandler for TLC.
EXTENDS AsyncHandler, TLC

Symmetry == Permutations(Producers) \cup Permutations(Workers) \cup Permutations(Dogs)
              \cup Permutations(Controllers)
=============================================================================
