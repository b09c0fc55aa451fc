---- MODULE MCLoopPrevention ----
EXTENDS LoopPrevention, TLC

\* The deliveries are interchangeable: nothing but their number tells them apart.
Interchangeable == Permutations(Deliveries)
====
