-------------------------- MODULE MCBlockTransfer --------------------------
\* Instances of BlockTransfer for TLC: a transfer of two full chunks, and a
\* transfer of one short chunk.
EXTENDS BlockTransfer

CONSTANTS long, short

MCJobs   == {long, short}
MCFrames == [j \in MCJobs |-> IF j = long THEN 6 ELSE 1]
=============================================================================
