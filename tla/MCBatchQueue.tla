---------------------------- MODULE MCBatchQueue ----------------------------
\* Instances of BatchQueue for TLC: ecu_data and surface_data, which have as
\* many columns and share the batch of flight_control_computer, and a wider one.
EXTENDS BatchQueue

CONSTANTS r1, r2, r3, ecu_data, surface_data, wide

MCRows    == {r1, r2, r3}
MCTables  == {ecu_data, surface_data, wide}
MCTableOf == [r \in MCRows |->
               CASE r = r1 -> ecu_data [] r = r2 -> surface_data [] r = r3 -> wide]
MCColumns == [t \in MCTables |-> IF t = wide THEN 3 ELSE 2]
=============================================================================
