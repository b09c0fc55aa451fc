-------------------------- MODULE MCDatabaseAccess --------------------------
\* Two systems that keep their tables in one file, as those of radar_data.db.
EXTENDS DatabaseAccess

CONSTANTS r, w1, w2, s, u, c1, d1, radar, weather, file

MCFileOf == [x \in {radar, weather} |-> file]
MCSystemOf == [x \in {r, w1, w2, s, u, c1, d1} |->
                 IF x \in {r, w2, d1} THEN weather ELSE radar]
=============================================================================
