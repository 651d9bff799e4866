---------------------------- MODULE MCTraceBatch ----------------------------
EXTENDS TraceBatch

MCLength == [r \in Runs |-> IF r = "first" THEN 1 ELSE 4]
=============================================================================
