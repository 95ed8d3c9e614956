---------------------------- MODULE MCTeamConvert ----------------------------
(* Rows 1, 2, ... alternate between the tables from the first one on.       *)
EXTENDS TeamConvert

MCTableOf == [r \in Rows |-> 1 + ((r - 1) % NTables)]
=============================================================================
