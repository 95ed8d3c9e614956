--------------------------- MODULE MCPoolRegistry ---------------------------
(* All callers but one belong to one project.                               *)
EXTENDS PoolRegistry

CONSTANTS main, other, visitor, request, worker

MCProjectOf == [c \in Callers |-> IF c = visitor THEN other ELSE main]
=============================================================================
