------------------------- MODULE MCProjectIdentity -------------------------
(* Every session and the join work in one directory, where git may bring a  *)
(* committed team marker at any time.                                       *)
EXTENDS ProjectIdentity

CONSTANTS d1

MCDirOf == [a \in Actors |-> d1]
=============================================================================
