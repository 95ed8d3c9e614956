---------------------------- MODULE MCCapturePath ----------------------------
(* CapturePath for TLC.  Hooks are numbered: one finds a team server, the  *)
(* next finds nothing reachable.  All of them work in one project, and     *)
(* every session starts in another.                                        *)
EXTENDS CapturePath, TLC

MCContext == [h \in Hooks |-> IF h % 2 = 1 THEN "team" ELSE "unreachable"]
MCHome == [h \in Hooks |-> "project"]
MCHere == [s \in Sessions |-> "elsewhere"]

(* Flushes and passes work on different files and share no state, so what  *)
(* happens to a file happens without the other's readers too: a behaviour  *)
(* has either flushes or passes that generate, each with every hook.       *)
FlushesOrPasses ==
    \/ \A s \in Sessions : flush[s].pc = "idle"
    \/ verdicts = {} /\ \A p \in Passes : pass[p].pc = "idle"

PassSymmetry == Permutations(Passes)
=============================================================================
