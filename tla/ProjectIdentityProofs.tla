----------------------- MODULE ProjectIdentityProofs -----------------------
(* Proofs about ProjectIdentity, for any sessions, joins, directories and   *)
(* bounds.                                                                  *)
EXTENDS ProjectIdentity, TLAPS

-----------------------------------------------------------------------------
(* Types.                                                                   *)

(* A process that has come so far has a team, and a key.                    *)
Named ==
  \A a \in Actors :
    /\ pc[a] \in {"upsert", "gate", "check", "lock", "break", "read", "write",
                  "unlock", "insert", "flip", "merge"} => team[a] \in Teams
    /\ pc[a] \in {"check", "lock", "break", "read", "write", "unlock", "insert", "flip"} =>
         key[a] \in Actors
    /\ pc[a] = "merge" => project[a] \in Projects

LEMMA InitTypes == Init => TypeOK
  <1> SUFFICES ASSUME Init PROVE TypeOK
    OBVIOUS
  <1> USE IdentityAssumption
  <1>1. marker \in [Dirs -> Marker]
    BY DEF Init, Marker
  <1>2. creds \in [Teams -> Actors \cup {Nobody}] /\ snap \in [Actors -> [Teams -> Actors \cup {Nobody}]]
    BY DEF Init, NoKeys
  <1>3. pc \in [Actors -> PCs] /\ hashes \in [Teams -> SUBSET Actors]
    BY DEF Init, PCs
  <1>4. project \in [Actors -> Projects \cup {Nobody}] /\ team \in [Actors -> Teams \cup {Nobody}]
    BY DEF Init
  <1>5. key \in [Actors -> Actors \cup {Nobody}] /\ known \in [Actors -> {"none", "local", "server"}] /\ held \in [Actors -> BOOLEAN]
    BY DEF Init
  <1>6. lock \in Actors \cup {Nobody} /\ old \in BOOLEAN /\ torn \subseteq Dirs
    BY DEF Init
  <1>7. faults \in 0..MaxFaults
    BY DEF Init
  <1> QED
    BY <1>1, <1>2, <1>3, <1>4, <1>5, <1>6, <1>7 DEF TypeOK

LEMMA TypesKept == TypeOK /\ Named /\ [Next]_vars => TypeOK'
  <1> SUFFICES ASSUME TypeOK, Named, [Next]_vars PROVE TypeOK'
    OBVIOUS
  <1> USE IdentityAssumption
  <1>1. ASSUME NEW s \in Sessions, Begin(s) PROVE TypeOK'
    <2>1. UNCHANGED <<marker, creds, lock, old, hashes, key, snap, held, faults, torn>>
      BY <1>1 DEF Begin, Take, Goto, identity, storing, lockfile
    <2>2. pc' \in [Actors -> PCs]
      BY <1>1 DEF Begin, Take, Goto, identity, storing, lockfile, TypeOK, At, Actors, PCs
    <2>3. project' \in [Actors -> Projects \cup {Nobody}]
      BY <1>1 DEF Begin, Take, Goto, identity, storing, lockfile, TypeOK, At, Actors, Marker, NoMarker, TornMarker, Mark, Projects, Teams
    <2>4. team' \in [Actors -> Teams \cup {Nobody}]
      BY <1>1 DEF Begin, Take, Goto, identity, storing, lockfile, TypeOK, At, Actors, Marker, NoMarker, TornMarker, Mark, Projects, Teams
    <2>5. known' \in [Actors -> {"none", "local", "server"}]
      BY <1>1 DEF Begin, Take, Goto, identity, storing, lockfile, TypeOK, At, Actors, Marker, NoMarker, TornMarker, Mark, Projects, Teams
    <2> QED
      BY <2>1, <2>2, <2>3, <2>4, <2>5 DEF TypeOK
  <1>2. ASSUME NEW s \in Sessions, Create(s) PROVE TypeOK'
    <2>1. UNCHANGED <<creds, lock, old, hashes, project, team, key, known, snap, held, faults, torn>>
      BY <1>2 DEF Create, Goto, TornMarker, NoMarker, identity, storing, lockfile
    <2>2. pc' \in [Actors -> PCs]
      BY <1>2 DEF Create, Goto, TornMarker, NoMarker, identity, storing, lockfile, TypeOK, At, Actors, PCs
    <2>3. marker' \in [Dirs -> Marker]
      BY <1>2 DEF Create, Goto, TypeOK, Marker
    <2> QED
      BY <2>1, <2>2, <2>3 DEF TypeOK
  <1>3. ASSUME NEW s \in Sessions, Adopt(s) PROVE TypeOK'
    <2>1. UNCHANGED <<marker, creds, lock, old, hashes, key, snap, held, faults>>
      BY <1>3 DEF Adopt, Take, Goto, identity, storing, lockfile
    <2>2. pc' \in [Actors -> PCs]
      BY <1>3 DEF Adopt, Take, Goto, identity, storing, lockfile, TypeOK, At, Actors, PCs
    <2>3. project' \in [Actors -> Projects \cup {Nobody}]
      BY <1>3 DEF Adopt, Take, Goto, identity, storing, lockfile, TypeOK, At, Actors, Marker, NoMarker, TornMarker, Mark, Projects, Teams
    <2>4. team' \in [Actors -> Teams \cup {Nobody}]
      BY <1>3 DEF Adopt, Take, Goto, identity, storing, lockfile, TypeOK, At, Actors, Marker, NoMarker, TornMarker, Mark, Projects, Teams
    <2>5. known' \in [Actors -> {"none", "local", "server"}]
      BY <1>3 DEF Adopt, Take, Goto, identity, storing, lockfile, TypeOK, At, Actors, Marker, NoMarker, TornMarker, Mark, Projects, Teams
    <2>6. torn' \subseteq Dirs
      BY <1>3 DEF Adopt, Take, Goto, identity, storing, lockfile, TypeOK, At, Actors
    <2> QED
      BY <2>1, <2>2, <2>3, <2>4, <2>5, <2>6 DEF TypeOK
  <1>4. ASSUME NEW s \in Sessions, Fill(s) PROVE TypeOK'
    <2>1. UNCHANGED <<creds, lock, old, hashes, key, snap, held, faults, torn>>
      BY <1>4 DEF Fill, Take, Goto, OwnMarker, identity, storing, lockfile
    <2>2. pc' \in [Actors -> PCs]
      BY <1>4 DEF Fill, Take, Goto, OwnMarker, identity, storing, lockfile, TypeOK, At, Actors, PCs
    <2>3. project' \in [Actors -> Projects \cup {Nobody}]
      BY <1>4 DEF Fill, Take, Goto, OwnMarker, identity, storing, lockfile, TypeOK, At, Actors, Marker, NoMarker, TornMarker, Mark, Projects, Teams
    <2>4. team' \in [Actors -> Teams \cup {Nobody}]
      BY <1>4 DEF Fill, Take, Goto, OwnMarker, identity, storing, lockfile, TypeOK, At, Actors, Marker, NoMarker, TornMarker, Mark, Projects, Teams
    <2>5. known' \in [Actors -> {"none", "local", "server"}]
      BY <1>4 DEF Fill, Take, Goto, OwnMarker, identity, storing, lockfile, TypeOK, At, Actors, Marker, NoMarker, TornMarker, Mark, Projects, Teams
    <2>6. marker' \in [Dirs -> Marker]
      BY <1>4 DEF Fill, Take, Goto, OwnMarker, identity, storing, lockfile, TypeOK, At, Actors, Marker, NoMarker, TornMarker, Mark, Projects, Teams
    <2> QED
      BY <2>1, <2>2, <2>3, <2>4, <2>5, <2>6 DEF TypeOK
  <1>5. ASSUME NEW s \in Sessions, upsertTeamAndProject(s) PROVE TypeOK'
    <2>1. UNCHANGED <<marker, creds, lock, old, hashes, project, team, key, known, snap, held, torn>>
      BY <1>5 DEF upsertTeamAndProject, StatementFails, Goto, identity, storing, lockfile
    <2>2. pc' \in [Actors -> PCs]
      BY <1>5 DEF upsertTeamAndProject, StatementFails, Goto, identity, storing, lockfile, TypeOK, At, Actors, PCs
    <2>3. faults' \in 0..MaxFaults
      BY <1>5 DEF upsertTeamAndProject, StatementFails, Goto, identity, storing, lockfile, TypeOK, At, Actors
    <2> QED
      BY <2>1, <2>2, <2>3 DEF TypeOK
  <1>6. ASSUME NEW s \in Sessions, Gate(s) PROVE TypeOK'
    <2>1. UNCHANGED <<marker, creds, lock, old, hashes, project, team, known, snap, held, faults>>
      BY <1>6 DEF Gate, Goto, isTeamMarker, identity, storing, lockfile
    <2>2. pc' \in [Actors -> PCs]
      <3>1. Goto(s, "check") \/ Goto(s, "done") \/ Goto(s, "lock")
        BY <1>6 DEF Gate
      <3> QED
        BY <3>1 DEF Goto, TypeOK, PCs, Actors
    <2>3. key' \in [Actors -> Actors \cup {Nobody}]
      <3>1. team[s] \in Teams
        BY <1>6 DEF Gate, At, Named, Actors
      <3>2. CASE key' = [key EXCEPT ![s] = creds[team[s]]]
        BY <3>1, <3>2 DEF TypeOK
      <3>3. CASE key' = [key EXCEPT ![s] = s] \/ key' = key
        BY <3>3 DEF TypeOK, Actors
      <3> QED
        BY <1>6, <3>2, <3>3 DEF Gate
    <2>4. torn' \subseteq Dirs
      BY <1>6 DEF Gate, TypeOK, Actors
    <2> QED
      BY <2>1, <2>2, <2>3, <2>4 DEF TypeOK
  <1>7. ASSUME NEW s \in Sessions, CheckHash(s) PROVE TypeOK'
    <2>1. UNCHANGED <<marker, creds, lock, old, hashes, project, team, key, known, snap, held, torn>>
      BY <1>7 DEF CheckHash, StatementFails, Goto, identity, storing, lockfile
    <2>2. pc' \in [Actors -> PCs]
      BY <1>7 DEF CheckHash, StatementFails, Goto, identity, storing, lockfile, TypeOK, At, Actors, PCs
    <2>3. faults' \in 0..MaxFaults
      BY <1>7 DEF CheckHash, StatementFails, Goto, identity, storing, lockfile, TypeOK, At, Actors
    <2> QED
      BY <2>1, <2>2, <2>3 DEF TypeOK
  <1>8. ASSUME NEW s \in Sessions, insertApiKeyHash(s) PROVE TypeOK'
    <2>1. UNCHANGED <<marker, creds, lock, old, project, team, key, known, snap, held, torn>>
      BY <1>8 DEF insertApiKeyHash, StatementFails, Goto, HashTaken, identity, storing, lockfile
    <2>2. pc' \in [Actors -> PCs]
      <3>1. Goto(s, "done") \/ Goto(s, "failed")
        BY <1>8 DEF insertApiKeyHash, StatementFails
      <3> QED
        BY <3>1 DEF Goto, TypeOK, PCs, Actors
    <2>3. hashes' \in [Teams -> SUBSET Actors]
      <3>1. team[s] \in Teams /\ key[s] \in Actors
        BY <1>8 DEF insertApiKeyHash, StatementFails, At, Named, Actors
      <3>2. CASE hashes' = hashes
        BY <3>2 DEF TypeOK
      <3>3. CASE hashes' = [hashes EXCEPT ![team[s]] = @ \cup {key[s]}]
        BY <3>1, <3>3 DEF TypeOK
      <3> QED
        BY <1>8, <3>2, <3>3 DEF insertApiKeyHash, StatementFails
    <2>4. faults' \in 0..MaxFaults
      BY <1>8 DEF insertApiKeyHash, StatementFails, Goto, HashTaken, identity, storing, lockfile, TypeOK, At, Actors
    <2> QED
      BY <2>1, <2>2, <2>3, <2>4 DEF TypeOK
  <1>9. ASSUME NEW a \in Actors, Lock(a) PROVE TypeOK'
    <2>1. UNCHANGED <<marker, creds, hashes, project, team, key, known, snap, faults, torn>>
      BY <1>9 DEF Lock, Goto, Killed, identity, storing, lockfile
    <2>2. pc' \in [Actors -> PCs]
      <3>1. Goto(a, "read") \/ Goto(a, "break")
        BY <1>9 DEF Lock
      <3> QED
        BY <3>1 DEF Goto, TypeOK, PCs, Actors
    <2>3. lock' \in Actors \cup {Nobody}
      BY <1>9 DEF Lock, Goto, Killed, identity, storing, lockfile, TypeOK, At, Actors
    <2>4. old' \in BOOLEAN
      BY <1>9 DEF Lock, Goto, Killed, identity, storing, lockfile, TypeOK, At, Actors
    <2>5. held' \in [Actors -> BOOLEAN]
      BY <1>9 DEF Lock, Goto, Killed, identity, storing, lockfile, TypeOK, At, Actors
    <2> QED
      BY <2>1, <2>2, <2>3, <2>4, <2>5 DEF TypeOK
  <1>10. ASSUME NEW a \in Actors, BreakLock(a) PROVE TypeOK'
    <2>1. UNCHANGED <<marker, creds, hashes, project, team, key, known, snap, held, faults, torn>>
      BY <1>10 DEF BreakLock, Goto, identity, storing, lockfile
    <2>2. pc' \in [Actors -> PCs]
      BY <1>10 DEF BreakLock, Goto, identity, storing, lockfile, TypeOK, At, Actors, PCs
    <2>3. lock' \in Actors \cup {Nobody}
      BY <1>10 DEF BreakLock, Goto, identity, storing, lockfile, TypeOK, At, Actors
    <2>4. old' \in BOOLEAN
      BY <1>10 DEF BreakLock, Goto, identity, storing, lockfile, TypeOK, At, Actors
    <2> QED
      BY <2>1, <2>2, <2>3, <2>4 DEF TypeOK
  <1>11. ASSUME NEW a \in Actors, ReadKeys(a) PROVE TypeOK'
    <2>1. UNCHANGED <<marker, creds, lock, old, hashes, project, team, key, known, held, faults, torn>>
      BY <1>11 DEF ReadKeys, Goto, identity, storing, lockfile
    <2>2. pc' \in [Actors -> PCs]
      BY <1>11 DEF ReadKeys, Goto, identity, storing, lockfile, TypeOK, At, Actors, PCs
    <2>3. snap' \in [Actors -> [Teams -> Actors \cup {Nobody}]]
      BY <1>11 DEF ReadKeys, Goto, identity, storing, lockfile, TypeOK, At, Actors, Teams
    <2> QED
      BY <2>1, <2>2, <2>3 DEF TypeOK
  <1>12. ASSUME NEW a \in Actors, WriteKeys(a) PROVE TypeOK'
    <2>1. UNCHANGED <<marker, lock, old, hashes, project, team, known, snap, held, faults, torn>>
      BY <1>12 DEF WriteKeys, Goto, identity, storing, lockfile
    <2>2. pc' \in [Actors -> PCs]
      BY <1>12 DEF WriteKeys, Goto, identity, storing, lockfile, TypeOK, At, Actors, PCs
    <2>3. creds' \in [Teams -> Actors \cup {Nobody}]
      <3>1. CASE creds' = [snap[a] EXCEPT ![team[a]] = key[a]]
        BY <3>1 DEF TypeOK
      <3>2. CASE creds' = creds
        BY <3>2 DEF TypeOK
      <3> QED
        BY <1>12, <3>1, <3>2 DEF WriteKeys
    <2>4. key' \in [Actors -> Actors \cup {Nobody}]
      <3>1. team[a] \in Teams
        BY <1>12 DEF WriteKeys, At, Named, Actors
      <3>2. CASE key' = [key EXCEPT ![a] = snap[a][team[a]]]
        BY <3>1, <3>2 DEF TypeOK
      <3>3. CASE key' = key
        BY <3>3 DEF TypeOK
      <3> QED
        BY <1>12, <3>2, <3>3 DEF WriteKeys
    <2> QED
      BY <2>1, <2>2, <2>3, <2>4 DEF TypeOK
  <1>13. ASSUME NEW a \in Actors, Unlock(a) PROVE TypeOK'
    <2>1. UNCHANGED <<marker, creds, hashes, project, team, key, known, snap, faults, torn>>
      BY <1>13 DEF Unlock, Goto, identity, storing, lockfile
    <2>2. pc' \in [Actors -> PCs]
      BY <1>13 DEF Unlock, Goto, identity, storing, lockfile, TypeOK, At, Actors, PCs
    <2>3. lock' \in Actors \cup {Nobody}
      BY <1>13 DEF Unlock, Goto, identity, storing, lockfile, TypeOK, At, Actors
    <2>4. old' \in BOOLEAN
      BY <1>13 DEF Unlock, Goto, identity, storing, lockfile, TypeOK, At, Actors
    <2>5. held' \in [Actors -> BOOLEAN]
      BY <1>13 DEF Unlock, Goto, identity, storing, lockfile, TypeOK, At, Actors
    <2> QED
      BY <2>1, <2>2, <2>3, <2>4, <2>5 DEF TypeOK
  <1>14. ASSUME NEW j \in Joins, BeginJoin(j) PROVE TypeOK'
    <2>1. UNCHANGED <<marker, creds, lock, old, hashes, project, known, snap, held, faults, torn>>
      BY <1>14 DEF BeginJoin, Goto, identity, storing, lockfile
    <2>2. pc' \in [Actors -> PCs]
      BY <1>14 DEF BeginJoin, Goto, identity, storing, lockfile, TypeOK, At, Actors, PCs, Teams
    <2>3. team' \in [Actors -> Teams \cup {Nobody}]
      BY <1>14 DEF BeginJoin, Goto, identity, storing, lockfile, TypeOK, At, Actors, Teams
    <2>4. key' \in [Actors -> Actors \cup {Nobody}]
      BY <1>14 DEF BeginJoin, Goto, identity, storing, lockfile, TypeOK, At, Actors, Teams
    <2> QED
      BY <2>1, <2>2, <2>3, <2>4 DEF TypeOK
  <1>15. ASSUME NEW j \in Joins, Flip(j) PROVE TypeOK'
    <2>1. UNCHANGED <<creds, lock, old, hashes, team, key, known, snap, held, faults, torn>>
      BY <1>15 DEF Flip, Goto, identity, storing, lockfile
    <2>2. pc' \in [Actors -> PCs]
      BY <1>15 DEF Flip, Goto, TypeOK, At, Actors, PCs
    <2>3. project' \in [Actors -> Projects \cup {Nobody}]
      BY <1>15 DEF Flip, TypeOK, Marker, NoMarker, TornMarker, Mark, Actors
    <2>4. marker' \in [Dirs -> Marker]
      <3>1. TornMarker \in Marker
        BY DEF Marker
      <3> QED
        BY <1>15, <3>1 DEF Flip, TypeOK
    <2> QED
      BY <2>1, <2>2, <2>3, <2>4 DEF TypeOK
  <1>20. ASSUME NEW j \in Joins, Merge(j) PROVE TypeOK'
    <2>1. UNCHANGED <<creds, lock, old, hashes, project, team, key, known, snap, held, faults, torn>>
      BY <1>20 DEF Merge, Goto, identity, storing, lockfile
    <2>2. pc' \in [Actors -> PCs]
      BY <1>20 DEF Merge, Goto, TypeOK, At, Actors, PCs
    <2>3. marker' \in [Dirs -> Marker]
      <3> DEFINE m == [state |-> "whole", project |-> project[j], team |-> Team, server |-> TRUE]
      <3>1. project[j] \in Projects
        BY <1>20 DEF Merge, At, Named, Actors
      <3>2. m \in Marker
        BY <3>1 DEF Marker, Teams
      <3>3. marker' = [marker EXCEPT ![DirOf[j]] = m]
        BY <1>20 DEF Merge
      <3> HIDE DEF m
      <3> QED
        BY <3>2, <3>3 DEF TypeOK
    <2> QED
      BY <2>1, <2>2, <2>3 DEF TypeOK
  <1>16. ASSUME NEW d \in Dirs, Pull(d) PROVE TypeOK'
    <2>1. UNCHANGED <<creds, lock, old, hashes, pc, project, team, key, known, snap, held, faults, torn>>
      BY <1>16 DEF Pull, Committed, identity, storing, lockfile
    <2>2. marker' \in [Dirs -> Marker]
      BY <1>16 DEF Pull, Committed, identity, storing, lockfile, TypeOK, At, Actors, Marker, OwnMarker, NoMarker, TornMarker, Mark, Projects, Teams
    <2> QED
      BY <2>1, <2>2 DEF TypeOK
  <1>17. ASSUME NEW a \in Actors, Kill(a) PROVE TypeOK'
    <2>1. UNCHANGED <<marker, creds, lock, old, hashes, project, team, key, known, snap, held, faults>>
      BY <1>17 DEF Kill, Goto, identity, storing, lockfile
    <2>2. pc' \in [Actors -> PCs]
      BY <1>17 DEF Kill, Goto, identity, storing, lockfile, TypeOK, At, Actors, PCs
    <2>3. torn' \subseteq Dirs
      BY <1>17 DEF Kill, TypeOK, Actors
    <2> QED
      BY <2>1, <2>2, <2>3 DEF TypeOK
  <1>18. ASSUME GrowOld PROVE TypeOK'
    <2>1. UNCHANGED <<marker, creds, lock, hashes, pc, project, team, key, known, snap, held, faults, torn>>
      BY <1>18 DEF GrowOld, Killed, identity, storing, lockfile
    <2>2. old' \in BOOLEAN
      BY <1>18 DEF GrowOld, Killed, identity, storing, lockfile, TypeOK, At, Actors
    <2> QED
      BY <2>1, <2>2 DEF TypeOK
  <1>19. CASE UNCHANGED vars
    BY <1>19 DEF vars, identity, storing, lockfile, TypeOK
  <1> QED
    BY <1>1, <1>2, <1>3, <1>4, <1>5, <1>6, <1>7, <1>8, <1>9, <1>10, <1>11, <1>12, <1>13, <1>14, <1>15, <1>16, <1>17, <1>18, <1>19, <1>20
    DEF Next, Session, Mint, Store, Join, Actors

LEMMA NamedKept == TypeOK /\ Named /\ [Next]_vars => Named'
  <1> SUFFICES ASSUME TypeOK, Named, [Next]_vars PROVE Named'
    OBVIOUS
  <1> USE IdentityAssumption
  <1>1. ASSUME NEW s \in Sessions, Begin(s) PROVE Named'
    BY <1>1 DEF Begin, Take, Goto, identity, storing, lockfile, TypeOK, Named, At, Mark, Marker, NoMarker, TornMarker, Actors, Projects, Teams
  <1>2. ASSUME NEW s \in Sessions, Create(s) PROVE Named'
    BY <1>2 DEF Create, Goto, TornMarker, NoMarker, identity, storing, lockfile, TypeOK, Named, At, Mark, Marker, NoMarker, TornMarker, Actors, Projects, Teams
  <1>3. ASSUME NEW s \in Sessions, Adopt(s) PROVE Named'
    BY <1>3 DEF Adopt, Take, Goto, identity, storing, lockfile, TypeOK, Named, At, Mark, Marker, NoMarker, TornMarker, Actors, Projects, Teams
  <1>4. ASSUME NEW s \in Sessions, Fill(s) PROVE Named'
    BY <1>4 DEF Fill, Take, Goto, OwnMarker, identity, storing, lockfile, TypeOK, Named, At, Mark, Marker, NoMarker, TornMarker, Actors, Projects, Teams
  <1>5. ASSUME NEW s \in Sessions, upsertTeamAndProject(s) PROVE Named'
    BY <1>5 DEF upsertTeamAndProject, StatementFails, Goto, identity, storing, lockfile, TypeOK, Named, At, Mark, Marker, NoMarker, TornMarker, Actors, Projects, Teams
  <1>6. ASSUME NEW s \in Sessions, Gate(s) PROVE Named'
    BY <1>6 DEF Gate, Goto, isTeamMarker, identity, storing, lockfile, TypeOK, Named, At, Mark, Marker, NoMarker, TornMarker, Actors, Projects, Teams
  <1>7. ASSUME NEW s \in Sessions, CheckHash(s) PROVE Named'
    BY <1>7 DEF CheckHash, StatementFails, Goto, identity, storing, lockfile, TypeOK, Named, At, Mark, Marker, NoMarker, TornMarker, Actors, Projects, Teams
  <1>8. ASSUME NEW s \in Sessions, insertApiKeyHash(s) PROVE Named'
    BY <1>8 DEF insertApiKeyHash, StatementFails, Goto, HashTaken, identity, storing, lockfile, TypeOK, Named, At, Mark, Marker, NoMarker, TornMarker, Actors, Projects, Teams
  <1>9. ASSUME NEW a \in Actors, Lock(a) PROVE Named'
    BY <1>9 DEF Lock, Goto, Killed, identity, storing, lockfile, TypeOK, Named, At, Mark, Marker, NoMarker, TornMarker, Actors, Projects, Teams
  <1>10. ASSUME NEW a \in Actors, BreakLock(a) PROVE Named'
    BY <1>10 DEF BreakLock, Goto, identity, storing, lockfile, TypeOK, Named, At, Mark, Marker, NoMarker, TornMarker, Actors, Projects, Teams
  <1>11. ASSUME NEW a \in Actors, ReadKeys(a) PROVE Named'
    BY <1>11 DEF ReadKeys, Goto, identity, storing, lockfile, TypeOK, Named, At, Mark, Marker, NoMarker, TornMarker, Actors, Projects, Teams
  <1>12. ASSUME NEW a \in Actors, WriteKeys(a) PROVE Named'
    BY <1>12 DEF WriteKeys, Goto, identity, storing, lockfile, TypeOK, Named, At, Mark, Marker, NoMarker, TornMarker, Actors, Projects, Teams
  <1>13. ASSUME NEW a \in Actors, Unlock(a) PROVE Named'
    BY <1>13 DEF Unlock, Goto, identity, storing, lockfile, TypeOK, Named, At, Mark, Marker, NoMarker, TornMarker, Actors, Projects, Teams
  <1>14. ASSUME NEW j \in Joins, BeginJoin(j) PROVE Named'
    BY <1>14 DEF BeginJoin, Goto, identity, storing, lockfile, TypeOK, Named, At, Mark, Marker, NoMarker, TornMarker, Actors, Projects, Teams
  <1>15. ASSUME NEW j \in Joins, Flip(j) PROVE Named'
    BY <1>15 DEF Flip, Goto, identity, storing, lockfile, TypeOK, Named, At, Mark, Marker, NoMarker, TornMarker, Actors, Projects, Teams
  <1>20. ASSUME NEW j \in Joins, Merge(j) PROVE Named'
    BY <1>20 DEF Merge, Goto, identity, storing, lockfile, TypeOK, Named, At, Mark, Marker, NoMarker, TornMarker, Actors, Projects, Teams
  <1>16. ASSUME NEW d \in Dirs, Pull(d) PROVE Named'
    BY <1>16 DEF Pull, Committed, identity, storing, lockfile, TypeOK, Named, At, Mark, Marker, NoMarker, TornMarker, Actors, Projects, Teams
  <1>17. ASSUME NEW a \in Actors, Kill(a) PROVE Named'
    BY <1>17 DEF Kill, Goto, identity, storing, lockfile, TypeOK, Named, At, Mark, Marker, NoMarker, TornMarker, Actors, Projects, Teams
  <1>18. ASSUME GrowOld PROVE Named'
    BY <1>18 DEF GrowOld, Killed, identity, storing, lockfile, TypeOK, Named, At, Mark, Marker, NoMarker, TornMarker, Actors, Projects, Teams
  <1>19. CASE UNCHANGED vars
    BY <1>19 DEF vars, identity, storing, lockfile, TypeOK, Named, At, Mark, Marker, NoMarker, TornMarker, Actors, Projects, Teams
  <1> QED
    BY <1>1, <1>2, <1>3, <1>4, <1>5, <1>6, <1>7, <1>8, <1>9, <1>10, <1>11, <1>12, <1>13, <1>14, <1>15, <1>16, <1>17, <1>18, <1>19, <1>20
    DEF Next, Session, Mint, Store, Join, Actors

(* Markers, keys, lock and processes stay in their types.                   *)
THEOREM IdentityTypes == Spec => []TypeOK
  <1>1. Init => Named
    BY DEF Init, Named
  <1> QED
    BY <1>1, InitTypes, TypesKept, NamedKept, PTL DEF Spec
-----------------------------------------------------------------------------
(* One identity per directory.                                              *)

(* Who is about to write a marker created or emptied it, and nobody else is *)
(* about to.                                                                *)
Writing(a) == At(a, "fill") \/ At(a, "merge")

Filling ==
  \A a \in Actors :
    Writing(a) /\ DirOf[a] \notin torn =>
      /\ Mark(a).state = "torn"
      /\ \A b \in Actors : b # a /\ DirOf[b] = DirOf[a] => ~Writing(b)

LEMMA FillingKept == TypeOK /\ Filling /\ [Next]_vars => Filling'
  <1> SUFFICES ASSUME TypeOK, Filling, [Next]_vars PROVE Filling'
    OBVIOUS
  <1> USE IdentityAssumption
  <1>1. ASSUME NEW s \in Sessions, Begin(s) PROVE Filling'
    BY <1>1 DEF Begin, Take, Goto, identity, storing, lockfile, Filling, Writing, TypeOK, At, Mark, Marker, NoMarker, TornMarker, Actors, Projects, Teams
  <1>2. ASSUME NEW s \in Sessions, Create(s) PROVE Filling'
    BY <1>2 DEF Create, Goto, TornMarker, NoMarker, identity, storing, lockfile, Filling, Writing, TypeOK, At, Mark, Marker, NoMarker, TornMarker, Actors, Projects, Teams
  <1>3. ASSUME NEW s \in Sessions, Adopt(s) PROVE Filling'
    BY <1>3 DEF Adopt, Take, Goto, identity, storing, lockfile, Filling, Writing, TypeOK, At, Mark, Marker, NoMarker, TornMarker, Actors, Projects, Teams
  <1>4. ASSUME NEW s \in Sessions, Fill(s) PROVE Filling'
    BY <1>4 DEF Fill, Take, Goto, OwnMarker, identity, storing, lockfile, Filling, Writing, TypeOK, At, Mark, Marker, NoMarker, TornMarker, Actors, Projects, Teams
  <1>5. ASSUME NEW s \in Sessions, upsertTeamAndProject(s) PROVE Filling'
    BY <1>5 DEF upsertTeamAndProject, StatementFails, Goto, identity, storing, lockfile, Filling, Writing, TypeOK, At, Mark, Marker, NoMarker, TornMarker, Actors, Projects, Teams
  <1>6. ASSUME NEW s \in Sessions, Gate(s) PROVE Filling'
    BY <1>6 DEF Gate, Goto, isTeamMarker, identity, storing, lockfile, Filling, Writing, TypeOK, At, Mark, Marker, NoMarker, TornMarker, Actors, Projects, Teams
  <1>7. ASSUME NEW s \in Sessions, CheckHash(s) PROVE Filling'
    BY <1>7 DEF CheckHash, StatementFails, Goto, identity, storing, lockfile, Filling, Writing, TypeOK, At, Mark, Marker, NoMarker, TornMarker, Actors, Projects, Teams
  <1>8. ASSUME NEW s \in Sessions, insertApiKeyHash(s) PROVE Filling'
    BY <1>8 DEF insertApiKeyHash, StatementFails, Goto, HashTaken, identity, storing, lockfile, Filling, Writing, TypeOK, At, Mark, Marker, NoMarker, TornMarker, Actors, Projects, Teams
  <1>9. ASSUME NEW a \in Actors, Lock(a) PROVE Filling'
    BY <1>9 DEF Lock, Goto, Killed, identity, storing, lockfile, Filling, Writing, TypeOK, At, Mark, Marker, NoMarker, TornMarker, Actors, Projects, Teams
  <1>10. ASSUME NEW a \in Actors, BreakLock(a) PROVE Filling'
    BY <1>10 DEF BreakLock, Goto, identity, storing, lockfile, Filling, Writing, TypeOK, At, Mark, Marker, NoMarker, TornMarker, Actors, Projects, Teams
  <1>11. ASSUME NEW a \in Actors, ReadKeys(a) PROVE Filling'
    BY <1>11 DEF ReadKeys, Goto, identity, storing, lockfile, Filling, Writing, TypeOK, At, Mark, Marker, NoMarker, TornMarker, Actors, Projects, Teams
  <1>12. ASSUME NEW a \in Actors, WriteKeys(a) PROVE Filling'
    BY <1>12 DEF WriteKeys, Goto, identity, storing, lockfile, Filling, Writing, TypeOK, At, Mark, Marker, NoMarker, TornMarker, Actors, Projects, Teams
  <1>13. ASSUME NEW a \in Actors, Unlock(a) PROVE Filling'
    BY <1>13 DEF Unlock, Goto, identity, storing, lockfile, Filling, Writing, TypeOK, At, Mark, Marker, NoMarker, TornMarker, Actors, Projects, Teams
  <1>14. ASSUME NEW j \in Joins, BeginJoin(j) PROVE Filling'
    BY <1>14 DEF BeginJoin, Goto, identity, storing, lockfile, Filling, Writing, TypeOK, At, Mark, Marker, NoMarker, TornMarker, Actors, Projects, Teams
  <1>15. ASSUME NEW j \in Joins, Flip(j) PROVE Filling'
    BY <1>15 DEF Flip, Goto, identity, storing, lockfile, Filling, Writing, TypeOK, At, Mark, Marker, NoMarker, TornMarker, Actors, Projects, Teams
  <1>20. ASSUME NEW j \in Joins, Merge(j) PROVE Filling'
    BY <1>20 DEF Merge, Goto, identity, storing, lockfile, Filling, Writing, TypeOK, At, Mark, Marker, NoMarker, TornMarker, Actors, Projects, Teams
  <1>16. ASSUME NEW d \in Dirs, Pull(d) PROVE Filling'
    BY <1>16 DEF Pull, Committed, identity, storing, lockfile, Filling, Writing, TypeOK, At, Mark, Marker, NoMarker, TornMarker, Actors, Projects, Teams
  <1>17. ASSUME NEW a \in Actors, Kill(a) PROVE Filling'
    BY <1>17 DEF Kill, Goto, identity, storing, lockfile, Filling, Writing, TypeOK, At, Mark, Marker, NoMarker, TornMarker, Actors, Projects, Teams
  <1>18. ASSUME GrowOld PROVE Filling'
    BY <1>18 DEF GrowOld, Killed, identity, storing, lockfile, Filling, Writing, TypeOK, At, Mark, Marker, NoMarker, TornMarker, Actors, Projects, Teams
  <1>19. CASE UNCHANGED vars
    BY <1>19 DEF vars, identity, storing, lockfile, Filling, Writing, TypeOK, At, Mark, Marker, NoMarker, TornMarker, Actors, Projects, Teams
  <1> QED
    BY <1>1, <1>2, <1>3, <1>4, <1>5, <1>6, <1>7, <1>8, <1>9, <1>10, <1>11, <1>12, <1>13, <1>14, <1>15, <1>16, <1>17, <1>18, <1>19, <1>20
    DEF Next, Session, Mint, Store, Join, Actors

LEMMA OneIdentityKept ==
  TypeOK /\ Filling /\ OneIdentity /\ [Next]_vars => OneIdentity'
  <1> SUFFICES ASSUME TypeOK, Filling, OneIdentity, [Next]_vars PROVE OneIdentity'
    OBVIOUS
  <1> USE IdentityAssumption
  <1>1. ASSUME NEW s \in Sessions, Begin(s) PROVE OneIdentity'
    <2>1. UNCHANGED <<marker, torn>> /\ \A j \in Joins : pc'[j] = pc[j] /\ project'[j] = project[j]
      BY <1>1 DEF Begin, Take, Goto, identity, storing, lockfile, TypeOK, Actors
    <2>2. \A r \in Sessions : r # s => project'[r] = project[r]
      BY <1>1 DEF Begin, Take, identity, TypeOK, Actors
    <2>3. \/ project'[s] = project[s]
          \/ Mark(s).state = "whole" /\ project'[s] = Mark(s).project
      BY <1>1 DEF Begin, Take, identity, TypeOK, Actors
    <2> QED
      BY <2>1, <2>2, <2>3 DEF OneIdentity, MarkerNames, Mark, At
  <1>2. ASSUME NEW s \in Sessions, Create(s) PROVE OneIdentity'
    BY <1>2 DEF Create, Goto, TornMarker, NoMarker, identity, storing, lockfile, OneIdentity, MarkerNames, Filling, Writing, TypeOK, At, Mark, Marker, NoMarker, TornMarker, Actors, Projects, Teams
  <1>3. ASSUME NEW s \in Sessions, Adopt(s) PROVE OneIdentity'
    <2>1. UNCHANGED marker /\ \A j \in Joins : pc'[j] = pc[j] /\ project'[j] = project[j]
      BY <1>3 DEF Adopt, Take, Goto, identity, storing, lockfile, TypeOK, Actors
    <2>2. torn \subseteq torn' /\ \A r \in Sessions : r # s => project'[r] = project[r]
      BY <1>3 DEF Adopt, Take, identity, TypeOK, Actors
    <2>3. \/ project'[s] = project[s]
          \/ Mark(s).state = "whole" /\ project'[s] = Mark(s).project
      BY <1>3 DEF Adopt, Take, identity, TypeOK, Actors
    <2> QED
      BY <2>1, <2>2, <2>3 DEF OneIdentity, MarkerNames, Mark, At
  <1>4. ASSUME NEW s \in Sessions, Fill(s) PROVE OneIdentity'
    BY <1>4 DEF Fill, Take, Goto, OwnMarker, identity, storing, lockfile, OneIdentity, MarkerNames, Filling, Writing, TypeOK, At, Mark, Marker, NoMarker, TornMarker, Actors, Projects, Teams
  <1>5. ASSUME NEW s \in Sessions, upsertTeamAndProject(s) PROVE OneIdentity'
    BY <1>5 DEF upsertTeamAndProject, StatementFails, Goto, identity, storing, lockfile, OneIdentity, MarkerNames, Filling, Writing, TypeOK, At, Mark, Marker, NoMarker, TornMarker, Actors, Projects, Teams
  <1>6. ASSUME NEW s \in Sessions, Gate(s) PROVE OneIdentity'
    BY <1>6 DEF Gate, Goto, isTeamMarker, identity, storing, lockfile, OneIdentity, MarkerNames, Filling, Writing, TypeOK, At, Mark, Marker, NoMarker, TornMarker, Actors, Projects, Teams
  <1>7. ASSUME NEW s \in Sessions, CheckHash(s) PROVE OneIdentity'
    <2>1. UNCHANGED <<marker, project, torn>> /\ \A j \in Joins : pc'[j] = pc[j]
      BY <1>7 DEF CheckHash, StatementFails, Goto, identity, storing, lockfile, TypeOK, Actors
    <2> QED
      BY <2>1 DEF OneIdentity, MarkerNames, Mark, At
  <1>8. ASSUME NEW s \in Sessions, insertApiKeyHash(s) PROVE OneIdentity'
    BY <1>8 DEF insertApiKeyHash, StatementFails, Goto, HashTaken, identity, storing, lockfile, OneIdentity, MarkerNames, Filling, Writing, TypeOK, At, Mark, Marker, NoMarker, TornMarker, Actors, Projects, Teams
  <1>9. ASSUME NEW a \in Actors, Lock(a) PROVE OneIdentity'
    BY <1>9 DEF Lock, Goto, Killed, identity, storing, lockfile, OneIdentity, MarkerNames, Filling, Writing, TypeOK, At, Mark, Marker, NoMarker, TornMarker, Actors, Projects, Teams
  <1>10. ASSUME NEW a \in Actors, BreakLock(a) PROVE OneIdentity'
    BY <1>10 DEF BreakLock, Goto, identity, storing, lockfile, OneIdentity, MarkerNames, Filling, Writing, TypeOK, At, Mark, Marker, NoMarker, TornMarker, Actors, Projects, Teams
  <1>11. ASSUME NEW a \in Actors, ReadKeys(a) PROVE OneIdentity'
    BY <1>11 DEF ReadKeys, Goto, identity, storing, lockfile, OneIdentity, MarkerNames, Filling, Writing, TypeOK, At, Mark, Marker, NoMarker, TornMarker, Actors, Projects, Teams
  <1>12. ASSUME NEW a \in Actors, WriteKeys(a) PROVE OneIdentity'
    BY <1>12 DEF WriteKeys, Goto, identity, storing, lockfile, OneIdentity, MarkerNames, Filling, Writing, TypeOK, At, Mark, Marker, NoMarker, TornMarker, Actors, Projects, Teams
  <1>13. ASSUME NEW a \in Actors, Unlock(a) PROVE OneIdentity'
    BY <1>13 DEF Unlock, Goto, identity, storing, lockfile, OneIdentity, MarkerNames, Filling, Writing, TypeOK, At, Mark, Marker, NoMarker, TornMarker, Actors, Projects, Teams
  <1>14. ASSUME NEW j \in Joins, BeginJoin(j) PROVE OneIdentity'
    BY <1>14 DEF BeginJoin, Goto, identity, storing, lockfile, OneIdentity, MarkerNames, Filling, Writing, TypeOK, At, Mark, Marker, NoMarker, TornMarker, Actors, Projects, Teams
  <1>15. ASSUME NEW j \in Joins, Flip(j) PROVE OneIdentity'
    <2>1. CASE Mark(j).state # "whole"
      <3>1. UNCHANGED <<marker, project, torn>> /\ pc' = [pc EXCEPT ![j] = "failed"] /\ pc[j] = "flip"
        BY <1>15, <2>1 DEF Flip, Goto, At, storing
      <3>2. \A k \in Joins : At(k, "merge") => At(k, "merge")'
        BY <3>1 DEF At, TypeOK, Actors
      <3> QED
        BY <3>1, <3>2 DEF OneIdentity, MarkerNames, Mark
    <2>2. CASE Mark(j).state = "whole"
      <3>1. /\ pc[j] = "flip" /\ pc' = [pc EXCEPT ![j] = "merge"] /\ torn' = torn
            /\ project' = [project EXCEPT ![j] = Mark(j).project]
            /\ marker' = [marker EXCEPT ![DirOf[j]] = TornMarker]
        BY <1>15, <2>2 DEF Flip, Goto, At
      <3>2. /\ At(j, "merge")' /\ project'[j] = Mark(j).project
            /\ \A k \in Joins : At(k, "merge") => At(k, "merge")' /\ project'[k] = project[k]
            /\ \A r \in Sessions : project'[r] = project[r]
        BY <3>1 DEF At, TypeOK, Actors
      <3>3. \A d \in Dirs : d # DirOf[j] => marker'[d] = marker[d]
        BY <3>1 DEF TypeOK
      <3>4. ASSUME NEW r \in Sessions, project[r] # Nobody, DirOf[r] \notin torn PROVE MarkerNames(r)'
        <4>1. MarkerNames(r)
          BY <3>4 DEF OneIdentity
        <4>2. CASE DirOf[r] = DirOf[j]
          <5>1. \A k \in Joins : DirOf[k] = DirOf[j] => ~At(k, "merge")
            BY <2>2, <3>4, <4>2 DEF Filling, Writing, Mark, TornMarker, Actors
          <5>2. Mark(j).project = project[r]
            BY <4>1, <4>2, <5>1 DEF MarkerNames, Mark
          <5> QED
            BY <3>2, <4>2, <5>2 DEF MarkerNames
        <4>3. CASE DirOf[r] # DirOf[j]
          BY <3>2, <3>3, <4>1, <4>3 DEF MarkerNames, Mark, Actors
        <4> QED
          BY <4>2, <4>3
      <3> QED
        BY <3>1, <3>2, <3>4 DEF OneIdentity
    <2> QED
      BY <2>1, <2>2
  <1>20. ASSUME NEW j \in Joins, Merge(j) PROVE OneIdentity'
    BY <1>20 DEF Merge, Goto, identity, storing, lockfile, OneIdentity, MarkerNames, Filling, Writing, TypeOK, At, Mark, Marker, NoMarker, TornMarker, Actors, Projects, Teams
  <1>16. ASSUME NEW d \in Dirs, Pull(d) PROVE OneIdentity'
    BY <1>16 DEF Pull, Committed, identity, storing, lockfile, OneIdentity, MarkerNames, Filling, Writing, TypeOK, At, Mark, Marker, NoMarker, TornMarker, Actors, Projects, Teams
  <1>17. ASSUME NEW a \in Actors, Kill(a) PROVE OneIdentity'
    BY <1>17 DEF Kill, Goto, identity, storing, lockfile, OneIdentity, MarkerNames, Filling, Writing, TypeOK, At, Mark, Marker, NoMarker, TornMarker, Actors, Projects, Teams
  <1>18. ASSUME GrowOld PROVE OneIdentity'
    BY <1>18 DEF GrowOld, Killed, identity, storing, lockfile, OneIdentity, MarkerNames, Filling, Writing, TypeOK, At, Mark, Marker, NoMarker, TornMarker, Actors, Projects, Teams
  <1>19. CASE UNCHANGED vars
    BY <1>19 DEF vars, identity, storing, lockfile, OneIdentity, MarkerNames, Filling, Writing, TypeOK, At, Mark, Marker, NoMarker, TornMarker, Actors, Projects, Teams
  <1> QED
    BY <1>1, <1>2, <1>3, <1>4, <1>5, <1>6, <1>7, <1>8, <1>9, <1>10, <1>11, <1>12, <1>13, <1>14, <1>15, <1>16, <1>17, <1>18, <1>19, <1>20
    DEF Next, Session, Mint, Store, Join, Actors

(* Every session works under the project of its directory's marker, unless  *)
(* somebody found that marker half written.                                 *)
THEOREM OneProject == Spec => []OneIdentity
  <1>1. Init => Filling /\ OneIdentity
    BY IdentityAssumption DEF Init, Filling, Writing, OneIdentity, At, Actors
  <1> QED
    BY <1>1, IdentityTypes, FillingKept, OneIdentityKept, PTL DEF Spec
-----------------------------------------------------------------------------
(* Keys of a team that was not joined.                                      *)

(* The key a process stores is its own.                                     *)
OwnKeys ==
  \A a \in Actors : pc[a] \in {"lock", "break", "read", "write"} =>
    key[a] = a /\ (a \in Joins => team[a] = Team)

LEMMA OwnKeysKept == TypeOK /\ OwnKeys /\ [Next]_vars => OwnKeys'
  <1> SUFFICES ASSUME TypeOK, OwnKeys, [Next]_vars PROVE OwnKeys'
    OBVIOUS
  <1> USE IdentityAssumption
  <1>1. ASSUME NEW s \in Sessions, Begin(s) PROVE OwnKeys'
    BY <1>1 DEF Begin, Take, Goto, identity, storing, lockfile, OwnKeys, TypeOK, At, Mark, Marker, NoMarker, TornMarker, Actors, Projects, Teams
  <1>2. ASSUME NEW s \in Sessions, Create(s) PROVE OwnKeys'
    BY <1>2 DEF Create, Goto, TornMarker, NoMarker, identity, storing, lockfile, OwnKeys, TypeOK, At, Mark, Marker, NoMarker, TornMarker, Actors, Projects, Teams
  <1>3. ASSUME NEW s \in Sessions, Adopt(s) PROVE OwnKeys'
    BY <1>3 DEF Adopt, Take, Goto, identity, storing, lockfile, OwnKeys, TypeOK, At, Mark, Marker, NoMarker, TornMarker, Actors, Projects, Teams
  <1>4. ASSUME NEW s \in Sessions, Fill(s) PROVE OwnKeys'
    BY <1>4 DEF Fill, Take, Goto, OwnMarker, identity, storing, lockfile, OwnKeys, TypeOK, At, Mark, Marker, NoMarker, TornMarker, Actors, Projects, Teams
  <1>5. ASSUME NEW s \in Sessions, upsertTeamAndProject(s) PROVE OwnKeys'
    BY <1>5 DEF upsertTeamAndProject, StatementFails, Goto, identity, storing, lockfile, OwnKeys, TypeOK, At, Mark, Marker, NoMarker, TornMarker, Actors, Projects, Teams
  <1>6. ASSUME NEW s \in Sessions, Gate(s) PROVE OwnKeys'
    BY <1>6 DEF Gate, Goto, isTeamMarker, identity, storing, lockfile, OwnKeys, TypeOK, At, Mark, Marker, NoMarker, TornMarker, Actors, Projects, Teams
  <1>7. ASSUME NEW s \in Sessions, CheckHash(s) PROVE OwnKeys'
    BY <1>7 DEF CheckHash, StatementFails, Goto, identity, storing, lockfile, OwnKeys, TypeOK, At, Mark, Marker, NoMarker, TornMarker, Actors, Projects, Teams
  <1>8. ASSUME NEW s \in Sessions, insertApiKeyHash(s) PROVE OwnKeys'
    BY <1>8 DEF insertApiKeyHash, StatementFails, Goto, HashTaken, identity, storing, lockfile, OwnKeys, TypeOK, At, Mark, Marker, NoMarker, TornMarker, Actors, Projects, Teams
  <1>9. ASSUME NEW a \in Actors, Lock(a) PROVE OwnKeys'
    BY <1>9 DEF Lock, Goto, Killed, identity, storing, lockfile, OwnKeys, TypeOK, At, Mark, Marker, NoMarker, TornMarker, Actors, Projects, Teams
  <1>10. ASSUME NEW a \in Actors, BreakLock(a) PROVE OwnKeys'
    BY <1>10 DEF BreakLock, Goto, identity, storing, lockfile, OwnKeys, TypeOK, At, Mark, Marker, NoMarker, TornMarker, Actors, Projects, Teams
  <1>11. ASSUME NEW a \in Actors, ReadKeys(a) PROVE OwnKeys'
    BY <1>11 DEF ReadKeys, Goto, identity, storing, lockfile, OwnKeys, TypeOK, At, Mark, Marker, NoMarker, TornMarker, Actors, Projects, Teams
  <1>12. ASSUME NEW a \in Actors, WriteKeys(a) PROVE OwnKeys'
    BY <1>12 DEF WriteKeys, Goto, identity, storing, lockfile, OwnKeys, TypeOK, At, Mark, Marker, NoMarker, TornMarker, Actors, Projects, Teams
  <1>13. ASSUME NEW a \in Actors, Unlock(a) PROVE OwnKeys'
    BY <1>13 DEF Unlock, Goto, identity, storing, lockfile, OwnKeys, TypeOK, At, Mark, Marker, NoMarker, TornMarker, Actors, Projects, Teams
  <1>14. ASSUME NEW j \in Joins, BeginJoin(j) PROVE OwnKeys'
    BY <1>14 DEF BeginJoin, Goto, identity, storing, lockfile, OwnKeys, TypeOK, At, Mark, Marker, NoMarker, TornMarker, Actors, Projects, Teams
  <1>15. ASSUME NEW j \in Joins, Flip(j) PROVE OwnKeys'
    BY <1>15 DEF Flip, Goto, identity, storing, lockfile, OwnKeys, TypeOK, At, Mark, Marker, NoMarker, TornMarker, Actors, Projects, Teams
  <1>20. ASSUME NEW j \in Joins, Merge(j) PROVE OwnKeys'
    BY <1>20 DEF Merge, Goto, identity, storing, lockfile, OwnKeys, TypeOK, At, Mark, Marker, NoMarker, TornMarker, Actors, Projects, Teams
  <1>16. ASSUME NEW d \in Dirs, Pull(d) PROVE OwnKeys'
    BY <1>16 DEF Pull, Committed, identity, storing, lockfile, OwnKeys, TypeOK, At, Mark, Marker, NoMarker, TornMarker, Actors, Projects, Teams
  <1>17. ASSUME NEW a \in Actors, Kill(a) PROVE OwnKeys'
    BY <1>17 DEF Kill, Goto, identity, storing, lockfile, OwnKeys, TypeOK, At, Mark, Marker, NoMarker, TornMarker, Actors, Projects, Teams
  <1>18. ASSUME GrowOld PROVE OwnKeys'
    BY <1>18 DEF GrowOld, Killed, identity, storing, lockfile, OwnKeys, TypeOK, At, Mark, Marker, NoMarker, TornMarker, Actors, Projects, Teams
  <1>19. CASE UNCHANGED vars
    BY <1>19 DEF vars, identity, storing, lockfile, OwnKeys, TypeOK, At, Mark, Marker, NoMarker, TornMarker, Actors, Projects, Teams
  <1> QED
    BY <1>1, <1>2, <1>3, <1>4, <1>5, <1>6, <1>7, <1>8, <1>9, <1>10, <1>11, <1>12, <1>13, <1>14, <1>15, <1>16, <1>17, <1>18, <1>19, <1>20
    DEF Next, Session, Mint, Store, Join, Actors

Brought == Joins \cup {Nobody}

(* Every marker of the team says "server"; a session that works for the     *)
(* team knows that, and so neither mints nor stores a key for it.           *)
MarkersSayServer ==
  \A d \in Dirs : marker[d].state = "whole" /\ marker[d].team = Team => marker[d].server

(* The marker of directory d says "server", or is about to.                 *)
ServesTeam(d) ==
  \/ marker[d].state = "whole" /\ marker[d].server
  \/ \E j \in Joins : DirOf[j] = d /\ At(j, "merge")

SessionsKnow ==
  \A s \in Sessions : team[s] = Team =>
    /\ pc[s] \in {"upsert", "gate"} =>
         \/ known[s] = "server"
         \/ known[s] = "none" /\ ServesTeam(DirOf[s])
    /\ pc[s] \notin {"lock", "break", "read", "write", "unlock"}
    /\ pc[s] \in {"check", "insert"} => key[s] \in Joins

FilesHoldBrought ==
  creds[Team] \in Brought /\ \A a \in Actors : snap[a][Team] \in Brought

Issued ==
  torn = {} =>
    MarkersSayServer /\ SessionsKnow /\ FilesHoldBrought /\ hashes[Team] \subseteq Joins

LEMMA TornGrows == [Next]_vars /\ torn' = {} => torn = {}
  <1> SUFFICES ASSUME [Next]_vars, torn' = {} PROVE torn = {}
    OBVIOUS
  <1>1. ASSUME NEW s \in Sessions, Begin(s) PROVE torn = {}
    BY <1>1 DEF Begin, Take, Goto, identity, storing, lockfile, vars
  <1>2. ASSUME NEW s \in Sessions, Create(s) PROVE torn = {}
    BY <1>2 DEF Create, Goto, TornMarker, NoMarker, identity, storing, lockfile, vars
  <1>3. ASSUME NEW s \in Sessions, Adopt(s) PROVE torn = {}
    BY <1>3 DEF Adopt, Take, Goto, identity, storing, lockfile, vars
  <1>4. ASSUME NEW s \in Sessions, Fill(s) PROVE torn = {}
    BY <1>4 DEF Fill, Take, Goto, OwnMarker, identity, storing, lockfile, vars
  <1>5. ASSUME NEW s \in Sessions, upsertTeamAndProject(s) PROVE torn = {}
    BY <1>5 DEF upsertTeamAndProject, StatementFails, Goto, identity, storing, lockfile, vars
  <1>6. ASSUME NEW s \in Sessions, Gate(s) PROVE torn = {}
    BY <1>6 DEF Gate, Goto, isTeamMarker, identity, storing, lockfile, vars
  <1>7. ASSUME NEW s \in Sessions, CheckHash(s) PROVE torn = {}
    BY <1>7 DEF CheckHash, StatementFails, Goto, identity, storing, lockfile, vars
  <1>8. ASSUME NEW s \in Sessions, insertApiKeyHash(s) PROVE torn = {}
    BY <1>8 DEF insertApiKeyHash, StatementFails, Goto, HashTaken, identity, storing, lockfile, vars
  <1>9. ASSUME NEW a \in Actors, Lock(a) PROVE torn = {}
    BY <1>9 DEF Lock, Goto, Killed, identity, storing, lockfile, vars
  <1>10. ASSUME NEW a \in Actors, BreakLock(a) PROVE torn = {}
    BY <1>10 DEF BreakLock, Goto, identity, storing, lockfile, vars
  <1>11. ASSUME NEW a \in Actors, ReadKeys(a) PROVE torn = {}
    BY <1>11 DEF ReadKeys, Goto, identity, storing, lockfile, vars
  <1>12. ASSUME NEW a \in Actors, WriteKeys(a) PROVE torn = {}
    BY <1>12 DEF WriteKeys, Goto, identity, storing, lockfile, vars
  <1>13. ASSUME NEW a \in Actors, Unlock(a) PROVE torn = {}
    BY <1>13 DEF Unlock, Goto, identity, storing, lockfile, vars
  <1>14. ASSUME NEW j \in Joins, BeginJoin(j) PROVE torn = {}
    BY <1>14 DEF BeginJoin, Goto, identity, storing, lockfile, vars
  <1>15. ASSUME NEW j \in Joins, Flip(j) PROVE torn = {}
    BY <1>15 DEF Flip, Goto, identity, storing, lockfile, vars
  <1>20. ASSUME NEW j \in Joins, Merge(j) PROVE torn = {}
    BY <1>20 DEF Merge, Goto, identity, storing, lockfile, vars
  <1>16. ASSUME NEW d \in Dirs, Pull(d) PROVE torn = {}
    BY <1>16 DEF Pull, Committed, identity, storing, lockfile, vars
  <1>17. ASSUME NEW a \in Actors, Kill(a) PROVE torn = {}
    BY <1>17 DEF Kill, Goto, identity, storing, lockfile, vars
  <1>18. ASSUME GrowOld PROVE torn = {}
    BY <1>18 DEF GrowOld, Killed, identity, storing, lockfile, vars
  <1>19. CASE UNCHANGED vars
    BY <1>19 DEF vars, identity, storing, lockfile, vars
  <1> QED
    BY <1>1, <1>2, <1>3, <1>4, <1>5, <1>6, <1>7, <1>8, <1>9, <1>10, <1>11, <1>12, <1>13, <1>14, <1>15, <1>16, <1>17, <1>18, <1>19, <1>20
    DEF Next, Session, Mint, Store, Join, Actors

IssuedFacts == TypeOK /\ Named /\ Filling /\ OwnKeys /\ Issued /\ torn = {} /\ torn' = {}

LEMMA MarkersKept == IssuedFacts /\ [Next]_vars => MarkersSayServer'
  <1> SUFFICES ASSUME IssuedFacts, [Next]_vars PROVE MarkersSayServer'
    OBVIOUS
  <1> USE IdentityAssumption
  <1>1. ASSUME NEW s \in Sessions, Begin(s) PROVE MarkersSayServer'
    BY <1>1 DEF Begin, Take, Goto, identity, storing, lockfile, IssuedFacts, Issued, MarkersSayServer, TypeOK, At, Mark, Marker, NoMarker, TornMarker, Actors, Projects, Teams
  <1>2. ASSUME NEW s \in Sessions, Create(s) PROVE MarkersSayServer'
    BY <1>2 DEF Create, Goto, TornMarker, NoMarker, identity, storing, lockfile, IssuedFacts, Issued, MarkersSayServer, TypeOK, At, Mark, Marker, NoMarker, TornMarker, Actors, Projects, Teams
  <1>3. ASSUME NEW s \in Sessions, Adopt(s) PROVE MarkersSayServer'
    BY <1>3 DEF Adopt, Take, Goto, identity, storing, lockfile, IssuedFacts, Issued, MarkersSayServer, TypeOK, At, Mark, Marker, NoMarker, TornMarker, Actors, Projects, Teams
  <1>4. ASSUME NEW s \in Sessions, Fill(s) PROVE MarkersSayServer'
    BY <1>4 DEF Fill, Take, Goto, OwnMarker, identity, storing, lockfile, IssuedFacts, Issued, MarkersSayServer, TypeOK, At, Mark, Marker, NoMarker, TornMarker, Actors, Projects, Teams
  <1>5. ASSUME NEW s \in Sessions, upsertTeamAndProject(s) PROVE MarkersSayServer'
    BY <1>5 DEF upsertTeamAndProject, StatementFails, Goto, identity, storing, lockfile, IssuedFacts, Issued, MarkersSayServer, TypeOK, At, Mark, Marker, NoMarker, TornMarker, Actors, Projects, Teams
  <1>6. ASSUME NEW s \in Sessions, Gate(s) PROVE MarkersSayServer'
    BY <1>6 DEF Gate, Goto, isTeamMarker, identity, storing, lockfile, IssuedFacts, Issued, MarkersSayServer, TypeOK, At, Mark, Marker, NoMarker, TornMarker, Actors, Projects, Teams
  <1>7. ASSUME NEW s \in Sessions, CheckHash(s) PROVE MarkersSayServer'
    BY <1>7 DEF CheckHash, StatementFails, Goto, identity, storing, lockfile, IssuedFacts, Issued, MarkersSayServer, TypeOK, At, Mark, Marker, NoMarker, TornMarker, Actors, Projects, Teams
  <1>8. ASSUME NEW s \in Sessions, insertApiKeyHash(s) PROVE MarkersSayServer'
    BY <1>8 DEF insertApiKeyHash, StatementFails, Goto, HashTaken, identity, storing, lockfile, IssuedFacts, Issued, MarkersSayServer, TypeOK, At, Mark, Marker, NoMarker, TornMarker, Actors, Projects, Teams
  <1>9. ASSUME NEW a \in Actors, Lock(a) PROVE MarkersSayServer'
    BY <1>9 DEF Lock, Goto, Killed, identity, storing, lockfile, IssuedFacts, Issued, MarkersSayServer, TypeOK, At, Mark, Marker, NoMarker, TornMarker, Actors, Projects, Teams
  <1>10. ASSUME NEW a \in Actors, BreakLock(a) PROVE MarkersSayServer'
    BY <1>10 DEF BreakLock, Goto, identity, storing, lockfile, IssuedFacts, Issued, MarkersSayServer, TypeOK, At, Mark, Marker, NoMarker, TornMarker, Actors, Projects, Teams
  <1>11. ASSUME NEW a \in Actors, ReadKeys(a) PROVE MarkersSayServer'
    BY <1>11 DEF ReadKeys, Goto, identity, storing, lockfile, IssuedFacts, Issued, MarkersSayServer, TypeOK, At, Mark, Marker, NoMarker, TornMarker, Actors, Projects, Teams
  <1>12. ASSUME NEW a \in Actors, WriteKeys(a) PROVE MarkersSayServer'
    BY <1>12 DEF WriteKeys, Goto, identity, storing, lockfile, IssuedFacts, Issued, MarkersSayServer, TypeOK, At, Mark, Marker, NoMarker, TornMarker, Actors, Projects, Teams
  <1>13. ASSUME NEW a \in Actors, Unlock(a) PROVE MarkersSayServer'
    BY <1>13 DEF Unlock, Goto, identity, storing, lockfile, IssuedFacts, Issued, MarkersSayServer, TypeOK, At, Mark, Marker, NoMarker, TornMarker, Actors, Projects, Teams
  <1>14. ASSUME NEW j \in Joins, BeginJoin(j) PROVE MarkersSayServer'
    BY <1>14 DEF BeginJoin, Goto, identity, storing, lockfile, IssuedFacts, Issued, MarkersSayServer, TypeOK, At, Mark, Marker, NoMarker, TornMarker, Actors, Projects, Teams
  <1>15. ASSUME NEW j \in Joins, Flip(j) PROVE MarkersSayServer'
    <2>1. \A d \in Dirs : marker'[d] = marker[d] \/ marker'[d] = TornMarker
      BY <1>15 DEF Flip, IssuedFacts, TypeOK
    <2> QED
      BY <2>1 DEF IssuedFacts, Issued, MarkersSayServer, TornMarker
  <1>20. ASSUME NEW j \in Joins, Merge(j) PROVE MarkersSayServer'
    BY <1>20 DEF Merge, Goto, identity, storing, lockfile, IssuedFacts, Issued, MarkersSayServer, TypeOK, At, Mark, Marker, NoMarker, TornMarker, Actors, Projects, Teams
  <1>16. ASSUME NEW d \in Dirs, Pull(d) PROVE MarkersSayServer'
    BY <1>16 DEF Pull, Committed, identity, storing, lockfile, IssuedFacts, Issued, MarkersSayServer, TypeOK, At, Mark, Marker, NoMarker, TornMarker, Actors, Projects, Teams
  <1>17. ASSUME NEW a \in Actors, Kill(a) PROVE MarkersSayServer'
    BY <1>17 DEF Kill, Goto, identity, storing, lockfile, IssuedFacts, Issued, MarkersSayServer, TypeOK, At, Mark, Marker, NoMarker, TornMarker, Actors, Projects, Teams
  <1>18. ASSUME GrowOld PROVE MarkersSayServer'
    BY <1>18 DEF GrowOld, Killed, identity, storing, lockfile, IssuedFacts, Issued, MarkersSayServer, TypeOK, At, Mark, Marker, NoMarker, TornMarker, Actors, Projects, Teams
  <1>19. CASE UNCHANGED vars
    BY <1>19 DEF vars, identity, storing, lockfile, IssuedFacts, Issued, MarkersSayServer, TypeOK, At, Mark, Marker, NoMarker, TornMarker, Actors, Projects, Teams
  <1> QED
    BY <1>1, <1>2, <1>3, <1>4, <1>5, <1>6, <1>7, <1>8, <1>9, <1>10, <1>11, <1>12, <1>13, <1>14, <1>15, <1>16, <1>17, <1>18, <1>19, <1>20
    DEF Next, Session, Mint, Store, Join, Actors

LEMMA ServesKept ==
  ASSUME IssuedFacts, [Next]_vars, NEW d \in Dirs, ServesTeam(d) PROVE ServesTeam(d)'
  <1> USE IdentityAssumption
  <1>1. ASSUME NEW s \in Sessions, Begin(s) PROVE ServesTeam(d)'
    BY <1>1 DEF Begin, Take, Goto, identity, storing, lockfile, IssuedFacts, ServesTeam, Filling, Writing, TypeOK, At, Mark, Marker, NoMarker, TornMarker, Actors, Projects, Teams
  <1>2. ASSUME NEW s \in Sessions, Create(s) PROVE ServesTeam(d)'
    BY <1>2 DEF Create, Goto, TornMarker, NoMarker, identity, storing, lockfile, IssuedFacts, ServesTeam, Filling, Writing, TypeOK, At, Mark, Marker, NoMarker, TornMarker, Actors, Projects, Teams
  <1>3. ASSUME NEW s \in Sessions, Adopt(s) PROVE ServesTeam(d)'
    BY <1>3 DEF Adopt, Take, Goto, identity, storing, lockfile, IssuedFacts, ServesTeam, Filling, Writing, TypeOK, At, Mark, Marker, NoMarker, TornMarker, Actors, Projects, Teams
  <1>4. ASSUME NEW s \in Sessions, Fill(s) PROVE ServesTeam(d)'
    BY <1>4 DEF Fill, Take, Goto, OwnMarker, identity, storing, lockfile, IssuedFacts, ServesTeam, Filling, Writing, TypeOK, At, Mark, Marker, NoMarker, TornMarker, Actors, Projects, Teams
  <1>5. ASSUME NEW s \in Sessions, upsertTeamAndProject(s) PROVE ServesTeam(d)'
    BY <1>5 DEF upsertTeamAndProject, StatementFails, Goto, identity, storing, lockfile, IssuedFacts, ServesTeam, Filling, Writing, TypeOK, At, Mark, Marker, NoMarker, TornMarker, Actors, Projects, Teams
  <1>6. ASSUME NEW s \in Sessions, Gate(s) PROVE ServesTeam(d)'
    BY <1>6 DEF Gate, Goto, isTeamMarker, identity, storing, lockfile, IssuedFacts, ServesTeam, Filling, Writing, TypeOK, At, Mark, Marker, NoMarker, TornMarker, Actors, Projects, Teams
  <1>7. ASSUME NEW s \in Sessions, CheckHash(s) PROVE ServesTeam(d)'
    BY <1>7 DEF CheckHash, StatementFails, Goto, identity, storing, lockfile, IssuedFacts, ServesTeam, Filling, Writing, TypeOK, At, Mark, Marker, NoMarker, TornMarker, Actors, Projects, Teams
  <1>8. ASSUME NEW s \in Sessions, insertApiKeyHash(s) PROVE ServesTeam(d)'
    BY <1>8 DEF insertApiKeyHash, StatementFails, Goto, HashTaken, identity, storing, lockfile, IssuedFacts, ServesTeam, Filling, Writing, TypeOK, At, Mark, Marker, NoMarker, TornMarker, Actors, Projects, Teams
  <1>9. ASSUME NEW a \in Actors, Lock(a) PROVE ServesTeam(d)'
    BY <1>9 DEF Lock, Goto, Killed, identity, storing, lockfile, IssuedFacts, ServesTeam, Filling, Writing, TypeOK, At, Mark, Marker, NoMarker, TornMarker, Actors, Projects, Teams
  <1>10. ASSUME NEW a \in Actors, BreakLock(a) PROVE ServesTeam(d)'
    BY <1>10 DEF BreakLock, Goto, identity, storing, lockfile, IssuedFacts, ServesTeam, Filling, Writing, TypeOK, At, Mark, Marker, NoMarker, TornMarker, Actors, Projects, Teams
  <1>11. ASSUME NEW a \in Actors, ReadKeys(a) PROVE ServesTeam(d)'
    BY <1>11 DEF ReadKeys, Goto, identity, storing, lockfile, IssuedFacts, ServesTeam, Filling, Writing, TypeOK, At, Mark, Marker, NoMarker, TornMarker, Actors, Projects, Teams
  <1>12. ASSUME NEW a \in Actors, WriteKeys(a) PROVE ServesTeam(d)'
    BY <1>12 DEF WriteKeys, Goto, identity, storing, lockfile, IssuedFacts, ServesTeam, Filling, Writing, TypeOK, At, Mark, Marker, NoMarker, TornMarker, Actors, Projects, Teams
  <1>13. ASSUME NEW a \in Actors, Unlock(a) PROVE ServesTeam(d)'
    BY <1>13 DEF Unlock, Goto, identity, storing, lockfile, IssuedFacts, ServesTeam, Filling, Writing, TypeOK, At, Mark, Marker, NoMarker, TornMarker, Actors, Projects, Teams
  <1>14. ASSUME NEW j \in Joins, BeginJoin(j) PROVE ServesTeam(d)'
    BY <1>14 DEF BeginJoin, Goto, identity, storing, lockfile, IssuedFacts, ServesTeam, Filling, Writing, TypeOK, At, Mark, Marker, NoMarker, TornMarker, Actors, Projects, Teams
  <1>15. ASSUME NEW j \in Joins, Flip(j) PROVE ServesTeam(d)'
    BY <1>15 DEF Flip, Goto, identity, storing, lockfile, IssuedFacts, ServesTeam, Filling, Writing, TypeOK, At, Mark, Marker, NoMarker, TornMarker, Actors, Projects, Teams
  <1>20. ASSUME NEW j \in Joins, Merge(j) PROVE ServesTeam(d)'
    BY <1>20 DEF Merge, Goto, identity, storing, lockfile, IssuedFacts, ServesTeam, Filling, Writing, TypeOK, At, Mark, Marker, NoMarker, TornMarker, Actors, Projects, Teams
  <1>16. ASSUME NEW c \in Dirs, Pull(c) PROVE ServesTeam(d)'
    BY <1>16 DEF Pull, Committed, identity, storing, lockfile, IssuedFacts, ServesTeam, Filling, Writing, TypeOK, At, Mark, Marker, NoMarker, TornMarker, Actors, Projects, Teams
  <1>17. ASSUME NEW a \in Actors, Kill(a) PROVE ServesTeam(d)'
    BY <1>17 DEF Kill, Goto, identity, storing, lockfile, IssuedFacts, ServesTeam, Filling, Writing, TypeOK, At, Mark, Marker, NoMarker, TornMarker, Actors, Projects, Teams
  <1>18. ASSUME GrowOld PROVE ServesTeam(d)'
    BY <1>18 DEF GrowOld, Killed, identity, storing, lockfile, IssuedFacts, ServesTeam, Filling, Writing, TypeOK, At, Mark, Marker, NoMarker, TornMarker, Actors, Projects, Teams
  <1>19. CASE UNCHANGED vars
    BY <1>19 DEF vars, identity, storing, lockfile, IssuedFacts, ServesTeam, Filling, Writing, TypeOK, At, Mark, Marker, NoMarker, TornMarker, Actors, Projects, Teams
  <1> QED
    BY <1>1, <1>2, <1>3, <1>4, <1>5, <1>6, <1>7, <1>8, <1>9, <1>10, <1>11, <1>12, <1>13, <1>14, <1>15, <1>16, <1>17, <1>18, <1>19, <1>20
    DEF Next, Session, Mint, Store, Join, Actors

LEMMA KnowledgeKept == IssuedFacts /\ [Next]_vars => SessionsKnow'
  <1> SUFFICES ASSUME IssuedFacts, [Next]_vars PROVE SessionsKnow'
    OBVIOUS
  <1> USE IdentityAssumption
  <1>21. \A d \in Dirs : ServesTeam(d) => ServesTeam(d)'
    BY ServesKept
  <1>1. ASSUME NEW s \in Sessions, Begin(s) PROVE SessionsKnow'
    <2>1. /\ UNCHANGED <<marker, key>>
          /\ \A r \in Sessions : r # s => pc'[r] = pc[r] /\ team'[r] = team[r] /\ known'[r] = known[r]
      BY <1>1 DEF Begin, Take, Goto, identity, storing, IssuedFacts, TypeOK, Actors
    <2>2. \A r \in Sessions : r # s => DirOf[r] \in Dirs /\ (ServesTeam(DirOf[r]) => ServesTeam(DirOf[r])')
      BY <1>21 DEF Actors
    <2>3. CASE Mark(s).state = "whole"
      <3>1. /\ pc'[s] = "upsert" /\ team'[s] = Mark(s).team
            /\ known'[s] = IF Mark(s).server THEN "server" ELSE "local"
        BY <1>1, <2>3 DEF Begin, Take, Goto, IssuedFacts, TypeOK, Actors
      <3>2. Mark(s).team = Team => Mark(s).server /\ ServesTeam(DirOf[s])'
        BY <2>1, <2>3 DEF IssuedFacts, Issued, MarkersSayServer, ServesTeam, Mark, Actors
      <3> QED
        BY <2>1, <2>2, <3>1, <3>2 DEF IssuedFacts, Issued, SessionsKnow
    <2>4. CASE Mark(s).state # "whole"
      <3>1. pc'[s] \in {"create", "fill"} /\ team'[s] = team[s] /\ known'[s] = known[s]
        BY <1>1, <2>4 DEF Begin, Goto, identity, IssuedFacts, TypeOK, Actors
      <3> QED
        BY <2>1, <2>2, <3>1 DEF IssuedFacts, Issued, SessionsKnow
    <2> QED
      BY <2>3, <2>4
  <1>2. ASSUME NEW s \in Sessions, Create(s) PROVE SessionsKnow'
    BY <1>2, <1>21 DEF Create, Goto, TornMarker, NoMarker, identity, storing, lockfile, IssuedFacts, Issued, MarkersSayServer, SessionsKnow, FilesHoldBrought, Brought, TypeOK, At, Actors, Teams
  <1>3. ASSUME NEW s \in Sessions, Adopt(s) PROVE SessionsKnow'
    <2>1. /\ UNCHANGED <<marker, key>>
          /\ \A r \in Sessions : r # s => pc'[r] = pc[r] /\ team'[r] = team[r] /\ known'[r] = known[r]
      BY <1>3 DEF Adopt, Take, Goto, identity, storing, IssuedFacts, TypeOK, Actors
    <2>2. \A r \in Sessions : r # s => DirOf[r] \in Dirs /\ (ServesTeam(DirOf[r]) => ServesTeam(DirOf[r])')
      BY <1>21 DEF Actors
    <2>3. CASE Mark(s).state = "whole"
      <3>1. /\ pc'[s] = "upsert" /\ team'[s] = Mark(s).team
            /\ known'[s] = "none"
        BY <1>3, <2>3 DEF Adopt, Take, Goto, IssuedFacts, TypeOK, Actors
      <3>2. Mark(s).team = Team => Mark(s).server /\ ServesTeam(DirOf[s])'
        BY <2>1, <2>3 DEF IssuedFacts, Issued, MarkersSayServer, ServesTeam, Mark, Actors
      <3> QED
        BY <2>1, <2>2, <3>1, <3>2 DEF IssuedFacts, Issued, SessionsKnow
    <2>4. CASE Mark(s).state # "whole"
      <3>1. pc'[s] \in {"create", "fill"} /\ team'[s] = team[s] /\ known'[s] = known[s]
        BY <1>3, <2>4 DEF Adopt, Goto, identity, IssuedFacts, TypeOK, Actors
      <3> QED
        BY <2>1, <2>2, <3>1 DEF IssuedFacts, Issued, SessionsKnow
    <2> QED
      BY <2>3, <2>4
  <1>4. ASSUME NEW s \in Sessions, Fill(s) PROVE SessionsKnow'
    BY <1>4, <1>21 DEF Fill, Take, Goto, OwnMarker, identity, storing, lockfile, IssuedFacts, Issued, MarkersSayServer, SessionsKnow, FilesHoldBrought, Brought, TypeOK, At, Actors, Teams
  <1>5. ASSUME NEW s \in Sessions, upsertTeamAndProject(s) PROVE SessionsKnow'
    BY <1>5, <1>21 DEF upsertTeamAndProject, StatementFails, Goto, identity, storing, lockfile, IssuedFacts, Issued, MarkersSayServer, SessionsKnow, FilesHoldBrought, Brought, TypeOK, At, Actors, Teams
  <1>6. ASSUME NEW s \in Sessions, Gate(s) PROVE SessionsKnow'
    <2>1. /\ UNCHANGED <<marker, team, known>>
          /\ \A r \in Sessions : r # s => pc'[r] = pc[r] /\ key'[r] = key[r]
      BY <1>6 DEF Gate, Goto, identity, IssuedFacts, TypeOK, Actors
    <2>2. \A r \in Sessions : ServesTeam(DirOf[r]) => ServesTeam(DirOf[r])'
      BY <1>21 DEF Actors
    <2>3. team[s] = Team => isTeamMarker(s)
      <3>1. ASSUME team[s] = Team, known[s] = "none" PROVE Mark(s).state = "whole" /\ Mark(s).server
        <4>1. ServesTeam(DirOf[s]) /\ Mark(s).state # "torn"
          BY <1>6, <3>1 DEF Gate, At, IssuedFacts, Issued, SessionsKnow
        <4> QED
          BY <4>1 DEF ServesTeam, IssuedFacts, Filling, Writing, Mark, Actors
      <3>2. team[s] = Team => known[s] \in {"server", "none"}
        BY <1>6 DEF Gate, At, IssuedFacts, Issued, SessionsKnow
      <3> QED
        BY <3>1, <3>2 DEF isTeamMarker
    <2>4. team[s] = Team => creds[Team] \in Joins \cup {Nobody}
      BY DEF IssuedFacts, Issued, FilesHoldBrought, Brought
    <2>5. \/ pc'[s] = "check" /\ key'[s] = creds[team[s]] /\ creds[team[s]] # Nobody
          \/ pc'[s] = "done"
          \/ pc'[s] = "lock" /\ ~isTeamMarker(s)
      BY <1>6 DEF Gate, Goto, IssuedFacts, TypeOK, Actors
    <2> QED
      BY <2>1, <2>2, <2>3, <2>4, <2>5 DEF IssuedFacts, Issued, SessionsKnow
  <1>7. ASSUME NEW s \in Sessions, CheckHash(s) PROVE SessionsKnow'
    BY <1>7, <1>21 DEF CheckHash, StatementFails, Goto, identity, storing, lockfile, IssuedFacts, Issued, MarkersSayServer, SessionsKnow, FilesHoldBrought, Brought, TypeOK, At, Actors, Teams
  <1>8. ASSUME NEW s \in Sessions, insertApiKeyHash(s) PROVE SessionsKnow'
    BY <1>8, <1>21 DEF insertApiKeyHash, StatementFails, Goto, HashTaken, identity, storing, lockfile, IssuedFacts, Issued, MarkersSayServer, SessionsKnow, FilesHoldBrought, Brought, TypeOK, At, Actors, Teams
  <1>9. ASSUME NEW a \in Actors, Lock(a) PROVE SessionsKnow'
    BY <1>9, <1>21 DEF Lock, Goto, Killed, identity, storing, lockfile, IssuedFacts, Issued, MarkersSayServer, SessionsKnow, FilesHoldBrought, Brought, TypeOK, At, Actors, Teams
  <1>10. ASSUME NEW a \in Actors, BreakLock(a) PROVE SessionsKnow'
    BY <1>10, <1>21 DEF BreakLock, Goto, identity, storing, lockfile, IssuedFacts, Issued, MarkersSayServer, SessionsKnow, FilesHoldBrought, Brought, TypeOK, At, Actors, Teams
  <1>11. ASSUME NEW a \in Actors, ReadKeys(a) PROVE SessionsKnow'
    BY <1>11, <1>21 DEF ReadKeys, Goto, identity, storing, lockfile, IssuedFacts, Issued, MarkersSayServer, SessionsKnow, FilesHoldBrought, Brought, TypeOK, At, Actors, Teams
  <1>12. ASSUME NEW a \in Actors, WriteKeys(a) PROVE SessionsKnow'
    BY <1>12, <1>21 DEF WriteKeys, Goto, identity, storing, lockfile, IssuedFacts, Issued, MarkersSayServer, SessionsKnow, FilesHoldBrought, Brought, TypeOK, At, Actors, Teams
  <1>13. ASSUME NEW a \in Actors, Unlock(a) PROVE SessionsKnow'
    BY <1>13, <1>21 DEF Unlock, Goto, identity, storing, lockfile, IssuedFacts, Issued, MarkersSayServer, SessionsKnow, FilesHoldBrought, Brought, TypeOK, At, Actors, Teams
  <1>14. ASSUME NEW j \in Joins, BeginJoin(j) PROVE SessionsKnow'
    BY <1>14, <1>21 DEF BeginJoin, Goto, identity, storing, lockfile, IssuedFacts, Issued, MarkersSayServer, SessionsKnow, FilesHoldBrought, Brought, TypeOK, At, Actors, Teams
  <1>15. ASSUME NEW j \in Joins, Flip(j) PROVE SessionsKnow'
    BY <1>15, <1>21 DEF Flip, Goto, identity, storing, lockfile, IssuedFacts, Issued, MarkersSayServer, SessionsKnow, FilesHoldBrought, Brought, TypeOK, At, Actors, Teams
  <1>20. ASSUME NEW j \in Joins, Merge(j) PROVE SessionsKnow'
    BY <1>20, <1>21 DEF Merge, Goto, identity, storing, lockfile, IssuedFacts, Issued, MarkersSayServer, SessionsKnow, FilesHoldBrought, Brought, TypeOK, At, Actors, Teams
  <1>16. ASSUME NEW d \in Dirs, Pull(d) PROVE SessionsKnow'
    BY <1>16, <1>21 DEF Pull, Committed, identity, storing, lockfile, IssuedFacts, Issued, MarkersSayServer, SessionsKnow, FilesHoldBrought, Brought, TypeOK, At, Actors, Teams
  <1>17. ASSUME NEW a \in Actors, Kill(a) PROVE SessionsKnow'
    BY <1>17, <1>21 DEF Kill, Goto, identity, storing, lockfile, IssuedFacts, Issued, MarkersSayServer, SessionsKnow, FilesHoldBrought, Brought, TypeOK, At, Actors, Teams
  <1>18. ASSUME GrowOld PROVE SessionsKnow'
    BY <1>18, <1>21 DEF GrowOld, Killed, identity, storing, lockfile, IssuedFacts, Issued, MarkersSayServer, SessionsKnow, FilesHoldBrought, Brought, TypeOK, At, Actors, Teams
  <1>19. CASE UNCHANGED vars
    BY <1>19, <1>21 DEF vars, identity, storing, lockfile, IssuedFacts, Issued, MarkersSayServer, SessionsKnow, FilesHoldBrought, Brought, TypeOK, At, Actors, Teams
  <1> QED
    BY <1>1, <1>2, <1>3, <1>4, <1>5, <1>6, <1>7, <1>8, <1>9, <1>10, <1>11, <1>12, <1>13, <1>14, <1>15, <1>16, <1>17, <1>18, <1>19, <1>20
    DEF Next, Session, Mint, Store, Join, Actors

LEMMA FilesKept == IssuedFacts /\ [Next]_vars => FilesHoldBrought'
  <1> SUFFICES ASSUME IssuedFacts, [Next]_vars PROVE FilesHoldBrought'
    OBVIOUS
  <1> USE IdentityAssumption
  <1>1. ASSUME NEW s \in Sessions, Begin(s) PROVE FilesHoldBrought'
    BY <1>1 DEF Begin, Take, Goto, identity, storing, lockfile, IssuedFacts, Issued, SessionsKnow, FilesHoldBrought, Brought, OwnKeys, TypeOK, At, Mark, Marker, NoMarker, TornMarker, Actors, Projects, Teams
  <1>2. ASSUME NEW s \in Sessions, Create(s) PROVE FilesHoldBrought'
    BY <1>2 DEF Create, Goto, TornMarker, NoMarker, identity, storing, lockfile, IssuedFacts, Issued, SessionsKnow, FilesHoldBrought, Brought, OwnKeys, TypeOK, At, Mark, Marker, NoMarker, TornMarker, Actors, Projects, Teams
  <1>3. ASSUME NEW s \in Sessions, Adopt(s) PROVE FilesHoldBrought'
    BY <1>3 DEF Adopt, Take, Goto, identity, storing, lockfile, IssuedFacts, Issued, SessionsKnow, FilesHoldBrought, Brought, OwnKeys, TypeOK, At, Mark, Marker, NoMarker, TornMarker, Actors, Projects, Teams
  <1>4. ASSUME NEW s \in Sessions, Fill(s) PROVE FilesHoldBrought'
    BY <1>4 DEF Fill, Take, Goto, OwnMarker, identity, storing, lockfile, IssuedFacts, Issued, SessionsKnow, FilesHoldBrought, Brought, OwnKeys, TypeOK, At, Mark, Marker, NoMarker, TornMarker, Actors, Projects, Teams
  <1>5. ASSUME NEW s \in Sessions, upsertTeamAndProject(s) PROVE FilesHoldBrought'
    BY <1>5 DEF upsertTeamAndProject, StatementFails, Goto, identity, storing, lockfile, IssuedFacts, Issued, SessionsKnow, FilesHoldBrought, Brought, OwnKeys, TypeOK, At, Mark, Marker, NoMarker, TornMarker, Actors, Projects, Teams
  <1>6. ASSUME NEW s \in Sessions, Gate(s) PROVE FilesHoldBrought'
    BY <1>6 DEF Gate, Goto, isTeamMarker, identity, storing, lockfile, IssuedFacts, Issued, SessionsKnow, FilesHoldBrought, Brought, OwnKeys, TypeOK, At, Mark, Marker, NoMarker, TornMarker, Actors, Projects, Teams
  <1>7. ASSUME NEW s \in Sessions, CheckHash(s) PROVE FilesHoldBrought'
    BY <1>7 DEF CheckHash, StatementFails, Goto, identity, storing, lockfile, IssuedFacts, Issued, SessionsKnow, FilesHoldBrought, Brought, OwnKeys, TypeOK, At, Mark, Marker, NoMarker, TornMarker, Actors, Projects, Teams
  <1>8. ASSUME NEW s \in Sessions, insertApiKeyHash(s) PROVE FilesHoldBrought'
    BY <1>8 DEF insertApiKeyHash, StatementFails, Goto, HashTaken, identity, storing, lockfile, IssuedFacts, Issued, SessionsKnow, FilesHoldBrought, Brought, OwnKeys, TypeOK, At, Mark, Marker, NoMarker, TornMarker, Actors, Projects, Teams
  <1>9. ASSUME NEW a \in Actors, Lock(a) PROVE FilesHoldBrought'
    BY <1>9 DEF Lock, Goto, Killed, identity, storing, lockfile, IssuedFacts, Issued, SessionsKnow, FilesHoldBrought, Brought, OwnKeys, TypeOK, At, Mark, Marker, NoMarker, TornMarker, Actors, Projects, Teams
  <1>10. ASSUME NEW a \in Actors, BreakLock(a) PROVE FilesHoldBrought'
    BY <1>10 DEF BreakLock, Goto, identity, storing, lockfile, IssuedFacts, Issued, SessionsKnow, FilesHoldBrought, Brought, OwnKeys, TypeOK, At, Mark, Marker, NoMarker, TornMarker, Actors, Projects, Teams
  <1>11. ASSUME NEW a \in Actors, ReadKeys(a) PROVE FilesHoldBrought'
    BY <1>11 DEF ReadKeys, Goto, identity, storing, lockfile, IssuedFacts, Issued, SessionsKnow, FilesHoldBrought, Brought, OwnKeys, TypeOK, At, Mark, Marker, NoMarker, TornMarker, Actors, Projects, Teams
  <1>12. ASSUME NEW a \in Actors, WriteKeys(a) PROVE FilesHoldBrought'
    BY <1>12 DEF WriteKeys, Goto, identity, storing, lockfile, IssuedFacts, Issued, SessionsKnow, FilesHoldBrought, Brought, OwnKeys, TypeOK, At, Mark, Marker, NoMarker, TornMarker, Actors, Projects, Teams
  <1>13. ASSUME NEW a \in Actors, Unlock(a) PROVE FilesHoldBrought'
    BY <1>13 DEF Unlock, Goto, identity, storing, lockfile, IssuedFacts, Issued, SessionsKnow, FilesHoldBrought, Brought, OwnKeys, TypeOK, At, Mark, Marker, NoMarker, TornMarker, Actors, Projects, Teams
  <1>14. ASSUME NEW j \in Joins, BeginJoin(j) PROVE FilesHoldBrought'
    BY <1>14 DEF BeginJoin, Goto, identity, storing, lockfile, IssuedFacts, Issued, SessionsKnow, FilesHoldBrought, Brought, OwnKeys, TypeOK, At, Mark, Marker, NoMarker, TornMarker, Actors, Projects, Teams
  <1>15. ASSUME NEW j \in Joins, Flip(j) PROVE FilesHoldBrought'
    BY <1>15 DEF Flip, Goto, identity, storing, lockfile, IssuedFacts, Issued, SessionsKnow, FilesHoldBrought, Brought, OwnKeys, TypeOK, At, Mark, Marker, NoMarker, TornMarker, Actors, Projects, Teams
  <1>20. ASSUME NEW j \in Joins, Merge(j) PROVE FilesHoldBrought'
    BY <1>20 DEF Merge, Goto, identity, storing, lockfile, IssuedFacts, Issued, SessionsKnow, FilesHoldBrought, Brought, OwnKeys, TypeOK, At, Mark, Marker, NoMarker, TornMarker, Actors, Projects, Teams
  <1>16. ASSUME NEW d \in Dirs, Pull(d) PROVE FilesHoldBrought'
    BY <1>16 DEF Pull, Committed, identity, storing, lockfile, IssuedFacts, Issued, SessionsKnow, FilesHoldBrought, Brought, OwnKeys, TypeOK, At, Mark, Marker, NoMarker, TornMarker, Actors, Projects, Teams
  <1>17. ASSUME NEW a \in Actors, Kill(a) PROVE FilesHoldBrought'
    BY <1>17 DEF Kill, Goto, identity, storing, lockfile, IssuedFacts, Issued, SessionsKnow, FilesHoldBrought, Brought, OwnKeys, TypeOK, At, Mark, Marker, NoMarker, TornMarker, Actors, Projects, Teams
  <1>18. ASSUME GrowOld PROVE FilesHoldBrought'
    BY <1>18 DEF GrowOld, Killed, identity, storing, lockfile, IssuedFacts, Issued, SessionsKnow, FilesHoldBrought, Brought, OwnKeys, TypeOK, At, Mark, Marker, NoMarker, TornMarker, Actors, Projects, Teams
  <1>19. CASE UNCHANGED vars
    BY <1>19 DEF vars, identity, storing, lockfile, IssuedFacts, Issued, SessionsKnow, FilesHoldBrought, Brought, OwnKeys, TypeOK, At, Mark, Marker, NoMarker, TornMarker, Actors, Projects, Teams
  <1> QED
    BY <1>1, <1>2, <1>3, <1>4, <1>5, <1>6, <1>7, <1>8, <1>9, <1>10, <1>11, <1>12, <1>13, <1>14, <1>15, <1>16, <1>17, <1>18, <1>19, <1>20
    DEF Next, Session, Mint, Store, Join, Actors

LEMMA HashesKept == IssuedFacts /\ [Next]_vars => hashes'[Team] \subseteq Joins
  <1> SUFFICES ASSUME IssuedFacts, [Next]_vars PROVE hashes'[Team] \subseteq Joins
    OBVIOUS
  <1> USE IdentityAssumption
  <1>1. ASSUME NEW s \in Sessions, Begin(s) PROVE hashes'[Team] \subseteq Joins
    BY <1>1 DEF Begin, Take, Goto, identity, storing, lockfile, IssuedFacts, Issued, SessionsKnow, TypeOK, At, Mark, Marker, NoMarker, TornMarker, Actors, Projects, Teams
  <1>2. ASSUME NEW s \in Sessions, Create(s) PROVE hashes'[Team] \subseteq Joins
    BY <1>2 DEF Create, Goto, TornMarker, NoMarker, identity, storing, lockfile, IssuedFacts, Issued, SessionsKnow, TypeOK, At, Mark, Marker, NoMarker, TornMarker, Actors, Projects, Teams
  <1>3. ASSUME NEW s \in Sessions, Adopt(s) PROVE hashes'[Team] \subseteq Joins
    BY <1>3 DEF Adopt, Take, Goto, identity, storing, lockfile, IssuedFacts, Issued, SessionsKnow, TypeOK, At, Mark, Marker, NoMarker, TornMarker, Actors, Projects, Teams
  <1>4. ASSUME NEW s \in Sessions, Fill(s) PROVE hashes'[Team] \subseteq Joins
    BY <1>4 DEF Fill, Take, Goto, OwnMarker, identity, storing, lockfile, IssuedFacts, Issued, SessionsKnow, TypeOK, At, Mark, Marker, NoMarker, TornMarker, Actors, Projects, Teams
  <1>5. ASSUME NEW s \in Sessions, upsertTeamAndProject(s) PROVE hashes'[Team] \subseteq Joins
    BY <1>5 DEF upsertTeamAndProject, StatementFails, Goto, identity, storing, lockfile, IssuedFacts, Issued, SessionsKnow, TypeOK, At, Mark, Marker, NoMarker, TornMarker, Actors, Projects, Teams
  <1>6. ASSUME NEW s \in Sessions, Gate(s) PROVE hashes'[Team] \subseteq Joins
    BY <1>6 DEF Gate, Goto, isTeamMarker, identity, storing, lockfile, IssuedFacts, Issued, SessionsKnow, TypeOK, At, Mark, Marker, NoMarker, TornMarker, Actors, Projects, Teams
  <1>7. ASSUME NEW s \in Sessions, CheckHash(s) PROVE hashes'[Team] \subseteq Joins
    BY <1>7 DEF CheckHash, StatementFails, Goto, identity, storing, lockfile, IssuedFacts, Issued, SessionsKnow, TypeOK, At, Mark, Marker, NoMarker, TornMarker, Actors, Projects, Teams
  <1>8. ASSUME NEW s \in Sessions, insertApiKeyHash(s) PROVE hashes'[Team] \subseteq Joins
    BY <1>8 DEF insertApiKeyHash, StatementFails, Goto, HashTaken, identity, storing, lockfile, IssuedFacts, Issued, SessionsKnow, TypeOK, At, Mark, Marker, NoMarker, TornMarker, Actors, Projects, Teams
  <1>9. ASSUME NEW a \in Actors, Lock(a) PROVE hashes'[Team] \subseteq Joins
    BY <1>9 DEF Lock, Goto, Killed, identity, storing, lockfile, IssuedFacts, Issued, SessionsKnow, TypeOK, At, Mark, Marker, NoMarker, TornMarker, Actors, Projects, Teams
  <1>10. ASSUME NEW a \in Actors, BreakLock(a) PROVE hashes'[Team] \subseteq Joins
    BY <1>10 DEF BreakLock, Goto, identity, storing, lockfile, IssuedFacts, Issued, SessionsKnow, TypeOK, At, Mark, Marker, NoMarker, TornMarker, Actors, Projects, Teams
  <1>11. ASSUME NEW a \in Actors, ReadKeys(a) PROVE hashes'[Team] \subseteq Joins
    BY <1>11 DEF ReadKeys, Goto, identity, storing, lockfile, IssuedFacts, Issued, SessionsKnow, TypeOK, At, Mark, Marker, NoMarker, TornMarker, Actors, Projects, Teams
  <1>12. ASSUME NEW a \in Actors, WriteKeys(a) PROVE hashes'[Team] \subseteq Joins
    BY <1>12 DEF WriteKeys, Goto, identity, storing, lockfile, IssuedFacts, Issued, SessionsKnow, TypeOK, At, Mark, Marker, NoMarker, TornMarker, Actors, Projects, Teams
  <1>13. ASSUME NEW a \in Actors, Unlock(a) PROVE hashes'[Team] \subseteq Joins
    BY <1>13 DEF Unlock, Goto, identity, storing, lockfile, IssuedFacts, Issued, SessionsKnow, TypeOK, At, Mark, Marker, NoMarker, TornMarker, Actors, Projects, Teams
  <1>14. ASSUME NEW j \in Joins, BeginJoin(j) PROVE hashes'[Team] \subseteq Joins
    BY <1>14 DEF BeginJoin, Goto, identity, storing, lockfile, IssuedFacts, Issued, SessionsKnow, TypeOK, At, Mark, Marker, NoMarker, TornMarker, Actors, Projects, Teams
  <1>15. ASSUME NEW j \in Joins, Flip(j) PROVE hashes'[Team] \subseteq Joins
    BY <1>15 DEF Flip, Goto, identity, storing, lockfile, IssuedFacts, Issued, SessionsKnow, TypeOK, At, Mark, Marker, NoMarker, TornMarker, Actors, Projects, Teams
  <1>20. ASSUME NEW j \in Joins, Merge(j) PROVE hashes'[Team] \subseteq Joins
    BY <1>20 DEF Merge, Goto, identity, storing, lockfile, IssuedFacts, Issued, SessionsKnow, TypeOK, At, Mark, Marker, NoMarker, TornMarker, Actors, Projects, Teams
  <1>16. ASSUME NEW d \in Dirs, Pull(d) PROVE hashes'[Team] \subseteq Joins
    BY <1>16 DEF Pull, Committed, identity, storing, lockfile, IssuedFacts, Issued, SessionsKnow, TypeOK, At, Mark, Marker, NoMarker, TornMarker, Actors, Projects, Teams
  <1>17. ASSUME NEW a \in Actors, Kill(a) PROVE hashes'[Team] \subseteq Joins
    BY <1>17 DEF Kill, Goto, identity, storing, lockfile, IssuedFacts, Issued, SessionsKnow, TypeOK, At, Mark, Marker, NoMarker, TornMarker, Actors, Projects, Teams
  <1>18. ASSUME GrowOld PROVE hashes'[Team] \subseteq Joins
    BY <1>18 DEF GrowOld, Killed, identity, storing, lockfile, IssuedFacts, Issued, SessionsKnow, TypeOK, At, Mark, Marker, NoMarker, TornMarker, Actors, Projects, Teams
  <1>19. CASE UNCHANGED vars
    BY <1>19 DEF vars, identity, storing, lockfile, IssuedFacts, Issued, SessionsKnow, TypeOK, At, Mark, Marker, NoMarker, TornMarker, Actors, Projects, Teams
  <1> QED
    BY <1>1, <1>2, <1>3, <1>4, <1>5, <1>6, <1>7, <1>8, <1>9, <1>10, <1>11, <1>12, <1>13, <1>14, <1>15, <1>16, <1>17, <1>18, <1>19, <1>20
    DEF Next, Session, Mint, Store, Join, Actors

(* A key of the team is held or registered only after a join brought it.    *)
THEOREM NeverSelfIssued == Spec => []NotSelfIssued
  <1>1. Init => Named /\ Filling /\ OwnKeys /\ Issued
    BY IdentityAssumption
    DEF Init, Named, Filling, Writing, OwnKeys, Issued, MarkersSayServer, SessionsKnow,
        FilesHoldBrought, Brought, NoKeys, NoMarker, At, Actors, Teams
  <1>2. TypeOK /\ Named /\ Filling /\ OwnKeys /\ Issued /\ [Next]_vars => Issued'
    BY TornGrows, MarkersKept, KnowledgeKept, FilesKept, HashesKept DEF Issued, IssuedFacts
  <1>3. Issued => NotSelfIssued
    BY DEF Issued, NotSelfIssued, FilesHoldBrought, Brought
  <1> QED
    BY <1>1, <1>2, <1>3, IdentityTypes, NamedKept, FillingKept, OwnKeysKept, PTL DEF Spec
-----------------------------------------------------------------------------
(* The credential file, as long as nobody died with the lock.               *)

Holding == {"read", "write", "unlock"}

Exclusive ==
  /\ ~old
  /\ lock # Nobody => held[lock]
  /\ \A a \in Actors :
       /\ pc[a] # "break"
       /\ pc[a] \in Holding => lock = a /\ held[a]
       /\ pc[a] = "write" => snap[a] = creds

Gone(b) == At(b, "dead") /\ held[b]

(* Who died with the lock in his hands stays that way.                      *)
LEMMA AbandonedGrows == TypeOK /\ [Next]_vars /\ Abandoned' = {} => Abandoned = {}
  <1> SUFFICES ASSUME TypeOK, [Next]_vars, NEW b \in Actors, Gone(b) PROVE Gone(b)'
    BY DEF Gone, Abandoned, Killed
  <1>1. ASSUME NEW s \in Sessions, Begin(s) PROVE Gone(b)'
    BY <1>1 DEF Begin, Take, Goto, identity, storing, lockfile, Gone, At, TypeOK, Actors
  <1>2. ASSUME NEW s \in Sessions, Create(s) PROVE Gone(b)'
    BY <1>2 DEF Create, Goto, TornMarker, NoMarker, identity, storing, lockfile, Gone, At, TypeOK, Actors
  <1>3. ASSUME NEW s \in Sessions, Adopt(s) PROVE Gone(b)'
    BY <1>3 DEF Adopt, Take, Goto, identity, storing, lockfile, Gone, At, TypeOK, Actors
  <1>4. ASSUME NEW s \in Sessions, Fill(s) PROVE Gone(b)'
    BY <1>4 DEF Fill, Take, Goto, OwnMarker, identity, storing, lockfile, Gone, At, TypeOK, Actors
  <1>5. ASSUME NEW s \in Sessions, upsertTeamAndProject(s) PROVE Gone(b)'
    BY <1>5 DEF upsertTeamAndProject, StatementFails, Goto, identity, storing, lockfile, Gone, At, TypeOK, Actors
  <1>6. ASSUME NEW s \in Sessions, Gate(s) PROVE Gone(b)'
    BY <1>6 DEF Gate, Goto, isTeamMarker, identity, storing, lockfile, Gone, At, TypeOK, Actors
  <1>7. ASSUME NEW s \in Sessions, CheckHash(s) PROVE Gone(b)'
    BY <1>7 DEF CheckHash, StatementFails, Goto, identity, storing, lockfile, Gone, At, TypeOK, Actors
  <1>8. ASSUME NEW s \in Sessions, insertApiKeyHash(s) PROVE Gone(b)'
    BY <1>8 DEF insertApiKeyHash, StatementFails, Goto, HashTaken, identity, storing, lockfile, Gone, At, TypeOK, Actors
  <1>9. ASSUME NEW a \in Actors, Lock(a) PROVE Gone(b)'
    BY <1>9 DEF Lock, Goto, Killed, identity, storing, lockfile, Gone, At, TypeOK, Actors
  <1>10. ASSUME NEW a \in Actors, BreakLock(a) PROVE Gone(b)'
    BY <1>10 DEF BreakLock, Goto, identity, storing, lockfile, Gone, At, TypeOK, Actors
  <1>11. ASSUME NEW a \in Actors, ReadKeys(a) PROVE Gone(b)'
    BY <1>11 DEF ReadKeys, Goto, identity, storing, lockfile, Gone, At, TypeOK, Actors
  <1>12. ASSUME NEW a \in Actors, WriteKeys(a) PROVE Gone(b)'
    BY <1>12 DEF WriteKeys, Goto, identity, storing, lockfile, Gone, At, TypeOK, Actors
  <1>13. ASSUME NEW a \in Actors, Unlock(a) PROVE Gone(b)'
    BY <1>13 DEF Unlock, Goto, identity, storing, lockfile, Gone, At, TypeOK, Actors
  <1>14. ASSUME NEW j \in Joins, BeginJoin(j) PROVE Gone(b)'
    BY <1>14 DEF BeginJoin, Goto, identity, storing, lockfile, Gone, At, TypeOK, Actors
  <1>15. ASSUME NEW j \in Joins, Flip(j) PROVE Gone(b)'
    BY <1>15 DEF Flip, Goto, identity, storing, lockfile, Gone, At, TypeOK, Actors
  <1>20. ASSUME NEW j \in Joins, Merge(j) PROVE Gone(b)'
    BY <1>20 DEF Merge, Goto, identity, storing, lockfile, Gone, At, TypeOK, Actors
  <1>16. ASSUME NEW d \in Dirs, Pull(d) PROVE Gone(b)'
    BY <1>16 DEF Pull, Committed, identity, storing, lockfile, Gone, At, TypeOK, Actors
  <1>17. ASSUME NEW a \in Actors, Kill(a) PROVE Gone(b)'
    BY <1>17 DEF Kill, Goto, identity, storing, lockfile, Gone, At, TypeOK, Actors
  <1>18. ASSUME GrowOld PROVE Gone(b)'
    BY <1>18 DEF GrowOld, Killed, identity, storing, lockfile, Gone, At, TypeOK, Actors
  <1>19. CASE UNCHANGED vars
    BY <1>19 DEF vars, identity, storing, lockfile, Gone, At, TypeOK, Actors
  <1> QED
    BY <1>1, <1>2, <1>3, <1>4, <1>5, <1>6, <1>7, <1>8, <1>9, <1>10, <1>11, <1>12, <1>13, <1>14, <1>15, <1>16, <1>17, <1>18, <1>19, <1>20
    DEF Next, Session, Mint, Store, Join, Actors

ExclusiveFacts == TypeOK /\ Exclusive /\ Abandoned = {}

LEMMA ExclusiveKept == ExclusiveFacts /\ Abandoned' = {} /\ [Next]_vars => Exclusive'
  <1> SUFFICES ASSUME ExclusiveFacts, Abandoned' = {}, [Next]_vars PROVE Exclusive'
    OBVIOUS
  <1> USE IdentityAssumption
  <1>1. ASSUME NEW s \in Sessions, Begin(s) PROVE Exclusive'
    BY <1>1 DEF Begin, Take, Goto, identity, storing, lockfile, ExclusiveFacts, Exclusive, Holding, Killed, Abandoned, TypeOK, At, Mark, Marker, NoMarker, TornMarker, Actors, Projects, Teams
  <1>2. ASSUME NEW s \in Sessions, Create(s) PROVE Exclusive'
    BY <1>2 DEF Create, Goto, TornMarker, NoMarker, identity, storing, lockfile, ExclusiveFacts, Exclusive, Holding, Killed, Abandoned, TypeOK, At, Mark, Marker, NoMarker, TornMarker, Actors, Projects, Teams
  <1>3. ASSUME NEW s \in Sessions, Adopt(s) PROVE Exclusive'
    BY <1>3 DEF Adopt, Take, Goto, identity, storing, lockfile, ExclusiveFacts, Exclusive, Holding, Killed, Abandoned, TypeOK, At, Mark, Marker, NoMarker, TornMarker, Actors, Projects, Teams
  <1>4. ASSUME NEW s \in Sessions, Fill(s) PROVE Exclusive'
    BY <1>4 DEF Fill, Take, Goto, OwnMarker, identity, storing, lockfile, ExclusiveFacts, Exclusive, Holding, Killed, Abandoned, TypeOK, At, Mark, Marker, NoMarker, TornMarker, Actors, Projects, Teams
  <1>5. ASSUME NEW s \in Sessions, upsertTeamAndProject(s) PROVE Exclusive'
    BY <1>5 DEF upsertTeamAndProject, StatementFails, Goto, identity, storing, lockfile, ExclusiveFacts, Exclusive, Holding, Killed, Abandoned, TypeOK, At, Mark, Marker, NoMarker, TornMarker, Actors, Projects, Teams
  <1>6. ASSUME NEW s \in Sessions, Gate(s) PROVE Exclusive'
    BY <1>6 DEF Gate, Goto, isTeamMarker, identity, storing, lockfile, ExclusiveFacts, Exclusive, Holding, Killed, Abandoned, TypeOK, At, Mark, Marker, NoMarker, TornMarker, Actors, Projects, Teams
  <1>7. ASSUME NEW s \in Sessions, CheckHash(s) PROVE Exclusive'
    BY <1>7 DEF CheckHash, StatementFails, Goto, identity, storing, lockfile, ExclusiveFacts, Exclusive, Holding, Killed, Abandoned, TypeOK, At, Mark, Marker, NoMarker, TornMarker, Actors, Projects, Teams
  <1>8. ASSUME NEW s \in Sessions, insertApiKeyHash(s) PROVE Exclusive'
    BY <1>8 DEF insertApiKeyHash, StatementFails, Goto, HashTaken, identity, storing, lockfile, ExclusiveFacts, Exclusive, Holding, Killed, Abandoned, TypeOK, At, Mark, Marker, NoMarker, TornMarker, Actors, Projects, Teams
  <1>9. ASSUME NEW a \in Actors, Lock(a) PROVE Exclusive'
    BY <1>9 DEF Lock, Goto, identity, storing, lockfile, ExclusiveFacts, Exclusive, Holding, Killed, Abandoned, TypeOK, At, Mark, Marker, NoMarker, TornMarker, Actors, Projects, Teams
  <1>10. ASSUME NEW a \in Actors, BreakLock(a) PROVE Exclusive'
    BY <1>10 DEF BreakLock, Goto, identity, storing, lockfile, ExclusiveFacts, Exclusive, Holding, Killed, Abandoned, TypeOK, At, Mark, Marker, NoMarker, TornMarker, Actors, Projects, Teams
  <1>11. ASSUME NEW a \in Actors, ReadKeys(a) PROVE Exclusive'
    BY <1>11 DEF ReadKeys, Goto, identity, storing, lockfile, ExclusiveFacts, Exclusive, Holding, Killed, Abandoned, TypeOK, At, Mark, Marker, NoMarker, TornMarker, Actors, Projects, Teams
  <1>12. ASSUME NEW a \in Actors, WriteKeys(a) PROVE Exclusive'
    BY <1>12 DEF WriteKeys, Goto, identity, storing, lockfile, ExclusiveFacts, Exclusive, Holding, Killed, Abandoned, TypeOK, At, Mark, Marker, NoMarker, TornMarker, Actors, Projects, Teams
  <1>13. ASSUME NEW a \in Actors, Unlock(a) PROVE Exclusive'
    BY <1>13 DEF Unlock, Goto, identity, storing, lockfile, ExclusiveFacts, Exclusive, Holding, Killed, Abandoned, TypeOK, At, Mark, Marker, NoMarker, TornMarker, Actors, Projects, Teams
  <1>14. ASSUME NEW j \in Joins, BeginJoin(j) PROVE Exclusive'
    BY <1>14 DEF BeginJoin, Goto, identity, storing, lockfile, ExclusiveFacts, Exclusive, Holding, Killed, Abandoned, TypeOK, At, Mark, Marker, NoMarker, TornMarker, Actors, Projects, Teams
  <1>15. ASSUME NEW j \in Joins, Flip(j) PROVE Exclusive'
    BY <1>15 DEF Flip, Goto, identity, storing, lockfile, ExclusiveFacts, Exclusive, Holding, Killed, Abandoned, TypeOK, At, Mark, Marker, NoMarker, TornMarker, Actors, Projects, Teams
  <1>20. ASSUME NEW j \in Joins, Merge(j) PROVE Exclusive'
    BY <1>20 DEF Merge, Goto, identity, storing, lockfile, ExclusiveFacts, Exclusive, Holding, Killed, Abandoned, TypeOK, At, Mark, Marker, NoMarker, TornMarker, Actors, Projects, Teams
  <1>16. ASSUME NEW d \in Dirs, Pull(d) PROVE Exclusive'
    BY <1>16 DEF Pull, Committed, identity, storing, lockfile, ExclusiveFacts, Exclusive, Holding, Killed, Abandoned, TypeOK, At, Mark, Marker, NoMarker, TornMarker, Actors, Projects, Teams
  <1>17. ASSUME NEW a \in Actors, Kill(a) PROVE Exclusive'
    BY <1>17 DEF Kill, Goto, identity, storing, lockfile, ExclusiveFacts, Exclusive, Holding, Killed, Abandoned, TypeOK, At, Mark, Marker, NoMarker, TornMarker, Actors, Projects, Teams
  <1>18. ASSUME GrowOld PROVE Exclusive'
    BY <1>18 DEF GrowOld, identity, storing, lockfile, ExclusiveFacts, Exclusive, Holding, Killed, Abandoned, TypeOK, At, Mark, Marker, NoMarker, TornMarker, Actors, Projects, Teams
  <1>19. CASE UNCHANGED vars
    BY <1>19 DEF vars, identity, storing, lockfile, ExclusiveFacts, Exclusive, Holding, Killed, Abandoned, TypeOK, At, Mark, Marker, NoMarker, TornMarker, Actors, Projects, Teams
  <1> QED
    BY <1>1, <1>2, <1>3, <1>4, <1>5, <1>6, <1>7, <1>8, <1>9, <1>10, <1>11, <1>12, <1>13, <1>14, <1>15, <1>16, <1>17, <1>18, <1>19, <1>20
    DEF Next, Session, Mint, Store, Join, Actors

(* For a minted team, the file, the database and the sessions agree.        *)
KeysAgree ==
  /\ \A t \in Sessions : hashes[t] \subseteq {creds[t]}
  /\ \A s \in Sessions : team[s] \in Sessions =>
       /\ pc[s] \in {"unlock", "check", "insert"} => creds[team[s]] = key[s]
       /\ At(s, "done") /\ key[s] # Nobody =>
            creds[team[s]] = key[s] /\ hashes[team[s]] = {key[s]}
  /\ \A s \in Sessions :
       pc[s] \in {"start", "create", "adopt", "fill", "upsert", "gate"} => key[s] = Nobody

KeysFacts ==
  /\ TypeOK /\ Named /\ OwnKeys /\ Exclusive /\ KeysAgree
  /\ Abandoned = {} /\ Abandoned' = {}

LEMMA KeysAgreeKept == KeysFacts /\ [Next]_vars => KeysAgree'
  <1> SUFFICES ASSUME KeysFacts, [Next]_vars PROVE KeysAgree'
    OBVIOUS
  <1> USE IdentityAssumption
  <1>1. ASSUME NEW s \in Sessions, Begin(s) PROVE KeysAgree'
    BY <1>1 DEF Begin, Take, Goto, identity, storing, lockfile, KeysFacts, KeysAgree, TypeOK, At, Mark, Marker, NoMarker, TornMarker, Actors, Projects, Teams
  <1>2. ASSUME NEW s \in Sessions, Create(s) PROVE KeysAgree'
    BY <1>2 DEF Create, Goto, TornMarker, NoMarker, identity, storing, lockfile, KeysFacts, KeysAgree, TypeOK, At, Mark, Marker, NoMarker, TornMarker, Actors, Projects, Teams
  <1>3. ASSUME NEW s \in Sessions, Adopt(s) PROVE KeysAgree'
    BY <1>3 DEF Adopt, Take, Goto, identity, storing, lockfile, KeysFacts, KeysAgree, TypeOK, At, Mark, Marker, NoMarker, TornMarker, Actors, Projects, Teams
  <1>4. ASSUME NEW s \in Sessions, Fill(s) PROVE KeysAgree'
    BY <1>4 DEF Fill, Take, Goto, OwnMarker, identity, storing, lockfile, KeysFacts, KeysAgree, TypeOK, At, Mark, Marker, NoMarker, TornMarker, Actors, Projects, Teams
  <1>5. ASSUME NEW s \in Sessions, upsertTeamAndProject(s) PROVE KeysAgree'
    BY <1>5 DEF upsertTeamAndProject, StatementFails, Goto, identity, storing, lockfile, KeysFacts, KeysAgree, TypeOK, At, Mark, Marker, NoMarker, TornMarker, Actors, Projects, Teams
  <1>6. ASSUME NEW s \in Sessions, Gate(s) PROVE KeysAgree'
    <2>1. UNCHANGED <<creds, hashes, team>> /\ team[s] \in Teams /\ key[s] = Nobody
      BY <1>6 DEF Gate, identity, KeysFacts, KeysAgree, Named, At, Actors
    <2>2. \A r \in Sessions : r # s => pc'[r] = pc[r] /\ key'[r] = key[r]
      BY <1>6 DEF Gate, Goto, KeysFacts, TypeOK, Actors
    <2>3. \/ pc'[s] = "check" /\ key'[s] = creds[team[s]]
          \/ pc'[s] = "done" /\ key'[s] = Nobody
          \/ pc'[s] = "lock"
      BY <1>6, <2>1 DEF Gate, Goto, KeysFacts, TypeOK, Actors
    <2> QED
      BY <2>1, <2>2, <2>3 DEF KeysFacts, KeysAgree, At
  <1>7. ASSUME NEW s \in Sessions, CheckHash(s) PROVE KeysAgree'
    BY <1>7 DEF CheckHash, StatementFails, Goto, identity, storing, lockfile, KeysFacts, KeysAgree, TypeOK, At, Mark, Marker, NoMarker, TornMarker, Actors, Projects, Teams
  <1>8. ASSUME NEW s \in Sessions, insertApiKeyHash(s) PROVE KeysAgree'
    <2>1. /\ key[s] = creds[team[s]] \/ team[s] \notin Sessions
          /\ team[s] \in Teams /\ key[s] \in Actors
      BY <1>8 DEF insertApiKeyHash, StatementFails, KeysFacts, KeysAgree, Named, At, Actors
    <2>2. UNCHANGED <<creds, team, key>>
      BY <1>8 DEF insertApiKeyHash, StatementFails, identity, storing
    <2>3. CASE ~HashTaken(key[s]) /\ Goto(s, "done") /\ hashes' = [hashes EXCEPT ![team[s]] = @ \cup {key[s]}]
      <3>1. \A t \in Sessions : hashes'[t] = IF t = team[s] THEN hashes[t] \cup {key[s]} ELSE hashes[t]
        BY <2>1, <2>3 DEF KeysFacts, TypeOK, Teams
      <3>2. \A t \in Sessions : hashes'[t] \subseteq {creds[t]}
        <4>1. ASSUME NEW t \in Sessions, t = team[s] PROVE hashes'[t] \subseteq {creds[t]}
          <5>1. hashes'[t] = hashes[t] \cup {creds[t]} /\ hashes[t] \subseteq {creds[t]}
            BY <2>1, <3>1, <4>1 DEF KeysFacts, KeysAgree
          <5> QED
            BY <5>1
        <4>2. ASSUME NEW t \in Sessions, t # team[s] PROVE hashes'[t] \subseteq {creds[t]}
          BY <3>1, <4>2 DEF KeysFacts, KeysAgree
        <4> QED
          BY <4>1, <4>2
      <3>3. \A r \in Sessions : team[r] \in Sessions /\ At(r, "done")' /\ key[r] # Nobody =>
              creds[team[r]] = key[r] /\ hashes'[team[r]] = {key[r]}
        BY <2>1, <2>3, <3>1 DEF KeysFacts, KeysAgree, TypeOK, At, Goto, Actors
      <3>4. \A r \in Sessions :
              /\ team[r] \in Sessions /\ pc'[r] \in {"unlock", "check", "insert"} => creds[team[r]] = key[r]
              /\ pc'[r] \in {"start", "create", "adopt", "fill", "upsert", "gate"} => key[r] = Nobody
        BY <2>3 DEF KeysFacts, KeysAgree, TypeOK, At, Goto, Actors
      <3> QED
        BY <2>2, <3>2, <3>3, <3>4 DEF KeysAgree, At
    <2>4. CASE Goto(s, "failed") /\ hashes' = hashes
      BY <2>2, <2>4 DEF KeysFacts, KeysAgree, TypeOK, At, Goto, Actors
    <2> QED
      BY <1>8, <2>3, <2>4 DEF insertApiKeyHash, StatementFails
  <1>9. ASSUME NEW a \in Actors, Lock(a) PROVE KeysAgree'
    BY <1>9 DEF Lock, Goto, Killed, identity, storing, lockfile, KeysFacts, KeysAgree, TypeOK, At, Mark, Marker, NoMarker, TornMarker, Actors, Projects, Teams
  <1>10. ASSUME NEW a \in Actors, BreakLock(a) PROVE KeysAgree'
    BY <1>10 DEF BreakLock, Goto, identity, storing, lockfile, KeysFacts, KeysAgree, TypeOK, At, Mark, Marker, NoMarker, TornMarker, Actors, Projects, Teams
  <1>11. ASSUME NEW a \in Actors, ReadKeys(a) PROVE KeysAgree'
    BY <1>11 DEF ReadKeys, Goto, identity, storing, lockfile, KeysFacts, KeysAgree, TypeOK, At, Mark, Marker, NoMarker, TornMarker, Actors, Projects, Teams
  <1>12. ASSUME NEW a \in Actors, WriteKeys(a) PROVE KeysAgree'
    BY <1>12 DEF WriteKeys, Goto, identity, storing, lockfile, KeysFacts, KeysAgree, TypeOK, At, Mark, Marker, NoMarker, TornMarker, Actors, Projects, Teams, OwnKeys, Exclusive, Holding, Named
  <1>13. ASSUME NEW a \in Actors, Unlock(a) PROVE KeysAgree'
    BY <1>13 DEF Unlock, Goto, identity, storing, lockfile, KeysFacts, KeysAgree, TypeOK, At, Mark, Marker, NoMarker, TornMarker, Actors, Projects, Teams
  <1>14. ASSUME NEW j \in Joins, BeginJoin(j) PROVE KeysAgree'
    <2>1. UNCHANGED <<creds, hashes>> /\ \A r \in Sessions : pc'[r] = pc[r] /\ team'[r] = team[r] /\ key'[r] = key[r]
      BY <1>14 DEF BeginJoin, Goto, lockfile, KeysFacts, TypeOK, Actors
    <2> QED
      BY <2>1 DEF KeysFacts, KeysAgree, At
  <1>15. ASSUME NEW j \in Joins, Flip(j) PROVE KeysAgree'
    BY <1>15 DEF Flip, Goto, identity, storing, lockfile, KeysFacts, KeysAgree, TypeOK, At, Mark, Marker, NoMarker, TornMarker, Actors, Projects, Teams
  <1>20. ASSUME NEW j \in Joins, Merge(j) PROVE KeysAgree'
    BY <1>20 DEF Merge, Goto, identity, storing, lockfile, KeysFacts, KeysAgree, TypeOK, At, Mark, Marker, NoMarker, TornMarker, Actors, Projects, Teams
  <1>16. ASSUME NEW d \in Dirs, Pull(d) PROVE KeysAgree'
    BY <1>16 DEF Pull, Committed, identity, storing, lockfile, KeysFacts, KeysAgree, TypeOK, At, Mark, Marker, NoMarker, TornMarker, Actors, Projects, Teams
  <1>17. ASSUME NEW a \in Actors, Kill(a) PROVE KeysAgree'
    BY <1>17 DEF Kill, Goto, identity, storing, lockfile, KeysFacts, KeysAgree, TypeOK, At, Mark, Marker, NoMarker, TornMarker, Actors, Projects, Teams
  <1>18. ASSUME GrowOld PROVE KeysAgree'
    BY <1>18 DEF GrowOld, Killed, identity, storing, lockfile, KeysFacts, KeysAgree, TypeOK, At, Mark, Marker, NoMarker, TornMarker, Actors, Projects, Teams
  <1>19. CASE UNCHANGED vars
    BY <1>19 DEF vars, identity, storing, lockfile, KeysFacts, KeysAgree, TypeOK, At, Mark, Marker, NoMarker, TornMarker, Actors, Projects, Teams
  <1> QED
    BY <1>1, <1>2, <1>3, <1>4, <1>5, <1>6, <1>7, <1>8, <1>9, <1>10, <1>11, <1>12, <1>13, <1>14, <1>15, <1>16, <1>17, <1>18, <1>19, <1>20
    DEF Next, Session, Mint, Store, Join, Actors

Quiet == Abandoned = {} => Exclusive /\ KeysAgree

LEMMA QuietKept == TypeOK /\ Named /\ OwnKeys /\ Quiet /\ [Next]_vars => Quiet'
  <1> SUFFICES ASSUME TypeOK, Named, OwnKeys, Quiet, [Next]_vars, Abandoned' = {}
               PROVE Exclusive' /\ KeysAgree'
    BY DEF Quiet
  <1>1. Abandoned = {}
    BY AbandonedGrows
  <1>2. Exclusive /\ KeysAgree
    BY <1>1 DEF Quiet
  <1>3. Exclusive'
    BY <1>1, <1>2, ExclusiveKept DEF ExclusiveFacts
  <1>4. KeysAgree'
    BY <1>1, <1>2, KeysAgreeKept DEF KeysFacts
  <1> QED
    BY <1>3, <1>4

LEMMA InitQuiet == Init => Quiet /\ OwnKeys /\ Named
  BY IdentityAssumption
  DEF Init, Quiet, Exclusive, KeysAgree, Holding, NoKeys, OwnKeys, Named, At, Actors, Teams

(* Until somebody is killed with the lock in his hands, a session that ends *)
(* with a key of a minted team has the one that the file holds and the      *)
(* database knows.                                                          *)
THEOREM KeysUsable == Spec => []KeyUsable
  <1>1. Quiet => KeyUsable
    BY DEF Quiet, KeysAgree, KeyUsable
  <1> QED
    BY <1>1, InitQuiet, QuietKept, IdentityTypes, NamedKept, OwnKeysKept, PTL DEF Spec

-----------------------------------------------------------------------------
(* The credential file implements the key store.                            *)

StoreStep == [AbstractStore!Next]_<<creds, Abandoned # {}>>

LEMMA SameStore == creds' = creds /\ Abandoned' = Abandoned => StoreStep
  BY DEF StoreStep

LEMMA WritesImplement ==
  ASSUME TypeOK, Named, OwnKeys, Quiet, NEW a \in Actors, WriteKeys(a)
  PROVE  StoreStep
  <1> USE IdentityAssumption
  <1>1. Abandoned' = Abandoned
    BY DEF WriteKeys, Goto, Killed, Abandoned, At, TypeOK, PCs
  <1>2. CASE creds' = creds
    BY <1>1, <1>2, SameStore
  <1>3. CASE creds' = [snap[a] EXCEPT ![team[a]] = key[a]] /\ (a \in Joins \/ snap[a][team[a]] = Nobody)
    <2>1. team[a] \in Teams /\ key[a] = a /\ snap[a] \in [Teams -> Actors \cup {Nobody}]
      BY DEF WriteKeys, At, Named, OwnKeys, TypeOK
    <2>2. CASE Abandoned # {}
      <3>1. creds' \in [Teams -> Actors \cup {Nobody}]
        BY <1>3, <2>1
      <3> QED
        BY <1>1, <2>2, <3>1 DEF StoreStep, AbstractStore!Next, AbstractStore!LoseOrRestore, Actors
    <2>3. CASE Abandoned = {}
      <3>1. snap[a] = creds
        BY <2>3 DEF Quiet, Exclusive, WriteKeys, At
      <3>2. CASE a \in Joins
        BY <1>1, <1>3, <2>1, <3>1, <3>2
        DEF StoreStep, AbstractStore!Next, AbstractStore!Put
      <3>3. CASE a \in Sessions /\ creds[team[a]] = Nobody
        BY <1>1, <1>3, <2>1, <3>1, <3>3
        DEF StoreStep, AbstractStore!Next, AbstractStore!PutIfAbsent
      <3> QED
        BY <1>3, <3>1, <3>2, <3>3 DEF Actors
    <2> QED
      BY <2>2, <2>3
  <1> QED
    BY <1>2, <1>3 DEF WriteKeys

LEMMA StepsImplement == TypeOK /\ Named /\ OwnKeys /\ Quiet /\ [Next]_vars => StoreStep
  <1> SUFFICES ASSUME TypeOK, Named, OwnKeys, Quiet, [Next]_vars PROVE StoreStep
    OBVIOUS
  <1> USE IdentityAssumption
  <1>1. ASSUME NEW s \in Sessions, Begin(s) PROVE StoreStep
    BY <1>1, SameStore DEF Begin, Take, Goto, identity, storing, lockfile, Killed, Abandoned, At, TypeOK, Actors
  <1>2. ASSUME NEW s \in Sessions, Create(s) PROVE StoreStep
    BY <1>2, SameStore DEF Create, Goto, TornMarker, NoMarker, identity, storing, lockfile, Killed, Abandoned, At, TypeOK, Actors
  <1>3. ASSUME NEW s \in Sessions, Adopt(s) PROVE StoreStep
    BY <1>3, SameStore DEF Adopt, Take, Goto, identity, storing, lockfile, Killed, Abandoned, At, TypeOK, Actors
  <1>4. ASSUME NEW s \in Sessions, Fill(s) PROVE StoreStep
    BY <1>4, SameStore DEF Fill, Take, Goto, OwnMarker, identity, storing, lockfile, Killed, Abandoned, At, TypeOK, Actors
  <1>5. ASSUME NEW s \in Sessions, upsertTeamAndProject(s) PROVE StoreStep
    BY <1>5, SameStore DEF upsertTeamAndProject, StatementFails, Goto, identity, storing, lockfile, Killed, Abandoned, At, TypeOK, Actors
  <1>6. ASSUME NEW s \in Sessions, Gate(s) PROVE StoreStep
    BY <1>6, SameStore DEF Gate, Goto, isTeamMarker, identity, storing, lockfile, Killed, Abandoned, At, TypeOK, Actors
  <1>7. ASSUME NEW s \in Sessions, CheckHash(s) PROVE StoreStep
    BY <1>7, SameStore DEF CheckHash, StatementFails, Goto, identity, storing, lockfile, Killed, Abandoned, At, TypeOK, Actors
  <1>8. ASSUME NEW s \in Sessions, insertApiKeyHash(s) PROVE StoreStep
    BY <1>8, SameStore DEF insertApiKeyHash, StatementFails, Goto, HashTaken, identity, storing, lockfile, Killed, Abandoned, At, TypeOK, Actors
  <1>9. ASSUME NEW a \in Actors, Lock(a) PROVE StoreStep
    BY <1>9, SameStore DEF Lock, Goto, identity, storing, lockfile, Killed, Abandoned, At, TypeOK, Actors
  <1>10. ASSUME NEW a \in Actors, BreakLock(a) PROVE StoreStep
    BY <1>10, SameStore DEF BreakLock, Goto, identity, storing, lockfile, Killed, Abandoned, At, TypeOK, Actors
  <1>11. ASSUME NEW a \in Actors, ReadKeys(a) PROVE StoreStep
    BY <1>11, SameStore DEF ReadKeys, Goto, identity, storing, lockfile, Killed, Abandoned, At, TypeOK, Actors
  <1>12. ASSUME NEW a \in Actors, WriteKeys(a) PROVE StoreStep
    BY <1>12, WritesImplement
  <1>13. ASSUME NEW a \in Actors, Unlock(a) PROVE StoreStep
    BY <1>13, SameStore DEF Unlock, Goto, identity, storing, lockfile, Killed, Abandoned, At, TypeOK, Actors
  <1>14. ASSUME NEW j \in Joins, BeginJoin(j) PROVE StoreStep
    BY <1>14, SameStore DEF BeginJoin, Goto, identity, storing, lockfile, Killed, Abandoned, At, TypeOK, Actors
  <1>15. ASSUME NEW j \in Joins, Flip(j) PROVE StoreStep
    BY <1>15, SameStore DEF Flip, Goto, identity, storing, lockfile, Killed, Abandoned, At, TypeOK, Actors
  <1>20. ASSUME NEW j \in Joins, Merge(j) PROVE StoreStep
    BY <1>20, SameStore DEF Merge, Goto, identity, storing, lockfile, Killed, Abandoned, At, TypeOK, Actors
  <1>16. ASSUME NEW d \in Dirs, Pull(d) PROVE StoreStep
    BY <1>16, SameStore DEF Pull, Committed, identity, storing, lockfile, Killed, Abandoned, At, TypeOK, Actors
  <1>17. ASSUME NEW a \in Actors, Kill(a) PROVE StoreStep
    <2>1. CASE held[a]
      <3>1. creds' = creds /\ (Abandoned # {})' = TRUE
        BY <1>17, <2>1 DEF Kill, Goto, Killed, Abandoned, At, TypeOK, storing
      <3> QED
        BY <3>1 DEF StoreStep, AbstractStore!Next, AbstractStore!Disturb
    <2>2. CASE ~held[a]
      BY <1>17, <2>2, SameStore DEF Kill, Goto, Killed, Abandoned, At, TypeOK, storing
    <2> QED
      BY <2>1, <2>2
  <1>18. ASSUME GrowOld PROVE StoreStep
    BY <1>18, SameStore DEF GrowOld, identity, storing, lockfile, Killed, Abandoned, At, TypeOK, Actors
  <1>19. CASE UNCHANGED vars
    BY <1>19, SameStore DEF vars, identity, storing, lockfile, Killed, Abandoned, At, TypeOK, Actors
  <1> QED
    BY <1>1, <1>2, <1>3, <1>4, <1>5, <1>6, <1>7, <1>8, <1>9, <1>10, <1>11, <1>12, <1>13, <1>14, <1>15, <1>16, <1>17, <1>18, <1>19, <1>20
    DEF Next, Session, Mint, Store, Join, Actors

(* The credential file changes one team at a time: a session's key only     *)
(* where there is none, a join's key for its team, until somebody is        *)
(* killed with the lock in his hands.                                       *)
THEOREM StoreImplemented == Spec => ImplementsKeyStore
  <1>1. Init => AbstractStore!Init
    BY DEF Init, AbstractStore!Init, NoKeys, Killed, Abandoned, At
  <1>2. Init => Named /\ OwnKeys /\ Quiet
    BY InitQuiet
  <1> QED
    BY <1>1, <1>2, StepsImplement, IdentityTypes, NamedKept, OwnKeysKept, QuietKept, PTL
    DEF Spec, ImplementsKeyStore, AbstractStore!Spec, StoreStep
=============================================================================
