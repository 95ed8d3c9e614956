--------------------------- MODULE ProjectIdentity ---------------------------
(***************************************************************************)
(* Who a project is on this machine.  Every session start is a process of   *)
(* its own that reads the directory's marker file, mints an identity when   *)
(* there is none, registers it in the base database and makes sure that the *)
(* team's key is in the credential file and its hash in api_keys.  The      *)
(* sessions of all directories share that one file; it is guarded by a lock *)
(* file that a killed process leaves behind.  Joins (applyConvertJoin in    *)
(* the server) put a team's key into the same file and flip the marker; git *)
(* may bring a committed team marker at any time.                           *)
(*                                                                          *)
(* An actor is a process.  What a session mints (project, team, key) is     *)
(* named after the session, the key that a join stores after the join.      *)
(* Adoption of a subfolder's marker is left out.                            *)
(***************************************************************************)
EXTENDS Integers, FiniteSets

CONSTANTS
  Sessions,    \* session starts (hook processes)
  Joins,       \* joins and converts that the server applies
  Dirs,        \* project directories
  DirOf,       \* the directory each of them works in
  Cloned,      \* directories whose repository has a committed team marker
  Team,        \* the team (and project) of that marker; the team joins are for
  Nobody,      \* no project, team, key or lock owner
  MaxKills,    \* bound: processes killed
  MaxFaults    \* bound: failing statements

Actors   == Sessions \cup Joins
Projects == Sessions \cup {Team}
Teams    == Sessions \cup {Team}

ASSUME IdentityAssumption ==
  /\ DirOf \in [Actors -> Dirs] /\ Cloned \subseteq Dirs
  /\ Team \notin Actors /\ Nobody \notin Actors \cup {Team}
  /\ Sessions \cap Joins = {}
  /\ MaxKills \in Nat /\ MaxFaults \in Nat

VARIABLES
  marker,  \* marker[d]: .memsmith/project.json of directory d
  creds,   \* credentials.json: team -> key
  lock,    \* credentials.json.lock: the process that created it, or Nobody
  old,     \* the lock file is older than LOCK_STALE_MS
  hashes,  \* api_keys of the base database: team -> keys whose hash is there
  pc,      \* pc[a]: where process a is
  project, team, key,  \* what process a works with
  known,   \* what the marker said when a session first read it ("none": no marker)
  snap,    \* the credential file that process a read
  held,    \* process a created the lock file
  faults,  \* failing statements so far
  torn     \* history: directories whose marker somebody found half written, and
           \* overwrote or took for none, or a killed join left so

identity == <<project, team, known>>
storing  == <<key, snap, held>>
lockfile == <<lock, old>>
vars == <<marker, creds, lock, old, hashes, pc, project, team, key, known,
          snap, held, faults, torn>>

-----------------------------------------------------------------------------
(* Markers and processes.                                                   *)

NoMarker == [state |-> "none", project |-> Nobody, team |-> Nobody, server |-> FALSE]

TornMarker == [state |-> "torn", project |-> Nobody, team |-> Nobody, server |-> FALSE]

Marker ==
  {NoMarker, TornMarker} \cup
    [state : {"whole"}, project : Projects, team : Teams, server : BOOLEAN]

OwnMarker(s) == [state |-> "whole", project |-> s, team |-> s, server |-> FALSE]

Committed == [state |-> "whole", project |-> Team, team |-> Team, server |-> TRUE]

PCs == {"start", "create", "adopt", "fill", "upsert", "gate", "check", "lock",
        "break", "read", "write", "unlock", "insert", "flip", "merge",
        "done", "failed", "dead"}

NoKeys == [t \in Teams |-> Nobody]

Mark(a) == marker[DirOf[a]]

At(a, label) == pc[a] = label

Goto(a, label) == pc' = [pc EXCEPT ![a] = label]

(* The process goes on under the identity of marker m.                      *)
Take(a, m, first) ==
  /\ project' = [project EXCEPT ![a] = m.project]
  /\ team' = [team EXCEPT ![a] = m.team]
  /\ known' = [known EXCEPT ![a] = first]
  /\ Goto(a, "upsert")

-----------------------------------------------------------------------------
(* ensureProjectIdentity up to the key.                                     *)

Begin(s) ==
  /\ At(s, "start")
  /\ \/ /\ Mark(s).state = "whole"
        /\ Take(s, Mark(s), IF Mark(s).server THEN "server" ELSE "local")
     \/ /\ Mark(s).state # "whole"
        /\ Goto(s, "create") /\ UNCHANGED identity
  /\ UNCHANGED <<marker, creds, lockfile, hashes, storing, faults, torn>>

(* A variant the runs must reject: the bare check-then-write of before.     *)
CreateAnyway(s) ==
  /\ At(s, "create")
  /\ marker' = [marker EXCEPT ![DirOf[s]] = OwnMarker(s)]
  /\ Take(s, OwnMarker(s), "none")
  /\ UNCHANGED <<creds, lockfile, hashes, storing, faults, torn>>

(* writeFileSync with flag wx is an exclusive open and then a write.        *)
Create(s) ==
  /\ At(s, "create")
  /\ \/ /\ Mark(s).state = "none"
        /\ marker' = [marker EXCEPT ![DirOf[s]] = TornMarker]
        /\ Goto(s, "fill")
     \/ /\ Mark(s).state # "none"
        /\ Goto(s, "adopt") /\ UNCHANGED marker
  /\ UNCHANGED <<creds, lockfile, hashes, identity, storing, faults, torn>>

(* The winner's marker, or one that cannot be read: then a plain write.     *)
Adopt(s) ==
  /\ At(s, "adopt")
  /\ \/ /\ Mark(s).state = "whole"
        /\ Take(s, Mark(s), "none") /\ UNCHANGED torn
     \/ /\ Mark(s).state = "torn"
        /\ Goto(s, "fill") /\ torn' = torn \cup {DirOf[s]} /\ UNCHANGED identity
  /\ UNCHANGED <<marker, creds, lockfile, hashes, storing, faults>>

Fill(s) ==
  /\ At(s, "fill")
  /\ marker' = [marker EXCEPT ![DirOf[s]] = OwnMarker(s)]
  /\ Take(s, OwnMarker(s), "none")
  /\ UNCHANGED <<creds, lockfile, hashes, storing, faults, torn>>

(* A statement fails: the rejection ends the session's identity work.       *)
StatementFails(s) ==
  /\ faults < MaxFaults /\ faults' = faults + 1
  /\ Goto(s, "failed")
  /\ UNCHANGED <<marker, creds, lockfile, hashes, identity, storing, torn>>

upsertTeamAndProject(s) ==
  /\ At(s, "upsert")
  /\ \/ /\ Goto(s, "gate")
        /\ UNCHANGED <<marker, creds, lockfile, hashes, identity, storing, faults, torn>>
     \/ StatementFails(s)

(* A variant the runs must reject: no second look at the marker.            *)
isTeamMarkerStale(s) == known[s] = "server"

(* existing ?? readMarkerAt(root): a session that found no marker reads it  *)
(* again now, one that found one goes by what it said.                      *)
isTeamMarker(s) ==
  \/ known[s] = "server"
  \/ known[s] = "none" /\ Mark(s).state = "whole" /\ Mark(s).server

(* A cached key is checked; a missing one is minted, but never for a team   *)
(* that this machine has not joined.                                        *)
Gate(s) ==
  /\ At(s, "gate")
  /\ LET cached == creds[team[s]] IN
     \/ /\ cached # Nobody
        /\ key' = [key EXCEPT ![s] = cached] /\ Goto(s, "check")
     \/ /\ cached = Nobody /\ isTeamMarker(s)
        /\ Goto(s, "done") /\ UNCHANGED key
     \/ /\ cached = Nobody /\ ~isTeamMarker(s)
        /\ key' = [key EXCEPT ![s] = s] /\ Goto(s, "lock")
  /\ torn' = IF known[s] = "none" /\ Mark(s).state = "torn"
             THEN torn \cup {DirOf[s]} ELSE torn
  /\ UNCHANGED <<marker, creds, lockfile, hashes, identity, snap, held, faults>>

-----------------------------------------------------------------------------
(* ensureBaseKey: the hash of the key in api_keys.                          *)

CheckHash(s) ==
  /\ At(s, "check")
  /\ \/ /\ Goto(s, IF key[s] \in hashes[team[s]] THEN "done" ELSE "insert")
        /\ UNCHANGED <<marker, creds, lockfile, hashes, identity, storing, faults, torn>>
     \/ StatementFails(s)

(* key_hash is UNIQUE and the conflict clause names only id: inserting a    *)
(* hash that another process has inserted since fails.                      *)
HashTaken(k) == \E t \in Teams : k \in hashes[t]

(* A variant the runs must reject: the discarded candidate is inserted.     *)
insertCandidateHash(s) ==
  /\ At(s, "insert")
  /\ \/ HashTaken(s) /\ Goto(s, "failed") /\ UNCHANGED hashes
     \/ ~HashTaken(s) /\ Goto(s, "done") /\ hashes' = [hashes EXCEPT ![team[s]] = @ \cup {s}]
  /\ UNCHANGED <<marker, creds, lockfile, identity, storing, faults, torn>>

insertApiKeyHash(s) ==
  /\ At(s, "insert")
  /\ \/ /\ ~HashTaken(key[s]) /\ Goto(s, "done")
        /\ hashes' = [hashes EXCEPT ![team[s]] = @ \cup {key[s]}]
        /\ UNCHANGED <<marker, creds, lockfile, identity, storing, faults, torn>>
     \/ /\ HashTaken(key[s]) /\ Goto(s, "failed")
        /\ UNCHANGED <<marker, creds, lockfile, hashes, identity, storing, faults, torn>>
     \/ StatementFails(s)

-----------------------------------------------------------------------------
(* CredentialStore: withLock around a read and an atomic replacement.       *)

Killed == {a \in Actors : At(a, "dead")}

(* Who was killed with the lock in its hands.                               *)
Abandoned == {a \in Killed : held[a]}

(* A variant the runs must reject: no lock at all.                          *)
LockNothing(a) ==
  /\ At(a, "lock")
  /\ Goto(a, "read")
  /\ UNCHANGED <<marker, creds, lockfile, hashes, identity, storing, faults, torn>>

(* A variant the runs must reject: a stale lock is never broken and nobody  *)
(* gives up on it.                                                          *)
LockForever(a) ==
  /\ At(a, "lock") /\ lock = Nobody
  /\ lock' = a /\ old' = FALSE
  /\ held' = [held EXCEPT ![a] = TRUE] /\ Goto(a, "read")
  /\ UNCHANGED <<marker, creds, hashes, identity, key, snap, faults, torn>>

(* The wait of 2 s runs out only on a lock whose owner is gone: a live one  *)
(* holds it for milliseconds.  The write then goes ahead without the lock.  *)
Lock(a) ==
  /\ At(a, "lock")
  /\ \/ /\ lock = Nobody
        /\ lock' = a /\ old' = FALSE
        /\ held' = [held EXCEPT ![a] = TRUE] /\ Goto(a, "read")
     \/ /\ lock # Nobody /\ old
        /\ Goto(a, "break") /\ UNCHANGED <<lockfile, held>>
     \/ /\ lock \in Killed
        /\ Goto(a, "read") /\ UNCHANGED <<lockfile, held>>
  /\ UNCHANGED <<marker, creds, hashes, identity, key, snap, faults, torn>>

(* The lock is removed by name, whoever has created it since the stat.      *)
BreakLock(a) ==
  /\ At(a, "break")
  /\ lock' = Nobody /\ old' = FALSE
  /\ Goto(a, "lock")
  /\ UNCHANGED <<marker, creds, hashes, identity, storing, faults, torn>>

ReadKeys(a) ==
  /\ At(a, "read")
  /\ snap' = [snap EXCEPT ![a] = creds] /\ Goto(a, "write")
  /\ UNCHANGED <<marker, creds, lockfile, hashes, identity, key, held, faults, torn>>

(* storeKeyIfAbsent for a session, storeKeyForTeam for a join.              *)
WriteKeys(a) ==
  /\ At(a, "write") /\ Goto(a, "unlock")
  /\ LET there == snap[a][team[a]] IN
     \/ /\ a \in Sessions /\ there # Nobody
        /\ key' = [key EXCEPT ![a] = there] /\ UNCHANGED creds
     \/ /\ a \in Joins \/ there = Nobody
        /\ creds' = [snap[a] EXCEPT ![team[a]] = key[a]] /\ UNCHANGED key
  /\ UNCHANGED <<marker, lockfile, hashes, identity, snap, held, faults, torn>>

Unlock(a) ==
  /\ At(a, "unlock")
  /\ \/ held[a] /\ lock' = Nobody /\ old' = FALSE
     \/ ~held[a] /\ UNCHANGED lockfile
  /\ held' = [held EXCEPT ![a] = FALSE]
  /\ Goto(a, IF a \in Sessions THEN "insert" ELSE "flip")
  /\ UNCHANGED <<marker, creds, hashes, identity, key, snap, faults, torn>>

GrowOld ==
  /\ lock \in Killed /\ ~old /\ old' = TRUE
  /\ UNCHANGED <<marker, creds, lock, hashes, pc, identity, storing, faults, torn>>

-----------------------------------------------------------------------------
(* The other writers of markers and keys.                                   *)

(* applyConvertJoin refuses a directory without a marker; key first.        *)
BeginJoin(j) ==
  /\ At(j, "start")
  /\ \/ /\ Mark(j).state = "whole" /\ Goto(j, "lock")
        /\ team' = [team EXCEPT ![j] = Team]
        /\ key' = [key EXCEPT ![j] = j]
     \/ /\ Mark(j).state # "whole" /\ Goto(j, "failed")
        /\ UNCHANGED <<team, key>>
  /\ UNCHANGED <<marker, creds, lockfile, hashes, project, known, snap, held, faults, torn>>

(* writeProjectRuntime merges into the marker as it is now: it reads it,    *)
(* and its plain write empties the file ...                                 *)
Flip(j) ==
  /\ At(j, "flip")
  /\ \/ /\ Mark(j).state = "whole" /\ Goto(j, "merge")
        /\ project' = [project EXCEPT ![j] = Mark(j).project]
        /\ marker' = [marker EXCEPT ![DirOf[j]] = TornMarker]
     \/ /\ Mark(j).state # "whole" /\ Goto(j, "failed")
        /\ UNCHANGED <<marker, project>>
  /\ UNCHANGED <<creds, lockfile, hashes, team, known, storing, faults, torn>>

(* ... before the merged marker is in it.                                   *)
Merge(j) ==
  /\ At(j, "merge") /\ Goto(j, "done")
  /\ marker' = [marker EXCEPT ![DirOf[j]] =
       [state |-> "whole", project |-> project[j], team |-> Team, server |-> TRUE]]
  /\ UNCHANGED <<creds, lockfile, hashes, identity, storing, faults, torn>>

(* git brings the committed marker; it does not overwrite a file.           *)
Pull(d) ==
  /\ d \in Cloned /\ marker[d].state = "none"
  /\ marker' = [marker EXCEPT ![d] = Committed]
  /\ UNCHANGED <<creds, lockfile, hashes, pc, identity, storing, faults, torn>>

Kill(a) ==
  /\ Cardinality(Killed) < MaxKills
  /\ pc[a] \notin {"start", "done", "failed", "dead"}
  /\ Goto(a, "dead")
  /\ torn' = IF At(a, "merge") THEN torn \cup {DirOf[a]} ELSE torn
  /\ UNCHANGED <<marker, creds, lockfile, hashes, identity, storing, faults>>

-----------------------------------------------------------------------------
Init ==
  /\ marker = [d \in Dirs |-> NoMarker]
  /\ creds = NoKeys
  /\ lock = Nobody /\ old = FALSE
  /\ hashes = [t \in Teams |-> {}]
  /\ pc = [a \in Actors |-> "start"]
  /\ project = [a \in Actors |-> Nobody] /\ team = [a \in Actors |-> Nobody]
  /\ key = [a \in Actors |-> Nobody] /\ known = [a \in Actors |-> "none"]
  /\ snap = [a \in Actors |-> NoKeys] /\ held = [a \in Actors |-> FALSE]
  /\ faults = 0 /\ torn = {}

Mint(s)  == Begin(s) \/ Create(s) \/ Adopt(s) \/ Fill(s) \/ upsertTeamAndProject(s) \/ Gate(s)

Store(a) == Lock(a) \/ BreakLock(a) \/ ReadKeys(a) \/ WriteKeys(a) \/ Unlock(a)

Session(s) == Mint(s) \/ CheckHash(s) \/ insertApiKeyHash(s) \/ Store(s)

Join(j) == BeginJoin(j) \/ Store(j) \/ Flip(j) \/ Merge(j)

Next ==
  \/ \E s \in Sessions : Session(s)
  \/ \E j \in Joins : Join(j)
  \/ \E d \in Dirs : Pull(d)
  \/ \E a \in Actors : Kill(a)
  \/ GrowOld

Spec == Init /\ [][Next]_vars

(* A process that runs goes on, and a lock file ages.                       *)
FairSpec ==
  /\ Spec /\ WF_vars(GrowOld)
  /\ \A s \in Sessions : WF_vars(Session(s))
  /\ \A j \in Joins : WF_vars(Join(j))

-----------------------------------------------------------------------------
(* Properties.                                                              *)

(* Every variable stays in its type.                                        *)
TypeOK ==
  /\ marker \in [Dirs -> Marker]
  /\ creds \in [Teams -> Actors \cup {Nobody}]
  /\ lock \in Actors \cup {Nobody} /\ old \in BOOLEAN
  /\ hashes \in [Teams -> SUBSET Actors]
  /\ pc \in [Actors -> PCs]
  /\ project \in [Actors -> Projects \cup {Nobody}]
  /\ team \in [Actors -> Teams \cup {Nobody}]
  /\ key \in [Actors -> Actors \cup {Nobody}]
  /\ known \in [Actors -> {"none", "local", "server"}]
  /\ snap \in [Actors -> [Teams -> Actors \cup {Nobody}]]
  /\ held \in [Actors -> BOOLEAN]
  /\ faults \in 0..MaxFaults /\ torn \subseteq Dirs

(* The marker of s's directory names s's project, or a join is just putting *)
(* that project back into it.                                               *)
MarkerNames(s) ==
  \/ Mark(s).state = "whole" /\ Mark(s).project = project[s]
  \/ \E j \in Joins : DirOf[j] = DirOf[s] /\ At(j, "merge") /\ project[j] = project[s]

(* A session works under the project that its directory's marker names, or  *)
(* its memory is orphaned (createMarkerIfAbsent), unless somebody found the *)
(* marker half written.                                                     *)
OneIdentity ==
  \A s \in Sessions : project[s] # Nobody /\ DirOf[s] \notin torn => MarkerNames(s)

(* "exactly one process can succeed, and everyone else reads back the       *)
(* winner" (createMarkerIfAbsent), without exception.                       *)
AlwaysOneIdentity == \A s \in Sessions : project[s] # Nobody => MarkerNames(s)

(* "only one key is ever adopted" (storeKeyIfAbsent): as long as no process *)
(* dies with the lock in its hands, a session that ends with a key of a     *)
(* minted team ends with the key that the credential file has, and the      *)
(* database knows that one alone: no orphaned credential, no hook that      *)
(* falls back to missing_api_key.                                           *)
KeyUsable ==
  Abandoned = {} =>
    \A s \in Sessions :
      At(s, "done") /\ team[s] \in Sessions /\ key[s] # Nobody =>
        /\ creds[team[s]] = key[s]
        /\ hashes[team[s]] = {key[s]}

(* "NEVER MINT A KEY FOR A TEAM THIS MACHINE HAS NOT LOGGED INTO"           *)
(* (ensureProjectIdentity): whenever the committed marker arrives, a key    *)
(* held or registered for its team was brought by a join (as long as nobody *)
(* found a marker half written).                                            *)
NotSelfIssued ==
  torn = {} => creds[Team] \in Joins \cup {Nobody} /\ hashes[Team] \subseteq Joins

(* The credential file is a map that changes one team at a time, whatever   *)
(* overlaps, until a process dies with the lock in its hands                *)
(* (CredentialStore).                                                       *)
AbstractStore == INSTANCE KeyStore WITH
  NoKey <- Nobody, Minted <- Sessions, Joined <- Joins,
  keys <- creds, disturbed <- Abandoned # {}

ImplementsKeyStore == AbstractStore!Spec

(* "one crash cannot wedge credential storage forever" (withLock): every    *)
(* process that has begun ends, whoever was killed holding the lock.        *)
EveryoneEnds ==
  <>(\A a \in Actors : pc[a] \in {"done", "failed", "dead"})
=============================================================================
