----------------------------- MODULE PoolRegistry -----------------------------
(***************************************************************************)
(* One connection pool per project database.  The first caller provisions   *)
(* the database (creates it, opens a pool, brings up the schema, seeds the  *)
(* team and project rows), callers that come meanwhile share its promise,   *)
(* and the pool stays cached under the database's name.  stop() closes the  *)
(* registry while provisions, statements and callers are under way.  Other  *)
(* processes create databases too, and the server may crash at any point.   *)
(*                                                                          *)
(* Provisions are numbered; a provision opens at most one pool, which bears *)
(* its number.  Number 0 stands for none.                                   *)
(***************************************************************************)
EXTENDS Integers, FiniteSets

CONSTANTS
  Databases,       \* project databases; the base database is never provisioned
  Callers,         \* requests, generation jobs, sweeps
  Workers,         \* the callers that stop() waits for: generation jobs
  ProjectOf,       \* the database of each caller
  MaxProvisions,   \* bound: provisions of one server process
  MaxFaults        \* bound: failing statements, crashes, databases created by others

ASSUME RegistryAssumption ==
  /\ Databases # {} /\ Workers \subseteq Callers /\ ProjectOf \in [Callers -> Databases]
  /\ MaxProvisions \in Nat /\ MaxFaults \in Nat

VARIABLES
  existing, ready,   \* databases that exist; that have their schema and rows
  entry,    \* PoolRegistry.pools
  last,     \* number of the last provision
  stage,    \* how far each provision is
  name,     \* its database
  pool,     \* its pool
  at, using,   \* where each caller is, the provision it awaits or whose pool it uses
  stopping,    \* how far stop() is
  pending,     \* closeAll: the provisions it has still to await
  late,        \* history: provisions begun after closeAll cleared the map
  faults

database == <<existing, ready>>
registry == <<entry, last, stage, name, pool, late>>
callers  == <<at, using>>
closing  == <<stopping, pending>>
vars == <<database, registry, callers, closing, faults>>

Provisions == 1..MaxProvisions

Stages == {"none", "lookup", "create", "bootstrap", "seed", "ok", "failed"}

UnderWay == {"lookup", "create", "bootstrap", "seed"}

Fault == faults < MaxFaults /\ faults' = faults + 1

-----------------------------------------------------------------------------
(* getPool.                                                                 *)

(* Jobs are taken until the queue closes; requests and sweeps go on asking. *)
MayAsk(c) == at[c] = "idle" /\ (c \in Workers => stopping \in {"no", "http"})

Cached(c) ==
  /\ MayAsk(c) /\ entry[ProjectOf[c]] # 0
  /\ at' = [at EXCEPT ![c] = "waiting"]
  /\ using' = [using EXCEPT ![c] = entry[ProjectOf[c]]]
  /\ UNCHANGED <<database, registry, closing, faults>>

Provision(c) ==
  /\ MayAsk(c) /\ last < MaxProvisions /\ last' = last + 1
  /\ stage' = [stage EXCEPT ![last'] = "lookup"]
  /\ name' = [name EXCEPT ![last'] = ProjectOf[c]]
  /\ at' = [at EXCEPT ![c] = "waiting"] /\ using' = [using EXCEPT ![c] = last']
  /\ late' = IF stopping \in {"no", "http"} THEN late ELSE late \cup {last'}
  /\ UNCHANGED <<database, pool, closing, faults>>

(* A variant the runs must reject: the pool is cached when it is ready.     *)
FirstUncached(c) ==
  /\ entry[ProjectOf[c]] = 0 /\ Provision(c) /\ UNCHANGED entry

First(c) ==
  /\ entry[ProjectOf[c]] = 0 /\ Provision(c)
  /\ entry' = [entry EXCEPT ![ProjectOf[c]] = last']

Served(c) ==
  /\ at[c] = "waiting" /\ stage[using[c]] = "ok"
  /\ at' = [at EXCEPT ![c] = "using"]
  /\ UNCHANGED <<database, registry, using, closing, faults>>

Refused(c) ==
  /\ at[c] = "waiting" /\ stage[using[c]] = "failed"
  /\ at' = [at EXCEPT ![c] = "idle"] /\ using' = [using EXCEPT ![c] = 0]
  /\ UNCHANGED <<database, registry, closing, faults>>

-----------------------------------------------------------------------------
(* A caller's statements and transactions: while one runs, a client is      *)
(* checked out; a pool that is being ended takes no new ones.               *)

Query(c) ==
  /\ at[c] = "using" /\ pool[using[c]] = "open"
  /\ at' = [at EXCEPT ![c] = "query"]
  /\ UNCHANGED <<database, registry, using, closing, faults>>

Answered(c) ==
  /\ at[c] = "query" /\ at' = [at EXCEPT ![c] = "using"]
  /\ UNCHANGED <<database, registry, using, closing, faults>>

(* The caller is done, or its next statement finds the pool ended.          *)
Leave(c) ==
  /\ at[c] = "using"
  /\ at' = [at EXCEPT ![c] = "idle"] /\ using' = [using EXCEPT ![c] = 0]
  /\ UNCHANGED <<database, registry, closing, faults>>

-----------------------------------------------------------------------------
(* provision.                                                               *)

At(p, label) == stage' = [stage EXCEPT ![p] = label]

(* ensureDatabaseExists queries the base pool, which ends last.             *)
HasBase == stopping # "stopped"

(* A variant the runs must reject: a database that exists needs no schema.  *)
LookupOnly(p) ==
  /\ stage[p] = "lookup" /\ HasBase
  /\ \/ name[p] \notin existing /\ At(p, "create") /\ UNCHANGED pool
     \/ name[p] \in existing /\ At(p, "ok") /\ pool' = [pool EXCEPT ![p] = "open"]
  /\ UNCHANGED <<database, entry, last, name, late, callers, closing, faults>>

Lookup(p) ==
  /\ stage[p] = "lookup" /\ HasBase
  /\ \/ name[p] \notin existing /\ At(p, "create") /\ UNCHANGED pool
     \/ name[p] \in existing /\ At(p, "bootstrap") /\ pool' = [pool EXCEPT ![p] = "open"]
  /\ UNCHANGED <<database, entry, last, name, late, callers, closing, faults>>

Create(p) ==
  /\ stage[p] = "create" /\ HasBase /\ name[p] \notin existing
  /\ existing' = existing \cup {name[p]}
  /\ At(p, "bootstrap") /\ pool' = [pool EXCEPT ![p] = "open"]
  /\ UNCHANGED <<ready, entry, last, name, late, callers, closing, faults>>

(* bootstrapServerPostgresSchema and then the two inserts of seedHinge.     *)
Bootstrap(p) ==
  /\ stage[p] = "bootstrap" /\ At(p, "seed")
  /\ UNCHANGED <<database, entry, last, name, pool, late, callers, closing, faults>>

SeedHinge(p) ==
  /\ stage[p] = "seed" /\ At(p, "ok") /\ ready' = ready \cup {name[p]}
  /\ UNCHANGED <<existing, entry, last, name, pool, late, callers, closing, faults>>

(* A statement fails, somebody else created the database in between, or the *)
(* base pool is being ended.                                                *)
Failing(p) ==
  \/ stage[p] \in UnderWay /\ Fault
  \/ stage[p] = "create" /\ name[p] \in existing /\ UNCHANGED faults
  \/ stage[p] \in {"lookup", "create"} /\ stopping \in {"base", "stopped"} /\ UNCHANGED faults

(* A variant the runs must reject: the rejected promise stays in the map.   *)
FailCached(p) ==
  /\ Failing(p) /\ At(p, "failed")
  /\ UNCHANGED <<database, entry, last, name, pool, late, callers, closing>>

(* The pool of a failed provision is left as it is.                         *)
Fail(p) ==
  /\ Failing(p) /\ At(p, "failed")
  /\ entry' = [entry EXCEPT ![name[p]] = 0]
  /\ UNCHANGED <<database, last, name, pool, late, callers, closing>>

-----------------------------------------------------------------------------
(* ServerService.stop and closeAll.                                         *)

(* The HTTP server goes first.                                              *)
Stop ==
  /\ stopping = "no" /\ stopping' = "http"
  /\ UNCHANGED <<database, registry, callers, pending, faults>>

(* A variant the runs must reject: only what is ready is closed.            *)
CloseReady ==
  /\ stopping = "http" /\ stopping' = "closing"
  /\ pending' = {p \in Provisions : stage[p] = "ok"}
  /\ entry' = [d \in Databases |-> 0]
  /\ UNCHANGED <<database, last, stage, name, pool, late, callers, faults>>

CloseAll ==
  /\ stopping = "http" /\ stopping' = "closing"
  /\ pending' = {entry[d] : d \in Databases} \ {0}
  /\ entry' = [d \in Databases |-> 0]
  /\ UNCHANGED <<database, last, stage, name, pool, late, callers, faults>>

(* The loop of closeAll, in the order of the map.                           *)
Due(p) == stopping = "closing" /\ p \in pending /\ \A q \in pending : p <= q

(* A variant the runs must reject: a rejected provision is awaited for ever. *)
SkipNothing(p) ==
  /\ Due(p) /\ stage[p] = "none" /\ pending' = pending \ {p}
  /\ UNCHANGED <<database, registry, callers, stopping, faults>>

Skip(p) ==
  /\ Due(p) /\ stage[p] = "failed" /\ pending' = pending \ {p}
  /\ UNCHANGED <<database, registry, callers, stopping, faults>>

End(p) ==
  /\ Due(p) /\ stage[p] = "ok" /\ pool[p] = "open"
  /\ pool' = [pool EXCEPT ![p] = "ending"]
  /\ UNCHANGED <<database, entry, last, stage, name, late, callers, closing, faults>>

(* end() resolves when the clients that are checked out are back.           *)
Ended(p) ==
  /\ Due(p) /\ pool[p] = "ending"
  /\ \A c \in Callers : ~(at[c] = "query" /\ using[c] = p)
  /\ pool' = [pool EXCEPT ![p] = "ended"] /\ pending' = pending \ {p}
  /\ UNCHANGED <<database, entry, last, stage, name, late, callers, stopping, faults>>

(* The queue and its workers are closed at the same time.                   *)
EndBase ==
  /\ stopping = "closing" /\ pending = {} /\ \A c \in Workers : at[c] = "idle"
  /\ stopping' = "base"
  /\ UNCHANGED <<database, registry, callers, pending, faults>>

Stopped ==
  /\ stopping = "base" /\ stopping' = "stopped"
  /\ UNCHANGED <<database, registry, callers, pending, faults>>

-----------------------------------------------------------------------------
(* The runtime of another project, or a second server, creates a database.  *)
Elsewhere(d) ==
  /\ d \notin existing /\ Fault /\ existing' = existing \cup {d}
  /\ UNCHANGED <<ready, registry, callers, closing>>

NoName == CHOOSE d \in Databases : TRUE

Init ==
  /\ existing = {} /\ ready = {} /\ faults = 0
  /\ entry = [d \in Databases |-> 0] /\ last = 0
  /\ stage = [p \in Provisions |-> "none"] /\ pool = [p \in Provisions |-> "none"]
  /\ name = [p \in Provisions |-> NoName]
  /\ at = [c \in Callers |-> "idle"] /\ using = [c \in Callers |-> 0]
  /\ stopping = "no" /\ pending = {} /\ late = {}

(* The server dies and is started again; the databases stay.                *)
Crash ==
  /\ Fault
  /\ entry' = [d \in Databases |-> 0] /\ last' = 0
  /\ stage' = [p \in Provisions |-> "none"] /\ pool' = [p \in Provisions |-> "none"]
  /\ name' = [p \in Provisions |-> NoName]
  /\ at' = [c \in Callers |-> "idle"] /\ using' = [c \in Callers |-> 0]
  /\ stopping' = "no" /\ pending' = {} /\ late' = {}
  /\ UNCHANGED database

Work(p) == Lookup(p) \/ Create(p) \/ Bootstrap(p) \/ SeedHinge(p) \/ Fail(p)

Live(c) == Served(c) \/ Refused(c) \/ Answered(c) \/ Leave(c)

Close == CloseAll \/ EndBase \/ Stopped \/ \E p \in Provisions : Skip(p) \/ End(p) \/ Ended(p)

Next ==
  \/ \E c \in Callers : Cached(c) \/ First(c) \/ Query(c) \/ Live(c)
  \/ \E p \in Provisions : Work(p)
  \/ Stop \/ Close \/ Crash
  \/ \E d \in Databases : Elsewhere(d)

Spec == Init /\ [][Next]_vars

(* Statements are answered, promises resumed, and callers come back.        *)
FairSpec ==
  /\ Spec /\ WF_vars(Close)
  /\ \A p \in Provisions : WF_vars(Work(p))
  /\ \A c \in Callers : WF_vars(Live(c)) /\ WF_vars(Cached(c) \/ First(c))

-----------------------------------------------------------------------------
(* Properties.                                                              *)

(* Every variable stays in its type.                                        *)
TypeOK ==
  /\ existing \subseteq Databases /\ ready \subseteq existing
  /\ last \in 0..MaxProvisions /\ entry \in [Databases -> 0..last]
  /\ stage \in [Provisions -> Stages] /\ name \in [Provisions -> Databases]
  /\ pool \in [Provisions -> {"none", "open", "ending", "ended"}]
  /\ at \in [Callers -> {"idle", "waiting", "using", "query"}]
  /\ using \in [Callers -> 0..last]
  /\ stopping \in {"no", "http", "closing", "base", "stopped"}
  /\ pending \subseteq 1..last /\ late \subseteq 1..last /\ faults \in 0..MaxFaults

(* A caller gets the pool of its own project's database, and never one      *)
(* without schema, team and project rows ("the data tables' FKs resolve on  *)
(* first write"), whoever created the database and wherever a provision of  *)
(* it broke off.                                                            *)
ReadyWhenServed ==
  \A c \in Callers :
    at[c] \in {"using", "query"} => name[using[c]] = ProjectOf[c] /\ ProjectOf[c] \in ready

(* "is single-flight: concurrent getPool creates one pool": until stop()    *)
(* clears the map, a database has one provision that has not failed.        *)
OnePool ==
  \A p, q \in Provisions :
    /\ stopping \in {"no", "http"} /\ name[p] = name[q]
    /\ {stage[p], stage[q]} \subseteq UnderWay \cup {"ok"}
    => p = q

(* stop() leaves no pool open but those of failed provisions and of callers *)
(* that came after the map was cleared: a provision under way is awaited.   *)
StopLeavesNothing ==
  stopping \in {"base", "stopped"} =>
    \A p \in Provisions : pool[p] # "none" => pool[p] = "ended" \/ stage[p] = "failed" \/ p \in late

(* stop() comes to an end, whatever provisions, statements and jobs it      *)
(* meets, unless the process dies first.                                    *)
StopEnds == stopping = "http" ~> stopping \in {"stopped", "no"}

(* "does not cache a failed provision; a later call retries": a caller that *)
(* comes back after a failure is served in the end, unless stop() intervenes. *)
RetryServed ==
  \A c \in Callers : at[c] = "waiting" ~> at[c] = "using" \/ stopping # "no"
=============================================================================
