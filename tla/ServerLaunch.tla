---------------------------- MODULE ServerLaunch ----------------------------
(***************************************************************************)
(* Getting one local server up: every session start runs `server-service    *)
(* start`, which spawns a detached daemon unless it finds a server; a       *)
(* daemon starts or adopts the embedded postgres of the data directory,     *)
(* looks for a server again, boots and only then takes the port and writes  *)
(* the server's state files.  `stop` signals the server those files name.   *)
(* Daemons are killed, postgres dies, the machine reboots; postgres         *)
(* outlives the daemon that started it.                                     *)
(*                                                                         *)
(* One action per stretch of synchronous code, two where it looks at a file *)
(* and then removes it.  Starting postgres takes at least two seconds and   *)
(* stopExternal polls four times a second, so both are single steps next to *)
(* it.  The data directory is initialised; the configuration is local.      *)
(***************************************************************************)
EXTENDS Integers

CONSTANTS
  Daemons,     \* `start` commands, each with the daemon it spawns
  NoOne,       \* no such file
  MaxFaults,   \* bound: kills, deaths of postgres, reboots, timeouts
  MaxStops     \* bound: `memsmith stop` commands

ASSUME LaunchAssumption ==
  /\ NoOne \notin Daemons
  /\ {"dead", "postgres", "alien"} \intersect (Daemons \union {NoOne}) = {}
  /\ MaxFaults \in Nat /\ MaxStops \in Nat

VARIABLES
  pc,       \* what every daemon (or the command before it) is doing
  pg,       \* the postgres that runs on the data directory
  pgPid,    \* local-pg.pid: the postgres that runs, a daemon, a pid that is
            \* dead, or one that a stranger has by now ("alien")
  state,    \* the server's pid file: a daemon that lives, or a "dead" one
  stop,     \* the stop command
  cut,      \* history: a daemon died between starting the postgres that runs
            \* and recording it, or one removed that record for a stale one
  unlisted, \* history: daemons whose state files a stop took that was meant
            \* for another one
  faults, stops

vars == <<pc, pg, pgPid, state, stop, cut, unlisted, faults, stops>>

PCs == {"idle", "probe", "pg", "stale", "guard", "spawn", "wait", "record", "connect",
        "claim", "knock", "boot", "listening", "serving", "closing"}

Listening  == \E p \in Daemons : pc[p] \in {"listening", "serving"}
StateLives == state \in Daemons
Named      == {p \in Daemons : state = p}
Goto(p, l) == pc' = [pc EXCEPT ![p] = l]

(* Process p ends.  The files that hold its pid name a dead process from    *)
(* now on (the start token tells it from a later one), and a stop command   *)
(* that waits for it notices.                                               *)
Ends(p) ==
  /\ Goto(p, "idle")
  /\ stop' = IF stop.target = p
             THEN [pc |-> "clean", target |-> NoOne, all |-> stop.all] ELSE stop
  /\ pgPid' = IF pgPid = p THEN "dead" ELSE pgPid

(* A variant the runs must reject: whoever leaves removes the state files.  *)
LeavesTidily(p) == Ends(p) /\ state' = NoOne

Leaves(p) == Ends(p) /\ state' = IF state = p THEN "dead" ELSE state

Exit(p) == Leaves(p) /\ UNCHANGED <<pg, cut, unlisted, faults, stops>>

Step(p, from, to) ==
  /\ pc[p] = from
  /\ Goto(p, to)
  /\ UNCHANGED <<pg, pgPid, state, stop, cut, unlisted, faults, stops>>

-----------------------------------------------------------------------------
(* `start`: findRunningServer, then spawnServerDaemon.                      *)

Look(p) == ~StateLives /\ Step(p, "idle", "probe")

Probe(p) == IF Listening THEN Step(p, "probe", "idle") ELSE Step(p, "probe", "pg")

(* EmbeddedPostgresManager.isRunning: our record, or the lock file that     *)
(* postgres itself keeps (postmaster.pid), names a process that lives.      *)
PidLives(file) == file \in Daemons \union {"postgres", "alien"}

(* A variant the runs must reject: a record is taken for a running postgres.*)
isRunningByFile == pgPid # NoOne

isRunning == pgPid # NoOne /\ (PidLives(pgPid) \/ pg # "down")

(* EmbeddedPostgresManager.start: adopt and heal the record ...             *)
StartPostgres(p) ==
  /\ pc[p] = "pg"
  /\ IF isRunning
     THEN Goto(p, "connect") /\ pgPid' = IF pg # "down" THEN "postgres" ELSE pgPid
     ELSE Goto(p, "stale") /\ UNCHANGED pgPid
  /\ UNCHANGED <<pg, state, stop, cut, unlisted, faults, stops>>

(* ... or remove a stale one, by name, whatever it says by now.             *)
RemoveStale(p) ==
  /\ pc[p] = "stale"
  /\ Goto(p, "guard")
  /\ pgPid' = NoOne
  /\ cut' = (cut \/ (pg # "down" /\ pgPid # NoOne))
  /\ UNCHANGED <<pg, state, stop, unlisted, faults, stops>>

(* The port guard: a postgres that is coming up may not have bound it yet.  *)
PortGuard(p) ==
  \/ pg # "up" /\ Step(p, "guard", "spawn")
  \/ pg # "down" /\ pc[p] = "guard" /\ Exit(p)

(* A second postgres on the same data directory exits at once, and the      *)
(* daemon that spawned it gives up or waits for the first one.              *)
SpawnPostgres(p) ==
  \/ /\ pc[p] = "spawn"
     /\ Goto(p, "wait")
     /\ pg' = IF pg = "down" THEN "starting" ELSE pg
     /\ UNCHANGED <<pgPid, state, stop, cut, unlisted, faults, stops>>
  \/ pg # "down" /\ pc[p] = "spawn" /\ Exit(p)

WaitForReady(p) ==
  \/ pg = "up" /\ Step(p, "wait", "record")
  \/ pg = "down" /\ pc[p] = "wait" /\ Exit(p)

(* A variant the runs must reject: the record is not written.               *)
RecordNothing(p) == Step(p, "record", "connect")

(* The pid that postgres wrote itself, our own without such a file.         *)
RecordPostgres(p) ==
  /\ pc[p] = "record"
  /\ Goto(p, "connect")
  /\ pgPid' \in IF pg # "down" THEN {"postgres"} ELSE {p, "dead"}
  /\ UNCHANGED <<pg, state, stop, cut, unlisted, faults, stops>>

(* startLocalRuntime: the project's database, the first-run import.         *)
Connect(p) ==
  \/ pg = "up" /\ Step(p, "connect", "claim")
  \/ pg # "up" /\ pc[p] = "connect" /\ Exit(p)

(* runServerForeground's own look for a server: pid file, then port.        *)
Claim(p) ==
  \/ ~StateLives /\ Step(p, "claim", "knock")
  \/ StateLives /\ pc[p] = "claim" /\ Exit(p)

Knock(p) ==
  \/ ~Listening /\ Step(p, "knock", "boot")
  \/ Listening /\ pc[p] = "knock" /\ Exit(p)

(* createServerService, whose workers and recovery are running from here    *)
(* on; then listen, which fails on a taken port.                            *)
Listen(p) ==
  \/ pg = "up" /\ ~Listening /\ Step(p, "boot", "listening")
  \/ (pg # "up" \/ Listening) /\ pc[p] = "boot" /\ Exit(p)

WriteState(p) ==
  /\ pc[p] = "listening"
  /\ Goto(p, "serving")
  /\ state' = p
  /\ unlisted' = unlisted \ {p}
  /\ UNCHANGED <<pg, pgPid, stop, cut, faults, stops>>

(* ServerService.stop after SIGTERM: the port is closed first, the state    *)
(* files are removed last, whatever they say by then.                       *)
Close(p) ==
  /\ pc[p] = "closing"
  /\ Ends(p)
  /\ state' = NoOne
  /\ unlisted' = unlisted \union (Named \ {p})
  /\ UNCHANGED <<pg, cut, faults, stops>>

-----------------------------------------------------------------------------
(* `memsmith stop [--all]`: server-service stop, then stopExternal.         *)

NoStop == [pc |-> "idle", target |-> NoOne, all |-> FALSE]

(* A server that lives is signalled; without one the files are removed,     *)
(* which one that has started since the look may have written.              *)
StopServer(all) ==
  /\ stop.pc = "idle" /\ stops < MaxStops
  /\ stops' = stops + 1
  /\ IF StateLives
     THEN /\ stop' = [pc |-> "wait", target |-> state, all |-> all]
          /\ Goto(state, "closing")
     ELSE /\ stop' = [pc |-> "clean", target |-> NoOne, all |-> all]
          /\ UNCHANGED pc
  /\ UNCHANGED <<pg, pgPid, state, cut, unlisted, faults>>

(* Not gone in five seconds: SIGKILL.                                       *)
KillServer ==
  /\ stop.pc = "wait"
  /\ Exit(stop.target)

RemoveState ==
  /\ stop.pc = "clean"
  /\ state' = NoOne
  /\ unlisted' = unlisted \union Named
  /\ stop' = [stop EXCEPT !.pc = "postgres"]
  /\ UNCHANGED <<pc, pg, pgPid, cut, faults, stops>>

(* Without --all, or with a server that still answers, that was all.        *)
StopPostgres ==
  /\ stop.pc = "postgres"
  /\ stop' = NoStop
  /\ IF stop.all /\ ~Listening
     THEN pg' = "down" /\ pgPid' = NoOne /\ cut' = FALSE
     ELSE UNCHANGED <<pg, pgPid, cut>>
  /\ UNCHANGED <<pc, state, unlisted, faults, stops>>

-----------------------------------------------------------------------------
(* Postgres comes up; processes die.                                        *)

PostgresReady ==
  /\ pg = "starting" /\ pg' = "up"
  /\ UNCHANGED <<pc, pgPid, state, stop, cut, unlisted, faults, stops>>

Fault == faults < MaxFaults /\ faults' = faults + 1

InStart(p) == pc[p] \in {"wait", "record"}

(* A daemon is killed, or gives up waiting for a slow postgres.             *)
Kill(p) ==
  /\ Fault
  /\ pc[p] # "idle"
  /\ Leaves(p)
  /\ cut' = (cut \/ (InStart(p) /\ pg # "down"))
  /\ UNCHANGED <<pg, unlisted, stops>>

PostgresDies ==
  /\ Fault
  /\ pg # "down" /\ pg' = "down" /\ cut' = FALSE
  /\ pgPid' = IF pgPid = "postgres" THEN "dead" ELSE pgPid
  /\ UNCHANGED <<pc, state, stop, unlisted, stops>>

(* After a reboot the recorded pid may be somebody else's.                  *)
Reboot ==
  /\ Fault
  /\ pc' = [p \in Daemons |-> "idle"]
  /\ pg' = "down" /\ cut' = FALSE
  /\ pgPid' \in IF pgPid = NoOne THEN {NoOne} ELSE {"dead", "alien"}
  /\ state' = IF state = NoOne THEN NoOne ELSE "dead"
  /\ stop' = NoStop
  /\ UNCHANGED <<unlisted, stops>>

-----------------------------------------------------------------------------
Init ==
  /\ pc = [p \in Daemons |-> "idle"]
  /\ pg = "down" /\ pgPid = NoOne /\ state = NoOne
  /\ stop = NoStop
  /\ cut = FALSE /\ unlisted = {} /\ faults = 0 /\ stops = 0

Launch(p) ==
  \/ Look(p) \/ Probe(p) \/ StartPostgres(p) \/ RemoveStale(p) \/ PortGuard(p)
  \/ SpawnPostgres(p) \/ WaitForReady(p) \/ RecordPostgres(p) \/ Connect(p)
  \/ Claim(p) \/ Knock(p) \/ Listen(p) \/ WriteState(p) \/ Close(p)

Next ==
  \/ \E p \in Daemons : Launch(p) \/ Kill(p)
  \/ \E all \in BOOLEAN : StopServer(all)
  \/ KillServer \/ RemoveState \/ StopPostgres
  \/ PostgresReady \/ PostgresDies \/ Reboot

Spec == Init /\ [][Next]_vars

(* Sessions keep being opened, so that the look for a server is repeated;   *)
(* processes run; postgres comes up.  Nothing obliges a stop or a fault.    *)
FairSpec ==
  /\ Spec
  /\ \A p \in Daemons : WF_vars(Launch(p))
  /\ WF_vars(PostgresReady) /\ WF_vars(RemoveState) /\ WF_vars(StopPostgres)

-----------------------------------------------------------------------------
(* Properties.                                                              *)

(* Every variable stays in its type; a stop command waits for a process     *)
(* that is closing.                                                         *)
TypeOK ==
  /\ pc \in [Daemons -> PCs]
  /\ pg \in {"down", "starting", "up"}
  /\ pgPid \in Daemons \union {NoOne, "postgres", "dead", "alien"}
  /\ state \in Daemons \union {NoOne, "dead"}
  /\ stop \in [pc: {"idle", "wait", "clean", "postgres"},
               target: Daemons \union {NoOne}, all: BOOLEAN]
  /\ stop.pc = "wait" <=> stop.target \in Daemons
  /\ stop.pc = "wait" => pc[stop.target] = "closing"
  /\ cut \in BOOLEAN /\ unlisted \subseteq Daemons /\ faults \in 0..MaxFaults /\ stops \in 0..MaxStops

(* Our own postgres is never taken for a foreign one (start's comments on   *)
(* the record): whenever it runs, the record is there that makes the next   *)
(* daemon adopt it, or a daemon that waits for it is about to write it,     *)
(* unless a daemon was cut off while it waited for this very postgres, or   *)
(* removed its record, which had come since it found none that lives.       *)
OwnPostgresAdoptable ==
  pg # "down" => pgPid # NoOne \/ cut \/ \E p \in Daemons : InStart(p)

(* However many daemons race for the port, are killed, lose or are stopped, *)
(* the state files name the one that serves, unless a stop took them that   *)
(* was meant for another one.                                               *)
StateNamesServer ==
  \A p \in Daemons : pc[p] = "serving" => state = p \/ p \in unlisted

(* Where the code stops: a postgres of ours without a record, which the     *)
(* port guard calls foreign, and a record whose pid a stranger has.         *)
Wedged ==
  \/ pg # "down" /\ pgPid = NoOne
  \/ pg = "down" /\ pgPid = "alien"

(* After kills, reboots, stops and lost races a later session start brings  *)
(* a server back.                                                           *)
ServerComesBack == []<>(Listening \/ Wedged)
=============================================================================
