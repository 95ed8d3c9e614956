------------------------- MODULE ServerLaunchProofs -------------------------
(***************************************************************************)
(* ServerLaunch for any number of daemons, faults and stop commands.        *)
(***************************************************************************)
EXTENDS ServerLaunch, TLAPS

(* The parts of TypeOK that a step can disturb one by one.                  *)
FilesTyped ==
  /\ pg \in {"down", "starting", "up"}
  /\ pgPid \in Daemons \union {NoOne, "postgres", "dead", "alien"}
  /\ state \in Daemons \union {NoOne, "dead"}
StopTyped ==
  /\ stop \in [pc: {"idle", "wait", "clean", "postgres"},
               target: Daemons \union {NoOne}, all: BOOLEAN]
  /\ stop.pc = "wait" <=> stop.target \in Daemons
  /\ stop.pc = "wait" => pc[stop.target] = "closing"
CountsTyped ==
  /\ cut \in BOOLEAN /\ unlisted \subseteq Daemons
  /\ faults \in 0..MaxFaults /\ stops \in 0..MaxStops

LEMMA TypeParts ==
  TypeOK <=> pc \in [Daemons -> PCs] /\ FilesTyped /\ StopTyped /\ CountsTyped
BY DEF TypeOK, FilesTyped, StopTyped, CountsTyped

-----------------------------------------------------------------------------
(* What the building blocks of the actions do.                              *)

LEMMA StepKeepsTypes ==
  ASSUME TypeOK, NEW p \in Daemons, NEW from \in PCs \ {"closing"}, NEW to \in PCs,
         Step(p, from, to)
  PROVE  TypeOK'
<1>1. pc' \in [Daemons -> PCs]
  BY TypeParts DEF Step, Goto
<1>2. stop.pc = "wait" => pc'[stop.target] = "closing"
  BY TypeParts DEF Step, Goto, StopTyped
<1> QED
  BY <1>1, <1>2 DEF TypeOK, Step

LEMMA EndKeepsTypes ==
  ASSUME TypeOK, NEW p \in Daemons, Ends(p)
  PROVE  pc' \in [Daemons -> PCs] /\ StopTyped'
         /\ pgPid' \in Daemons \union {NoOne, "postgres", "dead", "alien"}
<1>1. pc' \in [Daemons -> PCs]
  BY TypeParts DEF Ends, Goto, PCs
<1>2. CASE stop.target = p
  <2>1. stop' = [pc |-> "clean", target |-> NoOne, all |-> stop.all]
    BY <1>2 DEF Ends
  <2>2. stop'.pc = "clean" /\ stop'.target = NoOne
        /\ stop' \in [pc: {"idle", "wait", "clean", "postgres"},
                     target: Daemons \union {NoOne}, all: BOOLEAN]
    BY <2>1, TypeParts DEF StopTyped
  <2>3. StopTyped'
    BY <2>2, LaunchAssumption DEF StopTyped
  <2> QED
    BY <1>1, <2>3, TypeParts DEF FilesTyped, Ends
<1>3. CASE stop.target # p
  <2>1. stop' = stop
    BY <1>3 DEF Ends
  <2>2. stop.pc = "wait" => pc'[stop.target] = "closing"
    BY <1>3, TypeParts DEF StopTyped, Ends, Goto
  <2> QED
    BY <1>1, <2>1, <2>2, TypeParts DEF StopTyped, FilesTyped, Ends
<1> QED BY <1>1, <1>2, <1>3

LEMMA ExitKeepsTypes ==
  ASSUME TypeOK, NEW p \in Daemons, Exit(p) PROVE TypeOK'
<1>1. Ends(p) /\ state' \in {state, "dead"} /\ UNCHANGED <<pg, cut, unlisted, faults, stops>>
  BY DEF Exit, Leaves
<1> QED BY <1>1, EndKeepsTypes DEF TypeOK, StopTyped

(* Every step but those of the environment is a step of one daemon, an exit *)
(* of one, or one of the few that change files.                             *)
LEMMA LaunchKeepsTypes ==
  ASSUME TypeOK, NEW p \in Daemons, Launch(p) PROVE TypeOK'
<1> USE DEF PCs
<1>1. CASE Look(p)
  BY <1>1, StepKeepsTypes DEF Look
<1>2. CASE Probe(p)
  BY <1>2, StepKeepsTypes DEF Probe
<1>3. CASE StartPostgres(p)
  <2>1. pc' \in [Daemons -> PCs] /\ (stop.pc = "wait" => pc'[stop.target] = "closing")
    BY <1>3, TypeParts DEF StartPostgres, Goto, StopTyped
  <2>2. pgPid' \in {pgPid, "postgres", NoOne}
    BY <1>3 DEF StartPostgres
  <2> QED BY <1>3, <2>1, <2>2 DEF TypeOK, StartPostgres
<1>14. CASE RemoveStale(p)
  <2>1. pc' \in [Daemons -> PCs] /\ (stop.pc = "wait" => pc'[stop.target] = "closing")
    BY <1>14, TypeParts DEF RemoveStale, Goto, StopTyped
  <2>2. pgPid' = NoOne /\ cut' \in BOOLEAN
    BY <1>14, TypeParts DEF RemoveStale, CountsTyped
  <2> QED BY <1>14, <2>1, <2>2 DEF TypeOK, RemoveStale
<1>4. CASE PortGuard(p)
  BY <1>4, StepKeepsTypes, ExitKeepsTypes DEF PortGuard
<1>5. CASE SpawnPostgres(p)
  <2>1. CASE Exit(p) BY <2>1, ExitKeepsTypes
  <2>2. CASE pc[p] = "spawn" /\ Goto(p, "wait")
             /\ pg' = (IF pg = "down" THEN "starting" ELSE pg)
             /\ UNCHANGED <<pgPid, state, stop, cut, unlisted, faults, stops>>
    <3>1. pc' \in [Daemons -> PCs] /\ (stop.pc = "wait" => pc'[stop.target] = "closing")
      BY <2>2, TypeParts DEF Goto, StopTyped
    <3> QED BY <2>2, <3>1 DEF TypeOK
  <2> QED BY <1>5, <2>1, <2>2 DEF SpawnPostgres
<1>6. CASE WaitForReady(p)
  BY <1>6, StepKeepsTypes, ExitKeepsTypes DEF WaitForReady
<1>7. CASE RecordPostgres(p)
  <2>1. pc' \in [Daemons -> PCs] /\ (stop.pc = "wait" => pc'[stop.target] = "closing")
    BY <1>7, TypeParts DEF RecordPostgres, Goto, StopTyped
  <2>2. pgPid' \in {"postgres", "dead", p}
    BY <1>7 DEF RecordPostgres
  <2> QED BY <1>7, <2>1, <2>2 DEF TypeOK, RecordPostgres
<1>8. CASE Connect(p)
  BY <1>8, StepKeepsTypes, ExitKeepsTypes DEF Connect
<1>9. CASE Claim(p)
  BY <1>9, StepKeepsTypes, ExitKeepsTypes DEF Claim
<1>10. CASE Knock(p)
  BY <1>10, StepKeepsTypes, ExitKeepsTypes DEF Knock
<1>11. CASE Listen(p)
  BY <1>11, StepKeepsTypes, ExitKeepsTypes DEF Listen
<1>12. CASE WriteState(p)
  <2>1. pc' \in [Daemons -> PCs] /\ (stop.pc = "wait" => pc'[stop.target] = "closing")
    BY <1>12, TypeParts DEF WriteState, Goto, StopTyped
  <2> QED BY <1>12, <2>1 DEF TypeOK, WriteState
<1>13. CASE Close(p)
  BY <1>13, EndKeepsTypes DEF Close, Named, TypeOK, StopTyped
<1> QED
  BY <1>1, <1>2, <1>3, <1>4, <1>5, <1>6, <1>7, <1>8, <1>9, <1>10, <1>11, <1>12, <1>13,
     <1>14 DEF Launch

LEMMA TypeStep == TypeOK /\ [Next]_vars => TypeOK'
<1> SUFFICES ASSUME TypeOK, [Next]_vars PROVE TypeOK'
  OBVIOUS
<1> USE LaunchAssumption
<1>1. ASSUME NEW p \in Daemons, Launch(p) PROVE TypeOK'
  BY <1>1, LaunchKeepsTypes
<1>2. ASSUME NEW p \in Daemons, Kill(p) PROVE TypeOK'
  <2>1. Ends(p) /\ state' \in {state, "dead"} /\ UNCHANGED <<pg, unlisted, stops>>
    BY <1>2 DEF Kill, Leaves
  <2>2. faults' \in 0..MaxFaults /\ cut' \in BOOLEAN
    BY <1>2, TypeParts DEF Kill, Fault, CountsTyped
  <2> QED BY <2>1, <2>2, EndKeepsTypes DEF TypeOK, StopTyped
<1>3. ASSUME NEW all \in BOOLEAN, StopServer(all) PROVE TypeOK'
  <2>1. stops' \in 0..MaxStops
    BY <1>3, TypeParts DEF StopServer, CountsTyped
  <2>2. CASE StateLives
    <3>1. stop' = [pc |-> "wait", target |-> state, all |-> all]
          /\ pc' = [pc EXCEPT ![state] = "closing"] /\ state' = state /\ state \in Daemons
      BY <1>3, <2>2 DEF StopServer, Goto, StateLives
    <3>2. pc' \in [Daemons -> PCs] /\ pc'[state] = "closing"
      BY <3>1, TypeParts DEF PCs
    <3> QED BY <1>3, <2>1, <3>1, <3>2 DEF TypeOK, StopServer
  <2>3. CASE ~StateLives
    <3>1. stop' = [pc |-> "clean", target |-> NoOne, all |-> all] /\ pc' = pc
      BY <1>3, <2>3 DEF StopServer
    <3> QED BY <1>3, <2>1, <3>1 DEF TypeOK, StopServer
  <2> QED BY <2>2, <2>3
<1>4. CASE KillServer
  <2>1. stop.target \in Daemons
    BY <1>4, TypeParts DEF KillServer, StopTyped
  <2> QED BY <1>4, <2>1, ExitKeepsTypes DEF KillServer
<1>5. CASE RemoveState
  BY <1>5 DEF RemoveState, Named, TypeOK
<1>6. CASE StopPostgres
  BY <1>6 DEF StopPostgres, NoStop, TypeOK
<1>7. CASE PostgresReady
  BY <1>7 DEF PostgresReady, TypeOK
<1>8. CASE PostgresDies
  <2>1. pgPid' \in {pgPid, "dead"} /\ faults' \in 0..MaxFaults
    BY <1>8, TypeParts DEF PostgresDies, Fault, CountsTyped
  <2>2. pg' = "down" /\ cut' = FALSE /\ UNCHANGED <<pc, state, stop, unlisted, stops>>
    BY <1>8 DEF PostgresDies
  <2> QED BY <2>1, <2>2 DEF TypeOK
<1>9. CASE Reboot
  <2>1. pgPid' \in {NoOne, "dead", "alien"} /\ state' \in {NoOne, "dead"}
    BY <1>9 DEF Reboot
  <2>2. pc' \in [Daemons -> PCs] /\ stop' = NoStop /\ pg' = "down" /\ cut' = FALSE
        /\ UNCHANGED <<unlisted, stops>>
    BY <1>9 DEF Reboot, PCs
  <2>3. faults' \in 0..MaxFaults
    BY <1>9, TypeParts DEF Reboot, Fault, CountsTyped
  <2> QED BY <2>1, <2>2, <2>3 DEF TypeOK, NoStop
<1>10. CASE UNCHANGED vars
  BY <1>10 DEF vars, TypeOK
<1> QED BY <1>1, <1>2, <1>3, <1>4, <1>5, <1>6, <1>7, <1>8, <1>9, <1>10 DEF Next

(* Daemons, files and the stop command stay in their types; a stop command  *)
(* waits only for a daemon that is closing (stop-process.ts).               *)
THEOREM LaunchTypes == Spec => []TypeOK
<1>1. ASSUME Init PROVE TypeOK
  <2>1. pc \in [Daemons -> PCs] /\ FilesTyped /\ CountsTyped
    <3>1. pc \in [Daemons -> PCs]
      BY <1>1 DEF Init, PCs
    <3>2. FilesTyped
      BY <1>1 DEF Init, FilesTyped
    <3>3. CountsTyped
      <4>1. 0 \in 0..MaxFaults /\ 0 \in 0..MaxStops
        BY LaunchAssumption
      <4> QED BY <1>1, <4>1 DEF Init, CountsTyped
    <3> QED BY <3>1, <3>2, <3>3
  <2>2. StopTyped
    BY <1>1, LaunchAssumption DEF Init, StopTyped, NoStop
  <2> QED BY <2>1, <2>2, TypeParts
<1> QED BY <1>1, TypeStep, PTL DEF Spec

-----------------------------------------------------------------------------
(* Who has the port, and whom the state files name.                         *)

Has(p) == pc[p] \in {"listening", "serving"}

OneListener == \A p, q \in Daemons : Has(p) /\ Has(q) => p = q
FilesNameServer == state \in Daemons => pc[state] \in {"serving", "closing"}

NInv == OneListener /\ FilesNameServer /\ StateNamesServer

(* A daemon on its way to the port only moves on or exits.                  *)
OnItsWay == PCs \ {"listening", "serving", "closing"}

LEMMA LaunchShape ==
  ASSUME NEW p \in Daemons, Launch(p)
  PROVE  \/ /\ pc[p] \in OnItsWay /\ \E to \in OnItsWay : Goto(p, to)
            /\ UNCHANGED <<state, unlisted>>
         \/ pc[p] \in OnItsWay /\ Exit(p)
         \/ ~Listening /\ Step(p, "boot", "listening")
         \/ WriteState(p)
         \/ Close(p)
<1> USE DEF OnItsWay, PCs
<1>1. CASE Look(p) \/ Probe(p) \/ PortGuard(p) \/ WaitForReady(p)
  BY <1>1 DEF Look, Probe, PortGuard, WaitForReady, Step
<1>2. CASE StartPostgres(p) \/ RemoveStale(p) \/ SpawnPostgres(p) \/ RecordPostgres(p)
  BY <1>2 DEF StartPostgres, RemoveStale, SpawnPostgres, RecordPostgres
<1>3. CASE Connect(p) \/ Claim(p) \/ Knock(p)
  BY <1>3 DEF Connect, Claim, Knock, Step
<1>4. CASE Listen(p)
  BY <1>4 DEF Listen
<1> QED BY <1>1, <1>2, <1>3, <1>4 DEF Launch

LEMMA LeaveKeepsNames ==
  ASSUME TypeOK, NInv, NEW p \in Daemons, Leaves(p), unlisted' = unlisted
  PROVE  NInv'
<1>1. pc'[p] = "idle" /\ \A q \in Daemons : q # p => pc'[q] = pc[q]
  BY DEF Leaves, Ends, Goto, TypeOK
<1>2. (state' = state /\ state # p) \/ (state' = "dead" /\ state = p)
  BY DEF Leaves
<1>4. OneListener'
  BY <1>1 DEF NInv, OneListener, Has
<1>5. FilesNameServer'
  BY <1>1, <1>2, LaunchAssumption DEF NInv, FilesNameServer
<1>7. StateNamesServer'
  BY <1>1, <1>2 DEF NInv, StateNamesServer
<1> QED BY <1>4, <1>5, <1>7 DEF NInv

LEMMA LaunchKeepsNames ==
  ASSUME TypeOK, NInv, NEW p \in Daemons, Launch(p) PROVE NInv'
<1>0. \A l : Goto(p, l) => pc'[p] = l /\ \A q \in Daemons : q # p => pc'[q] = pc[q]
  BY DEF Goto, TypeOK
<1>1. CASE pc[p] \in OnItsWay /\ (\E to \in OnItsWay : Goto(p, to))
           /\ UNCHANGED <<state, unlisted>>
  <2>1. pc'[p] \in OnItsWay /\ \A q \in Daemons : q # p => pc'[q] = pc[q]
    BY <1>0, <1>1
  <2>2. OneListener' /\ FilesNameServer'
    BY <1>1, <2>1 DEF NInv, OneListener, Has, FilesNameServer, OnItsWay
  <2>3. StateNamesServer'
    BY <1>1, <2>1 DEF NInv, StateNamesServer, OnItsWay
  <2> QED BY <2>2, <2>3 DEF NInv
<1>2. CASE Exit(p)
  BY <1>2, LeaveKeepsNames DEF Exit
<1>3. CASE ~Listening /\ Step(p, "boot", "listening")
  <2>1. pc[p] = "boot" /\ pc'[p] = "listening" /\ \A q \in Daemons : q # p => pc'[q] = pc[q]
    BY <1>0, <1>3 DEF Step
  <2>2. UNCHANGED <<state, unlisted>> /\ \A q \in Daemons : ~Has(q)
    BY <1>3 DEF Step, Listening, Has
  <2>3. OneListener' /\ FilesNameServer'
    BY <2>1, <2>2 DEF NInv, OneListener, Has, FilesNameServer
  <2>4. StateNamesServer'
    BY <2>1, <2>2 DEF NInv, StateNamesServer
  <2> QED BY <2>3, <2>4 DEF NInv
<1>4. CASE WriteState(p)
  <2>1. pc[p] = "listening" /\ pc'[p] = "serving" /\ \A q \in Daemons : q # p => pc'[q] = pc[q]
    BY <1>0, <1>4 DEF WriteState
  <2>2. state' = p /\ unlisted' = unlisted \ {p}
    BY <1>4 DEF WriteState
  <2>3. \A q \in Daemons : q # p => ~Has(q)
    BY <2>1 DEF NInv, OneListener, Has
  <2>4. OneListener' /\ FilesNameServer'
    BY <2>1, <2>2, <2>3 DEF OneListener, Has, FilesNameServer
  <2>5. StateNamesServer'
    BY <2>1, <2>2, <2>3 DEF StateNamesServer, Has
  <2> QED BY <2>4, <2>5 DEF NInv
<1>5. CASE Close(p)
  <2>1. pc[p] = "closing" /\ pc'[p] = "idle" /\ \A q \in Daemons : q # p => pc'[q] = pc[q]
    BY <1>0, <1>5 DEF Close, Ends
  <2>2. state' = NoOne /\ unlisted' = unlisted \union (Named \ {p})
    BY <1>5 DEF Close
  <2>3. OneListener' /\ FilesNameServer'
    BY <2>1, <2>2, LaunchAssumption DEF NInv, OneListener, Has, FilesNameServer
  <2>4. StateNamesServer'
    BY <2>1, <2>2 DEF NInv, StateNamesServer, Named
  <2> QED BY <2>3, <2>4 DEF NInv
<1> QED BY <1>1, <1>2, <1>3, <1>4, <1>5, LaunchShape

LEMMA NamesStep ==
  ASSUME TypeOK, NInv, [Next]_vars PROVE NInv'
<1> USE DEF NInv, OneListener, Has, FilesNameServer, StateNamesServer
<1>1. ASSUME NEW p \in Daemons, Launch(p) PROVE NInv'
  BY <1>1, LaunchKeepsNames
<1>2. ASSUME NEW p \in Daemons, Kill(p) PROVE NInv'
  BY <1>2, LeaveKeepsNames DEF Kill
<1>3. ASSUME NEW all \in BOOLEAN, StopServer(all) PROVE NInv'
  <2>1. unlisted' = unlisted
    BY <1>3 DEF StopServer
  <2>2. CASE StateLives
    <3>1. pc'[state] = "closing" /\ state' = state
          /\ \A q \in Daemons : q # state => pc'[q] = pc[q]
      BY <1>3, <2>2 DEF StopServer, Goto, StateLives, TypeOK
    <3> QED BY <2>1, <3>1
  <2>3. CASE ~StateLives
    <3>1. pc' = pc /\ state' = state
      BY <1>3, <2>3 DEF StopServer
    <3> QED BY <2>1, <2>3, <3>1, LaunchAssumption DEF StateLives
  <2> QED BY <2>2, <2>3
<1>4. CASE KillServer
  BY <1>4, LeaveKeepsNames DEF KillServer, Exit, TypeOK
<1>5. CASE RemoveState
  BY <1>5, LaunchAssumption DEF RemoveState, Named
<1>6. CASE StopPostgres
  BY <1>6 DEF StopPostgres, NoStop
<1>7. CASE PostgresReady
  BY <1>7 DEF PostgresReady
<1>8. CASE PostgresDies
  BY <1>8 DEF PostgresDies
<1>9. CASE Reboot
  <2>1. (\A p \in Daemons : pc'[p] = "idle") /\ state' \in {NoOne, "dead"} /\ stop' = NoStop
    BY <1>9 DEF Reboot
  <2> QED BY <2>1, LaunchAssumption DEF NoStop
<1>10. CASE UNCHANGED vars
  BY <1>10 DEF vars
<1> QED BY <1>1, <1>2, <1>3, <1>4, <1>5, <1>6, <1>7, <1>8, <1>9, <1>10 DEF Next

THEOREM NamesInvariant == Spec => []NInv
<1>1. ASSUME Init PROVE NInv
  BY <1>1, LaunchAssumption
     DEF Init, NInv, OneListener, Has, FilesNameServer, StateNamesServer
<1> QED BY <1>1, NamesStep, LaunchTypes, PTL DEF Spec

(* However many daemons race for the port, are killed, lose or are stopped, *)
(* the state files name the one that serves, unless a stop took them that   *)
(* was meant for another one (writeServerState, removeServerState).         *)
THEOREM ServerNamed == Spec => []StateNamesServer
BY NamesInvariant, PTL DEF NInv

-----------------------------------------------------------------------------
(* Postgres and its record.                                                 *)

LEMMA AdoptableStep ==
  ASSUME TypeOK, NInv, OwnPostgresAdoptable, [Next]_vars PROVE OwnPostgresAdoptable'
<1> USE DEF InStart
<1>1. ASSUME NEW p \in Daemons, Step(p, pc[p], pc'[p]), ~InStart(p) \/ InStart(p)'
      PROVE  OwnPostgresAdoptable'
  <2>1. \A q \in Daemons : q # p => pc'[q] = pc[q]
    BY <1>1 DEF Step, Goto, TypeOK
  <2> QED BY <1>1, <2>1 DEF Step, OwnPostgresAdoptable
(* Whoever ends outside of starting postgres takes nothing away.            *)
<1>2. ASSUME NEW p \in Daemons, Ends(p), pg' = pg, cut => cut',
             pg = "down" \/ cut' \/ ~InStart(p)
      PROVE  OwnPostgresAdoptable'
  <2>1. \A q \in Daemons : q # p => pc'[q] = pc[q]
    BY <1>2 DEF Ends, Goto, TypeOK
  <2>2. pgPid # NoOne => pgPid' # NoOne
    BY <1>2, LaunchAssumption DEF Ends
  <2> QED BY <1>2, <2>1, <2>2 DEF OwnPostgresAdoptable
<1>3. ASSUME NEW p \in Daemons, Exit(p), pg = "down" \/ ~InStart(p)
      PROVE  OwnPostgresAdoptable'
  BY <1>2, <1>3 DEF Exit, Leaves
<1>4. ASSUME NEW p \in Daemons, Launch(p) PROVE OwnPostgresAdoptable'
  <2>1. CASE \E from \in PCs \ {"wait", "record"}, to \in PCs : Step(p, from, to)
    BY <1>1, <2>1 DEF Step, Goto, TypeOK
  <2>2. CASE Step(p, "wait", "record")
    BY <1>1, <2>2 DEF Step, Goto, TypeOK
  <2>3. CASE Exit(p) /\ (pg = "down" \/ pc[p] \notin {"wait", "record"})
    BY <1>3, <2>3
  <2>4. CASE StartPostgres(p)
    <3>1. \A q \in Daemons : InStart(q) => InStart(q)'
      BY <2>4 DEF StartPostgres, Goto, TypeOK
    <3>2. pg' = pg /\ cut' = cut
      BY <2>4 DEF StartPostgres
    <3>3. pg # "down" /\ pgPid # NoOne => pgPid' # NoOne
      BY <2>4, LaunchAssumption DEF StartPostgres, isRunning
    <3> QED BY <3>1, <3>2, <3>3 DEF OwnPostgresAdoptable
  <2>12. CASE RemoveStale(p)
    <3>1. \A q \in Daemons : InStart(q) => InStart(q)'
      BY <2>12 DEF RemoveStale, Goto, TypeOK
    <3> QED BY <2>12, <3>1 DEF RemoveStale, OwnPostgresAdoptable
  <2>5. CASE pc[p] = "spawn" /\ Goto(p, "wait")
    BY <2>5 DEF OwnPostgresAdoptable, Goto, TypeOK
  <2>6. CASE RecordPostgres(p)
    BY <2>6, LaunchAssumption DEF RecordPostgres, OwnPostgresAdoptable
  <2>7. CASE WriteState(p)
    <3>1. \A q \in Daemons : InStart(q) => InStart(q)'
      BY <2>7 DEF WriteState, Goto, TypeOK
    <3> QED BY <2>7, <3>1 DEF WriteState, OwnPostgresAdoptable
  <2>8. CASE Close(p)
    BY <1>2, <2>8 DEF Close
  <2> HIDE DEF InStart
  <2>9. CASE Look(p) \/ Probe(p) \/ PortGuard(p) \/ Connect(p) \/ Claim(p) \/ Knock(p) \/ Listen(p)
    <3>1. \/ \E from \in PCs \ {"wait", "record"}, to \in PCs : Step(p, from, to)
          \/ Exit(p) /\ (pg = "down" \/ pc[p] \notin {"wait", "record"})
      BY <2>9 DEF Look, Probe, PortGuard, Connect, Claim, Knock, Listen, PCs
    <3> QED BY <3>1, <2>1, <2>3
  <2>10. CASE SpawnPostgres(p)
    BY <2>10, <2>3, <2>5 DEF SpawnPostgres
  <2>11. CASE WaitForReady(p)
    BY <2>11, <2>2, <2>3 DEF WaitForReady
  <2> QED BY <1>4, <2>4, <2>6, <2>7, <2>8, <2>9, <2>10, <2>11, <2>12
        DEF Launch
<1>5. ASSUME NEW p \in Daemons, Kill(p) PROVE OwnPostgresAdoptable'
  BY <1>2, <1>5 DEF Kill, Leaves, TypeOK
<1>6. ASSUME NEW all \in BOOLEAN, StopServer(all) PROVE OwnPostgresAdoptable'
  <2>1. StateLives => pc' = [pc EXCEPT ![state] = "closing"] /\ state \in Daemons
    BY <1>6 DEF StopServer, Goto, StateLives
  <2>2. \A q \in Daemons : InStart(q) => (StateLives /\ q = state) \/ InStart(q)'
    BY <1>6, <2>1 DEF StopServer, TypeOK
  <2>3. StateLives => ~InStart(state)
    BY DEF StateLives, NInv, FilesNameServer
  <2> QED BY <1>6, <2>2, <2>3 DEF StopServer, OwnPostgresAdoptable
<1>7. CASE KillServer
  BY <1>3, <1>7 DEF KillServer, TypeOK
<1>8. CASE RemoveState
  BY <1>8 DEF RemoveState, OwnPostgresAdoptable
<1>9. CASE StopPostgres
  BY <1>9 DEF StopPostgres, OwnPostgresAdoptable
<1>10. CASE PostgresReady
  BY <1>10 DEF PostgresReady, OwnPostgresAdoptable
<1>11. CASE PostgresDies
  BY <1>11 DEF PostgresDies, OwnPostgresAdoptable
<1>12. CASE Reboot
  BY <1>12 DEF Reboot, OwnPostgresAdoptable
<1>13. CASE UNCHANGED vars
  BY <1>13 DEF vars, OwnPostgresAdoptable
<1> QED BY <1>4, <1>5, <1>6, <1>7, <1>8, <1>9, <1>10, <1>11, <1>12, <1>13 DEF Next

(* The embedded postgres that runs always has its record, or a daemon about *)
(* to write it, unless one was cut off while it waited for this very        *)
(* postgres, or removed a record that had come since it found none          *)
(* (EmbeddedPostgresManager.start), for any number of daemons, deaths and   *)
(* stops.                                                                   *)
THEOREM PostgresAdoptable == Spec => []OwnPostgresAdoptable
<1>1. Init => OwnPostgresAdoptable
  BY DEF Init, OwnPostgresAdoptable
<1> QED BY <1>1, AdoptableStep, LaunchTypes, NamesInvariant, PTL DEF Spec

=============================================================================
