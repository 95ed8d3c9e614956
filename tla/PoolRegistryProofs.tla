-------------------------- MODULE PoolRegistryProofs --------------------------
(***************************************************************************)
(* Who is served has a database with schema and rows, a database has one    *)
(* provision at a time, and stop() leaves nothing open: because the map     *)
(* names, until closeAll clears it, exactly the provisions that have not    *)
(* failed, and afterwards each of those is either still to be awaited or    *)
(* ended.                                                                   *)
(***************************************************************************)
EXTENDS PoolRegistry, TLAPS

Alive == UnderWay \cup {"ok"}

Begun ==
  \A p \in Provisions :
    /\ p > last => stage[p] = "none"
    /\ stage[p] \in {"none", "lookup", "create"} => pool[p] = "none"
    /\ pool[p] \in {"ending", "ended"} => stage[p] = "ok"

(* A provision brings its database to where it says it is.                  *)
Provided ==
  \A p \in Provisions :
    /\ stage[p] \in {"bootstrap", "seed", "ok"} => name[p] \in existing
    /\ stage[p] = "ok" => name[p] \in ready

(* What a caller awaits or uses is a provision of its project.              *)
Held ==
  \A c \in Callers :
    at[c] # "idle" =>
      /\ using[c] \in Provisions /\ name[using[c]] = ProjectOf[c]
      /\ at[c] # "waiting" => stage[using[c]] = "ok"

(* The map names provisions of its databases that are begun ...             *)
Mapped ==
  \A d \in Databases :
    entry[d] # 0 => entry[d] \in Provisions /\ name[entry[d]] = d

(* ... and, before closeAll, all that have not failed.                      *)
Unique ==
  stopping \in {"no", "http"} =>
    \A p \in Provisions : stage[p] \in Alive => entry[name[p]] = p

(* After it, each of those is awaited, ended, or was begun since.           *)
Awaited ==
  stopping \in {"closing", "base", "stopped"} =>
    \A p \in Provisions :
      stage[p] \in Alive => p \in late \/ p \in pending \/ pool[p] = "ended"

Drained == stopping \in {"base", "stopped"} => pending = {}

RInv == /\ TypeOK /\ Begun /\ Provided /\ Held /\ Mapped /\ Unique /\ Awaited /\ Drained

LEMMA Constants == /\ MaxProvisions \in Nat /\ MaxFaults \in Nat /\ NoName \in Databases
                   /\ ProjectOf \in [Callers -> Databases]
BY RegistryAssumption DEF NoName

LEMMA InitRInv == Init => RInv
BY Constants DEF Init, RInv, TypeOK, Begun, Provided, Held, Mapped, Unique, Awaited, Drained,
  Alive, UnderWay, Stages, Provisions

LEMMA CachedRInv ==
  ASSUME RInv, NEW c \in Callers, Cached(c)
  PROVE  RInv'
<1> USE Constants DEF Cached, MayAsk, database, registry, callers, closing
<1>1. TypeOK'
  BY DEF RInv, TypeOK, Begun, Provided, Mapped, Held, Stages, Provisions, UnderWay
<1>2. Begun'
  BY DEF RInv, TypeOK, Begun, Provisions, Stages, UnderWay
<1>3. Provided'
  BY DEF RInv, TypeOK, Provided, Begun, Provisions, UnderWay
<1>4. Held'
  <2>1. ProjectOf[c] \in Databases
    OBVIOUS
  <2>2. entry[ProjectOf[c]] \in Provisions /\ name[entry[ProjectOf[c]]] = ProjectOf[c]
    BY <2>1 DEF RInv, Mapped
  <2> SUFFICES ASSUME NEW b \in Callers, at'[b] # "idle"
               PROVE  /\ using'[b] \in Provisions /\ name'[using'[b]] = ProjectOf[b]
                      /\ at'[b] # "waiting" => stage'[using'[b]] = "ok"
    BY DEF Held
  <2>3. CASE b = c
    BY <2>2, <2>3 DEF RInv, TypeOK
  <2>4. CASE b # c
    BY <2>4 DEF RInv, TypeOK, Held
  <2> QED
    BY <2>3, <2>4
<1>5. Mapped'
  BY DEF RInv, TypeOK, Mapped, Begun, Provisions
<1>6. Unique'
  BY DEF RInv, TypeOK, Unique, Mapped, Begun, Alive, UnderWay, Provisions
<1>7. Awaited'
  BY DEF RInv, TypeOK, Awaited, Begun, Unique, Mapped, Drained, Alive, UnderWay, Provisions
<1>8. Drained'
  BY DEF RInv, Drained
<1> QED
  BY <1>1, <1>2, <1>3, <1>4, <1>5, <1>6, <1>7, <1>8 DEF RInv

LEMMA FirstRInv ==
  ASSUME RInv, NEW c \in Callers, First(c)
  PROVE  RInv'
<1> USE Constants DEF First, Provision, MayAsk, database, registry, callers, closing
<1>1. TypeOK'
  <2>0. last \in 0..MaxProvisions /\ last < MaxProvisions /\ last' = last + 1
    BY DEF RInv, TypeOK
  <2>. HIDE DEF First, Provision
  <2>10. last' \in 0..MaxProvisions /\ last' \in Provisions /\ last < last'
    BY <2>0 DEF Provisions
  <2>11. ProjectOf[c] \in Databases
    OBVIOUS
  <2>. USE DEF First, Provision
  <2>1. last' \in 0..MaxProvisions /\ last' \in Provisions /\ last < last'
        /\ ProjectOf[c] \in Databases /\ last \in 0..MaxProvisions
    BY <2>0, <2>10, <2>11
  <2>2. 0..last \subseteq 0..last' /\ last' \in 0..last' /\ 1..last \subseteq 1..last' /\ last' \in 1..last'
    BY <2>1 DEF Provisions
  <2>3. entry' \in [Databases -> 0..last'] /\ using' \in [Callers -> 0..last']
    BY <2>2 DEF RInv, TypeOK
  <2>4. stage' \in [Provisions -> Stages] /\ name' \in [Provisions -> Databases]
    BY <2>1 DEF RInv, TypeOK, Stages
  <2>5. at' \in [Callers -> {"idle", "waiting", "using", "query"}]
    BY DEF RInv, TypeOK
  <2>6. pending' \subseteq 1..last' /\ late' \subseteq 1..last'
    BY <2>2 DEF RInv, TypeOK
  <2> QED
    BY <2>1, <2>3, <2>4, <2>5, <2>6 DEF RInv, TypeOK
<1>2. Begun'
  BY DEF RInv, TypeOK, Begun, Provisions, Stages, UnderWay
<1>3. Provided'
  BY DEF RInv, TypeOK, Provided, Begun, Provisions, UnderWay
<1>4. Held'
  BY DEF RInv, TypeOK, Held, Mapped, Begun, Provisions
<1>5. Mapped'
  BY DEF RInv, TypeOK, Mapped, Begun, Provisions
<1>6. Unique'
  <2>0. last \in 0..MaxProvisions /\ last < MaxProvisions /\ last' = last + 1
    BY DEF RInv, TypeOK
  <2>. HIDE DEF First, Provision
  <2>10. last' \in 0..MaxProvisions /\ last' \in Provisions /\ last < last'
    BY <2>0 DEF Provisions
  <2>11. ProjectOf[c] \in Databases
    OBVIOUS
  <2>. USE DEF First, Provision
  <2>1. last' \in Provisions /\ ProjectOf[c] \in Databases
    BY <2>10, <2>11
  <2> SUFFICES ASSUME stopping' \in {"no", "http"}, NEW q \in Provisions, stage'[q] \in Alive
               PROVE  entry'[name'[q]] = q
    BY DEF Unique
  <2>2. CASE q = last'
    BY <2>1, <2>2 DEF RInv, TypeOK
  <2>3. CASE q # last'
    <3>1. stage[q] \in Alive /\ name'[q] = name[q] /\ entry[name[q]] = q
      BY <2>1, <2>3 DEF RInv, TypeOK, Unique
    <3>2. name[q] # ProjectOf[c]
      BY <3>1 DEF Provisions
    <3> QED
      BY <3>1, <3>2 DEF RInv, TypeOK
  <2> QED
    BY <2>2, <2>3
<1>7. Awaited'
  BY DEF RInv, TypeOK, Awaited, Begun, Unique, Mapped, Drained, Alive, UnderWay, Provisions
<1>8. Drained'
  BY DEF RInv, Drained
<1> QED
  BY <1>1, <1>2, <1>3, <1>4, <1>5, <1>6, <1>7, <1>8 DEF RInv

LEMMA QueryRInv ==
  ASSUME RInv, NEW c \in Callers, Query(c)
  PROVE  RInv'
<1> USE Constants DEF Query, database, registry, callers, closing
<1>1. TypeOK'
  BY DEF RInv, TypeOK, Begun, Provided, Mapped, Held, Stages, Provisions, UnderWay
<1>2. Begun'
  BY DEF RInv, TypeOK, Begun, Provisions, Stages, UnderWay
<1>3. Provided'
  BY DEF RInv, TypeOK, Provided, Begun, Provisions, UnderWay
<1>4. Held'
  BY DEF RInv, TypeOK, Held, Mapped, Begun, Provisions
<1>5. Mapped'
  BY DEF RInv, TypeOK, Mapped, Begun, Provisions
<1>6. Unique'
  BY DEF RInv, TypeOK, Unique, Mapped, Begun, Alive, UnderWay, Provisions
<1>7. Awaited'
  BY DEF RInv, TypeOK, Awaited, Begun, Unique, Mapped, Drained, Alive, UnderWay, Provisions
<1>8. Drained'
  BY DEF RInv, Drained
<1> QED
  BY <1>1, <1>2, <1>3, <1>4, <1>5, <1>6, <1>7, <1>8 DEF RInv

LEMMA ServedRInv ==
  ASSUME RInv, NEW c \in Callers, Served(c)
  PROVE  RInv'
<1> USE Constants DEF Served, database, registry, callers, closing
<1>1. TypeOK'
  BY DEF RInv, TypeOK, Begun, Provided, Mapped, Held, Stages, Provisions, UnderWay
<1>2. Begun'
  BY DEF RInv, TypeOK, Begun, Provisions, Stages, UnderWay
<1>3. Provided'
  BY DEF RInv, TypeOK, Provided, Begun, Provisions, UnderWay
<1>4. Held'
  BY DEF RInv, TypeOK, Held, Mapped, Begun, Provisions
<1>5. Mapped'
  BY DEF RInv, TypeOK, Mapped, Begun, Provisions
<1>6. Unique'
  BY DEF RInv, TypeOK, Unique, Mapped, Begun, Alive, UnderWay, Provisions
<1>7. Awaited'
  BY DEF RInv, TypeOK, Awaited, Begun, Unique, Mapped, Drained, Alive, UnderWay, Provisions
<1>8. Drained'
  BY DEF RInv, Drained
<1> QED
  BY <1>1, <1>2, <1>3, <1>4, <1>5, <1>6, <1>7, <1>8 DEF RInv

LEMMA RefusedRInv ==
  ASSUME RInv, NEW c \in Callers, Refused(c)
  PROVE  RInv'
<1> USE Constants DEF Refused, database, registry, callers, closing
<1>1. TypeOK'
  BY DEF RInv, TypeOK, Begun, Provided, Mapped, Held, Stages, Provisions, UnderWay
<1>2. Begun'
  BY DEF RInv, TypeOK, Begun, Provisions, Stages, UnderWay
<1>3. Provided'
  BY DEF RInv, TypeOK, Provided, Begun, Provisions, UnderWay
<1>4. Held'
  BY DEF RInv, TypeOK, Held, Mapped, Begun, Provisions
<1>5. Mapped'
  BY DEF RInv, TypeOK, Mapped, Begun, Provisions
<1>6. Unique'
  BY DEF RInv, TypeOK, Unique, Mapped, Begun, Alive, UnderWay, Provisions
<1>7. Awaited'
  BY DEF RInv, TypeOK, Awaited, Begun, Unique, Mapped, Drained, Alive, UnderWay, Provisions
<1>8. Drained'
  BY DEF RInv, Drained
<1> QED
  BY <1>1, <1>2, <1>3, <1>4, <1>5, <1>6, <1>7, <1>8 DEF RInv

LEMMA AnsweredRInv ==
  ASSUME RInv, NEW c \in Callers, Answered(c)
  PROVE  RInv'
<1> USE Constants DEF Answered, database, registry, callers, closing
<1>1. TypeOK'
  BY DEF RInv, TypeOK, Begun, Provided, Mapped, Held, Stages, Provisions, UnderWay
<1>2. Begun'
  BY DEF RInv, TypeOK, Begun, Provisions, Stages, UnderWay
<1>3. Provided'
  BY DEF RInv, TypeOK, Provided, Begun, Provisions, UnderWay
<1>4. Held'
  BY DEF RInv, TypeOK, Held, Mapped, Begun, Provisions
<1>5. Mapped'
  BY DEF RInv, TypeOK, Mapped, Begun, Provisions
<1>6. Unique'
  BY DEF RInv, TypeOK, Unique, Mapped, Begun, Alive, UnderWay, Provisions
<1>7. Awaited'
  BY DEF RInv, TypeOK, Awaited, Begun, Unique, Mapped, Drained, Alive, UnderWay, Provisions
<1>8. Drained'
  BY DEF RInv, Drained
<1> QED
  BY <1>1, <1>2, <1>3, <1>4, <1>5, <1>6, <1>7, <1>8 DEF RInv

LEMMA LeaveRInv ==
  ASSUME RInv, NEW c \in Callers, Leave(c)
  PROVE  RInv'
<1> USE Constants DEF Leave, database, registry, callers, closing
<1>1. TypeOK'
  BY DEF RInv, TypeOK, Begun, Provided, Mapped, Held, Stages, Provisions, UnderWay
<1>2. Begun'
  BY DEF RInv, TypeOK, Begun, Provisions, Stages, UnderWay
<1>3. Provided'
  BY DEF RInv, TypeOK, Provided, Begun, Provisions, UnderWay
<1>4. Held'
  BY DEF RInv, TypeOK, Held, Mapped, Begun, Provisions
<1>5. Mapped'
  BY DEF RInv, TypeOK, Mapped, Begun, Provisions
<1>6. Unique'
  BY DEF RInv, TypeOK, Unique, Mapped, Begun, Alive, UnderWay, Provisions
<1>7. Awaited'
  BY DEF RInv, TypeOK, Awaited, Begun, Unique, Mapped, Drained, Alive, UnderWay, Provisions
<1>8. Drained'
  BY DEF RInv, Drained
<1> QED
  BY <1>1, <1>2, <1>3, <1>4, <1>5, <1>6, <1>7, <1>8 DEF RInv

LEMMA LookupRInv ==
  ASSUME RInv, NEW p \in Provisions, Lookup(p)
  PROVE  RInv'
<1> USE Constants DEF Lookup, At, database, registry, callers, closing
<1>1. TypeOK'
  <2>1. stage' \in [Provisions -> Stages]
    BY DEF RInv, TypeOK, Stages
  <2>2. pool' \in [Provisions -> {"none", "open", "ending", "ended"}]
    BY DEF RInv, TypeOK
  <2> QED
    BY <2>1, <2>2 DEF RInv, TypeOK
<1>2. Begun'
  BY DEF RInv, TypeOK, Begun, Provisions, Stages, UnderWay
<1>3. Provided'
  BY DEF RInv, TypeOK, Provided, Begun, Provisions, UnderWay
<1>4. Held'
  BY DEF RInv, TypeOK, Held, Mapped, Begun, Provisions
<1>5. Mapped'
  BY DEF RInv, TypeOK, Mapped, Begun, Provisions
<1>6. Unique'
  BY DEF RInv, TypeOK, Unique, Mapped, Begun, Alive, UnderWay, Provisions
<1>7. Awaited'
  BY DEF RInv, TypeOK, Awaited, Begun, Unique, Mapped, Drained, Alive, UnderWay, Provisions
<1>8. Drained'
  BY DEF RInv, Drained
<1> QED
  BY <1>1, <1>2, <1>3, <1>4, <1>5, <1>6, <1>7, <1>8 DEF RInv

LEMMA CreateRInv ==
  ASSUME RInv, NEW p \in Provisions, Create(p)
  PROVE  RInv'
<1> USE Constants DEF Create, At, database, registry, callers, closing
<1>1. TypeOK'
  BY DEF RInv, TypeOK, Begun, Provided, Mapped, Held, Stages, Provisions, UnderWay
<1>2. Begun'
  BY DEF RInv, TypeOK, Begun, Provisions, Stages, UnderWay
<1>3. Provided'
  BY DEF RInv, TypeOK, Provided, Begun, Provisions, UnderWay
<1>4. Held'
  BY DEF RInv, TypeOK, Held, Mapped, Begun, Provisions
<1>5. Mapped'
  BY DEF RInv, TypeOK, Mapped, Begun, Provisions
<1>6. Unique'
  BY DEF RInv, TypeOK, Unique, Mapped, Begun, Alive, UnderWay, Provisions
<1>7. Awaited'
  BY DEF RInv, TypeOK, Awaited, Begun, Unique, Mapped, Drained, Alive, UnderWay, Provisions
<1>8. Drained'
  BY DEF RInv, Drained
<1> QED
  BY <1>1, <1>2, <1>3, <1>4, <1>5, <1>6, <1>7, <1>8 DEF RInv

LEMMA BootstrapRInv ==
  ASSUME RInv, NEW p \in Provisions, Bootstrap(p)
  PROVE  RInv'
<1> USE Constants DEF Bootstrap, At, database, registry, callers, closing
<1>1. TypeOK'
  BY DEF RInv, TypeOK, Begun, Provided, Mapped, Held, Stages, Provisions, UnderWay
<1>2. Begun'
  BY DEF RInv, TypeOK, Begun, Provisions, Stages, UnderWay
<1>3. Provided'
  BY DEF RInv, TypeOK, Provided, Begun, Provisions, UnderWay
<1>4. Held'
  BY DEF RInv, TypeOK, Held, Mapped, Begun, Provisions
<1>5. Mapped'
  BY DEF RInv, TypeOK, Mapped, Begun, Provisions
<1>6. Unique'
  BY DEF RInv, TypeOK, Unique, Mapped, Begun, Alive, UnderWay, Provisions
<1>7. Awaited'
  BY DEF RInv, TypeOK, Awaited, Begun, Unique, Mapped, Drained, Alive, UnderWay, Provisions
<1>8. Drained'
  BY DEF RInv, Drained
<1> QED
  BY <1>1, <1>2, <1>3, <1>4, <1>5, <1>6, <1>7, <1>8 DEF RInv

LEMMA SeedHingeRInv ==
  ASSUME RInv, NEW p \in Provisions, SeedHinge(p)
  PROVE  RInv'
<1> USE Constants DEF SeedHinge, At, database, registry, callers, closing
<1>1. TypeOK'
  BY DEF RInv, TypeOK, Begun, Provided, Mapped, Held, Stages, Provisions, UnderWay
<1>2. Begun'
  BY DEF RInv, TypeOK, Begun, Provisions, Stages, UnderWay
<1>3. Provided'
  BY DEF RInv, TypeOK, Provided, Begun, Provisions, UnderWay
<1>4. Held'
  BY DEF RInv, TypeOK, Held, Mapped, Begun, Provisions
<1>5. Mapped'
  BY DEF RInv, TypeOK, Mapped, Begun, Provisions
<1>6. Unique'
  BY DEF RInv, TypeOK, Unique, Mapped, Begun, Alive, UnderWay, Provisions
<1>7. Awaited'
  BY DEF RInv, TypeOK, Awaited, Begun, Unique, Mapped, Drained, Alive, UnderWay, Provisions
<1>8. Drained'
  BY DEF RInv, Drained
<1> QED
  BY <1>1, <1>2, <1>3, <1>4, <1>5, <1>6, <1>7, <1>8 DEF RInv

LEMMA FailRInv ==
  ASSUME RInv, NEW p \in Provisions, Fail(p)
  PROVE  RInv'
<1> USE Constants DEF Fail, Failing, At, Fault, database, registry, callers, closing
<1>1. TypeOK'
  BY DEF RInv, TypeOK, Begun, Provided, Mapped, Held, Stages, Provisions, UnderWay
<1>2. Begun'
  BY DEF RInv, TypeOK, Begun, Provisions, Stages, UnderWay
<1>3. Provided'
  BY DEF RInv, TypeOK, Provided, Begun, Provisions, UnderWay
<1>4. Held'
  <2>1. stage[p] \in UnderWay
    BY DEF UnderWay
  <2> SUFFICES ASSUME NEW b \in Callers, at[b] # "idle"
               PROVE  /\ using[b] \in Provisions /\ name[using[b]] = ProjectOf[b]
                      /\ at[b] # "waiting" => stage'[using[b]] = "ok"
    BY DEF Held
  <2>2. /\ using[b] \in Provisions /\ name[using[b]] = ProjectOf[b]
        /\ at[b] # "waiting" => stage[using[b]] = "ok"
    BY DEF RInv, Held
  <2> QED
    BY <2>1, <2>2 DEF RInv, TypeOK, UnderWay
<1>5. Mapped'
  BY DEF RInv, TypeOK, Mapped, Begun, Provisions
<1>6. Unique'
  BY DEF RInv, TypeOK, Unique, Mapped, Begun, Alive, UnderWay, Provisions
<1>7. Awaited'
  BY DEF RInv, TypeOK, Awaited, Begun, Unique, Mapped, Drained, Alive, UnderWay, Provisions
<1>8. Drained'
  BY DEF RInv, Drained
<1> QED
  BY <1>1, <1>2, <1>3, <1>4, <1>5, <1>6, <1>7, <1>8 DEF RInv

LEMMA SkipRInv ==
  ASSUME RInv, NEW p \in Provisions, Skip(p)
  PROVE  RInv'
<1> USE Constants DEF Skip, Due, database, registry, callers, closing
<1>1. TypeOK'
  BY DEF RInv, TypeOK, Begun, Provided, Mapped, Held, Stages, Provisions, UnderWay
<1>2. Begun'
  BY DEF RInv, TypeOK, Begun, Provisions, Stages, UnderWay
<1>3. Provided'
  BY DEF RInv, TypeOK, Provided, Begun, Provisions, UnderWay
<1>4. Held'
  BY DEF RInv, TypeOK, Held, Mapped, Begun, Provisions
<1>5. Mapped'
  BY DEF RInv, TypeOK, Mapped, Begun, Provisions
<1>6. Unique'
  BY DEF RInv, TypeOK, Unique, Mapped, Begun, Alive, UnderWay, Provisions
<1>7. Awaited'
  BY DEF RInv, TypeOK, Awaited, Begun, Unique, Mapped, Drained, Alive, UnderWay, Provisions
<1>8. Drained'
  BY DEF RInv, Drained
<1> QED
  BY <1>1, <1>2, <1>3, <1>4, <1>5, <1>6, <1>7, <1>8 DEF RInv

LEMMA EndRInv ==
  ASSUME RInv, NEW p \in Provisions, End(p)
  PROVE  RInv'
<1> USE Constants DEF End, Due, database, registry, callers, closing
<1>1. TypeOK'
  BY DEF RInv, TypeOK, Begun, Provided, Mapped, Held, Stages, Provisions, UnderWay
<1>2. Begun'
  BY DEF RInv, TypeOK, Begun, Provisions, Stages, UnderWay
<1>3. Provided'
  BY DEF RInv, TypeOK, Provided, Begun, Provisions, UnderWay
<1>4. Held'
  BY DEF RInv, TypeOK, Held, Mapped, Begun, Provisions
<1>5. Mapped'
  BY DEF RInv, TypeOK, Mapped, Begun, Provisions
<1>6. Unique'
  BY DEF RInv, TypeOK, Unique, Mapped, Begun, Alive, UnderWay, Provisions
<1>7. Awaited'
  BY DEF RInv, TypeOK, Awaited, Begun, Unique, Mapped, Drained, Alive, UnderWay, Provisions
<1>8. Drained'
  BY DEF RInv, Drained
<1> QED
  BY <1>1, <1>2, <1>3, <1>4, <1>5, <1>6, <1>7, <1>8 DEF RInv

LEMMA EndedRInv ==
  ASSUME RInv, NEW p \in Provisions, Ended(p)
  PROVE  RInv'
<1> USE Constants DEF Ended, Due, database, registry, callers, closing
<1>1. TypeOK'
  BY DEF RInv, TypeOK, Begun, Provided, Mapped, Held, Stages, Provisions, UnderWay
<1>2. Begun'
  BY DEF RInv, TypeOK, Begun, Provisions, Stages, UnderWay
<1>3. Provided'
  BY DEF RInv, TypeOK, Provided, Begun, Provisions, UnderWay
<1>4. Held'
  BY DEF RInv, TypeOK, Held, Mapped, Begun, Provisions
<1>5. Mapped'
  BY DEF RInv, TypeOK, Mapped, Begun, Provisions
<1>6. Unique'
  BY DEF RInv, TypeOK, Unique, Mapped, Begun, Alive, UnderWay, Provisions
<1>7. Awaited'
  BY DEF RInv, TypeOK, Awaited, Begun, Unique, Mapped, Drained, Alive, UnderWay, Provisions
<1>8. Drained'
  BY DEF RInv, Drained
<1> QED
  BY <1>1, <1>2, <1>3, <1>4, <1>5, <1>6, <1>7, <1>8 DEF RInv

LEMMA StopRInv ==
  ASSUME RInv, Stop
  PROVE  RInv'
<1> USE Constants DEF Stop, database, registry, callers, closing
<1>1. TypeOK'
  BY DEF RInv, TypeOK, Begun, Provided, Mapped, Held, Stages, Provisions, UnderWay
<1>2. Begun'
  BY DEF RInv, TypeOK, Begun, Provisions, Stages, UnderWay
<1>3. Provided'
  BY DEF RInv, TypeOK, Provided, Begun, Provisions, UnderWay
<1>4. Held'
  BY DEF RInv, TypeOK, Held, Mapped, Begun, Provisions
<1>5. Mapped'
  BY DEF RInv, TypeOK, Mapped, Begun, Provisions
<1>6. Unique'
  BY DEF RInv, TypeOK, Unique, Mapped, Begun, Alive, UnderWay, Provisions
<1>7. Awaited'
  BY DEF RInv, TypeOK, Awaited, Begun, Unique, Mapped, Drained, Alive, UnderWay, Provisions
<1>8. Drained'
  BY DEF RInv, Drained
<1> QED
  BY <1>1, <1>2, <1>3, <1>4, <1>5, <1>6, <1>7, <1>8 DEF RInv

LEMMA CloseAllRInv ==
  ASSUME RInv, CloseAll
  PROVE  RInv'
<1> USE Constants DEF CloseAll, database, registry, callers, closing
<1>1. TypeOK'
  BY DEF RInv, TypeOK, Begun, Provided, Mapped, Held, Stages, Provisions, UnderWay
<1>2. Begun'
  BY DEF RInv, TypeOK, Begun, Provisions, Stages, UnderWay
<1>3. Provided'
  BY DEF RInv, TypeOK, Provided, Begun, Provisions, UnderWay
<1>4. Held'
  BY DEF RInv, TypeOK, Held, Mapped, Begun, Provisions
<1>5. Mapped'
  BY DEF RInv, TypeOK, Mapped, Begun, Provisions
<1>6. Unique'
  BY DEF RInv, TypeOK, Unique, Mapped, Begun, Alive, UnderWay, Provisions
<1>7. Awaited'
  BY DEF RInv, TypeOK, Awaited, Begun, Unique, Mapped, Drained, Alive, UnderWay, Provisions
<1>8. Drained'
  BY DEF RInv, Drained
<1> QED
  BY <1>1, <1>2, <1>3, <1>4, <1>5, <1>6, <1>7, <1>8 DEF RInv

LEMMA EndBaseRInv ==
  ASSUME RInv, EndBase
  PROVE  RInv'
<1> USE Constants DEF EndBase, database, registry, callers, closing
<1>1. TypeOK'
  BY DEF RInv, TypeOK, Begun, Provided, Mapped, Held, Stages, Provisions, UnderWay
<1>2. Begun'
  BY DEF RInv, TypeOK, Begun, Provisions, Stages, UnderWay
<1>3. Provided'
  BY DEF RInv, TypeOK, Provided, Begun, Provisions, UnderWay
<1>4. Held'
  BY DEF RInv, TypeOK, Held, Mapped, Begun, Provisions
<1>5. Mapped'
  BY DEF RInv, TypeOK, Mapped, Begun, Provisions
<1>6. Unique'
  BY DEF RInv, TypeOK, Unique, Mapped, Begun, Alive, UnderWay, Provisions
<1>7. Awaited'
  BY DEF RInv, TypeOK, Awaited, Begun, Unique, Mapped, Drained, Alive, UnderWay, Provisions
<1>8. Drained'
  BY DEF RInv, Drained
<1> QED
  BY <1>1, <1>2, <1>3, <1>4, <1>5, <1>6, <1>7, <1>8 DEF RInv

LEMMA StoppedRInv ==
  ASSUME RInv, Stopped
  PROVE  RInv'
<1> USE Constants DEF Stopped, database, registry, callers, closing
<1>1. TypeOK'
  BY DEF RInv, TypeOK, Begun, Provided, Mapped, Held, Stages, Provisions, UnderWay
<1>2. Begun'
  BY DEF RInv, TypeOK, Begun, Provisions, Stages, UnderWay
<1>3. Provided'
  BY DEF RInv, TypeOK, Provided, Begun, Provisions, UnderWay
<1>4. Held'
  BY DEF RInv, TypeOK, Held, Mapped, Begun, Provisions
<1>5. Mapped'
  BY DEF RInv, TypeOK, Mapped, Begun, Provisions
<1>6. Unique'
  BY DEF RInv, TypeOK, Unique, Mapped, Begun, Alive, UnderWay, Provisions
<1>7. Awaited'
  BY DEF RInv, TypeOK, Awaited, Begun, Unique, Mapped, Drained, Alive, UnderWay, Provisions
<1>8. Drained'
  BY DEF RInv, Drained
<1> QED
  BY <1>1, <1>2, <1>3, <1>4, <1>5, <1>6, <1>7, <1>8 DEF RInv

LEMMA CrashRInv ==
  ASSUME RInv, Crash
  PROVE  RInv'
<1> USE Constants DEF Crash, Fault, database, registry, callers, closing
<1>1. TypeOK'
  BY DEF RInv, TypeOK, Begun, Provided, Mapped, Held, Stages, Provisions, UnderWay
<1>2. Begun'
  BY DEF RInv, TypeOK, Begun, Provisions, Stages, UnderWay
<1>3. Provided'
  BY DEF RInv, TypeOK, Provided, Begun, Provisions, UnderWay
<1>4. Held'
  BY DEF RInv, TypeOK, Held, Mapped, Begun, Provisions
<1>5. Mapped'
  BY DEF RInv, TypeOK, Mapped, Begun, Provisions
<1>6. Unique'
  BY DEF RInv, TypeOK, Unique, Mapped, Begun, Alive, UnderWay, Provisions
<1>7. Awaited'
  BY DEF RInv, TypeOK, Awaited, Begun, Unique, Mapped, Drained, Alive, UnderWay, Provisions
<1>8. Drained'
  BY DEF RInv, Drained
<1> QED
  BY <1>1, <1>2, <1>3, <1>4, <1>5, <1>6, <1>7, <1>8 DEF RInv

LEMMA ElsewhereRInv ==
  ASSUME RInv, NEW d \in Databases, Elsewhere(d)
  PROVE  RInv'
<1> USE Constants DEF Elsewhere, Fault, database, registry, callers, closing
<1>1. TypeOK'
  BY DEF RInv, TypeOK, Begun, Provided, Mapped, Held, Stages, Provisions, UnderWay
<1>2. Begun'
  BY DEF RInv, TypeOK, Begun, Provisions, Stages, UnderWay
<1>3. Provided'
  BY DEF RInv, TypeOK, Provided, Begun, Provisions, UnderWay
<1>4. Held'
  BY DEF RInv, TypeOK, Held, Mapped, Begun, Provisions
<1>5. Mapped'
  BY DEF RInv, TypeOK, Mapped, Begun, Provisions
<1>6. Unique'
  BY DEF RInv, TypeOK, Unique, Mapped, Begun, Alive, UnderWay, Provisions
<1>7. Awaited'
  BY DEF RInv, TypeOK, Awaited, Begun, Unique, Mapped, Drained, Alive, UnderWay, Provisions
<1>8. Drained'
  BY DEF RInv, Drained
<1> QED
  BY <1>1, <1>2, <1>3, <1>4, <1>5, <1>6, <1>7, <1>8 DEF RInv

LEMMA StepRInv == RInv /\ [Next]_vars => RInv'
<1> SUFFICES ASSUME RInv, [Next]_vars PROVE RInv'
  OBVIOUS
<1>1. CASE UNCHANGED vars
  BY <1>1 DEF RInv, TypeOK, Begun, Provided, Held, Mapped, Unique, Awaited, Drained,
    vars, database, registry, callers, closing
<1>2. CASE \E c \in Callers : Cached(c) \/ First(c) \/ Query(c) \/ Live(c)
  BY <1>2, CachedRInv, FirstRInv, QueryRInv, ServedRInv, RefusedRInv, AnsweredRInv, LeaveRInv DEF Live
<1>3. CASE \E p \in Provisions : Work(p)
  BY <1>3, LookupRInv, CreateRInv, BootstrapRInv, SeedHingeRInv, FailRInv DEF Work
<1>4. CASE Close
  BY <1>4, CloseAllRInv, EndBaseRInv, StoppedRInv, SkipRInv, EndRInv, EndedRInv DEF Close
<1>5. CASE Stop \/ Crash \/ \E d \in Databases : Elsewhere(d)
  BY <1>5, StopRInv, CrashRInv, ElsewhereRInv
<1> QED
  BY <1>1, <1>2, <1>3, <1>4, <1>5 DEF Next

LEMMA RegistryInvariant == Spec => []RInv
BY InitRInv, StepRInv, PTL DEF Spec

(* Databases, provisions, pools and callers stay in their types.            *)
THEOREM RegistryTypes == Spec => []TypeOK
<1>1. RInv => TypeOK
  BY DEF RInv
<1> QED
  BY <1>1, RegistryInvariant, PTL

(* A caller is served the pool of its own database, with schema and rows.   *)
THEOREM ServedReady == Spec => []ReadyWhenServed
<1>1. RInv => ReadyWhenServed
  <2> SUFFICES ASSUME RInv, NEW c \in Callers, at[c] \in {"using", "query"}
               PROVE  name[using[c]] = ProjectOf[c] /\ ProjectOf[c] \in ready
    BY DEF ReadyWhenServed
  <2>1. using[c] \in Provisions /\ name[using[c]] = ProjectOf[c] /\ stage[using[c]] = "ok"
    BY DEF RInv, Held
  <2> QED
    BY <2>1 DEF RInv, Provided
<1> QED
  BY <1>1, RegistryInvariant, PTL

(* Until stop() clears the map a database has one provision at most.        *)
THEOREM SingleFlight == Spec => []OnePool
<1>1. RInv => OnePool
  <2> SUFFICES ASSUME RInv, NEW p \in Provisions, NEW q \in Provisions,
                      stopping \in {"no", "http"}, name[p] = name[q],
                      {stage[p], stage[q]} \subseteq UnderWay \cup {"ok"}
               PROVE  p = q
    BY DEF OnePool
  <2>1. entry[name[p]] = p /\ entry[name[q]] = q
    BY DEF RInv, Unique, Alive
  <2> QED
    BY <2>1
<1> QED
  BY <1>1, RegistryInvariant, PTL

(* stop() leaves open only pools of failed provisions and of late callers.  *)
THEOREM NothingLeft == Spec => []StopLeavesNothing
<1>1. RInv => StopLeavesNothing
  <2> SUFFICES ASSUME RInv, stopping \in {"base", "stopped"}, NEW p \in Provisions,
                      pool[p] # "none", stage[p] # "failed"
               PROVE  pool[p] = "ended" \/ p \in late
    BY DEF StopLeavesNothing
  <2>1. stage[p] \in {"bootstrap", "seed", "ok"}
    BY DEF RInv, TypeOK, Begun, Stages
  <2> QED
    BY <2>1 DEF RInv, Awaited, Drained, Alive, UnderWay
<1> QED
  BY <1>1, RegistryInvariant, PTL

=============================================================================
