-------------------------- MODULE TeamConvertProofs --------------------------
(***************************************************************************)
(* A project changes over only when what the verification counted here has  *)
(* arrived there.  A count proves that because, as long as nothing is       *)
(* deleted here, the destination can only hold rows that this side had:     *)
(* every row on its way, also in an import that nobody waits for any more,  *)
(* is a row of the local database, and those that can still arrive while a  *)
(* table is being counted were counted here before.  A subset of equal      *)
(* cardinality is the whole set.                                            *)
(***************************************************************************)
EXTENDS TeamConvert, FiniteSetTheorems, TLAPS

LEMMA RowSets ==
  ASSUME NEW S \in SUBSET Rows
  PROVE  IsFiniteSet(S) /\ Cardinality(S) \in 0..MaxRows
<1>1. MaxRows \in Nat
  BY ConvertAssumption
<1>2. IsFiniteSet(Rows) /\ Cardinality(Rows) = MaxRows
  BY <1>1, FS_Interval DEF Rows
<1>3. IsFiniteSet(S) /\ Cardinality(S) <= MaxRows
  BY <1>2, FS_Subset
<1> QED
  BY <1>1, <1>3, FS_CardinalityType

(* What an import can become is an import.                                  *)
LEMMA ProgressTypes ==
  ASSUME NEW x \in Imports, NEW y \in Progress(x)
  PROVE  y \in Imports /\ y.batch = x.batch
BY DEF Progress, At, Without, Import, Imports

LEMMA NoImportType == NoImport \in Imports
BY ConvertAssumption DEF NoImport, Import, Imports, Tokens, Tables

LEMMA ImportStepTypes ==
  ASSUME TypeOK, NEW x \in Imports, NEW y \in Progress(x), ImportStep(x, y)
  PROVE  remote' \subseteq Rows /\ tokens' \subseteq Tokens
<1>1. CASE Receive(x, y)
  BY <1>1 DEF Receive, TypeOK
<1>2. CASE InsertRow(x, y)
  BY <1>2 DEF InsertRow, TypeOK, Imports
<1>3. CASE RecordToken(x, y)
  BY <1>3 DEF RecordToken, TypeOK, Imports
<1> QED
  BY <1>1, <1>2, <1>3 DEF ImportStep

LEMMA InitTypes == Init => TypeOK
<1> SUFFICES ASSUME Init PROVE TypeOK
  OBVIOUS
<1>1. 1 \in Tables /\ 0 \in 0..MaxRows /\ 0 \in 0..MaxFaults /\ NoImport.batch = {}
  BY ConvertAssumption DEF Tables, NoImport, Import
<1> QED
  BY <1>1, NoImportType DEF Init, TypeOK, PCs

LEMMA StepTypes == TypeOK /\ [Next]_vars => TypeOK'
<1> SUFFICES ASSUME TypeOK, [Next]_vars PROVE TypeOK'
  OBVIOUS
<1>0. MaxRows \in Nat /\ MaxFaults \in Nat /\ NTables \in Nat \ {0} /\ 1 \in Tables
       /\ NoImport \in Imports /\ NoImport.batch = {} /\ NoImport.phase = "none"
       /\ TRUE \in BOOLEAN /\ FALSE \in BOOLEAN
  BY ConvertAssumption, NoImportType DEF Tables, NoImport, Import
<1>1. CASE \E transport \in {"https", "direct"} : Start(transport)
  BY <1>0, <1>1 DEF TypeOK, Start, Goto, PCs, rowsets, project, copying, counts, imports, history
<1>2. CASE readRows
  BY <1>0, <1>2 DEF TypeOK, readRows, Goto, PCs, Of, rowsets, project, copying, counts, imports, history
<1>3. CASE Applied
  BY <1>0, <1>3 DEF TypeOK, Applied, Goto, PCs, Tables, rowsets, project, copying, counts, imports, history
<1>4. CASE Refused
  BY <1>0, <1>4 DEF TypeOK, Refused, End, Forget, Goto, PCs, Tables, rowsets, project, copying, counts, imports, history
<1>5. CASE NextTable
  BY <1>0, <1>5 DEF TypeOK, NextTable, Goto, PCs, Tables, rowsets, project, copying, counts, imports, history
<1>6. CASE \E B \in SUBSET Rows : upsertRows(B)
  <2>1. PICK B \in SUBSET Rows : upsertRows(B)
    BY <1>6
  <2>2. batchToken(B) \in Tokens
    BY RowSets, <1>0 DEF TypeOK, batchToken, Tokens
  <2>3. request' \in Imports
    BY <2>1, <2>2 DEF upsertRows, Import, Imports
  <2>4. request'.batch = B
    BY <2>1 DEF upsertRows, Import
  <2> QED
    BY <2>1, <2>3, <2>4 DEF TypeOK, upsertRows, Goto, PCs, rowsets, project, copying, counts, imports, history
<1>7. CASE countLocal
  BY <1>0, <1>7 DEF TypeOK, countLocal, Goto, PCs, Of, rowsets, project, copying, counts, imports, history
<1>8. CASE countRemote
  BY <1>0, <1>8 DEF TypeOK, countRemote, Goto, PCs, Fetched, Tables, rowsets, project, copying, counts, imports, history
<1>9. CASE Mismatch
  BY <1>0, <1>9 DEF TypeOK, Mismatch, End, Forget, Goto, PCs, Tables, rowsets, project, copying, counts, imports, history
<1>10. CASE Verified
  BY <1>0, <1>10 DEF TypeOK, Verified, Forget, Goto, PCs, Tables, rowsets, project, copying, counts, imports, history
<1>11. CASE recordPendingJoin
  BY <1>0, <1>11 DEF TypeOK, recordPendingJoin, Goto, PCs, rowsets, project, copying, counts, imports, history
<1>12. CASE Flip
  BY <1>0, <1>12 DEF TypeOK, Flip, End, Forget, Goto, PCs, Tables, rowsets, project, copying, counts, imports, history
<1>13. CASE NoFlip
  <2>1. faults' \in 0..MaxFaults
    BY <1>0, <1>13 DEF TypeOK, NoFlip, Fault
  <2> QED
    BY <1>0, <1>13, <2>1 DEF TypeOK, NoFlip, End, Forget, Goto, PCs, rowsets, project, copying, counts, imports, history
<1>14. CASE clearPendingJoin
  BY <1>0, <1>14 DEF TypeOK, clearPendingJoin, End, Forget, Goto, PCs, Tables, rowsets, project, copying, counts, imports, history
<1>15. CASE GiveUp
  <2>1. faults' \in 0..MaxFaults
    BY <1>0, <1>15 DEF TypeOK, GiveUp, Fault
  <2>2. strays' \subseteq Imports
    BY <1>15 DEF TypeOK, GiveUp
  <2> QED
    BY <1>0, <1>15, <2>1, <2>2 DEF TypeOK, GiveUp, End, Forget, Goto, PCs, rowsets, project, copying, counts, imports, history
<1>16. CASE Work
  <2>1. PICK y \in Progress(request) : ImportStep(request, y) /\ request' = y
    BY <1>16 DEF Work
  <2>2. request' \in Imports /\ request'.batch = request.batch /\ remote' \subseteq Rows /\ tokens' \subseteq Tokens
    BY <2>1, ProgressTypes, ImportStepTypes DEF TypeOK
  <2>3. pc = "wait"
    BY <2>1, <1>0 DEF TypeOK, ImportStep, Receive, InsertRow, RecordToken
  <2> QED
    BY <1>16, <2>2, <2>3 DEF TypeOK, Work, rowsets, project, copying, counts, imports, history
<1>17. CASE ImportFails
  BY <1>0, <1>17 DEF TypeOK, ImportFails, Fault, At, Import, Imports, rowsets, project, copying, counts, imports, history
<1>18. CASE \E x \in strays : Stray(x)
  <2>1. PICK x \in strays : Stray(x)
    BY <1>18
  <2>2. x \in Imports
    BY DEF TypeOK
  <2>3. strays' \subseteq Imports /\ remote' \subseteq Rows /\ tokens' \subseteq Tokens
    <3>1. CASE strays' = strays \ {x} /\ UNCHANGED <<remote, tokens>>
      BY <3>1 DEF TypeOK
    <3>2. CASE \E y \in Progress(x) :
                 /\ ImportStep(x, y)
                 /\ strays' = (strays \ {x}) \cup (IF y.phase = "ok" THEN {} ELSE {y})
      BY <3>2, <2>2, ProgressTypes, ImportStepTypes DEF TypeOK
    <3> QED
      BY <2>1, <3>1, <3>2 DEF Stray
  <2> QED
    BY <2>1, <2>3 DEF TypeOK, Stray, rowsets, project, copying, counts, imports, history
<1>19. CASE SessionStart
  <2>1. faults' \in 0..MaxFaults
    BY <1>0, <1>19 DEF TypeOK, SessionStart, Fault
  <2>2. path' \in BOOLEAN /\ note' \in BOOLEAN /\ runtime' \in {"local", "server"}
    BY <1>0, <1>19 DEF TypeOK, SessionStart
  <2> QED
    BY <1>19, <2>1, <2>2 DEF TypeOK, SessionStart, others, rowsets, project, copying, counts, imports, history
<1>20. CASE Capture
  <2>1. captured' \in 0..MaxRows /\ captured' \in Rows
    BY <1>0, <1>20 DEF TypeOK, Capture, Rows
  <2>2. local' \subseteq Rows /\ remote' \subseteq Rows
    BY <1>20, <2>1 DEF TypeOK, Capture
  <2> QED
    BY <1>20, <2>1, <2>2 DEF TypeOK, Capture, others, rowsets, project, copying, counts, imports, history
<1>21. CASE \E r \in Rows : ForgetLocal(r)
  BY <1>0, <1>21 DEF TypeOK, ForgetLocal, others, Fault, rowsets, project, copying, counts, imports, history
<1>22. CASE \E r \in Rows : ForgetRemote(r)
  BY <1>0, <1>22 DEF TypeOK, ForgetRemote, others, Fault, rowsets, project, copying, counts, imports, history
<1>23. CASE UNCHANGED vars
  BY <1>0, <1>23 DEF TypeOK, vars, rowsets, project, copying, counts, imports, history
<1> QED
  BY <1>1, <1>2, <1>3, <1>4, <1>5, <1>6, <1>7, <1>8, <1>9, <1>10, <1>11, <1>12, <1>13, <1>14, <1>15, <1>16, <1>17, <1>18, <1>19, <1>20, <1>21, <1>22, <1>23 DEF Next, Copy, Finish

(* Rows, counts, imports and the project's state stay in their types for    *)
(* any number of rows, tables and faults.                                   *)
THEOREM ConvertTypes == Spec => []TypeOK
BY InitTypes, StepTypes, PTL DEF Spec

-----------------------------------------------------------------------------
(* Until the project changes over and unless memories are deleted here ...  *)
Undisturbed == runtime = "local" /\ forgotten = {}

(* ... every row in the destination, or on its way, is a row of this side;  *)
NothingForeign ==
  Undisturbed => /\ remote \cup far \cup read \cup request.rows \subseteq local
                 /\ \A x \in strays : x.rows \subseteq local

(* what a table has there, or can still get, was counted here before;       *)
CountedBefore ==
  Undisturbed /\ pc = "remote" =>
    /\ Of(table, remote \cup far) \subseteq seen
    /\ \A x \in strays : Of(table, x.rows) \subseteq seen

(* and tables that were found equal have arrived.                           *)
EqualArrived ==
  Undisturbed =>
    /\ far \cup vouched \subseteq remote \cup gone
    /\ ~bad => checked \subseteq remote \cup gone

CInv == NothingForeign /\ CountedBefore /\ EqualArrived

(* Equal counts of a set and a subset of it.                                *)
LEMMA EqualMeansSame ==
  ASSUME TypeOK, CInv, Undisturbed, pc = "remote", Equal
  PROVE  seen \subseteq remote \cup gone
<1>1. Of(table, Fetched) \subseteq seen
  BY DEF CInv, CountedBefore, Fetched, Of
<1>2. IsFiniteSet(seen)
  BY RowSets DEF TypeOK
<1>3. Cardinality(seen) = Cardinality(Of(table, Fetched))
  BY DEF Equal
<1>4. seen = Of(table, Fetched)
  BY <1>1, <1>2, <1>3, FS_Subset
<1>5. Fetched \subseteq remote \cup gone
  BY DEF CInv, EqualArrived, Fetched
<1> QED
  BY <1>4, <1>5 DEF Of

(* What an import puts into the destination is one of the rows it had left. *)
LEMMA ImportStepRows ==
  ASSUME NEW x \in Imports, NEW y \in Progress(x), ImportStep(x, y)
  PROVE  /\ y.rows \subseteq x.rows
         /\ remote \subseteq remote' /\ remote' \subseteq remote \cup x.rows
BY DEF Progress, At, Without, Import, ImportStep, Receive, InsertRow, RecordToken

LEMMA InitCInv == Init => CInv
BY DEF Init, CInv, NothingForeign, CountedBefore, EqualArrived, NoImport, Import

LEMMA StepCInv == TypeOK /\ CInv /\ [Next]_vars => CInv'
<1> SUFFICES ASSUME TypeOK, CInv, [Next]_vars PROVE CInv'
  OBVIOUS
<1>0. NoImport.rows = {} /\ NoImport.batch = {} /\ (pc # "wait" => request = NoImport)
  BY DEF NoImport, Import, TypeOK
<1>1. CASE \E transport \in {"https", "direct"} : Start(transport)
  BY <1>0, <1>1 DEF Start, Goto, Of, CInv, NothingForeign, CountedBefore, EqualArrived, Undisturbed, rowsets, project, copying, counts, imports, history
<1>2. CASE readRows
  BY <1>0, <1>2 DEF readRows, Goto, Of, CInv, NothingForeign, CountedBefore, EqualArrived, Undisturbed, rowsets, project, copying, counts, imports, history
<1>3. CASE Applied
  BY <1>0, <1>3 DEF Applied, Goto, Of, CInv, NothingForeign, CountedBefore, EqualArrived, Undisturbed, rowsets, project, copying, counts, imports, history
<1>4. CASE Refused
  BY <1>0, <1>4 DEF Refused, End, Forget, Goto, Of, CInv, NothingForeign, CountedBefore, EqualArrived, Undisturbed, rowsets, project, copying, counts, imports, history
<1>5. CASE NextTable
  BY <1>0, <1>5 DEF NextTable, Goto, Of, CInv, NothingForeign, CountedBefore, EqualArrived, Undisturbed, rowsets, project, copying, counts, imports, history
<1>6. CASE \E B \in SUBSET Rows : upsertRows(B)
  <2>1. PICK B \in SUBSET Rows : upsertRows(B)
    BY <1>6
  <2>2. request'.rows = B /\ B \subseteq read
    BY <2>1 DEF upsertRows, Import
  <2> QED
    BY <2>1, <2>2 DEF upsertRows, Goto, Of, CInv, NothingForeign, CountedBefore, EqualArrived, Undisturbed, rowsets, project, copying, counts, imports, history
<1>7. CASE countLocal
  BY <1>0, <1>7 DEF countLocal, Goto, Of, CInv, NothingForeign, CountedBefore, EqualArrived, Undisturbed, rowsets, project, copying, counts, imports, history
<1>8. CASE countRemote
  <2>1. Undisturbed /\ Equal => seen \subseteq remote \cup gone
    BY <1>8, EqualMeansSame DEF countRemote
  <2> QED
    BY <1>0, <1>8, <2>1 DEF countRemote, Goto, Fetched, Of, CInv, NothingForeign, CountedBefore, EqualArrived, Undisturbed, rowsets, project, copying, counts, imports, history
<1>9. CASE Mismatch
  BY <1>0, <1>9 DEF Mismatch, End, Forget, Goto, Of, CInv, NothingForeign, CountedBefore, EqualArrived, Undisturbed, rowsets, project, copying, counts, imports, history
<1>10. CASE Verified
  <2>1. Undisturbed /\ Equal => seen \subseteq remote \cup gone
    BY <1>10, EqualMeansSame DEF Verified
  <2> QED
    BY <1>0, <1>10, <2>1 DEF Verified, Forget, Goto, Of, CInv, NothingForeign, CountedBefore, EqualArrived, Undisturbed, rowsets, project, copying, counts, imports, history
<1>11. CASE recordPendingJoin
  BY <1>0, <1>11 DEF recordPendingJoin, Goto, Of, CInv, NothingForeign, CountedBefore, EqualArrived, Undisturbed, rowsets, project, copying, counts, imports, history
<1>12. CASE Flip
  BY <1>0, <1>12 DEF Flip, End, Forget, Goto, Of, CInv, NothingForeign, CountedBefore, EqualArrived, Undisturbed, rowsets, project, copying, counts, imports, history
<1>13. CASE NoFlip
  BY <1>0, <1>13 DEF NoFlip, End, Forget, Goto, Fault, Of, CInv, NothingForeign, CountedBefore, EqualArrived, Undisturbed, rowsets, project, copying, counts, imports, history
<1>14. CASE clearPendingJoin
  BY <1>0, <1>14 DEF clearPendingJoin, End, Forget, Goto, Of, CInv, NothingForeign, CountedBefore, EqualArrived, Undisturbed, rowsets, project, copying, counts, imports, history
<1>15. CASE GiveUp
  BY <1>0, <1>15 DEF GiveUp, End, Forget, Goto, Fault, Of, CInv, NothingForeign, CountedBefore, EqualArrived, Undisturbed, rowsets, project, copying, counts, imports, history
<1>16. CASE Work
  <2>1. PICK y \in Progress(request) : ImportStep(request, y) /\ request' = y
    BY <1>16 DEF Work
  <2>2. pc = "wait"
    BY <2>1, <1>0 DEF ImportStep, Receive, InsertRow, RecordToken, NoImport, Import
  <2>3. /\ request'.rows \subseteq request.rows
        /\ remote \subseteq remote' /\ remote' \subseteq remote \cup request.rows
    BY <2>1, ImportStepRows DEF TypeOK
  <2> QED
    BY <1>16, <2>2, <2>3 DEF Work, CInv, NothingForeign, CountedBefore, EqualArrived, Undisturbed, rowsets, project, copying, counts, imports, history
<1>17. CASE ImportFails
  BY <1>0, <1>17 DEF ImportFails, Fault, At, Import, Imports, Of, CInv, NothingForeign, CountedBefore, EqualArrived, Undisturbed, rowsets, project, copying, counts, imports, history
<1>18. CASE \E x \in strays : Stray(x)
  <2>1. PICK x \in strays : Stray(x)
    BY <1>18
  <2>2. /\ remote \subseteq remote' /\ remote' \subseteq remote \cup x.rows
        /\ \A z \in strays' : z \in strays \/ z.rows \subseteq x.rows
    <3>1. CASE strays' = strays \ {x} /\ UNCHANGED <<remote, tokens>>
      BY <3>1
    <3>2. CASE \E y \in Progress(x) :
                 /\ ImportStep(x, y)
                 /\ strays' = (strays \ {x}) \cup (IF y.phase = "ok" THEN {} ELSE {y})
      BY <3>2, ImportStepRows DEF TypeOK
    <3> QED
      BY <2>1, <3>1, <3>2 DEF Stray
  <2> QED
    BY <2>1, <2>2 DEF Stray, Of, CInv, NothingForeign, CountedBefore, EqualArrived, Undisturbed, rowsets, project, copying, counts, imports, history
<1>19. CASE SessionStart
  BY <1>0, <1>19 DEF SessionStart, others, Fault, Of, CInv, NothingForeign, CountedBefore, EqualArrived, Undisturbed, rowsets, project, copying, counts, imports, history
<1>20. CASE Capture
  BY <1>0, <1>20 DEF Capture, others, Of, CInv, NothingForeign, CountedBefore, EqualArrived, Undisturbed, rowsets, project, copying, counts, imports, history
<1>21. CASE \E r \in Rows : ForgetLocal(r)
  BY <1>0, <1>21 DEF ForgetLocal, others, Fault, Of, CInv, NothingForeign, CountedBefore, EqualArrived, Undisturbed, rowsets, project, copying, counts, imports, history
<1>22. CASE \E r \in Rows : ForgetRemote(r)
  BY <1>0, <1>22 DEF ForgetRemote, others, Fault, Of, CInv, NothingForeign, CountedBefore, EqualArrived, Undisturbed, rowsets, project, copying, counts, imports, history
<1>23. CASE UNCHANGED vars
  BY <1>0, <1>23 DEF vars, Of, CInv, NothingForeign, CountedBefore, EqualArrived, Undisturbed, rowsets, project, copying, counts, imports, history
<1> QED
  BY <1>1, <1>2, <1>3, <1>4, <1>5, <1>6, <1>7, <1>8, <1>9, <1>10, <1>11, <1>12, <1>13, <1>14, <1>15, <1>16, <1>17, <1>18, <1>19, <1>20, <1>21, <1>22, <1>23 DEF Next, Copy, Finish

(* The flip is gated on the counts, and equal counts mean that every row    *)
(* counted here is there or was deleted there.                              *)
THEOREM FlipsComplete == Spec => FlipIsComplete
<1>1. CInv => (Flipping /\ forgotten = {} => Arrived(vouched))
  BY DEF CInv, EqualArrived, Undisturbed, Flipping, Arrived
<1> QED
  BY <1>1, InitTypes, StepTypes, InitCInv, StepCInv, PTL DEF Spec, FlipIsComplete

-----------------------------------------------------------------------------
(* A token names a batch by its place: table, offset and length.  As long   *)
(* as rows are sent in the order of their capture and none is deleted here, *)
(* a place in the table stays where it is, whatever is captured meanwhile.  *)
Steady == ~shuffled /\ forgotten = {}

Prefix(P, S) == P \subseteq S /\ \A p \in P : \A q \in S \ P : p < q

Names(token, B) ==
  \E P \in SUBSET Rows :
    /\ Prefix(P, Of(token[1], local)) /\ Prefix(P \cup B, Of(token[1], local))
    /\ P \cap B = {} /\ Cardinality(P) = token[2] /\ Cardinality(B) = token[3]

InCaptureOrder == \A r \in local : r <= captured

(* What was read, sent and is on its way begins the table.                  *)
SentInOrder ==
  Steady /\ pc \in {"send", "wait"} =>
    /\ Prefix(read, Of(table, local)) /\ Prefix(sent, Of(table, local))
    /\ pc = "wait" => /\ Prefix(sent \cup request.batch, Of(table, local))
                      /\ sent \cap request.batch = {}
                      /\ request.token = batchToken(request.batch)

(* An import carries the batch that its token names, and what it has        *)
(* inserted of it has arrived,                                              *)
HonestImport(x) == Names(x.token, x.batch) /\ Arrived(x.batch \ x.rows)

ImportsHonest ==
  Steady => /\ pc = "wait" => HonestImport(request)
            /\ \A x \in strays : HonestImport(x)

(* and so has what a recorded token names.                                  *)
TokensHonest ==
  Steady => \A t \in tokens : \E B \in SUBSET Rows : Names(t, B) /\ Arrived(B)

SkipInv == InCaptureOrder /\ SentInOrder /\ ImportsHonest /\ TokensHonest

-----------------------------------------------------------------------------
(* A beginning of a set is given by its length, a place by two beginnings.  *)
LEMMA PrefixUnique ==
  ASSUME NEW S \in SUBSET Rows, NEW P, NEW Q, Prefix(P, S), Prefix(Q, S),
         Cardinality(P) = Cardinality(Q)
  PROVE  P = Q
<1>1. IsFiniteSet(P) /\ IsFiniteSet(Q) /\ S \subseteq Int
  BY RowSets DEF Prefix, Rows
<1>2. P \subseteq Q \/ Q \subseteq P
  <2> SUFFICES ASSUME NEW p \in P \ Q, NEW q \in Q \ P PROVE FALSE
    OBVIOUS
  <2>1. p \in Int /\ q \in Int /\ p < q /\ q < p
    BY <1>1 DEF Prefix
  <2> QED BY <2>1
<1> QED BY <1>1, <1>2, FS_Subset

LEMMA OneBatchPerToken ==
  ASSUME NEW t, NEW A \in SUBSET Rows, NEW B \in SUBSET Rows, Names(t, A), Names(t, B),
         local \subseteq Rows
  PROVE  A = B
<1> DEFINE S == Of(t[1], local)
<1>1. PICK P \in SUBSET Rows : /\ Prefix(P, S) /\ Prefix(P \cup A, S) /\ P \cap A = {}
                               /\ Cardinality(P) = t[2] /\ Cardinality(A) = t[3]
  BY DEF Names
<1>2. PICK Q \in SUBSET Rows : /\ Prefix(Q, S) /\ Prefix(Q \cup B, S) /\ Q \cap B = {}
                               /\ Cardinality(Q) = t[2] /\ Cardinality(B) = t[3]
  BY DEF Names
<1>3. S \in SUBSET Rows
  BY DEF Of
<1>4. P = Q
  BY <1>1, <1>2, <1>3, PrefixUnique
<1>5. Cardinality(P \cup A) = Cardinality(Q \cup B)
  <2>1. /\ IsFiniteSet(P) /\ IsFiniteSet(A) /\ Cardinality(P \cap A) = 0
        /\ IsFiniteSet(Q) /\ IsFiniteSet(B) /\ Cardinality(Q \cap B) = 0
    BY <1>1, <1>2, RowSets, FS_EmptySet
  <2>2. /\ Cardinality(P \cup A) = Cardinality(P) + Cardinality(A) - Cardinality(P \cap A)
        /\ Cardinality(Q \cup B) = Cardinality(Q) + Cardinality(B) - Cardinality(Q \cap B)
    BY <2>1, FS_Union
  <2> QED BY <1>1, <1>2, <2>1, <2>2
<1>6. P \cup A = Q \cup B
  BY <1>1, <1>2, <1>3, <1>5, PrefixUnique
<1> QED BY <1>1, <1>2, <1>4, <1>6

-----------------------------------------------------------------------------
(* What any step leaves of the rows: only a capture adds one, the latest.   *)
LEMMA RowsMove ==
  ASSUME TypeOK, [Next]_vars
  PROVE  /\ \/ captured' = captured /\ local' = local
            \/ captured' = captured + 1 /\ local' \in {local, local \cup {captured'}}
            \/ captured' = captured /\ local' \subseteq local /\ forgotten' # {}
         /\ forgotten \subseteq forgotten' /\ (shuffled => shuffled')
         /\ remote \cup gone \subseteq remote' \cup gone'
<1> USE DEF rowsets, project, copying, counts, imports, history, others, vars
<1>1. CASE Work
  <2>1. PICK y \in Progress(request) : ImportStep(request, y)
    BY <1>1 DEF Work
  <2> QED BY <1>1, <2>1, ImportStepRows DEF Work, TypeOK
<1>2. ASSUME NEW x \in strays, Stray(x) PROVE remote \subseteq remote'
  BY <1>2, ImportStepRows DEF Stray, TypeOK
<1>3. CASE \E x \in strays : Stray(x)
  BY <1>2, <1>3 DEF Stray
<1>4. CASE Capture
  BY <1>4 DEF Capture
<1>5. CASE \E r \in Rows : ForgetLocal(r) \/ ForgetRemote(r)
  BY <1>5 DEF ForgetLocal, ForgetRemote
<1>6. CASE Copy
  <2>1. CASE readRows \/ Applied \/ Refused \/ NextTable
    BY <2>1 DEF readRows, Applied, Refused, NextTable
  <2>2. ASSUME NEW B, upsertRows(B)
        PROVE  UNCHANGED <<rowsets, gone, forgotten>> /\ (shuffled => shuffled')
    BY <2>2 DEF upsertRows
  <2> QED BY <1>6, <2>1, <2>2 DEF Copy
<1>7. CASE Finish
  BY <1>7 DEF Finish, countLocal, countRemote, Mismatch, Verified, recordPendingJoin,
     Flip, NoFlip, clearPendingJoin
<1>8. CASE \/ \E transport \in {"https", "direct"} : Start(transport)
           \/ GiveUp \/ ImportFails \/ SessionStart \/ UNCHANGED vars
  BY <1>8 DEF Start, GiveUp, ImportFails, SessionStart
<1> QED BY <1>1, <1>3, <1>4, <1>5, <1>6, <1>7, <1>8 DEF Next

(* So a beginning stays one, a token goes on naming its batch and what      *)
(* arrived has arrived.                                                     *)
LEMMA PlacesStay ==
  ASSUME TypeOK, InCaptureOrder, [Next]_vars, Steady'
  PROVE  /\ Steady
         /\ \A t, P : Prefix(P, Of(t, local)) => Prefix(P, Of(t, local'))
         /\ \A t, B : Names(t, B) => Names(t, B)'
         /\ \A B : Arrived(B) => Arrived(B)'
<1>1. Steady /\ (local' = local \/ local' = local \cup {captured + 1})
  BY RowsMove DEF Steady
<1>2. \A r \in local : r \in Int /\ captured \in Int /\ r < captured + 1
  BY DEF TypeOK, InCaptureOrder, Rows
<1>3. ASSUME NEW t, NEW P, Prefix(P, Of(t, local)) PROVE Prefix(P, Of(t, local'))
  BY <1>1, <1>2, <1>3 DEF Prefix, Of
<1>4. \A t, B : Names(t, B) => Names(t, B)'
  BY <1>3 DEF Names
<1>5. \A B : Arrived(B) => Arrived(B)'
  BY RowsMove DEF Arrived
<1> QED BY <1>1, <1>3, <1>4, <1>5

LEMMA CaptureOrderKept ==
  ASSUME TypeOK, InCaptureOrder, [Next]_vars PROVE InCaptureOrder'
<1>1. captured \in Int /\ \A r \in local : r \in Int
  BY DEF TypeOK, Rows
<1> QED BY <1>1, RowsMove DEF InCaptureOrder

(* The steps that send: what comes next extends the beginning that was sent. *)
LEMMA SentKept ==
  ASSUME TypeOK, SkipInv, [Next]_vars, Steady', pc' \in {"send", "wait"}
  PROVE  SentInOrder'
<1> USE DEF rowsets, project, copying, counts, imports, history, others, vars, Goto
<1>0. /\ Steady /\ SentInOrder
      /\ \A t, P : Prefix(P, Of(t, local)) => Prefix(P, Of(t, local'))
  BY PlacesStay DEF SkipInv
<1>1. ASSUME UNCHANGED <<pc, table, read, sent>>,
             pc = "wait" => request'.batch = request.batch /\ request'.token = request.token
      PROVE  SentInOrder'
  BY <1>0, <1>1 DEF SentInOrder, batchToken
<1>2. CASE readRows
  <2>1. Prefix(Of(table, local), Of(table, local)) /\ Prefix({}, Of(table, local))
    BY DEF Prefix
  <2> QED BY <1>2, <2>1 DEF readRows, SentInOrder
<1>3. ASSUME NEW B \in SUBSET Rows, upsertRows(B) PROVE SentInOrder'
  <2> DEFINE S == Of(table, local)
  <2>1. Prefix(read, S) /\ Prefix(sent, S) /\ B \subseteq read \ sent /\ InOrder(B, read \ sent)
    BY <1>0, <1>3 DEF upsertRows, SentInOrder, Steady, TypeOK
  <2>2. Prefix(sent \cup B, S)
    BY <2>1 DEF Prefix, InOrder
  <2>3. request'.batch = B /\ request'.token = batchToken(B)
    BY <1>3 DEF upsertRows, Import
  <2> QED BY <1>3, <2>1, <2>2, <2>3 DEF upsertRows, SentInOrder, batchToken
<1>4. CASE Applied
  BY <1>0, <1>4 DEF Applied, SentInOrder
<1>5. CASE Work
  <2>1. PICK y \in Progress(request) : request' = y
    BY <1>5 DEF Work
  <2>2. request'.batch = request.batch /\ request'.token = request.token
    BY <2>1 DEF Progress, At, Without, Import
  <2> QED BY <1>1, <1>5, <2>2 DEF Work
<1>6. CASE ImportFails
  BY <1>1, <1>6 DEF ImportFails, At, Import
<1>7. ASSUME NEW x \in strays, Stray(x) PROVE SentInOrder'
  BY <1>1, <1>7 DEF Stray
<1>8. CASE \/ SessionStart \/ Capture \/ \E r \in Rows : ForgetLocal(r) \/ ForgetRemote(r)
           \/ UNCHANGED vars
  BY <1>1, <1>8 DEF SessionStart, Capture, ForgetLocal, ForgetRemote
<1>9. CASE \/ \E transport \in {"https", "direct"} : Start(transport)
           \/ Refused \/ NextTable \/ GiveUp
  BY <1>9 DEF Start, Refused, NextTable, GiveUp, End
<1>10. CASE Finish
  BY <1>10 DEF Finish, countLocal, countRemote, Mismatch, Verified, recordPendingJoin,
     Flip, NoFlip, clearPendingJoin, End
<1> QED BY <1>2, <1>3, <1>4, <1>5, <1>6, <1>7, <1>8, <1>9, <1>10 DEF Next, Copy

(* An honest import stays honest, and the token it records is.              *)
LEMMA HonestStep ==
  ASSUME TypeOK, NEW x \in Imports, NEW y \in Progress(x), ImportStep(x, y),
         HonestImport(x), UNCHANGED <<local, gone>>
  PROVE  /\ HonestImport(y)'
         /\ \A t \in tokens' \ tokens : Names(t, x.batch)' /\ Arrived(x.batch)'
<1>0. /\ \A t, B : Names(t, B)' <=> Names(t, B)
      /\ remote \subseteq remote' /\ gone' = gone
  BY ImportStepRows DEF Names
<1>1. y.batch = x.batch /\ y.token = x.token
  BY DEF Progress, At, Without, Import
<1>2. x.batch \ y.rows \subseteq remote' \cup gone
  <2>1. CASE y.rows = x.rows
    BY <1>0, <2>1 DEF HonestImport, Arrived
  <2>2. ASSUME NEW r \in x.rows, remote' = remote \cup {r}, y = Without(x, r) PROVE x.batch \ y.rows \subseteq remote' \cup gone
    BY <2>2 DEF HonestImport, Arrived, Without, Import
  <2> QED BY <2>1, <2>2 DEF ImportStep, Receive, InsertRow, RecordToken, At, Import
<1>3. \A t \in tokens' \ tokens : t = x.token /\ x.rows = {}
  BY DEF ImportStep, Receive, InsertRow, RecordToken
<1>4. x.rows = {} => Arrived(x.batch)'
  BY <1>0 DEF HonestImport, Arrived
<1> QED BY <1>0, <1>1, <1>2, <1>3, <1>4 DEF HonestImport, Arrived

(* The other steps record no token and put nothing new on its way but the   *)
(* batch that was just sent or given up.                                    *)
LEMMA HonestKept ==
  ASSUME TypeOK, SkipInv, [Next]_vars, Steady'
  PROVE  ImportsHonest' /\ TokensHonest'
<1> USE DEF rowsets, project, copying, counts, imports, history, others, vars, Goto
<1>0. /\ pc = "wait" => HonestImport(request)
      /\ \A x \in strays : HonestImport(x)
      /\ \A t \in tokens : \E B \in SUBSET Rows : Names(t, B) /\ Arrived(B)
  BY PlacesStay DEF SkipInv, ImportsHonest, TokensHonest
<1>1. /\ \A t, B : Names(t, B) => Names(t, B)'
      /\ \A B : Arrived(B) => Arrived(B)'
  BY PlacesStay DEF SkipInv
<1>2. \A x : HonestImport(x) => HonestImport(x)'
  BY <1>1 DEF HonestImport
<1>3. ASSUME UNCHANGED tokens PROVE TokensHonest'
  BY <1>0, <1>1, <1>3 DEF TokensHonest
<1>4. ASSUME UNCHANGED <<tokens, strays>>, pc' = "wait" => pc = "wait" /\ request' = request
      PROVE  ImportsHonest' /\ TokensHonest'
  BY <1>0, <1>2, <1>3, <1>4 DEF ImportsHonest
<1>5. ASSUME NEW B \in SUBSET Rows, upsertRows(B) PROVE ImportsHonest' /\ TokensHonest'
  <2>1. PICK x : x = request'
    OBVIOUS
  <2>2. x.batch = B /\ x.rows = B /\ x.token = <<table, Cardinality(sent), Cardinality(B)>>
    BY <1>5, <2>1 DEF upsertRows, Import, batchToken
  <2>3. SentInOrder' /\ pc' = "wait" /\ sent' = sent /\ table' = table /\ sent \in SUBSET Rows
    BY <1>5, SentKept DEF upsertRows, TypeOK
  <2>4. /\ Prefix(sent, Of(table, local')) /\ Prefix(sent \cup B, Of(table, local'))
        /\ sent \cap B = {}
    BY <2>1, <2>2, <2>3 DEF SentInOrder
  <2>5. Names(x.token, x.batch)'
    BY <2>2, <2>3, <2>4 DEF Names
  <2>6. HonestImport(request)'
    BY <2>1, <2>2, <2>5 DEF HonestImport, Arrived
  <2> QED BY <1>0, <1>2, <1>3, <1>5, <2>6 DEF upsertRows, ImportsHonest
<1>6. CASE Work
  <2>1. PICK x : x = request
    OBVIOUS
  <2>2. PICK y \in Progress(x) : ImportStep(x, y) /\ request' = y
    BY <1>6, <2>1 DEF Work
  <2>3. pc = "wait" /\ x \in Imports /\ x.batch \in SUBSET Rows
    BY <2>1, <2>2 DEF TypeOK, ImportStep, Receive, InsertRow, RecordToken, NoImport, Import,
       Imports
  <2>4. HonestImport(x) /\ UNCHANGED <<local, gone>>
    BY <1>0, <1>6, <2>1, <2>3 DEF Work
  <2>5. /\ HonestImport(y)'
        /\ \A t \in tokens' \ tokens : Names(t, x.batch)' /\ Arrived(x.batch)'
    BY <2>2, <2>3, <2>4, HonestStep
  <2>6. HonestImport(request)'
    BY <2>2, <2>5
  <2>7. TokensHonest'
    BY <1>0, <1>1, <2>3, <2>5 DEF TokensHonest
  <2> QED BY <1>0, <1>2, <1>6, <2>6, <2>7 DEF Work, ImportsHonest
<1>7. ASSUME NEW x \in strays, Stray(x) PROVE ImportsHonest' /\ TokensHonest'
  <2>0. UNCHANGED <<pc, request, local, gone>>
    BY <1>7 DEF Stray
  <2>1. CASE strays' = strays \ {x} /\ UNCHANGED <<remote, tokens>>
    BY <1>0, <1>2, <1>3, <2>0, <2>1 DEF ImportsHonest
  <2>2. ASSUME NEW y \in Progress(x), ImportStep(x, y),
               strays' = (strays \ {x}) \cup (IF y.phase = "ok" THEN {} ELSE {y})
        PROVE  ImportsHonest' /\ TokensHonest'
    <3>1. x \in Imports /\ x.batch \in SUBSET Rows
      BY DEF TypeOK, Imports
    <3>2. /\ HonestImport(y)'
          /\ \A t \in tokens' \ tokens : Names(t, x.batch)' /\ Arrived(x.batch)'
      BY <1>0, <2>0, <2>2, <3>1, HonestStep
    <3>3. TokensHonest'
      BY <1>0, <1>1, <3>1, <3>2 DEF TokensHonest
    <3>4. \A z \in strays' : z \in strays \/ z = y
      BY <2>2
    <3>5. \A z \in strays' : HonestImport(z)'
      BY <1>0, <1>2, <3>2, <3>4
    <3>6. pc' = "wait" => HonestImport(request)'
      BY <1>0, <1>2, <2>0
    <3> QED BY <3>3, <3>5, <3>6 DEF ImportsHonest
  <2> QED BY <1>7, <2>1, <2>2 DEF Stray
<1>8. CASE GiveUp
  BY <1>0, <1>2, <1>3, <1>8 DEF GiveUp, End, ImportsHonest
<1>9. CASE ImportFails
  <2>1. PICK x : x = request
    OBVIOUS
  <2>2. PICK y : y = request'
    OBVIOUS
  <2>3. y.batch = x.batch /\ y.rows = x.rows /\ y.token = x.token
    BY <1>9, <2>1, <2>2 DEF ImportFails, At, Import
  <2>4. HonestImport(x) => HonestImport(y)'
    BY <1>2, <2>3 DEF HonestImport
  <2> QED BY <1>0, <1>2, <1>3, <1>9, <2>1, <2>2, <2>4 DEF ImportFails, ImportsHonest
<1>10. CASE \/ \E transport \in {"https", "direct"} : Start(transport)
            \/ readRows \/ Applied \/ Refused \/ NextTable
  BY <1>4, <1>10 DEF Start, readRows, Applied, Refused, NextTable, End
<1>11. CASE Finish
  BY <1>4, <1>11 DEF Finish, countLocal, countRemote, Mismatch, Verified, recordPendingJoin,
     Flip, NoFlip, clearPendingJoin, End
<1>12. CASE \/ SessionStart \/ Capture \/ \E r \in Rows : ForgetLocal(r) \/ ForgetRemote(r)
            \/ UNCHANGED vars
  BY <1>4, <1>12 DEF SessionStart, Capture, ForgetLocal, ForgetRemote
<1> QED BY <1>5, <1>6, <1>7, <1>8, <1>9, <1>10, <1>11, <1>12 DEF Next, Copy

LEMMA InitSkipInv == Init => SkipInv
BY DEF Init, SkipInv, InCaptureOrder, SentInOrder, ImportsHonest, TokensHonest

LEMMA StepSkipInv == TypeOK /\ SkipInv /\ [Next]_vars => SkipInv'
<1> SUFFICES ASSUME TypeOK, SkipInv, [Next]_vars PROVE SkipInv'
  OBVIOUS
<1>1. InCaptureOrder'
  BY CaptureOrderKept DEF SkipInv
<1>2. SentInOrder'
  BY SentKept DEF SentInOrder
<1>3. ImportsHonest' /\ TokensHonest'
  BY HonestKept DEF ImportsHonest, TokensHonest
<1> QED BY <1>1, <1>2, <1>3 DEF SkipInv

(* Only the destination answers a request, and it skips a batch when it has *)
(* its token.                                                               *)
LEMMA SkipStep ==
  ASSUME TypeOK, [Next]_vars, request.phase = "received", request'.phase = "ok"
  PROVE  request.token \in tokens /\ pc = "wait"
<1> USE DEF rowsets, project, copying, counts, imports, history, others, vars
<1>0. pc = "wait" /\ request' # request
  BY DEF TypeOK, NoImport, Import
<1>1. CASE Work
  BY <1>0, <1>1 DEF Work, ImportStep, Receive, InsertRow, RecordToken, At, Import
<1>2. CASE Copy
  BY <1>0, <1>2 DEF Copy, readRows, Applied, Refused, NextTable, upsertRows
<1>3. CASE Finish
  BY <1>0, <1>3 DEF Finish, countLocal, countRemote, Mismatch, Verified, recordPendingJoin,
     Flip, NoFlip, clearPendingJoin
<1>4. CASE GiveUp \/ ImportFails
  BY <1>4 DEF GiveUp, ImportFails, End, NoImport, At, Import
<1>5. CASE \E x \in strays : Stray(x)
  BY <1>0, <1>5 DEF Stray
<1>6. CASE \/ \E transport \in {"https", "direct"} : Start(transport)
           \/ SessionStart \/ Capture \/ \E r \in Rows : ForgetLocal(r) \/ ForgetRemote(r)
           \/ UNCHANGED vars
  BY <1>0, <1>6 DEF Start, SessionStart, Capture, ForgetLocal, ForgetRemote
<1> QED BY <1>1, <1>2, <1>3, <1>4, <1>5, <1>6 DEF Next

(* A batch is skipped only if its rows are in the destination or were       *)
(* deleted there, for any tables, batch sizes, transports, retries and      *)
(* requests that go on after they were given up, as long as reads return    *)
(* the order of capture and nothing is deleted here.                        *)
THEOREM SkipsHonest == Spec => SkipIsHonest
<1>1. TypeOK /\ SkipInv /\ [Next]_vars
        => [request.phase = "received" /\ request'.phase = "ok" /\ ~shuffled /\ forgotten = {}
              => Arrived(request.batch)]_vars
  <2> SUFFICES ASSUME TypeOK, SkipInv, [Next]_vars, Steady,
                      request.phase = "received", request'.phase = "ok"
               PROVE  Arrived(request.batch)
    BY DEF Steady
  <2>1. request.token \in tokens /\ HonestImport(request)
    BY SkipStep DEF SkipInv, ImportsHonest
  <2>2. PICK B \in SUBSET Rows : Names(request.token, B) /\ Arrived(B)
    BY <2>1 DEF SkipInv, TokensHonest
  <2>3. request.batch \in SUBSET Rows /\ local \subseteq Rows
    BY DEF TypeOK, Imports
  <2>4. request.batch = B
    BY <2>1, <2>2, <2>3, OneBatchPerToken DEF HonestImport
  <2> QED BY <2>2, <2>4
<1> QED BY <1>1, InitTypes, StepTypes, InitSkipInv, StepSkipInv, PTL DEF Spec, SkipIsHonest

=============================================================================
