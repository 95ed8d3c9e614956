----------------------------- MODULE TeamConvert -----------------------------
(***************************************************************************)
(* Moving a project's memory to a team server.  The local server reads the  *)
(* project's rows table by table, sends them in batches (over HTTPS with a  *)
(* token per batch, or straight into the destination database), compares    *)
(* the row counts of both sides and, when they agree, flips the project's   *)
(* marker to the team runtime, at once or through a note that the project's *)
(* next session start claims.  The user may retry as often as he likes; the *)
(* destination may still be working on a request that was given up; hooks   *)
(* go on capturing, and users delete memories on either side.               *)
(*                                                                          *)
(* Rows are numbered in the order of their capture.  The destination has no *)
(* rows but those it imports: what its own workers, or another machine,     *)
(* write for the project is left out, and with it the conflict on a key of  *)
(* such a row that makes ON CONFLICT DO NOTHING drop one of ours.  Keys and *)
(* the writing of the marker are ProjectIdentity's; foreign keys are left   *)
(* out.                                                                     *)
(***************************************************************************)
EXTENDS Integers, FiniteSets

CONSTANTS
  MaxRows,     \* bound: rows ever captured
  NTables,     \* COPY_TABLES in their order: 1..NTables
  TableOf,     \* the table of each row
  Scoped,      \* tables with a project column, which targetHasRows can probe
  BatchSize,   \* bound: rows per request
  MaxFaults    \* bound: failed statements, lost answers, restarts, deleted memories

Rows   == 1..MaxRows
Tables == 1..NTables

ASSUME ConvertAssumption ==
  /\ MaxRows \in Nat /\ NTables \in Nat \ {0} /\ BatchSize \in Nat
  /\ TableOf \in [Rows -> Tables] /\ Scoped \subseteq Tables
  /\ MaxFaults \in Nat

VARIABLES
  captured,   \* number of rows captured
  local,      \* rows of the project in the local database
  remote,     \* rows of the project in the destination database
  tokens,     \* convert_import_batches: <<table, offset, length>>
  runtime,    \* the marker: "local" or "server"
  path,       \* projects.metadata holds the project's directory
  note,       \* projects.metadata holds a pending join
  pc, how,    \* the convert: where it is, its transport
  table, read, sent,     \* the table it copies, the rows it read and has sent
  seen, far, checked, bad,  \* the counts: local rows of this table, remote rows,
                         \* local rows of the tables so far, a mismatch
  request,    \* the import that it waits for
  strays,     \* imports that nobody waits for any more
  faults,
  shuffled,   \* history: some table was read in another order than that of capture
  gone, forgotten,  \* history: rows deleted in the destination, in the local database
  vouched     \* history: the local rows that the last successful verify counted

rowsets  == <<captured, local, remote, tokens>>
project  == <<runtime, path, note>>
copying  == <<table, read, sent>>
counts   == <<seen, far, checked, bad>>
imports  == <<request, strays>>
history  == <<shuffled, gone, forgotten>>
vars == <<rowsets, project, pc, how, copying, counts, imports, faults, history, vouched>>

-----------------------------------------------------------------------------
PCs == {"idle", "read", "send", "wait", "local", "remote", "note", "flip", "clear"}

Of(t, S) == {r \in S : TableOf[r] = t}

Tokens == Tables \X (0..MaxRows) \X (0..MaxRows)

(* An import: its progress, the rows still to insert, all rows, its token.  *)
Imports == [phase : {"none", "received", "insert", "ok", "error"},
            rows : SUBSET Rows, batch : SUBSET Rows, token : Tokens]

Import(phase, rows, batch, token) ==
  [phase |-> phase, rows |-> rows, batch |-> batch, token |-> token]

NoImport == Import("none", {}, {}, <<1, 0, 0>>)

At(x, phase) == Import(phase, x.rows, x.batch, x.token)

Without(x, r) == Import("insert", x.rows \ {r}, x.batch, x.token)

Progress(x) == {At(x, "insert"), At(x, "ok")} \cup {Without(x, r) : r \in x.rows}

Goto(label) == pc' = label

Fault == faults < MaxFaults /\ faults' = faults + 1

(* A variant the runs must reject: a mismatch outlives its convert.         *)
ForgetButBad == table' = 1 /\ read' = {} /\ sent' = {} /\ seen' = {} /\ far' = {}
                /\ checked' = {} /\ bad' = bad

(* The locals of a convert that is over, or does not need them any more.    *)
Forget == table' = 1 /\ read' = {} /\ sent' = {} /\ seen' = {} /\ far' = {}
          /\ checked' = {} /\ bad' = FALSE

End == Goto("idle") /\ how' = "https" /\ request' = NoImport /\ Forget

(* The rows that come next in the order of capture.                         *)
InOrder(B, S) == \A r \in B : \A q \in S \ B : r < q

-----------------------------------------------------------------------------
(* The convert request: runCopy.                                            *)

(* Converts of a project that has changed over already are left out.        *)
Start(transport) ==
  /\ pc = "idle" /\ runtime = "local"
  /\ Goto("read") /\ how' = transport
  /\ UNCHANGED <<rowsets, project, copying, counts, imports, faults, history, vouched>>

readRows ==
  /\ pc = "read" /\ Goto("send")
  /\ read' = Of(table, local) /\ sent' = {}
  /\ UNCHANGED <<rowsets, project, how, table, counts, imports, faults, history, vouched>>

(* A variant the runs must reject: tokens that name the offset alone.       *)
TokenByOffset(B) == <<table, Cardinality(sent), 0>>

batchToken(B) == <<table, Cardinality(sent), Cardinality(B)>>

(* The next chunk, whatever order the read returned: byte budget and        *)
(* halving (413) decide its length.                                         *)
upsertRows(B) ==
  /\ pc = "send" /\ Goto("wait")
  /\ B # {} /\ B \subseteq read \ sent /\ Cardinality(B) <= BatchSize
  /\ request' = Import(IF how = "https" THEN "received" ELSE "insert", B, B, batchToken(B))
  /\ shuffled' = (shuffled \/ ~InOrder(B, read \ sent))
  /\ UNCHANGED <<rowsets, project, how, copying, counts, strays, faults, gone,
                 forgotten, vouched>>

Applied ==
  /\ pc = "wait" /\ request.phase = "ok" /\ Goto("send")
  /\ sent' = sent \cup request.batch /\ request' = NoImport
  /\ UNCHANGED <<rowsets, project, how, table, read, counts, strays, faults, history,
                 vouched>>

Refused ==
  /\ pc = "wait" /\ request.phase = "error" /\ End
  /\ UNCHANGED <<rowsets, project, strays, faults, history, vouched>>

(* The connection breaks or the local server restarts; the destination      *)
(* goes on with an import that it has, a direct one ends with its sender.   *)
GiveUp ==
  /\ pc # "idle" /\ Fault /\ End
  /\ strays' = IF pc = "wait" /\ how = "https" THEN strays \cup {request} ELSE strays
  /\ UNCHANGED <<rowsets, project, history, vouched>>

NextTable ==
  /\ pc = "send" /\ read \subseteq sent
  /\ IF table < NTables THEN Goto("read") /\ table' = table + 1
                        ELSE Goto("local") /\ table' = 1
  /\ read' = {} /\ sent' = {}
  /\ UNCHANGED <<rowsets, project, how, counts, imports, faults, history, vouched>>

-----------------------------------------------------------------------------
(* The destination: applyImportBatch, or the INSERTs of the direct          *)
(* transport.  Import x becomes y.                                          *)

targetHasRows(t) == t \notin Scoped \/ Of(t, remote) # {}

Receive(x, y) ==
  /\ x.phase = "received"
  /\ y = At(x, IF x.token \in tokens /\ targetHasRows(x.token[1]) THEN "ok" ELSE "insert")
  /\ UNCHANGED <<remote, tokens>>

InsertRow(x, y) ==
  /\ x.phase = "insert" /\ UNCHANGED tokens
  /\ \E r \in x.rows : /\ remote' = remote \cup {r}
                       /\ y = Without(x, r)

(* All rows are in; the direct transport has no tokens.                     *)
RecordToken(x, y) ==
  /\ x.phase = "insert" /\ x.rows = {} /\ UNCHANGED remote
  /\ y = At(x, "ok")
  /\ tokens' = IF x \in strays \/ how = "https" THEN tokens \cup {x.token} ELSE tokens

ImportStep(x, y) == Receive(x, y) \/ InsertRow(x, y) \/ RecordToken(x, y)

Work ==
  /\ \E y \in Progress(request) : ImportStep(request, y) /\ request' = y
  /\ UNCHANGED <<captured, local, project, pc, how, copying, counts, strays, faults,
                 history, vouched>>

(* Batches without a transaction: rows stay when a later statement fails.   *)
ImportFails ==
  /\ request.phase \in {"received", "insert"} /\ Fault
  /\ request' = At(request, "error")
  /\ UNCHANGED <<rowsets, project, pc, how, copying, counts, strays, history, vouched>>

Stray(x) ==
  /\ \/ \E y \in Progress(x) :
          /\ ImportStep(x, y)
          /\ strays' = (strays \ {x}) \cup (IF y.phase = "ok" THEN {} ELSE {y})
     \/ strays' = strays \ {x} /\ UNCHANGED <<remote, tokens>>
  /\ UNCHANGED <<captured, local, project, pc, how, copying, counts, request, faults,
                 history, vouched>>

-----------------------------------------------------------------------------
(* verifyCopy and what follows.                                             *)

countLocal ==
  /\ pc = "local" /\ Goto("remote")
  /\ seen' = Of(table, local)
  /\ UNCHANGED <<rowsets, project, how, copying, far, checked, bad, imports, faults,
                 history, vouched>>

(* One answer serves all tables over HTTPS; the direct transport counts     *)
(* each table when it comes to it.                                          *)
Fetched == IF how = "https" /\ table > 1 THEN far ELSE remote

(* A variant the runs must reject: what was sent is taken for what arrived. *)
EqualToSent == Cardinality(seen) = Cardinality(Of(table, local))

Equal == Cardinality(seen) = Cardinality(Of(table, Fetched))

countRemote ==
  /\ pc = "remote" /\ table < NTables /\ Goto("local")
  /\ table' = table + 1 /\ far' = Fetched
  /\ checked' = checked \cup seen /\ bad' = (bad \/ ~Equal)
  /\ UNCHANGED <<rowsets, project, how, read, sent, seen, imports, faults, history, vouched>>

Mismatch ==
  /\ pc = "remote" /\ table = NTables /\ (bad \/ ~Equal) /\ End
  /\ UNCHANGED <<rowsets, project, strays, faults, history, vouched>>

Verified ==
  /\ pc = "remote" /\ table = NTables /\ ~bad /\ Equal
  /\ Goto(IF how = "direct" THEN "note" ELSE "flip")
  /\ vouched' = checked \cup seen /\ Forget
  /\ UNCHANGED <<rowsets, project, how, imports, faults, history>>

recordPendingJoin ==
  /\ pc = "note" /\ Goto("flip") /\ note' = TRUE
  /\ UNCHANGED <<rowsets, runtime, path, how, copying, counts, imports, faults,
                 history, vouched>>

(* applyConvertJoin, where the directory is on record.                      *)
Flip ==
  /\ pc = "flip" /\ path /\ runtime' = "server"
  /\ \/ how = "direct" /\ Goto("clear")
        /\ UNCHANGED <<how, copying, counts, request>>
     \/ how = "https" /\ End
  /\ UNCHANGED <<rowsets, path, note, strays, faults, history, vouched>>

(* A variant the runs must reject: the note goes though nothing was applied. *)
NoFlipAndClear ==
  /\ pc = "flip" /\ ~path /\ End /\ note' = FALSE
  /\ UNCHANGED <<rowsets, runtime, path, strays, faults, history, vouched>>

(* Without a directory there is nothing to apply; a failure is logged.      *)
NoFlip ==
  /\ pc = "flip" /\ End
  /\ \/ ~path /\ UNCHANGED faults
     \/ path /\ Fault
  /\ UNCHANGED <<rowsets, project, strays, history, vouched>>

clearPendingJoin ==
  /\ pc = "clear" /\ End /\ note' = FALSE
  /\ UNCHANGED <<rowsets, runtime, path, strays, faults, history, vouched>>

-----------------------------------------------------------------------------
(* Everybody else.                                                          *)

others == <<pc, how, copying, counts, imports, vouched>>

(* A session start records the directory and claims a pending join; it may  *)
(* die before it clears the note.                                           *)
SessionStart ==
  /\ path' = TRUE
  /\ \/ /\ runtime = "local" /\ note /\ runtime' = "server"
        /\ \/ note' = FALSE /\ UNCHANGED faults
           \/ Fault /\ UNCHANGED note
     \/ ~(runtime = "local" /\ note) /\ UNCHANGED <<runtime, note, faults>>
  /\ UNCHANGED <<rowsets, others, history>>

(* Hooks follow the marker.                                                 *)
Capture ==
  /\ captured < MaxRows /\ captured' = captured + 1
  /\ \/ runtime = "local" /\ local' = local \cup {captured'} /\ UNCHANGED remote
     \/ runtime = "server" /\ remote' = remote \cup {captured'} /\ UNCHANGED local
  /\ UNCHANGED <<tokens, project, others, faults, history>>

(* DELETE /v1/memories/:id on either server.                                *)
ForgetLocal(r) ==
  /\ Fault /\ r \in local
  /\ local' = local \ {r} /\ forgotten' = forgotten \cup {r}
  /\ UNCHANGED <<captured, remote, tokens, project, others, shuffled, gone>>

ForgetRemote(r) ==
  /\ Fault /\ r \in remote
  /\ remote' = remote \ {r} /\ gone' = gone \cup {r}
  /\ UNCHANGED <<captured, local, tokens, project, others, shuffled, forgotten>>

-----------------------------------------------------------------------------
Init ==
  /\ captured = 0 /\ local = {} /\ remote = {} /\ tokens = {}
  /\ runtime = "local" /\ path = FALSE /\ note = FALSE
  /\ pc = "idle" /\ how = "https" /\ table = 1 /\ read = {} /\ sent = {}
  /\ seen = {} /\ far = {} /\ checked = {} /\ bad = FALSE
  /\ request = NoImport /\ strays = {}
  /\ faults = 0 /\ shuffled = FALSE /\ gone = {} /\ forgotten = {} /\ vouched = {}

Copy == readRows \/ Applied \/ Refused \/ NextTable \/ \E B \in SUBSET Rows : upsertRows(B)

Finish == \/ countLocal \/ countRemote \/ Mismatch \/ Verified
          \/ recordPendingJoin \/ Flip \/ NoFlip \/ clearPendingJoin

Next ==
  \/ \E transport \in {"https", "direct"} : Start(transport)
  \/ Copy \/ Finish \/ GiveUp
  \/ Work \/ ImportFails \/ \E x \in strays : Stray(x)
  \/ SessionStart \/ Capture
  \/ \E r \in Rows : ForgetLocal(r) \/ ForgetRemote(r)

Spec == Init /\ [][Next]_vars

(* The servers go on, the user retries a convert that has not taken effect, *)
(* and sessions are started.                                                *)
FairSpec ==
  /\ Spec
  /\ WF_vars(Copy) /\ WF_vars(Work) /\ WF_vars(Finish) /\ WF_vars(SessionStart)
  /\ WF_vars(\E transport \in {"https", "direct"} : Start(transport))

-----------------------------------------------------------------------------
(* Properties.                                                              *)

(* Every variable stays in its type; an import is under way only while it is *)
(* waited for, with rows that were read.                                    *)
TypeOK ==
  /\ captured \in 0..MaxRows /\ local \subseteq Rows /\ remote \subseteq Rows
  /\ tokens \subseteq Tokens /\ runtime \in {"local", "server"}
  /\ path \in BOOLEAN /\ note \in BOOLEAN
  /\ pc \in PCs /\ how \in {"https", "direct"} /\ table \in Tables
  /\ read \subseteq Rows /\ sent \cup request.batch \subseteq read
  /\ seen \subseteq Rows /\ far \subseteq Rows /\ checked \subseteq Rows /\ bad \in BOOLEAN
  /\ request \in Imports /\ (pc = "wait" \/ request = NoImport) /\ strays \subseteq Imports
  /\ faults \in 0..MaxFaults /\ shuffled \in BOOLEAN
  /\ gone \subseteq Rows /\ forgotten \subseteq Rows /\ vouched \subseteq Rows

Flipping == runtime = "local" /\ runtime' = "server"

Arrived(S) == S \subseteq remote \cup gone

(* "The flip to team mode is gated on this result" (verifyCopy): a project  *)
(* changes over only when every row that the verification counted here is   *)
(* in the destination or was deleted there, whatever order reads return     *)
(* and whichever requests were lost, repeated or given up, as long as no    *)
(* memory is deleted here.                                                  *)
FlipIsComplete == [][Flipping /\ forgotten = {} => Arrived(vouched)]_vars

(* "this batch was applied" (applyImportBatch): a batch is skipped only if  *)
(* its rows are in the destination, as long as reads return the order of    *)
(* capture and nothing is deleted here.                                     *)
SkipIsHonest ==
  [][request.phase = "received" /\ request'.phase = "ok" /\ ~shuffled /\ forgotten = {} =>
       Arrived(request.batch)]_vars

(* "a retry safe" (ConvertResult): a user who goes on retrying gets the     *)
(* project over, unless rows come in another order or are deleted.          *)
RetrySucceeds ==
  <>(runtime = "server" \/ shuffled \/ gone # {} \/ forgotten # {})

(* "the pending note above stays until this succeeds": a note that a        *)
(* verified convert has left takes effect.                                  *)
NoteTakesEffect == note ~> runtime = "server"
=============================================================================
