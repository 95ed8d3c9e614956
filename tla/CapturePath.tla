----------------------------- MODULE CapturePath -----------------------------
(***************************************************************************)
(* How an event captured by a hook reaches the server, and how a laptop in *)
(* team mode generates from it.  Every PostToolUse hook is a process of    *)
(* its own that handles one event; hooks, session starts and the           *)
(* generation loop share two JSONL files and nothing else: no lock, no     *)
(* rename, only append, read, rewrite and remove.                          *)
(*                                                                         *)
(*   "spool"  events the server could not accept (capture-spool.ts), sent  *)
(*            again by the next session start (spool-flush.ts)             *)
(*   "queue"  events to generate from on this machine (local-queue.ts),    *)
(*            drained by the loop (local-generation-loop.ts)               *)
(*                                                                         *)
(* A process that has read a file and will rewrite or remove it later is   *)
(* said to hold a snapshot.  An append that falls into somebody's window   *)
(* may be wiped out.  A rewrite truncates the file and then writes it: in  *)
(* between the file reads as empty, and whoever is killed there leaves it  *)
(* so.  History variables record what no process can see any more:         *)
(* appended the entries ever appended to a file, exposed those appended    *)
(* inside a window, torn those whose rewriter was killed at it or that     *)
(* somebody who will write the file too missed in the middle of it,        *)
(* trimmed those a trim discarded, uncounted the files trimmed by a hook   *)
(* that was killed before it counted.  No guard reads them.                *)
(***************************************************************************)
EXTENDS Naturals, Sequences, FiniteSets

CONSTANTS Hooks,        \* hook processes; each captures one event
          Sessions,     \* session starts that flush the spool
          Passes,       \* passes of the generation loop, which may overlap
          Context,      \* what each hook finds: no reachable runtime, the
                        \* local runtime, or a team server
          Home,         \* the project each hook works in
          Here,         \* the project each session starts in
          MaxEntries,   \* MAX_SPOOL_ENTRIES
          TrimSlack,    \* TRIM_SLACK
          MaxKills      \* bound: hooks and passes killed part-way

ASSUME CaptureAssumption ==
    /\ MaxEntries \in Nat \ {0}
    /\ TrimSlack \in Nat
    /\ MaxKills \in Nat
    /\ IsFiniteSet(Hooks)
    /\ Context \in [Hooks -> {"unreachable", "local", "team"}]

VARIABLES files,    \* the two files, as sequences of entries
          dropped,  \* <file>.dropped.json: droppedTotal, 0 when absent
          hook,     \* hook processes
          flush,    \* session starts
          pass,     \* passes of the loop
          stored,   \* agent_events rows, by idempotency key
          verdicts, \* queue entries generated, refused by the gate or skipped
          kills, appended, exposed, trimmed, torn, uncounted

vars == <<files, dropped, hook, flush, pass, stored, verdicts,
          kills, appended, exposed, trimmed, torn, uncounted>>

-----------------------------------------------------------------------------
Files == {"spool", "queue"}

(* The request of a hook carries the time it was built, and the key of an  *)
(* agent_events row includes that time: the request posted first and the   *)
(* one spooled after the fall-through are two requests for one event.  The *)
(* first names the hook's project, the second none.                        *)
Entry == [ev : Hooks, request : {"posted", "rebuilt"}]
Row == [ev : Hooks, request : {"posted", "rebuilt"},
        project : {Home[h] : h \in Hooks} \cup {Here[s] : s \in Sessions}]

Posted(h) == [ev |-> h, request |-> "posted"]
Rebuilt(h) == [ev |-> h, request |-> "rebuilt"]

RowIn(e, p) == [ev |-> e.ev, request |-> e.request, project |-> p]

Entries(s) == {s[i] : i \in DOMAIN s}

Newest(s, n) == SubSeq(s, Len(s) - n + 1, Len(s))

Stages == {"begin", "enqueue", "post", "spool", "respool", "done", "killed"}
Trims == {"none", "count", "read", "write", "fill", "tally", "store", "total"}

(* file and entry of the append a hook is at                               *)
FileOf(stage) == IF stage = "enqueue" THEN "queue" ELSE "spool"
EntryOf(h) == IF hook[h].stage = "respool" THEN Rebuilt(h) ELSE Posted(h)

(* what a hook does once spoolEvent has returned                           *)
After(stage) == CASE stage = "enqueue" -> "post"
                  [] stage = "spool" -> "respool"
                  [] OTHER -> "done"

HookState == [stage : Stages, trim : Trims, snap : Seq(Entry), seen : Nat]
FlushState == [pc : {"idle", "sending", "done"}, snap : Seq(Entry), failed : BOOLEAN]
PassState == [pc : {"idle", "draining", "writing"}, snap : Seq(Entry), kept : Seq(Entry)]

HookAt(stage) == [stage |-> stage, trim |-> "none", snap |-> <<>>, seen |-> 0]

(* processes in the middle of rewriting f: it is empty until they go on    *)
HooksWriting(f) == {h \in Hooks : hook[h].trim = "fill" /\ FileOf(hook[h].stage) = f}
PassesWriting(f) == {p \in Passes : f = "queue" /\ pass[p].pc = "writing"}

(* processes whose next write to f replaces what they read earlier         *)
HooksHolding(f) == {h \in Hooks : hook[h].trim = "write" /\ FileOf(hook[h].stage) = f}
FlushesHolding == {s \in Sessions : flush[s].pc = "sending" /\ ~flush[s].failed}
PassesHolding == {p \in Passes : pass[p].pc = "draining"}

Window(f) == \/ HooksWriting(f) \cup HooksHolding(f) \cup PassesWriting(f) # {}
             \/ f = "spool" /\ FlushesHolding # {}
             \/ f = "queue" /\ PassesHolding # {}

(* entries of f that exist only in the memory of a process writing them    *)
MidWrite(f) == UNION ({Entries(hook[h].snap) : h \in HooksWriting(f)}
                        \cup {Entries(pass[p].kept) : p \in PassesWriting(f)})

(* Whoever reads f now and rewrites or removes it later does not see them. *)
Missed(f) == torn' = [torn EXCEPT ![f] = @ \cup MidWrite(f)]

TypeOK ==
    /\ files \in [Files -> Seq(Entry)]
    /\ dropped \in [Files -> Nat]
    /\ hook \in [Hooks -> HookState]
    /\ flush \in [Sessions -> FlushState]
    /\ pass \in [Passes -> PassState]
    /\ stored \subseteq Row
    /\ verdicts \subseteq Hooks
    /\ kills \in 0 .. MaxKills
    /\ appended \in [Files -> SUBSET Entry]
    /\ exposed \in [Files -> SUBSET Entry]
    /\ trimmed \in [Files -> SUBSET Entry]
    /\ torn \in [Files -> SUBSET Entry]
    /\ uncounted \subseteq Files

Init ==
    /\ files = [f \in Files |-> <<>>]
    /\ dropped = [f \in Files |-> 0]
    /\ hook = [h \in Hooks |-> HookAt("begin")]
    /\ flush = [s \in Sessions |-> [pc |-> "idle", snap |-> <<>>, failed |-> FALSE]]
    /\ pass = [p \in Passes |-> [pc |-> "idle", snap |-> <<>>, kept |-> <<>>]]
    /\ stored = {} /\ verdicts = {} /\ kills = 0
    /\ appended = [f \in Files |-> {}]
    /\ exposed = [f \in Files |-> {}]
    /\ trimmed = [f \in Files |-> {}]
    /\ torn = [f \in Files |-> {}]
    /\ uncounted = {}

-----------------------------------------------------------------------------
(* The observation hook.  Without a reachable runtime the event is spooled *)
(* with no project; in team mode it is queued for generation before the    *)
(* POST; otherwise it is posted at once.                                   *)
Begin(h) ==
    /\ hook[h].stage = "begin"
    /\ hook' = [hook EXCEPT ![h] =
                   HookAt(CASE Context[h] = "unreachable" -> "respool"
                            [] Context[h] = "team" -> "enqueue"
                            [] Context[h] = "local" -> "post")]
    /\ UNCHANGED <<files, dropped, flush, pass, stored, verdicts,
                   kills, appended, exposed, trimmed, torn, uncounted>>

(* recordEvent.  The server stores the event, stores it and the answer is  *)
(* lost (timeout), is down, or refuses it with an error that is not        *)
(* eligible for the fallback: then the hook gives the event up.  After     *)
(* an eligible failure the request is spooled and the handler falls        *)
(* through to the second spooling below it.                                *)
Post(h) ==
    /\ hook[h].stage = "post"
    /\ LET row == RowIn(Posted(h), Home[h])
       IN \/ /\ hook' = [hook EXCEPT ![h] = HookAt("done")]
             /\ stored' \in {stored, stored \cup {row}}
          \/ /\ hook' = [hook EXCEPT ![h] = HookAt("spool")]
             /\ stored' \in {stored, stored \cup {row}}
    /\ UNCHANGED <<files, dropped, flush, pass, verdicts,
                   kills, appended, exposed, trimmed, torn, uncounted>>

(* spoolEvent: append one line, then trim                                  *)
AppendLine(h) ==
    /\ hook[h].stage \in {"enqueue", "spool", "respool"}
    /\ hook[h].trim = "none"
    /\ LET f == FileOf(hook[h].stage)
       IN /\ files' = [files EXCEPT ![f] = Append(@, EntryOf(h))]
          /\ appended' = [appended EXCEPT ![f] = @ \cup {EntryOf(h)}]
          /\ exposed' = IF Window(f)
                        THEN [exposed EXCEPT ![f] = @ \cup {EntryOf(h)}]
                        ELSE exposed
    /\ hook' = [hook EXCEPT ![h].trim = "count"]
    /\ UNCHANGED <<dropped, flush, pass, stored, verdicts, kills, trimmed, torn, uncounted>>

(* trimSpool, first read: the cheap count of lines                         *)
TooLongByOne(f) == Len(files[f]) > MaxEntries + TrimSlack + 1

TooLong(f) == Len(files[f]) > MaxEntries + TrimSlack

CountLines(h) ==
    /\ hook[h].trim = "count"
    /\ hook' = IF TooLong(FileOf(hook[h].stage))
               THEN [hook EXCEPT ![h].trim = "read"]
               ELSE [hook EXCEPT ![h] = HookAt(After(@.stage))]
    /\ UNCHANGED <<files, dropped, flush, pass, stored, verdicts,
                   kills, appended, exposed, trimmed, torn, uncounted>>

(* trimSpool, second read: the entries; the file may have shrunk since     *)
ReadForTrim(h) ==
    /\ hook[h].trim = "read"
    /\ LET f == FileOf(hook[h].stage)
       IN \/ /\ Len(files[f]) <= MaxEntries
             /\ hook' = [hook EXCEPT ![h] = HookAt(After(@.stage))]
             /\ UNCHANGED torn
          \/ /\ Len(files[f]) > MaxEntries
             /\ hook' = [hook EXCEPT ![h].trim = "write", ![h].snap = files[f]]
             /\ Missed(f)
    /\ UNCHANGED <<files, dropped, flush, pass, stored, verdicts,
                   kills, appended, exposed, trimmed, uncounted>>

(* trimSpool: the rewrite empties the file ...                             *)
Truncate(h) ==
    /\ hook[h].trim = "write"
    /\ files' = [files EXCEPT ![FileOf(hook[h].stage)] = <<>>]
    /\ hook' = [hook EXCEPT ![h].trim = "fill"]
    /\ UNCHANGED <<dropped, flush, pass, stored, verdicts,
                   kills, appended, exposed, trimmed, torn, uncounted>>

(* ... and writes the newest entries of what was read.                     *)
Kept(h) == Newest(hook[h].snap, MaxEntries)

FillWith(h) ==
    /\ hook[h].trim = "fill"
    /\ LET f == FileOf(hook[h].stage)
       IN /\ files' = [files EXCEPT ![f] = Kept(h)]
          /\ trimmed' = [trimmed EXCEPT ![f] =
                            @ \cup (Entries(hook[h].snap) \ Entries(Kept(h)))]
    /\ UNCHANGED <<dropped, flush, pass, stored, verdicts,
                   kills, appended, exposed, torn, uncounted>>

WriteTrimmedSilently(h) == FillWith(h) /\ hook' = [hook EXCEPT ![h] = HookAt(After(@.stage))]

WriteTrimmed(h) == FillWith(h) /\ hook' = [hook EXCEPT ![h].trim = "tally"]

(* recordDropped: read the counter, which an empty file leaves at nothing  *)
ReadDropped(h) ==
    /\ hook[h].trim = "tally"
    /\ hook' = [hook EXCEPT ![h].trim = "store",
                            ![h].seen = dropped[FileOf(hook[h].stage)]]
    /\ UNCHANGED <<files, dropped, flush, pass, stored, verdicts,
                   kills, appended, exposed, trimmed, torn, uncounted>>

(* ... and rewrite it, with this trim's share added.                       *)
ClearDropped(h) ==
    /\ hook[h].trim = "store"
    /\ dropped' = [dropped EXCEPT ![FileOf(hook[h].stage)] = 0]
    /\ hook' = [hook EXCEPT ![h].trim = "total"]
    /\ UNCHANGED <<files, flush, pass, stored, verdicts,
                   kills, appended, exposed, trimmed, torn, uncounted>>

DroppedBy(h) == Len(hook[h].snap) - MaxEntries

WriteDropped(h) ==
    /\ hook[h].trim = "total"
    /\ dropped' = [dropped EXCEPT ![FileOf(hook[h].stage)] =
                      hook[h].seen + DroppedBy(h)]
    /\ hook' = [hook EXCEPT ![h] = HookAt(After(@.stage))]
    /\ UNCHANGED <<files, flush, pass, stored, verdicts,
                   kills, appended, exposed, trimmed, torn, uncounted>>

(* a hook that has trimmed and not finished counting                       *)
Counting(h) == hook[h].trim \in {"tally", "store", "total"}

(* The harness kills a hook that takes too long.                           *)
Kill(h) ==
    /\ kills < MaxKills
    /\ hook[h].stage \notin {"begin", "done", "killed"}
    /\ kills' = kills + 1
    /\ hook' = [hook EXCEPT ![h] = HookAt("killed")]
    /\ LET f == FileOf(hook[h].stage)
       IN /\ uncounted' = IF Counting(h) THEN uncounted \cup {f} ELSE uncounted
          /\ torn' = IF h \in HooksWriting(f)
                     THEN [torn EXCEPT ![f] = @ \cup Entries(hook[h].snap)]
                     ELSE torn
    /\ UNCHANGED <<files, dropped, flush, pass, stored, verdicts,
                   appended, exposed, trimmed>>

-----------------------------------------------------------------------------
(* flushSpooledEvents at a session start.  An empty spool ends the flush.  *)
FlushRead(s) ==
    /\ flush[s].pc = "idle"
    /\ \/ /\ files["spool"] = <<>>
          /\ flush' = [flush EXCEPT ![s].pc = "done"]
          /\ UNCHANGED torn
       \/ /\ files["spool"] # <<>>
          /\ flush' = [flush EXCEPT ![s].pc = "sending", ![s].snap = files["spool"]]
          /\ Missed("spool")
    /\ UNCHANGED <<files, dropped, hook, pass, stored, verdicts,
                   kills, appended, exposed, trimmed, uncounted>>

(* an event goes under its own project or else under the session's         *)
ProjectHere(s, e) == Here[s]

ProjectFor(s, e) == IF e.request = "posted" THEN Home[e.ev] ELSE Here[s]

(* one send; snap is what is left to send                                  *)
FlushSend(s) ==
    /\ flush[s].pc = "sending"
    /\ flush[s].snap # <<>>
    /\ LET e == Head(flush[s].snap)
           row == RowIn(e, ProjectFor(s, e))
       IN \/ /\ stored' = stored \cup {row}
             /\ flush' = [flush EXCEPT ![s].snap = Tail(@)]
          \/ /\ stored' \in {stored, stored \cup {row}}
             /\ flush' = [flush EXCEPT ![s].snap = Tail(@), ![s].failed = TRUE]
    /\ UNCHANGED <<files, dropped, hook, pass, verdicts,
                   kills, appended, exposed, trimmed, torn, uncounted>>

(* the spool is removed only when nothing failed                           *)
SpoolAfterAlways(s) == <<>>

SpoolAfter(s) == IF flush[s].failed THEN files["spool"] ELSE <<>>

FlushEnd(s) ==
    /\ flush[s].pc = "sending"
    /\ flush[s].snap = <<>>
    /\ files' = [files EXCEPT !["spool"] = SpoolAfter(s)]
    /\ flush' = [flush EXCEPT ![s].pc = "done", ![s].failed = FALSE]
    /\ UNCHANGED <<dropped, hook, pass, stored, verdicts,
                   kills, appended, exposed, trimmed, torn, uncounted>>

-----------------------------------------------------------------------------
(* drainGenerationQueue.  The loop starts a pass every interval and does   *)
(* not wait for the one before.                                            *)
PassRead(p) ==
    /\ pass[p].pc = "idle"
    /\ pass' = [pass EXCEPT ![p] = [pc |-> "draining", snap |-> files["queue"],
                                    kept |-> <<>>]]
    /\ Missed("queue")
    /\ UNCHANGED <<files, dropped, hook, flush, stored, verdicts,
                   kills, appended, exposed, trimmed, uncounted>>

(* One entry, generation and posting: a verdict (its observations posted   *)
(* or refused by the quality gate, or a deliberate skip) consumes it;      *)
(* a provider fault, an unusable answer or a failed post keeps it.         *)
PassEntry(p) ==
    /\ pass[p].pc = "draining"
    /\ pass[p].snap # <<>>
    /\ LET e == Head(pass[p].snap)
       IN \/ /\ verdicts' = verdicts \cup {e.ev}
             /\ pass' = [pass EXCEPT ![p].snap = Tail(@)]
          \/ /\ pass' = [pass EXCEPT ![p].snap = Tail(@), ![p].kept = Append(@, e)]
             /\ UNCHANGED verdicts
    /\ UNCHANGED <<files, dropped, hook, flush, stored,
                   kills, appended, exposed, trimmed, torn, uncounted>>

(* The file is removed when the pass keeps nothing, otherwise emptied ...  *)
PassEnd(p) ==
    /\ pass[p].pc = "draining"
    /\ pass[p].snap = <<>>
    /\ files' = [files EXCEPT !["queue"] = <<>>]
    /\ pass' = [pass EXCEPT ![p].pc = IF pass[p].kept = <<>> THEN "idle" ELSE "writing"]
    /\ UNCHANGED <<dropped, hook, flush, stored, verdicts,
                   kills, appended, exposed, trimmed, torn, uncounted>>

(* ... and written with what it keeps.                                     *)
PassWrite(p) ==
    /\ pass[p].pc = "writing"
    /\ files' = [files EXCEPT !["queue"] = pass[p].kept]
    /\ pass' = [pass EXCEPT ![p].pc = "idle", ![p].kept = <<>>]
    /\ UNCHANGED <<dropped, hook, flush, stored, verdicts,
                   kills, appended, exposed, trimmed, torn, uncounted>>

(* The loop's process dies, and starts again with a new pass.              *)
KillPass(p) ==
    /\ kills < MaxKills
    /\ pass[p].pc # "idle"
    /\ kills' = kills + 1
    /\ pass' = [pass EXCEPT ![p] = [pc |-> "idle", snap |-> <<>>, kept |-> <<>>]]
    /\ torn' = IF p \in PassesWriting("queue")
               THEN [torn EXCEPT !["queue"] = @ \cup Entries(pass[p].kept)]
               ELSE torn
    /\ UNCHANGED <<files, dropped, hook, flush, stored, verdicts,
                   appended, exposed, trimmed, uncounted>>

-----------------------------------------------------------------------------
Next ==
    \/ \E h \in Hooks : \/ Begin(h) \/ Post(h) \/ AppendLine(h) \/ CountLines(h)
                        \/ ReadForTrim(h) \/ Truncate(h) \/ WriteTrimmed(h)
                        \/ ReadDropped(h) \/ ClearDropped(h) \/ WriteDropped(h)
                        \/ Kill(h)
    \/ \E s \in Sessions : FlushRead(s) \/ FlushSend(s) \/ FlushEnd(s)
    \/ \E p \in Passes : \/ PassRead(p) \/ PassEntry(p) \/ PassEnd(p)
                         \/ PassWrite(p) \/ KillPass(p)

Spec == Init /\ [][Next]_vars

-----------------------------------------------------------------------------
IsStored(e) == \E r \in stored : r.ev = e.ev /\ r.request = e.request

Settled(f, e) == \/ e \in trimmed[f]
                 \/ f = "spool" /\ IsStored(e)
                 \/ f = "queue" /\ e.ev \in verdicts

(* What a file was given is never lost without a trace: an entry is still  *)
(* in the file, or about to be written back to it, or on the server        *)
(* (generated from, for the queue), or was trimmed as one of the oldest,   *)
(* whatever fails or is repeated in a flush or a pass and wherever else a  *)
(* hook or a pass is killed.  There are two other ways out: an append      *)
(* inside the window of a process that rewrites what it read before, and a *)
(* rewrite whose process is killed between emptying the file and writing   *)
(* it, or that another process that will write the file reads half-way.    *)
NoSilentLoss ==
    \A f \in Files : \A e \in appended[f] \ (exposed[f] \cup torn[f]) :
        e \in Entries(files[f]) \cup MidWrite(f) \/ Settled(f, e)

(* hooks that have appended to the spool and not trimmed it yet, or were   *)
(* killed                                                                  *)
Untrimmed ==
    {h \in Hooks : \/ hook[h].stage = "killed"
                   \/ /\ hook[h].stage \in {"spool", "respool"}
                      /\ hook[h].trim \in {"count", "read", "write"}}

(* The file on the user's disk stays within cap and slack, but for the     *)
(* lines of hooks that have appended and not trimmed yet or were killed    *)
(* before they could.                                                      *)
SpoolBounded ==
    Len(files["spool"]) <= MaxEntries + TrimSlack + Cardinality(Untrimmed)

(* A loss by trimming always shows: concurrent trims may miscount, but     *)
(* once they are done the counter is not at nothing, and only a hook       *)
(* killed between its trim and the end of its count leaves it there.       *)
DropsShow ==
    \A f \in Files :
        trimmed[f] # {} =>
            \/ dropped[f] > 0
            \/ f \in uncounted
            \/ \E h \in Hooks : Counting(h) /\ FileOf(hook[h].stage) = f

(* An event that knew its project is never stored under that of the        *)
(* session that happens to flush the machine-wide spool.                   *)
OwnProject ==
    \A r \in stored : r.request = "posted" => r.project = Home[r.ev]
=============================================================================
