-------------------------- MODULE CapturePathProofs --------------------------
(* Proofs about CapturePath, for any hooks, sessions, passes, projects and *)
(* bounds.                                                                 *)
EXTENDS CapturePath, FiniteSetTheorems, TLAPS

(* A hook that trims has appended to a file, and what it will write is     *)
(* longer than the cap.                                                    *)
TrimOK ==
    \A h \in Hooks :
        /\ hook[h].trim # "none" => hook[h].stage \in {"enqueue", "spool", "respool"}
        /\ hook[h].trim \in {"write", "fill", "tally", "store", "total"}
              => Len(hook[h].snap) > MaxEntries

(* the last n elements of a sequence at least that long                    *)
LEMMA NewestType ==
    ASSUME NEW S, NEW s \in Seq(S), NEW n \in Nat, n <= Len(s)
    PROVE  /\ Newest(s, n) \in Seq(S)
           /\ Len(Newest(s, n)) = n
  BY DEF Newest

LEMMA AppendEntries ==
    ASSUME NEW S, NEW s \in Seq(S), NEW e \in S
    PROVE  Entries(Append(s, e)) = Entries(s) \cup {e}
  <1> DEFINE t == Append(s, e)
  <1>1. /\ t \in Seq(S) /\ DOMAIN t = 1 .. Len(s) + 1 /\ DOMAIN s = 1 .. Len(s)
        /\ t[Len(s) + 1] = e
        /\ \A i \in 1 .. Len(s) : t[i] = s[i]
    OBVIOUS
  <1>2. \A x \in Entries(t) : x \in Entries(s) \cup {e}
    BY <1>1 DEF Entries
  <1>3. \A x \in Entries(s) \cup {e} : x \in Entries(t)
    BY <1>1 DEF Entries
  <1> QED BY <1>2, <1>3

LEMMA TailEntries ==
    ASSUME NEW S, NEW s \in Seq(S), s # <<>>
    PROVE  /\ Head(s) \in S
           /\ Tail(s) \in Seq(S)
           /\ Entries(s) \subseteq {Head(s)} \cup Entries(Tail(s))
  <1>1. Head(s) \in S /\ Tail(s) \in Seq(S)
    OBVIOUS
  <1>2. ASSUME NEW i \in DOMAIN s, s[i] # Head(s)
        PROVE  s[i] \in Entries(Tail(s))
    <2>1. i # 1 /\ i - 1 \in DOMAIN Tail(s) /\ Tail(s)[i - 1] = s[i]
      BY <1>2
    <2> QED BY <2>1 DEF Entries
  <1> QED BY <1>1, <1>2 DEF Entries

-----------------------------------------------------------------------------
LEMMA EntryTypes ==
    ASSUME NEW h \in Hooks
    PROVE  /\ Posted(h) \in Entry /\ Rebuilt(h) \in Entry
           /\ EntryOf(h) \in Entry
           /\ \A st \in Stages : FileOf(st) \in Files /\ After(st) \in Stages
           /\ RowIn(Posted(h), Home[h]) \in Row
           /\ \A s \in Sessions, e \in Entry :
                 RowIn(e, ProjectFor(s, e)) \in Row
  BY DEF Posted, Rebuilt, EntryOf, Entry, ProjectFor, Stages, FileOf, After, Files, RowIn, Row

LEMMA StageTypes ==
    \A st \in Stages : /\ FileOf(st) \in Files
                       /\ After(st) \in Stages
                       /\ HookAt(st) \in HookState
  BY DEF Stages, Trims, FileOf, After, Files, HookAt, HookState

(* what TypeOK and TrimOK say of one hook                                  *)
HookOK(r) ==
    /\ r \in HookState
    /\ r.trim # "none" => r.stage \in {"enqueue", "spool", "respool"}
    /\ r.trim \in {"write", "fill", "tally", "store", "total"} => Len(r.snap) > MaxEntries

LEMMA HookStep ==
    ASSUME TypeOK, TrimOK, NEW h \in Hooks, NEW r, HookOK(r),
           hook' = [hook EXCEPT ![h] = r]
    PROVE  hook' \in [Hooks -> HookState] /\ TrimOK'
  BY DEF TypeOK, TrimOK, HookOK

LEMMA KeptType ==
    ASSUME TypeOK, TrimOK, NEW h \in Hooks,
           hook[h].trim \in {"write", "fill", "tally", "store", "total"}
    PROVE  /\ hook[h].snap \in Seq(Entry) /\ Len(hook[h].snap) > MaxEntries
           /\ Kept(h) \in Seq(Entry) /\ Len(Kept(h)) = MaxEntries
           /\ Entries(hook[h].snap) \subseteq Entry
  <1>1. hook[h].snap \in Seq(Entry) /\ Len(hook[h].snap) > MaxEntries
    BY DEF TypeOK, TrimOK, HookState
  <1>2. Kept(h) \in Seq(Entry) /\ Len(Kept(h)) = MaxEntries
    BY <1>1, NewestType, CaptureAssumption DEF Kept
  <1> QED BY <1>1, <1>2 DEF Entries

(* the entries in somebody's hands, spelt out                              *)
InHands(f, e) ==
    \/ \E h \in Hooks : /\ hook[h].trim = "fill" /\ FileOf(hook[h].stage) = f
                        /\ e \in Entries(hook[h].snap)
    \/ f = "queue" /\ \E p \in Passes : /\ pass[p].pc = "writing"
                                        /\ e \in Entries(pass[p].kept)

LEMMA MidWriteIs ==
    /\ \A f, e : e \in MidWrite(f) <=> InHands(f, e)
    /\ \A f, e : e \in MidWrite(f)' <=> InHands(f, e)'
  BY DEF MidWrite, HooksWriting, PassesWriting, InHands

LEMMA MidWriteType == TypeOK => \A f : MidWrite(f) \subseteq Entry
  BY DEF TypeOK, MidWrite, HooksWriting, PassesWriting, HookState, PassState, Entries

LEMMA FileStep ==
    ASSUME TypeOK, NEW f, NEW s \in Seq(Entry), files' = [files EXCEPT ![f] = s]
    PROVE  files' \in [Files -> Seq(Entry)]
  BY DEF TypeOK

LEMMA MissedType ==
    ASSUME TypeOK, NEW f \in Files, Missed(f) \/ UNCHANGED torn
    PROVE  torn' \in [Files -> SUBSET Entry]
  BY MidWriteType DEF Missed, TypeOK

LEMMA HookAtOK == \A st \in Stages : HookOK(HookAt(st))
  BY StageTypes DEF HookOK, HookAt

LEMMA InitType == Init => TypeOK /\ TrimOK
  <1> SUFFICES ASSUME Init PROVE TypeOK /\ TrimOK
    OBVIOUS
  <1>1. HookOK(HookAt("begin"))
    BY HookAtOK DEF Stages
  <1>2. hook \in [Hooks -> HookState] /\ TrimOK
    BY <1>1 DEF Init, HookOK, TrimOK
  <1>3. flush \in [Sessions -> FlushState] /\ pass \in [Passes -> PassState]
    BY DEF Init, FlushState, PassState
  <1> QED BY <1>2, <1>3, CaptureAssumption DEF Init, TypeOK

LEMMA StepType == TypeOK /\ TrimOK /\ [Next]_vars => TypeOK' /\ TrimOK'
  <1> SUFFICES ASSUME TypeOK, TrimOK, [Next]_vars PROVE TypeOK' /\ TrimOK'
    OBVIOUS
  <1>0. \A h \in Hooks : HookOK(hook[h])
    BY DEF TypeOK, TrimOK, HookOK
  <1>1. ASSUME NEW h \in Hooks, Begin(h) PROVE TypeOK' /\ TrimOK'
    <2>1. PICK st \in Stages : hook' = [hook EXCEPT ![h] = HookAt(st)]
      BY <1>1, CaptureAssumption DEF Begin, Stages
    <2> QED BY <1>1, <2>1, HookStep, HookAtOK DEF Begin, TypeOK
  <1>2. ASSUME NEW h \in Hooks, Post(h) PROVE TypeOK' /\ TrimOK'
    <2>1. PICK st \in Stages : hook' = [hook EXCEPT ![h] = HookAt(st)]
      BY <1>2 DEF Post, Stages
    <2> QED BY <1>2, <2>1, HookStep, HookAtOK, EntryTypes DEF Post, TypeOK
  <1>3. ASSUME NEW h \in Hooks, AppendLine(h) PROVE TypeOK' /\ TrimOK'
    <2> DEFINE r == [hook[h] EXCEPT !.trim = "count"]
               f == FileOf(hook[h].stage)
    <2>1. HookOK(r) /\ hook' = [hook EXCEPT ![h] = r]
      BY <1>0, <1>3 DEF AppendLine, HookOK, HookState, Trims
    <2>2. hook' \in [Hooks -> HookState] /\ TrimOK'
      BY <2>1, HookStep
    <2>3. f \in Files /\ EntryOf(h) \in Entry
      BY <1>3, EntryTypes, StageTypes DEF TypeOK, HookState
    <2>4. files' \in [Files -> Seq(Entry)]
      BY <1>3, <2>3 DEF AppendLine, TypeOK
    <2>5. appended' \in [Files -> SUBSET Entry] /\ exposed' \in [Files -> SUBSET Entry]
      BY <1>3, <2>3 DEF AppendLine, TypeOK
    <2> QED BY <1>3, <2>2, <2>4, <2>5 DEF AppendLine, TypeOK
  <1>4. ASSUME NEW h \in Hooks, CountLines(h) PROVE TypeOK' /\ TrimOK'
    <2>1. PICK r : HookOK(r) /\ hook' = [hook EXCEPT ![h] = r]
      <3>1. HookOK(HookAt(After(hook[h].stage)))
        BY StageTypes, HookAtOK DEF TypeOK, HookState
      <3>2. HookOK([hook[h] EXCEPT !.trim = "read"])
        BY <1>0, <1>4 DEF CountLines, TooLong, HookOK, HookState, Trims
      <3> QED BY <1>4, <3>1, <3>2 DEF CountLines, TooLong
    <2> QED BY <1>4, <2>1, HookStep DEF CountLines, TooLong, TypeOK
  <1>5. ASSUME NEW h \in Hooks, ReadForTrim(h) PROVE TypeOK' /\ TrimOK'
    <2> DEFINE s == files[FileOf(hook[h].stage)]
    <2>0. FileOf(hook[h].stage) \in Files /\ s \in Seq(Entry)
      BY StageTypes DEF TypeOK, HookState
    <2>1. PICK r : HookOK(r) /\ hook' = [hook EXCEPT ![h] = r]
      <3>1. HookOK(HookAt(After(hook[h].stage)))
        BY StageTypes, HookAtOK DEF TypeOK, HookState
      <3>2. CASE Len(s) > MaxEntries /\ hook' = [hook EXCEPT ![h].trim = "write", ![h].snap = s]
        <4> DEFINE r == [hook[h] EXCEPT !.trim = "write", !.snap = s]
        <4>1. HookOK(r)
          BY <1>0, <1>5, <2>0, <3>2 DEF ReadForTrim, HookOK, HookState, Trims
        <4> QED BY <3>2, <4>1
      <3> QED BY <1>5, <3>1, <3>2 DEF ReadForTrim
    <2>2. torn' \in [Files -> SUBSET Entry]
      BY <1>5, <2>0, MissedType DEF ReadForTrim
    <2> QED BY <1>5, <2>1, <2>2, HookStep DEF ReadForTrim, TypeOK
  <1>17. ASSUME NEW h \in Hooks, Truncate(h) PROVE TypeOK' /\ TrimOK'
    <2> DEFINE r == [hook[h] EXCEPT !.trim = "fill"]
    <2>1. HookOK(r) /\ hook' = [hook EXCEPT ![h] = r]
      BY <1>0, <1>17 DEF Truncate, HookOK, HookState, Trims
    <2>2. hook' \in [Hooks -> HookState] /\ TrimOK'
      BY <2>1, HookStep
    <2>3. files' \in [Files -> Seq(Entry)]
      <3>1. <<>> \in Seq(Entry)
        OBVIOUS
      <3> QED BY <1>17, <3>1, FileStep DEF Truncate
    <2>4. UNCHANGED <<dropped, flush, pass, stored, verdicts, kills, appended,
                      exposed, trimmed, torn, uncounted>>
      BY <1>17 DEF Truncate
    <2> QED BY <2>2, <2>3, <2>4 DEF TypeOK
  <1>6. ASSUME NEW h \in Hooks, WriteTrimmed(h) PROVE TypeOK' /\ TrimOK'
    <2> DEFINE r == [hook[h] EXCEPT !.trim = "tally"]
    <2>1. HookOK(r) /\ hook' = [hook EXCEPT ![h] = r]
      BY <1>0, <1>6 DEF WriteTrimmed, FillWith, HookOK, HookState, Trims
    <2>2. hook' \in [Hooks -> HookState] /\ TrimOK'
      BY <2>1, HookStep
    <2>3. FileOf(hook[h].stage) \in Files
      BY StageTypes DEF TypeOK, HookState
    <2>4. Kept(h) \in Seq(Entry) /\ Entries(hook[h].snap) \subseteq Entry
      BY <1>6, KeptType DEF WriteTrimmed, FillWith
    <2>6. files' \in [Files -> Seq(Entry)]
      BY <1>6, <2>3, <2>4 DEF WriteTrimmed, FillWith, TypeOK
    <2>7. trimmed' \in [Files -> SUBSET Entry]
      BY <1>6, <2>3, <2>4 DEF WriteTrimmed, FillWith, TypeOK
    <2> QED BY <1>6, <2>2, <2>6, <2>7 DEF WriteTrimmed, FillWith, TypeOK
  <1>7. ASSUME NEW h \in Hooks, ReadDropped(h) PROVE TypeOK' /\ TrimOK'
    <2> DEFINE r == [hook[h] EXCEPT !.trim = "store",
                                    !.seen = dropped[FileOf(hook[h].stage)]]
    <2>1. dropped[FileOf(hook[h].stage)] \in Nat
      BY StageTypes DEF TypeOK, HookState
    <2>2. HookOK(r)
      BY <1>0, <1>7, <2>1 DEF ReadDropped, HookOK, HookState, Trims
    <2>3. hook' = [hook EXCEPT ![h] = r]
      BY <1>7 DEF ReadDropped
    <2>4. hook' \in [Hooks -> HookState] /\ TrimOK'
      BY <2>2, <2>3, HookStep
    <2> QED BY <1>7, <2>4 DEF ReadDropped, TypeOK
  <1>18. ASSUME NEW h \in Hooks, ClearDropped(h) PROVE TypeOK' /\ TrimOK'
    <2> DEFINE r == [hook[h] EXCEPT !.trim = "total"]
    <2>1. HookOK(r) /\ hook' = [hook EXCEPT ![h] = r]
      BY <1>0, <1>18 DEF ClearDropped, HookOK, HookState, Trims
    <2>2. hook' \in [Hooks -> HookState] /\ TrimOK'
      BY <2>1, HookStep
    <2>3. dropped' \in [Files -> Nat]
      BY <1>18 DEF ClearDropped, TypeOK
    <2> QED BY <1>18, <2>2, <2>3 DEF ClearDropped, TypeOK
  <1>8. ASSUME NEW h \in Hooks, WriteDropped(h) PROVE TypeOK' /\ TrimOK'
    <2>1. HookOK(HookAt(After(hook[h].stage)))
      BY StageTypes, HookAtOK DEF TypeOK, HookState
    <2>2. hook' \in [Hooks -> HookState] /\ TrimOK'
      BY <1>8, <2>1, HookStep DEF WriteDropped
    <2>3. hook[h].seen + DroppedBy(h) \in Nat
      BY <1>0, <1>8, CaptureAssumption DEF HookOK, HookState, WriteDropped, DroppedBy
    <2>4. dropped' \in [Files -> Nat]
      BY <1>8, <2>3 DEF WriteDropped, TypeOK
    <2> QED BY <1>8, <2>2, <2>4 DEF WriteDropped, TypeOK
  <1>9. ASSUME NEW h \in Hooks, Kill(h) PROVE TypeOK' /\ TrimOK'
    <2>1. HookOK(HookAt("killed"))
      BY HookAtOK DEF Stages
    <2>2. hook' \in [Hooks -> HookState] /\ TrimOK'
      BY <1>9, <2>1, HookStep DEF Kill
    <2>3. kills' \in 0 .. MaxKills
      BY <1>9, CaptureAssumption DEF Kill, TypeOK
    <2>4. uncounted' \subseteq Files
      BY <1>9, StageTypes DEF Kill, TypeOK, HookState
    <2>5. Entries(hook[h].snap) \subseteq Entry
      BY DEF TypeOK, HookState, Entries
    <2>6. torn' \in [Files -> SUBSET Entry]
      BY <1>9, <2>5 DEF Kill, TypeOK
    <2> QED BY <1>9, <2>2, <2>3, <2>4, <2>6 DEF Kill, TypeOK
  <1>10. ASSUME NEW s \in Sessions, FlushRead(s) PROVE TypeOK' /\ TrimOK'
    <2>a. /\ [flush[s] EXCEPT !.pc = "done"] \in FlushState
          /\ [flush[s] EXCEPT !.pc = "sending", !.snap = files["spool"]] \in FlushState
      BY DEF TypeOK, Files, FlushState
    <2>b. \/ flush' = [flush EXCEPT ![s] = [flush[s] EXCEPT !.pc = "done"]]
          \/ flush' = [flush EXCEPT ![s] =
                          [flush[s] EXCEPT !.pc = "sending", !.snap = files["spool"]]]
      BY <1>10 DEF FlushRead
    <2>1. flush' \in [Sessions -> FlushState]
      BY <2>a, <2>b DEF TypeOK
    <2>2. torn' \in [Files -> SUBSET Entry]
      BY <1>10, MissedType DEF FlushRead, Files
    <2> QED BY <1>10, <2>1, <2>2 DEF FlushRead, TypeOK, TrimOK
  <1>11. ASSUME NEW s \in Sessions, FlushSend(s) PROVE TypeOK' /\ TrimOK'
    <2> DEFINE e == Head(flush[s].snap)
    <2>1. flush[s].snap \in Seq(Entry) /\ flush[s].snap # <<>>
      BY <1>11 DEF FlushSend, TypeOK, FlushState
    <2>2. e \in Entry /\ Tail(flush[s].snap) \in Seq(Entry)
      BY <2>1, TailEntries
    <2>a. [flush[s] EXCEPT !.snap = Tail(@)] \in FlushState
          /\ [flush[s] EXCEPT !.snap = Tail(@), !.failed = TRUE] \in FlushState
      BY <2>2 DEF TypeOK, FlushState
    <2>b. \/ flush' = [flush EXCEPT ![s] = [flush[s] EXCEPT !.snap = Tail(@)]]
          \/ flush' = [flush EXCEPT ![s] =
                          [flush[s] EXCEPT !.snap = Tail(@), !.failed = TRUE]]
      BY <1>11 DEF FlushSend
    <2>3. flush' \in [Sessions -> FlushState]
      BY <2>a, <2>b DEF TypeOK
    <2>4. RowIn(e, ProjectFor(s, e)) \in Row
      BY <2>2 DEF RowIn, Row, Entry, ProjectFor
    <2>5. stored' \subseteq Row
      BY <1>11, <2>4 DEF FlushSend, TypeOK
    <2> QED BY <1>11, <2>3, <2>5 DEF FlushSend, TypeOK, TrimOK
  <1>12. ASSUME NEW s \in Sessions, FlushEnd(s) PROVE TypeOK' /\ TrimOK'
    BY <1>12 DEF FlushEnd, SpoolAfter, Files, TypeOK, TrimOK, FlushState
  <1>13. ASSUME NEW p \in Passes, PassRead(p) PROVE TypeOK' /\ TrimOK'
    <2>1. torn' \in [Files -> SUBSET Entry]
      BY <1>13, MissedType DEF PassRead, Files
    <2>2. pass' \in [Passes -> PassState]
      BY <1>13 DEF PassRead, Files, TypeOK, PassState
    <2> QED BY <1>13, <2>1, <2>2 DEF PassRead, TypeOK, TrimOK
  <1>14. ASSUME NEW p \in Passes, PassEntry(p) PROVE TypeOK' /\ TrimOK'
    <2> DEFINE e == Head(pass[p].snap)
    <2>1. pass[p].snap \in Seq(Entry) /\ pass[p].snap # <<>>
      BY <1>14 DEF PassEntry, TypeOK, PassState
    <2>2. e \in Entry /\ Tail(pass[p].snap) \in Seq(Entry)
      BY <2>1, TailEntries
    <2>a. [pass[p] EXCEPT !.snap = Tail(@)] \in PassState
          /\ [pass[p] EXCEPT !.snap = Tail(@), !.kept = Append(@, e)] \in PassState
      <3>1. pass[p] \in PassState
        BY DEF TypeOK
      <3>2. Append(pass[p].kept, e) \in Seq(Entry)
        BY <2>2, <3>1 DEF PassState
      <3> HIDE DEF e
      <3> QED BY <2>2, <3>1, <3>2 DEF PassState
    <2>b. \/ pass' = [pass EXCEPT ![p] = [pass[p] EXCEPT !.snap = Tail(@)]]
          \/ pass' = [pass EXCEPT ![p] =
                         [pass[p] EXCEPT !.snap = Tail(@), !.kept = Append(@, e)]]
      BY <1>14 DEF PassEntry
    <2>3. pass' \in [Passes -> PassState]
      BY <2>a, <2>b DEF TypeOK
    <2>4. verdicts' \subseteq Hooks
      BY <1>14, <2>2 DEF PassEntry, TypeOK, Entry
    <2> QED BY <1>14, <2>3, <2>4 DEF PassEntry, TypeOK, TrimOK
  <1>15. ASSUME NEW p \in Passes, PassEnd(p) PROVE TypeOK' /\ TrimOK'
    <2>1. pass' \in [Passes -> PassState]
      BY <1>15 DEF PassEnd, TypeOK, PassState
    <2> QED BY <1>15, <2>1 DEF PassEnd, Files, TypeOK, TrimOK
  <1>19. ASSUME NEW p \in Passes, PassWrite(p) PROVE TypeOK' /\ TrimOK'
    <2>1. pass[p].kept \in Seq(Entry)
      BY DEF TypeOK, PassState
    <2>2. pass' \in [Passes -> PassState]
      <3>1. pass[p] \in PassState /\ <<>> \in Seq(Entry)
        BY DEF TypeOK
      <3>2. [pass[p] EXCEPT !.pc = "idle", !.kept = <<>>] \in PassState
        BY <3>1 DEF PassState
      <3>3. pass' = [pass EXCEPT ![p] = [pass[p] EXCEPT !.pc = "idle", !.kept = <<>>]]
        BY <1>19 DEF PassWrite
      <3> QED BY <3>2, <3>3 DEF TypeOK
    <2>3. files' \in [Files -> Seq(Entry)]
      BY <1>19, <2>1, FileStep DEF PassWrite
    <2>4. UNCHANGED <<dropped, hook, flush, stored, verdicts, kills, appended,
                      exposed, trimmed, torn, uncounted>>
      BY <1>19 DEF PassWrite
    <2> QED BY <2>2, <2>3, <2>4 DEF TypeOK, TrimOK
  <1>20. ASSUME NEW p \in Passes, KillPass(p) PROVE TypeOK' /\ TrimOK'
    <2>1. [pc |-> "idle", snap |-> <<>>, kept |-> <<>>] \in PassState
      BY DEF PassState
    <2>2. pass' \in [Passes -> PassState]
      BY <1>20, <2>1 DEF KillPass, TypeOK
    <2>3. Entries(pass[p].kept) \subseteq Entry
      BY DEF TypeOK, PassState, Entries
    <2>4. torn' \in [Files -> SUBSET Entry]
      BY <1>20, <2>3 DEF KillPass, TypeOK
    <2>5. kills' \in 0 .. MaxKills
      BY <1>20, CaptureAssumption DEF KillPass, TypeOK
    <2> QED BY <1>20, <2>2, <2>4, <2>5 DEF KillPass, TypeOK, TrimOK
  <1>16. CASE UNCHANGED vars
    BY <1>16 DEF vars, TypeOK, TrimOK
  <1> QED BY <1>1, <1>2, <1>3, <1>4, <1>5, <1>6, <1>7, <1>8, <1>9, <1>10,
             <1>11, <1>12, <1>13, <1>14, <1>15, <1>16, <1>17, <1>18, <1>19,
             <1>20 DEF Next

(* Every variable stays in its type: files hold entries, the drop counters *)
(* are numbers, rows carry a known project.                                *)
THEOREM CaptureTypes == Spec => []TypeOK
  <1>1. Spec => [](TypeOK /\ TrimOK)
    BY InitType, StepType, PTL DEF Spec
  <1> QED BY <1>1, PTL

-----------------------------------------------------------------------------
(* Nothing is lost without a trace.  What makes it inductive: an entry     *)
(* that was not appended inside anybody's window, nor caught in a rewrite  *)
(* that was killed or read half-way, is in the snapshot of every process   *)
(* that will rewrite or remove the file.                                   *)
Owed(f) == appended[f] \ (exposed[f] \cup torn[f])

InTrims(f, e) ==
    \A h \in Hooks : hook[h].trim \in {"write", "fill"} /\ FileOf(hook[h].stage) = f
                        => e \in Entries(hook[h].snap)
InFlushes(e) ==
    \A s \in Sessions : flush[s].pc = "sending" /\ ~flush[s].failed
                           => e \in Entries(flush[s].snap)
InPasses(e) ==
    \A p \in Passes :
        /\ pass[p].pc = "draining" => e \in Entries(pass[p].snap) \cup Entries(pass[p].kept)
        /\ pass[p].pc = "writing" => e \in Entries(pass[p].kept)

Safe(f, e) == /\ e \in Entries(files[f]) \/ InHands(f, e)
              /\ InTrims(f, e)
              /\ f = "spool" => InFlushes(e)
              /\ f = "queue" => InPasses(e)

Traced == \A f \in Files : \A e \in Owed(f) : Settled(f, e) \/ Safe(f, e)

LEMMA SettledStays ==
    ASSUME stored \subseteq stored', verdicts \subseteq verdicts',
           NEW f \in Files, NEW e, trimmed[f] \subseteq trimmed'[f], Settled(f, e)
    PROVE  Settled(f, e)'
  BY DEF Settled, IsStored

(* what is torn stays so, and is no longer owed                            *)
LEMMA StillOwed ==
    ASSUME TypeOK, UNCHANGED <<appended, exposed>>,
           \A f \in Files : torn[f] \subseteq torn'[f],
           \A f \in Files : \A e \in Owed(f) \ torn'[f] :
               Settled(f, e) \/ Safe(f, e) => Settled(f, e)' \/ Safe(f, e)',
           Traced
    PROVE  Traced'
  <1> SUFFICES ASSUME NEW f \in Files, NEW e \in Owed(f)'
               PROVE  Settled(f, e)' \/ Safe(f, e)'
    BY DEF Traced
  <1>1. e \in Owed(f) \ torn'[f]
    BY DEF Owed
  <1> QED BY <1>1 DEF Traced

(* somebody reads a file, to write it later: what was in nobody's hands    *)
(* alone is in the file                                                    *)
LEMMA MissedTears ==
    ASSUME TypeOK, NEW f \in Files, Missed(f)
    PROVE  /\ \A g \in Files : torn[g] \subseteq torn'[g]
           /\ \A e : Safe(f, e) /\ e \notin torn'[f] => e \in Entries(files[f])
  <1>1. \A g \in Files : torn'[g] = IF g = f THEN torn[g] \cup MidWrite(f) ELSE torn[g]
    BY DEF Missed, TypeOK
  <1>2. ASSUME NEW e, Safe(f, e), e \notin torn'[f] PROVE e \in Entries(files[f])
    BY <1>1, <1>2, MidWriteIs DEF Safe
  <1> QED BY <1>1, <1>2

(* a hook that neither appends nor writes changes nothing that matters     *)
LEMMA QuietHook ==
    ASSUME TypeOK, Traced, NEW h \in Hooks, NEW r, r.trim \notin {"write", "fill"},
           hook[h].trim # "fill", hook' = [hook EXCEPT ![h] = r],
           UNCHANGED <<files, flush, pass, verdicts, appended, exposed, trimmed, torn>>,
           stored \subseteq stored'
    PROVE  Traced'
  <1>0. \A h2 \in Hooks : hook'[h2] = IF h2 = h THEN r ELSE hook[h2]
    BY DEF TypeOK
  <1>1. ASSUME NEW f \in Files, NEW e, Safe(f, e) PROVE Safe(f, e)'
    <2>1. InTrims(f, e)'
      BY <1>0, <1>1 DEF Safe, InTrims
    <2>2. InHands(f, e) => InHands(f, e)'
      BY <1>0 DEF InHands
    <2> QED BY <1>1, <2>1, <2>2 DEF Safe, InFlushes, InPasses
  <1> QED BY <1>1, SettledStays, StillOwed

LEMMA StepTraced == TypeOK /\ TrimOK /\ Traced /\ [Next]_vars => Traced'
  <1> SUFFICES ASSUME TypeOK, TrimOK, Traced, [Next]_vars PROVE Traced'
    OBVIOUS
  <1>0. ASSUME UNCHANGED <<appended, exposed, trimmed, stored, verdicts>>,
               \A f \in Files : torn[f] \subseteq torn'[f],
               \A f \in Files : \A e \in Owed(f) \ torn'[f] : Safe(f, e) => Safe(f, e)'
        PROVE  Traced'
    BY <1>0, SettledStays, StillOwed
  <1>1. ASSUME NEW h \in Hooks, Begin(h) PROVE Traced'
    <2>1. PICK st : hook' = [hook EXCEPT ![h] = HookAt(st)]
      BY <1>1 DEF Begin
    <2>2. HookAt(st).trim = "none" /\ hook[h].trim = "none"
      BY <1>1 DEF HookAt, Begin, TrimOK
    <2> QED BY <1>1, <2>1, <2>2, QuietHook DEF Begin
  <1>2. ASSUME NEW h \in Hooks, Post(h) PROVE Traced'
    <2>1. PICK st : hook' = [hook EXCEPT ![h] = HookAt(st)]
      BY <1>2 DEF Post
    <2>2. HookAt(st).trim = "none" /\ hook[h].trim = "none"
      BY <1>2 DEF HookAt, Post, TrimOK
    <2>3. stored \subseteq stored'
      BY <1>2 DEF Post
    <2> QED BY <1>2, <2>1, <2>2, <2>3, QuietHook DEF Post
  <1>3. ASSUME NEW h \in Hooks, AppendLine(h) PROVE Traced'
    <2> DEFINE g == FileOf(hook[h].stage)
    <2> SUFFICES ASSUME NEW f \in Files, NEW e \in Owed(f)'
                 PROVE  Settled(f, e)' \/ Safe(f, e)'
      BY DEF Traced
    <2>1. g \in Files /\ EntryOf(h) \in Entry
      BY <1>3, EntryTypes, StageTypes DEF TypeOK, HookState
    <2>2. Entries(files'[f]) = IF f = g THEN Entries(files[f]) \cup {EntryOf(h)}
                                        ELSE Entries(files[f])
      <3>1. files' = [files EXCEPT ![g] = Append(files[g], EntryOf(h))]
        BY <1>3 DEF AppendLine
      <3>2. files[g] \in Seq(Entry)
        BY <2>1 DEF TypeOK
      <3>3. Entries(Append(files[g], EntryOf(h))) = Entries(files[g]) \cup {EntryOf(h)}
        BY <2>1, <3>2, AppendEntries
      <3> HIDE DEF g
      <3> QED BY <2>1, <3>1, <3>3 DEF TypeOK
    <2>3. /\ hook[h].trim = "none" /\ hook'[h].trim = "count"
          /\ \A h2 \in Hooks : h2 # h => hook'[h2] = hook[h2]
      BY <1>3 DEF AppendLine, TypeOK, HookState
    <2>4. CASE e \in Owed(f)
      <3>1. CASE Settled(f, e)
        BY <1>3, <3>1, SettledStays DEF AppendLine
      <3>2. CASE Safe(f, e)
        <4>1. InHands(f, e) => InHands(f, e)'
          BY <1>3, <2>3 DEF InHands, AppendLine
        <4>2. InTrims(f, e)'
          BY <2>3, <3>2 DEF Safe, InTrims
        <4> QED BY <1>3, <2>2, <3>2, <4>1, <4>2 DEF Safe, InFlushes, InPasses, AppendLine
      <3> QED BY <2>4, <3>1, <3>2 DEF Traced
    <2>5. CASE e \notin Owed(f)
      <3>1. f = g /\ e = EntryOf(h) /\ ~Window(g)
        BY <1>3, <2>1, <2>5 DEF AppendLine, TypeOK, Owed
      <3> HIDE DEF g
      <3>2. InTrims(f, e)'
        BY <2>3, <3>1 DEF InTrims, Window, HooksHolding, HooksWriting
      <3>3. f = "spool" => InFlushes(e)'
        BY <1>3, <3>1 DEF InFlushes, Window, FlushesHolding, AppendLine
      <3>4. f = "queue" => InPasses(e)'
        BY <1>3, <3>1 DEF InPasses, Window, PassesHolding, PassesWriting, AppendLine
      <3> QED BY <2>2, <3>1, <3>2, <3>3, <3>4 DEF Safe
    <2> QED BY <2>4, <2>5
  <1>4. ASSUME NEW h \in Hooks, CountLines(h) PROVE Traced'
    <2>1. PICK r : r.trim \notin {"write", "fill"} /\ hook' = [hook EXCEPT ![h] = r]
      <3>1. [hook[h] EXCEPT !.trim = "read"].trim = "read"
        BY DEF TypeOK, HookState
      <3> QED BY <1>4, <3>1 DEF CountLines, TooLong, HookAt
    <2> QED BY <1>4, <2>1, QuietHook DEF CountLines, TooLong
  <1>5. ASSUME NEW h \in Hooks, ReadForTrim(h) PROVE Traced'
    <2> DEFINE g == FileOf(hook[h].stage)
    <2>0. g \in Files
      BY StageTypes DEF TypeOK, HookState
    <2>1. CASE UNCHANGED torn /\ hook' = [hook EXCEPT ![h] = HookAt(After(@.stage))]
      BY <1>5, <2>1, QuietHook DEF ReadForTrim, HookAt
    <2>2. CASE Missed(g) /\ hook' = [hook EXCEPT ![h].trim = "write", ![h].snap = files[g]]
      <3>1. /\ \A h2 \in Hooks : h2 # h => hook'[h2] = hook[h2]
            /\ hook'[h].trim = "write" /\ hook'[h].snap = files[g]
            /\ hook'[h].stage = hook[h].stage /\ hook[h].trim = "read"
        BY <1>5, <2>2 DEF ReadForTrim, TypeOK, HookState
      <3>2. /\ \A f \in Files : torn[f] \subseteq torn'[f]
            /\ \A e : Safe(g, e) /\ e \notin torn'[g] => e \in Entries(files[g])
        BY <2>0, <2>2, MissedTears
      <3>3. ASSUME NEW f \in Files, NEW e \in Owed(f) \ torn'[f], Safe(f, e)
            PROVE  Safe(f, e)'
        <4>1. InTrims(f, e)'
          BY <3>1, <3>2, <3>3 DEF InTrims, Safe
        <4>2. InHands(f, e) => InHands(f, e)'
          BY <1>5, <3>1 DEF InHands, ReadForTrim
        <4> QED BY <1>5, <3>3, <4>1, <4>2 DEF Safe, InFlushes, InPasses, ReadForTrim
      <3> QED BY <1>0, <1>5, <3>2, <3>3 DEF ReadForTrim
    <2> QED BY <1>5, <2>1, <2>2 DEF ReadForTrim
  <1>17. ASSUME NEW h \in Hooks, Truncate(h) PROVE Traced'
    <2> DEFINE g == FileOf(hook[h].stage)
    <2>1. /\ \A h2 \in Hooks : h2 # h => hook'[h2] = hook[h2]
          /\ hook'[h].trim = "fill" /\ hook'[h].snap = hook[h].snap
          /\ hook'[h].stage = hook[h].stage /\ hook[h].trim = "write"
      BY <1>17 DEF Truncate, TypeOK, HookState
    <2>2. ASSUME NEW f \in Files, NEW e \in Owed(f) \ torn'[f], Safe(f, e)
          PROVE  Safe(f, e)'
      <3>1. InTrims(f, e)'
        BY <2>1, <2>2 DEF InTrims, Safe
      <3>2. InHands(f, e) => InHands(f, e)'
        BY <1>17, <2>1 DEF InHands, Truncate
      <3>3. f = g => InHands(f, e)'
        BY <2>1, <2>2 DEF InHands, InTrims, Safe
      <3>4. f # g => files'[f] = files[f]
        BY <1>17 DEF Truncate, TypeOK
      <3> QED BY <1>17, <2>2, <3>1, <3>2, <3>3, <3>4 DEF Safe, InFlushes, InPasses, Truncate
    <2> QED BY <1>0, <1>17, <2>2 DEF Truncate
  <1>6. ASSUME NEW h \in Hooks, WriteTrimmed(h) PROVE Traced'
    <2> DEFINE g == FileOf(hook[h].stage)
    <2>0. g \in Files
      BY StageTypes DEF TypeOK, HookState
    <2>1. /\ \A h2 \in Hooks : h2 # h => hook'[h2] = hook[h2]
          /\ hook'[h].trim = "tally" /\ hook[h].trim = "fill"
      BY <1>6 DEF WriteTrimmed, FillWith, TypeOK, HookState
    <2>2. /\ files'[g] = Kept(h) /\ \A f \in Files : f # g => files'[f] = files[f]
          /\ \A f \in Files : trimmed[f] \subseteq trimmed'[f]
          /\ trimmed'[g] = trimmed[g] \cup (Entries(hook[h].snap) \ Entries(Kept(h)))
      BY <1>6, <2>0 DEF WriteTrimmed, FillWith, TypeOK
    <2>3. ASSUME NEW f \in Files, NEW e, Settled(f, e) PROVE Settled(f, e)'
      BY <1>6, <2>2, <2>3, SettledStays DEF WriteTrimmed, FillWith
    <2>4. ASSUME NEW f \in Files, NEW e, Safe(f, e)
          PROVE  Settled(f, e)' \/ Safe(f, e)'
      <3>1. InTrims(f, e)'
        BY <2>1, <2>4 DEF InTrims, Safe
      <3>2. CASE f = g /\ e \notin Entries(Kept(h))
        <4>1. e \in Entries(hook[h].snap)
          BY <2>1, <2>4, <3>2 DEF Safe, InTrims
        <4> QED BY <2>2, <3>2, <4>1 DEF Settled
      <3>3. CASE f = g /\ e \in Entries(Kept(h))
        BY <1>6, <2>2, <2>4, <3>1, <3>3 DEF Safe, InFlushes, InPasses, WriteTrimmed, FillWith
      <3>4. CASE f # g
        <4>1. InHands(f, e) => InHands(f, e)'
          BY <1>6, <2>1, <3>4 DEF InHands, WriteTrimmed, FillWith
        <4> QED BY <1>6, <2>2, <2>4, <3>1, <3>4, <4>1
                DEF Safe, InFlushes, InPasses, WriteTrimmed, FillWith
      <3> QED BY <3>2, <3>3, <3>4
    <2> QED BY <1>6, <2>3, <2>4, StillOwed DEF WriteTrimmed, FillWith
  <1>7. ASSUME NEW h \in Hooks, ReadDropped(h) PROVE Traced'
    <2> DEFINE r == [hook[h] EXCEPT !.trim = "store",
                                    !.seen = dropped[FileOf(hook[h].stage)]]
    <2>1. hook' = [hook EXCEPT ![h] = r]
      BY <1>7 DEF ReadDropped
    <2>2. r.trim = "store" /\ hook[h].trim = "tally"
      BY <1>7 DEF TypeOK, HookState, ReadDropped
    <2> HIDE DEF r
    <2> QED BY <1>7, <2>1, <2>2, QuietHook DEF ReadDropped
  <1>18. ASSUME NEW h \in Hooks, ClearDropped(h) PROVE Traced'
    <2> DEFINE r == [hook[h] EXCEPT !.trim = "total"]
    <2>1. hook' = [hook EXCEPT ![h] = r]
      BY <1>18 DEF ClearDropped
    <2>2. r.trim = "total" /\ hook[h].trim = "store"
      BY <1>18 DEF TypeOK, HookState, ClearDropped
    <2> HIDE DEF r
    <2> QED BY <1>18, <2>1, <2>2, QuietHook DEF ClearDropped
  <1>8. ASSUME NEW h \in Hooks, WriteDropped(h) PROVE Traced'
    BY <1>8, QuietHook DEF WriteDropped, HookAt
  <1>9. ASSUME NEW h \in Hooks, Kill(h) PROVE Traced'
    <2> DEFINE g == FileOf(hook[h].stage)
    <2>0. g \in Files
      BY StageTypes DEF TypeOK, HookState
    <2>1. CASE hook[h].trim # "fill"
      <3>1. UNCHANGED torn
        BY <1>9, <2>1 DEF Kill, HooksWriting
      <3> QED BY <1>9, <2>1, <3>1, QuietHook DEF Kill, HookAt
    <2>2. CASE hook[h].trim = "fill"
      <3>1. \A f \in Files : torn'[f] = IF f = g THEN torn[f] \cup Entries(hook[h].snap)
                                                ELSE torn[f]
        BY <1>9, <2>0, <2>2 DEF Kill, HooksWriting, TypeOK
      <3>2. /\ \A h2 \in Hooks : h2 # h => hook'[h2] = hook[h2]
            /\ hook'[h].trim = "none"
        BY <1>9 DEF Kill, TypeOK, HookAt
      <3>3. ASSUME NEW f \in Files, NEW e \in Owed(f) \ torn'[f], Safe(f, e)
            PROVE  Safe(f, e)'
        <4>1. f # g
          BY <2>2, <3>1, <3>3 DEF Safe, InTrims
        <4>2. InHands(f, e) => InHands(f, e)'
          BY <1>9, <3>2, <4>1 DEF InHands, Kill
        <4>3. InTrims(f, e)'
          BY <3>2, <3>3 DEF Safe, InTrims
        <4> QED BY <1>9, <3>3, <4>2, <4>3 DEF Safe, InFlushes, InPasses, Kill
      <3> QED BY <1>0, <1>9, <3>1, <3>3 DEF Kill
    <2> QED BY <2>1, <2>2
  <1>10. ASSUME NEW s \in Sessions, FlushRead(s) PROVE Traced'
    <2>1. CASE UNCHANGED torn /\ flush' = [flush EXCEPT ![s].pc = "done"]
      <3>1. \A s2 \in Sessions : flush'[s2].pc = "sending" => flush'[s2] = flush[s2]
        BY <2>1 DEF TypeOK, FlushState
      <3>2. \A f \in Files : \A e : Safe(f, e) => Safe(f, e)'
        BY <1>10, <3>1 DEF Safe, InHands, InTrims, InFlushes, InPasses, FlushRead
      <3> QED BY <1>0, <1>10, <2>1, <3>2 DEF FlushRead
    <2>2. CASE /\ Missed("spool")
               /\ flush' = [flush EXCEPT ![s].pc = "sending", ![s].snap = files["spool"]]
      <3>1. /\ \A s2 \in Sessions : s2 # s => flush'[s2] = flush[s2]
            /\ flush'[s].snap = files["spool"]
        BY <2>2 DEF TypeOK, FlushState
      <3>2. /\ \A f \in Files : torn[f] \subseteq torn'[f]
            /\ \A e : Safe("spool", e) /\ e \notin torn'["spool"]
                         => e \in Entries(files["spool"])
        BY <2>2, MissedTears DEF Files
      <3>3. ASSUME NEW f \in Files, NEW e \in Owed(f) \ torn'[f], Safe(f, e)
            PROVE  Safe(f, e)'
        <4>1. f = "spool" => InFlushes(e)'
          BY <3>1, <3>2, <3>3 DEF InFlushes, Safe
        <4>2. InHands(f, e)' = InHands(f, e)
          BY <1>10 DEF InHands, FlushRead
        <4> QED BY <1>10, <3>3, <4>1, <4>2 DEF Safe, InTrims, InPasses, FlushRead
      <3> QED BY <1>0, <1>10, <3>2, <3>3 DEF FlushRead
    <2> QED BY <1>10, <2>1, <2>2 DEF FlushRead
  <1>11. ASSUME NEW s \in Sessions, FlushSend(s) PROVE Traced'
    <2>0. flush[s].snap \in Seq(Entry) /\ flush[s].snap # <<>>
      BY <1>11 DEF FlushSend, TypeOK, FlushState
    <2>x. PICK x : x = Head(flush[s].snap)
      OBVIOUS
    <2>1. Entries(flush[s].snap) \subseteq {x} \cup Entries(Tail(flush[s].snap))
      BY <2>0, <2>x, TailEntries
    <2> SUFFICES ASSUME NEW f \in Files, NEW e \in Owed(f)
                 PROVE  Settled(f, e) \/ Safe(f, e) => Settled(f, e)' \/ Safe(f, e)'
      BY <1>11, StillOwed DEF FlushSend
    <2>2. stored \subseteq stored'
      BY <1>11 DEF FlushSend
    <2>3. Settled(f, e) => Settled(f, e)'
      BY <1>11, <2>2, SettledStays DEF FlushSend
    <2>4. /\ \A s2 \in Sessions : s2 # s => flush'[s2] = flush[s2]
          /\ flush'[s].snap = Tail(flush[s].snap)
          /\ flush'[s].failed \/ /\ flush'[s].failed = flush[s].failed
                                 /\ IsStored(x)'
          /\ flush'[s].pc = flush[s].pc
      <3>1. CASE flush' = [flush EXCEPT ![s].snap = Tail(@), ![s].failed = TRUE]
        BY <3>1 DEF TypeOK, FlushState
      <3>2. CASE /\ flush' = [flush EXCEPT ![s].snap = Tail(@)]
                 /\ \E pr : stored' = stored \cup {RowIn(x, pr)}
        <4>1. PICK pr : stored' = stored \cup {RowIn(x, pr)}
          BY <3>2
        <4>2. RowIn(x, pr) \in stored' /\ RowIn(x, pr).ev = x.ev
              /\ RowIn(x, pr).request = x.request
          BY <4>1 DEF RowIn
        <4>3. IsStored(x)'
          BY <4>2 DEF IsStored
        <4> QED BY <3>2, <4>3 DEF TypeOK, FlushState
      <3> QED BY <1>11, <2>x, <3>1, <3>2 DEF FlushSend
    <2>5. ASSUME Safe(f, e) PROVE Settled(f, e)' \/ Safe(f, e)'
      <3>1. CASE f = "spool" /\ e = x /\ IsStored(x)'
        BY <3>1 DEF Settled
      <3>2. CASE ~(f = "spool" /\ e = x /\ IsStored(x)')
        <4>1. f = "spool" => InFlushes(e)'
          BY <1>11, <2>1, <2>4, <2>5, <3>2 DEF InFlushes, Safe, IsStored, FlushSend
        <4>2. InHands(f, e)' = InHands(f, e)
          BY <1>11 DEF InHands, FlushSend
        <4> QED BY <1>11, <2>5, <4>1, <4>2 DEF Safe, InTrims, InPasses, FlushSend
      <3> QED BY <3>1, <3>2
    <2> QED BY <2>3, <2>5
  <1>12. ASSUME NEW s \in Sessions, FlushEnd(s) PROVE Traced'
    <2>1. \A s2 \in Sessions : flush'[s2].pc = "sending" => flush'[s2] = flush[s2]
      BY <1>12 DEF FlushEnd, TypeOK, FlushState
    <2>2. ASSUME NEW f \in Files, NEW e, Safe(f, e) PROVE Safe(f, e)'
      <3>1. f = "spool" => flush[s].failed
        BY <1>12, <2>2 DEF Safe, InFlushes, FlushEnd, Entries
      <3>2. files'[f] = files[f]
        BY <1>12, <3>1 DEF FlushEnd, SpoolAfter, TypeOK, Files
      <3>3. InHands(f, e)' = InHands(f, e)
        BY <1>12 DEF InHands, FlushEnd
      <3> QED BY <1>12, <2>1, <2>2, <3>2, <3>3 DEF Safe, InTrims, InFlushes, InPasses, FlushEnd
    <2> QED BY <1>0, <1>12, <2>2 DEF FlushEnd
  <1>13. ASSUME NEW p \in Passes, PassRead(p) PROVE Traced'
    <2>1. /\ \A p2 \in Passes : p2 # p => pass'[p2] = pass[p2]
          /\ pass'[p].snap = files["queue"] /\ pass'[p].pc = "draining"
          /\ pass[p].pc = "idle"
      BY <1>13 DEF PassRead, TypeOK, PassState
    <2>2. /\ \A f \in Files : torn[f] \subseteq torn'[f]
          /\ \A e : Safe("queue", e) /\ e \notin torn'["queue"]
                       => e \in Entries(files["queue"])
      BY <1>13, MissedTears DEF PassRead, Files
    <2>3. ASSUME NEW f \in Files, NEW e \in Owed(f) \ torn'[f], Safe(f, e)
          PROVE  Safe(f, e)'
      <3>1. f = "queue" => InPasses(e)'
        BY <2>1, <2>2, <2>3 DEF InPasses, Safe
      <3>2. InHands(f, e) => InHands(f, e)'
        BY <1>13, <2>1 DEF InHands, PassRead
      <3> QED BY <1>13, <2>3, <3>1, <3>2 DEF Safe, InTrims, InFlushes, PassRead
    <2> QED BY <1>0, <1>13, <2>2, <2>3 DEF PassRead
  <1>14. ASSUME NEW p \in Passes, PassEntry(p) PROVE Traced'
    <2> DEFINE x == Head(pass[p].snap)
    <2>0. pass[p].snap \in Seq(Entry) /\ pass[p].snap # <<>> /\ pass[p].kept \in Seq(Entry)
      BY <1>14 DEF PassEntry, TypeOK, PassState
    <2>1. x \in Entry /\ Entries(pass[p].snap) \subseteq {x} \cup Entries(Tail(pass[p].snap))
      BY <2>0, TailEntries
    <2>2. Entries(Append(pass[p].kept, x)) = Entries(pass[p].kept) \cup {x}
      BY <2>0, <2>1, AppendEntries
    <2> SUFFICES ASSUME NEW f \in Files, NEW e \in Owed(f)
                 PROVE  Settled(f, e) \/ Safe(f, e) => Settled(f, e)' \/ Safe(f, e)'
      BY <1>14, StillOwed DEF PassEntry
    <2>3. Settled(f, e) => Settled(f, e)'
      BY <1>14, SettledStays DEF PassEntry
    <2>4. /\ \A p2 \in Passes : p2 # p => pass'[p2] = pass[p2]
          /\ pass'[p].snap = Tail(pass[p].snap)
          /\ pass[p].pc = "draining" /\ pass'[p].pc = "draining"
          /\ \/ x.ev \in verdicts' /\ pass'[p].kept = pass[p].kept
             \/ pass'[p].kept = Append(pass[p].kept, x)
      BY <1>14 DEF PassEntry, TypeOK, PassState
    <2> HIDE DEF x
    <2>5. ASSUME Safe(f, e) PROVE Settled(f, e)' \/ Safe(f, e)'
      <3>1. CASE f = "queue" /\ e.ev \in verdicts'
        BY <3>1 DEF Settled
      <3>2. CASE ~(f = "queue" /\ e.ev \in verdicts')
        <4>1. ASSUME f = "queue", pass[p].pc = "draining"
              PROVE  e \in Entries(pass'[p].snap) \cup Entries(pass'[p].kept)
          <5>1. e \in Entries(pass[p].snap) \cup Entries(pass[p].kept)
            BY <2>5, <4>1 DEF Safe, InPasses
          <5> QED BY <2>1, <2>2, <2>4, <3>2, <4>1, <5>1
        <4>2. f = "queue" => InPasses(e)'
          BY <2>4, <2>5, <4>1 DEF InPasses, Safe
        <4>3. InHands(f, e) => InHands(f, e)'
          BY <1>14, <2>4 DEF InHands, PassEntry
        <4> QED BY <1>14, <2>5, <4>2, <4>3 DEF Safe, InTrims, InFlushes, PassEntry
      <3> QED BY <3>1, <3>2
    <2> QED BY <2>3, <2>5
  <1>15. ASSUME NEW p \in Passes, PassEnd(p) PROVE Traced'
    <2>1. /\ \A p2 \in Passes : p2 # p => pass'[p2] = pass[p2]
          /\ pass[p].pc = "draining" /\ pass[p].snap = <<>>
          /\ pass'[p].pc = IF pass[p].kept = <<>> THEN "idle" ELSE "writing"
          /\ pass'[p].kept = pass[p].kept
      BY <1>15 DEF PassEnd, TypeOK, PassState
    <2>2. ASSUME NEW f \in Files, NEW e, Safe(f, e) PROVE Safe(f, e)'
      <3>1. f = "queue" => e \in Entries(pass[p].kept) /\ pass[p].kept # <<>>
        BY <2>1, <2>2 DEF Safe, InPasses, Entries
      <3>2. f = "queue" => InPasses(e)' /\ InHands(f, e)'
        BY <2>1, <2>2, <3>1 DEF InPasses, InHands, Safe
      <3>3. f # "queue" => files'[f] = files[f] /\ InHands(f, e)' = InHands(f, e)
        BY <1>15 DEF PassEnd, TypeOK, InHands
      <3> QED BY <1>15, <2>2, <3>2, <3>3 DEF Safe, InTrims, InFlushes, PassEnd
    <2> QED BY <1>0, <1>15, <2>2 DEF PassEnd
  <1>19. ASSUME NEW p \in Passes, PassWrite(p) PROVE Traced'
    <2>1. /\ \A p2 \in Passes : p2 # p => pass'[p2] = pass[p2]
          /\ pass[p].pc = "writing" /\ pass'[p].pc = "idle"
          /\ files'["queue"] = pass[p].kept
      BY <1>19 DEF PassWrite, TypeOK, PassState, Files
    <2>2. ASSUME NEW f \in Files, NEW e, Safe(f, e) PROVE Safe(f, e)'
      <3>1. f = "queue" => e \in Entries(files'["queue"]) /\ InPasses(e)'
        BY <2>1, <2>2 DEF Safe, InPasses
      <3>3. f # "queue" => files'[f] = files[f] /\ InHands(f, e)' = InHands(f, e)
        BY <1>19 DEF PassWrite, TypeOK, InHands
      <3> QED BY <1>19, <2>2, <3>1, <3>3 DEF Safe, InTrims, InFlushes, PassWrite
    <2> QED BY <1>0, <1>19, <2>2 DEF PassWrite
  <1>20. ASSUME NEW p \in Passes, KillPass(p) PROVE Traced'
    <2>1. /\ \A p2 \in Passes : p2 # p => pass'[p2] = pass[p2]
          /\ pass'[p].pc = "idle"
      BY <1>20 DEF KillPass, TypeOK
    <2>2. /\ \A f \in Files : torn[f] \subseteq torn'[f]
          /\ pass[p].pc = "writing" => Entries(pass[p].kept) \subseteq torn'["queue"]
      BY <1>20 DEF KillPass, TypeOK, PassesWriting, Files
    <2>3. ASSUME NEW f \in Files, NEW e \in Owed(f) \ torn'[f], Safe(f, e)
          PROVE  Safe(f, e)'
      <3>1. f = "queue" => InPasses(e)'
        BY <2>1, <2>3 DEF Safe, InPasses
      <3>2. f = "queue" => pass[p].pc # "writing"
        BY <2>2, <2>3 DEF Safe, InPasses
      <3>3. InHands(f, e) => InHands(f, e)'
        BY <1>20, <2>1, <3>2 DEF InHands, KillPass
      <3> QED BY <1>20, <2>3, <3>1, <3>3 DEF Safe, InTrims, InFlushes, KillPass
    <2> QED BY <1>0, <1>20, <2>2, <2>3 DEF KillPass
  <1>16. CASE UNCHANGED vars
    BY <1>16 DEF vars, Traced, Owed, Settled, IsStored, Safe, InHands, InTrims, InFlushes, InPasses
  <1> QED BY <1>1, <1>2, <1>3, <1>4, <1>5, <1>6, <1>7, <1>8, <1>9, <1>10,
             <1>11, <1>12, <1>13, <1>14, <1>15, <1>16, <1>17, <1>18, <1>19,
             <1>20 DEF Next

(* Whatever interleaves, fails, repeats or is killed, an entry leaves the  *)
(* spool or the queue only for a reason that is on record, unless it was   *)
(* appended while another process was about to rewrite the file, or a      *)
(* rewrite was killed, or read by another writer, between emptying the     *)
(* file and writing it.                                                    *)
THEOREM NothingLostSilently == Spec => []NoSilentLoss
  <1>1. Init => Traced
    BY DEF Init, Traced, Owed, Files
  <1>2. Traced => NoSilentLoss
    BY MidWriteIs DEF Traced, Owed, NoSilentLoss, Safe
  <1> QED BY <1>1, <1>2, InitType, StepType, StepTraced, PTL DEF Spec

-----------------------------------------------------------------------------
LEMMA UntrimmedFinite == IsFiniteSet(Untrimmed) /\ Cardinality(Untrimmed) \in Nat
  <1>1. Untrimmed \subseteq Hooks
    BY DEF Untrimmed
  <1> QED BY <1>1, CaptureAssumption, FS_Subset, FS_CardinalityType

(* Neither the file nor the set of hooks still to trim gets worse.         *)
LEMMA NoWorse ==
    ASSUME TypeOK, TypeOK', SpoolBounded, Len(files'["spool"]) <= Len(files["spool"]),
           Untrimmed \subseteq Untrimmed', IsFiniteSet(Untrimmed'),
           Cardinality(Untrimmed') \in Nat
    PROVE  SpoolBounded'
  <1>1. Cardinality(Untrimmed) <= Cardinality(Untrimmed')
    BY FS_Subset
  <1>2. Len(files["spool"]) \in Nat /\ Len(files'["spool"]) \in Nat
    BY DEF TypeOK, Files
  <1> QED BY <1>1, <1>2, UntrimmedFinite, CaptureAssumption DEF SpoolBounded

LEMMA StepBounded ==
    TypeOK /\ TrimOK /\ SpoolBounded /\ [Next]_vars /\ TypeOK' => SpoolBounded'
  <1> SUFFICES ASSUME TypeOK, TrimOK, SpoolBounded, [Next]_vars, TypeOK'
               PROVE  SpoolBounded'
    OBVIOUS
  <1>a. IsFiniteSet(Untrimmed) /\ Cardinality(Untrimmed) \in Nat
    BY UntrimmedFinite
  <1>b. Untrimmed' \subseteq Hooks
    BY DEF Untrimmed
  <1>c. IsFiniteSet(Untrimmed') /\ Cardinality(Untrimmed') \in Nat
    BY <1>b, CaptureAssumption, FS_Subset, FS_CardinalityType
  <1>d. Len(files["spool"]) \in Nat /\ Len(files'["spool"]) \in Nat
    BY DEF TypeOK, Files
  <1>e. ASSUME Len(files'["spool"]) <= MaxEntries + TrimSlack PROVE SpoolBounded'
    BY <1>c, <1>d, <1>e, CaptureAssumption DEF SpoolBounded
  <1>f. ASSUME Len(files'["spool"]) <= Len(files["spool"]), Untrimmed \subseteq Untrimmed'
        PROVE  SpoolBounded'
    BY <1>c, <1>f, NoWorse
  <1>1. ASSUME NEW h \in Hooks, Begin(h) PROVE SpoolBounded'
    <2>1. Untrimmed \subseteq Untrimmed'
      BY <1>1 DEF Begin, Untrimmed, TypeOK, HookState
    <2> QED BY <1>1, <1>d, <1>f, <2>1 DEF Begin
  <1>2. ASSUME NEW h \in Hooks, Post(h) PROVE SpoolBounded'
    <2>1. Untrimmed \subseteq Untrimmed'
      BY <1>2 DEF Post, Untrimmed, TypeOK, HookState
    <2> QED BY <1>2, <1>d, <1>f, <2>1 DEF Post
  <1>3. ASSUME NEW h \in Hooks, AppendLine(h) PROVE SpoolBounded'
    <2>1. CASE hook[h].stage = "enqueue"
      <3>1. Untrimmed \subseteq Untrimmed'
        BY <1>3, <2>1 DEF AppendLine, Untrimmed, TypeOK, HookState
      <3>2. files'["spool"] = files["spool"]
        BY <1>3, <2>1 DEF AppendLine, TypeOK, Files, FileOf
      <3> QED BY <1>d, <1>f, <3>1, <3>2
    <2>2. CASE hook[h].stage # "enqueue"
      <3>1. Untrimmed' = Untrimmed \cup {h} /\ h \notin Untrimmed
        BY <1>3, <2>2 DEF AppendLine, Untrimmed, TypeOK, HookState
      <3>2. Cardinality(Untrimmed') = Cardinality(Untrimmed) + 1
        BY <1>a, <3>1, FS_AddElement
      <3>3. Len(files'["spool"]) = Len(files["spool"]) + 1
        BY <1>3, <2>2 DEF AppendLine, TypeOK, Files, FileOf
      <3> QED BY <1>a, <1>d, <3>2, <3>3, CaptureAssumption DEF SpoolBounded
    <2> QED BY <2>1, <2>2
  <1>4. ASSUME NEW h \in Hooks, CountLines(h) PROVE SpoolBounded'
    <2>1. UNCHANGED files
      BY <1>4 DEF CountLines, TooLong
    <2>2. CASE FileOf(hook[h].stage) = "spool"
               /\ Len(files["spool"]) <= MaxEntries + TrimSlack
      BY <1>e, <2>1, <2>2
    <2>3. CASE ~(FileOf(hook[h].stage) = "spool"
                 /\ Len(files["spool"]) <= MaxEntries + TrimSlack)
      <3>1. Untrimmed \subseteq Untrimmed'
        <4>1. FileOf(hook[h].stage) = "spool" => hook' = [hook EXCEPT ![h].trim = "read"]
          BY <1>4, <1>d, <2>3, CaptureAssumption DEF CountLines, TooLong
        <4>2. hook[h].trim = "count" /\ \A h2 \in Hooks : h2 # h => hook'[h2] = hook[h2]
          BY <1>4 DEF CountLines, TypeOK
        <4>3. ASSUME h \in Untrimmed PROVE h \in Untrimmed'
          <5>1. hook' = [hook EXCEPT ![h].trim = "read"]
            BY <4>1, <4>3 DEF Untrimmed, FileOf
          <5>2. hook'[h].stage = hook[h].stage /\ hook'[h].trim = "read"
            BY <5>1 DEF TypeOK, HookState
          <5> QED BY <4>3, <5>2 DEF Untrimmed
        <4>4. \A h2 \in Hooks \ {h} : h2 \in Untrimmed => h2 \in Untrimmed'
          BY <4>2 DEF Untrimmed
        <4> QED BY <4>3, <4>4 DEF Untrimmed
      <3> QED BY <1>d, <1>f, <2>1, <3>1
    <2> QED BY <2>2, <2>3
  <1>5. ASSUME NEW h \in Hooks, ReadForTrim(h) PROVE SpoolBounded'
    <2>1. UNCHANGED files
      BY <1>5 DEF ReadForTrim
    <2>2. CASE FileOf(hook[h].stage) = "spool" /\ Len(files["spool"]) <= MaxEntries
      BY <1>d, <1>e, <2>1, <2>2, CaptureAssumption
    <2>3. CASE ~(FileOf(hook[h].stage) = "spool" /\ Len(files["spool"]) <= MaxEntries)
      <3>1. /\ hook[h].trim = "read" /\ \A h2 \in Hooks : h2 # h => hook'[h2] = hook[h2]
            /\ FileOf(hook[h].stage) = "spool" => /\ hook'[h].stage = hook[h].stage
                                                  /\ hook'[h].trim = "write"
        BY <1>5, <1>d, <2>3, CaptureAssumption DEF ReadForTrim, TypeOK, HookState
      <3>2. Untrimmed \subseteq Untrimmed'
        BY <3>1 DEF Untrimmed, FileOf
      <3> QED BY <1>d, <1>f, <2>1, <3>2
    <2> QED BY <2>2, <2>3
  <1>17. ASSUME NEW h \in Hooks, Truncate(h) PROVE SpoolBounded'
    <2> DEFINE g == FileOf(hook[h].stage)
    <2>1. CASE g = "spool"
      <3>1. files'["spool"] = <<>>
        BY <1>17, <2>1 DEF Truncate, TypeOK, Files
      <3> QED BY <1>e, <3>1, CaptureAssumption
    <2>2. CASE g # "spool"
      <3>1. files'["spool"] = files["spool"]
        BY <1>17, <2>2 DEF Truncate, TypeOK, Files
      <3>2. Untrimmed \subseteq Untrimmed'
        BY <1>17, <2>2 DEF Truncate, Untrimmed, TypeOK, HookState, FileOf
      <3> QED BY <1>d, <1>f, <3>1, <3>2
    <2> QED BY <2>1, <2>2
  <1>6. ASSUME NEW h \in Hooks, WriteTrimmed(h) PROVE SpoolBounded'
    <2> DEFINE g == FileOf(hook[h].stage)
    <2>1. Len(Kept(h)) = MaxEntries /\ g \in Files
      BY <1>6, StageTypes, KeptType DEF TypeOK, HookState, WriteTrimmed, FillWith
    <2>2. CASE g = "spool"
      <3>1. files'["spool"] = Kept(h)
        BY <1>6, <2>2 DEF WriteTrimmed, FillWith, TypeOK, Files
      <3> QED BY <1>e, <2>1, <3>1, CaptureAssumption
    <2>3. CASE g # "spool"
      <3>1. files'["spool"] = files["spool"]
        BY <1>6, <2>1, <2>3 DEF WriteTrimmed, FillWith, TypeOK, Files
      <3>2. Untrimmed \subseteq Untrimmed'
        BY <1>6, <2>3 DEF WriteTrimmed, FillWith, Untrimmed, TypeOK, HookState, FileOf
      <3> QED BY <1>d, <1>f, <3>1, <3>2
    <2> QED BY <2>2, <2>3
  <1>7. ASSUME NEW h \in Hooks, ReadDropped(h) PROVE SpoolBounded'
    <2>1. Untrimmed \subseteq Untrimmed'
      BY <1>7 DEF ReadDropped, Untrimmed, TypeOK, HookState
    <2> QED BY <1>7, <1>d, <1>f, <2>1 DEF ReadDropped
  <1>18. ASSUME NEW h \in Hooks, ClearDropped(h) PROVE SpoolBounded'
    <2>1. hook[h].trim = "store" /\ \A h2 \in Hooks : h2 # h => hook'[h2] = hook[h2]
      BY <1>18 DEF ClearDropped, TypeOK
    <2>2. hook'[h].stage = hook[h].stage
      BY <1>18 DEF ClearDropped, TypeOK, HookState
    <2>3. Untrimmed \subseteq Untrimmed'
      <3>1. h \in Untrimmed => h \in Untrimmed'
        BY <2>1, <2>2 DEF Untrimmed
      <3>2. \A h2 \in Hooks \ {h} : h2 \in Untrimmed => h2 \in Untrimmed'
        BY <2>1 DEF Untrimmed
      <3> QED BY <3>1, <3>2 DEF Untrimmed
    <2> QED BY <1>18, <1>d, <1>f, <2>3 DEF ClearDropped
  <1>8. ASSUME NEW h \in Hooks, WriteDropped(h) PROVE SpoolBounded'
    <2>1. Untrimmed \subseteq Untrimmed'
      <3>1. h \notin Untrimmed
        BY <1>8 DEF WriteDropped, Untrimmed, TrimOK
      <3>2. \A h2 \in Hooks \ {h} : hook'[h2] = hook[h2]
        BY <1>8 DEF WriteDropped, TypeOK
      <3> QED BY <3>1, <3>2 DEF Untrimmed
    <2> QED BY <1>8, <1>d, <1>f, <2>1 DEF WriteDropped
  <1>9. ASSUME NEW h \in Hooks, Kill(h) PROVE SpoolBounded'
    <2>1. Untrimmed \subseteq Untrimmed'
      BY <1>9 DEF Kill, Untrimmed, TypeOK, HookAt
    <2> QED BY <1>9, <1>d, <1>f, <2>1 DEF Kill
  <1>10. ASSUME NEW s \in Sessions, FlushRead(s) PROVE SpoolBounded'
    BY <1>10, <1>d, <1>f DEF FlushRead, Untrimmed
  <1>11. ASSUME NEW s \in Sessions, FlushSend(s) PROVE SpoolBounded'
    BY <1>11, <1>d, <1>f DEF FlushSend, Untrimmed
  <1>12. ASSUME NEW s \in Sessions, FlushEnd(s) PROVE SpoolBounded'
    <2>1. Len(files'["spool"]) <= Len(files["spool"])
      BY <1>12, <1>d DEF FlushEnd, SpoolAfter, TypeOK, Files
    <2> QED BY <1>12, <1>d, <1>f, <2>1 DEF FlushEnd, Untrimmed
  <1>13. ASSUME NEW p \in Passes, PassRead(p) PROVE SpoolBounded'
    BY <1>13, <1>d, <1>f DEF PassRead, Untrimmed
  <1>14. ASSUME NEW p \in Passes, PassEntry(p) PROVE SpoolBounded'
    BY <1>14, <1>d, <1>f DEF PassEntry, Untrimmed
  <1>15. ASSUME NEW p \in Passes, PassEnd(p) PROVE SpoolBounded'
    <2>1. files'["spool"] = files["spool"]
      BY <1>15 DEF PassEnd, TypeOK, Files
    <2> QED BY <1>15, <1>d, <1>f, <2>1 DEF PassEnd, Untrimmed
  <1>19. ASSUME NEW p \in Passes, PassWrite(p) PROVE SpoolBounded'
    <2>1. files'["spool"] = files["spool"]
      BY <1>19 DEF PassWrite, TypeOK, Files
    <2> QED BY <1>19, <1>d, <1>f, <2>1 DEF PassWrite, Untrimmed
  <1>20. ASSUME NEW p \in Passes, KillPass(p) PROVE SpoolBounded'
    BY <1>20, <1>d, <1>f DEF KillPass, Untrimmed
  <1>16. CASE UNCHANGED vars
    BY <1>16, <1>d, <1>f DEF vars, Untrimmed
  <1> QED BY <1>1, <1>2, <1>3, <1>4, <1>5, <1>6, <1>7, <1>8, <1>9, <1>10,
             <1>11, <1>12, <1>13, <1>14, <1>15, <1>16, <1>17, <1>18, <1>19,
             <1>20 DEF Next

(* The spool stays within cap and slack up to one line per hook that is    *)
(* still to trim or was killed, for any number of concurrent hooks.        *)
THEOREM SpoolStaysBounded == Spec => []SpoolBounded
  <1>1. Init => SpoolBounded
    BY CaptureAssumption, UntrimmedFinite DEF Init, SpoolBounded, Files
  <1> QED BY <1>1, InitType, StepType, StepBounded, PTL DEF Spec

-----------------------------------------------------------------------------
LEMMA StepProject == TypeOK /\ TrimOK /\ OwnProject /\ [Next]_vars => OwnProject'
  <1> SUFFICES ASSUME TypeOK, OwnProject, [Next]_vars PROVE OwnProject'
    OBVIOUS
  <1>1. ASSUME NEW h \in Hooks, Post(h) PROVE OwnProject'
    BY <1>1 DEF Post, OwnProject, RowIn, Posted
  <1>2. ASSUME NEW s \in Sessions, FlushSend(s) PROVE OwnProject'
    BY <1>2 DEF FlushSend, OwnProject, RowIn, ProjectFor
  <1>3. CASE stored' = stored
    BY <1>3 DEF OwnProject
  <1> QED BY <1>1, <1>2, <1>3
      DEF Next, vars, Begin, AppendLine, CountLines, ReadForTrim, Truncate, WriteTrimmed,
          FillWith, ReadDropped, ClearDropped, WriteDropped, Kill, FlushRead, FlushEnd,
          PassRead, PassEntry, PassEnd, PassWrite, KillPass

(* An event that named its project keeps it, whichever session replays it. *)
THEOREM ProjectsKept == Spec => []OwnProject
  <1>1. Init => OwnProject
    BY DEF Init, OwnProject
  <1> QED BY <1>1, InitType, StepType, StepProject, PTL DEF Spec

LEMMA StepShow == TypeOK /\ TrimOK /\ DropsShow /\ [Next]_vars => DropsShow'
  <1> SUFFICES ASSUME TypeOK, TrimOK, DropsShow, [Next]_vars PROVE DropsShow'
    OBVIOUS
  <1>1. ASSUME NEW h \in Hooks, UNCHANGED <<dropped, trimmed, uncounted>>,
               ~Counting(h),
               \A h2 \in Hooks \ {h} : hook'[h2] = hook[h2]
        PROVE  DropsShow'
    BY <1>1 DEF DropsShow, Counting
  <1>2. ASSUME NEW h \in Hooks, \/ Begin(h) \/ Post(h) \/ AppendLine(h) \/ CountLines(h)
                                \/ ReadForTrim(h) \/ Truncate(h)
        PROVE  DropsShow'
    <2>1. ~Counting(h)
      BY <1>2 DEF Begin, Post, AppendLine, CountLines, ReadForTrim, Truncate, Counting,
                  TrimOK, TypeOK, HookState
    <2>2. \A h2 \in Hooks \ {h} : hook'[h2] = hook[h2]
      BY <1>2 DEF Begin, Post, AppendLine, CountLines, ReadForTrim, Truncate, TypeOK
    <2> QED BY <1>1, <1>2, <2>1, <2>2
            DEF Begin, Post, AppendLine, CountLines, ReadForTrim, Truncate
  <1>3. ASSUME NEW h \in Hooks, WriteTrimmed(h) PROVE DropsShow'
    <2>1. /\ hook'[h].trim = "tally" /\ hook'[h].stage = hook[h].stage
          /\ \A h2 \in Hooks \ {h} : hook'[h2] = hook[h2]
          /\ hook[h].trim = "fill"
      BY <1>3 DEF WriteTrimmed, FillWith, TypeOK, HookState
    <2>2. \A f \in Files : f # FileOf(hook[h].stage) => trimmed'[f] = trimmed[f]
      BY <1>3 DEF WriteTrimmed, FillWith, TypeOK
    <2>3. UNCHANGED <<dropped, uncounted>>
      BY <1>3 DEF WriteTrimmed, FillWith
    <2> QED BY <2>1, <2>2, <2>3 DEF DropsShow, Counting
  <1>4. ASSUME NEW h \in Hooks, ReadDropped(h) PROVE DropsShow'
    <2>1. /\ hook'[h].trim = "store" /\ hook'[h].stage = hook[h].stage
          /\ \A h2 \in Hooks \ {h} : hook'[h2] = hook[h2]
      BY <1>4 DEF ReadDropped, TypeOK, HookState
    <2> QED BY <1>4, <2>1 DEF DropsShow, ReadDropped, Counting
  <1>8. ASSUME NEW h \in Hooks, ClearDropped(h) PROVE DropsShow'
    <2>1. /\ hook'[h].trim = "total" /\ hook'[h].stage = hook[h].stage
          /\ \A h2 \in Hooks \ {h} : hook'[h2] = hook[h2]
          /\ hook[h].trim = "store"
      BY <1>8 DEF ClearDropped, TypeOK, HookState
    <2>2. /\ \A f \in Files : f # FileOf(hook[h].stage) => dropped'[f] = dropped[f]
          /\ UNCHANGED <<trimmed, uncounted>>
      BY <1>8 DEF ClearDropped, TypeOK
    <2> QED BY <2>1, <2>2 DEF DropsShow, Counting
  <1>5. ASSUME NEW h \in Hooks, WriteDropped(h) PROVE DropsShow'
    <2>1. /\ hook[h].seen \in Nat /\ hook[h].snap \in Seq(Entry)
          /\ Len(hook[h].snap) > MaxEntries
          /\ FileOf(hook[h].stage) \in Files
      BY <1>5, StageTypes DEF WriteDropped, TypeOK, TrimOK, HookState
    <2>2. hook[h].seen + DroppedBy(h) > 0
      BY <2>1, CaptureAssumption DEF DroppedBy
    <2>3. dropped'[FileOf(hook[h].stage)] > 0
      BY <1>5, <2>1, <2>2 DEF WriteDropped, TypeOK
    <2>4. /\ \A f \in Files : f # FileOf(hook[h].stage) => dropped'[f] = dropped[f]
          /\ \A h2 \in Hooks \ {h} : hook'[h2] = hook[h2]
      BY <1>5 DEF WriteDropped, TypeOK
    <2> QED BY <1>5, <2>3, <2>4 DEF DropsShow, WriteDropped, Counting
  <1>6. ASSUME NEW h \in Hooks, Kill(h) PROVE DropsShow'
    <2>1. \A h2 \in Hooks \ {h} : hook'[h2] = hook[h2]
      BY <1>6 DEF Kill, TypeOK
    <2> QED BY <1>6, <2>1 DEF Kill, DropsShow, Counting
  <1>7. CASE UNCHANGED <<dropped, trimmed, uncounted, hook>>
    BY <1>7 DEF DropsShow, Counting
  <1> QED BY <1>2, <1>3, <1>4, <1>5, <1>6, <1>7, <1>8
      DEF Next, vars, FlushRead, FlushSend, FlushEnd, PassRead, PassEntry, PassEnd,
          PassWrite, KillPass

THEOREM DropsAlwaysShow == Spec => []DropsShow
  <1>1. Init => DropsShow
    BY DEF Init, DropsShow
  <1> QED BY <1>1, InitType, StepType, StepShow, PTL DEF Spec
=============================================================================
