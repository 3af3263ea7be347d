--------------------------- MODULE LocalChatProofs ---------------------------
(* Proofs about the provider session and the local chat service, for every  *)
(* set of requests, providers and frames and every bound.                   *)
EXTENDS LocalChat, TLAPS, SequenceTheorems

-----------------------------------------------------------------------------
(* The session                                                              *)

\* What a step of the service may do to the provider's session.
SessionChange ==
    \/ Spawn \/ ProcessWrites \/ ProcessExits \/ Supervisor
    \/ \E c \in Cancellers : CancelEnters(c) \/ CancelFinishes(c) \/ CancelAbandoned(c)
    \/ NoSession

(* Every step of the service either leaves the session alone or makes one   *)
(* of the session's own steps.                                              *)
LEMMA SessionSteps == [Next]_vars => SessionChange \/ UNCHANGED sessionVars
<1> SUFFICES ASSUME [Next]_vars PROVE SessionChange \/ UNCHANGED sessionVars
  OBVIOUS
<1>1. CASE UNCHANGED vars
  BY <1>1 DEF vars
<1>2. CASE SessionStep
  BY <1>2 DEF SessionStep, SessionChange
<1>3. ASSUME NEW q \in Requests, StartReplay(q) \/ StartBegin(q) \/ StartRefused(q)
      PROVE  UNCHANGED sessionVars
  BY <1>3 DEF StartReplay, StartBegin, StartRefused
<1>4. ASSUME NEW p \in Providers, BackendStart(p)
      PROVE  SessionChange \/ UNCHANGED sessionVars
  BY <1>4 DEF BackendStart, CodexStart, ClaudeStart, SessionChange
<1>5. ASSUME NEW q \in Requests, StartPersisted(q) \/ StartUnpersisted(q)
      PROVE  SessionChange \/ UNCHANGED sessionVars
  BY <1>4, <1>5 DEF StartPersisted, StartUnpersisted
<1>6. CASE PumpStep
  BY <1>6 DEF PumpStep, StreamEvent, StreamBlocks, StreamEnds, ApiStarted, ApiLine, ApiEnds,
              ApiFrame
<1>7. ASSUME NEW c \in Cancellers, ProcessCancelReturns(c)
      PROVE  SessionChange \/ UNCHANGED sessionVars
  BY <1>7 DEF ProcessCancelReturns, SessionChange
<1>8. CASE CancelStep \/ CancelDropped
  BY <1>7, <1>8 DEF CancelStep, CancelDropped, ProcessCancelEnters, CancelAccepted,
                    StreamUnblocks, StartUndone, ConsumerCleanup, SessionChange, Cancellers
<1>9. CASE ShutdownEnds \/ Crash
  BY <1>9 DEF ShutdownEnds, Crash, MemoryLost, SessionChange
<1>10. CASE PruneRow \/ CancelRequest \/ FollowOpens \/ FollowReads \/ ShutdownBegins
            \/ ShutdownCancelsPump \/ Restart
  BY <1>10 DEF PruneRow, CancelRequest, FollowOpens, FollowReads, ShutdownBegins,
               ShutdownCancelsPump, Restart
<1> QED
  BY <1>1, <1>2, <1>3, <1>5, <1>6, <1>8, <1>9, <1>10 DEF Next, ShutdownStep

(* The inductive invariant of the session: whoever holds the terminal lock  *)
(* found the session open, so the log has room for the terminal event that  *)
(* only the holder, or the supervisor when nobody holds it, may write.      *)
TerminalIn(s) == {i \in 1..Len(s) : s[i] \in TerminalKinds}
OneEnd(s) == \E i \in TerminalIn(s) : TerminalIn(s) = {i}
SessionInv ==
    /\ SessionTypeOK
    /\ lock \in Cancellers \cup {None, "fail"}
    /\ lock # None => ~terminal
    /\ IF terminal THEN OneEnd(log) ELSE TerminalIn(log) = {}
    /\ Len(log) <= IF terminal THEN MaxEvents ELSE MaxEvents - 1
    /\ sup = "done" => terminal
    /\ sup = "exiting" => proc # "alive"

(* An empty log has no terminal entry. *)
LEMMA EmptyLog == \A s : s = <<>> => TerminalIn(s) = {} /\ Len(s) = 0
<1>1. Len(<<>>) = 0 /\ 1..0 = {}
  OBVIOUS
<1> QED
  BY <1>1 DEF TerminalIn

(* A frame appended to a log leaves its terminal entries as they were. *)
LEMMA FrameIsNotTerminal ==
  ASSUME NEW s \in Seq(FrameKinds \cup TerminalKinds), NEW f \in FrameKinds
  PROVE  TerminalIn(Append(s, f)) = TerminalIn(s)
  BY SessionAssumption DEF TerminalIn, TerminalKinds

(* A terminal event appended to a log without one is its only one. *)
LEMMA TerminalIsOnly ==
  ASSUME NEW s \in Seq(FrameKinds \cup TerminalKinds), NEW k \in TerminalKinds,
         TerminalIn(s) = {}
  PROVE  OneEnd(Append(s, k))
<1>1. TerminalIn(Append(s, k)) = {Len(s) + 1}
  BY DEF TerminalIn
<1> QED
  BY <1>1 DEF OneEnd

(* AppendTerminal into an open session. *)
LEMMA AppendTerminalEnds ==
  ASSUME SessionInv, ~terminal, NEW k \in TerminalKinds, AppendTerminal(k)
  PROVE  /\ terminal' = TRUE
         /\ log' \in Seq(FrameKinds \cup TerminalKinds)
         /\ OneEnd(log') /\ Len(log') <= MaxEvents
<1>1. log \in Seq(FrameKinds \cup TerminalKinds) /\ TerminalIn(log) = {}
  BY DEF SessionInv, SessionTypeOK
<1>2. OneEnd(log')
  BY <1>1, TerminalIsOnly DEF AppendTerminal
<1> QED
  BY <1>1, <1>2, SessionAssumption DEF SessionInv, SessionTypeOK, AppendTerminal

(* Each of the session's steps keeps its invariant. *)
LEMMA SessionInvKept == SessionInv /\ (SessionChange \/ UNCHANGED sessionVars) => SessionInv'
<1> SUFFICES ASSUME SessionInv, SessionChange \/ UNCHANGED sessionVars
             PROVE  SessionInv'
  OBVIOUS
<1> USE SessionAssumption, ChatAssumption DEF SessionTypeOK
<1>1. CASE UNCHANGED sessionVars
  BY <1>1 DEF SessionInv, sessionVars, TerminalIn
<1>2. CASE Spawn
  BY <1>2 DEF SessionInv, Spawn, TerminalIn
<1>3. CASE ProcessWrites
  BY <1>3 DEF SessionInv, ProcessWrites, TerminalIn
<1>4. CASE ProcessExits
  BY <1>4 DEF SessionInv, ProcessExits, TerminalIn
<1>5. CASE ReadFrame
  <2>1. CASE FrameAccepted(Head(pipe))
    <3>1. Head(pipe) \in FrameKinds /\ Tail(pipe) \in Seq(FrameKinds)
      BY <1>5 DEF SessionInv, ReadFrame
    <3>2. log' = Append(log, Head(pipe)) /\ log \in Seq(FrameKinds \cup TerminalKinds)
      BY <1>5, <2>1 DEF SessionInv, ReadFrame
    <3>3. TerminalIn(log') = TerminalIn(log)
      BY <3>1, <3>2, FrameIsNotTerminal
    <3>4. Len(log') = Len(log) + 1 /\ log' \in Seq(FrameKinds \cup TerminalKinds)
      BY <3>1, <3>2
    <3>5. Len(log) \in Nat /\ Len(log) < MaxEvents - 1
      BY <2>1, <3>2 DEF FrameAccepted
    <3>6. OneEnd(log') = OneEnd(log)
      BY <3>3 DEF OneEnd
    <3> QED
      BY <1>5, <2>1, <3>1, <3>3, <3>4, <3>5, <3>6 DEF SessionInv, ReadFrame
  <2>2. CASE ~FrameAccepted(Head(pipe))
    BY <1>5, <2>2 DEF SessionInv, ReadFrame, TerminalIn
  <2> QED
    BY <2>1, <2>2
<1>6. CASE SuperviseFails \/ SuperviseEnds \/ FailEnters
  BY <1>6 DEF SessionInv, SuperviseFails, SuperviseEnds, FailEnters, TerminalIn
<1>7. CASE FailFinishes
  <2>1. ~terminal /\ "failed" \in TerminalKinds
    BY <1>7 DEF SessionInv, FailFinishes, TerminalKinds
  <2>2. AppendTerminal("failed")
    BY <1>7 DEF FailFinishes
  <2>3. proc' \in {"none", "alive", "exited0", "exited1", "killed"}
    BY <1>7 DEF SessionInv, FailFinishes, TerminateTree
  <2>4. /\ terminal' = TRUE /\ OneEnd(log') /\ Len(log') <= MaxEvents
        /\ log' \in Seq(FrameKinds \cup TerminalKinds)
    BY <2>1, <2>2, AppendTerminalEnds
  <2> QED
    BY <1>7, <2>3, <2>4 DEF SessionInv, FailFinishes
<1>8. CASE NaturalExit
  <2>1. CASE terminal
    BY <1>8, <2>1 DEF SessionInv, NaturalExit, AppendTerminal, TerminalIn
  <2>2. CASE ~terminal
    <3>1. PICK k \in TerminalKinds : AppendTerminal(k)
      BY <1>8, <2>2 DEF NaturalExit, TerminalKinds
    <3>2. /\ terminal' = TRUE /\ OneEnd(log') /\ Len(log') <= MaxEvents
          /\ log' \in Seq(FrameKinds \cup TerminalKinds)
      BY <2>2, <3>1, AppendTerminalEnds
    <3> QED
      BY <1>8, <3>2 DEF SessionInv, NaturalExit
  <2> QED
    BY <2>1, <2>2
<1>9. ASSUME NEW c \in Cancellers, CancelEnters(c)
      PROVE  SessionInv'
  BY <1>9 DEF SessionInv, CancelEnters, TerminalIn
<1>10. ASSUME NEW c \in Cancellers, CancelFinishes(c)
       PROVE  SessionInv'
  <2>1. ~terminal
    BY <1>10 DEF SessionInv, CancelFinishes
  <2>2. PICK k \in TerminalKinds : AppendTerminal(k)
    BY <1>10 DEF CancelFinishes, TerminalKinds
  <2>3. /\ terminal' = TRUE /\ OneEnd(log') /\ Len(log') <= MaxEvents
        /\ log' \in Seq(FrameKinds \cup TerminalKinds)
    BY <2>1, <2>2, AppendTerminalEnds
  <2>4. /\ proc' \in {"none", "alive", "exited0", "exited1", "killed"}
        /\ proc # "alive" => proc' # "alive"
    BY <1>10 DEF SessionInv, CancelFinishes, TerminateTree
  <2> QED
    BY <1>10, <2>3, <2>4 DEF SessionInv, CancelFinishes
<1>11. ASSUME NEW c \in Cancellers, CancelAbandoned(c)
       PROVE  SessionInv'
  BY <1>11 DEF SessionInv, CancelAbandoned, TerminalIn
<1>12. CASE NoSession
  <2>1. /\ pipe' \in Seq(FrameKinds) /\ log' \in Seq(FrameKinds \cup TerminalKinds)
        /\ written' \in 0..MaxFrames
    BY <1>12 DEF NoSession
  <2>2. TerminalIn(log') = {} /\ Len(log') = 0
    BY <1>12, EmptyLog DEF NoSession
  <2>3. Len(log') <= MaxEvents - 1
    BY <2>2
  <2>4. ~terminal' /\ terminal' \in BOOLEAN /\ cancelReason' \in BOOLEAN
    BY <1>12 DEF NoSession
  <2>5. proc' = "none" /\ lock' = None /\ sup' = "none"
    BY <1>12 DEF NoSession
  <2> QED
    BY <2>1, <2>2, <2>3, <2>4, <2>5 DEF SessionInv
<1> QED
  BY <1>1, <1>2, <1>3, <1>4, <1>5, <1>6, <1>7, <1>8, <1>9, <1>10, <1>11, <1>12
     DEF SessionChange, Supervisor

(* The invariant of the session holds in every behaviour of the service. *)
LEMMA SessionInvHolds == Spec => []SessionInv
<1>1. Init => SessionInv
  <2> SUFFICES ASSUME SessionInit PROVE SessionInv
    BY DEF Init
  <2>1. /\ pipe \in Seq(FrameKinds) /\ log \in Seq(FrameKinds \cup TerminalKinds)
        /\ written \in 0..MaxFrames
    BY SessionAssumption DEF SessionInit
  <2>2. TerminalIn(log) = {} /\ Len(log) = 0
    BY EmptyLog DEF SessionInit
  <2>3. Len(log) <= MaxEvents - 1
    BY <2>2, SessionAssumption
  <2>4. ~terminal /\ terminal \in BOOLEAN /\ cancelReason \in BOOLEAN
    BY DEF SessionInit
  <2>5. proc = "none" /\ lock = None /\ sup = "none"
    BY DEF SessionInit
  <2> QED
    BY <2>1, <2>2, <2>3, <2>4, <2>5 DEF SessionInv, SessionTypeOK
<1>2. SessionInv /\ [Next]_vars => SessionInv'
  BY SessionSteps, SessionInvKept
<1> QED
  BY <1>1, <1>2, PTL DEF Spec

(* However exit, cancel, timeout, protocol error and shutdown race for the  *)
(* terminal lock of process_session.py, the log of a session gets one       *)
(* terminal event, stays within max_events, and is terminal when its        *)
(* supervisor ends.                                                         *)
THEOREM SessionEndsOnceHolds == Spec => []SessionEndsOnce
<1>1. SessionInv => SessionEndsOnce
  BY SessionAssumption
     DEF SessionInv, SessionTypeOK, SessionEndsOnce, OneTerminalEvent, SupervisedToTheEnd, TerminalIn,
         OneEnd
<1> QED
  BY <1>1, SessionInvHolds, PTL

-----------------------------------------------------------------------------
(* The run in memory and in the store                                       *)

AdapterType ==
    [made : BOOLEAN, pos : Nat, done : BOOLEAN, closed : BOOLEAN, emitted : BOOLEAN,
     final : Outcomes \cup {None}]
Pumping == pump \in {"live", "blocked"}
Ours == provider \notin {None, "api"}       \* the provider is a command line program

(* Who may be at work: the tasks of a run exist only in the life of the     *)
(* service that started it, and a start in progress has neither record nor  *)
(* row beside it.                                                           *)
ControlType ==
    /\ provider \in Providers \cup {None}
    /\ pump \in {"none", "live", "blocked", "done"}
    /\ svc \in {"up", "stopping", "down"}
    /\ adapter \in AdapterType
    /\ rec \in RunRecords \cup {None} /\ row \in RunRecords \cup {None}
    /\ req \in [Requests -> {"idle", "starting", "undo", "ok", "conflict", "failed"}]
    /\ canceller \in [Cancellers -> {"off", "wants", "holds"}]
    /\ spawned \in Nat
ControlInv ==
    /\ ControlType
    /\ pump # "none" => rec # None /\ provider # None
    /\ adapter.made <=> Ours
    /\ \A c \in Cancellers : canceller[c] # "off" => Ours
    /\ canceller["stream"] # "off" => pump = "blocked"
    /\ pump = "blocked" => ~adapter.closed
    /\ adapter.closed => Ours /\ rec # None
    /\ \A q \in Requests : req[q] = "starting" => rec = None /\ row = None
    /\ \A p, q \in Starting : p = q
    /\ svc = "down" => rec = None /\ provider = None /\ Starting = {}
    /\ rec # None /\ rec.state = "running" => provider # None
    /\ rec = None /\ row # None /\ row.state = "running" => svc = "down"
    /\ provider # "api" => spawned = IF adapter.made THEN 1 ELSE 0

(* A process that is there was started by this life's adapter, the terminal *)
(* lock is held by a cancel at work, which belongs to a start, a shutdown   *)
(* or a stream in progress, and a terminal session of a process that would  *)
(* not stop says "failed".                                                  *)
ProcessInv ==
    /\ adapter.made <=> proc # "none"
    /\ \A c \in Cancellers : lock = c => canceller[c] = "holds"
    /\ Starting # {} => svc = "up"
    /\ canceller["undo"] # "off" => \E q \in Requests : req[q] = "undo"
    /\ canceller["shutdown"] # "off" => svc = "stopping"
    /\ canceller["consumer"] # "off" => svc = "stopping" /\ pump = "done"
    /\ proc = "none" => lock = None /\ ~terminal /\ sup = "none"
    /\ terminal /\ proc = "alive" => \E i \in 1..Len(log) : log[i] = "failed"

NoOutcome(r) == \A i \in 1..Len(r.events) : r.events[i][2] \notin Outcomes
EndsOnce(r) == \A i \in 1..Len(r.events) : r.events[i][2] \in Outcomes => i = Len(r.events)
Ascending(r) ==
    \A i, j \in 1..Len(r.events) : i < j => r.events[i][1] < r.events[j][1]

(* A pump that may still report an outcome has not stored one, and memory   *)
(* and store agree while it runs: every write that fails ends it.           *)
JournalInv ==
    /\ row # None =>
         /\ EndsOnce(row) /\ Ascending(row)
         /\ (Pumping /\ ~adapter.closed) \/ row.state = "running" => NoOutcome(row)
    /\ Pumping /\ row # None => rec.events = row.events

(* Until a write fails, memory and store agree on the run, its events are   *)
(* numbered from 1 on, a reader has a first part of them, and an outcome of *)
(* a Codex run has followed the end of its session.                         *)
Numbered(s) == \A i \in 1..Len(s) : s[i][1] = i
IsFirstPart(s, t) == Len(s) <= Len(t) /\ \A i \in 1..Len(s) : s[i] = t[i]
FollowerType == [open : BOOLEAN, asleep : BOOLEAN, at : Nat, got : Seq(Nat \X EventNames)]
InCodex == provider \in {"codexChat", "codexBuild"}
FaultFree ==
    /\ rec # None /\ row # None => rec.events = row.events /\ rec.state = row.state
    /\ rec # None /\ row = None => rec.state # "running"
    /\ rec = None => provider = None
    /\ row # None /\ row.state = "running" /\ svc = "up" => Pumping /\ ~adapter.closed
    /\ InCodex /\ rec # None /\ rec.state # "running" => terminal
    /\ follower \in FollowerType
    /\ follower.at = Len(follower.got) /\ Numbered(follower.got)
    /\ \A r \in {rec, row} :
         r # None => Numbered(r.events) /\ IsFirstPart(follower.got, r.events)
FaultFreeInv == storeFaults \in Nat /\ (storeFaults = 0 => FaultFree)

-----------------------------------------------------------------------------
(* Recording                                                                *)

\* What a backend may yield in one go: an outcome comes last.
Reportable(es) ==
    /\ es \in Seq(EventNames)
    /\ \A i \in 1..Len(es) : es[i] \in Outcomes => i = Len(es)

\* t is s with the events es after it, numbered above those of s.
Added(s, t, es, last) ==
    /\ t \in Seq(Nat \X EventNames)
    /\ Len(t) = Len(s) + Len(es)
    /\ \A k \in 1..Len(s) : t[k] = s[k]
    /\ \A k \in (Len(s) + 1)..Len(t) : t[k][2] = es[k - Len(s)] /\ t[k][1] > last
    /\ \A j, k \in (Len(s) + 1)..Len(t) : j < k => t[j][1] < t[k][1]

(* A record's fields, and what EXCEPT does to them. *)
LEMMA RecordFields ==
  ASSUME NEW r \in RunRecords
  PROVE  /\ r # None /\ r.state \in Outcomes \cup {"running"}
         /\ r.events \in Seq(Nat \X EventNames) /\ r.digest \in Requests
         /\ \A s \in Outcomes \cup {"running"} :
              /\ [r EXCEPT !.state = s] \in RunRecords
              /\ [r EXCEPT !.state = s].state = s
              /\ [r EXCEPT !.state = s].events = r.events
              /\ [r EXCEPT !.state = s].digest = r.digest
  BY ChatAssumption DEF RunRecords

(* The last number of a record. *)
LEMMA LastNumber ==
  ASSUME NEW r \in RunRecords
  PROVE  /\ LastSeq(r) \in Nat
         /\ Ascending(r) => \A k \in 1..Len(r.events) : r.events[k][1] <= LastSeq(r)
         /\ Numbered(r.events) => LastSeq(r) = Len(r.events)
<1>1. r.events \in Seq(Nat \X EventNames)
  BY DEF RunRecords
<1>2. CASE r.events = <<>>
  BY <1>1, <1>2 DEF LastSeq, Ascending, Numbered
<1>3. CASE r.events # <<>>
  <2>1. Len(r.events) \in 1..Len(r.events) /\ LastSeq(r) = r.events[Len(r.events)][1]
    BY <1>1, <1>3 DEF LastSeq
  <2>2. \A k \in 1..Len(r.events) : r.events[k] \in Nat \X EventNames
    BY <1>1
  <2>3. \A k \in 1..Len(r.events) : r.events[k][1] \in Nat
    BY <2>2
  <2>4. LastSeq(r) \in Nat
    BY <2>1, <2>3
  <2>5. ASSUME Ascending(r), NEW k \in 1..Len(r.events)
        PROVE  r.events[k][1] <= LastSeq(r)
    <3>1. k < Len(r.events) => r.events[k][1] < r.events[Len(r.events)][1]
      BY <1>1, <2>1, <2>5 DEF Ascending
    <3> QED
      BY <1>1, <2>1, <2>3, <3>1
  <2>6. Numbered(r.events) => LastSeq(r) = Len(r.events)
    BY <2>1 DEF Numbered
  <2> QED
    BY <2>4, <2>5, <2>6
<1> QED
  BY <1>2, <1>3

(* WithEvents adds the events, and an outcome among them is the state. *)
LEMMA WithEventsAdds ==
  ASSUME NEW r \in RunRecords, NEW es, Reportable(es)
  PROVE  /\ WithEvents(r, es) \in RunRecords
         /\ WithEvents(r, es).digest = r.digest
         /\ Added(r.events, WithEvents(r, es).events, es, LastSeq(r))
         /\ \A k \in (Len(r.events) + 1)..Len(WithEvents(r, es).events) :
              WithEvents(r, es).events[k][1] = LastSeq(r) + (k - Len(r.events))
         /\ Numbered(r.events) => Numbered(WithEvents(r, es).events)
         /\ WithEvents(r, es).state =
              IF Len(es) > 0 /\ es[Len(es)] \in Outcomes THEN es[Len(es)] ELSE r.state
<1> DEFINE new == [i \in DOMAIN es |-> <<LastSeq(r) + i, es[i]>>]
           outs == {i \in DOMAIN es : es[i] \in Outcomes}
           st == IF outs = {} THEN r.state ELSE es[CHOOSE i \in outs : \A j \in outs : j <= i]
           t == r.events \o new
<1>1. /\ r.events \in Seq(Nat \X EventNames) /\ r.state \in Outcomes \cup {"running"}
      /\ r.digest \in Requests /\ LastSeq(r) \in Nat
  BY RecordFields, LastNumber
<1>2. es \in Seq(EventNames) /\ Len(es) \in Nat /\ DOMAIN es = 1..Len(es)
  BY DEF Reportable
<1>3. /\ new \in Seq(Nat \X EventNames) /\ Len(new) = Len(es)
      /\ \A i \in 1..Len(es) : new[i] = <<LastSeq(r) + i, es[i]>>
  BY <1>1, <1>2
<1>4. /\ t \in Seq(Nat \X EventNames) /\ Len(t) = Len(r.events) + Len(es)
      /\ \A k \in 1..Len(r.events) : t[k] = r.events[k]
      /\ \A k \in (Len(r.events) + 1)..Len(t) : t[k] = new[k - Len(r.events)]
  BY <1>1, <1>2, <1>3
<1>5. \A k \in (Len(r.events) + 1)..Len(t) :
        t[k] = <<LastSeq(r) + (k - Len(r.events)), es[k - Len(r.events)]>>
  BY <1>1, <1>2, <1>3, <1>4
<1> HIDE DEF t, st
<1>6. \A k \in (Len(r.events) + 1)..Len(t) :
        t[k][1] = LastSeq(r) + (k - Len(r.events)) /\ t[k][2] = es[k - Len(r.events)]
  BY <1>5
<1>7. st = IF Len(es) > 0 /\ es[Len(es)] \in Outcomes THEN es[Len(es)] ELSE r.state
  <2>1. CASE outs = {}
    BY <1>2, <2>1 DEF st
  <2>2. CASE outs # {}
    <3>1. outs = {Len(es)} /\ Len(es) \in 1..Len(es) /\ es[Len(es)] \in Outcomes
      BY <1>2, <2>2 DEF Reportable
    <3>2. (CHOOSE i \in outs : \A j \in outs : j <= i) = Len(es)
      BY <1>2, <3>1
    <3> QED
      BY <1>2, <2>2, <3>1, <3>2 DEF st
  <2> QED
    BY <2>1, <2>2
<1>8. st \in Outcomes \cup {"running"}
  BY <1>1, <1>7
<1>9. WithEvents(r, es) = [r EXCEPT !.events = t, !.state = st]
  BY DEF WithEvents, st, t
<1>10. /\ WithEvents(r, es) \in RunRecords /\ WithEvents(r, es).digest = r.digest
       /\ WithEvents(r, es).events = t /\ WithEvents(r, es).state = st
  BY <1>4, <1>8, <1>9 DEF RunRecords
<1>11. Added(r.events, t, es, LastSeq(r))
  <2>1. /\ Len(r.events) \in Nat /\ Len(t) \in Nat
        /\ \A k \in (Len(r.events) + 1)..Len(t) : k - Len(r.events) \in Nat \ {0}
    BY <1>1, <1>4
  <2>2. \A k \in (Len(r.events) + 1)..Len(t) : t[k][1] > LastSeq(r)
    BY <1>1, <1>6, <2>1
  <2>3. \A j, k \in (Len(r.events) + 1)..Len(t) : j < k => t[j][1] < t[k][1]
    BY <1>1, <1>6, <2>1
  <2> QED
    BY <1>4, <1>6, <2>2, <2>3 DEF Added
<1>12. Numbered(r.events) => Numbered(t)
  <2>1. ASSUME Numbered(r.events), NEW k \in 1..Len(t)
        PROVE  t[k][1] = k
    <3>1. LastSeq(r) = Len(r.events)
      BY <2>1, LastNumber
    <3>2. CASE k \in 1..Len(r.events)
      BY <1>4, <2>1, <3>2 DEF Numbered
    <3>3. CASE k \in (Len(r.events) + 1)..Len(t)
      BY <1>1, <1>6, <3>1, <3>3
    <3> QED
      BY <1>1, <1>4, <3>2, <3>3
  <2> QED
    BY <2>1 DEF Numbered
<1> QED
  BY <1>6, <1>7, <1>10, <1>11, <1>12

(* Events added to a journal without an outcome keep its promise. *)
LEMMA AddedKeeps ==
  ASSUME NEW r \in RunRecords, NEW t \in RunRecords, NEW es, Reportable(es),
         NoOutcome(r), Ascending(r), Added(r.events, t.events, es, LastSeq(r))
  PROVE  /\ EndsOnce(t) /\ Ascending(t)
         /\ (\A i \in 1..Len(es) : es[i] \notin Outcomes) => NoOutcome(t)
<1> DEFINE n == Len(r.events)
<1>1. /\ r.events \in Seq(Nat \X EventNames) /\ t.events \in Seq(Nat \X EventNames)
      /\ n \in Nat /\ es \in Seq(EventNames) /\ Len(es) \in Nat /\ LastSeq(r) \in Nat
      /\ Len(t.events) = n + Len(es)
  BY RecordFields, LastNumber DEF Reportable, Added
<1>2. \A k \in 1..n : t.events[k] = r.events[k] /\ t.events[k][2] \notin Outcomes
  BY DEF Added, NoOutcome
<1>3. \A k \in (n + 1)..Len(t.events) :
        t.events[k][2] = es[k - n] /\ k - n \in 1..Len(es) /\ t.events[k][1] > LastSeq(r)
  BY <1>1 DEF Added
<1>4. \A k \in 1..Len(t.events) : k \in 1..n \/ k \in (n + 1)..Len(t.events)
  BY <1>1
<1>5. ASSUME NEW k \in 1..Len(t.events), t.events[k][2] \in Outcomes
      PROVE  k = Len(t.events)
  <2>1. k \in (n + 1)..Len(t.events)
    BY <1>2, <1>4, <1>5
  <2>2. es[k - n] \in Outcomes /\ k - n \in 1..Len(es)
    BY <1>3, <1>5, <2>1
  <2>3. k - n = Len(es)
    BY <2>2 DEF Reportable
  <2> QED
    BY <1>1, <2>1, <2>3
<1>6. ASSUME NEW i \in 1..Len(t.events), NEW j \in 1..Len(t.events), i < j
      PROVE  t.events[i][1] < t.events[j][1]
  <2>a. t.events[i] \in Nat \X EventNames /\ t.events[j] \in Nat \X EventNames
    BY <1>1, SMTT(30)
  <2>0. t.events[i][1] \in Nat /\ t.events[j][1] \in Nat
    BY <2>a
  <2>1. CASE j \in 1..n
    <3>1. i \in 1..n /\ i < j
      BY <1>1, <1>6, <2>1
    <3>2. t.events[i] = r.events[i] /\ t.events[j] = r.events[j]
      BY <1>2, <2>1, <3>1
    <3> QED
      BY <2>1, <3>1, <3>2 DEF Ascending
  <2>2. CASE i \in 1..n /\ j \in (n + 1)..Len(t.events)
    <3>1. t.events[i][1] <= LastSeq(r)
      BY <1>2, <2>2, LastNumber
    <3>2. t.events[j][1] > LastSeq(r)
      BY <1>3, <2>2
    <3> QED
      BY <1>1, <2>0, <3>1, <3>2, SMTT(30)
  <2>3. CASE i \in (n + 1)..Len(t.events)
    <3>1. j \in (n + 1)..Len(t.events)
      BY <1>1, <1>6, <2>3
    <3> QED
      BY <1>6, <2>3, <3>1 DEF Added
  <2> QED
    BY <1>1, <1>4, <1>6, <2>1, <2>2, <2>3
<1>7. ASSUME \A i \in 1..Len(es) : es[i] \notin Outcomes
      PROVE  NoOutcome(t)
  BY <1>2, <1>3, <1>4, <1>7 DEF NoOutcome
<1> QED
  BY <1>5, <1>6, <1>7 DEF Ascending, EndsOnce

(* What a step does to the stored journal when it adds to it. *)
Grows(r, t) ==
    /\ NoOutcome(r) /\ EndsOnce(t)
    /\ Len(t.events) > Len(r.events)
    /\ \A k \in 1..Len(r.events) : t.events[k] = r.events[k]

(* Events added to a journal without an outcome make it grow. *)
LEMMA AddedGrows ==
  ASSUME NEW r \in RunRecords, NEW t, NEW es, NEW last, Reportable(es), Len(es) > 0,
         NoOutcome(r), EndsOnce(t), Added(r.events, t.events, es, last)
  PROVE  Grows(r, t)
<1>1. Len(es) \in Nat /\ Len(r.events) \in Nat
  BY RecordFields DEF Reportable
<1>2. Len(t.events) > Len(r.events)
  BY <1>1 DEF Added
<1> QED
  BY <1>2 DEF Grows, Added

(* The context in which a pump records: a run in memory that the store, if  *)
(* it still has the row, knows as memory does, without an outcome.          *)
Open ==
    /\ rec \in RunRecords
    /\ row \in RunRecords \cup {None}
    /\ row # None => rec.events = row.events /\ NoOutcome(row) /\ Ascending(row)

(* Record stores what it yields. *)
LEMMA RecordEffect ==
  ASSUME Open, NEW es, Reportable(es), Len(es) > 0, Record(es)
  PROVE  /\ rec' \in RunRecords /\ row' \in RunRecords /\ row # None
         /\ rec' = WithEvents(rec, es)
         /\ rec'.events = row'.events /\ row'.state = rec'.state
         /\ EndsOnce(row') /\ Ascending(row') /\ Grows(row, row')
         /\ (\A i \in 1..Len(es) : es[i] \notin Outcomes) => NoOutcome(row')
<1> DEFINE w == WithEvents(row, es)
<1>1. /\ row \in RunRecords /\ rec \in RunRecords /\ rec.events = row.events /\ row # None
      /\ NoOutcome(row) /\ Ascending(row)
  BY DEF Open, Record
<1>2. rec' = WithEvents(rec, es) /\ rec' \in RunRecords /\ rec'.state \in Outcomes \cup {"running"}
  BY <1>1, WithEventsAdds, RecordFields DEF Record
<1>3. w \in RunRecords /\ Added(row.events, w.events, es, LastSeq(row))
  BY <1>1, WithEventsAdds
<1>4. row' = [w EXCEPT !.state = rec'.state]
  BY DEF Record, Stored
<1> HIDE DEF w
<1>5. row' \in RunRecords /\ row'.events = w.events /\ row'.state = rec'.state
  BY <1>2, <1>3, <1>4, RecordFields
<1>6. rec'.events = row'.events
  BY <1>1, <1>2, <1>5 DEF w, WithEvents, LastSeq, RunRecords
<1>7. Added(row.events, row'.events, es, LastSeq(row))
  BY <1>3, <1>5
<1>8. /\ EndsOnce(row') /\ Ascending(row')
      /\ (\A i \in 1..Len(es) : es[i] \notin Outcomes) => NoOutcome(row')
  BY <1>1, <1>5, <1>7, AddedKeeps
<1>11. Grows(row, row')
  BY <1>1, <1>7, <1>8, AddedGrows
<1> QED
  BY <1>1, <1>2, <1>5, <1>6, <1>8, <1>11

(* The part of a yield that was written before a write failed. *)
LEMMA PartOfYield ==
  ASSUME NEW es, Reportable(es), NEW i \in 0..Len(es)
  PROVE  /\ Reportable(SubSeq(es, 1, i)) /\ Len(SubSeq(es, 1, i)) = i
         /\ i < Len(es) => \A k \in 1..i : SubSeq(es, 1, i)[k] \notin Outcomes
<1>1. es \in Seq(EventNames) /\ Len(es) \in Nat
  BY DEF Reportable
<1>2. /\ SubSeq(es, 1, i) \in Seq(EventNames) /\ Len(SubSeq(es, 1, i)) = i
      /\ \A k \in 1..i : SubSeq(es, 1, i)[k] = es[k] /\ k \in 1..Len(es)
  BY <1>1
<1>3. \A k \in 1..i : k = Len(es) => i = Len(es)
  BY <1>1
<1>4. i < Len(es) => \A k \in 1..i : k # Len(es)
  BY <1>1
<1> QED
  BY <1>2, <1>3, <1>4 DEF Reportable

(* One more event, numbered above the others. *)
LEMMA OneMore ==
  ASSUME NEW s \in Seq(Nat \X EventNames), NEW u, NEW es \in Seq(EventNames), NEW last \in Nat,
         Added(s, u, es, last),
         \A k \in (Len(s) + 1)..Len(u) : u[k][1] = last + (k - Len(s)),
         NEW m \in Nat, m > last + Len(es), NEW e \in EventNames,
         NEW t, t = Append(u, <<m, e>>), NEW fs, fs = Append(es, e)
  PROVE  Added(s, t, fs, last)
<1>1. /\ Len(s) \in Nat /\ Len(es) \in Nat /\ u \in Seq(Nat \X EventNames)
      /\ Len(u) = Len(s) + Len(es)
  BY DEF Added
<1>2. <<m, e>> \in Nat \X EventNames
  OBVIOUS
<1>3. /\ t \in Seq(Nat \X EventNames) /\ Len(t) = Len(u) + 1
      /\ \A k \in 1..Len(u) : t[k] = u[k]
      /\ t[Len(u) + 1] = <<m, e>>
  <2> DEFINE a == <<m, e>>
  <2>1. a \in Nat \X EventNames /\ t = Append(u, a)
    BY <1>2
  <2> HIDE DEF a
  <2>2. u \in Seq(Nat \X EventNames)
    BY <1>1
  <2>3. /\ Append(u, a) \in Seq(Nat \X EventNames) /\ Len(Append(u, a)) = Len(u) + 1
        /\ \A k \in 1..Len(u) : Append(u, a)[k] = u[k]
        /\ Append(u, a)[Len(u) + 1] = a
    BY <2>1, <2>2, AppendProperties
  <2> QED
    BY <2>1, <2>3, Zenon DEF a
<1>4. /\ Len(fs) = Len(es) + 1 /\ fs[Len(es) + 1] = e
      /\ \A k \in 1..Len(es) : fs[k] = es[k]
  BY <1>1
<1>5. \A k \in 1..Len(s) : t[k] = s[k]
  BY <1>1, <1>3 DEF Added
<1>6. /\ Len(s) \in Nat /\ Len(es) \in Nat /\ Len(t) = Len(s) + Len(es) + 1
      /\ Len(u) = Len(s) + Len(es)
  BY <1>1, <1>3
<1>7. ASSUME NEW k \in (Len(s) + 1)..Len(u)
      PROVE  t[k][1] = last + (k - Len(s)) /\ t[k][2] = fs[k - Len(s)]
  <2>1. t[k] = u[k] /\ k - Len(s) \in 1..Len(es)
    BY <1>3, <1>6
  <2> QED
    BY <1>4, <2>1 DEF Added
<1>8. \A k \in (Len(s) + 1)..Len(t) : k \in (Len(s) + 1)..Len(u) \/ k = Len(u) + 1
  BY <1>6
<1>9. t[Len(u) + 1][1] = m /\ t[Len(u) + 1][2] = e
  BY <1>3
<1>10. ASSUME NEW k \in (Len(s) + 1)..Len(t)
       PROVE  t[k][2] = fs[k - Len(s)] /\ t[k][1] > last
  <2>1. CASE k \in (Len(s) + 1)..Len(u)
    BY <1>6, <1>7, <2>1, SMTT(30)
  <2>2. CASE k = Len(u) + 1
    <3>1. k - Len(s) = Len(es) + 1 /\ m > last
      BY <1>6, <2>2
    <3> QED
      BY <1>4, <1>9, <2>2, <3>1
  <2> QED
    BY <1>8, <2>1, <2>2
<1>11. ASSUME NEW j \in (Len(s) + 1)..Len(t), NEW k \in (Len(s) + 1)..Len(t), j < k
       PROVE  t[j][1] < t[k][1]
  <2>1. j \in (Len(s) + 1)..Len(u) /\ t[j][1] = last + (j - Len(s))
    BY <1>6, <1>7, <1>8, <1>11
  <2>2. CASE k \in (Len(s) + 1)..Len(u)
    BY <1>6, <1>7, <1>11, <2>1, <2>2, SMTT(30)
  <2>3. CASE k = Len(u) + 1
    <3>1. last + (j - Len(s)) < m
      BY <1>6, <2>1
    <3> QED
      BY <1>9, <2>1, <2>3, <3>1
  <2> QED
    BY <1>8, <2>2, <2>3
<1>12. Len(t) = Len(s) + Len(fs)
  BY <1>4, <1>6
<1> QED
  BY <1>3, <1>5, <1>10, <1>11, <1>12 DEF Added

(* The event that reports a failed write, after the events stored before. *)
LEMMA FailureAdds ==
  ASSUME NEW r \in RunRecords, NEW es, Reportable(es), \A k \in 1..Len(es) : es[k] \notin Outcomes,
         NEW m \in Nat, m > LastSeq(r) + Len(es), NEW t, NEW fs,
         t = [WithEvents(r, es) EXCEPT !.state = "failed", !.events = Append(@, <<m, "failed">>)],
         fs = Append(es, "failed")
  PROVE  /\ t \in RunRecords /\ t.state = "failed" /\ Reportable(fs) /\ Len(fs) > 0
         /\ Added(r.events, t.events, fs, LastSeq(r))
<1> DEFINE w == WithEvents(r, es)
<1>1. /\ w \in RunRecords /\ Added(r.events, w.events, es, LastSeq(r))
      /\ \A k \in (Len(r.events) + 1)..Len(w.events) :
           w.events[k][1] = LastSeq(r) + (k - Len(r.events))
  BY WithEventsAdds
<1>2. /\ LastSeq(r) \in Nat /\ es \in Seq(EventNames) /\ Len(es) \in Nat
      /\ r.events \in Seq(Nat \X EventNames) /\ w.events \in Seq(Nat \X EventNames)
  BY <1>1, RecordFields, LastNumber DEF Reportable, Added
<1>3. t = [w EXCEPT !.state = "failed", !.events = Append(w.events, <<m, "failed">>)]
  OBVIOUS
<1> HIDE DEF w
<1>4. "failed" \in EventNames /\ "failed" \in Outcomes
  BY DEF EventNames, Outcomes
<1>5. Append(w.events, <<m, "failed">>) \in Seq(Nat \X EventNames)
  BY <1>2, <1>4
<1>6. t \in RunRecords /\ t.state = "failed" /\ t.events = Append(w.events, <<m, "failed">>)
  BY <1>1, <1>3, <1>4, <1>5 DEF RunRecords
<1>7. /\ fs \in Seq(EventNames) /\ Len(fs) = Len(es) + 1
      /\ \A k \in 1..Len(es) : fs[k] = es[k]
  BY <1>2, <1>4
<1>8. Reportable(fs)
  BY <1>2, <1>7 DEF Reportable
<1>9. Added(r.events, t.events, fs, LastSeq(r))
  BY <1>1, <1>2, <1>4, <1>6, OneMore
<1>10. Len(fs) > 0
  BY <1>2, <1>7
<1> QED
  BY <1>6, <1>8, <1>9, <1>10

(* RecordFails stores a first part of what was yielded, and "failed" when   *)
(* the run is not over yet; without a row nothing is stored.                *)
LEMMA RecordFailsEffect ==
  ASSUME Open, NEW es, Reportable(es), NEW i \in 1..Len(es), RecordFails(es, i)
  PROVE  /\ rec' \in RunRecords /\ rec'.state # "running"
         /\ row = None => row' = None /\ storeFaults' = storeFaults
         /\ row = None /\ rec.state # "running" => rec' = WithEvents(rec, SubSeq(es, 1, i))
         /\ row # None => /\ row' \in RunRecords /\ storeFaults' = storeFaults + 1
                          /\ EndsOnce(row') /\ Ascending(row')
                          /\ row'.state = "running" => NoOutcome(row')
                          /\ row'.events = row.events \/ Grows(row, row')
<1> DEFINE part == SubSeq(es, 1, i)
           before == SubSeq(es, 1, i - 1)
           kept == WithEvents(rec, part)
           m == LastSeq(kept) + 1
           failure == <<m, "failed">>
<1>1. /\ Reportable(part) /\ Len(part) = i /\ Reportable(before) /\ Len(before) = i - 1
      /\ \A k \in 1..Len(before) : before[k] \notin Outcomes
      /\ Len(es) \in Nat
  <2>1. Len(es) \in Nat /\ i \in 0..Len(es) /\ i - 1 \in 0..Len(es) /\ i - 1 < Len(es)
    BY DEF Reportable
  <2> QED
    BY <2>1, PartOfYield
<1>2. rec \in RunRecords /\ rec.events \in Seq(Nat \X EventNames) /\ LastSeq(rec) \in Nat
  BY RecordFields, LastNumber DEF Open
<1>3. /\ kept \in RunRecords /\ Added(rec.events, kept.events, part, LastSeq(rec))
      /\ \A k \in (Len(rec.events) + 1)..Len(kept.events) :
           kept.events[k][1] = LastSeq(rec) + (k - Len(rec.events))
      /\ kept.state = IF Len(part) > 0 /\ part[Len(part)] \in Outcomes
                      THEN part[Len(part)] ELSE rec.state
  BY <1>1, <1>2, WithEventsAdds
<1> HIDE DEF kept, part, before
<1>4. Len(kept.events) = Len(rec.events) + i /\ kept.events \in Seq(Nat \X EventNames)
  BY <1>1, <1>3 DEF Added
<1>5. LastSeq(kept) = LastSeq(rec) + i /\ m \in Nat /\ m > LastSeq(rec) + Len(before)
  <2>1. Len(kept.events) \in (Len(rec.events) + 1)..Len(kept.events) /\ kept.events # <<>>
    BY <1>1, <1>2, <1>4
  <2>2. LastSeq(kept) = kept.events[Len(kept.events)][1]
    BY <2>1 DEF LastSeq
  <2>3. kept.events[Len(kept.events)][1] = LastSeq(rec) + (Len(kept.events) - Len(rec.events))
    BY <1>3, <2>1
  <2>4. Len(rec.events) \in Nat
    BY <1>2
  <2>5. LastSeq(kept) = LastSeq(rec) + i
    BY <1>2, <1>4, <2>2, <2>3, <2>4
  <2> QED
    BY <1>1, <1>2, <2>5
<1>6. failure \in Nat \X EventNames
  BY <1>5 DEF EventNames, Outcomes
<1>7. /\ row = None => storeFaults' = storeFaults
      /\ row # None => storeFaults' = storeFaults + 1
  BY DEF RecordFails
<1>8. CASE kept.state = "running"
  <2>1. /\ rec' = [kept EXCEPT !.state = "failed", !.events = Append(@, failure)]
        /\ row' = IF row = None THEN None
                  ELSE [WithEvents(row, before) EXCEPT
                          !.state = "failed", !.events = Append(@, failure)]
    BY <1>8 DEF RecordFails, kept, part, before
  <2>2. rec' \in RunRecords /\ rec'.state = "failed"
    <3>1. Append(kept.events, failure) \in Seq(Nat \X EventNames)
      BY <1>4, <1>6
    <3>2. rec' = [kept EXCEPT !.state = "failed", !.events = Append(kept.events, failure)]
      BY <2>1
    <3>3. "failed" \in Outcomes
      BY DEF Outcomes
    <3> QED
      BY <1>3, <3>1, <3>2, <3>3 DEF RunRecords
  <2>3. rec.state = "running"
    BY <1>3, <1>8 DEF Outcomes
  <2>4. ASSUME row # None
        PROVE  /\ row' \in RunRecords /\ row'.state = "failed"
               /\ EndsOnce(row') /\ Ascending(row') /\ Grows(row, row')
    <3>1. /\ row \in RunRecords /\ NoOutcome(row) /\ Ascending(row) /\ LastSeq(row) = LastSeq(rec)
      BY <2>4 DEF Open, LastSeq
    <3>2. /\ row' \in RunRecords /\ row'.state = "failed"
          /\ Reportable(Append(before, "failed"))
          /\ Len(Append(before, "failed")) > 0
          /\ Added(row.events, row'.events, Append(before, "failed"), LastSeq(row))
      <4>1. row' = [WithEvents(row, before) EXCEPT
                      !.state = "failed", !.events = Append(@, <<m, "failed">>)]
        BY <2>1, <2>4
      <4>2. m \in Nat /\ m > LastSeq(row) + Len(before)
        BY <1>5, <3>1
      <4> HIDE DEF m
      <4> QED
        BY <1>1, <3>1, <4>1, <4>2, FailureAdds
    <3>3. EndsOnce(row') /\ Ascending(row')
      BY <3>1, <3>2, AddedKeeps
    <3>4. Grows(row, row')
      BY <3>1, <3>2, <3>3, AddedGrows
    <3> QED
      BY <3>2, <3>3, <3>4
  <2> QED
    BY <1>7, <2>1, <2>2, <2>3, <2>4 DEF Outcomes
<1>9. CASE kept.state # "running"
  <2>1. /\ rec' = kept
        /\ row' = IF row = None \/ before = <<>> THEN row
                  ELSE Stored(row, before, WithEvents(rec, before).state)
    BY <1>9 DEF RecordFails, kept, part, before
  <2>2. ASSUME row # None
        PROVE  /\ row' \in RunRecords /\ EndsOnce(row') /\ Ascending(row') /\ NoOutcome(row')
               /\ row'.events = row.events \/ Grows(row, row')
    <3>1. row \in RunRecords /\ NoOutcome(row) /\ Ascending(row)
      BY <2>2 DEF Open
    <3>2. CASE before = <<>>
      BY <2>1, <3>1, <3>2 DEF NoOutcome, EndsOnce
    <3>3. CASE before # <<>>
      <4>1. WithEvents(rec, before).state \in Outcomes \cup {"running"}
        BY <1>1, <1>2, WithEventsAdds, RecordFields
      <4>2. /\ WithEvents(row, before) \in RunRecords
            /\ Added(row.events, WithEvents(row, before).events, before, LastSeq(row))
        BY <1>1, <3>1, WithEventsAdds
      <4>3. row' \in RunRecords /\ row'.events = WithEvents(row, before).events
        BY <2>1, <2>2, <3>3, <4>1, <4>2, RecordFields DEF Stored
      <4>4. Added(row.events, row'.events, before, LastSeq(row))
        BY <4>2, <4>3
      <4>5. EndsOnce(row') /\ Ascending(row') /\ NoOutcome(row')
        BY <1>1, <3>1, <4>3, <4>4, AddedKeeps
      <4>6. Len(before) > 0
        BY <1>1, <3>3 DEF Reportable
      <4>7. Grows(row, row')
        BY <1>1, <3>1, <4>4, <4>5, <4>6, AddedGrows
      <4> QED
        BY <4>3, <4>5, <4>7
    <3> QED
      BY <3>2, <3>3
  <2>3. row = None => row' = None
    BY <2>1
  <2> QED
    BY <1>3, <1>7, <1>9, <2>1, <2>2, <2>3 DEF kept, part
<1> QED
  BY <1>8, <1>9

CoreInv == ControlInv /\ JournalInv

(* A pump that has not reported an outcome may record. *)
LEMMA PumpIsOpen == CoreInv /\ Pumping /\ ~adapter.closed => Open
  BY ChatAssumption DEF CoreInv, ControlInv, ControlType, JournalInv, Pumping, Open

\* What is known after a yield of es that leaves the pump at to.
Yielded(es, to) ==
    /\ rec' \in RunRecords /\ row' \in RunRecords \cup {None}
    /\ row' = None <=> row = None
    /\ pump' \in {to, "done"}
    /\ row # None =>
         /\ EndsOnce(row') /\ Ascending(row')
         /\ row'.state = "running" => NoOutcome(row')
         /\ pump' = "live" => rec'.events = row'.events
         /\ pump' = "live" /\ ~adapter.closed /\ (\A i \in 1..Len(es) : es[i] \notin Outcomes) =>
              NoOutcome(row')
         /\ row'.events = row.events \/ Grows(row, row')

(* What is yielded keeps the types and the journals of the run. *)
LEMMA YieldKeeps ==
  ASSUME CoreInv, Pumping, NEW es, Reportable(es), es # <<>> => ~adapter.closed,
         NEW to \in {"live", "done"}, Yield(es, to)
  PROVE  Yielded(es, to)
<1>1. es \in Seq(EventNames) /\ Len(es) \in Nat /\ DOMAIN es = 1..Len(es)
  BY DEF Reportable
<1>2. /\ rec \in RunRecords /\ row \in RunRecords \cup {None} /\ rec # None
      /\ row # None => EndsOnce(row) /\ Ascending(row) /\ rec.events = row.events
      /\ row # None /\ row.state = "running" => NoOutcome(row)
      /\ row # None /\ ~adapter.closed => NoOutcome(row)
  BY DEF CoreInv, ControlInv, ControlType, JournalInv, Pumping
<1>3. CASE es = <<>> /\ pump' = to /\ UNCHANGED <<rec, row, follower, storeFaults>>
  BY <1>2, <1>3 DEF Yielded, NoOutcome, EndsOnce, Ascending
<1>4. CASE es # <<>> /\ Record(es) /\ pump' = to
  <2>1. Open /\ Len(es) > 0
    BY <1>1, <1>4, PumpIsOpen
  <2>2. /\ rec' \in RunRecords /\ row' \in RunRecords /\ row # None
        /\ rec' = WithEvents(rec, es) /\ rec'.events = row'.events /\ row'.state = rec'.state
        /\ EndsOnce(row') /\ Ascending(row') /\ Grows(row, row')
        /\ (\A i \in 1..Len(es) : es[i] \notin Outcomes) => NoOutcome(row')
    BY <1>4, <2>1, RecordEffect
  <2>3. row'.state = "running" => \A i \in 1..Len(es) : es[i] \notin Outcomes
    <3>1. rec'.state = IF Len(es) > 0 /\ es[Len(es)] \in Outcomes THEN es[Len(es)] ELSE rec.state
      BY <1>2, <2>2, WithEventsAdds
    <3>2. "running" \notin Outcomes
      BY DEF Outcomes
    <3> QED
      BY <2>1, <2>2, <3>1, <3>2 DEF Reportable
  <2>4. row' # None
    BY <2>2, RecordFields
  <2> QED
    BY <1>4, <2>2, <2>3, <2>4 DEF Yielded
<1>5. ASSUME NEW i \in DOMAIN es, RecordFails(es, i), pump' = "done"
      PROVE  Yielded(es, to)
  <2>1. Open /\ i \in 1..Len(es)
    BY <1>1, <1>5, PumpIsOpen
  <2>2. /\ rec' \in RunRecords
        /\ row = None => row' = None
        /\ row # None => /\ row' \in RunRecords
                         /\ EndsOnce(row') /\ Ascending(row')
                         /\ row'.state = "running" => NoOutcome(row')
                         /\ row'.events = row.events \/ Grows(row, row')
    BY <1>5, <2>1, RecordFailsEffect
  <2>3. row # None => row' # None
    BY <2>2, RecordFields
  <2> QED
    BY <1>5, <2>2, <2>3 DEF Yielded
<1> QED
  BY <1>3, <1>4, <1>5 DEF Yield

-----------------------------------------------------------------------------
(* The reports of the adapters                                              *)

\* A report of one event, and one with an event before it.
LEMMA ReportOfOne ==
  ASSUME NEW a \in EventNames
  PROVE  Reportable(<<a>>) /\ <<a>> # <<>> /\ Len(<<a>>) = 1 /\ <<a>>[1] = a
  BY DEF Reportable

(* ... and of two events. *)
LEMMA ReportOfTwo ==
  ASSUME NEW b \in EventNames, b \notin Outcomes, NEW a \in EventNames
  PROVE  /\ Reportable(<<b, a>>) /\ <<b, a>> # <<>> /\ Len(<<b, a>>) = 2 /\ <<b, a>>[2] = a
<1>1. <<b, a>> \in Seq(EventNames) /\ Len(<<b, a>>) = 2 /\ <<b, a>>[1] = b /\ <<b, a>>[2] = a
  OBVIOUS
<1>2. \A i \in 1..2 : <<b, a>>[i] \in Outcomes => i = 2
  BY <1>1
<1>3. <<b, a>> # <<>>
  BY <1>1
<1> QED
  BY <1>1, <1>2, <1>3 DEF Reportable

(* What an adapter reports for an entry of the log has its outcome, if any, *)
(* at the end, and the Codex adapter reports an outcome only for a terminal *)
(* entry.                                                                   *)
LEMMA ReportsAreReportable ==
  ASSUME NEW e, NEW es \in Reports(e)
  PROVE  /\ Reportable(es) /\ es # <<>>
         /\ provider # "claude" /\ es[Len(es)] \in Outcomes => e \in TerminalKinds
<1>1. /\ "completed" \in EventNames /\ "failed" \in EventNames /\ "cancelled" \in EventNames
      /\ "started" \in EventNames /\ "message" \in EventNames /\ "artifact" \in EventNames
      /\ "usage" \in EventNames /\ "status" \in EventNames
      /\ {"started", "message", "status", "usage", "artifact"} \cap Outcomes = {}
  BY DEF EventNames, Outcomes
<1>2. CASE e \in {"cancelled", "failed"}
  <2>1. es = <<e>>
    BY <1>2 DEF Reports
  <2>2. e \in EventNames
    BY <1>1, <1>2
  <2> QED
    BY <1>2, <2>1, <2>2, ReportOfOne DEF TerminalKinds
<1>3. CASE e \in {"exited0", "exited1"}
  <2>1. es \in ClaudeExit(e) \/ es \in CodexExit(e)
    BY <1>3 DEF Reports
  <2>2. ClaudeExit(e) \subseteq {<<"failed">>, <<"completed">>}
    BY DEF ClaudeExit
  <2>3. \A files : Package(files) \in {<<"failed">>, <<"completed">>, <<"artifact", "completed">>}
    BY DEF Package
  <2>4. CodexExit(e) \subseteq {<<"failed">>, <<"completed">>, <<"artifact", "completed">>}
    BY <2>3 DEF CodexExit
  <2>5. Reportable(<<"failed">>) /\ Reportable(<<"completed">>) /\ <<"failed">> # <<>> /\ <<"completed">> # <<>>
    BY <1>1, ReportOfOne
  <2>6. Reportable(<<"artifact", "completed">>) /\ <<"artifact", "completed">> # <<>>
    BY <1>1, ReportOfTwo
  <2> QED
    BY <1>3, <2>1, <2>2, <2>4, <2>5, <2>6 DEF TerminalKinds
<1>4. CASE e \notin {"cancelled", "failed", "exited0", "exited1"} /\ provider = "claude"
  <2>1. es = ClaudeFrame(e)
    BY <1>4 DEF Reports
  <2>2. es \in {<<"failed">>, <<"completed">>, <<"message">>, <<"started", "failed">>,
                <<"started", "completed">>, <<"started", "message">>}
    BY <2>1 DEF ClaudeFrame
  <2>3. /\ Reportable(<<"failed">>) /\ Reportable(<<"completed">>) /\ Reportable(<<"message">>)
        /\ <<"failed">> # <<>> /\ <<"completed">> # <<>> /\ <<"message">> # <<>>
    BY <1>1, ReportOfOne
  <2>4. /\ Reportable(<<"started", "failed">>) /\ Reportable(<<"started", "completed">>)
        /\ Reportable(<<"started", "message">>) /\ <<"started", "failed">> # <<>>
        /\ <<"started", "completed">> # <<>> /\ <<"started", "message">> # <<>>
    BY <1>1, ReportOfTwo
  <2> QED
    BY <1>4, <2>2, <2>3, <2>4
<1>5. CASE e \notin {"cancelled", "failed", "exited0", "exited1"} /\ provider # "claude"
  <2>1. es = CodexFrame(e)
    BY <1>5 DEF Reports
  <2>2. PICK a \in {"usage", "status", "message"} : es = <<a>>
    BY <2>1 DEF CodexFrame
  <2>3. a \in EventNames /\ a \notin Outcomes
    BY <1>1
  <2> QED
    BY <1>5, <2>2, <2>3, ReportOfOne
<1> QED
  BY <1>2, <1>3, <1>4, <1>5

-----------------------------------------------------------------------------
(* The control and the journals of the chat run                             *)

(* The control state and the journals as the service starts. *)
LEMMA CoreInvInit == Init => CoreInv
<1> SUFFICES ASSUME Init PROVE CoreInv
  OBVIOUS
<1> USE DEF Init
<1>1. ControlType
  BY DEF ControlType, AdapterType, FreshAdapter, Idle, Cancellers
<1>2. ControlInv
  <2>1. \A c \in Cancellers : canceller[c] = "off"
    BY DEF Idle
  <2>2. "stream" \in Cancellers /\ ~adapter.made /\ ~adapter.closed /\ Starting = {}
    BY DEF FreshAdapter, Starting, Cancellers
  <2>3. ~Ours
    BY DEF Ours
  <2> QED
    BY <1>1, <2>1, <2>2, <2>3 DEF ControlInv
<1>3. JournalInv
  BY DEF JournalInv, Pumping
<1> QED
  BY <1>2, <1>3 DEF CoreInv

(* start: the record and its row are made together, for a provider whose    *)
(* process the adapter has started once.                                    *)
LEMMA StartKeepsCore ==
  ASSUME CoreInv, NEW q \in Requests,
         StartReplay(q) \/ StartBegin(q) \/ StartRefused(q) \/ StartPersisted(q)
         \/ StartUnpersisted(q)
  PROVE  CoreInv'
<1> USE ChatAssumption
<1>1. CASE StartReplay(q)
  <2>1. ControlType'
    BY <1>1 DEF CoreInv, ControlInv, ControlType, StartReplay, Restored
  <2>2. ControlInv'
    BY <1>1, <2>1 DEF CoreInv, ControlInv, ControlType, StartReplay, Restored, Ours, Starting
  <2>3. JournalInv'
    BY <1>1 DEF CoreInv, ControlInv, JournalInv, StartReplay, Restored, Pumping, EndsOnce,
                Ascending, NoOutcome
  <2> QED
    BY <2>2, <2>3 DEF CoreInv
<1>2. CASE StartBegin(q) \/ StartRefused(q)
  <2>1. ControlType'
    BY <1>2 DEF CoreInv, ControlInv, ControlType, StartBegin, StartRefused
  <2>2. ControlInv'
    BY <1>2, <2>1 DEF CoreInv, ControlInv, ControlType, StartBegin, StartRefused, Ours, Starting
  <2>3. JournalInv'
    BY <1>2 DEF CoreInv, JournalInv, StartBegin, StartRefused, Pumping, EndsOnce, Ascending, NoOutcome
  <2> QED
    BY <2>2, <2>3 DEF CoreInv
<1>3. ASSUME NEW p \in Providers, provider \in {None, p}, provider' = p, BackendStart(p)
      PROVE  /\ adapter' \in AdapterType /\ adapter'.closed = adapter.closed
             /\ adapter'.made <=> Ours'
             /\ spawned' \in Nat
             /\ provider' # "api" => spawned' = 1
             /\ Ours => Ours'
  <2>1. /\ adapter \in AdapterType /\ spawned \in Nat /\ (adapter.made <=> Ours)
        /\ provider # "api" => spawned = IF adapter.made THEN 1 ELSE 0
    BY DEF CoreInv, ControlInv, ControlType
  <2>2. CASE p = "api"
    <3>1. adapter' = adapter /\ spawned' = spawned + 1
      BY <1>3, <2>2 DEF BackendStart, ApiStart
    <3>2. ~Ours /\ ~Ours'
      BY <1>3, <2>2 DEF Ours
    <3> QED
      <4>1. ~adapter.made /\ ~adapter'.made
        BY <2>1, <3>1, <3>2
      <4>2. spawned' \in Nat
        BY <2>1, <3>1
      <4> QED
        BY <1>3, <2>1, <2>2, <3>1, <3>2, <4>1, <4>2
  <2>3. CASE p # "api"
    <3>1. Ours' /\ provider # "api"
      BY <1>3, <2>3 DEF Ours
    <3>2. CASE adapter.made
      <4>1. adapter' = adapter /\ spawned' = spawned
        BY <1>3, <2>3, <3>2 DEF BackendStart, CodexStart, ClaudeStart
      <4> QED
        <5>1. spawned' = 1
          BY <2>1, <3>1, <3>2, <4>1
        <5>2. adapter'.made
          BY <3>2, <4>1
        <5> QED
          BY <2>1, <3>1, <4>1, <5>1, <5>2
    <3>3. CASE ~adapter.made
      <4>1. adapter' = [adapter EXCEPT !.made = TRUE] /\ spawned' = spawned + 1
        BY <1>3, <2>3, <3>3 DEF BackendStart, CodexStart, ClaudeStart
      <4>2. adapter' \in AdapterType /\ adapter'.made /\ adapter'.closed = adapter.closed
        <5>1. adapter' \in AdapterType
          BY <2>1, <4>1 DEF AdapterType
        <5>2. adapter'.made = TRUE /\ adapter'.closed = adapter.closed
          BY <2>1, <4>1 DEF AdapterType
        <5> QED
          BY <5>1, <5>2
      <4>3. spawned' = 1
        BY <2>1, <3>1, <3>3, <4>1
      <4> QED
        BY <2>1, <3>1, <4>2, <4>3
    <3> QED
      BY <3>2, <3>3
  <2> QED
    BY <2>2, <2>3
<1>4. CASE StartPersisted(q)
  <2>1. PICK p \in Providers : provider \in {None, p} /\ provider' = p /\ BackendStart(p)
    BY <1>4 DEF StartPersisted
  <2>2. NewRecord(q) \in RunRecords /\ NewRecord(q) # None /\ NewRecord(q).events = <<>>
    <3>1. <<>> \in Seq(Nat \X EventNames)
      OBVIOUS
    <3> QED
      <4>1. NewRecord(q) \in RunRecords
        BY <3>1 DEF RunRecords, NewRecord
      <4>2. NewRecord(q).events = <<>>
        BY DEF NewRecord
      <4> QED
        BY <4>1, <4>2
  <2>3. ControlType'
    BY <1>3, <1>4, <2>1, <2>2 DEF CoreInv, ControlInv, ControlType, StartPersisted
  <2>4. ControlInv'
    <3>1. /\ rec' # None /\ provider' # None /\ svc' = svc /\ canceller' = canceller
          /\ row' = rec' /\ pump' = "live" /\ rec = None
      BY <1>4, <2>1, <2>2 DEF StartPersisted, CoreInv, ControlInv
    <3>2. svc # "down" \/ svc = "down"
      OBVIOUS
    <3>3. Starting' = {}
      BY <1>4 DEF CoreInv, ControlInv, ControlType, Starting, StartPersisted
    <3>4. req' = [req EXCEPT ![q] = "ok"] /\ \A r \in Requests : req'[r] # "starting"
      BY <1>4, <3>3 DEF Starting, StartPersisted
    <3> QED
      <4>1. adapter'.made <=> Ours'
        BY <1>3, <2>1
      <4>2. /\ \A c \in Cancellers : canceller'[c] # "off" => Ours'
            /\ canceller'["stream"] = "off" /\ (adapter'.closed => Ours' /\ rec' # None)
        BY <1>3, <2>1, <3>1 DEF CoreInv, ControlInv
      <4>3. /\ svc' # "down"
            /\ provider' # "api" => spawned' = IF adapter'.made THEN 1 ELSE 0
        <5>1. svc' # "down"
          BY <1>4, <3>1 DEF CoreInv, ControlInv, Starting, StartPersisted
        <5>2. CASE provider' # "api"
          BY <1>3, <2>1, <3>1, <4>1, <5>1, <5>2 DEF Ours
        <5> QED
          BY <5>1, <5>2
      <4> QED
        BY <2>3, <3>1, <3>3, <3>4, <4>1, <4>2, <4>3 DEF ControlInv
  <2>5. EndsOnce(NewRecord(q)) /\ Ascending(NewRecord(q)) /\ NoOutcome(NewRecord(q))
    BY <2>2 DEF EndsOnce, Ascending, NoOutcome
  <2>6. JournalInv'
    BY <1>4, <2>5 DEF JournalInv, StartPersisted
  <2> QED
    BY <2>4, <2>6 DEF CoreInv
<1>5. CASE StartUnpersisted(q)
  <2>1. PICK p \in Providers : provider \in {None, p} /\ provider' = p /\ BackendStart(p)
    BY <1>5 DEF StartUnpersisted
  <2>2. rec = None /\ row = None /\ pump = "none"
    BY <1>5 DEF CoreInv, ControlInv, ControlType, StartUnpersisted
  <2>3. ControlType'
    BY <1>3, <1>5, <2>1, ZenonT(60) DEF CoreInv, ControlInv, ControlType, StartUnpersisted
  <2>4. ControlInv'
    <3>1. /\ rec' = None /\ row' = None /\ pump' = "none" /\ svc' = svc
      BY <1>5, <2>2 DEF StartUnpersisted
    <3>2. ~adapter'.closed /\ adapter.final = adapter.final
      BY <1>3, <2>1, <2>2 DEF CoreInv, ControlInv
    <3>3. /\ canceller \in [Cancellers -> {"off", "wants", "holds"}]
          /\ \/ canceller' = canceller
             \/ p # "api" /\ canceller' = [canceller EXCEPT !["undo"] = "wants"]
      BY <1>5, <2>1 DEF CoreInv, ControlInv, ControlType, StartUnpersisted
    <3>4. \A c \in Cancellers : canceller'[c] # "off" => Ours'
      BY <1>3, <2>1, <3>3 DEF CoreInv, ControlInv, Ours
    <3>5. canceller'["stream"] = "off"
      BY <2>2, <3>3 DEF CoreInv, ControlInv, Cancellers
    <3>6. Starting' \subseteq Starting
      BY <1>5 DEF CoreInv, ControlInv, ControlType, Starting, StartUnpersisted
    <3> QED
      <4>1. adapter'.made <=> Ours'
        BY <1>3, <2>1
      <4>2. svc' # "down"
        BY <1>5, <3>1 DEF CoreInv, ControlInv, Starting, StartUnpersisted
      <4>3. provider' # "api" => spawned' = IF adapter'.made THEN 1 ELSE 0
        <5>1. CASE provider' # "api"
          BY <1>3, <2>1, <4>1, <5>1 DEF Ours
        <5> QED
          BY <5>1
      <4>4. \A r, t \in Starting' : r = t
        BY <3>6 DEF CoreInv, ControlInv
      <4> QED
        BY <2>3, <3>1, <3>2, <3>4, <3>5, <4>1, <4>2, <4>3, <4>4 DEF ControlInv
  <2>5. JournalInv'
    BY <1>5, <2>2 DEF JournalInv, StartUnpersisted, Pumping
  <2> QED
    BY <2>4, <2>5 DEF CoreInv
<1> QED
  BY <1>1, <1>2, <1>4, <1>5

(* The process cancels, the followers, a prune and the process itself leave *)
(* the journals as they are.                                                *)
LEMMA OthersKeepCore ==
  ASSUME CoreInv,
         \/ SessionStep \/ PruneRow \/ CancelDropped \/ StartUndone \/ ConsumerCleanup
         \/ FollowOpens \/ FollowReads \/ ShutdownCancelsPump
         \/ \E c \in Cancellers : ProcessCancelEnters(c)
         \/ UNCHANGED vars
  PROVE  CoreInv'
<1> USE ChatAssumption
<1>1. CASE SessionStep \/ UNCHANGED vars
  BY <1>1 DEF SessionStep, vars, chatVars, CoreInv, ControlInv, ControlType, JournalInv, Ours,
              Starting, Pumping, EndsOnce, Ascending, NoOutcome
<1>2. CASE PruneRow
  BY <1>2 DEF PruneRow, CoreInv, ControlInv, ControlType, JournalInv, Ours, Starting, Pumping
<1>3. ASSUME UNCHANGED <<provider, rec, row, pump, svc, spawned>>,
             adapter' \in AdapterType, adapter'.made = adapter.made,
             adapter'.closed = adapter.closed,
             req' \in [Requests -> {"idle", "starting", "undo", "ok", "conflict", "failed"}],
             \A q \in Requests : req'[q] \in {"starting", "undo"} => req'[q] = req[q],
             canceller' \in [Cancellers -> {"off", "wants", "holds"}],
             \A c \in Cancellers : canceller'[c] = "off" \/ canceller[c] # "off"
      PROVE  CoreInv'
  <2>1. Starting' \subseteq Starting
    BY <1>3 DEF Starting
  <2>2. ControlType'
    BY <1>3 DEF CoreInv, ControlInv, ControlType
  <2>3. ControlInv'
    BY <1>3, <2>1, <2>2 DEF CoreInv, ControlInv, Ours, Cancellers
  <2>4. JournalInv'
    BY <1>3 DEF CoreInv, JournalInv, Pumping, EndsOnce, Ascending, NoOutcome
  <2> QED
    BY <2>3, <2>4 DEF CoreInv
<1>4. ASSUME NEW c \in Cancellers, ProcessCancelEnters(c)
      PROVE  CoreInv'
  BY <1>3, <1>4 DEF ProcessCancelEnters, CoreInv, ControlInv, ControlType
<1>5. CASE CancelDropped
  BY <1>3, <1>5 DEF CancelDropped, CoreInv, ControlInv, ControlType, Cancellers
<1>6. CASE StartUndone
  <2>1. adapter' \in AdapterType /\ adapter'.made = adapter.made /\ adapter'.closed = adapter.closed
    BY <1>6 DEF StartUndone, CancelLocal, CoreInv, ControlInv, ControlType, AdapterType, Outcomes
  <2>2. canceller' = [canceller EXCEPT !["undo"] = "off"]
    BY <1>6 DEF StartUndone, ProcessCancelReturns
  <2>3. /\ req' \in [Requests -> {"idle", "starting", "undo", "ok", "conflict", "failed"}]
        /\ \A q \in Requests : req'[q] \in {"starting", "undo"} => req'[q] = req[q]
    BY <1>6 DEF StartUndone, CoreInv, ControlInv, ControlType
  <2> QED
    BY <1>3, <1>6, <2>1, <2>2, <2>3
       DEF StartUndone, ProcessCancelReturns, CoreInv, ControlInv, ControlType, Cancellers
<1>7. CASE ConsumerCleanup
  BY <1>3, <1>7 DEF ConsumerCleanup, ProcessCancelReturns, CoreInv, ControlInv, ControlType,
                    Cancellers
<1>8. CASE FollowOpens
  <2>1. ControlType'
    BY <1>8 DEF FollowOpens, CoreInv, ControlInv, ControlType, Restored
  <2>2. ControlInv'
    BY <1>8, <2>1 DEF FollowOpens, CoreInv, ControlInv, ControlType, Restored, Ours, Starting
  <2>3. JournalInv'
    BY <1>8 DEF FollowOpens, CoreInv, ControlInv, JournalInv, Restored, Pumping, EndsOnce,
                Ascending, NoOutcome
  <2> QED
    BY <2>2, <2>3 DEF CoreInv
<1>9. CASE FollowReads
  BY <1>3, <1>9 DEF FollowReads, CoreInv, ControlInv, ControlType
<1>10. CASE ShutdownCancelsPump
  <2>1. ControlType'
    BY <1>10 DEF ShutdownCancelsPump, CoreInv, ControlInv, ControlType
  <2>2. \A c \in Cancellers : canceller'[c] = canceller[c] \/ (c = "consumer" /\ Ours)
    BY <1>10 DEF ShutdownCancelsPump, CoreInv, ControlInv, ControlType, Ours
  <2>3. ControlInv'
    BY <1>10, <2>1, <2>2
       DEF ShutdownCancelsPump, CoreInv, ControlInv, Ours, Starting, Cancellers
  <2>4. JournalInv'
    BY <1>10 DEF ShutdownCancelsPump, CoreInv, JournalInv, Pumping, EndsOnce, Ascending, NoOutcome
  <2> QED
    BY <2>3, <2>4 DEF CoreInv
<1> QED
  BY <1>1, <1>2, <1>4, <1>5, <1>6, <1>7, <1>8, <1>9, <1>10

(* _persist_state changes a record's state and nothing else. *)
LEMMA WithStateKeeps ==
  ASSUME NEW r \in RunRecords \cup {None}, NEW s \in Outcomes
  PROVE  /\ WithState(r, s) \in RunRecords \cup {None}
         /\ WithState(r, s) = None <=> r = None
         /\ r # None => WithState(r, s).state = s /\ WithState(r, s).events = r.events
                        /\ WithState(r, s) \in RunRecords
  BY RecordFields, ChatAssumption DEF WithState

(* cancel and shutdown of a run overwrite its state; its journal stays. *)
LEMMA CancelKeepsCore ==
  ASSUME CoreInv,
         CancelRequest \/ ShutdownBegins \/ \E c \in {"chat", "shutdown"} : CancelAccepted(c)
  PROVE  CoreInv'
<1> USE ChatAssumption
<1>1. ASSUME UNCHANGED <<provider, pump, req, spawned>>,
             svc' = svc \/ (svc' # "down" /\ svc = "up" /\ svc' \in {"up", "stopping", "down"}),
             adapter' \in AdapterType, adapter'.made = adapter.made,
             adapter'.closed = adapter.closed,
             canceller' \in [Cancellers -> {"off", "wants", "holds"}],
             \A c \in Cancellers : canceller'[c] = "off" \/ canceller[c] # "off"
                                   \/ (Ours /\ c # "stream"),
             \/ rec' = rec /\ row' = row
             \/ rec' = WithState(rec, "cancelled") /\ row' = WithState(row, "cancelled")
      PROVE  CoreInv'
  <2>1. /\ rec \in RunRecords \cup {None} /\ row \in RunRecords \cup {None}
        /\ "cancelled" \in Outcomes /\ "cancelled" # "running"
    BY DEF CoreInv, ControlInv, ControlType, Outcomes
  <2>2. /\ rec' \in RunRecords \cup {None} /\ row' \in RunRecords \cup {None}
        /\ rec' = None <=> rec = None
    BY <1>1, <2>1, WithStateKeeps
  <2>3. /\ row' = None <=> row = None
    BY <1>1, <2>1, WithStateKeeps
  <2>4. /\ rec # None => rec'.events = rec.events
        /\ row # None => row'.events = row.events
    BY <1>1, <2>1, WithStateKeeps
  <2>5. /\ rec # None => rec'.state = rec.state \/ rec'.state = "cancelled"
        /\ row # None => row'.state = row.state \/ row'.state = "cancelled"
    BY <1>1, <2>1, WithStateKeeps
  <2>6. ControlType'
    BY <1>1, <2>2 DEF CoreInv, ControlInv, ControlType
  <2>7. ControlInv'
    <3>1. Starting' = Starting
      BY <1>1 DEF Starting
    <3>2. Ours' = Ours
      BY <1>1 DEF Ours
    <3>3. canceller'["stream"] # "off" => canceller["stream"] # "off"
      BY <1>1 DEF Cancellers
    <3>4. /\ rec' # None /\ rec'.state = "running" => rec # None /\ rec.state = "running"
          /\ row' # None /\ row'.state = "running" => row # None /\ row.state = "running"
      BY <2>1, <2>2, <2>3, <2>5
    <3>5. svc' = "down" <=> svc = "down"
      BY <1>1
    <3> QED
      BY <1>1, <2>2, <2>3, <2>6, <3>1, <3>2, <3>3, <3>4, <3>5 DEF CoreInv, ControlInv
  <2>8. JournalInv'
    <3>1. Pumping' = Pumping
      BY <1>1 DEF Pumping
    <3>2. Pumping => rec # None
      BY DEF CoreInv, ControlInv, Pumping
    <3> QED
      BY <1>1, <2>1, <2>3, <2>4, <2>5, <3>1, <3>2
         DEF CoreInv, JournalInv, EndsOnce, Ascending, NoOutcome
  <2> QED
    BY <2>7, <2>8 DEF CoreInv
<1>2. /\ adapter \in AdapterType /\ canceller \in [Cancellers -> {"off", "wants", "holds"}]
      /\ svc \in {"up", "stopping", "down"}
      /\ rec # None /\ rec.state = "running" => provider # None
  BY DEF CoreInv, ControlInv, ControlType
<1>3. CASE CancelRequest
  <2>1. CASE provider = "api"
    BY <1>1, <1>2, <1>3, <2>1 DEF CancelRequest, Running
  <2>2. CASE provider # "api"
    BY <1>1, <1>2, <1>3, <2>2 DEF CancelRequest, Running, Ours, Cancellers
  <2> QED
    BY <2>1, <2>2
<1>4. CASE ShutdownBegins
  <2>1. CASE Running(rec) /\ provider = "api"
    BY <1>1, <1>2, <1>4, <2>1 DEF ShutdownBegins, Running
  <2>2. CASE ~(Running(rec) /\ provider = "api")
    BY <1>1, <1>2, <1>4, <2>2 DEF ShutdownBegins, Running, Ours, Cancellers
  <2> QED
    BY <2>1, <2>2
<1>5. ASSUME NEW c \in {"chat", "shutdown"}, CancelAccepted(c)
      PROVE  CoreInv'
  <2>1. adapter' \in AdapterType /\ adapter'.made = adapter.made /\ adapter'.closed = adapter.closed
    BY <1>2, <1>5 DEF CancelAccepted, CancelLocal, AdapterType, Outcomes
  <2>2. canceller' = [canceller EXCEPT ![c] = "off"]
    BY <1>5 DEF CancelAccepted, ProcessCancelReturns
  <2> QED
    BY <1>1, <1>2, <1>5, <2>1, <2>2 DEF CancelAccepted, ProcessCancelReturns
<1> QED
  BY <1>3, <1>4, <1>5

(* A service that goes down takes its memory along and leaves the row. *)
LEMMA LossKeepsCore ==
  ASSUME CoreInv, MemoryLost
  PROVE  CoreInv'
<1>1. /\ rec' = None /\ row' = row /\ provider' = None /\ pump' = "none" /\ svc' = "down"
      /\ spawned' = 0 /\ req' = [q \in Requests |-> "idle"] /\ canceller' = Idle
  BY DEF MemoryLost
<1>2. ~adapter'.made /\ ~adapter'.closed /\ adapter' \in AdapterType
  BY DEF MemoryLost, FreshAdapter, AdapterType
<1>3. Starting' = {} /\ ~Ours'
  BY <1>1 DEF Starting, Ours
<1>4. ControlType'
  BY <1>1, <1>2 DEF CoreInv, ControlInv, ControlType, Idle
<1>5. \A c \in Cancellers : canceller'[c] = "off"
  BY <1>1 DEF Idle
<1>6. \A q \in Requests : req'[q] = "idle"
  BY <1>1
<1>7. ControlInv'
  BY <1>1, <1>2, <1>3, <1>4, <1>5, <1>6 DEF ControlInv, Cancellers
<1>8. JournalInv'
  BY <1>1 DEF CoreInv, JournalInv, Pumping, EndsOnce, Ascending, NoOutcome
<1> QED
  BY <1>7, <1>8 DEF CoreInv

(* Recovery adds "failed" to a journal that was running, hence not ended. *)
LEMMA RestartKeepsCore ==
  ASSUME CoreInv, Restart
  PROVE  /\ CoreInv'
         /\ row' = None <=> row = None
         /\ row # None => row'.events = row.events \/ Grows(row, row')
<1>1. /\ rec = None /\ provider = None /\ pump = "none" /\ svc' = "up"
      /\ row \in RunRecords \cup {None}
      /\ UNCHANGED <<provider, adapter, rec, pump, req, canceller, spawned>>
  BY ChatAssumption DEF Restart, CoreInv, ControlInv, ControlType
<1>2. CASE ~Running(row)
  <2>1. row' = row
    BY <1>2 DEF Restart
  <2>2. ControlType'
    BY <1>1, <2>1 DEF CoreInv, ControlInv, ControlType
  <2>3. ControlInv'
    BY <1>1, <1>2, <2>1, <2>2 DEF CoreInv, ControlInv, Running, Ours, Starting
  <2>4. JournalInv'
    BY <1>1, <2>1 DEF CoreInv, JournalInv, Pumping, EndsOnce, Ascending, NoOutcome
  <2> QED
    BY <2>1, <2>3, <2>4 DEF CoreInv
<1>3. CASE Running(row)
  <2>1. /\ row \in RunRecords /\ row.state = "running" /\ row' = WithEvents(row, <<"failed">>)
        /\ NoOutcome(row) /\ Ascending(row)
    BY <1>1, <1>3 DEF Restart, Running, CoreInv, JournalInv
  <2>2. "failed" \in Outcomes /\ "failed" \in EventNames /\ "failed" # "running"
    BY DEF Outcomes, EventNames
  <2>3. Reportable(<<"failed">>) /\ Len(<<"failed">>) = 1 /\ <<"failed">>[1] = "failed"
    BY <2>2, ReportOfOne
  <2>4. /\ row' \in RunRecords /\ row'.state = "failed"
        /\ Added(row.events, row'.events, <<"failed">>, LastSeq(row))
    BY <2>1, <2>2, <2>3, WithEventsAdds
  <2>5. EndsOnce(row') /\ Ascending(row')
    BY <2>1, <2>3, <2>4, AddedKeeps
  <2>6. Grows(row, row')
    <3>1. Len(<<"failed">>) > 0
      BY <2>3
    <3> QED
      BY <2>1, <2>3, <2>4, <2>5, <3>1, AddedGrows
  <2>7. row' # None
    BY <2>4, RecordFields
  <2>8. ControlType'
    BY <1>1, <2>4 DEF CoreInv, ControlInv, ControlType
  <2>9. ControlInv'
    BY <1>1, <1>3, <2>2, <2>4, <2>8 DEF CoreInv, ControlInv, Running, Ours, Starting
  <2>10. JournalInv'
    BY <1>1, <2>2, <2>4, <2>5 DEF JournalInv, Pumping
  <2> QED
    BY <1>3, <2>6, <2>7, <2>9, <2>10 DEF CoreInv, Running
<1> QED
  BY <1>2, <1>3

\* A report that ends the run.
Final(es) == es # <<>> /\ es[Len(es)] \in Outcomes

(* A step of the pump: it yields es, and an adapter that reports an outcome *)
(* while its pump runs on closes its stream.  The Codex adapters report an  *)
(* outcome when their session has ended.                                    *)
YieldStep(es, to) ==
    /\ Pumping /\ Reportable(es) /\ (es # <<>> => ~adapter.closed)
    /\ Yield(es, to)
    /\ UNCHANGED <<provider, svc, req, spawned>>
    /\ adapter' \in AdapterType /\ adapter'.made = adapter.made
    /\ adapter'.closed => Ours
    /\ pump' = "live" /\ ~adapter'.closed =>
         ~adapter.closed /\ \A i \in 1..Len(es) : es[i] \notin Outcomes
    /\ Final(es) \/ adapter.closed \/ (to = "live" /\ ~adapter'.closed)
    /\ terminal => terminal'
    /\ InCodex /\ Final(es) => terminal'
    /\ canceller' \in [Cancellers -> {"off", "wants", "holds"}]
    /\ canceller'["stream"] = "off"
    /\ \A c \in Cancellers : canceller'[c] = "off" \/ canceller'[c] = canceller[c]

\* What a step of the pump does to the stored journal.
RowGrows ==
    /\ row' = None <=> row = None
    /\ row # None => row'.events = row.events \/ Grows(row, row')

(* Control and journals survive such a step. *)
LEMMA YieldStepKeepsCore ==
  ASSUME CoreInv, NEW es, NEW to \in {"live", "done"}, YieldStep(es, to)
  PROVE  CoreInv' /\ RowGrows
<1>1. Yielded(es, to)
  BY YieldKeeps DEF YieldStep
<1>2. /\ rec' \in RunRecords /\ row' \in RunRecords \cup {None} /\ pump' \in {"live", "done"}
      /\ rec' # None /\ rec # None /\ provider # None
  BY <1>1, RecordFields DEF Yielded, YieldStep, CoreInv, ControlInv, Pumping
<1>3. ControlType'
  BY <1>2 DEF YieldStep, CoreInv, ControlInv, ControlType
<1>4. ControlInv'
  <2>1. Starting' = Starting /\ Ours' = Ours
    BY DEF YieldStep, Starting, Ours
  <2>2. svc # "down"
    BY <1>2 DEF CoreInv, ControlInv
  <2>3. \A q \in Requests : req[q] # "starting"
    BY <1>2 DEF CoreInv, ControlInv
  <2>4. provider' = provider /\ svc' = svc /\ req' = req /\ spawned' = spawned
        /\ adapter'.made = adapter.made /\ (adapter'.closed => Ours)
    BY DEF YieldStep
  <2>5. \A c \in Cancellers : canceller'[c] # "off" => canceller[c] # "off"
    BY DEF YieldStep
  <2>6. canceller'["stream"] = "off" /\ pump' # "blocked"
    BY <1>2 DEF YieldStep
  <2> QED
    BY <1>2, <1>3, <2>1, <2>2, <2>3, <2>4, <2>5, <2>6 DEF CoreInv, ControlInv
<1>5. JournalInv'
  BY <1>1, <1>2 DEF Yielded, YieldStep, JournalInv, Pumping
<1> QED
  BY <1>1, <1>4, <1>5 DEF CoreInv, RowGrows, Yielded

(* Every step of the pump is such a step, except that a blocked stream      *)
(* reports nothing yet.                                                     *)
LEMMA PumpYields ==
  ASSUME SessionInv, CoreInv, PumpStep \/ StreamUnblocks, ~StreamBlocks
  PROVE  \E es : \E to \in {"live", "done"} : YieldStep(es, to)
<1> USE ChatAssumption
<1>1. /\ adapter \in AdapterType /\ canceller \in [Cancellers -> {"off", "wants", "holds"}]
      /\ "stream" \in Cancellers /\ (pump = "live" => canceller["stream"] = "off")
      /\ (adapter.closed => Ours) /\ (Pumping => provider # None)
      /\ None \notin Outcomes /\ Reportable(<<>>) /\ <<>> = <<>>
  BY DEF CoreInv, ControlInv, ControlType, Pumping, Cancellers, Reportable
<1>2. ASSUME NEW f \in Outcomes
      PROVE  Close(f) \in AdapterType /\ Close(f).made = adapter.made /\ Close(f).closed
  BY <1>1 DEF Close, AdapterType
<1>3. /\ "failed" \in Outcomes /\ "failed" \in EventNames
      /\ Reportable(<<"failed">>) /\ <<"failed">> # <<>>
  BY ReportOfOne DEF Outcomes, EventNames
<1>4. CASE StreamEvent
  <2> DEFINE e == log[adapter.pos + 1]
  <2>1. PICK es \in IF adapter.closed THEN {<<>>} ELSE Reports(e) :
          LET final == IF es # <<>> /\ es[Len(es)] \in Outcomes THEN es[Len(es)] ELSE None
          IN  /\ Yield(es, "live")
              /\ adapter' =
                   [IF final = None \/ pump' # "live" THEN adapter ELSE Close(final)
                    EXCEPT !.pos = @ + 1,
                           !.done = @ \/ (e = "done" /\ ~adapter.closed),
                           !.emitted = @ \/ es # <<>>]
    BY <1>4 DEF StreamEvent
  <2> DEFINE final == IF es # <<>> /\ es[Len(es)] \in Outcomes THEN es[Len(es)] ELSE None
  <2>2. Reportable(es) /\ (es # <<>> => ~adapter.closed)
    BY <1>1, <2>1, ReportsAreReportable
  <2>3. final \in Outcomes \cup {None}
    OBVIOUS
  <2> DEFINE base == IF final = None \/ pump' # "live" THEN adapter ELSE Close(final)
             was == e = "done" /\ ~adapter.closed
             some == es # <<>>
  <2>4. /\ base \in AdapterType /\ base.made = adapter.made
        /\ (base.closed => Ours)
        /\ pump' = "live" /\ ~base.closed => ~adapter.closed /\ final = None
    <3>1. CASE final = None \/ pump' # "live"
      BY <1>1, <3>1
    <3>2. CASE ~(final = None \/ pump' # "live")
      <4>1. base = Close(final) /\ final \in Outcomes
        BY <2>3, <3>2
      <4>2. Ours
        BY <1>1, <1>4 DEF StreamEvent, Ours, Pumping
      <4> QED
        BY <1>2, <4>1, <4>2
    <3> QED
      BY <3>1, <3>2
  <2>5. adapter' = [base EXCEPT !.pos = @ + 1, !.done = @ \/ was, !.emitted = @ \/ some]
    BY <2>1
  <2>11. terminal' = terminal /\ (InCodex /\ Final(es) => terminal)
    <3>1. terminal' = terminal
      BY <1>4 DEF StreamEvent, sessionVars
    <3>2. CASE InCodex /\ Final(es)
      <4>1. es \in Reports(e) /\ provider # "claude"
        BY <2>1, <3>2 DEF Final, InCodex
      <4>2. e \in TerminalKinds
        BY <3>2, <4>1, ReportsAreReportable DEF Final
      <4>3. adapter.pos + 1 \in 1..Len(log)
        BY <1>1, <1>4 DEF StreamEvent, AdapterType, SessionInv, SessionTypeOK
      <4>4. TerminalIn(log) # {}
        BY <4>2, <4>3 DEF TerminalIn
      <4>5. terminal
        BY <4>4 DEF SessionInv
      <4> QED
        BY <3>1, <4>5
    <3> QED
      BY <3>1, <3>2
  <2>12. final = None <=> ~Final(es)
    BY <1>1 DEF Final
  <2>13. base.closed = adapter.closed \/ final # None
    OBVIOUS
  <2>6. final = None => \A i \in 1..Len(es) : es[i] \notin Outcomes
    <3>1. CASE es = <<>>
      BY <3>1
    <3>2. CASE es # <<>>
      BY <1>1, <2>2, <3>2 DEF Reportable
    <3> QED
      BY <3>1, <3>2
  <2>7. was \in BOOLEAN /\ some \in BOOLEAN
    OBVIOUS
  <2> HIDE DEF base, was, some, final, e
  <2>8. adapter' \in AdapterType /\ adapter'.made = base.made /\ adapter'.closed = base.closed
    <3> DEFINE d == base.done \/ was
               m == base.emitted \/ some
               n == base.pos + 1
    <3>1. adapter' = [base EXCEPT !.pos = n, !.done = d, !.emitted = m]
      BY <2>5
    <3>2. n \in Nat
      BY <2>4 DEF AdapterType
    <3>3. d \in BOOLEAN /\ m \in BOOLEAN
      OBVIOUS
    <3> HIDE DEF d, m, n
    <3> QED
      BY <2>4, <3>1, <3>2, <3>3 DEF AdapterType
  <2>9. /\ Yield(es, "live") /\ UNCHANGED <<provider, svc, req, spawned, canceller>>
        /\ Pumping /\ canceller["stream"] = "off"
    BY <1>1, <1>4, <2>1 DEF StreamEvent, Pumping
  <2>10. YieldStep(es, "live")
    <3>1. Final(es) \/ adapter.closed \/ ~adapter'.closed
      BY <2>8, <2>12, <2>13
    <3> QED
      BY <1>1, <2>2, <2>4, <2>6, <2>8, <2>9, <2>11, <3>1 DEF YieldStep
  <2> QED
    BY <2>10
<1>6. CASE StreamEnds
  <2> DEFINE es == IF adapter.closed THEN <<>> ELSE <<"failed">>
  <2>1. Reportable(es) /\ (es # <<>> => ~adapter.closed)
    BY <1>1, <1>3
  <2>2. adapter' \in AdapterType /\ adapter'.made = adapter.made
    BY <1>1, <1>2, <1>3, <1>6 DEF StreamEnds
  <2>5. Final(es) \/ adapter.closed
    BY <1>3, ReportOfOne DEF Final
  <2>3. /\ terminal /\ terminal' = terminal
        /\ Yield(es, "done") /\ UNCHANGED <<provider, svc, req, spawned, canceller>>
        /\ Pumping /\ Ours /\ canceller["stream"] = "off" /\ pump' # "live"
    BY <1>1, <1>6 DEF StreamEnds, Pumping, Ours, Yield, sessionVars
  <2> HIDE DEF es
  <2>4. YieldStep(es, "done")
    BY <1>1, <2>1, <2>2, <2>3, <2>5 DEF YieldStep
  <2> QED
    BY <2>4
<1>7. ASSUME ApiFrame, pump = "live", provider = "api", NEW es, Reportable(es),
             NEW to \in {"live", "done"}, Yield(es, to),
             to = "live" => \A i \in 1..Len(es) : es[i] \notin Outcomes,
             to = "live" \/ Final(es)
      PROVE  \E os : \E st \in {"live", "done"} : YieldStep(os, st)
  <2>1. ~adapter.closed /\ ~Ours
    BY <1>1, <1>7 DEF Ours
  <2>2. pump' = "live" => to = "live"
    BY <1>7 DEF Yield
  <2>3. YieldStep(es, to)
    BY <1>1, <1>7, <2>1, <2>2 DEF YieldStep, ApiFrame, Pumping, sessionVars, InCodex
  <2> QED
    BY <2>3
<1>8. CASE ApiStarted
  <2>1. "started" \in EventNames /\ "started" \notin Outcomes
    BY DEF EventNames, Outcomes
  <2>2. Reportable(<<"started">>) /\ \A i \in 1..Len(<<"started">>) : <<"started">>[i] \notin Outcomes
    BY <2>1, ReportOfOne
  <2> QED
    BY <1>7, <1>8, <2>2 DEF ApiStarted
<1>9. CASE ApiLine
  <2>1. PICK line \in ApiLines : Yield(LineEvents(line), "live")
    BY <1>9 DEF ApiLine
  <2>2. /\ Reportable(LineEvents(line))
        /\ \A i \in 1..Len(LineEvents(line)) : LineEvents(line)[i] \notin Outcomes
    <3>1. LineEvents(line) = <<>> \/ \E a \in {"message", "usage"} : LineEvents(line) = <<a>>
      BY DEF LineEvents
    <3>2. CASE LineEvents(line) = <<>>
      BY <1>1, <3>2
    <3>3. ASSUME NEW a \in {"message", "usage"}, LineEvents(line) = <<a>>
          PROVE  /\ Reportable(LineEvents(line))
                 /\ \A i \in 1..Len(LineEvents(line)) : LineEvents(line)[i] \notin Outcomes
      <4>1. a \in EventNames /\ a \notin Outcomes
        BY DEF EventNames, Outcomes
      <4> QED
        BY <3>3, <4>1, ReportOfOne
    <3> QED
      BY <3>1, <3>2, <3>3
  <2> QED
    BY <1>7, <1>9, <2>1, <2>2 DEF ApiLine
<1>10. CASE ApiEnds
  <2>1. PICK a \in Outcomes : Yield(<<a>>, "done")
    BY <1>10 DEF ApiEnds, ApiOver, Outcomes
  <2>2. Reportable(<<a>>) /\ Final(<<a>>)
    BY ReportOfOne DEF EventNames, Final
  <2> QED
    BY <1>7, <1>10, <2>1, <2>2 DEF ApiEnds
<1>11. CASE StreamUnblocks
  <2>1. /\ Yield(<<"failed">>, "live") /\ canceller["stream"] # "off"
        /\ canceller' = [canceller EXCEPT !["stream"] = "off"]
        /\ adapter' = IF pump' = "live" THEN Close("failed") ELSE adapter
        /\ UNCHANGED <<provider, svc, req, spawned>>
    BY <1>11 DEF StreamUnblocks, ProcessCancelReturns
  <2>2. Pumping /\ Ours /\ ~adapter.closed
    BY <1>1, <2>1 DEF CoreInv, ControlInv, Pumping
  <2>3. /\ adapter' \in AdapterType /\ adapter'.made = adapter.made
        /\ pump' = "live" => adapter'.closed
    BY <1>1, <1>2, <1>3, <2>1
  <2>5. terminal' /\ Final(<<"failed">>)
    BY <1>3, <1>11, ReportOfOne
       DEF StreamUnblocks, ProcessCancelReturns, CancelFinishes, CancelTooLate, AppendTerminal,
           sessionVars, Final
  <2>4. YieldStep(<<"failed">>, "live")
    BY <1>1, <1>3, <2>1, <2>2, <2>3, <2>5 DEF YieldStep
  <2> QED
    BY <2>4
<1> QED
  BY <1>4, <1>6, <1>8, <1>9, <1>10, <1>11 DEF PumpStep

(* ... and keeps control and journals. *)
LEMMA PumpKeepsCore ==
  ASSUME SessionInv, CoreInv, PumpStep \/ StreamUnblocks
  PROVE  CoreInv' /\ RowGrows
<1>1. CASE ~StreamBlocks
  BY <1>1, PumpYields, YieldStepKeepsCore
<1>2. CASE StreamBlocks
  <2>6. /\ adapter \in AdapterType /\ canceller \in [Cancellers -> {"off", "wants", "holds"}]
        /\ "stream" \in Cancellers /\ (Pumping => provider # None)
    BY DEF CoreInv, ControlInv, ControlType, Pumping, Cancellers
  <2>1. adapter' \in AdapterType /\ adapter'.made = adapter.made /\ adapter'.closed = adapter.closed
    BY <2>6, <1>2 DEF StreamBlocks, AdapterType
  <2>2. Ours /\ Starting' = Starting /\ Ours'
    BY <2>6, <1>2 DEF StreamBlocks, Ours, Starting, Pumping
  <2>3. ControlType'
    BY <1>2, <2>1 DEF StreamBlocks, CoreInv, ControlInv, ControlType
  <2>4. ControlInv'
    BY <2>6, <1>2, <2>1, <2>2, <2>3 DEF StreamBlocks, CoreInv, ControlInv
  <2>5. JournalInv'
    BY <1>2, <2>1 DEF StreamBlocks, CoreInv, JournalInv, Pumping, EndsOnce, Ascending, NoOutcome
  <2> QED
    BY <1>2, <2>4, <2>5 DEF CoreInv, RowGrows, StreamBlocks
<1> QED
  BY <1>1, <1>2

(* Control and journals in every behaviour of the service. *)
LEMMA CoreInvKept == SessionInv /\ CoreInv /\ [Next]_vars => CoreInv'
<1> SUFFICES ASSUME SessionInv, CoreInv, [Next]_vars PROVE CoreInv'
  OBVIOUS
<1>1. CASE ShutdownEnds \/ Crash
  BY <1>1, LossKeepsCore DEF ShutdownEnds, Crash
<1>2. CASE CancelStep
  BY <1>2, OthersKeepCore, CancelKeepsCore, PumpKeepsCore DEF CancelStep
<1>3. ASSUME NEW q \in Requests,
             StartReplay(q) \/ StartBegin(q) \/ StartRefused(q) \/ StartPersisted(q)
             \/ StartUnpersisted(q)
      PROVE  CoreInv'
  BY <1>3, StartKeepsCore
<1>4. CASE SessionStep \/ PruneRow \/ CancelDropped \/ FollowOpens \/ FollowReads
           \/ ShutdownCancelsPump \/ UNCHANGED vars
  BY <1>4, OthersKeepCore
<1>5. CASE PumpStep
  BY <1>5, PumpKeepsCore
<1>6. CASE CancelRequest \/ ShutdownBegins
  BY <1>6, CancelKeepsCore
<1>7. CASE Restart
  BY <1>7, RestartKeepsCore
<1> QED
  BY <1>1, <1>2, <1>3, <1>4, <1>5, <1>6, <1>7 DEF Next, ShutdownStep

(* ... from the first one on. *)
LEMMA CoreInvHolds == Spec => [](SessionInv /\ CoreInv)
<1>1. Init => CoreInv
  BY CoreInvInit
<1>2. SessionInv /\ CoreInv /\ [Next]_vars => CoreInv'
  BY CoreInvKept
<1> QED
  BY <1>1, <1>2, SessionInvHolds, PTL DEF Spec

(* However pump, cancels, failed writes, shutdown, crash and recovery race  *)
(* to write it (local_chat.py:455-498, 793-829), a stored journal ends with *)
(* its first outcome and its events are numbered upwards.                   *)
THEOREM JournalEndsOnceHolds == Spec => []JournalEndsOnce
<1>1. CoreInv => JournalEndsOnce
  <2> SUFFICES ASSUME CoreInv, row # None PROVE JournalEndsOnce
    BY DEF JournalEndsOnce
  <2>1. row.events \in Seq(Nat \X EventNames) /\ EndsOnce(row) /\ Ascending(row)
    BY DEF CoreInv, ControlInv, ControlType, JournalInv, RunRecords
  <2>2. DOMAIN row.events = 1..Len(row.events) /\ Len(row.events) \in Nat
    BY <2>1
  <2> QED
    BY <2>1, <2>2 DEF JournalEndsOnce, EndsOnce, Ascending
<1> QED
  BY <1>1, CoreInvHolds, PTL

-----------------------------------------------------------------------------
(* The stored journal implements the abstract one                           *)

\* What a step of the service may do to the row.
RowMoves ==
    \/ RowGrows
    \/ row = None /\ row' \in RunRecords /\ row'.events = <<>>
    \/ row # None /\ row' = None

(* Every step of the service moves the row that way or leaves it alone. *)
LEMMA EveryStepMovesRow == SessionInv /\ CoreInv /\ [Next]_vars => RowMoves
<1> SUFFICES ASSUME SessionInv, CoreInv, [Next]_vars PROVE RowMoves
  OBVIOUS
<1>1. row \in RunRecords \cup {None} /\ "cancelled" \in Outcomes
  BY DEF CoreInv, ControlInv, ControlType, Outcomes
<1>2. ASSUME row' = row PROVE RowMoves
  BY <1>2 DEF RowMoves, RowGrows
<1>3. ASSUME row' = WithState(row, "cancelled") PROVE RowMoves
  BY <1>1, <1>3, WithStateKeeps DEF RowMoves, RowGrows
<1>4. ASSUME NEW q \in Requests, StartPersisted(q) PROVE RowMoves
  <2>1. /\ row = None /\ row' = NewRecord(q) /\ row'.events = <<>>
    BY <1>4 DEF StartPersisted, NewRecord, CoreInv, ControlInv
  <2>2. row' \in RunRecords
    <3>1. <<>> \in Seq(Nat \X EventNames)
      OBVIOUS
    <3> QED
      BY <2>1, <3>1 DEF RunRecords, NewRecord
  <2> QED
    BY <2>1, <2>2 DEF RowMoves
<1>5. CASE PumpStep \/ StreamUnblocks
  BY <1>5, PumpKeepsCore DEF RowMoves
<1>6. CASE Restart
  BY <1>6, RestartKeepsCore DEF RowMoves, RowGrows
<1>7. CASE PruneRow
  BY <1>7 DEF PruneRow, RowMoves
<1>8. CASE CancelRequest \/ ShutdownBegins \/ \E c \in {"chat", "shutdown"} : CancelAccepted(c)
  BY <1>2, <1>3, <1>8 DEF CancelRequest, ShutdownBegins, CancelAccepted
<1>9. ASSUME NEW q \in Requests, StartReplay(q) \/ StartBegin(q) \/ StartRefused(q)
                                 \/ StartUnpersisted(q)
      PROVE  RowMoves
  BY <1>2, <1>9 DEF StartReplay, StartBegin, StartRefused, StartUnpersisted
<1>10. ASSUME NEW c \in Cancellers, ProcessCancelEnters(c) PROVE RowMoves
  BY <1>2, <1>10 DEF ProcessCancelEnters
<1>11. CASE StartUndone \/ ConsumerCleanup \/ CancelDropped \/ FollowOpens \/ FollowReads
            \/ ShutdownCancelsPump \/ ShutdownEnds \/ Crash \/ SessionStep \/ UNCHANGED vars
  BY <1>2, <1>11 DEF StartUndone, ConsumerCleanup, CancelDropped, FollowOpens, FollowReads,
                     ShutdownCancelsPump, ShutdownEnds, Crash, MemoryLost, SessionStep, vars,
                     chatVars
<1> QED
  BY <1>4, <1>5, <1>6, <1>7, <1>8, <1>9, <1>10, <1>11 DEF Next, ShutdownStep, CancelStep

Types(r) == IF r = None THEN None ELSE EventTypes(r)

(* The types of a record's events. *)
LEMMA TypesOfEvents ==
  ASSUME NEW r \in RunRecords
  PROVE  /\ Types(r) = EventTypes(r) /\ Types(r) # None
         /\ EventTypes(r) \in Seq(EventNames) /\ Len(EventTypes(r)) = Len(r.events)
         /\ \A i \in 1..Len(r.events) : EventTypes(r)[i] = r.events[i][2]
<1>1. r.events \in Seq(Nat \X EventNames) /\ r # None
  BY RecordFields
<1>2. DOMAIN r.events = 1..Len(r.events) /\ Len(r.events) \in Nat
  BY <1>1
<1>3. \A i \in 1..Len(r.events) : r.events[i][2] \in EventNames
  BY <1>1
<1>4. EventTypes(r) = [i \in 1..Len(r.events) |-> r.events[i][2]]
  BY <1>2 DEF EventTypes
<1>5. EventTypes(r) \in Seq(EventNames) /\ Len(EventTypes(r)) = Len(r.events)
  BY <1>2, <1>3, <1>4
<1> QED
  BY <1>1, <1>4, <1>5, ChatAssumption DEF Types

(* A journal that grows is extended by events of which only the last may be *)
(* an outcome.                                                              *)
LEMMA GrowthExtends ==
  ASSUME NEW r \in RunRecords, NEW t \in RunRecords, Grows(r, t)
  PROVE  LET new == EventTypes(t)
             old == EventTypes(r)
         IN  /\ ~ \E i \in DOMAIN old : old[i] \in Outcomes
             /\ Len(new) > Len(old) /\ SubSeq(new, 1, Len(old)) = old
             /\ \A i \in 1..(Len(new) - 1) : new[i] \notin Outcomes
<1> DEFINE new == EventTypes(t)
           old == EventTypes(r)
<1>1. /\ old \in Seq(EventNames) /\ Len(old) = Len(r.events)
      /\ \A i \in 1..Len(r.events) : old[i] = r.events[i][2]
      /\ new \in Seq(EventNames) /\ Len(new) = Len(t.events)
      /\ \A i \in 1..Len(t.events) : new[i] = t.events[i][2]
  BY TypesOfEvents
<1>2. /\ Len(t.events) > Len(r.events) /\ Len(t.events) \in Nat /\ Len(r.events) \in Nat
      /\ \A k \in 1..Len(r.events) : t.events[k] = r.events[k]
      /\ \A i \in 1..Len(r.events) : r.events[i][2] \notin Outcomes
      /\ \A i \in 1..Len(t.events) : t.events[i][2] \in Outcomes => i = Len(t.events)
  BY RecordFields DEF Grows, NoOutcome, EndsOnce
<1> HIDE DEF new, old
<1>3. DOMAIN old = 1..Len(r.events)
  BY <1>1
<1>4. \A i \in 1..Len(r.events) : new[i] = old[i]
  BY <1>1, <1>2
<1>5. SubSeq(new, 1, Len(old)) = old
  <2>1. /\ SubSeq(new, 1, Len(old)) \in Seq(EventNames) /\ Len(SubSeq(new, 1, Len(old))) = Len(old)
        /\ \A i \in 1..Len(old) : SubSeq(new, 1, Len(old))[i] = new[i]
    BY <1>1, <1>2
  <2>2. \A i \in 1..Len(old) : SubSeq(new, 1, Len(old))[i] = old[i]
    BY <1>1, <1>4, <2>1
  <2> QED
    BY <1>1, <2>1, <2>2, SeqEqual
<1>6. \A i \in 1..(Len(new) - 1) : new[i] \notin Outcomes
  BY <1>1, <1>2
<1>7. Len(new) > Len(old)
  BY <1>1, <1>2
<1>8. ~ \E i \in DOMAIN old : old[i] \in Outcomes
  BY <1>1, <1>2, <1>3
<1> QED
  BY <1>5, <1>6, <1>7, <1>8 DEF new, old

(* What a reader of the store may rely on (ChatJournal): the journal of a   *)
(* run is opened once, only grows, and ends with its first outcome; a prune *)
(* forgets it as a whole.                                                   *)
THEOREM JournalImplementsPromise == Spec => ImplementsJournal
<1> DEFINE J == Types(row)
<1>1. Init => J = None
  BY DEF Init, Types
<1>2. SessionInv /\ CoreInv /\ [Next]_vars =>
        [StoredJournal!Open \/ StoredJournal!Extend \/ StoredJournal!Forget]_(IF row = None THEN None ELSE EventTypes(row))
  <2> SUFFICES ASSUME SessionInv, CoreInv, [Next]_vars
               PROVE  [StoredJournal!Open \/ StoredJournal!Extend \/ StoredJournal!Forget]_(IF row = None THEN None ELSE EventTypes(row))
    OBVIOUS
  <2>1. RowMoves /\ row \in RunRecords \cup {None} /\ row' \in RunRecords \cup {None}
    BY EveryStepMovesRow, CoreInvKept DEF CoreInv, ControlInv, ControlType
  <2>2. CASE row = None /\ row' = None
    BY <2>2
  <2>3. CASE row # None /\ row' = None
    BY <2>1, <2>3, TypesOfEvents DEF StoredJournal!Forget, Types
  <2>4. CASE row = None /\ row' # None
    <3>1. row' \in RunRecords /\ row'.events = <<>>
      BY <2>1, <2>4 DEF RowMoves, RowGrows
    <3>2. EventTypes(row') = <<>>
      BY <3>1 DEF EventTypes
    <3> QED
      BY <2>4, <3>2 DEF StoredJournal!Open, EventTypes
  <2>5. CASE row # None /\ row' # None
    <3>1. /\ row \in RunRecords /\ row' \in RunRecords
          /\ row'.events = row.events \/ Grows(row, row')
      BY <2>1, <2>5 DEF RowMoves, RowGrows
    <3>2. CASE row'.events = row.events
      BY <2>5, <3>2 DEF EventTypes
    <3>3. CASE Grows(row, row')
      BY <2>5, <3>1, <3>3, GrowthExtends, TypesOfEvents
         DEF StoredJournal!Extend, StoredJournal!Ended, StoredJournal!Outcomes, Outcomes, Types, EventTypes
    <3> QED
      BY <3>1, <3>2, <3>3
  <2> QED
    BY <2>2, <2>3, <2>4, <2>5
<1> QED
  BY <1>1, <1>2, CoreInvHolds, PTL DEF Spec, ImplementsJournal, StoredJournal!Spec, Types

-----------------------------------------------------------------------------
(* The process and who cancels it                                           *)

(* The session's own steps keep what the chat knows of its process. *)
LEMMA SessionKeepsProcess ==
  ASSUME SessionInv, CoreInv, ProcessInv, SessionStep \/ UNCHANGED vars
  PROVE  ProcessInv'
<1> USE SessionAssumption, ChatAssumption
<1>1. /\ UNCHANGED <<adapter, canceller, svc, req, pump>> /\ Starting' = Starting
  BY DEF SessionStep, vars, chatVars, Starting
<1>2. /\ proc' = "none" <=> proc = "none"
      /\ proc' = "alive" => proc = "alive"
      /\ lock' \in {lock, None, "fail"}
      /\ lock' = "fail" => lock = "fail" \/ sup = "failing"
      /\ sup = "none" => sup' = "none" /\ terminal' = terminal /\ lock' = lock
    BY DEF SessionStep, vars, sessionVars, Supervisor, ProcessWrites, ProcessExits, ReadFrame,
           SuperviseEnds, SuperviseFails, FailEnters, FailFinishes, NaturalExit, TerminateTree
<1>3. terminal' /\ proc' = "alive" => \E i \in 1..Len(log') : log'[i] = "failed"
  <2> SUFFICES ASSUME terminal', proc' = "alive"
               PROVE  \E i \in 1..Len(log') : log'[i] = "failed"
    OBVIOUS
  <2>1. /\ log \in Seq(FrameKinds \cup TerminalKinds) /\ Len(log) \in Nat
        /\ proc = "alive" /\ pipe \in Seq(FrameKinds)
    BY <1>2 DEF SessionInv, SessionTypeOK
  <2>2. CASE log' = log /\ terminal' = terminal
    BY <2>1, <2>2 DEF ProcessInv
  <2>3. ASSUME NEW e \in FrameKinds \cup TerminalKinds, log' = Append(log, e), terminal
        PROVE  \E i \in 1..Len(log') : log'[i] = "failed"
    <3>1. PICK i \in 1..Len(log) : log[i] = "failed"
      BY <2>1, <2>3 DEF ProcessInv
    <3>2. Len(log') = Len(log) + 1 /\ log'[i] = log[i]
      BY <2>1, <2>3
    <3>3. i \in 1..Len(log')
      BY <2>1, <3>2
    <3> QED
      BY <3>1, <3>2, <3>3
  <2>4. CASE FailFinishes
    <3>1. log' = Append(log, "failed") /\ "failed" \in TerminalKinds
      BY <2>4 DEF FailFinishes, AppendTerminal, TerminalKinds
    <3>2. Len(log') = Len(log) + 1 /\ log'[Len(log) + 1] = "failed"
      BY <2>1, <3>1
    <3>3. Len(log) + 1 \in 1..Len(log')
      BY <2>1, <3>2
    <3> QED
      BY <3>2, <3>3
  <2>5. CASE ReadFrame
    <3>1. Head(pipe) \in FrameKinds
      BY <2>1, <2>5 DEF ReadFrame
    <3> QED
      BY <2>2, <2>3, <2>5, <3>1 DEF ReadFrame
  <2>6. CASE NaturalExit
    BY <2>1, <2>6 DEF NaturalExit, SessionInv
  <2>7. CASE ProcessWrites \/ ProcessExits \/ SuperviseEnds \/ SuperviseFails \/ FailEnters
             \/ UNCHANGED vars
    BY <2>2, <2>7 DEF ProcessWrites, ProcessExits, SuperviseEnds, SuperviseFails, FailEnters, vars,
                      sessionVars
  <2> QED
    BY <2>4, <2>5, <2>6, <2>7 DEF SessionStep, Supervisor
<1>4. "fail" \notin Cancellers /\ None \notin Cancellers
  BY DEF Cancellers
<1> QED
  BY <1>1, <1>2, <1>3, <1>4 DEF ProcessInv

(* A start spawns where there was no process, and only a start that could   *)
(* not be persisted leaves a cancel behind.                                 *)
LEMMA StartKeepsProcess ==
  ASSUME CoreInv, ProcessInv, NEW q \in Requests,
         StartReplay(q) \/ StartBegin(q) \/ StartRefused(q) \/ StartPersisted(q)
         \/ StartUnpersisted(q)
  PROVE  ProcessInv'
<1> USE ChatAssumption
<1>1. /\ req \in [Requests -> {"idle", "starting", "undo", "ok", "conflict", "failed"}]
      /\ canceller \in [Cancellers -> {"off", "wants", "holds"}] /\ adapter \in AdapterType
      /\ "undo" \in Cancellers
  BY DEF CoreInv, ControlInv, ControlType, Cancellers
<1>2. CASE StartReplay(q) \/ StartBegin(q) \/ StartRefused(q)
  <2>1. /\ UNCHANGED <<sessionVars, adapter, canceller, svc, pump>>
        /\ req[q] # "undo" /\ \A r \in Requests : r # q => req'[r] = req[r]
        /\ svc = "up" \/ Starting # {}
    BY <1>1, <1>2 DEF StartReplay, StartBegin, StartRefused, Starting
  <2>2. svc' = "up"
    BY <2>1 DEF ProcessInv
  <2>3. (\E r \in Requests : req[r] = "undo") => \E r \in Requests : req'[r] = "undo"
    BY <2>1
  <2> QED
    BY <2>1, <2>2, <2>3 DEF ProcessInv, sessionVars
<1>3. ASSUME NEW p \in Providers, BackendStart(p)
      PROVE  /\ adapter'.made <=> proc' # "none"
             /\ UNCHANGED <<log, terminal, lock>>
             /\ proc = "none" \/ proc' = proc
             /\ proc' = "none" => sup' = sup /\ proc = "none"
  <2>1. CASE adapter' = adapter /\ UNCHANGED sessionVars
    BY <2>1 DEF ProcessInv, sessionVars
  <2>2. CASE p = "api"
    BY <1>3, <2>1, <2>2 DEF BackendStart, ApiStart
  <2>3. CASE p # "api" /\ adapter.made
    BY <1>3, <2>1, <2>3 DEF BackendStart, CodexStart, ClaudeStart
  <2>4. CASE p # "api" /\ ~adapter.made
    <3>1. adapter' = [adapter EXCEPT !.made = TRUE] /\ Spawn
      BY <1>3, <2>4 DEF BackendStart, CodexStart, ClaudeStart
    <3>2. adapter'.made = TRUE
      BY <1>1, <3>1 DEF AdapterType
    <3> QED
      BY <3>1, <3>2 DEF Spawn
  <2> QED
    BY <2>2, <2>3, <2>4
<1>4. ASSUME StartPersisted(q) \/ StartUnpersisted(q)
      PROVE  /\ svc' = "up"
             /\ \A r \in Requests : req[r] # "undo"
             /\ canceller["undo"] = "off" /\ canceller["consumer"] = "off"
             /\ canceller["shutdown"] = "off"
  <2>1. q \in Starting /\ req[q] = "starting" /\ svc' = svc
    BY <1>4 DEF StartPersisted, StartUnpersisted, Starting
  <2>2. \A r \in Requests : req[r] # "undo"
    BY <2>1 DEF CoreInv, ControlInv, Starting
  <2> QED
    BY <2>1, <2>2 DEF ProcessInv
<1>5. CASE StartPersisted(q)
  <2>1. PICK p \in Providers : BackendStart(p)
    BY <1>5 DEF StartPersisted
  <2>2. canceller' = canceller
    BY <1>5 DEF StartPersisted
  <2> QED
    BY <1>3, <1>4, <1>5, <2>1, <2>2 DEF ProcessInv
<1>6. CASE StartUnpersisted(q)
  <2>1. PICK p \in Providers :
          /\ BackendStart(p)
          /\ canceller' = IF p = "api" \/ adapter.final # None
                          THEN canceller ELSE [canceller EXCEPT !["undo"] = "wants"]
          /\ req' = [req EXCEPT ![q] = IF p = "api" \/ adapter.final # None THEN "failed" ELSE "undo"]
    BY <1>6 DEF StartUnpersisted
  <2>2. /\ \A c \in Cancellers : c # "undo" => canceller'[c] = canceller[c]
        /\ canceller'["undo"] # "off" => req'[q] = "undo"
    BY <1>1, <1>4, <1>6, <2>1
  <2>3. /\ \A c \in Cancellers : lock = c => c # "undo"
    BY <1>4, <1>6 DEF ProcessInv
  <2> QED
    BY <1>3, <1>4, <1>6, <2>1, <2>2, <2>3 DEF ProcessInv, Cancellers
<1> QED
  BY <1>2, <1>5, <1>6

(* The provider session when process.cancel() is entered, returns or is     *)
(* dropped.                                                                 *)
LEMMA CancelKeepsProcess ==
  ASSUME SessionInv, CoreInv, ProcessInv, NEW c \in Cancellers,
         \/ ProcessCancelEnters(c)
         \/ ProcessCancelReturns(c) /\ adapter'.made = adapter.made
            /\ (pump' = pump \/ (pump' # "none" /\ canceller["consumer"] = "off"))
            /\ \/ req' = req
               \/ c = "undo" /\ req' = [q \in Requests |-> IF req[q] = "undo" THEN "failed" ELSE req[q]]
         \/ c = "chat" /\ CancelDropped
  PROVE  ProcessInv'
<1> USE SessionAssumption, ChatAssumption
<1>1. /\ req \in [Requests -> {"idle", "starting", "undo", "ok", "conflict", "failed"}]
      /\ canceller \in [Cancellers -> {"off", "wants", "holds"}]
      /\ None \notin Cancellers /\ log \in Seq(FrameKinds \cup TerminalKinds) /\ Len(log) \in Nat
  BY DEF CoreInv, ControlInv, ControlType, SessionInv, SessionTypeOK
<1>2. CASE ProcessCancelEnters(c)
  <2>1. /\ canceller[c] = "wants" /\ canceller' = [canceller EXCEPT ![c] = "holds"]
        /\ UNCHANGED <<adapter, req, pump, svc, proc, log, terminal, sup>>
        /\ lock = None /\ lock' = c /\ ~terminal
    BY <1>2 DEF ProcessCancelEnters, CancelEnters
  <2>2. Ours /\ adapter.made
    BY <2>1 DEF CoreInv, ControlInv
  <2>3. \A d \in Cancellers : canceller'[d] # "off" => canceller[d] # "off"
    BY <1>1, <2>1
  <2> QED
    BY <1>1, <2>1, <2>2, <2>3 DEF ProcessInv, Starting, Cancellers
<1>3. CASE ~ProcessCancelEnters(c)
  <2>1. canceller' = [canceller EXCEPT ![c] = "off"] /\ svc' = svc /\ canceller[c] # "off"
    BY <1>1, <1>3 DEF ProcessCancelReturns, CancelDropped
  <2>2. /\ \A d \in Cancellers : d # c => canceller'[d] = canceller[d]
        /\ canceller'[c] = "off"
    BY <1>1, <2>1
  <2>3. Starting' \subseteq Starting
    BY <1>1, <1>3 DEF Starting, ProcessCancelReturns, CancelDropped
  <2>4. adapter.made /\ adapter'.made = adapter.made /\ proc # "none"
    <3>1. Ours
      BY <2>1 DEF CoreInv, ControlInv
    <3>2. adapter'.made = adapter.made
      BY <1>3 DEF CancelDropped
    <3> QED
      BY <3>1, <3>2 DEF CoreInv, ControlInv, ProcessInv
  <2>5. CASE CancelFinishes(c)
    <3>1. PICK confirmed \in BOOLEAN :
            TerminateTree(confirmed) /\ log' = Append(log, IF confirmed THEN "cancelled" ELSE "failed")
      BY <2>5 DEF CancelFinishes, AppendTerminal
    <3>2. proc' # "none" /\ lock' = None
      BY <2>4, <2>5, <3>1 DEF CancelFinishes, TerminateTree
    <3>3. proc' = "alive" => log' = Append(log, "failed")
      BY <3>1 DEF TerminateTree
    <3>4. proc' = "alive" => \E i \in 1..Len(log') : log'[i] = "failed"
      <4> SUFFICES ASSUME proc' = "alive" PROVE \E i \in 1..Len(log') : log'[i] = "failed"
        OBVIOUS
      <4>1. Len(log') = Len(log) + 1 /\ log'[Len(log) + 1] = "failed"
        BY <1>1, <3>3 DEF TerminalKinds
      <4>2. Len(log) + 1 \in 1..Len(log')
        BY <1>1, <4>1
      <4> QED
        BY <4>1, <4>2
    <3>5. /\ canceller'["undo"] # "off" => \E q \in Requests : req'[q] = "undo"
          /\ canceller'["consumer"] # "off" => svc' = "stopping" /\ pump' = "done"
          /\ canceller'["shutdown"] # "off" => svc' = "stopping"
      BY <1>3, <2>1, <2>2, <2>5 DEF ProcessInv, Cancellers, CancelDropped
    <3> QED
      BY <1>1, <2>1, <2>3, <2>4, <3>2, <3>4, <3>5 DEF ProcessInv
  <2>6. CASE CancelAbandoned(c) /\ CancelDropped
    <3>1. /\ lock' = None /\ proc' # "none" /\ (proc' = "alive" => proc = "alive")
          /\ UNCHANGED <<log, terminal, req, pump>>
      BY <2>4, <2>6 DEF CancelAbandoned, CancelDropped
    <3> QED
      BY <1>1, <2>1, <2>2, <2>3, <2>4, <3>1 DEF ProcessInv, Cancellers
  <2>7. CASE ProcessCancelReturns(c) /\ UNCHANGED sessionVars /\ lock = None
    <3>1. /\ canceller'["undo"] # "off" => \E q \in Requests : req'[q] = "undo"
          /\ canceller'["consumer"] # "off" => svc' = "stopping" /\ pump' = "done"
          /\ canceller'["shutdown"] # "off" => svc' = "stopping"
      BY <1>3, <2>1, <2>2, <2>7 DEF ProcessInv, Cancellers, CancelDropped
    <3> QED
      BY <1>1, <2>1, <2>3, <2>4, <2>7, <3>1 DEF ProcessInv, sessionVars
  <2> QED
    BY <1>3, <2>5, <2>6, <2>7 DEF ProcessCancelReturns, CancelDropped, CancelTooLate
<1> QED
  BY <1>2, <1>3

(* Every step of the service keeps process, lock and cancels in line. *)
LEMMA ProcessInvKept ==
  SessionInv /\ CoreInv /\ ProcessInv /\ [Next]_vars => ProcessInv'
<1> SUFFICES ASSUME SessionInv, CoreInv, ProcessInv, [Next]_vars PROVE ProcessInv'
  OBVIOUS
<1> USE ChatAssumption
<1>1. /\ req \in [Requests -> {"idle", "starting", "undo", "ok", "conflict", "failed"}]
      /\ canceller \in [Cancellers -> {"off", "wants", "holds"}] /\ adapter \in AdapterType
  BY DEF CoreInv, ControlInv, ControlType
<1>18. /\ Starting # {} => svc = "up"
       /\ canceller["shutdown"] # "off" => svc = "stopping"
       /\ canceller["consumer"] # "off" => svc = "stopping" /\ pump = "done"
  BY DEF ProcessInv
\* A step beside the session: cancels may be asked for.
<1>2. ASSUME UNCHANGED <<sessionVars, req>>, adapter'.made = adapter.made,
             canceller' \in [Cancellers -> {"off", "wants", "holds"}],
             \A c \in Cancellers : canceller'[c] = canceller[c]
                                   \/ (canceller[c] = "off" /\ c \in {"chat", "shutdown", "stream", "consumer"}),
             Starting # {} => svc' = "up",
             canceller'["shutdown"] # "off" => svc' = "stopping",
             canceller'["consumer"] # "off" => svc' = "stopping" /\ pump' = "done"
      PROVE  ProcessInv'
  <2>1. Starting' = Starting
    BY <1>2 DEF Starting
  <2>2. canceller'["undo"] = canceller["undo"]
    BY <1>2 DEF Cancellers
  <2>3. \A c \in Cancellers : lock = c => canceller'[c] = "holds"
    BY <1>2 DEF ProcessInv
  <2> QED
    BY <1>2, <2>1, <2>2, <2>3 DEF ProcessInv, sessionVars
<1>3. CASE SessionStep \/ UNCHANGED vars
  BY <1>3, SessionKeepsProcess
<1>4. ASSUME NEW q \in Requests,
             StartReplay(q) \/ StartBegin(q) \/ StartRefused(q) \/ StartPersisted(q)
             \/ StartUnpersisted(q)
      PROVE  ProcessInv'
  BY <1>4, StartKeepsProcess
<1>5. CASE PruneRow \/ FollowOpens \/ FollowReads
  <2>1. UNCHANGED <<sessionVars, req, adapter, canceller, svc, pump>>
    BY <1>5 DEF PruneRow, FollowOpens, FollowReads
  <2> QED
    BY <1>1, <1>2, <1>18, <2>1
<1>6. CASE PumpStep
  <2>1. /\ pump = "live" /\ UNCHANGED <<sessionVars, req, svc>>
    BY <1>6 DEF PumpStep, StreamEvent, StreamBlocks, StreamEnds, ApiStarted, ApiLine, ApiEnds, ApiFrame
  <2>2. canceller["consumer"] = "off" /\ canceller["stream"] = "off"
    BY <1>1, <2>1 DEF ProcessInv, CoreInv, ControlInv, Cancellers
  <2>3. CASE StreamBlocks
    <3>1. adapter'.made = adapter.made /\ canceller' = [canceller EXCEPT !["stream"] = "wants"]
      BY <1>1, <2>3 DEF StreamBlocks, AdapterType
    <3> QED
      <4>1. /\ canceller' \in [Cancellers -> {"off", "wants", "holds"}]
            /\ \A c \in Cancellers : canceller'[c] = canceller[c] \/ c = "stream"
            /\ canceller'["shutdown"] = canceller["shutdown"]
            /\ canceller'["consumer"] = "off"
        BY <1>1, <2>2, <3>1 DEF Cancellers
      <4> QED
        BY <1>2, <1>18, <2>1, <2>2, <3>1, <4>1
  <2>4. CASE ~StreamBlocks
    <3>1. PICK es : \E to \in {"live", "done"} : YieldStep(es, to)
      BY <1>6, <2>4, PumpYields
    <3>2. adapter'.made = adapter.made
      BY <3>1 DEF YieldStep
    <3>3. canceller' = canceller
      BY <1>6, <2>4 DEF PumpStep, StreamEvent, StreamEnds, ApiStarted, ApiLine, ApiEnds, ApiFrame
    <3> QED
      BY <1>1, <1>2, <1>18, <2>1, <2>2, <3>2, <3>3
  <2> QED
    BY <2>3, <2>4
<1>7. ASSUME NEW c \in Cancellers, ProcessCancelEnters(c)
      PROVE  ProcessInv'
  BY <1>7, CancelKeepsProcess
<1>8. ASSUME NEW c \in {"chat", "shutdown"}, CancelAccepted(c)
      PROVE  ProcessInv'
  <2>1. ProcessCancelReturns(c) /\ adapter'.made = adapter.made /\ pump' = pump /\ req' = req
    BY <1>1, <1>8 DEF CancelAccepted, CancelLocal, AdapterType
  <2> QED
    <3>1. c \in Cancellers
      BY DEF Cancellers
    <3> QED
      BY <2>1, <3>1, CancelKeepsProcess
<1>9. CASE StreamUnblocks
  <2>1. ~StreamBlocks
    BY <1>1, <1>9 DEF StreamUnblocks, StreamBlocks, ProcessCancelReturns, CoreInv, ControlInv,
                      Cancellers
  <2>2. PICK es : \E to \in {"live", "done"} : YieldStep(es, to)
    BY <1>9, <2>1, PumpYields
  <2>3. adapter'.made = adapter.made /\ Pumping
    BY <2>2 DEF YieldStep
  <2>4. pump' \in {"live", "done"}
    BY <2>2 DEF YieldStep, Yield
  <2>5. canceller["consumer"] = "off"
    BY <2>3 DEF ProcessInv, Pumping
  <2> QED
    BY <1>9, <2>3, <2>4, <2>5, CancelKeepsProcess DEF StreamUnblocks, Cancellers
<1>10. CASE StartUndone
  <2>1. ProcessCancelReturns("undo") /\ adapter'.made = adapter.made /\ pump' = pump
    BY <1>1, <1>10 DEF StartUndone, CancelLocal, AdapterType
  <2> QED
    BY <1>10, <2>1, CancelKeepsProcess DEF StartUndone, Cancellers
<1>11. CASE ConsumerCleanup
  BY <1>11, CancelKeepsProcess DEF ConsumerCleanup, Cancellers
<1>12. CASE CancelDropped
  BY <1>12, CancelKeepsProcess DEF Cancellers
<1>13. CASE CancelRequest
  <2>1. /\ UNCHANGED <<sessionVars, req, adapter, svc, pump>>
        /\ canceller' = canceller \/ (canceller["chat"] = "off" /\ canceller' = [canceller EXCEPT !["chat"] = "wants"])
    BY <1>13 DEF CancelRequest
  <2>2. /\ canceller' \in [Cancellers -> {"off", "wants", "holds"}]
        /\ \A c \in Cancellers : canceller'[c] = canceller[c] \/ (canceller[c] = "off" /\ c = "chat")
        /\ canceller'["shutdown"] = canceller["shutdown"]
        /\ canceller'["consumer"] = canceller["consumer"]
    BY <1>1, <2>1 DEF Cancellers
  <2> QED
    BY <1>2, <1>18, <2>1, <2>2
<1>14. CASE ShutdownBegins
  <2>1. canceller["shutdown"] = "off" /\ canceller["consumer"] = "off"
    BY <1>14 DEF ShutdownBegins, ProcessInv
  <2>2. canceller' = canceller \/ canceller' = [canceller EXCEPT !["shutdown"] = "wants"]
    BY <1>14 DEF ShutdownBegins
  <2>3. /\ UNCHANGED <<sessionVars, req, adapter, pump>> /\ svc' = "stopping" /\ Starting = {}
    BY <1>14 DEF ShutdownBegins
  <2>4. /\ canceller' \in [Cancellers -> {"off", "wants", "holds"}]
        /\ \A c \in Cancellers : canceller'[c] = canceller[c] \/ (canceller[c] = "off" /\ c = "shutdown")
        /\ canceller'["consumer"] = "off"
    BY <1>1, <2>1, <2>2 DEF Cancellers
  <2> QED
    BY <1>2, <2>3, <2>4
<1>15. CASE ShutdownCancelsPump
  <2>1. canceller["consumer"] = "off"
    BY <1>15 DEF ShutdownCancelsPump, ProcessInv
  <2>2. canceller' = canceller \/ canceller' = [canceller EXCEPT !["consumer"] = "wants"]
    BY <1>15 DEF ShutdownCancelsPump
  <2>3. /\ UNCHANGED <<sessionVars, req, adapter, svc>> /\ svc = "stopping" /\ pump' = "done"
    BY <1>15 DEF ShutdownCancelsPump
  <2>4. /\ canceller' \in [Cancellers -> {"off", "wants", "holds"}]
        /\ \A c \in Cancellers : canceller'[c] = canceller[c] \/ (canceller[c] = "off" /\ c = "consumer")
    BY <1>1, <2>1, <2>2 DEF Cancellers
  <2> QED
    BY <1>2, <1>18, <2>3, <2>4
<1>16. CASE MemoryLost
  <2>1. /\ proc' = "none" /\ lock' = None /\ ~terminal' /\ sup' = "none"
    BY <1>16 DEF MemoryLost, NoSession
  <2>2. ~adapter'.made /\ Starting' = {} /\ \A c \in Cancellers : canceller'[c] = "off"
    BY <1>16 DEF MemoryLost, FreshAdapter, Starting, Idle
  <2> QED
    BY <2>1, <2>2 DEF ProcessInv, Cancellers
<1>17. CASE Restart
  <2>1. UNCHANGED <<sessionVars, req, adapter, canceller, pump>> /\ svc = "down" /\ svc' = "up"
    BY <1>17 DEF Restart
  <2> QED
    BY <1>1, <1>2, <1>18, <2>1
<1> QED
  BY <1>3, <1>4, <1>5, <1>6, <1>7, <1>8, <1>9, <1>10, <1>11, <1>12, <1>13, <1>14, <1>15, <1>16,
     <1>17 DEF Next, CancelStep, ShutdownStep, ShutdownEnds, Crash

(* ... so they stay in line in every behaviour. *)
LEMMA ProcessInvHolds == Spec => []ProcessInv
<1>1. Init => ProcessInv
  <2> SUFFICES ASSUME Init PROVE ProcessInv
    OBVIOUS
  <2>1. /\ proc = "none" /\ lock = None /\ ~terminal /\ sup = "none"
    BY DEF Init, SessionInit
  <2>2. ~adapter.made /\ Starting = {} /\ \A c \in Cancellers : canceller[c] = "off"
    BY DEF Init, FreshAdapter, Starting, Idle
  <2>3. None \notin Cancellers
    BY ChatAssumption
  <2> QED
    BY <2>1, <2>2, <2>3 DEF ProcessInv, Cancellers
<1>2. SessionInv /\ CoreInv /\ ProcessInv /\ [Next]_vars => ProcessInv'
  BY ProcessInvKept
<1> QED
  BY <1>1, <1>2, CoreInvHolds, PTL DEF Spec

-----------------------------------------------------------------------------
(* Memory, store, session and reader until a write fails                    *)

(* Being a first part is reflexive and transitive. *)
LEMMA FirstParts ==
  ASSUME NEW s \in Seq(Nat \X EventNames), NEW t \in Seq(Nat \X EventNames),
         NEW u \in Seq(Nat \X EventNames)
  PROVE  /\ IsFirstPart(s, t) /\ IsFirstPart(t, u) => IsFirstPart(s, u)
         /\ IsFirstPart(s, s)
  BY DEF IsFirstPart

\* A reader that is woken, or disconnected, keeps what it got.
SameReader ==
    /\ follower' \in FollowerType
    /\ follower'.at = follower.at /\ follower'.got = follower.got

(* A notified reader is the same reader. *)
LEMMA WokenReader == follower \in FollowerType /\ (Awake \/ UNCHANGED follower) => SameReader
  BY DEF Awake, SameReader, FollowerType

(* What a pump yields without a failed write: memory and store stay equal,  *)
(* the run is over if what was yielded says so, and the numbers go on.      *)
LEMMA YieldFaultFree ==
  ASSUME CoreInv, FaultFree, Pumping, storeFaults = 0, storeFaults' = 0,
         NEW es, Reportable(es), es # <<>> => ~adapter.closed,
         NEW to \in {"live", "done"}, Yield(es, to)
  PROVE  /\ rec' \in RunRecords
         /\ row # None => /\ rec'.events = row'.events /\ rec'.state = row'.state
                          /\ pump' = to
         /\ row = None => rec'.state # "running"
         /\ rec'.state # "running" => rec.state # "running" \/ Final(es)
         /\ row # None /\ rec'.state = "running" => ~Final(es) /\ rec.state = "running"
         /\ Numbered(rec'.events) /\ IsFirstPart(rec.events, rec'.events)
         /\ SameReader
<1>1. /\ rec \in RunRecords /\ row \in RunRecords \cup {None} /\ rec # None
      /\ Numbered(rec.events)
      /\ row # None => rec.events = row.events /\ rec.state = row.state
      /\ row = None => rec.state # "running"
      /\ follower \in FollowerType
      /\ es \in Seq(EventNames) /\ Len(es) \in Nat /\ DOMAIN es = 1..Len(es)
      /\ rec.events \in Seq(Nat \X EventNames)
  BY DEF CoreInv, ControlInv, ControlType, FaultFree, Pumping, Reportable, RunRecords
<1>2. CASE es = <<>> /\ pump' = to /\ UNCHANGED <<rec, row, follower, storeFaults>>
  BY <1>1, <1>2, FirstParts, WokenReader DEF Final
<1>3. CASE es # <<>> /\ Record(es) /\ pump' = to
  <2>1. Open /\ Len(es) > 0
    BY <1>1, <1>3, PumpIsOpen
  <2>2. /\ rec' \in RunRecords /\ row # None /\ rec' = WithEvents(rec, es)
        /\ rec'.events = row'.events /\ row'.state = rec'.state
    BY <1>3, <2>1, RecordEffect
  <2>3. /\ rec'.state = IF Len(es) > 0 /\ es[Len(es)] \in Outcomes THEN es[Len(es)] ELSE rec.state
        /\ Numbered(rec'.events)
        /\ Added(rec.events, rec'.events, es, LastSeq(rec))
    BY <1>1, <2>2, WithEventsAdds
  <2>4. IsFirstPart(rec.events, rec'.events)
    BY <1>1, <2>3, SMTT(30) DEF Added, IsFirstPart
  <2>5. SameReader
    BY <1>1, <1>3, WokenReader DEF Record
  <2>6. "running" \notin Outcomes
    BY DEF Outcomes
  <2> QED
    BY <1>1, <1>3, <2>1, <2>2, <2>3, <2>4, <2>5, <2>6 DEF Final
<1>4. ASSUME NEW i \in DOMAIN es, RecordFails(es, i)
      PROVE  /\ row = None /\ rec' \in RunRecords /\ rec'.state # "running"
             /\ Numbered(rec'.events) /\ IsFirstPart(rec.events, rec'.events)
             /\ SameReader
  <2>1. Open /\ i \in 1..Len(es)
    BY <1>1, <1>4, PumpIsOpen
  <2>2. row = None
    <3>1. row # None => storeFaults' = storeFaults + 1
      BY <1>4 DEF RecordFails
    <3> QED
      BY <3>1
  <2>3. /\ rec' \in RunRecords /\ rec'.state # "running"
        /\ rec' = WithEvents(rec, SubSeq(es, 1, i))
    BY <1>1, <1>4, <2>1, <2>2, RecordFailsEffect
  <2>4. Reportable(SubSeq(es, 1, i)) /\ Len(SubSeq(es, 1, i)) = i /\ i \in Nat
    BY <1>1, <2>1, PartOfYield
  <2>5. Numbered(rec'.events) /\ Added(rec.events, rec'.events, SubSeq(es, 1, i), LastSeq(rec))
    BY <1>1, <2>3, <2>4, WithEventsAdds
  <2>6. IsFirstPart(rec.events, rec'.events)
    BY <1>1, <2>4, <2>5, SMTT(30) DEF Added, IsFirstPart
  <2>7. SameReader
    <3>1. UNCHANGED follower \/ Awake
      BY <1>4, <2>2 DEF RecordFails
    <3> QED
      BY <1>1, <3>1, WokenReader
  <2> QED
    BY <2>2, <2>3, <2>5, <2>6, <2>7
<1> QED
  BY <1>1, <1>2, <1>3, <1>4 DEF Yield

(* Such a step of the pump. *)
LEMMA PumpFaultFree ==
  ASSUME CoreInv, FaultFree, storeFaults = 0, storeFaults' = 0,
         NEW es, NEW to \in {"live", "done"}, YieldStep(es, to)
  PROVE  FaultFree'
<1>1. /\ rec' \in RunRecords
      /\ row # None => rec'.events = row'.events /\ rec'.state = row'.state /\ pump' = to
      /\ row = None => rec'.state # "running"
      /\ rec'.state # "running" => rec.state # "running" \/ Final(es)
      /\ row # None /\ rec'.state = "running" => ~Final(es) /\ rec.state = "running"
      /\ Numbered(rec'.events) /\ IsFirstPart(rec.events, rec'.events)
      /\ SameReader
  BY YieldFaultFree DEF YieldStep
<1>2. CoreInv' /\ RowGrows
  BY YieldStepKeepsCore
<1>3. rec' # None /\ rec # None /\ (row' = None <=> row = None)
  BY <1>1, <1>2, RecordFields DEF RowGrows, CoreInv, ControlInv, Pumping, YieldStep
<1>4. row' # None /\ row'.state = "running" /\ svc' = "up" => Pumping' /\ ~adapter'.closed
  <2> SUFFICES ASSUME row' # None, row'.state = "running", svc' = "up"
               PROVE  Pumping' /\ ~adapter'.closed
    OBVIOUS
  <2>1. row # None /\ rec'.state = "running" /\ ~Final(es) /\ rec.state = "running" /\ pump' = to
    BY <1>1, <1>3
  <2>2. row.state = "running" /\ svc = "up"
    BY <1>3, <2>1 DEF FaultFree, YieldStep
  <2>3. ~adapter.closed
    BY <2>1, <2>2 DEF FaultFree
  <2>4. to = "live" /\ ~adapter'.closed
    BY <2>1, <2>3 DEF YieldStep
  <2> QED
    BY <2>1, <2>4 DEF Pumping
<1>5. InCodex' /\ rec' # None /\ rec'.state # "running" => terminal'
  BY <1>1, <1>3 DEF FaultFree, YieldStep, InCodex
<1>6. /\ follower' \in FollowerType
      /\ follower'.at = Len(follower'.got) /\ Numbered(follower'.got)
  BY <1>1 DEF SameReader, FaultFree
<1>7. IsFirstPart(follower'.got, rec'.events)
  <2>1. /\ follower.got \in Seq(Nat \X EventNames) /\ rec.events \in Seq(Nat \X EventNames)
        /\ rec'.events \in Seq(Nat \X EventNames)
    BY <1>1, <1>3 DEF FaultFree, FollowerType, CoreInv, ControlInv, ControlType, RunRecords
  <2>2. IsFirstPart(follower.got, rec.events)
    BY <1>3 DEF FaultFree
  <2> QED
    BY <1>1, <2>1, <2>2, FirstParts DEF SameReader
<1> QED
  BY <1>1, <1>3, <1>4, <1>5, <1>6, <1>7 DEF FaultFree

(* A step beside the journals. *)
LEMMA BesideFaultFree ==
  ASSUME CoreInv, FaultFree, UNCHANGED provider, SameReader,
         svc' = "up" => svc = "up" /\ (Pumping => Pumping'),
         adapter'.closed = adapter.closed, terminal => terminal',
         \/ rec' = rec /\ row' = row
         \/ /\ rec' = WithState(rec, "cancelled") /\ row' = WithState(row, "cancelled")
            /\ ~InCodex \/ terminal'
  PROVE  FaultFree'
<1>1. /\ rec \in RunRecords \cup {None} /\ row \in RunRecords \cup {None}
      /\ "cancelled" \in Outcomes /\ "cancelled" # "running"
  BY DEF CoreInv, ControlInv, ControlType, Outcomes
<1>2. /\ rec' = None <=> rec = None
      /\ rec # None => rec'.events = rec.events
  BY <1>1, WithStateKeeps
<1>3. /\ row' = None <=> row = None
      /\ row # None => row'.events = row.events
  BY <1>1, WithStateKeeps
<1>4. \/ /\ rec # None => rec'.state = rec.state
         /\ row # None => row'.state = row.state
      \/ /\ rec # None => rec'.state = "cancelled"
         /\ row # None => row'.state = "cancelled"
         /\ ~InCodex \/ terminal'
  BY <1>1, WithStateKeeps
<1>5. row' # None /\ row'.state = "running" /\ svc' = "up" => Pumping' /\ ~adapter'.closed
  BY <1>1, <1>3, <1>4 DEF FaultFree
<1>6. InCodex' /\ rec' # None /\ rec'.state # "running" => terminal'
  BY <1>1, <1>2, <1>4 DEF FaultFree, InCodex
<1>7. /\ follower' \in FollowerType
      /\ follower'.at = Len(follower'.got) /\ Numbered(follower'.got)
  BY DEF SameReader, FaultFree
<1>8. \A r \in {rec', row'} :
         r # None => Numbered(r.events) /\ IsFirstPart(follower'.got, r.events)
  BY <1>2, <1>3 DEF FaultFree, SameReader
<1>9. /\ rec' # None /\ row' # None => rec'.events = row'.events /\ rec'.state = row'.state
      /\ rec' # None /\ row' = None => rec'.state # "running"
      /\ rec' = None => provider' = None
  BY <1>1, <1>2, <1>3, <1>4 DEF FaultFree
<1> QED
  BY <1>5, <1>6, <1>7, <1>8, <1>9 DEF FaultFree

(* What a reader has not got yet, when events are numbered from 1 on. *)
LEMMA PendingIsRest ==
  ASSUME rec \in RunRecords, Numbered(rec.events), follower.at \in Nat,
         follower.at <= Len(rec.events)
  PROVE  Pending = SubSeq(rec.events, follower.at + 1, Len(rec.events))
<1>1. rec.events \in Seq(Nat \X EventNames) /\ rec # None /\ Len(rec.events) \in Nat
  BY RecordFields
<1> DEFINE n == Len(rec.events)
           Read(k) == \A i \in 1..n : rec.events[i][1] > follower.at <=> i > k
<1>2. \A i \in 1..n : rec.events[i][1] = i
  BY DEF Numbered
<1>3. follower.at \in 0..n /\ Read(follower.at)
  BY <1>1, <1>2
<1>4. ASSUME NEW k \in 0..n, Read(k)
      PROVE  k = follower.at
  <2>1. \A i \in 1..n : i > follower.at <=> i > k
    BY <1>2, <1>4
  <2>2. CASE k < follower.at
    <3>1. k + 1 \in 1..n /\ k + 1 > k /\ ~(k + 1 > follower.at)
      BY <1>1, <1>3, <2>2
    <3> QED
      BY <2>1, <3>1
  <2>3. CASE k > follower.at
    <3>1. follower.at + 1 \in 1..n /\ follower.at + 1 > follower.at /\ ~(follower.at + 1 > k)
      BY <1>1, <1>3, <2>3
    <3> QED
      BY <2>1, <3>1
  <2> QED
    BY <1>1, <1>3, <2>2, <2>3
<1>5. (CHOOSE k \in 0..n : Read(k)) = follower.at
  BY <1>3, <1>4
<1> QED
  BY <1>1, <1>5 DEF Pending

\* u is what t has after its first part s.
IsRest(u, s, t) ==
    /\ u \in Seq(Nat \X EventNames) /\ Len(u) = Len(t) - Len(s)
    /\ \A i \in 1..(Len(t) - Len(s)) : u[i] = t[Len(s) + i]

Joined(s, u) == s \o u
LastOf(s) == s[Len(s)]

(* SubSeq takes the rest of a sequence. *)
LEMMA SubSeqIsRest ==
  ASSUME NEW s \in Seq(Nat \X EventNames), NEW t \in Seq(Nat \X EventNames), IsFirstPart(s, t)
  PROVE  IsRest(SubSeq(t, Len(s) + 1, Len(t)), s, t)
<1>1. Len(s) \in Nat /\ Len(t) \in Nat /\ Len(s) <= Len(t)
  BY DEF IsFirstPart
<1>2. \A i \in (Len(s) + 1)..Len(t) : t[i] \in Nat \X EventNames
  BY <1>1
<1>3. /\ SubSeq(t, Len(s) + 1, Len(t)) \in Seq(Nat \X EventNames)
      /\ Len(SubSeq(t, Len(s) + 1, Len(t))) = Len(t) - Len(s)
      /\ \A i \in 1..(Len(t) - Len(s)) : SubSeq(t, Len(s) + 1, Len(t))[i] = t[Len(s) + i]
  BY <1>1, <1>2
<1> QED
  BY <1>3 DEF IsRest

(* A first part of a sequence and the rest make the sequence. *)
LEMMA PartAndRest ==
  ASSUME NEW s \in Seq(Nat \X EventNames), NEW t \in Seq(Nat \X EventNames), IsFirstPart(s, t),
         NEW rest, IsRest(rest, s, t)
  PROVE  Joined(s, rest) = t
<1>1. Len(s) \in Nat /\ Len(t) \in Nat /\ Len(s) <= Len(t)
  BY DEF IsFirstPart
<1>5. \A i \in 1..Len(s) : s[i] = t[i]
  BY DEF IsFirstPart
<1>2. /\ rest \in Seq(Nat \X EventNames) /\ Len(rest) = Len(t) - Len(s)
      /\ \A i \in 1..(Len(t) - Len(s)) : rest[i] = t[Len(s) + i]
  BY DEF IsRest
<1>3. Joined(s, rest) = t
  <2>1. /\ s \o rest \in Seq(Nat \X EventNames) /\ Len(s \o rest) = Len(t)
        /\ \A i \in 1..Len(t) : (s \o rest)[i] = IF i <= Len(s) THEN s[i] ELSE rest[i - Len(s)]
    BY <1>1, <1>2, ConcatProperties
  <2>2. ASSUME NEW i \in 1..Len(t) PROVE (s \o rest)[i] = t[i]
    <3>1. CASE i <= Len(s)
      BY <1>1, <1>5, <2>1, <3>1
    <3>2. CASE ~(i <= Len(s))
      <4>1. i - Len(s) \in 1..(Len(t) - Len(s)) /\ Len(s) + (i - Len(s)) = i
        BY <1>1, <3>2
      <4> QED
        BY <1>2, <2>1, <3>2, <4>1
    <3> QED
      BY <3>1, <3>2
  <2> QED
    BY <2>1, <2>2, SeqEqual DEF Joined
<1> QED
  BY <1>3

(* The last of the rest is the last of all. *)
LEMMA LastOfRest ==
  ASSUME NEW s \in Seq(Nat \X EventNames), NEW t \in Seq(Nat \X EventNames), IsFirstPart(s, t),
         NEW rest, IsRest(rest, s, t), Len(rest) # 0
  PROVE  Len(t) > 0 /\ LastOf(rest) = LastOf(t)
<1>1. Len(s) \in Nat /\ Len(t) \in Nat /\ Len(s) <= Len(t)
  BY DEF IsFirstPart
<1>2. /\ rest \in Seq(Nat \X EventNames) /\ Len(rest) = Len(t) - Len(s)
      /\ \A i \in 1..(Len(t) - Len(s)) : rest[i] = t[Len(s) + i]
  BY DEF IsRest
<1>3. Len(rest) \in Nat /\ Len(rest) > 0
  BY <1>1, <1>2
<1>4. Len(rest) \in 1..(Len(t) - Len(s)) /\ Len(s) + Len(rest) = Len(t) /\ Len(t) > 0
  BY <1>1, <1>2, <1>3
<1>5. rest[Len(rest)] = t[Len(t)]
  BY <1>2, <1>4
<1> QED
  BY <1>4, <1>5 DEF LastOf

(* A reader that has a first part of the journal and reads on then has it   *)
(* all.                                                                     *)
LEMMA ReadFaultFree ==
  ASSUME CoreInv, FaultFree, FollowReads
  PROVE  FaultFree'
<1>1. /\ follower \in FollowerType /\ follower.at = Len(follower.got)
      /\ follower.got \in Seq(Nat \X EventNames) /\ Len(follower.got) \in Nat
      /\ rec \in RunRecords \cup {None} /\ row \in RunRecords \cup {None}
  BY DEF FaultFree, FollowerType, CoreInv, ControlInv, ControlType
<1>2. UNCHANGED <<sessionVars, provider, adapter, rec, row, pump, svc>> /\ terminal' = terminal
  BY DEF FollowReads, sessionVars
<1>3. CASE Pending = <<>>
  <2>1. SameReader
    BY <1>1, <1>3 DEF FollowReads, SameReader, FollowerType
  <2> QED
    BY <1>2, <2>1, BesideFaultFree DEF Pumping
<1>4. CASE Pending # <<>>
  <2>1. rec \in RunRecords /\ rec # None
    BY <1>1, <1>4 DEF Pending
  <2>2. /\ rec.events \in Seq(Nat \X EventNames) /\ Len(rec.events) \in Nat
        /\ Numbered(rec.events) /\ IsFirstPart(follower.got, rec.events)
    BY <2>1, RecordFields DEF FaultFree
  <2>3. Pending = SubSeq(rec.events, Len(follower.got) + 1, Len(rec.events))
    BY <1>1, <2>1, <2>2, PendingIsRest DEF IsFirstPart
  <2>4. /\ Joined(follower.got, Pending) = rec.events /\ Len(rec.events) > 0
        /\ Pending[Len(Pending)] = rec.events[Len(rec.events)]
    <3>1. follower.got \in Seq(Nat \X EventNames)
      BY <1>1
    <3>2. IsRest(Pending, follower.got, rec.events)
      BY <2>2, <2>3, <3>1, SubSeqIsRest
    <3> QED
      <4>1. rec.events \in Seq(Nat \X EventNames) /\ IsFirstPart(follower.got, rec.events)
        BY <2>2
      <4>2. Joined(follower.got, Pending) = rec.events
        BY <3>1, <3>2, <4>1, PartAndRest
      <4>3. Len(rec.events) > 0 /\ Pending[Len(Pending)] = rec.events[Len(rec.events)]
        <5>1. Len(Pending) # 0
          BY <1>4, <3>2 DEF IsRest
        <5> QED
          <6>1. Len(rec.events) > 0 /\ LastOf(Pending) = LastOf(rec.events)
            BY <3>1, <3>2, <4>1, <5>1, LastOfRest
          <6> QED
            BY <6>1 DEF LastOf
      <4> QED
        BY <4>2, <4>3
  <2>5. follower' = [follower EXCEPT !.at = Pending[Len(Pending)][1], !.got = Joined(follower.got, Pending)]
    BY <1>4 DEF FollowReads, Joined
  <2>8. Len(rec.events) \in 1..Len(rec.events)
    BY <2>2, <2>4
  <2>9. Pending[Len(Pending)][1] = Len(rec.events)
    BY <2>2, <2>4, <2>8 DEF Numbered
  <2> DEFINE ev == rec.events
  <2>10. follower' = [follower EXCEPT !.at = Len(ev), !.got = ev]
    BY <2>4, <2>5, <2>9
  <2>11. follower' \in FollowerType /\ follower'.at = Len(ev) /\ follower'.got = ev
    BY <1>1, <2>2, <2>10 DEF FollowerType
  <2>15. IsFirstPart(ev, ev)
    BY <2>2, FirstParts
  <2>13. row # None => row.events = ev
    BY <2>1 DEF FaultFree, ev
  <2>14. rec.events = ev
    BY DEF ev
  <2> QED
    BY <1>2, <2>1, <2>2, <2>11, <2>13, <2>14, <2>15 DEF FaultFree, Pumping, InCodex
<1> QED
  BY <1>3, <1>4

(* A run that is only in the store belongs to an earlier life. *)
LEMMA RestoredFaultFree ==
  ASSUME CoreInv, FaultFree, rec # None \/ row # None, rec' = Restored,
         UNCHANGED <<sessionVars, provider, adapter, row, pump, svc>>, SameReader
  PROVE  FaultFree'
<1>1. terminal' = terminal
  BY DEF sessionVars
<1>2. CASE rec # None
  BY <1>1, <1>2, BesideFaultFree DEF Restored, Pumping
<1>3. CASE rec = None
  <2>1. rec' = row /\ provider = None /\ row # None /\ row' = row
    BY <1>3 DEF Restored, FaultFree
  <2>2. ~InCodex'
    BY <2>1, ChatAssumption DEF InCodex
  <2> QED
    BY <2>1, <2>2 DEF FaultFree, SameReader, Pumping
<1> QED
  BY <1>2, <1>3

(* A run that starts finds no other beside it and brings its own reader. *)
LEMMA StartFaultFree ==
  ASSUME CoreInv, CoreInv', FaultFree, storeFaults' = 0, storeFaults \in Nat, NEW q \in Requests,
         StartReplay(q) \/ StartBegin(q) \/ StartRefused(q) \/ StartPersisted(q)
         \/ StartUnpersisted(q)
  PROVE  FaultFree'
<1>1. follower \in FollowerType
  BY DEF FaultFree
<1>2. CASE StartReplay(q)
  BY <1>1, <1>2, WokenReader, RestoredFaultFree DEF StartReplay
<1>3. CASE StartBegin(q) \/ StartRefused(q)
  BY <1>1, <1>3, WokenReader, BesideFaultFree DEF StartBegin, StartRefused, sessionVars, Pumping
<1>4. CASE StartPersisted(q)
  <2>1. /\ rec' = NewRecord(q) /\ row' = NewRecord(q) /\ pump' = "live" /\ follower' = NoFollower
        /\ rec = None
    BY <1>4 DEF StartPersisted, CoreInv, ControlInv
  <2>2. NewRecord(q).events = <<>> /\ NewRecord(q).state = "running"
    BY DEF NewRecord
  <2>3. ~adapter'.closed
    <3>1. ~adapter.closed /\ adapter \in AdapterType
      BY <2>1 DEF CoreInv, ControlInv, ControlType
    <3>2. adapter'.closed = adapter.closed
      BY <1>4, <3>1 DEF StartPersisted, BackendStart, ApiStart, CodexStart, ClaudeStart, AdapterType
    <3> QED
      BY <3>1, <3>2
  <2>4. rec' # None
    BY <2>1 DEF CoreInv, ControlInv
  <2>5. /\ follower' \in FollowerType /\ follower'.got = <<>> /\ follower'.at = 0
    <3>1. <<>> \in Seq(Nat \X EventNames)
      OBVIOUS
    <3> QED
      BY <2>1, <3>1 DEF NoFollower, FollowerType
  <2>6. Len(<<>>) = 0 /\ Numbered(<<>>) /\ IsFirstPart(<<>>, <<>>)
    BY DEF Numbered, IsFirstPart
  <2> QED
    BY <2>1, <2>2, <2>3, <2>4, <2>5, <2>6 DEF FaultFree, Pumping
<1>5. CASE StartUnpersisted(q)
  BY <1>5 DEF StartUnpersisted
<1> QED
  BY <1>2, <1>3, <1>4, <1>5

(* The journal of a run that a crash cut off gets its outcome, and a reader *)
(* keeps what it has.                                                       *)
LEMMA LifeFaultFree ==
  ASSUME CoreInv, FaultFree, MemoryLost \/ Restart
  PROVE  FaultFree'
<1>1. /\ follower \in FollowerType /\ row \in RunRecords \cup {None}
      /\ follower.got \in Seq(Nat \X EventNames)
  BY DEF FaultFree, CoreInv, ControlInv, ControlType, FollowerType
<1>2. CASE MemoryLost
  <2>1. /\ rec' = None /\ provider' = None /\ row' = row /\ svc' = "down"
        /\ follower' = [follower EXCEPT !.open = FALSE, !.asleep = FALSE]
    BY <1>2 DEF MemoryLost
  <2>2. SameReader
    BY <1>1, <2>1 DEF SameReader, FollowerType
  <2> QED
    BY <2>1, <2>2 DEF FaultFree, SameReader
<1>3. CASE Restart
  <2>1. /\ UNCHANGED <<rec, provider, follower>> /\ rec = None
        /\ row' = IF Running(row) THEN WithEvents(row, <<"failed">>) ELSE row
        /\ SameReader
    BY <1>1, <1>3, WokenReader DEF Restart, CoreInv, ControlInv
  <2>2. CASE ~Running(row)
    BY <2>1, <2>2 DEF FaultFree, SameReader, Running, InCodex
  <2>3. CASE Running(row)
    <3>1. row \in RunRecords /\ row # None /\ Numbered(row.events) /\ IsFirstPart(follower.got, row.events)
      BY <1>1, <2>3 DEF Running, FaultFree
    <3>2. Reportable(<<"failed">>) /\ Len(<<"failed">>) = 1 /\ <<"failed">>[1] = "failed"
          /\ "failed" \in Outcomes
      BY ReportOfOne DEF EventNames, Outcomes
    <3>3. /\ row' \in RunRecords /\ row'.state = "failed" /\ Numbered(row'.events)
          /\ Added(row.events, row'.events, <<"failed">>, LastSeq(row))
      <4>1. row' = WithEvents(row, <<"failed">>)
        BY <2>1, <2>3
      <4>2. /\ row' \in RunRecords /\ Numbered(row'.events)
            /\ Added(row.events, row'.events, <<"failed">>, LastSeq(row))
        BY <3>1, <3>2, <4>1, WithEventsAdds
      <4>3. row'.state = "failed"
        <5>1. row'.state = IF Len(<<"failed">>) > 0 /\ <<"failed">>[Len(<<"failed">>)] \in Outcomes
                           THEN <<"failed">>[Len(<<"failed">>)] ELSE row.state
          BY <3>1, <3>2, <4>1, WithEventsAdds
        <5> QED
          BY <3>2, <5>1
      <4> QED
        BY <4>2, <4>3
    <3>4. Len(row.events) \in Nat /\ Len(row'.events) = Len(row.events) + 1
          /\ \A k \in 1..Len(row.events) : row'.events[k] = row.events[k]
      BY <3>1, <3>2, <3>3, RecordFields DEF Added
    <3>5. IsFirstPart(follower.got, row'.events)
      BY <1>1, <3>1, <3>4 DEF IsFirstPart
    <3> QED
      BY <2>1, <3>3, <3>5 DEF FaultFree, SameReader, InCodex
  <2> QED
    BY <2>2, <2>3
<1> QED
  BY <1>2, <1>3

(* Store faults are counted up. *)
LEMMA FaultsOnlyGrow ==
  storeFaults \in Nat /\ [Next]_vars => storeFaults' \in Nat /\ storeFaults' >= storeFaults
<1> SUFFICES ASSUME storeFaults \in Nat, [Next]_vars
             PROVE  storeFaults' \in Nat /\ storeFaults' >= storeFaults
  OBVIOUS
<1>1. ASSUME storeFaults' = storeFaults \/ storeFaults' = storeFaults + 1
      PROVE  storeFaults' \in Nat /\ storeFaults' >= storeFaults
  BY <1>1
<1>2. ASSUME NEW es, NEW to, Yield(es, to)
      PROVE  storeFaults' = storeFaults \/ storeFaults' = storeFaults + 1
  BY <1>2 DEF Yield, Record, RecordFails
<1>3. CASE PumpStep \/ StreamUnblocks
  BY <1>1, <1>2, <1>3 DEF PumpStep, StreamUnblocks, StreamEvent, StreamBlocks, StreamEnds,
                          ApiStarted, ApiLine, ApiEnds, ApiOver
<1>4. ASSUME NEW q \in Requests,
             StartReplay(q) \/ StartBegin(q) \/ StartRefused(q) \/ StartPersisted(q)
             \/ StartUnpersisted(q)
      PROVE  storeFaults' = storeFaults \/ storeFaults' = storeFaults + 1
  BY <1>4 DEF StartReplay, StartBegin, StartRefused, StartPersisted, StartUnpersisted
<1>5. CASE SessionStep \/ PruneRow \/ CancelRequest \/ CancelDropped \/ FollowOpens \/ FollowReads
           \/ ShutdownBegins \/ ShutdownStep \/ Crash \/ Restart \/ UNCHANGED vars
  BY <1>5 DEF SessionStep, chatVars, vars, PruneRow, CancelRequest, CancelDropped, FollowOpens,
              FollowReads, ShutdownBegins, ShutdownStep, ShutdownCancelsPump, ShutdownEnds, Crash,
              MemoryLost, Restart
<1>6. CASE CancelStep /\ ~StreamUnblocks
  BY <1>6 DEF CancelStep, ProcessCancelEnters, CancelAccepted, StartUndone, ConsumerCleanup
<1> QED
  BY <1>1, <1>3, <1>4, <1>5, <1>6 DEF Next

(* A cancel that has returned leaves a terminal session behind.             *)
LEMMA ReturnedIsTerminal ==
  ASSUME NEW c \in Cancellers, ProcessCancelReturns(c)
  PROVE  terminal'
<1>1. CASE CancelFinishes(c)
  BY <1>1 DEF CancelFinishes, AppendTerminal
<1>2. CASE CancelTooLate /\ UNCHANGED sessionVars
  BY <1>2 DEF CancelTooLate, sessionVars
<1> QED
  BY <1>1, <1>2 DEF ProcessCancelReturns

(* A run that is pruned from the store was over in memory as well. *)
LEMMA PruneFaultFree ==
  ASSUME CoreInv, FaultFree, PruneRow
  PROVE  FaultFree'
<1>1. /\ UNCHANGED <<provider, adapter, rec, pump, svc, follower>> /\ terminal' = terminal
      /\ row' = None /\ row # None /\ row.state # "running"
  BY DEF PruneRow, sessionVars
<1>2. rec # None => rec.state # "running"
  BY <1>1 DEF FaultFree
<1> QED
  BY <1>1, <1>2 DEF FaultFree, InCodex

(* Until a write fails, memory, store, session and readers agree after      *)
(* every step of the service.                                               *)
LEMMA FaultFreeInvKept ==
  SessionInv /\ CoreInv /\ ProcessInv /\ FaultFreeInv /\ [Next]_vars => FaultFreeInv'
<1> SUFFICES ASSUME SessionInv, CoreInv, ProcessInv, FaultFreeInv, [Next]_vars,
                    storeFaults' = 0
             PROVE  FaultFree'
  BY FaultsOnlyGrow DEF FaultFreeInv
<1>1. storeFaults = 0 /\ storeFaults \in Nat /\ storeFaults' \in Nat
  <2>1. storeFaults \in Nat /\ storeFaults' \in Nat /\ storeFaults' >= storeFaults
    BY FaultsOnlyGrow DEF FaultFreeInv
  <2> QED
    BY <2>1
<1>2. FaultFree /\ follower \in FollowerType
  BY <1>1 DEF FaultFreeInv, FaultFree
<1>3. CoreInv'
  BY CoreInvKept
<1>4. "stream" \in Cancellers /\ "chat" \in Cancellers /\ "shutdown" \in Cancellers
      /\ "undo" \in Cancellers /\ "consumer" \in Cancellers
  BY DEF Cancellers
<1>5. CASE UNCHANGED vars \/ SessionStep \/ CancelDropped \/ ShutdownCancelsPump
  <2>1. terminal => terminal'
    <3>1. CASE SessionStep
      BY <3>1 DEF SessionStep, ProcessWrites, ProcessExits, Supervisor, ReadFrame, SuperviseEnds,
                  SuperviseFails, FailEnters, FailFinishes, NaturalExit, AppendTerminal
    <3>2. CASE UNCHANGED vars \/ CancelDropped \/ ShutdownCancelsPump
      BY <3>2 DEF vars, sessionVars, CancelDropped, CancelAbandoned, ShutdownCancelsPump
    <3> QED
      BY <1>5, <3>1, <3>2
  <2> QED
    BY <1>2, <1>5, <2>1, WokenReader, BesideFaultFree
       DEF SessionStep, vars, chatVars, CancelDropped, ShutdownCancelsPump, Pumping
<1>6. ASSUME NEW q \in Requests,
             StartReplay(q) \/ StartBegin(q) \/ StartRefused(q) \/ StartPersisted(q)
             \/ StartUnpersisted(q)
      PROVE  FaultFree'
  BY <1>1, <1>2, <1>3, <1>6, StartFaultFree
<1>7. CASE (PumpStep \/ StreamUnblocks) /\ ~StreamBlocks
  BY <1>1, <1>2, <1>7, PumpYields, PumpFaultFree
<1>8. CASE StreamBlocks
  <2>1. adapter \in AdapterType
    BY DEF CoreInv, ControlInv, ControlType
  <2>2. adapter'.closed = adapter.closed /\ Pumping' /\ terminal' = terminal
        /\ UNCHANGED <<provider, svc, rec, row, follower>>
    BY <1>8, <2>1 DEF StreamBlocks, AdapterType, Pumping, sessionVars
  <2> QED
    BY <1>2, <2>2, WokenReader, BesideFaultFree
<1>9. ASSUME NEW c \in Cancellers, ProcessCancelEnters(c) PROVE FaultFree'
  <2>1. terminal' = terminal /\ UNCHANGED <<provider, adapter, svc, rec, row, follower, pump>>
    BY <1>9 DEF ProcessCancelEnters, CancelEnters
  <2> QED
    BY <1>2, <2>1, WokenReader, BesideFaultFree DEF Pumping
<1>10. ASSUME NEW c \in {"chat", "shutdown"}, CancelAccepted(c) PROVE FaultFree'
  <2>1. terminal'
    BY <1>4, <1>10, ReturnedIsTerminal DEF CancelAccepted
  <2>2. /\ UNCHANGED <<provider, svc, pump>> /\ Awake
        /\ rec' = WithState(rec, "cancelled") /\ row' = WithState(row, "cancelled")
    BY <1>10 DEF CancelAccepted, ProcessCancelReturns
  <2>3. adapter'.closed = adapter.closed
    <3>1. adapter \in AdapterType
      BY DEF CoreInv, ControlInv, ControlType
    <3> QED
      BY <1>10, <3>1 DEF CancelAccepted, CancelLocal, AdapterType
  <2> QED
    BY <1>2, <2>1, <2>2, <2>3, WokenReader, BesideFaultFree DEF Pumping
<1>11. CASE StartUndone \/ ConsumerCleanup
  <2>1. terminal'
    BY <1>4, <1>11, ReturnedIsTerminal DEF StartUndone, ConsumerCleanup
  <2>2. adapter'.closed = adapter.closed
    <3>1. adapter \in AdapterType
      BY DEF CoreInv, ControlInv, ControlType
    <3> QED
      BY <1>11, <3>1 DEF StartUndone, ConsumerCleanup, CancelLocal, AdapterType
  <2>3. UNCHANGED <<provider, svc, pump, rec, row, follower>>
    BY <1>11 DEF StartUndone, ConsumerCleanup, ProcessCancelReturns
  <2> QED
    BY <1>2, <2>1, <2>2, <2>3, WokenReader, BesideFaultFree DEF Pumping
<1>12. CASE CancelRequest \/ ShutdownBegins
  <2>1. terminal' = terminal /\ UNCHANGED <<provider, adapter, pump>>
        /\ (svc' = "up" => svc = "up")
    BY <1>12 DEF CancelRequest, ShutdownBegins, sessionVars
  <2>2. SameReader
    BY <1>2, <1>12, WokenReader DEF CancelRequest, ShutdownBegins
  <2>3. \/ rec' = rec /\ row' = row
        \/ /\ rec' = WithState(rec, "cancelled") /\ row' = WithState(row, "cancelled")
           /\ ~InCodex
    BY <1>12 DEF CancelRequest, ShutdownBegins, InCodex
  <2> QED
    BY <1>2, <2>1, <2>2, <2>3, BesideFaultFree DEF Pumping
<1>13. CASE FollowOpens
  <2>1. SameReader
    BY <1>2, <1>13 DEF FollowOpens, SameReader, FollowerType
  <2> QED
    BY <1>2, <1>13, <2>1, RestoredFaultFree DEF FollowOpens
<1>14. CASE ShutdownEnds \/ Crash \/ Restart
  BY <1>2, <1>14, LifeFaultFree DEF ShutdownEnds, Crash
<1> QED
  BY <1>2, <1>5, <1>6, <1>7, <1>8, <1>9, <1>10, <1>11, <1>12, <1>13, <1>14, PruneFaultFree,
     ReadFaultFree DEF Next, CancelStep, ShutdownStep, PumpStep

(* Memory, store, session and readers in every behaviour of the service.    *)
LEMMA FaultFreeInvHolds == Spec => []FaultFreeInv
<1>1. Init => FaultFreeInv
  <2>1. <<>> \in Seq(Nat \X EventNames) /\ Len(<<>>) = 0 /\ Numbered(<<>>)
    BY DEF Numbered
  <2> QED
    BY <2>1, ChatAssumption
       DEF Init, FaultFreeInv, FaultFree, NoFollower, FollowerType, InCodex
<1> QED
  BY <1>1, FaultFreeInvKept, CoreInvHolds, ProcessInvHolds, PTL DEF Spec

-----------------------------------------------------------------------------
(* The run, whole                                                           *)

(* The conjuncts of ChatSound from the four invariants. *)
LEMMA InvariantsAreSound ==
  ASSUME SessionInv, CoreInv, ProcessInv, FaultFreeInv
  PROVE  ChatSound
<1>1. ControlType /\ ControlInv /\ JournalInv
  BY DEF CoreInv, ControlInv
<1>2. ChatTypeOK
  <2>1. SessionTypeOK /\ lock \in Cancellers \cup {None, "fail"}
    BY DEF SessionInv
  <2> QED
    BY <1>1, <2>1, RecordFields DEF ControlType, ChatTypeOK
<1>3. OneProviderPerKey
  BY <1>1 DEF ControlInv, OneProviderPerKey
<1>4. JournalEndsOnce
  <2> SUFFICES ASSUME row # None PROVE JournalEndsOnce
    BY DEF JournalEndsOnce
  <2>1. row.events \in Seq(Nat \X EventNames) /\ EndsOnce(row) /\ Ascending(row)
    BY <1>1, RecordFields DEF ControlType, JournalInv
  <2>2. DOMAIN row.events = 1..Len(row.events) /\ Len(row.events) \in Nat
    BY <2>1
  <2> QED
    BY <2>1, <2>2 DEF JournalEndsOnce, EndsOnce, Ascending
<1>5. RunningIsDriven
  BY DEF FaultFreeInv, FaultFree, RunningIsDriven, Running, Pumping
<1>6. NoProviderOutlivesRun
  BY DEF FaultFreeInv, FaultFree, NoProviderOutlivesRun, InCodex, Outcomes, ProcessInv, SessionInv
<1>7. FollowerSeesJournal
  <2> SUFFICES ASSUME storeFaults = 0 PROVE FollowerSeesJournal
    BY DEF FollowerSeesJournal
  <2>1. follower.got \in Seq(Nat \X EventNames) /\ Numbered(follower.got)
        /\ DOMAIN follower.got = 1..Len(follower.got)
    BY DEF FaultFreeInv, FaultFree, FollowerType
  <2>2. row # None => IsFirstPart(follower.got, row.events)
    BY DEF FaultFreeInv, FaultFree
  <2> QED
    BY <2>1, <2>2 DEF FollowerSeesJournal, Numbered, IsFirstPart
<1> QED
  BY <1>2, <1>3, <1>4, <1>5, <1>6, <1>7 DEF ChatSound

(* Whatever pump, cancels, failed writes, readers, shutdowns and crashes    *)
(* race (local_chat.py:332-829, codex.py:560): a life of the service runs   *)
(* one provider for a key, the stored journal ends once, a run shown as     *)
(* running is driven, a Codex run is not over before its session is, and a  *)
(* follower gets the stored events, each once and in order.                 *)
THEOREM ChatSoundHolds == Spec => []ChatSound
<1>1. SessionInv /\ CoreInv /\ ProcessInv /\ FaultFreeInv => ChatSound
  BY InvariantsAreSound
<1> QED
  BY <1>1, CoreInvHolds, ProcessInvHolds, FaultFreeInvHolds, PTL

=============================================================================
