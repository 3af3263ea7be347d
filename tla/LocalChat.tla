------------------------------ MODULE LocalChat ------------------------------
(* The local chat service (mvp/local_chat.py) for one owner and idempotency *)
(* key, over the provider session of ProcessSession: the Codex and Claude   *)
(* adapters (agent_runtimes/codex.py, claude.py) turn the session's log     *)
(* into chat events, the API backend (mvp/api_chat.py) streams them from an *)
(* HTTP response, a pump task records them in memory and in SQLite,         *)
(* followers read them, and the service may shut down, crash and recover.   *)
EXTENDS ProcessSession

CONSTANTS
    Requests,       \* start requests for the key; each has its own digest
    Providers,      \* subset of {"codexChat", "codexBuild", "claude", "api"}
    MaxFaults       \* bound: crashes, shutdowns and failed SQLite writes together

VARIABLES
    provider,    \* the backend of the run, None before the first start
    adapter,     \* the adapter's session of the key
    api,         \* ApiChatBackend's request
    rec,         \* _RunRecord in memory: None or [state, events, digest]
    row,         \* mvp_local_chat_runs/_events: None or the same record
    pump,        \* _pump_events: "none", "live", "blocked", "done"
    req,         \* start requests: "idle", "starting", "undo", "ok", "conflict", "failed"
    canceller,   \* process cancels: [who -> "off", "wants", "holds"]
    svc,         \* "up", "stopping", "down"
    follower,    \* one reader of the event stream
    spawned,     \* provider processes and HTTP requests of the key in this life
    crashes, storeFaults

chatVars == <<provider, adapter, api, rec, row, pump, req, canceller, svc,
              follower, spawned, crashes, storeFaults>>
vars == <<sessionVars, chatVars>>

Outcomes == {"completed", "failed", "cancelled"}
Cancellers == {"chat", "shutdown", "stream", "undo", "consumer"}
Idle == [c \in Cancellers |-> "off"]

(* What a run may report, and its record: the events with their numbers. *)
EventNames == Outcomes \cup {"started", "message", "status", "usage", "artifact"}
RunRecords ==
    [state : Outcomes \cup {"running"}, events : Seq(Nat \X EventNames), digest : Requests]

ASSUME ChatAssumption ==
    /\ MaxFaults \in Nat
    /\ None \notin Cancellers \cup Outcomes \cup RunRecords \cup Seq(EventNames)
    /\ None \notin Providers \cup {"codexChat", "codexBuild", "claude", "api"}

FreshAdapter ==
    [made |-> FALSE,    \* the key has a handle in _idempotency_handles
     pos |-> 0,         \* process_sequence
     done |-> FALSE,    \* provider_completed
     closed |-> FALSE,  \* the local variable terminal of _stream_events
     emitted |-> FALSE, \* session.events is not empty
     final |-> None]    \* terminal_state

FreshApi == [phase |-> "new", cancelled |-> FALSE, seen |-> 0, marker |-> None]

NoFollower == [open |-> FALSE, asleep |-> FALSE, at |-> 0, got |-> <<>>]

(* _owned_run and _start_once: a run that is only in the store is restored. *)
Restored == IF rec # None THEN rec ELSE row

MayFail == crashes + storeFaults < MaxFaults

Running(r) == r # None /\ r.state = "running"
LastSeq(r) == IF r.events = <<>> THEN 0 ELSE r.events[Len(r.events)][1]
EventTypes(r) == [i \in DOMAIN r.events |-> r.events[i][2]]

Init ==
    /\ SessionInit
    /\ provider = None /\ adapter = FreshAdapter /\ api = FreshApi
    /\ rec = None /\ row = None /\ pump = "none"
    /\ req = [q \in Requests |-> "idle"] /\ canceller = Idle
    /\ svc = "up"
    /\ follower = NoFollower
    /\ spawned = 0 /\ crashes = 0 /\ storeFaults = 0

-----------------------------------------------------------------------------
(* Recording events                                                         *)

Awake == follower' = [follower EXCEPT !.asleep = FALSE]

(* A record after the events es, numbered from the last one on; an outcome  *)
(* among them is the record's state.                                        *)
WithEvents(r, es) ==
    LET outs == {i \in DOMAIN es : es[i] \in Outcomes}
    IN  [r EXCEPT
           !.events = @ \o [i \in DOMAIN es |-> <<LastSeq(r) + i, es[i]>>],
           !.state = IF outs = {} THEN @ ELSE es[CHOOSE i \in outs : \A j \in outs : j <= i]]

(* _persist_event writes the event and the record's state in one            *)
(* transaction; a row that was pruned fails the foreign key.                *)
Stored(r, es, state) == [WithEvents(r, es) EXCEPT !.state = state]

(* _persist_state: an UPDATE, which a pruned row does not fail. *)
WithState(r, state) == IF r = None THEN None ELSE [r EXCEPT !.state = state]

(* _pump_events for the events es yielded in one go: each is appended in    *)
(* memory and then stored, and followers are notified.                      *)
Record(es) ==
    /\ row # None
    /\ rec' = WithEvents(rec, es)
    /\ row' = Stored(row, es, rec'.state)
    /\ Awake
    /\ UNCHANGED storeFaults

(* The write of the i-th event fails: it stays in memory, _append_runtime_- *)
(* failure adds "failed" only to a record that is still running (its number *)
(* follows the event that was not stored), and the pump ends.  A record     *)
(* that is not running is left as it is and nobody is notified.             *)
RecordFails(es, i) ==
    LET kept == WithEvents(rec, SubSeq(es, 1, i))
        failure == <<LastSeq(kept) + 1, "failed">>
        before == SubSeq(es, 1, i - 1)
    IN  /\ row = None \/ MayFail
        /\ storeFaults' = IF row = None THEN storeFaults ELSE storeFaults + 1
        /\ IF kept.state = "running"
           THEN /\ rec' = [kept EXCEPT !.state = "failed", !.events = Append(@, failure)]
                /\ row' = IF row = None THEN None
                          ELSE [WithEvents(row, before) EXCEPT
                                  !.state = "failed", !.events = Append(@, failure)]
                /\ IF row = None THEN UNCHANGED follower ELSE Awake
           ELSE /\ rec' = kept
                /\ row' = IF row = None \/ before = <<>> THEN row
                          ELSE Stored(row, before, WithEvents(rec, before).state)
                /\ UNCHANGED follower

(* es goes through the pump, whose next phase is to unless a write fails. *)
Yield(es, to) ==
    \/ es = <<>> /\ pump' = to /\ UNCHANGED <<rec, row, follower, storeFaults>>
    \/ es # <<>> /\ Record(es) /\ pump' = to
    \/ \E i \in DOMAIN es : RecordFails(es, i) /\ pump' = "done"

-----------------------------------------------------------------------------
(* start                                                                    *)

Starting == {q \in Requests : req[q] \in {"starting", "undo"}}

NewRecord(q) == [state |-> "running", events |-> <<>>, digest |-> q]

(* _start_once finds the key in memory, or in the store after a restart:    *)
(* the same request is answered from the record, another one conflicts.     *)
StartReplay(q) ==
    /\ svc = "up" /\ req[q] \in {"idle", "failed"} /\ Starting = {}
    /\ rec # None \/ row # None
    /\ rec' = Restored
    /\ req' = [req EXCEPT ![q] = IF rec'.digest = q THEN "ok" ELSE "conflict"]
    /\ UNCHANGED <<sessionVars, provider, adapter, api, row, pump, canceller, svc,
                   follower, spawned, crashes, storeFaults>>

(* A new key: the start lock is held while the readiness probe runs in a    *)
(* thread and the backend spawns the provider.                              *)
StartBegin(q) ==
    /\ svc = "up" /\ req[q] \in {"idle", "failed"} /\ Starting = {}
    /\ rec = None /\ row = None
    /\ req' = [req EXCEPT ![q] = "starting"]
    /\ UNCHANGED <<sessionVars, provider, adapter, api, rec, row, pump, canceller,
                   svc, follower, spawned, crashes, storeFaults>>

(* The probe, the copy of the project or the invocation is refused; when    *)
(* the caller went away during the spawn the new process was terminated.    *)
StartRefused(q) ==
    /\ req[q] = "starting"
    /\ InvocationFaults # {}
    /\ req' = [req EXCEPT ![q] = "failed"]
    /\ UNCHANGED <<sessionVars, provider, adapter, api, rec, row, pump, canceller,
                   svc, follower, spawned, crashes, storeFaults>>

(* The adapters answer a known key with its old handle, before anything     *)
(* else; the API backend opens a request for every call.                    *)
CodexStart ==
    IF adapter.made
    THEN UNCHANGED <<sessionVars, adapter, spawned>>
    ELSE Spawn /\ spawned' = spawned + 1 /\ adapter' = [adapter EXCEPT !.made = TRUE]
ClaudeStart ==
    \/ adapter.made /\ UNCHANGED <<sessionVars, adapter, spawned>>
    \/ /\ ~adapter.made /\ Spawn
       /\ adapter' = [adapter EXCEPT !.made = TRUE] /\ spawned' = spawned + 1
ApiStart == api' = FreshApi /\ spawned' = spawned + 1

BackendStart(p) ==
    CASE p = "api" -> ApiStart /\ UNCHANGED <<sessionVars, adapter>>
      [] p = "claude" -> ClaudeStart /\ UNCHANGED api
      [] OTHER -> CodexStart /\ UNCHANGED api

(* The backend has started: _persist_record, then the record and its pump.  *)
(* The run has a new id, for which the cursor of an old run is no good.     *)
StartPersisted(q) ==
    /\ req[q] = "starting"
    /\ \E p \in Providers :
         /\ provider \in {None, p}
         /\ provider' = p /\ BackendStart(p)
    /\ rec' = NewRecord(q) /\ row' = NewRecord(q)
    /\ pump' = "live"
    /\ req' = [req EXCEPT ![q] = "ok"]
    /\ follower' = NoFollower
    /\ UNCHANGED <<canceller, svc, crashes, storeFaults>>

(* _persist_record fails: the backend is cancelled before start raises. *)
StartUnpersisted(q) ==
    /\ req[q] = "starting" /\ MayFail
    /\ \E p \in Providers :
         /\ provider \in {None, p}
         /\ provider' = p /\ BackendStart(p)
         /\ canceller' = IF p = "api" \/ adapter.final # None
                         THEN canceller ELSE [canceller EXCEPT !["undo"] = "wants"]
         /\ req' = [req EXCEPT ![q] =
                      IF p = "api" \/ adapter.final # None THEN "failed" ELSE "undo"]
    /\ storeFaults' = storeFaults + 1
    /\ UNCHANGED <<rec, row, pump, svc, follower, crashes>>

(* Another run of the owner is persisted: runs beyond the newest            *)
(* _MAX_PERSISTED_RUNS_PER_OWNER that are not running are deleted.          *)
PruneRow ==
    /\ svc = "up" /\ row # None /\ row.state # "running"
    /\ row' = None
    /\ UNCHANGED <<sessionVars, provider, adapter, api, rec, pump, req, canceller,
                   svc, follower, spawned, crashes, storeFaults>>

-----------------------------------------------------------------------------
(* The adapters' streams                                                    *)

Close(final) == [adapter EXCEPT !.closed = TRUE, !.final = final]

(* A frame as _stream_events of the Codex adapter shows it. *)
CodexFrame(f) ==
    CASE f = "done" -> <<"usage">>
      [] f = "tool" -> <<"status">>
      [] OTHER -> <<"message">>

(* ... and of the Claude adapter, which reports "started" with the first    *)
(* frame and takes a result frame for the end, the process still running.   *)
ClaudeFrame(f) ==
    LET shown == CASE f = "done" -> "completed" [] f = "error" -> "failed" [] OTHER -> "message"
    IN  IF adapter.emitted THEN <<shown>> ELSE <<"started", shown>>

(* _package_workspace, by what kinds of files the build left: a link or a   *)
(* path out of the workspace, a secret, or too much of it is refused, a     *)
(* workspace with nothing new is empty (completed, needs input).            *)
FileKinds == {"new", "baseline", "secret", "link"}
Package(files) ==
    IF files \cap {"secret", "link"} # {} THEN <<"failed">>
    ELSE IF "new" \in files THEN <<"artifact", "completed">> ELSE <<"completed">>

(* What is reported when the process has exited.  The Codex adapter wants a *)
(* completed turn; Claude's exit code is enough.                            *)
CodexExit(code) ==
    IF code = "exited1" \/ ~adapter.done THEN {<<"failed">>}
    ELSE IF provider = "codexBuild" THEN {Package(files) : files \in SUBSET FileKinds}
    ELSE {<<"completed">>}
ClaudeExit(code) == {IF code = "exited0" THEN <<"completed">> ELSE <<"failed">>}

Reports(e) ==
    IF e \in {"cancelled", "failed"} THEN {<<e>>}
    ELSE IF e \in {"exited0", "exited1"}
    THEN IF provider = "claude" THEN ClaudeExit(e) ELSE CodexExit(e)
    ELSE IF provider = "claude" THEN {ClaudeFrame(e)} ELSE {CodexFrame(e)}

(* One entry of the session's log through the adapter and the pump.  After  *)
(* a terminal report the entries are only counted.                          *)
StreamEvent ==
    /\ pump = "live" /\ provider # "api"
    /\ adapter.pos < Len(log)
    /\ LET e == log[adapter.pos + 1]
           blocked == e = "tool" /\ provider = "codexChat" /\ ~adapter.closed
       IN  /\ ~blocked
           /\ \E es \in IF adapter.closed THEN {<<>>} ELSE Reports(e) :
                LET final == IF es # <<>> /\ es[Len(es)] \in Outcomes THEN es[Len(es)] ELSE None
                IN  /\ Yield(es, "live")
                    /\ adapter' =
                         [IF final = None \/ pump' # "live"
                          THEN adapter ELSE Close(final)
                          EXCEPT !.pos = @ + 1,
                                 !.done = @ \/ (e = "done" /\ ~adapter.closed),
                                 !.emitted = @ \/ es # <<>>]
    /\ UNCHANGED <<sessionVars, provider, api, req, canceller, svc, spawned, crashes>>

\* Mistake: a blocked tool is reported while the process runs on.
BlocksWithoutCancel ==
    /\ pump = "live" /\ provider = "codexChat" /\ ~adapter.closed
    /\ adapter.pos < Len(log) /\ log[adapter.pos + 1] = "tool"
    /\ Yield(<<"failed">>, "live")
    /\ adapter' = [Close("failed") EXCEPT !.pos = @ + 1]
    /\ UNCHANGED <<sessionVars, provider, api, req, canceller, svc, spawned, crashes>>

(* A tool frame in a chat run: the adapter cancels the process first. *)
StreamBlocks ==
    /\ pump = "live" /\ provider = "codexChat" /\ ~adapter.closed
    /\ adapter.pos < Len(log) /\ log[adapter.pos + 1] = "tool"
    /\ pump' = "blocked"
    /\ adapter' = [adapter EXCEPT !.pos = @ + 1]
    /\ canceller' = [canceller EXCEPT !["stream"] = "wants"]
    /\ UNCHANGED <<sessionVars, provider, api, rec, row, req, svc, follower, spawned,
                   crashes, storeFaults>>

(* The session's log is at its end and terminal: the stream is complete; a  *)
(* stream that reported no outcome reports "failed".                        *)
StreamEnds ==
    /\ pump = "live" /\ provider # "api"
    /\ terminal /\ adapter.pos = Len(log)
    /\ LET es == IF adapter.closed THEN <<>> ELSE <<"failed">>
       IN  /\ Yield(es, "done")
           /\ adapter' = IF adapter.closed THEN adapter ELSE Close("failed")
    /\ UNCHANGED <<sessionVars, provider, api, req, canceller, svc, spawned, crashes>>

-----------------------------------------------------------------------------
(* The API backend                                                          *)

ApiOver(type) == Yield(<<type>>, "done") /\ api' = [api EXCEPT !.phase = "over"]
ApiFrame == UNCHANGED <<sessionVars, provider, adapter, req, canceller, svc, spawned, crashes>>

(* ApiChatBackend.events: the first event, before the request is sent. *)
ApiStarted ==
    /\ pump = "live" /\ provider = "api" /\ api.phase = "new"
    /\ Yield(<<"started">>, "live")
    /\ api' = [api EXCEPT !.phase = "open"]
    /\ ApiFrame

(* What a line of the response says: _terminal_state, and _usage and        *)
(* _text_delta, which are reported in this order.                           *)
ApiLines == {"text", "usage", "marker", "error", "other"}
TerminalState(line) ==
    CASE line = "marker" -> "completed" [] line = "error" -> "failed" [] OTHER -> None
LineEvents(line) ==
    CASE line = "text" -> <<"message">> [] line = "usage" -> <<"usage">> [] OTHER -> <<>>

ApiLine ==
    /\ pump = "live" /\ provider = "api" /\ api.phase = "open"
    /\ ~api.cancelled /\ api.marker = None /\ api.seen < MaxFrames
    /\ \E line \in ApiLines :
         /\ Yield(LineEvents(line), "live")
         /\ api' = [api EXCEPT !.seen = @ + 1, !.marker = TerminalState(line)]
    /\ ApiFrame

(* The stream is over: by its terminal marker, at the response's end, or by *)
(* an HTTP error, the deadline or the output limit.  A cancel noted by then *)
(* decides, and only a marker means completed.                              *)
ApiEnds ==
    /\ pump = "live" /\ provider = "api" /\ api.phase = "open"
    /\ ApiOver(IF api.cancelled THEN "cancelled"
               ELSE IF api.marker = "completed" THEN "completed" ELSE "failed")
    /\ ApiFrame

-----------------------------------------------------------------------------
(* cancel                                                                   *)

(* cancel_local once process.cancel() returned: whatever it confirmed. *)
CancelLocal == [adapter EXCEPT !.final = "cancelled"]

(* LocalChatService.cancel of a run that is not over.  The API backend      *)
(* accepts at once; an adapter that has reported an outcome refuses; else   *)
(* the process is cancelled.                                                *)
CancelRequest ==
    /\ svc = "up" /\ Running(rec) /\ canceller["chat"] = "off"
    /\ IF provider = "api"
       THEN /\ api' = [api EXCEPT !.cancelled = TRUE]
            /\ rec' = WithState(rec, "cancelled")
            /\ row' = WithState(row, "cancelled")
            /\ Awake /\ UNCHANGED canceller
       ELSE /\ adapter.final = None
            /\ canceller' = [canceller EXCEPT !["chat"] = "wants"]
            /\ UNCHANGED <<api, rec, row, follower>>
    /\ UNCHANGED <<sessionVars, provider, adapter, pump, req, svc, spawned, crashes,
                   storeFaults>>

ProcessCancelEnters(c) ==
    /\ canceller[c] = "wants"
    /\ CancelEnters(c)
    /\ canceller' = [canceller EXCEPT ![c] = "holds"]
    /\ UNCHANGED <<provider, adapter, api, rec, row, pump, req, svc, follower, spawned,
                   crashes, storeFaults>>

(* process.cancel() returns to c. *)
ProcessCancelReturns(c) ==
    /\ \/ canceller[c] = "holds" /\ CancelFinishes(c)
       \/ canceller[c] = "wants" /\ CancelTooLate /\ UNCHANGED sessionVars
    /\ canceller' = [canceller EXCEPT ![c] = "off"]
    /\ UNCHANGED <<provider, api, svc, spawned, crashes>>

(* cancel_local records CANCELLED and is accepted, whatever the stream has  *)
(* reported meanwhile; the service then overwrites the record's state.      *)
CancelAccepted(c) ==
    /\ ProcessCancelReturns(c)
    /\ adapter' = CancelLocal
    /\ rec' = WithState(rec, "cancelled")
    /\ row' = WithState(row, "cancelled")
    /\ Awake
    /\ UNCHANGED <<pump, req, storeFaults>>

(* The blocked stream goes on: it reports the tool event. *)
StreamUnblocks ==
    /\ ProcessCancelReturns("stream")
    /\ Yield(<<"failed">>, "live")
    /\ adapter' = IF pump' = "live" THEN Close("failed") ELSE adapter
    /\ UNCHANGED req

(* The start that could not be persisted raises. *)
StartUndone ==
    /\ ProcessCancelReturns("undo")
    /\ adapter' = CancelLocal
    /\ req' = [q \in Requests |-> IF req[q] = "undo" THEN "failed" ELSE req[q]]
    /\ UNCHANGED <<rec, row, pump, follower, storeFaults>>

(* A server that stops drops the request that waits for the tree to end. *)
CancelDropped ==
    /\ svc = "stopping"
    /\ canceller["chat"] = "holds" /\ CancelAbandoned("chat")
    /\ canceller' = [canceller EXCEPT !["chat"] = "off"]
    /\ UNCHANGED <<provider, adapter, api, rec, row, pump, req, svc, follower, spawned,
                   crashes, storeFaults>>

-----------------------------------------------------------------------------
(* Followers                                                                *)

(* The events numbered beyond the reader's cursor: numbers go up, so these  *)
(* are the events from some place on.                                       *)
Pending ==
    IF rec = None THEN <<>>
    ELSE LET read == CHOOSE n \in 0..Len(rec.events) :
                       \A i \in 1..Len(rec.events) : rec.events[i][1] > follower.at <=> i > n
         IN  SubSeq(rec.events, read + 1, Len(rec.events))

(* events(cursor): a run that is only in the store is restored.  A reader   *)
(* that reconnects sends the cursor of the last event it got.               *)
FollowOpens ==
    /\ svc = "up" /\ ~follower.open
    /\ rec # None \/ row # None
    /\ rec' = Restored
    /\ follower' = [follower EXCEPT !.open = TRUE, !.asleep = FALSE]
    /\ UNCHANGED <<sessionVars, provider, adapter, api, row, pump, req, canceller, svc,
                   spawned, crashes, storeFaults>>

FollowReads ==
    /\ svc # "down" /\ follower.open /\ ~follower.asleep
    /\ \/ /\ Pending # <<>>
          /\ follower' = [follower EXCEPT !.at = Pending[Len(Pending)][1],
                                          !.got = @ \o Pending]
       \/ /\ Pending = <<>>
          /\ follower' = IF rec.state \in Outcomes
                         THEN [follower EXCEPT !.open = FALSE]
                         ELSE [follower EXCEPT !.asleep = TRUE]
    /\ UNCHANGED <<sessionVars, provider, adapter, api, rec, row, pump, req, canceller,
                   svc, spawned, crashes, storeFaults>>

-----------------------------------------------------------------------------
(* shutdown, crash and restart                                              *)

(* shutdown(): a live run is cancelled, then its pump gets two seconds and  *)
(* is cancelled too, which cancels the process it reads.                    *)
ShutdownBegins ==
    /\ svc = "up" /\ MayFail /\ Starting = {}
    /\ svc' = "stopping"
    /\ IF Running(rec) /\ provider = "api"
       THEN /\ api' = [api EXCEPT !.cancelled = TRUE]
            /\ rec' = WithState(rec, "cancelled")
            /\ row' = WithState(row, "cancelled")
            /\ Awake /\ UNCHANGED canceller
       ELSE /\ canceller' = IF Running(rec) /\ adapter.final = None
                            THEN [canceller EXCEPT !["shutdown"] = "wants"] ELSE canceller
            /\ UNCHANGED <<api, rec, row, follower>>
    /\ UNCHANGED <<sessionVars, provider, adapter, pump, req, spawned, crashes, storeFaults>>

ShutdownCancelsPump ==
    /\ svc = "stopping" /\ canceller["shutdown"] = "off"
    /\ pump = "live"
    /\ pump' = "done"
    /\ canceller' = IF provider = "api" THEN canceller
                    ELSE [canceller EXCEPT !["consumer"] = "wants"]
    /\ UNCHANGED <<sessionVars, provider, adapter, api, rec, row, req, svc, follower,
                   spawned, crashes, storeFaults>>

ConsumerCleanup ==
    /\ ProcessCancelReturns("consumer")
    /\ UNCHANGED <<adapter, rec, row, pump, req, follower, storeFaults>>

(* What a process that ends, in order or not, takes with it.  A provider    *)
(* process left behind is no longer the service's.                          *)
MemoryLost ==
    /\ NoSession
    /\ svc' = "down" /\ crashes' = crashes + 1
    /\ provider' = None /\ adapter' = FreshAdapter /\ api' = FreshApi
    /\ rec' = None /\ pump' = "none" /\ canceller' = Idle /\ spawned' = 0
    /\ req' = [q \in Requests |-> "idle"]
    /\ follower' = [follower EXCEPT !.open = FALSE, !.asleep = FALSE]
    /\ UNCHANGED <<row, storeFaults>>

ShutdownEnds ==
    /\ svc = "stopping" /\ canceller = Idle /\ pump \in {"none", "done"}
    /\ MemoryLost

Crash ==
    /\ svc # "down" /\ MayFail
    /\ MemoryLost

\* Mistake: recovery writes the journal of a run that was running anew.
RestartRewrites ==
    /\ svc = "down"
    /\ svc' = "up"
    /\ row' = IF Running(row) THEN WithEvents([row EXCEPT !.events = <<>>], <<"failed">>) ELSE row
    /\ UNCHANGED <<sessionVars, provider, adapter, api, rec, pump, req, canceller,
                   follower, spawned, crashes, storeFaults>>

(* _recover_persisted_runs: a run that was running has failed. *)
Restart ==
    /\ svc = "down"
    /\ svc' = "up"
    /\ row' = IF Running(row) THEN WithEvents(row, <<"failed">>) ELSE row
    /\ UNCHANGED <<sessionVars, provider, adapter, api, rec, pump, req, canceller,
                   follower, spawned, crashes, storeFaults>>

-----------------------------------------------------------------------------
SessionStep ==
    /\ ProcessWrites \/ ProcessExits \/ Supervisor
    /\ UNCHANGED chatVars

PumpStep ==
    \/ StreamEvent \/ StreamBlocks \/ StreamEnds
    \/ ApiStarted \/ ApiLine \/ ApiEnds

CancelStep ==
    \/ \E c \in Cancellers : ProcessCancelEnters(c)
    \/ \E c \in {"chat", "shutdown"} : CancelAccepted(c)
    \/ StreamUnblocks \/ StartUndone \/ ConsumerCleanup

ShutdownStep == ShutdownCancelsPump \/ ShutdownEnds

Next ==
    \/ SessionStep
    \/ \E q \in Requests : \/ StartReplay(q) \/ StartBegin(q) \/ StartRefused(q)
                           \/ StartPersisted(q) \/ StartUnpersisted(q)
    \/ PruneRow
    \/ PumpStep
    \/ CancelRequest \/ CancelStep \/ CancelDropped
    \/ FollowOpens \/ FollowReads
    \/ ShutdownBegins \/ ShutdownStep
    \/ Crash \/ Restart

(* The tasks of the event loop run on: the supervisor (whose timeout        *)
(* fires), the pump (a response ends by its deadline), a cancel (a          *)
(* termination returns after its grace periods), a follower and a shutdown  *)
(* that has begun.  Nothing obliges the provider, clients or operator.      *)
Fairness ==
    /\ WF_vars(Supervisor /\ UNCHANGED chatVars)
    /\ WF_vars(PumpStep) /\ WF_vars(CancelStep)
    /\ WF_vars(FollowReads) /\ WF_vars(ShutdownStep)

Spec == Init /\ [][Next]_vars
FairSpec == Spec /\ Fairness

-----------------------------------------------------------------------------
(* Properties                                                               *)

(* Session, record and row keep their types; a stored run is always one of  *)
(* the key's requests.                                                      *)
ChatTypeOK ==
    /\ SessionTypeOK
    /\ lock \in Cancellers \cup {None, "fail"}
    /\ provider \in Providers \cup {None}
    /\ pump \in {"none", "live", "blocked", "done"}
    /\ svc \in {"up", "stopping", "down"}
    /\ \A r \in {rec, row} : r # None =>
         r.state \in Outcomes \cup {"running"} /\ r.digest \in Requests
    /\ spawned \in Nat

(* One life of the service runs a CLI provider once for a key, although the *)
(* store may fail after the spawn, the row may be pruned and the key's      *)
(* requests come again and together (local_chat.py:332-424, codex.py:560).  *)
OneProviderPerKey ==
    (\A q \in Requests : req[q] # "undo") /\ provider # "api" => spawned <= 1

(* A journal in the store ends with its first terminal event and its events *)
(* are numbered upwards, whatever races, failed writes and recoveries made  *)
(* it (local_chat.py:455-498, 793-829).                                     *)
JournalEndsOnce ==
    row # None =>
      /\ \A i \in DOMAIN row.events : row.events[i][2] \in Outcomes => i = Len(row.events)
      /\ \A i, j \in DOMAIN row.events : i < j => row.events[i][1] < row.events[j][1]

(* A run that the store calls running has a pump in this life, so a run     *)
(* that nobody drives is never shown as running, failed writes aside.       *)
RunningIsDriven ==
    svc = "up" /\ Running(row) /\ storeFaults = 0 => pump \in {"live", "blocked"}

(* A Codex run is over for the service only when its session has ended and  *)
(* the process is gone or could not be stopped.  (A failed write ends the   *)
(* pump and leaves the process to its timeout; a Claude result frame is     *)
(* reported while the process runs on.)                                     *)
NoProviderOutlivesRun ==
    /\ provider \in {"codexChat", "codexBuild"} /\ storeFaults = 0
    /\ rec # None /\ rec.state \in Outcomes
    => terminal /\ (proc = "alive" => "failed" \in {log[i] : i \in DOMAIN log})

(* What a follower got, over all its connections and over crashes of the    *)
(* service, are the stored events from the first one on, each once.         *)
FollowerSeesJournal ==
    /\ \A i \in DOMAIN follower.got : storeFaults = 0 => follower.got[i][1] = i
    /\ storeFaults = 0 /\ row # None /\ spawned <= 1 /\ svc = "up" =>
         \A i \in DOMAIN follower.got : i \in DOMAIN row.events =>
             row.events[i] = follower.got[i]

(* The stored journal keeps the abstract journal's promise. *)
StoredJournal ==
    INSTANCE ChatJournal WITH journal <- IF row = None THEN None ELSE EventTypes(row)
ImplementsJournal == StoredJournal!Spec

(* A run that was started ends: its pump records an outcome, unless a write *)
(* failed or the service goes down, which the next start settles.           *)
RunEnds == Running(rec) ~> (~Running(rec) \/ svc = "down")

(* The stream of a follower ends. *)
FollowerEnds == follower.open ~> (~follower.open \/ storeFaults > 0)

(* A process the service started ends by the timeout at the latest, unless  *)
(* the tree would not be stopped.                                           *)
ProcessIsStopped == proc = "alive" ~> (proc # "alive" \/ terminal)

(* What memory, store, followers and processes of a key say of its run fits *)
(* together after every failed write, cancel, shutdown and crash.           *)
ChatSound ==
    /\ ChatTypeOK /\ OneProviderPerKey /\ JournalEndsOnce
    /\ RunningIsDriven /\ NoProviderOutlivesRun /\ FollowerSeesJournal

(* Under the event loop's fairness everybody who waits for the run is       *)
(* released: the run ends, the streams of its followers end, and its        *)
(* process is stopped.                                                      *)
ChatEnds == RunEnds /\ FollowerEnds /\ ProcessIsStopped
=============================================================================
