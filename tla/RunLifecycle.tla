---------------------------- MODULE RunLifecycle ----------------------------
(***************************************************************************)
(* Durable runs: the run store, the run coordinator and the worktrees they *)
(* own (corvus/mvp/run_store.py, run_coordinator.py, worktrees.py).        *)
(*                                                                         *)
(* start, cancel and the event pump are coroutines of one event loop: one  *)
(* action is what runs between two awaits.  The loop's asyncio locks are   *)
(* only ever held between awaits, so they never make anybody wait.         *)
(* discard is a synchronous endpoint and runs in a thread: one action is   *)
(* one statement or Git command of it, and the loop interleaves.           *)
(*                                                                         *)
(* A crash loses handles, tasks and threads; rows, directories and the     *)
(* provider's process group, which has a session of its own, survive it.   *)
(***************************************************************************)
EXTENDS Naturals

CONSTANTS
    Runs,           \* run ids: start and retry take a new one each
    BuildRuns,      \* runs of mode build; the others are chat runs
    Threads,        \* threads that serve discard
    Faults,         \* the faults of this instance
    MaxCrashes      \* bound: crashes of the service

FaultNames == {"git", "store", "record", "spawn", "pump", "closed", "shutdown",
              "unconfirmed", "locked"}

ASSUME RunAssumption ==
    /\ BuildRuns \subseteq Runs
    /\ Faults \subseteq FaultNames
    /\ MaxCrashes \in Nat

VARIABLES
    status,     \* mvp_runs.status
    lease,      \* mvp_worktree_leases.status
    tree,       \* the worktree directory exists, with its Git metadata
    provider,   \* the provider's process
    terminal,   \* the terminal event its stream still has to deliver
    session,    \* the adapter's session: absent, open, or with a terminal_state
    handle,     \* _handles has the run
    starter,    \* where start is
    pump,       \* where _pump is
    canceller,  \* where cancel is
    discarder,  \* where each thread is in discard
    phase,      \* serving, or which step of the lifespan start-up is next
    crashes,    \* crashes so far
    forsaken    \* ghost: runs whose coroutine ended on a write that failed, unfinished

rows == <<status, lease, tree>>
external == <<provider, terminal, session>>
tasks == <<starter, pump, canceller, discarder>>
service == <<phase, crashes, forsaken>>
vars == <<rows, external, handle, tasks, service>>

RunStatus == {"preparing", "running", "review_required", "contribution_ready",
              "publishing", "published", "completed", "cancelled",
              "interrupted", "failed", "discarded"}
Active == {"preparing", "running"}
Stopped == {"completed", "cancelled", "interrupted", "failed"}

(* _TRANSITIONS *)
Transitions == [s \in RunStatus |->
    CASE s = "preparing" -> {"running", "cancelled", "interrupted", "failed"}
      [] s = "running" -> {"review_required", "completed", "cancelled", "interrupted",
                           "failed"}
      [] s = "review_required" -> {"contribution_ready", "completed", "discarded", "failed"}
      [] s = "contribution_ready" -> {"publishing", "discarded"}
      [] s = "publishing" -> {"published", "contribution_ready", "failed"}
      [] s \in Stopped -> {"discarded"}
      [] s \in {"published", "discarded"} -> {}]

StarterPcs == {"idle", "inserted", "leased", "added", "backend", "spawned", "failing"}
PumpPcs == {"none", "reading", "failing", "interrupting"}
NoThread == [pc |-> "idle"]
DiscardPcs == {"checked", "remove", "record", "transition", "update"}

TypeOK ==
    /\ status \in [Runs -> RunStatus \cup {"absent"}]
    /\ lease \in [Runs -> {"none", "creating", "active", "discarded"}]
    /\ tree \in [Runs -> BOOLEAN]
    /\ provider \in [Runs -> {"none", "alive", "ended"}]
    /\ terminal \in [Runs -> {"none", "completed", "failed", "cancelled", "closed"}]
    /\ session \in [Runs -> {"none", "open", "terminal"}]
    /\ handle \in [Runs -> BOOLEAN]
    /\ starter \in [Runs -> StarterPcs]
    /\ pump \in [Runs -> PumpPcs]
    /\ canceller \in [Runs -> {"idle", "stopping", "stopped"}]
    /\ discarder \in [Threads -> {NoThread}
                         \cup [pc : DiscardPcs, run : Runs, seen : RunStatus]]
    /\ phase \in {"serving", "worktrees", "runs"}
    /\ crashes \in 0..MaxCrashes
    /\ forsaken \subseteq Runs

Init ==
    /\ status = [r \in Runs |-> "absent"]
    /\ lease = [r \in Runs |-> "none"]
    /\ tree = [r \in Runs |-> FALSE]
    /\ provider = [r \in Runs |-> "none"]
    /\ terminal = [r \in Runs |-> "none"]
    /\ session = [r \in Runs |-> "none"]
    /\ handle = [r \in Runs |-> FALSE]
    /\ starter = [r \in Runs |-> "idle"]
    /\ pump = [r \in Runs |-> "none"]
    /\ canceller = [r \in Runs |-> "idle"]
    /\ discarder = [t \in Threads |-> NoThread]
    /\ phase = "serving"
    /\ crashes = 0
    /\ forsaken = {}

-----------------------------------------------------------------------------
(* Helpers *)

Starting(r, pc) == phase = "serving" /\ starter[r] = pc
GoStarter(r, pc) == starter' = [starter EXCEPT ![r] = pc]

(* RunStore.transition on the event loop, where nobody comes between its   *)
(* read and its update: the target, or run_transition_invalid.             *)
CanTransition(r, target) == target \in Transitions[status[r]]
Transition(r, target) == status' = [status EXCEPT ![r] = target]

(* _terminalize: a run that is no longer active keeps its status. *)
TerminalizeAlways(r, target) == Transition(r, target)
Terminalize(r, target) ==
    Transition(r, IF status[r] \in Active THEN target ELSE status[r])

(* A write of the run store fails: the call raises, the row stays as it    *)
(* was, and the coroutine that was to finish the run is over.              *)
Forsake(r) ==
    /\ "record" \in Faults
    /\ forsaken' = forsaken \cup {r}
    /\ UNCHANGED <<status, phase, crashes>>

(* An active lease is valid while its directory has its Git metadata. *)
LeaseValid(r) == lease[r] = "active" /\ tree[r]

(* ProcessSession._cancel: the process tree is terminated and the stream   *)
(* ends with cancelled, or with failed when that cannot be confirmed.      *)
KillNothing(r) ==
    /\ terminal' = [terminal EXCEPT ![r] = IF provider[r] = "alive" THEN "cancelled" ELSE @]
    /\ UNCHANGED provider
Kill(r) ==
    \/ /\ provider[r] = "alive"
       /\ provider' = [provider EXCEPT ![r] = "ended"]
       /\ terminal' = [terminal EXCEPT ![r] = "cancelled"]
    \/ /\ provider[r] = "alive"
       /\ "unconfirmed" \in Faults
       /\ terminal' = [terminal EXCEPT ![r] = "failed"]
       /\ UNCHANGED provider
    \/ /\ provider[r] # "alive"
       /\ UNCHANGED <<provider, terminal>>

-----------------------------------------------------------------------------
(* RunCoordinator.start *)

(* The checks pass and the row is inserted; retry ends here as well, with  *)
(* the request of an earlier run.                                          *)
StartRun(r) ==
    /\ phase = "serving"
    /\ status[r] = "absent"
    /\ Transition(r, "preparing")
    /\ GoStarter(r, "inserted")
    /\ UNCHANGED <<lease, tree, external, handle, pump, canceller, discarder, service>>

(* The evidence is written outside the try: start raises, and the row that *)
(* it has just inserted stays in preparing.                                *)
EvidenceFails(r) ==
    /\ Starting(r, "inserted")
    /\ Forsake(r)
    /\ GoStarter(r, "idle")
    /\ UNCHANGED <<lease, tree, external, handle, pump, canceller, discarder>>

(* WorktreeManager.create: the lease row comes before the directory. *)
InsertLease(r) ==
    /\ Starting(r, "inserted")
    /\ lease' = [lease EXCEPT ![r] = "creating"]
    /\ GoStarter(r, "leased")
    /\ UNCHANGED <<status, tree, external, handle, pump, canceller, discarder, service>>

AddWorktree(r) ==
    /\ Starting(r, "leased")
    /\ tree' = [tree EXCEPT ![r] = TRUE]
    /\ GoStarter(r, "added")
    /\ UNCHANGED <<status, lease, external, handle, pump, canceller, discarder, service>>

(* The repository or the place of the worktree is not usable, or the row   *)
(* cannot be inserted.                                                     *)
InsertLeaseFails(r) ==
    /\ Starting(r, "inserted")
    /\ Faults \cap {"git", "store"} # {}
    /\ GoStarter(r, "failing")
    /\ UNCHANGED <<rows, external, handle, pump, canceller, discarder, service>>

(* Git refuses, and the lease is deleted; or it is killed at its timeout,  *)
(* with or without a directory, or the lease cannot be deleted, and it     *)
(* stays for recovery.                                                     *)
AddWorktreeFails(r) ==
    /\ Starting(r, "leased")
    /\ "git" \in Faults
    /\ \/ lease' = [lease EXCEPT ![r] = "none"] /\ UNCHANGED tree
       \/ (\E made \in BOOLEAN : tree' = [tree EXCEPT ![r] = made]) /\ UNCHANGED lease
    /\ GoStarter(r, "failing")
    /\ UNCHANGED <<status, external, handle, pump, canceller, discarder, service>>

ActivateLease(r) ==
    /\ Starting(r, "added")
    /\ lease' = [lease EXCEPT ![r] = "active"]
    /\ GoStarter(r, "backend")
    /\ UNCHANGED <<status, tree, external, handle, pump, canceller, discarder, service>>

(* The update of the lease fails: the directory is cleaned up and the      *)
(* lease deleted, the lease also when the clean-up fails, or not when the  *)
(* deletion fails too.  Or the active lease cannot be read back.           *)
ActivateLeaseFails(r) ==
    /\ Starting(r, "added")
    /\ "store" \in Faults
    /\ \/ /\ tree' = [tree EXCEPT ![r] = FALSE] \/ ("git" \in Faults /\ UNCHANGED tree)
          /\ lease' = [lease EXCEPT ![r] = "none"] \/ UNCHANGED lease
       \/ lease' = [lease EXCEPT ![r] = "active"] /\ UNCHANGED tree
    /\ GoStarter(r, "failing")
    /\ UNCHANGED <<status, external, handle, pump, canceller, discarder, service>>

(* The checkout is not what was asked for: the directory is cleaned up and *)
(* the lease deleted, or neither when the clean-up fails; the deletion may *)
(* fail as well.                                                           *)
RejectWorktreeLoses(r) ==
    /\ Starting(r, "added")
    /\ "git" \in Faults
    /\ lease' = [lease EXCEPT ![r] = "none"]
    /\ GoStarter(r, "failing")
    /\ UNCHANGED <<status, tree, external, handle, pump, canceller, discarder, service>>
RejectWorktree(r) ==
    /\ Starting(r, "added")
    /\ "git" \in Faults
    /\ \/ /\ tree' = [tree EXCEPT ![r] = FALSE]
          /\ lease' = [lease EXCEPT ![r] = "none"] \/ ("store" \in Faults /\ UNCHANGED lease)
       \/ UNCHANGED <<tree, lease>>
    /\ GoStarter(r, "failing")
    /\ UNCHANGED <<status, external, handle, pump, canceller, discarder, service>>

(* await backend.start: the adapter spawns the process in the worktree ... *)
Spawn(r) ==
    /\ Starting(r, "backend")
    /\ tree[r]
    /\ provider' = [provider EXCEPT ![r] = "alive"]
    /\ session' = [session EXCEPT ![r] = "open"]
    /\ GoStarter(r, "spawned")
    /\ UNCHANGED <<rows, terminal, handle, pump, canceller, discarder, service>>

(* ... or fails to, always so when the worktree is gone. *)
SpawnFails(r) ==
    /\ Starting(r, "backend")
    /\ ~tree[r] \/ "spawn" \in Faults
    /\ GoStarter(r, "failing")
    /\ UNCHANGED <<rows, external, handle, pump, canceller, discarder, service>>

(* start resumes with the handle.  A run that was interrupted meanwhile    *)
(* raises run_transition_invalid, and no pump is created, nor where the    *)
(* transition cannot be written.                                           *)
StartResumes(r) ==
    /\ Starting(r, "spawned")
    /\ handle' = [handle EXCEPT ![r] = TRUE]
    /\ \/ /\ IF CanTransition(r, "running")
             THEN Transition(r, "running") /\ pump' = [pump EXCEPT ![r] = "reading"]
             ELSE UNCHANGED <<status, pump>>
          /\ UNCHANGED service
       \/ Forsake(r) /\ UNCHANGED pump
    /\ GoStarter(r, "idle")
    /\ UNCHANGED <<lease, tree, external, canceller, discarder>>

(* The transition to a stopped status in an except clause of start, where  *)
(* it is legal: the clause itself may raise.                               *)
StopStarting(r, target) ==
    /\ \/ /\ IF CanTransition(r, target) THEN Transition(r, target) ELSE UNCHANGED status
          /\ UNCHANGED service
       \/ Forsake(r)
    /\ GoStarter(r, "idle")

(* The start fails: run_provider_start_failed. *)
StartFails(r) ==
    /\ Starting(r, "failing")
    /\ StopStarting(r, "failed")
    /\ UNCHANGED <<lease, tree, external, handle, pump, canceller, discarder>>

(* The task is cancelled while it awaits backend.start (the scheduler at   *)
(* shutdown): a process just spawned is terminated first.                  *)
StartCancelled(r) ==
    /\ Starting(r, "backend") \/ Starting(r, "spawned")
    /\ "shutdown" \in Faults
    /\ provider' = [provider EXCEPT ![r] = IF @ = "alive" THEN "ended" ELSE @]
    /\ session' = [session EXCEPT ![r] = IF @ = "open" THEN "terminal" ELSE @]
    /\ StopStarting(r, "interrupted")
    /\ UNCHANGED <<lease, tree, terminal, handle, pump, canceller, discarder>>

-----------------------------------------------------------------------------
(* The provider, and the pump that reads its events *)

(* The process exits by itself or at the session's timeout: only then does *)
(* the adapter's stream have its last event.                               *)
ProviderEnds(r) ==
    /\ provider[r] = "alive"
    /\ provider' = [provider EXCEPT ![r] = "ended"]
    /\ \E t \in {"completed", "failed"} \cup {c \in {"closed"} : c \in Faults} :
          terminal' = [terminal EXCEPT ![r] = IF @ = "none" /\ session[r] = "open" THEN t ELSE @]
    /\ UNCHANGED <<rows, session, handle, tasks, service>>

(* What a terminal event makes of the run. *)
Targets(r) ==
    CASE terminal[r] = "completed" ->
            IF r \in BuildRuns THEN {"review_required", "failed"} ELSE {"completed"}
      [] terminal[r] = "failed" -> {"failed"}
      [] terminal[r] = "cancelled" -> {"cancelled"}
      [] terminal[r] = "closed" -> {"interrupted"}

PumpTerminal(r) ==
    /\ phase = "serving"
    /\ pump[r] = "reading"
    /\ terminal[r] # "none"
    /\ terminal[r] = "completed" => LeaseValid(r)
    /\ \E target \in Targets(r) : Terminalize(r, target)
    /\ terminal' = [terminal EXCEPT ![r] = "none"]
    /\ session' = [session EXCEPT ![r] = "terminal"]
    /\ pump' = [pump EXCEPT ![r] = "none"]
    /\ UNCHANGED <<lease, tree, provider, handle, starter, canceller, discarder, service>>

(* An event, evidence or the outcome cannot be stored, the notifier or the *)
(* change review raises, or the pump's task is cancelled:                  *)
(* _stop_and_terminalize begins.                                           *)
PumpBreaks(r) ==
    /\ phase = "serving"
    /\ pump[r] = "reading"
    /\ \/ /\ "pump" \in Faults \/ (terminal[r] = "completed" /\ ~LeaseValid(r))
          /\ pump' = [pump EXCEPT ![r] = "failing"]
       \/ /\ "shutdown" \in Faults
          /\ pump' = [pump EXCEPT ![r] = "interrupting"]
    /\ UNCHANGED <<rows, external, handle, starter, canceller, discarder, service>>

(* _stop_and_terminalize after its await: the provider was asked to stop,  *)
(* an event says so, and the run gets its outcome.  Where the event or the *)
(* outcome cannot be stored, the pump is over and the run stays active.    *)
PumpStops(r) ==
    /\ phase = "serving"
    /\ pump[r] \in {"failing", "interrupting"}
    /\ IF session[r] = "open" THEN Kill(r) ELSE UNCHANGED <<provider, terminal>>
    /\ session' = [session EXCEPT ![r] = "terminal"]
    /\ \/ /\ Terminalize(r, IF pump[r] = "failing" THEN "failed" ELSE "interrupted")
          /\ UNCHANGED service
       \/ Forsake(r)
    /\ pump' = [pump EXCEPT ![r] = "none"]
    /\ UNCHANGED <<lease, tree, handle, starter, canceller, discarder>>

-----------------------------------------------------------------------------
(* RunCoordinator.cancel *)

(* Without a handle the run is interrupted on the spot. *)
CancelWithoutHandle(r) ==
    /\ phase = "serving"
    /\ canceller[r] = "idle"
    /\ status[r] \in RunStatus
    /\ ~handle[r]
    /\ CanTransition(r, "interrupted")
    /\ Transition(r, "interrupted")
    /\ UNCHANGED <<lease, tree, external, handle, tasks, service>>

CancelBegins(r) ==
    /\ phase = "serving"
    /\ canceller[r] = "idle"
    /\ status[r] \in Active \cup {"review_required", "contribution_ready", "publishing"}
    /\ handle[r]
    /\ canceller' = [canceller EXCEPT ![r] = "stopping"]
    /\ UNCHANGED <<rows, external, handle, starter, pump, discarder, service>>

(* await backend.cancel, which a session with a terminal state declines. *)
BackendCancel(r) ==
    /\ phase = "serving"
    /\ canceller[r] = "stopping"
    /\ IF session[r] = "open"
       THEN /\ Kill(r)
            /\ session' = [session EXCEPT ![r] = "terminal"]
            /\ canceller' = [canceller EXCEPT ![r] = "stopped"]
       ELSE /\ canceller' = [canceller EXCEPT ![r] = "idle"]
            /\ UNCHANGED external
    /\ UNCHANGED <<rows, handle, starter, pump, discarder, service>>

(* The outcome of the cancel, unless it cannot be stored. *)
CancelEnds(r) ==
    /\ phase = "serving"
    /\ canceller[r] = "stopped"
    /\ Terminalize(r, "cancelled") \/ ("record" \in Faults /\ UNCHANGED status)
    /\ canceller' = [canceller EXCEPT ![r] = "idle"]
    /\ UNCHANGED <<lease, tree, external, handle, starter, pump, discarder, service>>

-----------------------------------------------------------------------------
(* RunCoordinator.discard, in a thread *)

Thread(t, pc) == phase = "serving" /\ discarder[t].pc = pc
GoThread(t, pc) == discarder' = [discarder EXCEPT ![t].pc = pc]
ThreadEnds(t) == discarder' = [discarder EXCEPT ![t] = NoThread]

(* An active or published run is refused, a discarded one returned. *)
Discardable == RunStatus \ {"preparing", "running", "publishing", "published", "discarded"}

DiscardChecks(t, r) ==
    /\ Thread(t, "idle")
    /\ status[r] \in Discardable
    /\ discarder' = [discarder EXCEPT ![t] = [pc |-> "checked", run |-> r, seen |-> status[r]]]
    /\ UNCHANGED <<rows, external, handle, starter, pump, canceller, service>>

(* WorktreeManager.get and the checks of discard.  A run that failed may   *)
(* have no lease; a lease that is still creating never validates.          *)
DiscardFindsLease(t) ==
    LET r == discarder[t].run
    IN  /\ Thread(t, "checked")
        /\ CASE lease[r] = "none" /\ discarder[t].seen = "failed" -> GoThread(t, "transition")
             [] lease[r] = "discarded" -> GoThread(t, "transition")
             [] LeaseValid(r) -> GoThread(t, "remove")
             [] OTHER -> ThreadEnds(t)
        /\ UNCHANGED <<rows, external, handle, starter, pump, canceller, service>>

(* git worktree remove --force.  It may leave a directory that cannot be   *)
(* removed (worktree_discard_unconfirmed): its Git metadata is gone.  The  *)
(* same is left where the lease cannot be updated behind it.               *)
DiscardRemoves(t) ==
    LET r == discarder[t].run
    IN  /\ Thread(t, "remove")
        /\ \/ /\ tree[r]
              /\ tree' = [tree EXCEPT ![r] = FALSE]
              /\ GoThread(t, "record")
           \/ /\ tree[r] /\ "locked" \in Faults
              /\ tree' = [tree EXCEPT ![r] = FALSE]
              /\ ThreadEnds(t)
           \/ /\ ~tree[r] \/ "git" \in Faults
              /\ ThreadEnds(t)
              /\ UNCHANGED tree
        /\ UNCHANGED <<status, lease, external, handle, starter, pump, canceller, service>>

DiscardRecords(t) ==
    LET r == discarder[t].run
    IN  /\ Thread(t, "record")
        /\ lease' = [lease EXCEPT ![r] = IF @ = "active" THEN "discarded" ELSE @]
        /\ GoThread(t, "transition")
        /\ UNCHANGED <<status, tree, external, handle, starter, pump, canceller, service>>

(* RunStore.transition in a thread: it reads the status in one transaction *)
(* and updates the row, if it still has that status, in another, which may *)
(* fail.                                                                   *)
DiscardReads(t) ==
    LET r == discarder[t].run
    IN  /\ Thread(t, "transition")
        /\ IF CanTransition(r, "discarded")
           THEN discarder' = [discarder EXCEPT ![t].pc = "update", ![t].seen = status[r]]
           ELSE ThreadEnds(t)
        /\ UNCHANGED <<rows, external, handle, starter, pump, canceller, service>>

DiscardUpdates(t) ==
    LET r == discarder[t].run
    IN  /\ Thread(t, "update")
        /\ \/ Transition(r, IF status[r] = discarder[t].seen THEN "discarded" ELSE status[r])
           \/ "record" \in Faults /\ UNCHANGED status
        /\ ThreadEnds(t)
        /\ UNCHANGED <<lease, tree, external, handle, starter, pump, canceller, service>>

-----------------------------------------------------------------------------
(* Crashes, and the start-up of the API's lifespan *)

Crash ==
    /\ crashes < MaxCrashes
    /\ crashes' = crashes + 1
    /\ phase' = "worktrees"
    /\ handle' = [r \in Runs |-> FALSE]
    /\ session' = [r \in Runs |-> "none"]
    /\ terminal' = [r \in Runs |-> "none"]
    /\ starter' = [r \in Runs |-> "idle"]
    /\ pump' = [r \in Runs |-> "none"]
    /\ canceller' = [r \in Runs |-> "idle"]
    /\ discarder' = [t \in Threads |-> NoThread]
    /\ UNCHANGED <<rows, provider, forsaken>>

(* WorktreeManager.recover_interrupted: a lease in creating goes, and its  *)
(* directory with it, unless Git cannot remove the directory.  A Git       *)
(* command that is killed at its timeout, or a lease that cannot be        *)
(* deleted, ends the start-up with an error, and the next one begins again.*)
Recoverable(r) == lease[r] = "creating"
RecoverWorktrees ==
    /\ phase = "worktrees"
    /\ phase' \in {"runs"} \cup (IF Faults \cap {"git", "store"} # {} THEN {"worktrees"} ELSE {})
    /\ \E skipped \in SUBSET {r \in Runs : Recoverable(r) /\ tree[r] /\ "git" \in Faults} :
       \E undeleted \in SUBSET {r \in Runs : Recoverable(r) /\ "store" \in Faults} :
          LET removed == {r \in Runs : Recoverable(r)} \ skipped
          IN  /\ undeleted # {} => phase' = "worktrees"
              /\ tree' = [r \in Runs |-> tree[r] /\ r \notin removed]
              /\ lease' = [r \in Runs |-> IF r \in removed \ undeleted THEN "none" ELSE lease[r]]
    /\ UNCHANGED <<status, external, handle, tasks, crashes, forsaken>>

(* RunCoordinator.recover_interrupted *)
RecoveredPreparing == {"preparing"}
RecoveredStatus == {"preparing", "running"}
RecoverRuns ==
    /\ phase = "runs"
    /\ phase' = "serving"
    /\ status' = [r \in Runs |-> IF status[r] \in RecoveredStatus THEN "interrupted"
                                 ELSE status[r]]
    /\ forsaken' = {}
    /\ UNCHANGED <<lease, tree, external, handle, tasks, crashes>>

(* One transition after the other: the first that cannot be written ends   *)
(* the start-up, which counts as a crash.                                  *)
RecoverRunsFails ==
    /\ phase = "runs"
    /\ "record" \in Faults
    /\ crashes < MaxCrashes
    /\ crashes' = crashes + 1
    /\ phase' = "worktrees"
    /\ \E done \in SUBSET {r \in Runs : status[r] \in RecoveredStatus} :
          status' = [r \in Runs |-> IF r \in done THEN "interrupted" ELSE status[r]]
    /\ UNCHANGED <<lease, tree, external, handle, tasks, forsaken>>

-----------------------------------------------------------------------------
StartStep(r) ==
    \/ EvidenceFails(r) \/ InsertLease(r) \/ InsertLeaseFails(r)
    \/ AddWorktree(r) \/ AddWorktreeFails(r) \/ ActivateLease(r)
    \/ ActivateLeaseFails(r) \/ RejectWorktree(r) \/ Spawn(r) \/ SpawnFails(r)
    \/ StartResumes(r) \/ StartFails(r) \/ StartCancelled(r)

PumpStep(r) == PumpTerminal(r) \/ PumpBreaks(r) \/ PumpStops(r)

CancelStep(r) == CancelWithoutHandle(r) \/ CancelBegins(r) \/ BackendCancel(r) \/ CancelEnds(r)

DiscardStep(t) ==
    \/ DiscardFindsLease(t) \/ DiscardRemoves(t) \/ DiscardRecords(t)
    \/ DiscardReads(t) \/ DiscardUpdates(t)

Next ==
    \/ \E r \in Runs : \/ StartRun(r) \/ StartStep(r)
                       \/ ProviderEnds(r) \/ PumpStep(r)
                       \/ CancelStep(r)
    \/ \E t \in Threads : DiscardStep(t) \/ \E r \in Runs : DiscardChecks(t, r)
    \/ Crash
    \/ RecoverWorktrees
    \/ RecoverRuns
    \/ RecoverRunsFails

Spec == Init /\ [][Next]_vars

(* The event loop runs every ready coroutine, the operating system every   *)
(* thread; a provider exits or meets the timeout of its session; the       *)
(* desktop shell restarts a service that died.                             *)
Fairness ==
    /\ \A r \in Runs : /\ WF_vars(StartStep(r))
                       /\ WF_vars(ProviderEnds(r))
                       /\ WF_vars(PumpStep(r))
                       /\ WF_vars(BackendCancel(r) \/ CancelEnds(r))
    /\ \A t \in Threads : WF_vars(DiscardStep(t))
    /\ WF_vars(RecoverWorktrees \/ RecoverRuns)

FairSpec == Spec /\ Fairness

-----------------------------------------------------------------------------
(* Properties *)

Finished == Stopped \cup {"review_required", "discarded"}

(* A finished run stays what it is until it is discarded: a late event, a  *)
(* cancel, a failing start or a recovery never changes its outcome.        *)
OutcomeIsFinal ==
    [][\A r \in Runs :
         /\ status[r] \in Finished => status'[r] \in {status[r], "discarded"}
         /\ status[r] = "discarded" => status'[r] = "discarded"]_vars

(* Whoever reviews, or is told the run completed or was cancelled, looks   *)
(* at a worktree that no provider is still writing to.                     *)
QuietWhenReported ==
    \A r \in Runs : status[r] \in {"review_required", "completed", "cancelled"}
        => provider[r] # "alive"

(* A worktree directory is always named by a lease that recovery or        *)
(* discard acts on: no crash or failing Git command strands one.           *)
NoStrandedWorktree ==
    \A r \in Runs : tree[r] => lease[r] \in {"creating", "active"}

(* While the service is up, a run shown as preparing or running has a      *)
(* coroutine that will finish it, or it is one on which the run store      *)
(* refused a write of that coroutine.                                      *)
Attended(r) == /\ status[r] = "preparing" => starter[r] # "idle"
               /\ status[r] = "running" => pump[r] # "none"
OwnedOrForsaken == phase = "serving" => \A r \in Runs : Attended(r) \/ r \in forsaken

(* Whatever start, pump and cancel left undone, the provider of an active  *)
(* run whose start is over can still be stopped by a cancel.               *)
ActiveCanBeStopped ==
    phase = "serving" =>
        \A r \in Runs : status[r] \in Active /\ starter[r] = "idle" /\ provider[r] = "alive"
            => handle[r] /\ session[r] = "open"

(* No active run is left to itself: somebody finishes it, or it was cut    *)
(* off by a failing write, and then no provider works for it unstoppably.  *)
ActiveIsAttended == OwnedOrForsaken /\ ActiveCanBeStopped

(* A run to review keeps its worktree until somebody discards it.          *)
ReviewKeepsWorktree ==
    \A r \in Runs : status[r] = "review_required" =>
        LeaseValid(r) \/ \E t \in Threads : discarder[t].pc # "idle" /\ discarder[t].run = r

(* A run that was started reaches an outcome, whatever fails on the way,   *)
(* unless the write that fails is one of its coroutine to the run store;   *)
(* and every run that a crash or a restart found active gets its outcome.  *)
RunsEnd ==
    \A r \in Runs :
        /\ status[r] = "preparing" ~> (status[r] \in Finished \/ r \in forsaken)
        /\ (status[r] \in Active /\ phase # "serving") ~> status[r] \in Finished

(* Cancellation stops the provider: a run interrupted by a cancel, whose   *)
(* start has returned, has no provider left running.                       *)
CancelStopsProvider ==
    \A r \in Runs : status[r] = "interrupted" /\ starter[r] = "idle"
        => provider[r] # "alive"

(* A stopped run that nobody is working on can be discarded: it has no     *)
(* lease because it failed, a lease already discarded, or a valid one.     *)
StoppedCanBeDiscarded ==
    \A r \in Runs :
        /\ phase = "serving"
        /\ status[r] \in Stopped \cup {"review_required"}
        /\ starter[r] = "idle"
        /\ \A t \in Threads : discarder[t].pc # "idle" => discarder[t].run # r
        => \/ LeaseValid(r)
           \/ lease[r] = "discarded"
           \/ lease[r] = "none" /\ status[r] = "failed"

(* Every started run ends, and on the way no crash, recovery or failing    *)
(* command takes the worktree from under a run that waits for its review.  *)
RunsEndReviewable == []ReviewKeepsWorktree /\ RunsEnd
=============================================================================
