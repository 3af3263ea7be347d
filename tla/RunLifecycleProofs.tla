------------------------- MODULE RunLifecycleProofs -------------------------
(* Theorems about RunLifecycle, for every set of runs, threads, faults and *)
(* number of crashes that satisfies RunAssumption.                         *)
EXTENDS RunLifecycle, TLAPS

(* What the table of legal transitions says about the targets that the     *)
(* coordinator asks for.                                                   *)
LEMMA TransitionFacts ==
    ASSUME NEW s \in RunStatus
    PROVE  /\ "running" \in Transitions[s] <=> s = "preparing"
           /\ "interrupted" \in Transitions[s] <=> s \in Active
           /\ "failed" \in Transitions[s] <=>
                s \in Active \cup {"review_required", "publishing"}
  BY DEF Transitions, RunStatus, Active, Stopped

(* A thread that is not idle works on a run. *)
LEMMA BusyThread ==
    ASSUME TypeOK, NEW t \in Threads, discarder[t].pc # "idle"
    PROVE  discarder[t] \in [pc : DiscardPcs, run : Runs, seen : RunStatus]
  BY DEF TypeOK, NoThread

-----------------------------------------------------------------------------
(* Every step of the coordinator, of the worktree manager, of the threads  *)
(* and of a restart keeps rows, handles and tasks well typed; a thread     *)
(* that discards always has a run of the store in its hands.               *)
THEOREM TypeCorrect == Spec => []TypeOK
<1>1. Init => TypeOK
  BY RunAssumption DEF Init, TypeOK, StarterPcs, PumpPcs, NoThread
<1>2. TypeOK /\ [Next]_vars => TypeOK'
  <2>. SUFFICES ASSUME TypeOK, [Next]_vars PROVE TypeOK'
    OBVIOUS
  <2>. USE RunAssumption
  <2>1. ASSUME NEW r \in Runs, StartRun(r) \/ StartStep(r) PROVE TypeOK'
    <3>1. CASE StartRun(r)
      BY <3>1 DEF TypeOK, StartRun, Transition, GoStarter, external, service, StarterPcs,
         RunStatus
    <3>2. CASE InsertLease(r) \/ ActivateLease(r)
      BY <3>2 DEF TypeOK, InsertLease, ActivateLease, GoStarter, external, service, StarterPcs
    <3>11. CASE EvidenceFails(r) \/ InsertLeaseFails(r)
      BY <3>11 DEF TypeOK, EvidenceFails, InsertLeaseFails, Forsake, GoStarter, rows, external,
         service, StarterPcs
    <3>10. CASE AddWorktree(r)
      BY <3>10 DEF TypeOK, AddWorktree, GoStarter, external, service, StarterPcs
    <3>6. CASE AddWorktreeFails(r)
      BY <3>6 DEF TypeOK, AddWorktreeFails, GoStarter, external, service, StarterPcs
    <3>7. CASE ActivateLeaseFails(r)
      <4>1. tree' \in [Runs -> BOOLEAN]
        BY <3>7 DEF TypeOK, ActivateLeaseFails
      <4>2. lease' \in [Runs -> {"none", "creating", "active", "discarded"}]
        BY <3>7 DEF TypeOK, ActivateLeaseFails
      <4>. QED
        BY <3>7, <4>1, <4>2 DEF TypeOK, ActivateLeaseFails, GoStarter, external, service, StarterPcs
    <3>8. CASE RejectWorktree(r)
      <4>1. tree' \in [Runs -> BOOLEAN]
        BY <3>8 DEF TypeOK, RejectWorktree
      <4>2. lease' \in [Runs -> {"none", "creating", "active", "discarded"}]
        BY <3>8 DEF TypeOK, RejectWorktree
      <4>. QED
        BY <3>8, <4>1, <4>2 DEF TypeOK, RejectWorktree, GoStarter, external, service, StarterPcs
    <3>3. CASE Spawn(r) \/ SpawnFails(r)
      BY <3>3 DEF TypeOK, Spawn, SpawnFails, GoStarter, rows, external, service, StarterPcs
    <3>4. CASE StartResumes(r)
      BY <3>4 DEF TypeOK, StartResumes, Forsake, Transition, GoStarter, external, service,
         StarterPcs, PumpPcs, RunStatus
    <3>9. CASE StartFails(r)
      BY <3>9 DEF TypeOK, StartFails, StopStarting, Forsake, Transition, GoStarter, external,
         service, StarterPcs, RunStatus
    <3>5. CASE StartCancelled(r)
      BY <3>5 DEF TypeOK, StartCancelled, StopStarting, Forsake, Transition, GoStarter, service,
         StarterPcs, RunStatus
    <3>. QED
      BY <2>1, <3>1, <3>2, <3>3, <3>4, <3>5, <3>6, <3>7, <3>8, <3>9, <3>10, <3>11
      DEF StartStep
  <2>2. ASSUME NEW r \in Runs, ProviderEnds(r) PROVE TypeOK'
    BY <2>2 DEF TypeOK, ProviderEnds, rows, tasks, service
  <2>3. ASSUME NEW r \in Runs, PumpStep(r) PROVE TypeOK'
    <3>1. CASE PumpTerminal(r)
      <4>1. PICK target \in Targets(r) : Terminalize(r, target)
        BY <3>1 DEF PumpTerminal
      <4>2. target \in RunStatus
        BY <3>1, <4>1 DEF TypeOK, PumpTerminal, Targets, RunStatus
      <4>3. status' \in [Runs -> RunStatus \cup {"absent"}]
        BY <4>1, <4>2 DEF TypeOK, Terminalize, Transition
      <4>. QED
        BY <3>1, <4>3 DEF TypeOK, PumpTerminal, service, PumpPcs
    <3>2. CASE PumpBreaks(r)
      BY <3>2 DEF TypeOK, PumpBreaks, rows, external, service, PumpPcs
    <3>3. CASE PumpStops(r)
      <4>1. status' \in [Runs -> RunStatus \cup {"absent"}]
        BY <3>3 DEF TypeOK, PumpStops, Forsake, Terminalize, Transition, RunStatus
      <4>2. /\ provider' \in [Runs -> {"none", "alive", "ended"}]
            /\ terminal' \in [Runs -> {"none", "completed", "failed", "cancelled", "closed"}]
        BY <3>3 DEF TypeOK, PumpStops, Kill
      <4>3. session' \in [Runs -> {"none", "open", "terminal"}] /\ pump' \in [Runs -> PumpPcs]
        BY <3>3 DEF TypeOK, PumpStops, PumpPcs
      <4>4. forsaken' \subseteq Runs /\ UNCHANGED <<phase, crashes>>
        BY <3>3 DEF TypeOK, PumpStops, Forsake, service
      <4>. QED
        BY <3>3, <4>1, <4>2, <4>3, <4>4 DEF TypeOK, PumpStops
    <3>. QED
      BY <2>3, <3>1, <3>2, <3>3 DEF PumpStep
  <2>4. ASSUME NEW r \in Runs, CancelStep(r) PROVE TypeOK'
    <3>1. CASE CancelWithoutHandle(r)
      BY <3>1 DEF TypeOK, CancelWithoutHandle, Transition, external, tasks, service, RunStatus
    <3>2. CASE CancelBegins(r)
      BY <3>2 DEF TypeOK, CancelBegins, rows, external, service
    <3>3. CASE BackendCancel(r)
      BY <3>3 DEF TypeOK, BackendCancel, Kill, rows, external, service
    <3>4. CASE CancelEnds(r)
      BY <3>4 DEF TypeOK, CancelEnds, Terminalize, Transition, external, service, RunStatus
    <3>. QED
      BY <2>4, <3>1, <3>2, <3>3, <3>4 DEF CancelStep
  <2>5. ASSUME NEW t \in Threads, NEW r \in Runs, DiscardChecks(t, r) PROVE TypeOK'
    BY <2>5 DEF TypeOK, DiscardChecks, Discardable, DiscardPcs, rows, external, service
  <2>6. ASSUME NEW t \in Threads, DiscardStep(t) PROVE TypeOK'
    <3>. DEFINE r == discarder[t].run
    <3>1. discarder[t] \in [pc : DiscardPcs, run : Runs, seen : RunStatus]
      BY <2>6, BusyThread DEF DiscardStep, DiscardFindsLease, DiscardRemoves, DiscardRecords,
         DiscardReads, DiscardUpdates, Thread
    <3>2. r \in Runs
      BY <3>1
    <3>3. ASSUME NEW pc \in DiscardPcs, GoThread(t, pc)
          PROVE  discarder' \in [Threads -> {NoThread}
                     \cup [pc : DiscardPcs, run : Runs, seen : RunStatus]]
      BY <3>1, <3>3 DEF TypeOK, GoThread
    <3>4. ThreadEnds(t) => discarder' \in [Threads -> {NoThread}
                     \cup [pc : DiscardPcs, run : Runs, seen : RunStatus]]
      BY DEF TypeOK, ThreadEnds
    <3>5. CASE DiscardFindsLease(t)
      BY <3>3, <3>4, <3>5 DEF TypeOK, DiscardFindsLease, DiscardPcs, rows, external, service
    <3>6. CASE DiscardRemoves(t)
      BY <3>2, <3>3, <3>4, <3>6 DEF TypeOK, DiscardRemoves, DiscardPcs, external, service
    <3>7. CASE DiscardRecords(t)
      BY <3>2, <3>3, <3>7 DEF TypeOK, DiscardRecords, DiscardPcs, external, service
    <3>8. CASE DiscardReads(t)
      <4>1. status[r] \in RunStatus \cup {"absent"}
        BY <3>2 DEF TypeOK
      <4>2. discarder' \in [Threads -> {NoThread}
                     \cup [pc : DiscardPcs, run : Runs, seen : RunStatus]]
        BY <3>1, <3>4, <3>8, <4>1 DEF TypeOK, DiscardReads, DiscardPcs
      <4>. QED
        BY <3>8, <4>2 DEF TypeOK, DiscardReads, rows, external, service
    <3>9. CASE DiscardUpdates(t)
      BY <3>2, <3>4, <3>9 DEF TypeOK, DiscardUpdates, Transition, external, service, RunStatus
    <3>. QED
      BY <2>6, <3>5, <3>6, <3>7, <3>8, <3>9 DEF DiscardStep
  <2>7. CASE Crash
    BY <2>7 DEF TypeOK, Crash, rows, StarterPcs, PumpPcs
  <2>8. CASE RecoverWorktrees
    BY <2>8 DEF TypeOK, RecoverWorktrees, external, tasks
  <2>10. CASE RecoverRuns
    BY <2>10 DEF TypeOK, RecoverRuns, external, tasks, RunStatus
  <2>11. CASE RecoverRunsFails
    <3>1. status' \in [Runs -> RunStatus \cup {"absent"}]
      BY <2>11 DEF TypeOK, RecoverRunsFails, RunStatus
    <3>. QED
      BY <2>11, <3>1 DEF TypeOK, RecoverRunsFails, external, tasks
  <2>9. CASE UNCHANGED vars
    BY <2>9 DEF TypeOK, vars, rows, external, tasks, service
  <2>. QED
    BY <2>1, <2>2, <2>3, <2>4, <2>5, <2>6, <2>7, <2>8, <2>9, <2>10, <2>11 DEF Next
<1>. QED
  BY <1>1, <1>2, PTL DEF Spec
-----------------------------------------------------------------------------
(* The inductive invariant.  Its parts are about one run each. *)

(* A run that was not inserted has left no trace. *)
Untouched(r) ==
    status[r] = "absent" =>
        /\ starter[r] = "idle" /\ pump[r] = "none" /\ canceller[r] = "idle" /\ ~handle[r]
        /\ provider[r] = "none" /\ terminal[r] = "none"
        /\ lease[r] = "none" /\ ~tree[r]

(* While start is under way it alone owns the run: there is no handle to   *)
(* cancel by and no pump.  The run can only be interrupted, and discarded  *)
(* after that.                                                             *)
StartOwns(r) ==
    starter[r] # "idle" =>
        /\ phase = "serving"
        /\ status[r] \in {"preparing", "interrupted", "discarded"}
        /\ pump[r] = "none" /\ canceller[r] = "idle" /\ ~handle[r]
        /\ starter[r] = "spawned" => session[r] = "open"

(* The lease follows create, and there is no directory before Git is run.  *)
LeaseFollows(r) ==
    /\ starter[r] = "inserted" => lease[r] = "none"
    /\ starter[r] \in {"leased", "added"} => lease[r] = "creating"
    /\ starter[r] \in {"inserted", "leased"} => ~tree[r]

(* No process before spawning, and none left where one was stopped or has  *)
(* had its last event; see Confirmed below.                                *)
ProviderKnown(r) ==
    /\ starter[r] \in {"inserted", "leased", "added", "backend", "failing"} =>
          provider[r] = "none" /\ terminal[r] = "none"
    /\ terminal[r] # "none" \/ canceller[r] = "stopped" => provider[r] # "alive"

(* A thread about to remove or to record has found an active lease.        *)
RemovesLeased ==
    \A t \in Threads :
        /\ discarder[t].pc \in {"remove", "record"} =>
              lease[discarder[t].run] \in {"active", "discarded"}
        /\ discarder[t].pc = "record" => ~tree[discarder[t].run]

StartInv == \A r \in Runs : Untouched(r) /\ StartOwns(r) /\ LeaseFollows(r)
ProviderInv == \A r \in Runs : ProviderKnown(r)

(* Start owns its run from the row to the pump, whatever the threads, the  *)
(* cancels and the crashes do meanwhile.                                   *)
LEMMA StartInvKept == TypeOK /\ StartInv /\ [Next]_vars => StartInv'
<1>. SUFFICES ASSUME TypeOK, StartInv, [Next]_vars, NEW q \in Runs
              PROVE  (Untouched(q) /\ StartOwns(q) /\ LeaseFollows(q))'
  BY DEF StartInv
<1>. DEFINE Goal == (Untouched(q) /\ StartOwns(q) /\ LeaseFollows(q))'
<1>0. Untouched(q) /\ StartOwns(q) /\ LeaseFollows(q)
  BY DEF StartInv
<1>a. status[q] \in RunStatus \cup {"absent"}
  BY DEF TypeOK
<1>1. ASSUME NEW r \in Runs, StartRun(r) PROVE Goal
  BY <1>0, <1>1 DEF TypeOK, StartRun, Transition, GoStarter, external, service,
     Untouched, StartOwns, LeaseFollows
<1>2. ASSUME NEW r \in Runs, InsertLease(r) PROVE Goal
  BY <1>0, <1>2 DEF TypeOK, InsertLease, Starting, GoStarter, external, service,
     Untouched, StartOwns, LeaseFollows
<1>3. ASSUME NEW r \in Runs, AddWorktree(r) PROVE Goal
  BY <1>0, <1>3 DEF TypeOK, AddWorktree, Starting, GoStarter, external, service,
     Untouched, StartOwns, LeaseFollows
<1>4. ASSUME NEW r \in Runs, AddWorktreeFails(r) PROVE Goal
  BY <1>0, <1>4 DEF TypeOK, AddWorktreeFails, Starting, GoStarter, external, service,
     Untouched, StartOwns, LeaseFollows
<1>5. ASSUME NEW r \in Runs, ActivateLease(r) PROVE Goal
  BY <1>0, <1>5 DEF TypeOK, ActivateLease, Starting, GoStarter, external, service,
     Untouched, StartOwns, LeaseFollows
<1>6. ASSUME NEW r \in Runs, ActivateLeaseFails(r) PROVE Goal
  BY <1>0, <1>6 DEF TypeOK, ActivateLeaseFails, Starting, GoStarter, external, service,
     Untouched, StartOwns, LeaseFollows
<1>7. ASSUME NEW r \in Runs, RejectWorktree(r) PROVE Goal
  BY <1>0, <1>7 DEF TypeOK, RejectWorktree, Starting, GoStarter, external, service,
     Untouched, StartOwns, LeaseFollows
<1>8. ASSUME NEW r \in Runs, Spawn(r) \/ SpawnFails(r) PROVE Goal
  BY <1>0, <1>8 DEF TypeOK, Spawn, SpawnFails, Starting, GoStarter, rows, external, service,
     Untouched, StartOwns, LeaseFollows
<1>9. ASSUME NEW r \in Runs, StartResumes(r) PROVE Goal
  BY <1>0, <1>9 DEF TypeOK, StartResumes, Forsake, Starting, Transition, GoStarter, external,
     service,
     Untouched, StartOwns, LeaseFollows
<1>10. ASSUME NEW r \in Runs, StartFails(r) \/ StartCancelled(r) PROVE Goal
  BY <1>0, <1>10 DEF TypeOK, StartFails, StartCancelled, StopStarting, Forsake, Starting,
     Transition, GoStarter, external, service, Untouched, StartOwns, LeaseFollows
<1>25. ASSUME NEW r \in Runs, EvidenceFails(r) \/ InsertLeaseFails(r) PROVE Goal
  BY <1>0, <1>25 DEF TypeOK, EvidenceFails, InsertLeaseFails, Forsake, Starting, GoStarter,
     rows, external, service, Untouched, StartOwns, LeaseFollows
<1>11. ASSUME NEW r \in Runs, ProviderEnds(r) PROVE Goal
  BY <1>0, <1>11 DEF TypeOK, ProviderEnds, rows, tasks, service,
     Untouched, StartOwns, LeaseFollows
<1>12. ASSUME NEW r \in Runs, PumpTerminal(r) PROVE Goal
  <2>1. PICK target \in Targets(r) : Terminalize(r, target)
    BY <1>12 DEF PumpTerminal
  <2>2. target # "absent"
    BY <1>12, <2>1 DEF TypeOK, PumpTerminal, Targets
  <2>3. status' = [status EXCEPT ![r] = IF status[r] \in Active THEN target ELSE status[r]]
    BY <2>1 DEF Terminalize, Transition
  <2>. QED
    BY <1>0, <1>12, <2>2, <2>3 DEF TypeOK, PumpTerminal, service, Active,
       Untouched, StartOwns, LeaseFollows
<1>13. ASSUME NEW r \in Runs, PumpBreaks(r) PROVE Goal
  BY <1>0, <1>13 DEF TypeOK, PumpBreaks, rows, external, service,
     Untouched, StartOwns, LeaseFollows
<1>14. ASSUME NEW r \in Runs, PumpStops(r) PROVE Goal
  BY <1>0, <1>14 DEF TypeOK, PumpStops, Forsake, Kill, Terminalize, Transition, service, Active,
     Untouched, StartOwns, LeaseFollows
<1>15. ASSUME NEW r \in Runs, CancelWithoutHandle(r) PROVE Goal
  BY <1>0, <1>15 DEF TypeOK, CancelWithoutHandle, Transition, external, tasks, service,
     Untouched, StartOwns, LeaseFollows
<1>16. ASSUME NEW r \in Runs, CancelBegins(r) PROVE Goal
  BY <1>0, <1>16 DEF TypeOK, CancelBegins, rows, external, service, Active,
     Untouched, StartOwns, LeaseFollows
<1>17. ASSUME NEW r \in Runs, BackendCancel(r) PROVE Goal
  BY <1>0, <1>17 DEF TypeOK, BackendCancel, Kill, rows, external, service,
     Untouched, StartOwns, LeaseFollows
<1>18. ASSUME NEW r \in Runs, CancelEnds(r) PROVE Goal
  BY <1>0, <1>18 DEF TypeOK, CancelEnds, Terminalize, Transition, external, service, Active,
     Untouched, StartOwns, LeaseFollows
<1>19. ASSUME NEW t \in Threads, NEW r \in Runs, DiscardChecks(t, r) PROVE Goal
  BY <1>0, <1>19 DEF DiscardChecks, rows, external, service,
     Untouched, StartOwns, LeaseFollows
<1>20. ASSUME NEW t \in Threads, DiscardStep(t) PROVE Goal
  <2>. DEFINE r == discarder[t].run
  <2>1. discarder[t] \in [pc : DiscardPcs, run : Runs, seen : RunStatus]
    BY <1>20, BusyThread DEF DiscardStep, DiscardFindsLease, DiscardRemoves, DiscardRecords,
       DiscardReads, DiscardUpdates, Thread
  <2>2. r \in Runs /\ discarder[t].seen \in RunStatus
    BY <2>1
  <2>. HIDE DEF r
  <2>3. CASE DiscardFindsLease(t) \/ DiscardReads(t)
    BY <1>0, <2>3 DEF DiscardFindsLease, DiscardReads, rows, external, service,
       Untouched, StartOwns, LeaseFollows
  <2>4. CASE DiscardRemoves(t)
    <3>1. tree' = [tree EXCEPT ![r] = FALSE] \/ UNCHANGED tree
      BY <2>4 DEF DiscardRemoves, r
    <3>. QED
      BY <1>0, <2>2, <2>4, <3>1 DEF TypeOK, DiscardRemoves, external, service,
         Untouched, StartOwns, LeaseFollows
  <2>5. CASE DiscardRecords(t)
    <3>1. lease' = [lease EXCEPT ![r] = IF lease[r] = "active" THEN "discarded" ELSE lease[r]]
      BY <2>5 DEF DiscardRecords, r
    <3>. QED
      BY <1>0, <2>2, <2>5, <3>1 DEF TypeOK, DiscardRecords, external, service,
         Untouched, StartOwns, LeaseFollows
  <2>6. CASE DiscardUpdates(t)
    <3>1. \/ status' = [status EXCEPT ![r] =
                          IF status[r] = discarder[t].seen THEN "discarded" ELSE status[r]]
          \/ UNCHANGED status
      BY <2>6 DEF DiscardUpdates, Transition, r
    <3>2. "absent" \notin RunStatus
      BY DEF RunStatus
    <3>. QED
      BY <1>0, <2>2, <2>6, <3>1, <3>2 DEF TypeOK, DiscardUpdates, external, service,
         Untouched, StartOwns, LeaseFollows
  <2>. QED
    BY <1>20, <2>3, <2>4, <2>5, <2>6 DEF DiscardStep
<1>21. CASE Crash
  BY <1>0, <1>21 DEF Crash, rows, Untouched, StartOwns, LeaseFollows
<1>22. CASE RecoverWorktrees
  BY <1>0, <1>22 DEF TypeOK, RecoverWorktrees, external, tasks, Untouched, StartOwns, LeaseFollows
<1>23. CASE RecoverRuns
  BY <1>0, <1>23 DEF TypeOK, RecoverRuns, external, tasks, Untouched, StartOwns, LeaseFollows
<1>26. CASE RecoverRunsFails
  <2>1. status'[q] = status[q] \/ (status[q] # "absent" /\ status'[q] = "interrupted")
    BY <1>26 DEF TypeOK, RecoverRunsFails, RecoveredStatus
  <2>. QED
    BY <1>0, <1>26, <2>1 DEF RecoverRunsFails, external, tasks, Untouched, StartOwns, LeaseFollows
<1>24. CASE UNCHANGED vars
  BY <1>0, <1>24 DEF vars, rows, external, tasks, service, Untouched, StartOwns, LeaseFollows
<1>. QED
  BY <1>1, <1>2, <1>3, <1>4, <1>5, <1>6, <1>7, <1>8, <1>9, <1>10, <1>11, <1>12, <1>13, <1>14,
     <1>15, <1>16, <1>17, <1>18, <1>19, <1>20, <1>21, <1>22, <1>23, <1>24, <1>25, <1>26
  DEF Next, StartStep, PumpStep, CancelStep

\* What is known of starting runs holds in every state.
LEMMA StartInvariant == Spec => []StartInv
<1>1. Init => StartInv
  BY ZenonT(60) DEF Init, StartInv, Untouched, StartOwns, LeaseFollows
<1>2. TypeOK /\ StartInv /\ [Next]_vars => StartInv'
  BY StartInvKept
<1>. QED
  BY <1>1, <1>2, TypeCorrect, PTL DEF Spec

-----------------------------------------------------------------------------
(* What a step may do to the status of a run: a step of start, of the pump *)
(* or of cancel gives an outcome to an active run only, a thread discards. *)
LEMMA StatusSteps ==
    ASSUME TypeOK, StartInv, [Next]_vars, NEW q \in Runs
    PROVE  \/ status'[q] = status[q]
           \/ status[q] = "absent" /\ status'[q] = "preparing"
           \/ status[q] = "preparing" /\ status'[q] = "running"
           \/ status[q] \in Active /\ status'[q] \in Stopped \cup {"review_required"}
           \/ status'[q] = "discarded"
<1>. DEFINE Goal ==
           \/ status'[q] = status[q]
           \/ status[q] = "absent" /\ status'[q] = "preparing"
           \/ status[q] = "preparing" /\ status'[q] = "running"
           \/ status[q] \in Active /\ status'[q] \in Stopped \cup {"review_required"}
           \/ status'[q] = "discarded"
<1>0. Untouched(q) /\ StartOwns(q)
  BY DEF StartInv
<1>a. "absent" \notin RunStatus /\ status \in [Runs -> RunStatus \cup {"absent"}]
  BY DEF TypeOK, RunStatus
<1>1. ASSUME NEW r \in Runs, StartRun(r) PROVE Goal
  BY <1>1, <1>a DEF StartRun, Transition
<1>2. ASSUME NEW r \in Runs, StartResumes(r) PROVE Goal
  <2>1. StartOwns(r)
    BY DEF StartInv
  <2>2. CanTransition(r, "running") => status[r] = "preparing"
    BY <1>2, <2>1, <1>a, TransitionFacts DEF CanTransition, StartResumes, Starting, StartOwns,
       RunStatus
  <2>. QED
    BY <1>2, <1>a, <2>2 DEF StartResumes, Forsake, Transition
<1>3. ASSUME NEW r \in Runs, StartFails(r) \/ StartCancelled(r) PROVE Goal
  <2>1. StartOwns(r)
    BY DEF StartInv
  <2>2. CanTransition(r, "failed") \/ CanTransition(r, "interrupted")
          => status[r] = "preparing"
    BY <1>3, <2>1, <1>a, TransitionFacts DEF CanTransition, StartFails, StartCancelled,
       Starting, StartOwns, RunStatus, Active
  <2>. QED
    BY <1>3, <1>a, <2>2 DEF StartFails, StartCancelled, StopStarting, Forsake, Transition, Active,
       Stopped
<1>4. ASSUME NEW r \in Runs, PumpTerminal(r) PROVE Goal
  <2>1. PICK target \in Targets(r) : Terminalize(r, target)
    BY <1>4 DEF PumpTerminal
  <2>2. target \in Stopped \cup {"review_required"}
    BY <1>4, <2>1 DEF TypeOK, PumpTerminal, Targets, Stopped
  <2>. QED
    BY <2>1, <2>2, <1>a DEF Terminalize, Transition
<1>5. ASSUME NEW r \in Runs, PumpStops(r) \/ CancelEnds(r) PROVE Goal
  BY <1>5, <1>a DEF PumpStops, Forsake, CancelEnds, Terminalize, Transition, Stopped
<1>6. ASSUME NEW r \in Runs, CancelWithoutHandle(r) PROVE Goal
  <2>1. status[r] \in Active
    BY <1>6, TransitionFacts DEF CancelWithoutHandle, CanTransition
  <2>. QED
    BY <1>6, <2>1, <1>a DEF CancelWithoutHandle, Transition, Stopped
<1>7. ASSUME NEW t \in Threads, DiscardUpdates(t) PROVE Goal
  BY <1>7, <1>a DEF DiscardUpdates, Transition
<1>8. CASE RecoverRuns
  BY <1>8, <1>a DEF RecoverRuns, RecoveredStatus, Active, Stopped
<1>10. CASE RecoverRunsFails
  BY <1>10, <1>a DEF RecoverRunsFails, RecoveredStatus, Active, Stopped
<1>9. CASE UNCHANGED status
  BY <1>9
<1>. QED
  BY <1>1, <1>2, <1>3, <1>4, <1>5, <1>6, <1>7, <1>8, <1>9, <1>10
  DEF Next, vars, rows, StartStep, PumpStep, CancelStep, DiscardStep, EvidenceFails, Forsake,
      InsertLeaseFails, InsertLease, AddWorktree,
      AddWorktreeFails, ActivateLease, ActivateLeaseFails, RejectWorktree, Spawn, SpawnFails,
      ProviderEnds, PumpBreaks, CancelBegins, BackendCancel, DiscardChecks, DiscardFindsLease,
      DiscardRemoves, DiscardRecords, DiscardReads, Crash, RecoverWorktrees

(* A finished run keeps its outcome until somebody discards it: no late    *)
(* event, cancel, failing start or restart rewrites it.                    *)
THEOREM OutcomeIsFinalHolds == Spec => OutcomeIsFinal
<1>1. TypeOK /\ StartInv /\ [Next]_vars =>
        [\A r \in Runs :
           /\ status[r] \in Finished => status'[r] \in {status[r], "discarded"}
           /\ status[r] = "discarded" => status'[r] = "discarded"]_vars
  BY StatusSteps DEF Finished, Active, Stopped
<1>. QED
  BY <1>1, TypeCorrect, StartInvariant, PTL DEF Spec, OutcomeIsFinal

(* While the service is up, whoever is shown a preparing or running run    *)
(* can rely on a start or a pump that will finish it, except where a write *)
(* of that start or pump to the run store has failed: no crash, cancel,    *)
(* shutdown, failing command or race leaves a run to nobody.               *)
THEOREM OwnedOrForsakenHolds == Spec => []OwnedOrForsaken
<1>1. Init => OwnedOrForsaken
  BY ZenonT(60) DEF Init, OwnedOrForsaken, Attended
<1>2. TypeOK /\ StartInv /\ OwnedOrForsaken /\ [Next]_vars => OwnedOrForsaken'
  <2>. SUFFICES ASSUME TypeOK, StartInv, OwnedOrForsaken, [Next]_vars, NEW q \in Runs,
                       phase' = "serving"
                PROVE  Attended(q)' \/ q \in forsaken'
    BY DEF OwnedOrForsaken
  <2>. DEFINE Goal == Attended(q)' \/ q \in forsaken'
  <2>0. /\ status \in [Runs -> RunStatus \cup {"absent"}]
        /\ starter \in [Runs -> StarterPcs] /\ pump \in [Runs -> PumpPcs]
        /\ phase = "serving" => Attended(q) \/ q \in forsaken
    BY DEF TypeOK, OwnedOrForsaken
  <2>1. ASSUME NEW r \in Runs, StartRun(r) PROVE Goal
    BY <2>0, <2>1 DEF Attended, StartRun, Transition, GoStarter, service
  <2>2. ASSUME NEW r \in Runs, StartResumes(r) PROVE Goal
    <3>1. CanTransition(r, "running") <=> status[r] = "preparing"
      BY <2>2, TransitionFacts DEF StartInv, StartOwns, StartResumes, Starting, CanTransition,
         RunStatus
    <3>. QED
      BY <2>0, <2>2, <3>1 DEF Attended, StartResumes, Forsake, Starting, Transition, GoStarter,
         service
  <2>3. ASSUME NEW r \in Runs, StartFails(r) \/ StartCancelled(r) PROVE Goal
    <3>1. /\ CanTransition(r, "failed") <=> status[r] = "preparing"
          /\ CanTransition(r, "interrupted") <=> status[r] = "preparing"
      BY <2>3, TransitionFacts DEF StartInv, StartOwns, StartFails, StartCancelled, Starting,
         CanTransition, RunStatus, Active
    <3>. QED
      BY <2>0, <2>3, <3>1 DEF Attended, StartFails, StartCancelled, StopStarting, Forsake,
         Starting, Transition, GoStarter, service
  <2>4. ASSUME NEW r \in Runs, PumpTerminal(r) PROVE Goal
    <3>1. PICK target \in Targets(r) : Terminalize(r, target)
      BY <2>4 DEF PumpTerminal
    <3>2. target \notin Active
      BY <2>4, <3>1 DEF TypeOK, PumpTerminal, Targets, Active
    <3>3. status' = [status EXCEPT ![r] = IF status[r] \in Active THEN target ELSE status[r]]
      BY <3>1 DEF Terminalize, Transition
    <3>. QED
      BY <2>0, <2>4, <3>2, <3>3 DEF Attended, PumpTerminal, Active, service
  <2>5. ASSUME NEW r \in Runs, PumpStops(r) PROVE Goal
    BY <2>0, <2>5 DEF Attended, PumpStops, Forsake, Terminalize, Transition, Active, service
  <2>6. ASSUME NEW r \in Runs, PumpBreaks(r) PROVE Goal
    BY <2>0, <2>6 DEF Attended, PumpBreaks, rows, service
  <2>12. ASSUME NEW r \in Runs, EvidenceFails(r) PROVE Goal
    BY <2>0, <2>12 DEF Attended, EvidenceFails, Forsake, Starting, GoStarter
  <2>7. ASSUME NEW r \in Runs, StartStep(r), ~StartResumes(r), ~StartFails(r),
               ~StartCancelled(r), ~EvidenceFails(r)
        PROVE  Goal
    <3>1. starter'[r] # "idle" /\ \A p \in Runs \ {r} : starter'[p] = starter[p]
      BY <2>0, <2>7 DEF StartStep, InsertLease, InsertLeaseFails, AddWorktree, AddWorktreeFails, ActivateLease,
         ActivateLeaseFails, RejectWorktree, Spawn, SpawnFails, GoStarter
    <3>2. UNCHANGED <<status, pump, forsaken>> /\ phase = "serving"
      BY <2>7 DEF StartStep, InsertLease, InsertLeaseFails, AddWorktree, AddWorktreeFails, ActivateLease,
         ActivateLeaseFails, RejectWorktree, Spawn, SpawnFails, Starting, rows, service
    <3>. QED
      BY <2>0, <3>1, <3>2 DEF Attended
  <2>8. ASSUME NEW r \in Runs, CancelStep(r) PROVE Goal
    BY <2>0, <2>8 DEF Attended, CancelStep, CancelWithoutHandle, CancelBegins, BackendCancel,
       CancelEnds, Terminalize, Transition, Active, rows, tasks, service
  <2>9. ASSUME NEW t \in Threads, DiscardUpdates(t) PROVE Goal
    BY <2>0, <2>9 DEF Attended, DiscardUpdates, Thread, Transition, service
  <2>10. CASE RecoverRuns
    BY <2>0, <2>10 DEF Attended, RecoverRuns, RecoveredStatus
  <2>11. CASE UNCHANGED <<status, starter, pump, phase, forsaken>>
    BY <2>0, <2>11 DEF Attended
  <2>. QED
    BY <2>1, <2>2, <2>3, <2>4, <2>5, <2>6, <2>7, <2>8, <2>9, <2>10, <2>11, <2>12
    DEF Next, vars, rows, tasks, service, PumpStep, DiscardStep, ProviderEnds, DiscardChecks,
        DiscardFindsLease, DiscardRemoves, DiscardRecords, DiscardReads, Crash, RecoverWorktrees,
        RecoverRunsFails
<1>. QED
  BY <1>1, <1>2, TypeCorrect, StartInvariant, PTL DEF Spec

(* So where the run store accepts what it is given, every active run has   *)
(* its coroutine, whatever else fails.                                     *)
THEOREM AttendedWhereWritesSucceed ==
    "record" \notin Faults =>
        (Spec => [](phase = "serving" => \A r \in Runs : Attended(r)))
<1>. SUFFICES ASSUME "record" \notin Faults
              PROVE  Spec => [](phase = "serving" => \A r \in Runs : Attended(r))
  OBVIOUS
<1>. DEFINE NoneForsaken == forsaken = {}
<1>1. Init => NoneForsaken
  BY DEF Init
<1>2. NoneForsaken /\ [Next]_vars => NoneForsaken'
  BY DEF Next, vars, service, StartRun, StartStep, EvidenceFails, InsertLease, InsertLeaseFails,
     AddWorktree, AddWorktreeFails, ActivateLease, ActivateLeaseFails, RejectWorktree, Spawn,
     SpawnFails, StartResumes, StartFails, StartCancelled, StopStarting, Forsake, ProviderEnds,
     PumpStep, PumpTerminal, PumpBreaks, PumpStops, CancelStep, CancelWithoutHandle, CancelBegins,
     BackendCancel, CancelEnds, DiscardStep, DiscardChecks, DiscardFindsLease, DiscardRemoves,
     DiscardRecords, DiscardReads, DiscardUpdates, Crash, RecoverWorktrees, RecoverRuns,
     RecoverRunsFails
<1>3. NoneForsaken /\ OwnedOrForsaken => (phase = "serving" => \A r \in Runs : Attended(r))
  BY DEF OwnedOrForsaken
<1>. QED
  BY <1>1, <1>2, <1>3, OwnedOrForsakenHolds, PTL DEF Spec

-----------------------------------------------------------------------------
(* The hypothesis of QuietHolds: terminate_process_tree confirms.  Where   *)
(* it does not, a process may outlive the report of its run.               *)
Confirmed == "unconfirmed" \notin Faults

(* A stop that is confirmed leaves no process behind. *)
LEMMA KillStops ==
    ASSUME TypeOK, Confirmed, NEW r \in Runs, Kill(r)
    PROVE  /\ provider'[r] # "alive"
           /\ \A q \in Runs \ {r} : provider'[q] = provider[q] /\ terminal'[q] = terminal[q]
  BY DEF TypeOK, Confirmed, Kill

\* Every step keeps what is known of providers.
LEMMA ProviderInvKept ==
    TypeOK /\ StartInv /\ ProviderInv /\ Confirmed /\ [Next]_vars => ProviderInv'
<1>. SUFFICES ASSUME TypeOK, StartInv, ProviderInv, Confirmed, [Next]_vars, NEW q \in Runs
              PROVE  ProviderKnown(q)'
  BY DEF ProviderInv
<1>0. /\ ProviderKnown(q) /\ StartOwns(q) /\ Untouched(q)
      /\ starter \in [Runs -> StarterPcs] /\ canceller \in [Runs -> {"idle", "stopping", "stopped"}]
      /\ provider \in [Runs -> {"none", "alive", "ended"}]
      /\ terminal \in [Runs -> {"none", "completed", "failed", "cancelled", "closed"}]
  BY DEF ProviderInv, StartInv, TypeOK
<1>1. ASSUME NEW r \in Runs, StartRun(r) PROVE ProviderKnown(q)'
  BY <1>0, <1>1 DEF StartRun, GoStarter, external, ProviderKnown, Untouched
<1>2. ASSUME NEW r \in Runs, Spawn(r) PROVE ProviderKnown(q)'
  BY <1>0, <1>2 DEF Spawn, Starting, GoStarter, ProviderKnown, StartOwns
<1>3. ASSUME NEW r \in Runs, StartCancelled(r) PROVE ProviderKnown(q)'
  BY <1>0, <1>3 DEF StartCancelled, StopStarting, Starting, GoStarter, ProviderKnown
<1>4. ASSUME NEW r \in Runs, StartStep(r), ~Spawn(r), ~StartCancelled(r)
      PROVE  ProviderKnown(q)'
  <2>1. /\ UNCHANGED <<external, canceller>>
        /\ starter[r] \in {"inserted", "leased", "added", "backend"} \/ starter'[r] = "idle"
        /\ \A p \in Runs \ {r} : starter'[p] = starter[p]
    BY <1>0, <1>4 DEF StartStep, EvidenceFails, InsertLease, InsertLeaseFails, AddWorktree,
       AddWorktreeFails, ActivateLease, ActivateLeaseFails, RejectWorktree, SpawnFails,
       StartResumes, StartFails, StopStarting, Starting, GoStarter
  <2>. QED
    BY <1>0, <2>1 DEF ProviderKnown, external
<1>5. ASSUME NEW r \in Runs, ProviderEnds(r) PROVE ProviderKnown(q)'
  BY <1>0, <1>5 DEF ProviderEnds, tasks, ProviderKnown
<1>6. ASSUME NEW r \in Runs, PumpTerminal(r) PROVE ProviderKnown(q)'
  BY <1>0, <1>6 DEF PumpTerminal, ProviderKnown
<1>7. ASSUME NEW r \in Runs, PumpStops(r) \/ BackendCancel(r) PROVE ProviderKnown(q)'
  <2>1. /\ starter[r] = "idle" /\ UNCHANGED starter
        /\ \A p \in Runs \ {r} : canceller'[p] = canceller[p]
        /\ canceller'[r] = "stopped" => canceller[r] = "stopped" \/ Kill(r)
        /\ Kill(r) \/ UNCHANGED <<provider, terminal>>
    BY <1>0, <1>7 DEF StartInv, StartOwns, PumpStops, BackendCancel, external
  <2>2. CASE Kill(r)
    BY <1>0, <2>1, <2>2, KillStops DEF ProviderKnown
  <2>3. CASE UNCHANGED <<provider, terminal>> /\ ~Kill(r)
    BY <1>0, <2>1, <2>3 DEF ProviderKnown
  <2>. QED
    BY <2>1, <2>2, <2>3
<1>8. ASSUME NEW r \in Runs, CancelBegins(r) \/ CancelEnds(r) PROVE ProviderKnown(q)'
  BY <1>0, <1>8 DEF CancelBegins, CancelEnds, external, ProviderKnown
<1>9. CASE Crash
  BY <1>0, <1>9 DEF Crash, ProviderKnown
<1>10. CASE UNCHANGED <<starter, canceller, provider, terminal>>
  BY <1>0, <1>10 DEF ProviderKnown
<1>. QED
  BY <1>1, <1>2, <1>3, <1>4, <1>5, <1>6, <1>7, <1>8, <1>9, <1>10
  DEF Next, vars, rows, external, tasks, PumpStep, PumpBreaks, CancelStep, CancelWithoutHandle,
      DiscardStep, DiscardChecks, DiscardFindsLease, DiscardRemoves, DiscardRecords,
      DiscardReads, DiscardUpdates, RecoverWorktrees, RecoverRuns, RecoverRunsFails

\* What is known of providers holds in every state.
LEMMA ProviderInvariant == Confirmed => (Spec => []ProviderInv)
<1>. SUFFICES ASSUME Confirmed PROVE Spec => []ProviderInv
  OBVIOUS
<1>1. Init => ProviderInv
  BY DEF Init, ProviderInv, ProviderKnown
<1>2. TypeOK /\ StartInv /\ ProviderInv /\ [Next]_vars => ProviderInv'
  BY ProviderInvKept
<1>. QED
  BY <1>1, <1>2, TypeCorrect, StartInvariant, PTL DEF Spec

(* The provider of an active run whose start is over can be stopped by a   *)
(* cancel, as long as stopping a process tree is confirmed: what a failing *)
(* write of the run store leaves behind is not out of reach.               *)
LEMMA CanBeStoppedKept ==
    TypeOK /\ StartInv /\ ProviderInv /\ ActiveCanBeStopped /\ Confirmed /\ [Next]_vars
        => ActiveCanBeStopped'
<1>. SUFFICES ASSUME TypeOK, StartInv, ProviderInv, ActiveCanBeStopped, Confirmed, [Next]_vars,
                     NEW q \in Runs, phase' = "serving", status'[q] \in Active,
                     starter'[q] = "idle", provider'[q] = "alive"
              PROVE  handle'[q] /\ session'[q] = "open"
  BY DEF ActiveCanBeStopped
<1>. DEFINE Goal == handle'[q] /\ session'[q] = "open"
<1>0. /\ status \in [Runs -> RunStatus \cup {"absent"}]
      /\ starter \in [Runs -> StarterPcs]
      /\ provider \in [Runs -> {"none", "alive", "ended"}]
      /\ session \in [Runs -> {"none", "open", "terminal"}] /\ handle \in [Runs -> BOOLEAN]
      /\ ProviderKnown(q) /\ StartOwns(q) /\ Untouched(q)
      /\ phase = "serving" /\ status[q] \in Active /\ starter[q] = "idle" /\ provider[q] = "alive"
            => handle[q] /\ session[q] = "open"
  BY DEF TypeOK, ProviderInv, StartInv, ActiveCanBeStopped
<1>1. ASSUME NEW r \in Runs, StartRun(r) PROVE Goal
  BY <1>0, <1>1 DEF StartRun, Transition, GoStarter, external, service, Untouched
<1>2. ASSUME NEW r \in Runs, StartResumes(r) PROVE Goal
  <2>1. CASE r = q
    BY <1>0, <1>2, <2>1 DEF StartResumes, Starting, StartOwns, external
  <2>2. CASE r # q
    <3>1. /\ status'[q] = status[q] /\ starter'[q] = starter[q] /\ handle'[q] = handle[q]
          /\ UNCHANGED external /\ phase = "serving"
      BY <1>0, <1>2, <2>2 DEF StartResumes, Starting, Forsake, Transition, GoStarter
    <3>. QED
      BY <1>0, <3>1 DEF external
  <2>. QED
    BY <2>1, <2>2
<1>3. ASSUME NEW r \in Runs, StartFails(r) \/ EvidenceFails(r) \/ StartCancelled(r) PROVE Goal
  <2>1. CASE r = q
    <3>1. provider'[q] # "alive"
      BY <1>0, <1>3, <2>1 DEF StartFails, EvidenceFails, StartCancelled, Starting, ProviderKnown,
         external
    <3>. QED
      BY <3>1
  <2>2. CASE r # q
    <3>1. /\ status'[q] = status[q] /\ starter'[q] = starter[q] /\ UNCHANGED handle
          /\ provider'[q] = provider[q] /\ session'[q] = session[q] /\ phase = "serving"
      BY <1>0, <1>3, <2>2 DEF StartFails, EvidenceFails, StartCancelled, StopStarting, Starting,
         Forsake, Transition, GoStarter, external
    <3>. QED
      BY <1>0, <3>1
  <2>. QED
    BY <2>1, <2>2
<1>4. ASSUME NEW r \in Runs, StartStep(r), ~StartResumes(r), ~StartFails(r), ~EvidenceFails(r),
             ~StartCancelled(r)
      PROVE  Goal
  <2>1. /\ starter'[r] # "idle" /\ UNCHANGED <<status, handle>> /\ phase = "serving"
        /\ \A p \in Runs \ {r} : /\ starter'[p] = starter[p] /\ provider'[p] = provider[p]
                                 /\ session'[p] = session[p]
    BY <1>0, <1>4 DEF StartStep, InsertLease, InsertLeaseFails, AddWorktree, AddWorktreeFails,
       ActivateLease, ActivateLeaseFails, RejectWorktree, Spawn, SpawnFails, Starting, GoStarter,
       rows, external
  <2>. QED
    BY <1>0, <2>1
<1>5. ASSUME NEW r \in Runs, ProviderEnds(r) PROVE Goal
  BY <1>0, <1>5 DEF ProviderEnds, rows, tasks, service
<1>6. ASSUME NEW r \in Runs, PumpTerminal(r) PROVE Goal
  <2>1. provider[r] # "alive"
    BY <1>6 DEF PumpTerminal, ProviderInv, ProviderKnown
  <2>2. /\ q # r /\ status'[q] = status[q]
        /\ session'[q] = session[q] /\ UNCHANGED <<provider, handle, starter, phase>>
    BY <1>0, <1>6, <2>1 DEF PumpTerminal, Terminalize, Transition, service
  <2>. QED
    BY <1>0, <2>2
<1>7. ASSUME NEW r \in Runs, PumpStops(r) \/ BackendCancel(r) PROVE Goal
  <2>1. /\ UNCHANGED <<handle, starter>> /\ phase = "serving"
        /\ status'[q] = status[q] \/ status'[q] \notin Active
    BY <1>0, <1>7 DEF PumpStops, BackendCancel, Forsake, Terminalize, Transition, rows, Active
  <2>2. CASE session[r] = "open"
    <3>1. Kill(r)
      BY <1>7, <2>2 DEF PumpStops, BackendCancel
    <3>2. session' = [session EXCEPT ![r] = "terminal"]
      BY <1>7, <2>2 DEF PumpStops, BackendCancel
    <3>. QED
      BY <1>0, <2>1, <3>1, <3>2, KillStops
  <2>3. CASE session[r] # "open"
    <3>1. /\ UNCHANGED provider
          /\ session' = [session EXCEPT ![r] = "terminal"] \/ UNCHANGED session
      BY <1>7, <2>3 DEF PumpStops, BackendCancel, external
    <3>. QED
      BY <1>0, <2>1, <2>3, <3>1
  <2>. QED
    BY <2>2, <2>3
<1>8. ASSUME NEW r \in Runs, CancelWithoutHandle(r) \/ CancelEnds(r) PROVE Goal
  BY <1>0, <1>8 DEF CancelWithoutHandle, CancelEnds, Terminalize, Transition, Active, external,
     tasks, service
<1>9. ASSUME NEW t \in Threads, DiscardUpdates(t) PROVE Goal
  BY <1>0, <1>9 DEF DiscardUpdates, Thread, Transition, Active, external
<1>10. CASE RecoverRuns
  BY <1>0, <1>10 DEF RecoverRuns, RecoveredStatus, Active
<1>11. CASE UNCHANGED <<status, starter, provider, session, handle, phase>>
  BY <1>0, <1>11
<1>. QED
  BY <1>1, <1>2, <1>3, <1>4, <1>5, <1>6, <1>7, <1>8, <1>9, <1>10, <1>11
  DEF Next, vars, rows, external, tasks, service, PumpStep, PumpBreaks, CancelStep, CancelBegins,
      DiscardStep, DiscardChecks, DiscardFindsLease, DiscardRemoves, DiscardRecords,
      DiscardReads, Crash, RecoverWorktrees, RecoverRunsFails

(* Nobody is left to itself: an active run has its coroutine, or a write   *)
(* of that coroutine failed; and its provider, once start is over, is one  *)
(* that a cancel still stops.                                              *)
THEOREM ActiveIsAttendedHolds == Confirmed => (Spec => []ActiveIsAttended)
<1>. SUFFICES ASSUME Confirmed PROVE Spec => []ActiveIsAttended
  OBVIOUS
<1>1. Init => ActiveCanBeStopped
  BY DEF Init, ActiveCanBeStopped
<1>2. TypeOK /\ StartInv /\ ProviderInv /\ ActiveCanBeStopped /\ [Next]_vars
        => ActiveCanBeStopped'
  BY CanBeStoppedKept
<1>3. OwnedOrForsaken /\ ActiveCanBeStopped => ActiveIsAttended
  BY DEF ActiveIsAttended
<1>. QED
  BY <1>1, <1>2, <1>3, TypeCorrect, StartInvariant, ProviderInvariant, OwnedOrForsakenHolds, PTL
  DEF Spec

(* No run is reported completed, cancelled or ready for review over a      *)
(* provider that still writes, as long as stopping a process tree is       *)
(* confirmed.                                                              *)
THEOREM QuietHolds == Confirmed => (Spec => []QuietWhenReported)
<1>. SUFFICES ASSUME Confirmed PROVE Spec => []QuietWhenReported
  OBVIOUS
<1>1. Init => QuietWhenReported
  BY DEF Init, QuietWhenReported
<1>2. TypeOK /\ StartInv /\ ProviderInv /\ QuietWhenReported /\ [Next]_vars
        => QuietWhenReported'
  <2>. SUFFICES ASSUME TypeOK, StartInv, ProviderInv, QuietWhenReported, [Next]_vars,
                       NEW q \in Runs,
                       status'[q] \in {"review_required", "completed", "cancelled"}
                PROVE  provider'[q] # "alive"
    BY DEF QuietWhenReported
  <2>. DEFINE Goal == provider'[q] # "alive"
  <2>0. /\ status \in [Runs -> RunStatus \cup {"absent"}]
        /\ provider \in [Runs -> {"none", "alive", "ended"}]
        /\ ProviderKnown(q) /\ StartOwns(q)
        /\ status[q] \in {"review_required", "completed", "cancelled"} => provider[q] # "alive"
    BY DEF TypeOK, ProviderInv, StartInv, QuietWhenReported
  <2>1. ASSUME NEW r \in Runs, Spawn(r) PROVE Goal
    BY <2>0, <2>1 DEF Spawn, Starting, StartOwns, rows
  <2>2. ASSUME NEW r \in Runs, StartRun(r) \/ StartResumes(r) \/ StartFails(r) PROVE Goal
    BY <2>0, <2>2 DEF StartRun, StartResumes, StartFails, StopStarting, Forsake, Transition, external
  <2>3. ASSUME NEW r \in Runs, StartCancelled(r) PROVE Goal
    BY <2>0, <2>3 DEF StartCancelled, StopStarting, Forsake, Transition
  <2>4. ASSUME NEW r \in Runs, PumpTerminal(r) PROVE Goal
    <3>1. PICK target \in Targets(r) : Terminalize(r, target)
      BY <2>4 DEF PumpTerminal
    <3>. QED
      BY <2>0, <2>4, <3>1 DEF PumpTerminal, Terminalize, Transition, ProviderKnown
  <2>5. ASSUME NEW r \in Runs, PumpStops(r) \/ BackendCancel(r) PROVE Goal
    <3>1. \/ status'[q] = status[q]
          \/ status'[q] \in {"failed", "interrupted"}
      BY <2>0, <2>5 DEF PumpStops, Forsake, BackendCancel, Terminalize, Transition, rows
    <3>2. Kill(r) \/ UNCHANGED provider
      BY <2>5 DEF PumpStops, BackendCancel, external
    <3>. QED
      BY <2>0, <3>1, <3>2, KillStops
  <2>6. ASSUME NEW r \in Runs, CancelEnds(r) PROVE Goal
    BY <2>0, <2>6 DEF CancelEnds, Terminalize, Transition, external, ProviderKnown
  <2>7. ASSUME NEW r \in Runs, ProviderEnds(r) \/ CancelWithoutHandle(r) PROVE Goal
    BY <2>0, <2>7 DEF ProviderEnds, CancelWithoutHandle, Transition, external, rows
  <2>8. ASSUME NEW t \in Threads, DiscardUpdates(t) PROVE Goal
    BY <2>0, <2>8 DEF DiscardUpdates, Transition, external
  <2>9. CASE RecoverRuns \/ RecoverRunsFails
    BY <2>0, <2>9 DEF RecoverRuns, RecoverRunsFails, external
  <2>10. CASE UNCHANGED <<status, provider>>
    BY <2>0, <2>10
  <2>. QED
    BY <2>1, <2>2, <2>3, <2>4, <2>5, <2>6, <2>7, <2>8, <2>9, <2>10
    DEF Next, vars, rows, external, StartStep, PumpStep, PumpBreaks, CancelStep, CancelBegins,
        EvidenceFails, Forsake, InsertLease, InsertLeaseFails, AddWorktree, AddWorktreeFails,
        ActivateLease, ActivateLeaseFails, RejectWorktree, SpawnFails, DiscardStep, DiscardChecks, DiscardFindsLease,
        DiscardRemoves, DiscardRecords, DiscardReads, Crash, RecoverWorktrees
<1>. QED
  BY <1>1, <1>2, ProviderInvariant, TypeCorrect, StartInvariant, PTL DEF Spec

-----------------------------------------------------------------------------
(* Threads remove and record only what has an active lease: the lease they *)
(* found cannot go back to creating or vanish under them.                  *)
LEMMA RemovesLeasedKept ==
    TypeOK /\ StartInv /\ RemovesLeased /\ [Next]_vars => RemovesLeased'
<1>. SUFFICES ASSUME TypeOK, StartInv, RemovesLeased, [Next]_vars, NEW u \in Threads,
                     discarder'[u].pc \in {"remove", "record"}
              PROVE  /\ lease'[discarder'[u].run] \in {"active", "discarded"}
                     /\ discarder'[u].pc = "record" => ~tree'[discarder'[u].run]
  BY DEF RemovesLeased
<1>. DEFINE Goal == /\ lease'[discarder'[u].run] \in {"active", "discarded"}
                    /\ discarder'[u].pc = "record" => ~tree'[discarder'[u].run]
<1>0. /\ lease \in [Runs -> {"none", "creating", "active", "discarded"}]
      /\ tree \in [Runs -> BOOLEAN]
      /\ discarder \in [Threads -> {NoThread}
                           \cup [pc : DiscardPcs, run : Runs, seen : RunStatus]]
  BY DEF TypeOK
<1>a. discarder[u].pc \in {"remove", "record"} =>
        /\ discarder[u].run \in Runs
        /\ lease[discarder[u].run] \in {"active", "discarded"}
        /\ discarder[u].pc = "record" => ~tree[discarder[u].run]
  BY <1>0, BusyThread DEF RemovesLeased
<1>1. ASSUME NEW r \in Runs, StartStep(r) PROVE Goal
  <2>1. UNCHANGED discarder
    BY <1>1 DEF StartStep, EvidenceFails, InsertLease, InsertLeaseFails, AddWorktree,
       AddWorktreeFails, ActivateLease, ActivateLeaseFails, RejectWorktree, Spawn, SpawnFails,
       StartResumes, StartFails, StartCancelled
  <2>2. lease[r] \in {"none", "creating"} \/ UNCHANGED <<lease, tree>>
    BY <1>1 DEF StartInv, LeaseFollows, StartStep, Starting, EvidenceFails, InsertLease,
       InsertLeaseFails, AddWorktree,
       AddWorktreeFails, ActivateLease, ActivateLeaseFails, RejectWorktree, Spawn, SpawnFails,
       StartResumes, StartFails, StartCancelled, rows
  <2>3. \A p \in Runs \ {r} : lease'[p] = lease[p] /\ tree'[p] = tree[p]
    BY <1>0, <1>1 DEF StartStep, EvidenceFails, InsertLease, InsertLeaseFails, AddWorktree,
       AddWorktreeFails, ActivateLease,
       ActivateLeaseFails, RejectWorktree, Spawn, SpawnFails, StartResumes, StartFails,
       StartCancelled, rows
  <2>. QED
    BY <1>a, <2>1, <2>2, <2>3
<1>2. ASSUME NEW t \in Threads, NEW r \in Runs, DiscardChecks(t, r) PROVE Goal
  BY <1>0, <1>a, <1>2 DEF DiscardChecks, rows
<1>3. ASSUME NEW t \in Threads, DiscardStep(t) PROVE Goal
  <2>. DEFINE r == discarder[t].run
  <2>1. discarder[t] \in [pc : DiscardPcs, run : Runs, seen : RunStatus]
    BY <1>3, BusyThread DEF DiscardStep, DiscardFindsLease, DiscardRemoves, DiscardRecords,
       DiscardReads, DiscardUpdates, Thread
  <2>2. r \in Runs
    BY <2>1
  <2>3. CASE DiscardFindsLease(t)
    BY <1>0, <1>a, <2>1, <2>3 DEF DiscardFindsLease, GoThread, ThreadEnds, NoThread, LeaseValid,
       rows
  <2>4. CASE DiscardRemoves(t)
    <3>1. /\ UNCHANGED lease
          /\ tree' = [tree EXCEPT ![r] = FALSE] \/ UNCHANGED tree
          /\ discarder'[t].pc = "record" => tree' = [tree EXCEPT ![r] = FALSE]
          /\ discarder'[t].pc \in {"remove", "record"} => discarder'[t].run = r
          /\ \A v \in Threads \ {t} : discarder'[v] = discarder[v]
          /\ discarder[t].pc = "remove"
      BY <1>0, <2>1, <2>4 DEF DiscardRemoves, Thread, GoThread, ThreadEnds, NoThread
    <3>. QED
      BY <1>0, <1>a, <2>2, <3>1
  <2>5. CASE DiscardRecords(t)
    <3>1. /\ UNCHANGED tree
          /\ lease' = [lease EXCEPT ![r] = IF lease[r] = "active" THEN "discarded" ELSE lease[r]]
          /\ discarder'[t].pc = "transition"
          /\ \A v \in Threads \ {t} : discarder'[v] = discarder[v]
      BY <1>0, <2>1, <2>5 DEF DiscardRecords, GoThread
    <3>. QED
      BY <1>0, <1>a, <2>2, <3>1
  <2>6. CASE DiscardReads(t) \/ DiscardUpdates(t)
    <3>1. /\ UNCHANGED <<lease, tree>>
          /\ discarder'[t].pc \in {"update", "idle"}
          /\ \A v \in Threads \ {t} : discarder'[v] = discarder[v]
      BY <1>0, <2>1, <2>6 DEF DiscardReads, DiscardUpdates, ThreadEnds, NoThread, rows
    <3>. QED
      BY <1>a, <3>1
  <2>. QED
    BY <1>3, <2>3, <2>4, <2>5, <2>6 DEF DiscardStep
<1>4. CASE Crash
  BY <1>4 DEF Crash, NoThread
<1>5. CASE RecoverWorktrees
  BY <1>0, <1>a, <1>5 DEF RecoverWorktrees, Recoverable, tasks
<1>6. CASE UNCHANGED <<lease, tree, discarder>>
  BY <1>a, <1>6
<1>. QED
  BY <1>1, <1>2, <1>3, <1>4, <1>5, <1>6
  DEF Next, vars, rows, tasks, StartRun, ProviderEnds, PumpStep, PumpTerminal, PumpBreaks,
      PumpStops, CancelStep, CancelWithoutHandle, CancelBegins, BackendCancel, CancelEnds,
      RecoverRuns, RecoverRunsFails

\* What is removed is leased, in every state.
LEMMA RemovesLeasedInvariant == Spec => []RemovesLeased
<1>1. Init => RemovesLeased
  BY DEF Init, RemovesLeased, NoThread
<1>2. TypeOK /\ StartInv /\ RemovesLeased /\ [Next]_vars => RemovesLeased'
  BY RemovesLeasedKept
<1>. QED
  BY <1>1, <1>2, TypeCorrect, StartInvariant, PTL DEF Spec

(* The hypothesis of NoStrandedHolds: Git and the store do not both fail.  *)
(* Where they do, a directory may be left that no lease names.             *)
SingleFault == "git" \notin Faults \/ "store" \notin Faults

(* No crash and no single failing command leaves a worktree directory that *)
(* neither recovery nor discard will find.                                 *)
THEOREM NoStrandedHolds == SingleFault => (Spec => []NoStrandedWorktree)
<1>. SUFFICES ASSUME SingleFault PROVE Spec => []NoStrandedWorktree
  OBVIOUS
<1>1. Init => NoStrandedWorktree
  BY DEF Init, NoStrandedWorktree
<1>2. TypeOK /\ StartInv /\ RemovesLeased /\ NoStrandedWorktree /\ [Next]_vars
        => NoStrandedWorktree'
  <2>. SUFFICES ASSUME TypeOK, StartInv, RemovesLeased, NoStrandedWorktree, [Next]_vars,
                       NEW q \in Runs, tree'[q]
                PROVE  lease'[q] \in {"creating", "active"}
    BY DEF NoStrandedWorktree
  <2>. DEFINE Goal == lease'[q] \in {"creating", "active"}
  <2>0. /\ lease \in [Runs -> {"none", "creating", "active", "discarded"}]
        /\ tree \in [Runs -> BOOLEAN]
        /\ tree[q] => lease[q] \in {"creating", "active"}
        /\ LeaseFollows(q)
    BY DEF TypeOK, NoStrandedWorktree, StartInv
  <2>1. ASSUME NEW r \in Runs, InsertLease(r) PROVE Goal
    BY <2>0, <2>1 DEF InsertLease
  <2>2. ASSUME NEW r \in Runs, AddWorktree(r) PROVE Goal
    BY <2>0, <2>2 DEF AddWorktree, Starting, LeaseFollows
  <2>3. ASSUME NEW r \in Runs, AddWorktreeFails(r) PROVE Goal
    BY <2>0, <2>3 DEF AddWorktreeFails, Starting, LeaseFollows
  <2>4. ASSUME NEW r \in Runs, ActivateLease(r) PROVE Goal
    BY <2>0, <2>4 DEF ActivateLease
  <2>5. ASSUME NEW r \in Runs, ActivateLeaseFails(r) PROVE Goal
    BY <2>0, <2>5 DEF ActivateLeaseFails, SingleFault
  <2>6. ASSUME NEW r \in Runs, RejectWorktree(r) PROVE Goal
    BY <2>0, <2>6 DEF RejectWorktree, Starting, LeaseFollows
  <2>7. ASSUME NEW t \in Threads, DiscardRemoves(t) PROVE Goal
    <3>1. discarder[t].run \in Runs
      BY <2>7, BusyThread DEF DiscardRemoves, Thread
    <3>. QED
      BY <2>0, <2>7, <3>1 DEF DiscardRemoves
  <2>8. ASSUME NEW t \in Threads, DiscardRecords(t) PROVE Goal
    <3>1. discarder[t].run \in Runs /\ ~tree[discarder[t].run]
      BY <2>8, BusyThread DEF DiscardRecords, Thread, RemovesLeased
    <3>. QED
      BY <2>0, <2>8, <3>1 DEF DiscardRecords
  <2>9. CASE RecoverWorktrees
    BY <2>0, <2>9 DEF RecoverWorktrees
  <2>10. CASE UNCHANGED <<lease, tree>>
    BY <2>0, <2>10
  <2>. QED
    BY <2>1, <2>2, <2>3, <2>4, <2>5, <2>6, <2>7, <2>8, <2>9, <2>10
    DEF Next, vars, rows, StartRun, StartStep, EvidenceFails, InsertLeaseFails, Spawn, SpawnFails,
        StartResumes, StartFails,
        StartCancelled, ProviderEnds, PumpStep, PumpTerminal, PumpBreaks, PumpStops, CancelStep,
        CancelWithoutHandle, CancelBegins, BackendCancel, CancelEnds, DiscardStep,
        DiscardChecks, DiscardFindsLease, DiscardReads, DiscardUpdates, Crash, RecoverRuns,
        RecoverRunsFails
<1>. QED
  BY <1>1, <1>2, TypeCorrect, StartInvariant, RemovesLeasedInvariant, PTL DEF Spec

-----------------------------------------------------------------------------
(* What a step may do to the worktree of a run to review.                  *)
Discarding(r) ==
    \E t \in Threads : discarder[t].pc \in {"remove", "record"} /\ discarder[t].run = r
KeepsReview(r) ==
    status'[r] = "review_required" /\ (status[r] = "review_required" => LeaseValid(r))
        => LeaseValid(r)' \/ Discarding(r)

(* A run comes to review over a valid worktree, and only a thread that     *)
(* removes or records takes it away.                                       *)
LEMMA ReviewKept ==
    ASSUME TypeOK, StartInv, [Next]_vars, NEW q \in Runs
    PROVE  KeepsReview(q)
<1>. SUFFICES ASSUME status'[q] = "review_required",
                     status[q] = "review_required" => LeaseValid(q)
              PROVE  LeaseValid(q)' \/ Discarding(q)
  BY DEF KeepsReview
<1>. DEFINE Goal == LeaseValid(q)' \/ Discarding(q)
<1>0. /\ status \in [Runs -> RunStatus \cup {"absent"}]
      /\ lease \in [Runs -> {"none", "creating", "active", "discarded"}]
      /\ tree \in [Runs -> BOOLEAN] /\ StartOwns(q)
  BY DEF TypeOK, StartInv
<1>1. ASSUME NEW r \in Runs, PumpTerminal(r) PROVE Goal
  <2>1. PICK target \in Targets(r) : Terminalize(r, target)
    BY <1>1 DEF PumpTerminal
  <2>2. target = "review_required" => LeaseValid(r)
    BY <1>1, <2>1 DEF TypeOK, PumpTerminal, Targets
  <2>3. status' = [status EXCEPT ![r] = IF status[r] \in Active THEN target ELSE status[r]]
        /\ UNCHANGED <<lease, tree>>
    BY <1>1, <2>1 DEF Terminalize, Transition, PumpTerminal
  <2>4. LeaseValid(q)
    BY <1>0, <2>2, <2>3 DEF Active
  <2>. QED
    BY <2>3, <2>4 DEF LeaseValid
<1>2. ASSUME NEW r \in Runs, StartStep(r) PROVE Goal
  <2>1. CASE r # q
    <3>1. status'[q] = status[q] /\ lease'[q] = lease[q] /\ tree'[q] = tree[q]
      BY <1>0, <1>2, <2>1 DEF StartStep, EvidenceFails, InsertLease, InsertLeaseFails,
         AddWorktree, AddWorktreeFails, ActivateLease, ActivateLeaseFails, RejectWorktree, Spawn,
         SpawnFails, StartResumes, StartFails, StartCancelled, StopStarting, Forsake, Transition,
         rows
    <3>. QED
      BY <3>1 DEF LeaseValid
  <2>2. CASE r = q
    <3>1. status[q] # "review_required"
      BY <1>0, <1>2, <2>2 DEF StartOwns, StartStep, Starting, EvidenceFails, InsertLease,
         InsertLeaseFails, AddWorktree, AddWorktreeFails, ActivateLease, ActivateLeaseFails,
         RejectWorktree, Spawn, SpawnFails, StartResumes, StartFails, StartCancelled
    <3>2. status'[q] # "review_required"
      BY <1>0, <1>2, <2>2, <3>1 DEF StartStep, EvidenceFails, InsertLease, InsertLeaseFails,
         AddWorktree, AddWorktreeFails, ActivateLease, ActivateLeaseFails, RejectWorktree, Spawn,
         SpawnFails, StartResumes, StartFails, StartCancelled, StopStarting, Forsake, Transition,
         rows
    <3>. QED
      BY <3>2
  <2>. QED
    BY <2>1, <2>2
<1>3. ASSUME NEW r \in Runs,
             StartRun(r) \/ PumpStops(r) \/ CancelWithoutHandle(r) \/ CancelEnds(r)
      PROVE  Goal
  <2>1. (status[q] = "review_required" <=> status'[q] = "review_required")
        /\ UNCHANGED <<lease, tree>>
    BY <1>0, <1>3 DEF StartRun, PumpStops, Forsake, CancelWithoutHandle, CancelEnds, Terminalize,
       Transition
  <2>. QED
    BY <2>1 DEF LeaseValid
<1>4. ASSUME NEW t \in Threads, DiscardRemoves(t) \/ DiscardRecords(t) PROVE Goal
  <2>1. discarder[t].pc \in {"remove", "record"} /\ UNCHANGED status
    BY <1>4 DEF DiscardRemoves, DiscardRecords, Thread
  <2>2. CASE discarder[t].run = q
    BY <2>1, <2>2 DEF Discarding
  <2>3. CASE discarder[t].run # q
    <3>1. lease'[q] = lease[q] /\ tree'[q] = tree[q]
      BY <1>0, <1>4, <2>3 DEF DiscardRemoves, DiscardRecords
    <3>. QED
      BY <2>1, <3>1 DEF LeaseValid
  <2>. QED
    BY <2>2, <2>3
<1>5. ASSUME NEW t \in Threads, DiscardUpdates(t) PROVE Goal
  <2>1. (status'[q] = "review_required" => status[q] = "review_required")
        /\ UNCHANGED <<lease, tree>>
    BY <1>0, <1>5 DEF DiscardUpdates, Transition
  <2>. QED
    BY <2>1 DEF LeaseValid
<1>6. CASE RecoverWorktrees
  BY <1>0, <1>6 DEF RecoverWorktrees, Recoverable, LeaseValid
<1>7. CASE RecoverRuns \/ RecoverRunsFails
  BY <1>0, <1>7 DEF RecoverRuns, RecoverRunsFails, LeaseValid
<1>8. CASE UNCHANGED rows
  BY <1>8 DEF rows, LeaseValid
<1>. QED
  BY <1>1, <1>2, <1>3, <1>4, <1>5, <1>6, <1>7, <1>8
  DEF Next, vars, rows, ProviderEnds, PumpStep, PumpBreaks, CancelStep, CancelBegins,
      BackendCancel, DiscardStep, DiscardChecks, DiscardFindsLease, DiscardReads, Crash

(* Nothing but a discard takes the worktree from under a run that waits    *)
(* for its review: no crash, recovery, failing command or late event.      *)
THEOREM ReviewLostOnlyToDiscard == Spec => [][\A r \in Runs : KeepsReview(r)]_vars
<1>1. TypeOK /\ StartInv /\ [Next]_vars => [\A r \in Runs : KeepsReview(r)]_vars
  BY ReviewKept
<1>. QED
  BY <1>1, TypeCorrect, StartInvariant, PTL DEF Spec

(* So where nobody discards, a run to review always has its worktree: the  *)
(* safety part of RunsEndReviewable on the instances of run_progress.      *)
THEOREM ReviewKeepsWorktreeHolds == Threads = {} => (Spec => []ReviewKeepsWorktree)
<1>. SUFFICES ASSUME Threads = {} PROVE Spec => []ReviewKeepsWorktree
  OBVIOUS
<1>1. Init => ReviewKeepsWorktree
  BY DEF Init, ReviewKeepsWorktree
<1>2. TypeOK /\ StartInv /\ ReviewKeepsWorktree /\ [Next]_vars => ReviewKeepsWorktree'
  <2>. SUFFICES ASSUME TypeOK, StartInv, ReviewKeepsWorktree, [Next]_vars, NEW q \in Runs,
                       status'[q] = "review_required"
                PROVE  LeaseValid(q)'
    BY DEF ReviewKeepsWorktree
  <2>1. KeepsReview(q)
    BY ReviewKept
  <2>2. status[q] = "review_required" => LeaseValid(q)
    BY DEF ReviewKeepsWorktree
  <2>3. ~Discarding(q)
    BY DEF Discarding
  <2>. QED
    BY <2>1, <2>2, <2>3 DEF KeepsReview
<1>. QED
  BY <1>1, <1>2, TypeCorrect, StartInvariant, PTL DEF Spec
=============================================================================
