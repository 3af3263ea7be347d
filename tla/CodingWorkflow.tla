---------------------------- MODULE CodingWorkflow ----------------------------
(* workflow.py, sandbox.py, snapshot.py, verification.py: a prompt becomes a *)
(* candidate, each candidate is checked by a plan of commands in a fresh     *)
(* copy of the project inside a container of its own, a failed check asks    *)
(* for a repair, and the candidate that passed is packaged as a bundle.      *)
(* External: the model, the container engine, which answers in its own time  *)
(* and may carry out what its client has given up, and who cancels the task. *)
(* What raises inside execute() either is one of the errors it turns into    *)
(* run.blocked or, as a cancellation is, leaves it without a closing event.  *)
EXTENDS Integers, Sequences, FiniteSets

CONSTANTS
    MaxRepairs,    \* budget.max_repair_attempts
    PlanLength     \* commands of a verification plan; the first is required, the last suggested

ASSUME WorkflowBounds == MaxRepairs \in Nat /\ PlanLength \in Nat \ {0}

VARIABLES
    backend,      \* "docker" or "podman"
    wpc,          \* where execute() is
    attempts,     \* repairs so far
    results,      \* of the commands of this attempt, in order
    trace,        \* run_events of the run: sequence of event types
    handle,       \* sandbox.container is set
    creating,     \* the engine's answer to the creation: "no", "asked", "made"
    containers,   \* containers that exist, by the attempt they were made for
    after,        \* what follows closing the sandbox
    root,         \* run_root exists
    packaged,     \* bundles: set of [attempt, results]
    verified,     \* ghost: attempt and results of the last completed verification
    left          \* ghost: attempts whose container was left to the engine: its removal
                  \* failed, or its creation was given up before it was made

wfVars == <<backend, wpc, attempts, results, trace, handle, creating, containers, after, root,
            packaged, verified, left>>
boxVars == <<handle, creating, containers, left>>

WfInit ==
    /\ backend \in {"docker", "podman"} /\ wpc = "begin" /\ attempts = 0 /\ results = <<>>
    /\ trace = <<>> /\ handle = FALSE /\ creating = "no" /\ containers = {} /\ after = "none"
    /\ root = FALSE /\ packaged = {} /\ verified = [attempt |-> 0, results |-> <<>>]
    /\ left = {}

Emit(e) == trace' = Append(trace, e)
Opening == <<"run.created", "criteria.created", "plan.created">>
Closing == {"run.failed", "run.blocked", "bundle.created"}

(* The finally clause of execute(): the run's directory goes with the run.  *)
Over == wpc' = "over" /\ root' = FALSE
Blocked == Emit("run.blocked") /\ Over

Begin ==
    /\ wpc = "begin" /\ trace' = Opening /\ wpc' = "snapshot"
    /\ UNCHANGED <<backend, attempts, results, boxVars, after, root, packaged, verified>>

(* mkdir of run_root and create_snapshot, which removes what it copied when *)
(* it raises.                                                               *)
Snapshot ==
    /\ wpc = "snapshot"
    /\ \/ root' = TRUE /\ wpc' = "candidate" /\ UNCHANGED trace
       \/ Blocked
    /\ UNCHANGED <<backend, attempts, results, boxVars, after, packaged, verified>>

(* _candidate: the provider's answer must parse; a repair is recorded only  *)
(* when its candidate has arrived.                                          *)
Candidate ==
    /\ wpc = "candidate"
    /\ \/ /\ wpc' = "attempt" /\ UNCHANGED root
          /\ IF attempts = 0 THEN UNCHANGED trace ELSE Emit("repair.created")
       \/ Blocked
    /\ UNCHANGED <<backend, attempts, results, boxVars, after, packaged, verified>>

(* A fresh copy of the source snapshot, the candidate's files over it, and  *)
(* the plan; an unsafe path or a plan over its limit blocks the run.        *)
Attempt ==
    /\ wpc = "attempt"
    /\ \/ wpc' = "start" /\ results' = <<>> /\ UNCHANGED <<trace, root>>
       \/ Blocked /\ UNCHANGED results
    /\ UNCHANGED <<backend, attempts, boxVars, after, packaged, verified>>

-----------------------------------------------------------------------------
(* The sandbox of an attempt.  start() asks the engine and waits; the       *)
(* engine makes the container and then answers, or fails with or without    *)
(* one, and what it left is removed by name.                                *)
CloseThen(next) == wpc' = "close" /\ after' = next

StartSandbox ==
    /\ wpc = "start" /\ creating' = "asked" /\ wpc' = "creating"
    /\ UNCHANGED <<backend, attempts, results, trace, handle, containers, left, after, root,
                   packaged, verified>>

EngineMakes ==
    /\ creating = "asked" /\ creating' = "made"
    /\ containers' = containers \cup {attempts}
    /\ UNCHANGED <<backend, wpc, attempts, results, trace, handle, left, after, root, packaged,
                   verified>>

EngineAnswers ==
    /\ creating = "made" /\ creating' = "no"
    /\ IF wpc = "creating"
       THEN handle' = TRUE /\ wpc' = "stage" /\ Emit("sandbox.staging")
       ELSE UNCHANGED <<handle, wpc, trace>>
    /\ UNCHANGED <<backend, attempts, results, containers, left, after, root, packaged, verified>>

(* _discard_container, _remove: failures are swallowed.                     *)
DiscardContainer ==
    /\ handle' = FALSE
    /\ \/ containers' = containers \ {attempts} /\ UNCHANGED left
       \/ UNCHANGED containers /\ left' = left \cup (containers \cap {attempts})

(* The engine is done with the creation, and whatever it made is removed by *)
(* name.                                                                    *)
CreationRefused == creating' = "no" /\ DiscardContainer

(* The client gives up while the engine goes on: a request to Docker times  *)
(* out or its await is cancelled while a thread still waits for the answer, *)
(* and the client of a remote Podman is killed.  The removal by name finds  *)
(* what is there now; what is made afterwards it does not.                  *)
CreationGivenUp ==
    /\ UNCHANGED creating
    /\ IF creating = "made" THEN DiscardContainer
       ELSE left' = left \cup {attempts} /\ UNCHANGED <<handle, containers>>

\* Mistake: a creation that failed is not cleaned up by name.
CreationFailsUncleaned ==
    /\ wpc = "creating" /\ creating' = "no"
    /\ CloseThen("blocked")
    /\ UNCHANGED <<containers, backend, attempts, results, trace, handle, left, root, packaged,
                   verified>>

CreationFails ==
    /\ wpc = "creating" /\ (CreationRefused \/ CreationGivenUp)
    /\ CloseThen("blocked")
    /\ UNCHANGED <<backend, attempts, results, trace, root, packaged, verified>>

(* stage(): the attempt is read into an archive, which refuses links,       *)
(* other entries, files that change and trees over the limits; then the     *)
(* archive is put into the container.                                       *)
ArchiveSource ==
    /\ wpc = "stage"
    /\ (wpc' = "put" /\ UNCHANGED after) \/ CloseThen("blocked")
    /\ UNCHANGED <<backend, attempts, results, trace, boxVars, root, packaged, verified>>

PutArchive ==
    /\ wpc = "put" /\ wpc' = "command"
    /\ UNCHANGED <<backend, attempts, results, trace, boxVars, after, root, packaged, verified>>

ArchiveRejected ==
    /\ wpc = "put" /\ CloseThen("blocked")
    /\ IF backend = "podman" THEN DiscardContainer ELSE UNCHANGED <<handle, containers, left>>
    /\ UNCHANGED <<backend, attempts, results, trace, creating, root, packaged, verified>>

(* run(): a command that timed out loses its container, and the next one    *)
(* finds none and blocks the run.  Too much output or an error of the       *)
(* engine loses it too and raises.                                          *)
MoreCommands == wpc = "command" /\ Len(results) < PlanLength

CommandExits ==
    /\ MoreCommands /\ handle
    /\ \E r \in {"ok", "bad"} : results' = Append(results, r)
    /\ UNCHANGED <<backend, wpc, attempts, trace, boxVars, after, root, packaged, verified>>

CommandTimesOut ==
    /\ MoreCommands /\ handle
    /\ results' = Append(results, "timeout") /\ DiscardContainer
    /\ UNCHANGED <<backend, wpc, attempts, trace, creating, after, root, packaged, verified>>

CommandRaises ==
    /\ MoreCommands /\ handle /\ DiscardContainer /\ CloseThen("blocked")
    /\ UNCHANGED <<backend, attempts, results, trace, creating, root, packaged, verified>>

NoContainer ==
    /\ MoreCommands /\ ~handle /\ CloseThen("blocked")
    /\ UNCHANGED <<backend, attempts, results, trace, boxVars, root, packaged, verified>>

PlanDone ==
    /\ wpc = "command" /\ Len(results) = PlanLength /\ CloseThen("decide")
    /\ UNCHANGED <<backend, attempts, results, trace, boxVars, root, packaged, verified>>

CloseSandbox ==
    /\ wpc = "close"
    /\ IF handle THEN DiscardContainer ELSE UNCHANGED <<handle, containers, left>>
    /\ CASE after = "decide" -> wpc' = "decide" /\ UNCHANGED <<trace, root>>
         [] after = "blocked" -> Blocked
         [] OTHER -> Over /\ UNCHANGED trace
    /\ UNCHANGED <<backend, attempts, results, creating, after, packaged, verified>>

(* A cancellation ends the await it meets.  Docker's creation goes on in a  *)
(* thread; Podman's client is killed and waited for first.                  *)
CancelCreation ==
    /\ wpc = "creating" /\ (CreationGivenUp \/ (backend = "podman" /\ CreationRefused))
    /\ CloseThen("cancelled")
    /\ UNCHANGED <<backend, attempts, results, trace, root, packaged, verified>>

CancelCommand ==
    /\ MoreCommands /\ handle /\ DiscardContainer /\ CloseThen("cancelled")
    /\ UNCHANGED <<backend, attempts, results, trace, creating, root, packaged, verified>>

CancelStep ==
    /\ \/ wpc = "candidate" /\ Over /\ UNCHANGED after
       \/ wpc \in {"stage", "put"} /\ CloseThen("cancelled") /\ UNCHANGED root
    /\ UNCHANGED <<backend, attempts, results, trace, boxVars, packaged, verified>>

-----------------------------------------------------------------------------

(* Every command of the plan must have exited 0, the suggested ones too.    *)
Passed(rs) == \A k \in DOMAIN rs : rs[k] = "ok"

Exhausted == attempts >= MaxRepairs

Decide ==
    /\ wpc = "decide"
    /\ verified' = [attempt |-> attempts, results |-> results]
    /\ IF Passed(results)
       THEN wpc' = "package" /\ Emit("verification.completed") /\ UNCHANGED <<attempts, root>>
       ELSE IF Exhausted
       THEN /\ trace' = trace \o <<"verification.completed", "run.failed">>
            /\ Over /\ UNCHANGED attempts
       ELSE /\ attempts' = attempts + 1 /\ wpc' = "candidate"
            /\ Emit("verification.completed") /\ UNCHANGED root
    /\ UNCHANGED <<backend, results, boxVars, after, packaged>>

(* _read_verified_candidate and delivery.package; the event follows.        *)
Package ==
    /\ wpc = "package"
    /\ \/ /\ packaged' = packaged \cup {[attempt |-> attempts, results |-> results]}
          /\ wpc' = "record" /\ UNCHANGED <<trace, root>>
       \/ Blocked /\ UNCHANGED packaged
    /\ UNCHANGED <<backend, attempts, results, boxVars, after, verified>>

RecordBundle ==
    /\ wpc = "record" /\ Emit("bundle.created") /\ Over
    /\ UNCHANGED <<backend, attempts, results, boxVars, after, packaged, verified>>

WfNext ==
    \/ Begin \/ Snapshot \/ Candidate \/ Attempt \/ StartSandbox \/ EngineMakes \/ EngineAnswers
    \/ CreationFails \/ ArchiveSource \/ PutArchive \/ ArchiveRejected \/ CommandExits
    \/ CommandTimesOut \/ CommandRaises \/ NoContainer \/ PlanDone \/ CloseSandbox
    \/ CancelCreation \/ CancelCommand \/ CancelStep \/ Decide \/ Package \/ RecordBundle

WfSpec == WfInit /\ [][WfNext]_wfVars

-----------------------------------------------------------------------------
(* BundleWasVerified: a bundle is made of the candidate of the last attempt  *)
(* whose every command, required or suggested, exited 0 in its own copy; a   *)
(* timeout or a repair in between never lets an older result stand for it.   *)
BundleWasVerified ==
    \A b \in packaged :
        b = verified /\ Len(b.results) = PlanLength /\ \A k \in 1..PlanLength : b.results[k] = "ok"

(* TraceEndsOnce: the trace of a run has at most one closing event, nothing  *)
(* follows it, and it says bundle.created exactly when a bundle was handed   *)
(* out; a run that is over without one was cancelled.                        *)
TraceEndsOnce ==
    /\ \A k \in DOMAIN trace : trace[k] \in Closing => k = Len(trace)
    /\ wpc = "over" => ((\E k \in DOMAIN trace : trace[k] = "bundle.created") <=> packaged # {})
    /\ (trace # <<>> /\ trace[Len(trace)] \in Closing) => wpc = "over" /\ ~root

(* ContainersGone: a container outlives its run only where its removal       *)
(* failed, or the engine made it after its client had given the creation up, *)
(* at a timeout or a cancellation; no other end of a run leaves one behind.  *)
ContainersGone == wpc = "over" => containers \subseteq left

(* RepairsWithinBudget: no more verifications than the budget allows, one at *)
(* a time, each in a container of its own beside those that were left.       *)
RepairsWithinBudget ==
    /\ Cardinality({k \in DOMAIN trace : trace[k] = "verification.completed"}) <= MaxRepairs + 1
    /\ Cardinality(containers \ left) <= 1

(* A build that is repaired, times out or is cancelled packages only what   *)
(* passed, closes its trace once, and forgets no container.                 *)
WorkflowSound == BundleWasVerified /\ TraceEndsOnce /\ ContainersGone /\ RepairsWithinBudget
================================================================================
