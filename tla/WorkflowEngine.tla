--------------------------- MODULE WorkflowEngine ---------------------------
(***************************************************************************)
(* The durable workflow core of CorvusService (corvus/mvp/core.py): work   *)
(* items claimed under fenced leases, effects that may need an approval,   *)
(* the project budget that pays for them, kill switches and recovery.      *)
(*                                                                         *)
(* Every SqliteStore.transaction() is BEGIN IMMEDIATE ... COMMIT, so one   *)
(* transaction is one action.  run_next is a sequence of transactions; its *)
(* position between two of them is the pc of the worker that runs it, and  *)
(* other workers, operators and the clock interleave there.  A call that   *)
(* raises rolls its transaction back and the caller is idle again.         *)
(*                                                                         *)
(* Items are numbers: their order is the order of item_key.  There is one  *)
(* project; projects share nothing but the global kill switch.             *)
(***************************************************************************)
EXTENDS Integers, FiniteSets, Functions

CONSTANTS
    Workflows,          \* workflow ids
    Items,              \* work items of all workflows, numbered in key order
    WorkflowOf,         \* [Items -> Workflows]
    DependsOn,          \* [Items -> SUBSET Items], within one workflow
    CostUnits,          \* [Items -> Nat]
    EffectItems,        \* items whose definition binds an effect
    RequiresApproval,   \* items whose effect needs an approval
    Workers,            \* threads or processes calling the service
    Limits,             \* budget limits an operator may set
    MaxFence,           \* bound: claims per item
    Commands            \* the optional calls and faults of this instance

CommandNames == {"pause", "cancel", "approve", "reject", "decide_any", "kill",
                 "budget", "fail", "retry", "direct", "recover", "crash", "slow"}

ASSUME EngineAssumption ==
    /\ Items \subseteq Nat /\ IsFiniteSet(Items)
    /\ WorkflowOf \in [Items -> Workflows]
    /\ DependsOn \in [Items -> SUBSET Items]
    /\ CostUnits \in [Items -> Nat]
    /\ EffectItems \subseteq Items
    /\ RequiresApproval \subseteq EffectItems    \* approval_requires_effect
    /\ Limits \subseteq Nat
    /\ MaxFence \in Nat
    /\ Commands \subseteq CommandNames

VARIABLES
    workflow,   \* mvp_workflows.status
    item,       \* mvp_work_items.status
    fence,      \* mvp_work_items.lease_fence (attempt_count is the same number)
    lease,      \* mvp_work_items.lease_expires_at against the clock
    attempt,    \* mvp_attempts.status, by item and fence
    artifacts,  \* artifact, checkpoint and lineage rows: <<item, fence>>
    effect,     \* mvp_effects.status
    executions, \* mvp_effects.execution_count
    approval,   \* mvp_approvals.status
    consumed,   \* mvp_approvals.consumed_at IS NOT NULL
    reservation,\* mvp_budget_reservations.status
    budget,     \* mvp_budgets: limit, reserved, settled
    kill,       \* scopes of mvp_kill_switches that are enabled
    work        \* where each worker is in run_next, and the claim it holds

engineVars == <<workflow, item, fence, lease, attempt, artifacts>>
effectVars == <<effect, executions, approval, consumed, reservation, budget>>
vars == <<engineVars, effectVars, kill, work>>

WorkflowStatus == {"absent", "draft", "running", "paused",
                   "succeeded", "cancelled", "failed"}
WorkItemStatus == {"absent", "pending", "ready", "running", "waiting_approval",
                   "succeeded", "failed", "cancelled"}
LeaseStatus == {"none", "live", "expired"}
AttemptStatus == {"none", "running", "interrupted", "waiting_approval",
                  "succeeded", "failed"}
EffectStatus == {"none", "pending_approval", "ready", "approved", "rejected",
                 "executed"}
ApprovalStatus == {"none", "approved", "rejected"}
ReservationStatus == {"none", "reserved", "settled", "released"}

(* The scopes set_kill_switch accepts. *)
KillScopes == {<<"global">>, <<"project">>} \cup {<<"workflow", w>> : w \in Workflows}

Idle == [pc |-> "idle"]
Busy == [pc : {"claimed", "waiting", "executing", "completing", "holding"},
         item : Items, fence : 1..MaxFence]

BudgetAccount == [limit : Nat, reserved : Nat, settled : Nat]

TypeOK ==
    /\ workflow \in [Workflows -> WorkflowStatus]
    /\ item \in [Items -> WorkItemStatus]
    /\ fence \in [Items -> 0..MaxFence]
    /\ lease \in [Items -> LeaseStatus]
    /\ attempt \in [Items -> [1..MaxFence -> AttemptStatus]]
    /\ artifacts \subseteq Items \X (1..MaxFence)
    /\ effect \in [Items -> EffectStatus]
    /\ executions \in [Items -> {0, 1}]
    /\ approval \in [Items -> ApprovalStatus]
    /\ consumed \in [Items -> BOOLEAN]
    /\ reservation \in [Items -> ReservationStatus]
    /\ budget \in BudgetAccount
    /\ kill \subseteq KillScopes
    /\ work \in [Workers -> {Idle} \cup Busy]

Init ==
    /\ workflow = [w \in Workflows |-> "absent"]
    /\ item = [i \in Items |-> "absent"]
    /\ fence = [i \in Items |-> 0]
    /\ lease = [i \in Items |-> "none"]
    /\ attempt = [i \in Items |-> [f \in 1..MaxFence |-> "none"]]
    /\ artifacts = {}
    /\ effect = [i \in Items |-> "none"]
    /\ executions = [i \in Items |-> 0]
    /\ approval = [i \in Items |-> "none"]
    /\ consumed = [i \in Items |-> FALSE]
    /\ reservation = [i \in Items |-> "none"]
    /\ budget = [limit |-> 0, reserved |-> 0, settled |-> 0]
    /\ kill = {}
    /\ work = [k \in Workers |-> Idle]

-----------------------------------------------------------------------------
(* Helpers *)

ItemsOf(w) == {i \in Items : WorkflowOf[i] = w}

DependenciesMet(status, i) == \A d \in DependsOn[i] : status[d] = "succeeded"

(* _refresh_ready_items: pending items of w whose dependencies succeeded. *)
RefreshReadyOnceStarted(status, w) ==
    [i \in Items |->
        IF WorkflowOf[i] = w /\ status[i] = "pending"
           /\ \A d \in DependsOn[i] : status[d] # "pending"
        THEN "ready" ELSE status[i]]
RefreshReady(status, w) ==
    [i \in Items |->
        IF WorkflowOf[i] = w /\ status[i] = "pending" /\ DependenciesMet(status, i)
        THEN "ready" ELSE status[i]]

(* _complete_claim counts the items of w that have not succeeded. *)
NoneUnderWay(status, w) ==
    \A i \in ItemsOf(w) : status[i] \notin {"running", "waiting_approval", "failed"}
AllSucceeded(status, w) == \A i \in ItemsOf(w) : status[i] = "succeeded"

ReadyItems(status, w) == {i \in ItemsOf(w) : status[i] = "ready"}

(* ORDER BY item_key LIMIT 1 *)
FirstByKey(S) == CHOOSE i \in S : \A j \in S : i <= j

(* The scopes _kill_switch_enabled looks at: the project scope is not one. *)
KillSwitchOfWorkflowOnly(w) == <<"workflow", w>> \in kill
KillSwitchEnabled(w) == \E s \in kill : s \in {<<"global">>, <<"workflow", w>>}

(* _require_claim.  The owner column is written with the fence and cleared *)
(* only when the item stops running, so an equal fence has an equal owner. *)
RequireRunning(c) == item[c.item] = "running"
RequireClaim(c) == fence[c.item] = c.fence /\ item[c.item] = "running"

UnsettledUnits == budget.limit - budget.settled
AvailableUnits == budget.limit - budget.reserved - budget.settled

(* CHECK (reserved_units >= 0) of mvp_budgets. *)
ReservedCheck(units) == units \in Nat

(* Open reservations of w, which _release_open_reservations releases. *)
OpenReservations(w) == {i \in ItemsOf(w) : reservation[i] = "reserved"}
ReservedAfterRelease(w) == budget.reserved - SumFunctionOnSet(CostUnits, OpenReservations(w))

ReleaseOpenReservations(w) ==
    /\ ReservedCheck(ReservedAfterRelease(w))
    /\ reservation' = [i \in Items |-> IF i \in OpenReservations(w) THEN "released"
                                       ELSE reservation[i]]
    /\ budget' = [budget EXCEPT !.reserved = ReservedAfterRelease(w)]

(* The call returned or raised: the caller holds no claim any more. *)
Return(k) == work' = [work EXCEPT ![k] = Idle]
Goto(k, pc) == work' = [work EXCEPT ![k].pc = pc]
Raise(k) == Return(k) /\ UNCHANGED <<engineVars, effectVars, kill>>

-----------------------------------------------------------------------------
(* Operators: workflows, budget and kill switches *)

CreateWorkflow(w) ==
    /\ workflow[w] = "absent"
    /\ workflow' = [workflow EXCEPT ![w] = "draft"]
    /\ item' = [i \in Items |-> IF WorkflowOf[i] = w THEN "pending" ELSE item[i]]
    /\ UNCHANGED <<fence, lease, attempt, artifacts, effectVars, kill, work>>

StartWorkflow(w) ==
    /\ workflow[w] \in {"draft", "paused"}
    /\ workflow' = [workflow EXCEPT ![w] = "running"]
    /\ item' = RefreshReady(item, w)
    /\ UNCHANGED <<fence, lease, attempt, artifacts, effectVars, kill, work>>

(* _set_workflow_status has no guard on the current status. *)
PauseWorkflow(w) ==
    /\ "pause" \in Commands
    /\ workflow[w] # "absent"
    /\ workflow' = [workflow EXCEPT ![w] = "paused"]
    /\ UNCHANGED <<item, fence, lease, attempt, artifacts, effectVars, kill, work>>

CancelWorkflow(w) ==
    /\ "cancel" \in Commands
    /\ workflow[w] # "absent"
    /\ ReleaseOpenReservations(w)
    /\ workflow' = [workflow EXCEPT ![w] = "cancelled"]
    /\ LET stopped == {i \in ItemsOf(w) : item[i] \notin {"succeeded", "cancelled"}}
       IN  /\ item' = [i \in Items |-> IF i \in stopped THEN "cancelled" ELSE item[i]]
           /\ lease' = [i \in Items |-> IF i \in stopped THEN "none" ELSE lease[i]]
    /\ UNCHANGED <<fence, attempt, artifacts, effect, executions, approval, consumed,
                   kill, work>>

SetBudget(units) ==
    /\ "budget" \in Commands \/ budget.limit = 0
    /\ budget.reserved + budget.settled <= units
    /\ budget' = [budget EXCEPT !.limit = units]
    /\ UNCHANGED <<engineVars, effect, executions, approval, consumed, reservation,
                   kill, work>>

SetKillSwitch(s, enabled) ==
    /\ "kill" \in Commands
    /\ kill' = IF enabled THEN kill \cup {s} ELSE kill \ {s}
    /\ UNCHANGED <<engineVars, effectVars, work>>

-----------------------------------------------------------------------------
(* Claims *)

(* claim_next.  run_next goes on to "claimed"; a caller that drives the    *)
(* claim itself (heartbeat, fail_claim, complete_claim) is "holding" it.   *)
ClaimNext(w, k) ==
    LET status == RefreshReady(item, w)
        ready  == ReadyItems(status, w)
        i      == FirstByKey(ready)
        f      == fence[i] + 1
    IN  /\ work[k] = Idle
        /\ workflow[w] = "running"
        /\ ~KillSwitchEnabled(w)
        /\ ready # {}
        /\ f <= MaxFence
        /\ item' = [status EXCEPT ![i] = "running"]
        /\ fence' = [fence EXCEPT ![i] = f]
        /\ lease' = [lease EXCEPT ![i] = "live"]
        /\ attempt' = [attempt EXCEPT ![i][f] = "running"]
        /\ \E pc \in {"claimed"}
                     \cup {p \in {"holding"} : Commands \cap {"fail", "direct"} # {}} :
              work' = [work EXCEPT ![k] = [pc |-> pc, item |-> i, fence |-> f]]
        /\ UNCHANGED <<workflow, artifacts, effectVars, kill>>

(* complete_claim, with _complete_claim and its trailing refresh and count. *)
CompleteClaim(k) ==
    LET c    == work[k]
        w    == WorkflowOf[c.item]
        done == RefreshReady([item EXCEPT ![c.item] = "succeeded"], w)
    IN  /\ \/ c.pc = "completing"
           \/ c.pc = "claimed" /\ c.item \notin EffectItems
           \/ c.pc = "holding" /\ (c.item \notin EffectItems \/ "direct" \in Commands)
        /\ RequireClaim(c)
        /\ item' = done
        /\ lease' = [lease EXCEPT ![c.item] = "none"]
        /\ attempt' = [attempt EXCEPT ![c.item][c.fence] = "succeeded"]
        /\ artifacts' = artifacts \cup {<<c.item, c.fence>>}
        /\ workflow' = IF AllSucceeded(done, w)
                       THEN [workflow EXCEPT ![w] = "succeeded"] ELSE workflow
        /\ Return(k)
        /\ UNCHANGED <<fence, effectVars, kill>>

Heartbeat(k) ==
    /\ work[k].pc = "holding"
    /\ RequireClaim(work[k])
    /\ lease' = [lease EXCEPT ![work[k].item] = "live"]
    /\ UNCHANGED <<workflow, item, fence, attempt, artifacts, effectVars, kill, work>>

FailClaim(k) ==
    LET c == work[k]
    IN  /\ "fail" \in Commands
        /\ c.pc = "holding"
        /\ RequireClaim(c)
        /\ item' = [item EXCEPT ![c.item] = "failed"]
        /\ lease' = [lease EXCEPT ![c.item] = "none"]
        /\ attempt' = [attempt EXCEPT ![c.item][c.fence] = "failed"]
        /\ Return(k)
        /\ UNCHANGED <<workflow, fence, artifacts, effectVars, kill>>

RetryWorkItem(i) ==
    /\ "retry" \in Commands
    /\ item[i] = "failed"
    /\ item' = [item EXCEPT ![i] = IF DependenciesMet(item, i) THEN "ready" ELSE "pending"]
    /\ UNCHANGED <<workflow, fence, lease, attempt, artifacts, effectVars, kill, work>>

(* recover_workflow: every running item of w whose lease is past. *)
RecoverWorkflow(w) ==
    LET stale == {i \in ItemsOf(w) : item[i] = "running" /\ lease[i] = "expired"}
    IN  /\ "recover" \in Commands
        /\ workflow[w] # "absent"
        /\ item' = RefreshReady([i \in Items |-> IF i \in stale THEN "ready" ELSE item[i]], w)
        /\ lease' = [i \in Items |-> IF i \in stale THEN "none" ELSE lease[i]]
        /\ attempt' = [i \in Items |-> [f \in 1..MaxFence |->
                          IF i \in stale /\ attempt[i][f] = "running" THEN "interrupted"
                          ELSE attempt[i][f]]]
        /\ UNCHANGED <<workflow, fence, artifacts, effectVars, kill, work>>

-----------------------------------------------------------------------------
(* Effects, approvals and the budget *)

(* _ensure_effect with _reserve_budget; run_next then branches on the      *)
(* approval the returned record carries.                                   *)
EnsureEffect(k) ==
    LET i == work[k].item
    IN  /\ work[k].pc = "claimed"
        /\ i \in EffectItems
        /\ \/ /\ effect[i] # "none"
              /\ UNCHANGED <<effect, reservation, budget>>
           \/ /\ effect[i] = "none"
              /\ CostUnits[i] <= AvailableUnits
              /\ effect' = [effect EXCEPT ![i] =
                               IF i \in RequiresApproval THEN "pending_approval" ELSE "ready"]
              /\ reservation' = [reservation EXCEPT ![i] = "reserved"]
              /\ budget' = [budget EXCEPT !.reserved = @ + CostUnits[i]]
        /\ Goto(k, IF i \in RequiresApproval /\ approval[i] = "none"
                   THEN "waiting" ELSE "executing")
        /\ UNCHANGED <<engineVars, executions, approval, consumed, kill>>

(* _reserve_budget raises BudgetExceeded; the item stays running. *)
EnsureEffectFails(k) ==
    /\ work[k].pc = "claimed"
    /\ work[k].item \in EffectItems
    /\ effect[work[k].item] = "none"
    /\ CostUnits[work[k].item] > AvailableUnits
    /\ Raise(k)

WaitForApproval(k) ==
    LET c == work[k]
    IN  /\ c.pc = "waiting"
        /\ RequireClaim(c)
        /\ item' = [item EXCEPT ![c.item] = "waiting_approval"]
        /\ lease' = [lease EXCEPT ![c.item] = "none"]
        /\ attempt' = [attempt EXCEPT ![c.item][c.fence] = "waiting_approval"]
        /\ Return(k)
        /\ UNCHANGED <<workflow, fence, artifacts, effectVars, kill>>

(* The conditions under which _execute_effect_for_claim does not raise: it *)
(* looks at the effect, its approval and the budget, never at the lease.   *)
CanExecuteOnAnyDecision(i) ==
    /\ effect[i] # "none"
    /\ executions[i] = 0
    /\ i \in RequiresApproval => approval[i] # "none"
    /\ ReservedCheck(budget.reserved - CostUnits[i])
CanExecute(i) ==
    /\ effect[i] # "none"
    /\ executions[i] = 0
    /\ i \in RequiresApproval => approval[i] = "approved"
    /\ ReservedCheck(budget.reserved - CostUnits[i])

(* _settle_budget settles a reserved and a released reservation alike. *)
SettleWithoutRelease(i) == [budget EXCEPT !.settled = @ + CostUnits[i]]
SettleBudget(i) ==
    [budget EXCEPT !.reserved = @ - CostUnits[i], !.settled = @ + CostUnits[i]]

(* _execute_effect_for_claim *)
ExecuteEffect(i) ==
    /\ CanExecute(i)
    /\ effect' = [effect EXCEPT ![i] = "executed"]
    /\ executions' = [executions EXCEPT ![i] = 1]
    /\ consumed' = [consumed EXCEPT ![i] = approval[i] # "none"]
    /\ reservation' = [reservation EXCEPT ![i] = "settled"]
    /\ budget' = SettleBudget(i)
    /\ UNCHANGED <<engineVars, approval, kill>>

ExecuteForClaim(k) ==
    /\ work[k].pc = "executing"
    /\ ExecuteEffect(work[k].item)
    /\ Goto(k, "completing")

ExecuteForClaimFails(k) ==
    /\ work[k].pc = "executing"
    /\ ~CanExecute(work[k].item)
    /\ Raise(k)

(* execute_effect, called outside run_next. *)
ExecuteDirect(i) ==
    /\ "direct" \in Commands
    /\ ExecuteEffect(i)
    /\ UNCHANGED work

(* The web client offers a decision only while the effect is pending; the  *)
(* service itself accepts one for any effect that has no decision yet.     *)
DecisionOffered(i) ==
    /\ effect[i] # "none"
    /\ approval[i] = "none"
    /\ effect[i] = "pending_approval" \/ "decide_any" \in Commands

ApproveOnlyWaiting(i) ==
    /\ "approve" \in Commands
    /\ DecisionOffered(i)
    /\ approval' = [approval EXCEPT ![i] = "approved"]
    /\ effect' = [effect EXCEPT ![i] = "approved"]
    /\ item' = [item EXCEPT ![i] = IF @ = "waiting_approval" THEN "ready" ELSE @]
    /\ UNCHANGED <<workflow, fence, lease, attempt, artifacts, executions, consumed,
                   reservation, budget, kill, work>>
(* The item becomes ready whatever it is doing: a worker between proposing *)
(* the effect and waiting for its approval then finds its claim gone.      *)
ApproveEffect(i) ==
    /\ "approve" \in Commands
    /\ DecisionOffered(i)
    /\ approval' = [approval EXCEPT ![i] = "approved"]
    /\ effect' = [effect EXCEPT ![i] = "approved"]
    /\ item' = [item EXCEPT ![i] = "ready"]
    /\ UNCHANGED <<workflow, fence, lease, attempt, artifacts, executions, consumed,
                   reservation, budget, kill, work>>

RejectEffect(i) ==
    /\ "reject" \in Commands
    /\ DecisionOffered(i)
    /\ ReleaseOpenReservations(WorkflowOf[i])
    /\ approval' = [approval EXCEPT ![i] = "rejected"]
    /\ effect' = [effect EXCEPT ![i] = "rejected"]
    /\ item' = [item EXCEPT ![i] = "failed"]
    /\ workflow' = [workflow EXCEPT ![WorkflowOf[i]] = "failed"]
    /\ UNCHANGED <<fence, lease, attempt, artifacts, executions, consumed, kill, work>>

-----------------------------------------------------------------------------
(* Faults and the clock *)

(* _require_claim raises stale_lease_fence or lease_not_owned. *)
ClaimLost(k) ==
    /\ work[k].pc \in {"claimed", "waiting", "completing", "holding"}
    /\ work[k].pc = "claimed" => work[k].item \notin EffectItems
    /\ ~RequireClaim(work[k])
    /\ Raise(k)

(* The process dies, or the request is dropped, between two transactions. *)
Crash(k) ==
    /\ "crash" \in Commands
    /\ work[k] # Idle
    /\ Raise(k)

HeldBy(k, i) == work[k] # Idle /\ work[k].item = i /\ work[k].fence = fence[i]

(* The clock passes lease_expires_at: of a claim nobody holds any more, or *)
(* of a worker that is merely slow.                                        *)
LeaseExpires(i) ==
    /\ lease[i] = "live"
    /\ "slow" \in Commands \/ ~\E k \in Workers : HeldBy(k, i)
    /\ lease' = [lease EXCEPT ![i] = "expired"]
    /\ UNCHANGED <<workflow, item, fence, attempt, artifacts, effectVars, kill, work>>

-----------------------------------------------------------------------------
WorkerStep(k) ==
    \/ CompleteClaim(k)
    \/ EnsureEffect(k)
    \/ EnsureEffectFails(k)
    \/ WaitForApproval(k)
    \/ ExecuteForClaim(k)
    \/ ExecuteForClaimFails(k)
    \/ ClaimLost(k)

Next ==
    \/ \E w \in Workflows : \/ CreateWorkflow(w)
                            \/ StartWorkflow(w)
                            \/ PauseWorkflow(w)
                            \/ CancelWorkflow(w)
                            \/ RecoverWorkflow(w)
    \/ \E w \in Workflows, k \in Workers : ClaimNext(w, k)
    \/ \E k \in Workers : \/ WorkerStep(k)
                          \/ Heartbeat(k)
                          \/ FailClaim(k)
                          \/ Crash(k)
    \/ \E i \in Items : \/ RetryWorkItem(i)
                        \/ ApproveEffect(i)
                        \/ RejectEffect(i)
                        \/ ExecuteDirect(i)
                        \/ LeaseExpires(i)
    \/ \E units \in Limits : SetBudget(units)
    \/ \E s \in KillScopes, enabled \in BOOLEAN : SetKillSwitch(s, enabled)

Spec == Init /\ [][Next]_vars

(* A client that keeps calling run-next, start and approve, and threads    *)
(* that run to the end of the call they are in.                            *)
Fairness ==
    /\ \A k \in Workers : WF_vars(WorkerStep(k))
    /\ \A w \in Workflows : /\ WF_vars(StartWorkflow(w))
                           /\ WF_vars(RecoverWorkflow(w))
                           /\ WF_vars(\E k \in Workers : ClaimNext(w, k))
    /\ \A i \in Items : WF_vars(ApproveEffect(i)) /\ WF_vars(LeaseExpires(i))

FairSpec == Spec /\ Fairness

-----------------------------------------------------------------------------
(* Properties *)

SumOver(S) == SumFunctionOnSet(CostUnits, S)

(* One attempt wins, and it is the newest: however leases expire, are      *)
(* recovered and reclaimed, an item is completed and leaves its artifact   *)
(* only under its last fence, never under one a recovery took over from.   *)
OneAttemptWins ==
    \A i \in Items : \A f \in 1..MaxFence :
        attempt[i][f] = "succeeded" \/ <<i, f>> \in artifacts => f = fence[i]

(* An effect that needs an approval runs only on an approval, which it     *)
(* consumes; a rejected one never runs, whatever is retried afterwards.    *)
ExecutedOnlyApproved ==
    \A i \in RequiresApproval :
        executions[i] = 1 => approval[i] = "approved" /\ consumed[i]

(* An item is worked on, and its effect proposed or run, only after every  *)
(* item it depends on has succeeded.                                       *)
DependencyOrder ==
    \A i \in Items :
        \/ item[i] \in {"running", "waiting_approval", "succeeded"}
        \/ effect[i] # "none"
        => DependenciesMet(item, i)

(* A succeeded item with an effect has had its effect executed, and a      *)
(* workflow reported as succeeded has no item left to do.                  *)
SuccessIsReal ==
    /\ \A i \in EffectItems : item[i] = "succeeded" => executions[i] = 1
    /\ \A w \in Workflows : workflow[w] = "succeeded" =>
           \A i \in ItemsOf(w) : item[i] = "succeeded"

(* Decisions and executions reach the service only through the web client  *)
(* and run_next.                                                           *)
ServedClients == Commands \cap {"direct", "decide_any"} = {}

(* Nobody cancels a workflow or rejects an effect: the two calls that      *)
(* release open reservations.                                              *)
NoReleases == Commands \cap {"cancel", "reject"} = {}

(* What OneAttemptWins, DependencyOrder and SuccessIsReal rest on. *)
Created(i) == workflow[WorkflowOf[i]] # "absent"
CreatedFirst == \A i \in Items : item[i] # "absent" \/ effect[i] # "none" => Created(i)
EffectsBound == \A i \in Items : effect[i] # "none" => i \in EffectItems
ExecutedMarked == \A i \in Items : executions[i] = 1 => effect[i] = "executed"
ReadyInOrder == \A i \in Items : item[i] = "ready" => DependenciesMet(item, i)
ClaimsSound ==
    \A k \in Workers : work[k].pc # "idle" =>
        /\ Created(work[k].item)
        /\ DependenciesMet(item, work[k].item)
        /\ work[k].pc = "completing" => executions[work[k].item] = 1
WinnersSucceeded ==
    \A i \in Items : \A f \in 1..MaxFence :
        attempt[i][f] = "succeeded" \/ <<i, f>> \in artifacts => item[i] = "succeeded"

(* The inductive invariant of an engine with served clients. *)
EngineInv ==
    /\ CreatedFirst
    /\ EffectsBound
    /\ ExecutedMarked
    /\ ReadyInOrder
    /\ ClaimsSound
    /\ WinnersSucceeded
    /\ OneAttemptWins
    /\ DependencyOrder
    /\ SuccessIsReal

(* What executed effects cost never exceeds the budget limit, even when    *)
(* reservations are released under effects that still run.                 *)
SpendWithinLimit ==
    SumOver({i \in Items : executions[i] = 1}) <= budget.limit

(* The reserved column is exactly the open reservations.                   *)
BudgetConserved ==
    /\ budget.reserved = SumOver({i \in Items : reservation[i] = "reserved"})
    /\ budget.settled = SumOver({i \in Items : reservation[i] = "settled"})

(* With releases under running effects the reserved column only ever falls *)
(* below the open reservations: units are never reserved without a holder. *)
NoPhantomReservation ==
    /\ budget.reserved <= SumOver({i \in Items : reservation[i] = "reserved"})
    /\ budget.settled = SumOver({i \in Items : executions[i] = 1})

(* The budget that two workflows share is never overspent, and no unit is  *)
(* lost to a reservation nobody holds, although releases, rejections and   *)
(* executions cross (_reserve_budget, _settle_budget).                     *)
BudgetSafe == SpendWithinLimit /\ NoPhantomReservation

(* Restart recovery: a worker that reclaimed an item after a crash, and    *)
(* still holds the claim, can run the effect it is about to run.           *)
RecoveredClaimCanFinish ==
    \A k \in Workers : work[k] # Idle /\ work[k].pc = "executing" /\ RequireClaim(work[k])
        => executions[work[k].item] = 0

(* A cancelled workflow stays cancelled: start accepts only a draft or a   *)
(* paused workflow.                                                        *)
CancelledIsFinal ==
    [][\A w \in Workflows : workflow[w] = "cancelled" => workflow'[w] = "cancelled"]_vars

(* While the global switch or the switch of a workflow is on, nothing of   *)
(* that workflow is claimed, through whichever path it became ready.       *)
KillSwitchHolds ==
    [][\A i \in Items :
         <<"global">> \in kill \/ <<"workflow", WorkflowOf[i]>> \in kill
            => fence'[i] = fence[i]]_vars

(* While the switch of the project is on, nothing of the project is        *)
(* claimed: "project" is one of the scopes set_kill_switch accepts.        *)
ProjectKillSwitchHolds ==
    [][(<<"project">> \in kill) => UNCHANGED fence]_vars

(* A workflow that was started and that nobody stops succeeds.             *)
StartedSucceeds ==
    \A w \in Workflows : workflow[w] = "running" ~> workflow[w] = "succeeded"
=============================================================================
