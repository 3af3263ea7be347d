------------------------ MODULE WorkflowEngineProofs ------------------------
(* Theorems about work that needs leave: WorkflowEngine, for every set of  *)
(* workflows, items, workers, limits and commands that satisfies           *)
(* EngineAssumption, and AgentRuntime, for any requests and proofs and     *)
(* finitely many tools.                                                    *)
EXTENDS WorkflowEngine, AgentRuntime, FiniteSetTheorems, SequenceTheorems, WellFoundedInduction, TLAPS

(* Every set of naturals has a least member. *)
LEMMA LeastNat ==
    ASSUME NEW N \in SUBSET Nat, N # {}
    PROVE  \E m \in N : \A n \in N : m <= n
<1>. DEFINE R == {ss \in Nat \X Nat : ss[1] < ss[2]}
<1>1. IsWellFoundedOn(R, Nat)
  BY NatLessThanWellFounded DEF OpToRel
<1>. HIDE DEF R
<1>2. PICK m \in N : \A n \in N : <<n, m>> \notin R
  BY <1>1, WFMin
<1>3. ASSUME NEW n \in N PROVE m <= n
  <2>1. m \in Nat /\ n \in Nat
    BY <1>2
  <2>2. n < m => <<n, m>> \in R
    BY <2>1 DEF R
  <2>. QED
    BY <1>2, <2>1, <2>2
<1>. QED
  BY <1>2, <1>3

(* A set of items has a first one in key order: ORDER BY item_key LIMIT 1  *)
(* of claim_next returns one of the ready items.                           *)
LEMMA FirstByKeyType ==
    ASSUME NEW S \in SUBSET Items, S # {}
    PROVE  FirstByKey(S) \in S
<1>1. PICK m \in S : \A j \in S : m <= j
  BY LeastNat, EngineAssumption
<1>. QED
  BY <1>1 DEF FirstByKey

(* A worker whose pc is not idle holds a claim. *)
LEMMA BusyWorker ==
    ASSUME TypeOK, NEW k \in Workers, work[k].pc # "idle"
    PROVE  work[k] \in Busy
  BY DEF TypeOK, Idle

(* Refreshing keeps the type of the item statuses and changes nothing but  *)
(* pending items whose dependencies have succeeded.                        *)
LEMMA RefreshReadyType ==
    ASSUME NEW status \in [Items -> WorkItemStatus], NEW w
    PROVE  /\ RefreshReady(status, w) \in [Items -> WorkItemStatus]
           /\ \A i \in Items :
                \/ RefreshReady(status, w)[i] = status[i]
                \/ /\ status[i] = "pending"
                   /\ DependenciesMet(status, i)
                   /\ RefreshReady(status, w)[i] = "ready"
  BY DEF RefreshReady, WorkItemStatus

-----------------------------------------------------------------------------
(* Every transaction keeps the tables of core.py well typed: in particular *)
(* reserved_units never becomes negative and no effect runs twice.         *)
THEOREM TypeCorrect == Spec => []TypeOK
<1>1. Init => TypeOK
  <2>. SUFFICES ASSUME Init PROVE TypeOK
    OBVIOUS
  <2>. QED
    BY EngineAssumption DEF Init, TypeOK, WorkflowStatus, WorkItemStatus, LeaseStatus,
       AttemptStatus, EffectStatus, ApprovalStatus, ReservationStatus, BudgetAccount, Idle
<1>2. TypeOK /\ [Next]_vars => TypeOK'
  <2>. SUFFICES ASSUME TypeOK, [Next]_vars PROVE TypeOK'
    OBVIOUS
  <2>. USE EngineAssumption
  <2>1. ASSUME NEW w \in Workflows, CreateWorkflow(w) PROVE TypeOK'
    BY <2>1 DEF TypeOK, CreateWorkflow, effectVars, WorkflowStatus, WorkItemStatus
  <2>2. ASSUME NEW w \in Workflows, StartWorkflow(w) PROVE TypeOK'
    BY <2>2, RefreshReadyType DEF TypeOK, StartWorkflow, effectVars, WorkflowStatus
  <2>3. ASSUME NEW w \in Workflows, PauseWorkflow(w) PROVE TypeOK'
    BY <2>3 DEF TypeOK, PauseWorkflow, effectVars, WorkflowStatus
  <2>4. ASSUME NEW w \in Workflows, CancelWorkflow(w) PROVE TypeOK'
    BY <2>4 DEF TypeOK, CancelWorkflow, ReleaseOpenReservations, ReservedCheck,
       WorkflowStatus, WorkItemStatus, LeaseStatus, ReservationStatus, BudgetAccount
  <2>5. ASSUME NEW w \in Workflows, RecoverWorkflow(w) PROVE TypeOK'
    <3>. DEFINE stale == {i \in ItemsOf(w) : item[i] = "running" /\ lease[i] = "expired"}
                status == [i \in Items |-> IF i \in stale THEN "ready" ELSE item[i]]
    <3>1. status \in [Items -> WorkItemStatus]
      BY DEF TypeOK, WorkItemStatus
    <3>2. item' \in [Items -> WorkItemStatus]
      BY <2>5, <3>1, RefreshReadyType DEF RecoverWorkflow
    <3>3. attempt' \in [Items -> [1..MaxFence -> AttemptStatus]]
      BY <2>5 DEF TypeOK, RecoverWorkflow, AttemptStatus
    <3>4. lease' \in [Items -> LeaseStatus]
      BY <2>5 DEF TypeOK, RecoverWorkflow, LeaseStatus
    <3>. QED
      BY <2>5, <3>2, <3>3, <3>4 DEF TypeOK, RecoverWorkflow, effectVars
  <2>6. ASSUME NEW w \in Workflows, NEW k \in Workers, ClaimNext(w, k) PROVE TypeOK'
    <3>. DEFINE status == RefreshReady(item, w)
                ready == ReadyItems(status, w)
                i == FirstByKey(ready)
                f == fence[i] + 1
    <3>1. status \in [Items -> WorkItemStatus]
      BY RefreshReadyType DEF TypeOK
    <3>2. i \in Items
      <4>1. ready \in SUBSET Items /\ ready # {}
        BY <2>6 DEF ClaimNext, ReadyItems, ItemsOf
      <4>. QED
        BY <4>1, FirstByKeyType
    <3>a. f <= MaxFence
      BY <2>6 DEF ClaimNext
    <3>. HIDE DEF status, ready, i
    <3>b. fence[i] \in 0..MaxFence
      BY <3>2 DEF TypeOK
    <3>3. f \in 1..MaxFence
      BY <3>a, <3>b
    <3>. HIDE DEF f
    <3>4. /\ item' = [status EXCEPT ![i] = "running"]
          /\ fence' = [fence EXCEPT ![i] = f]
          /\ lease' = [lease EXCEPT ![i] = "live"]
          /\ attempt' = [attempt EXCEPT ![i][f] = "running"]
          /\ \E pc \in {"claimed", "holding"} :
                work' = [work EXCEPT ![k] = [pc |-> pc, item |-> i, fence |-> f]]
          /\ UNCHANGED <<workflow, artifacts, effectVars, kill>>
      BY <2>6 DEF ClaimNext, status, ready, i, f
    <3>5. work' \in [Workers -> {Idle} \cup Busy]
      BY <3>2, <3>3, <3>4 DEF TypeOK, Busy
    <3>. QED
      BY <3>1, <3>2, <3>3, <3>4, <3>5, SMTT(30) DEF TypeOK, effectVars, WorkItemStatus, LeaseStatus,
         AttemptStatus
  <2>7. ASSUME NEW k \in Workers, CompleteClaim(k) PROVE TypeOK'
    <3>1. work[k] \in Busy
      BY <2>7, BusyWorker DEF CompleteClaim
    <3>a. [item EXCEPT ![work[k].item] = "succeeded"] \in [Items -> WorkItemStatus]
      BY <3>1 DEF TypeOK, Busy, WorkItemStatus
    <3>b. item' = RefreshReady([item EXCEPT ![work[k].item] = "succeeded"],
                               WorkflowOf[work[k].item])
      BY <2>7 DEF CompleteClaim
    <3>2. item' \in [Items -> WorkItemStatus]
      BY <3>a, <3>b, RefreshReadyType
    <3>3. workflow' \in [Workflows -> WorkflowStatus]
      BY <2>7, <3>1 DEF TypeOK, CompleteClaim, WorkflowStatus
    <3>4. /\ lease' = [lease EXCEPT ![work[k].item] = "none"]
          /\ attempt' = [attempt EXCEPT ![work[k].item][work[k].fence] = "succeeded"]
          /\ artifacts' = artifacts \cup {<<work[k].item, work[k].fence>>}
          /\ work' = [work EXCEPT ![k] = Idle]
          /\ UNCHANGED <<fence, effectVars, kill>>
      BY <2>7 DEF CompleteClaim, Return
    <3>5. work[k].item \in Items /\ work[k].fence \in 1..MaxFence
      BY <3>1 DEF Busy
    <3>6. attempt' \in [Items -> [1..MaxFence -> AttemptStatus]]
      BY <3>4, <3>5 DEF TypeOK, AttemptStatus
    <3>7. artifacts' \subseteq Items \X (1..MaxFence)
      BY <3>4, <3>5 DEF TypeOK
    <3>8. lease' \in [Items -> LeaseStatus] /\ work' \in [Workers -> {Idle} \cup Busy]
      BY <3>4, <3>5 DEF TypeOK, LeaseStatus
    <3>. QED
      BY <3>2, <3>3, <3>4, <3>6, <3>7, <3>8 DEF TypeOK, effectVars
  <2>8. ASSUME NEW k \in Workers, EnsureEffect(k) PROVE TypeOK'
    <3>1. work[k] \in Busy
      BY <2>8, BusyWorker DEF EnsureEffect
    <3>2. work' \in [Workers -> {Idle} \cup Busy]
      BY <2>8, <3>1 DEF TypeOK, EnsureEffect, Goto, Busy
    <3>3. work[k].item \in Items
      BY <3>1 DEF Busy
    <3>4. budget' \in BudgetAccount
      <4>1. CostUnits[work[k].item] \in Nat
        BY <3>3
      <4>2. \/ budget' = budget
            \/ budget' = [budget EXCEPT !.reserved = @ + CostUnits[work[k].item]]
        BY <2>8 DEF EnsureEffect
      <4>3. /\ budget \in BudgetAccount /\ budget.reserved \in Nat
            /\ budget.reserved + CostUnits[work[k].item] \in Nat
        BY <4>1 DEF TypeOK, BudgetAccount
      <4>. QED
        BY <4>2, <4>3 DEF BudgetAccount
    <3>5. effect' \in [Items -> EffectStatus] /\ reservation' \in [Items -> ReservationStatus]
      <4>1. \/ UNCHANGED <<effect, reservation>>
            \/ /\ effect' = [effect EXCEPT ![work[k].item] =
                               IF work[k].item \in RequiresApproval
                               THEN "pending_approval" ELSE "ready"]
               /\ reservation' = [reservation EXCEPT ![work[k].item] = "reserved"]
        BY <2>8 DEF EnsureEffect
      <4>. QED
        BY <3>3, <4>1 DEF TypeOK, EffectStatus, ReservationStatus
    <3>. QED
      BY <2>8, <3>2, <3>4, <3>5 DEF TypeOK, EnsureEffect, engineVars
  <2>9. ASSUME NEW k \in Workers, Raise(k) PROVE TypeOK'
    BY <2>9 DEF TypeOK, Raise, Return, engineVars, effectVars
  <2>10. ASSUME NEW k \in Workers, WaitForApproval(k) PROVE TypeOK'
    <3>1. work[k] \in Busy
      BY <2>10, BusyWorker DEF WaitForApproval
    <3>. QED
      BY <2>10, <3>1 DEF TypeOK, WaitForApproval, Return, Busy, effectVars, WorkItemStatus,
         LeaseStatus, AttemptStatus
  <2>11. ASSUME NEW i \in Items, ExecuteEffect(i),
                work' \in [Workers -> {Idle} \cup Busy]
         PROVE  TypeOK'
    <3>1. budget' \in BudgetAccount
      <4>1. CostUnits[i] \in Nat /\ budget.reserved - CostUnits[i] \in Nat
        BY <2>11 DEF ExecuteEffect, CanExecute, ReservedCheck
      <4>2. budget' = [budget EXCEPT !.reserved = @ - CostUnits[i], !.settled = @ + CostUnits[i]]
        BY <2>11 DEF ExecuteEffect, SettleBudget
      <4>3. /\ budget.reserved \in Nat /\ budget.settled \in Nat /\ budget.limit \in Nat
            /\ budget = [limit |-> budget.limit, reserved |-> budget.reserved,
                         settled |-> budget.settled]
        BY DEF TypeOK, BudgetAccount
      <4>4. budget' = [limit |-> budget.limit, reserved |-> budget.reserved - CostUnits[i],
                       settled |-> budget.settled + CostUnits[i]]
        BY <4>2, <4>3
      <4>. QED
        BY <4>1, <4>3, <4>4 DEF BudgetAccount
    <3>. QED
      BY <2>11, <3>1 DEF TypeOK, ExecuteEffect, engineVars, EffectStatus, ReservationStatus
  <2>12. ASSUME NEW k \in Workers, ExecuteForClaim(k) PROVE TypeOK'
    <3>1. work[k] \in Busy
      BY <2>12, BusyWorker DEF ExecuteForClaim
    <3>2. work' \in [Workers -> {Idle} \cup Busy]
      BY <2>12, <3>1 DEF TypeOK, ExecuteForClaim, Goto, Busy
    <3>3. work[k].item \in Items
      BY <3>1 DEF Busy
    <3>. QED
      BY <2>11, <2>12, <3>2, <3>3 DEF ExecuteForClaim
  <2>13. ASSUME NEW i \in Items, ExecuteDirect(i) PROVE TypeOK'
    BY <2>11, <2>13 DEF ExecuteDirect, TypeOK
  <2>14. ASSUME NEW k \in Workers, Heartbeat(k) PROVE TypeOK'
    BY <2>14, BusyWorker DEF TypeOK, Heartbeat, Busy, effectVars, LeaseStatus
  <2>15. ASSUME NEW k \in Workers, FailClaim(k) PROVE TypeOK'
    <3>1. work[k] \in Busy
      BY <2>15, BusyWorker DEF FailClaim
    <3>. QED
      BY <2>15, <3>1 DEF TypeOK, FailClaim, Return, Busy, effectVars, WorkItemStatus,
         LeaseStatus, AttemptStatus
  <2>16. ASSUME NEW i \in Items, RetryWorkItem(i) PROVE TypeOK'
    BY <2>16 DEF TypeOK, RetryWorkItem, effectVars, WorkItemStatus
  <2>17. ASSUME NEW i \in Items, ApproveEffect(i) PROVE TypeOK'
    BY <2>17 DEF TypeOK, ApproveEffect, EffectStatus, ApprovalStatus, WorkItemStatus
  <2>18. ASSUME NEW i \in Items, RejectEffect(i) PROVE TypeOK'
    BY <2>18 DEF TypeOK, RejectEffect, ReleaseOpenReservations, ReservedCheck, EffectStatus,
       ApprovalStatus, WorkItemStatus, WorkflowStatus, ReservationStatus, BudgetAccount
  <2>19. ASSUME NEW i \in Items, LeaseExpires(i) PROVE TypeOK'
    BY <2>19 DEF TypeOK, LeaseExpires, effectVars, LeaseStatus
  <2>20. ASSUME NEW units \in Limits, SetBudget(units) PROVE TypeOK'
    BY <2>20 DEF TypeOK, SetBudget, engineVars, BudgetAccount
  <2>21. ASSUME NEW s \in KillScopes, NEW enabled \in BOOLEAN, SetKillSwitch(s, enabled)
         PROVE  TypeOK'
    BY <2>21 DEF TypeOK, SetKillSwitch, engineVars, effectVars
  <2>22. CASE UNCHANGED vars
    BY <2>22 DEF TypeOK, vars, engineVars, effectVars
  <2>. QED
    BY <2>1, <2>2, <2>3, <2>4, <2>5, <2>6, <2>7, <2>8, <2>9, <2>10, <2>12, <2>13, <2>14,
       <2>15, <2>16, <2>17, <2>18, <2>19, <2>20, <2>21, <2>22
    DEF Next, WorkerStep, EnsureEffectFails, ExecuteForClaimFails, ClaimLost, Crash
<1>. QED
  BY <1>1, <1>2, PTL DEF Spec
-----------------------------------------------------------------------------
(* An effect that needs an approval never runs without one, nor after a    *)
(* rejection, whatever is retried, recovered or called directly: the       *)
(* approval row is unique and _execute_effect_for_claim reads it in the    *)
(* transaction that marks the effect executed.                             *)
THEOREM ApprovalHolds == Spec => []ExecutedOnlyApproved
<1>1. Init => ExecutedOnlyApproved
  BY EngineAssumption DEF Init, ExecutedOnlyApproved
<1>2. TypeOK /\ ExecutedOnlyApproved /\ [Next]_vars => ExecutedOnlyApproved'
  <2>. SUFFICES ASSUME TypeOK, ExecutedOnlyApproved, [Next]_vars
                PROVE  ExecutedOnlyApproved'
    OBVIOUS
  <2>. USE EngineAssumption
  <2>1. ASSUME NEW i \in Items, ExecuteEffect(i) PROVE ExecutedOnlyApproved'
    BY <2>1 DEF TypeOK, ExecutedOnlyApproved, ExecuteEffect, CanExecute
  <2>2. ASSUME NEW k \in Workers, ExecuteForClaim(k) PROVE ExecutedOnlyApproved'
    <3>1. work[k].item \in Items
      BY <2>2, BusyWorker DEF ExecuteForClaim, Busy
    <3>. QED
      BY <2>1, <2>2, <3>1 DEF ExecuteForClaim
  <2>3. ASSUME NEW i \in Items, ExecuteDirect(i) PROVE ExecutedOnlyApproved'
    BY <2>1, <2>3 DEF ExecuteDirect
  <2>4. ASSUME NEW i \in Items, ApproveEffect(i) \/ RejectEffect(i)
        PROVE  ExecutedOnlyApproved'
    BY <2>4 DEF TypeOK, ExecutedOnlyApproved, ApproveEffect, RejectEffect, DecisionOffered
  <2>5. CASE UNCHANGED <<executions, approval, consumed>>
    BY <2>5 DEF ExecutedOnlyApproved
  <2>. QED
    BY <2>2, <2>3, <2>4, <2>5
    DEF Next, vars, effectVars, WorkerStep, CreateWorkflow, StartWorkflow, PauseWorkflow,
        CancelWorkflow, RecoverWorkflow, ClaimNext, CompleteClaim, EnsureEffect,
        EnsureEffectFails, WaitForApproval, ExecuteForClaimFails, ClaimLost, Heartbeat,
        FailClaim, Crash, Raise, RetryWorkItem, LeaseExpires, SetBudget, SetKillSwitch
<1>. QED
  BY <1>1, <1>2, TypeCorrect, PTL DEF Spec

-----------------------------------------------------------------------------
(* The disjuncts of the next-state relation that served clients can reach. *)
LEMMA StepCases ==
    ASSUME [Next]_vars, ServedClients
    PROVE  \/ \E w \in Workflows : \/ CreateWorkflow(w) \/ StartWorkflow(w)
                                   \/ PauseWorkflow(w)  \/ CancelWorkflow(w)
                                   \/ RecoverWorkflow(w)
           \/ \E w \in Workflows, k \in Workers : ClaimNext(w, k)
           \/ \E k \in Workers : \/ CompleteClaim(k) \/ EnsureEffect(k)
                                 \/ WaitForApproval(k) \/ ExecuteForClaim(k)
                                 \/ Heartbeat(k) \/ FailClaim(k) \/ Raise(k)
           \/ \E i \in Items : \/ RetryWorkItem(i) \/ ApproveEffect(i)
                               \/ RejectEffect(i) \/ LeaseExpires(i)
           \/ \E units \in Limits : SetBudget(units)
           \/ \E s \in KillScopes, enabled \in BOOLEAN : SetKillSwitch(s, enabled)
           \/ UNCHANGED vars
  BY DEF Next, WorkerStep, EnsureEffectFails, ExecuteForClaimFails, ClaimLost, Crash,
         ExecuteDirect, ServedClients

(* What claim_next does to the item statuses, fences, attempts and worker. *)
LEMMA ClaimFacts ==
    ASSUME TypeOK, NEW w \in Workflows, NEW k \in Workers, ClaimNext(w, k)
    PROVE  \E i \in Items :
             /\ RefreshReady(item, w)[i] = "ready"
             /\ workflow[WorkflowOf[i]] # "absent"
             /\ fence[i] + 1 \in 1..MaxFence
             /\ item' = [RefreshReady(item, w) EXCEPT ![i] = "running"]
             /\ fence' = [fence EXCEPT ![i] = fence[i] + 1]
             /\ attempt' = [attempt EXCEPT ![i][fence[i] + 1] = "running"]
             /\ \E pc \in {"claimed", "holding"} :
                  work' = [work EXCEPT ![k] = [pc |-> pc, item |-> i, fence |-> fence[i] + 1]]
<1>. DEFINE ready == ReadyItems(RefreshReady(item, w), w)
            i == FirstByKey(ready)
<1>1. ready \in SUBSET Items /\ ready # {}
  BY DEF ClaimNext, ReadyItems, ItemsOf
<1>2. i \in ready
  BY <1>1, FirstByKeyType
<1>3. i \in Items /\ WorkflowOf[i] = w /\ RefreshReady(item, w)[i] = "ready"
  BY <1>2 DEF ReadyItems, ItemsOf
<1>4. fence[i] + 1 <= MaxFence /\ workflow[w] = "running"
  BY DEF ClaimNext
<1>5. /\ item' = [RefreshReady(item, w) EXCEPT ![i] = "running"]
      /\ fence' = [fence EXCEPT ![i] = fence[i] + 1]
      /\ attempt' = [attempt EXCEPT ![i][fence[i] + 1] = "running"]
      /\ \E pc \in {"claimed", "holding"} :
            work' = [work EXCEPT ![k] = [pc |-> pc, item |-> i, fence |-> fence[i] + 1]]
  BY DEF ClaimNext
<1>. HIDE DEF ready, i
<1>6. fence[i] \in 0..MaxFence
  BY <1>3 DEF TypeOK
<1>7. fence[i] + 1 \in 1..MaxFence
  BY <1>4, <1>6, EngineAssumption
<1>. QED
  BY <1>3, <1>4, <1>5, <1>7

(* An item whose effect awaits a decision has not succeeded. *)
LEMMA PendingNotSucceeded ==
    ASSUME TypeOK, EngineInv, ServedClients, NEW i \in Items, DecisionOffered(i)
    PROVE  item[i] # "succeeded" /\ effect[i] # "none" /\ executions[i] = 0
  BY DEF TypeOK, EngineInv, EffectsBound, ExecutedMarked, SuccessIsReal, DecisionOffered,
         ServedClients

(* A succeeded item stays succeeded. *)
LEMMA SucceededKept ==
    ASSUME TypeOK, EngineInv, ServedClients, [Next]_vars,
           NEW d \in Items, item[d] = "succeeded"
    PROVE  item'[d] = "succeeded"
<1>. USE EngineAssumption
<1>1. ASSUME NEW w \in Workflows, CreateWorkflow(w) PROVE item'[d] = "succeeded"
  BY <1>1 DEF CreateWorkflow, EngineInv, CreatedFirst, Created
<1>2. ASSUME NEW w \in Workflows, StartWorkflow(w) PROVE item'[d] = "succeeded"
  BY <1>2, RefreshReadyType DEF StartWorkflow, TypeOK
<1>3. ASSUME NEW w \in Workflows, RecoverWorkflow(w) PROVE item'[d] = "succeeded"
  BY <1>3 DEF RecoverWorkflow, RefreshReady, TypeOK
<1>4. ASSUME NEW w \in Workflows, NEW k \in Workers, ClaimNext(w, k)
      PROVE  item'[d] = "succeeded"
  BY <1>4, ClaimFacts DEF RefreshReady, TypeOK
<1>5. ASSUME NEW k \in Workers, CompleteClaim(k) PROVE item'[d] = "succeeded"
  BY <1>5, BusyWorker DEF CompleteClaim, RefreshReady, TypeOK, Busy
<1>6. ASSUME NEW k \in Workers, WaitForApproval(k) \/ FailClaim(k)
      PROVE  item'[d] = "succeeded"
  BY <1>6 DEF WaitForApproval, FailClaim, RequireClaim, TypeOK
<1>7. ASSUME NEW i \in Items, ApproveEffect(i) \/ RejectEffect(i)
      PROVE  item'[d] = "succeeded"
  BY <1>7, PendingNotSucceeded, SMTT(30) DEF ApproveEffect, RejectEffect, TypeOK
<1>8. ASSUME NEW w \in Workflows, CancelWorkflow(w) PROVE item'[d] = "succeeded"
  BY <1>8 DEF CancelWorkflow
<1>9. ASSUME NEW i \in Items, RetryWorkItem(i) PROVE item'[d] = "succeeded"
  BY <1>9 DEF RetryWorkItem, TypeOK
<1>10. CASE UNCHANGED item
  BY <1>10
<1>. QED
  BY StepCases, <1>1, <1>2, <1>3, <1>4, <1>5, <1>6, <1>7, <1>8, <1>9, <1>10
  DEF vars, engineVars, PauseWorkflow, EnsureEffect, ExecuteForClaim, ExecuteEffect,
      Heartbeat, Raise, LeaseExpires, SetBudget, SetKillSwitch

-----------------------------------------------------------------------------
(* Each part of the inductive invariant is preserved. *)

(* Dependencies that are met stay met. *)
LEMMA DependenciesKept ==
    ASSUME TypeOK, EngineInv, ServedClients, [Next]_vars,
           NEW i \in Items, DependenciesMet(item, i)
    PROVE  DependenciesMet(item', i)
  BY SucceededKept, EngineAssumption DEF DependenciesMet

(* A workflow that exists keeps existing. *)
LEMMA CreatedKept ==
    ASSUME TypeOK, ServedClients, [Next]_vars, NEW i \in Items, Created(i)
    PROVE  Created(i)'
<1>1. WorkflowOf[i] \in Workflows
  BY EngineAssumption
<1>2. ASSUME NEW k \in Workers, CompleteClaim(k) PROVE Created(i)'
  BY <1>1, <1>2 DEF Created, CompleteClaim, TypeOK
<1>. QED
  BY <1>1, <1>2, StepCases
  DEF Created, TypeOK, vars, engineVars, CreateWorkflow, StartWorkflow, PauseWorkflow,
      CancelWorkflow, RecoverWorkflow, ClaimNext, EnsureEffect, WaitForApproval,
      ExecuteForClaim, ExecuteEffect, Heartbeat, FailClaim, Raise, RetryWorkItem,
      ApproveEffect, RejectEffect, LeaseExpires, SetBudget, SetKillSwitch

(* How the effects, their executions and the workers change in a step. *)
LEMMA EffectSteps ==
    ASSUME TypeOK, ServedClients, [Next]_vars
    PROVE  \/ /\ UNCHANGED <<effect, executions>>
              /\ \/ \E w \in Workflows, k \in Workers : ClaimNext(w, k)
                 \/ \A k \in Workers : \/ work'[k] = work[k]
                                       \/ work'[k] = Idle
                                       \/ EnsureEffect(k)
           \/ \E k \in Workers : EnsureEffect(k) \/ ExecuteForClaim(k)
           \/ /\ UNCHANGED <<executions, work>>
              /\ \E i \in Items : ApproveEffect(i) \/ RejectEffect(i)
<1>1. ASSUME NEW k \in Workers,
             CompleteClaim(k) \/ WaitForApproval(k) \/ FailClaim(k) \/ Raise(k)
      PROVE  /\ UNCHANGED <<effect, executions>>
             /\ \A j \in Workers : work'[j] = work[j] \/ work'[j] = Idle
  BY <1>1 DEF CompleteClaim, WaitForApproval, FailClaim, Raise, Return, effectVars, TypeOK
<1>. QED
  BY <1>1, StepCases
  DEF vars, effectVars, CreateWorkflow, StartWorkflow, PauseWorkflow, CancelWorkflow,
      RecoverWorkflow, ClaimNext, Heartbeat, RetryWorkItem, ApproveEffect, RejectEffect,
      LeaseExpires, SetBudget, SetKillSwitch

(* Every step keeps CreatedFirst.                                            *)
LEMMA CreatedFirstKept ==
    ASSUME TypeOK, EngineInv, ServedClients, [Next]_vars
    PROVE  CreatedFirst'
<1>. SUFFICES ASSUME NEW i \in Items, item'[i] # "absent" \/ effect'[i] # "none"
              PROVE  Created(i)'
  BY DEF CreatedFirst, Created
<1>1. item[i] # "absent" \/ effect[i] # "none" => Created(i)'
  BY CreatedKept DEF EngineInv, CreatedFirst
<1>. SUFFICES ASSUME item[i] = "absent", effect[i] = "none" PROVE Created(i)'
  BY <1>1
<1>. USE EngineAssumption
<1>2. ASSUME NEW w \in Workflows, CreateWorkflow(w) PROVE Created(i)'
  BY <1>2, CreatedKept DEF CreateWorkflow, Created, TypeOK, effectVars
<1>3. ASSUME NEW w \in Workflows, StartWorkflow(w) PROVE Created(i)'
  BY <1>3 DEF StartWorkflow, RefreshReady, TypeOK, effectVars
<1>4. ASSUME NEW w \in Workflows, CancelWorkflow(w) PROVE Created(i)'
  BY <1>4 DEF CancelWorkflow, Created, ItemsOf, TypeOK
<1>5. ASSUME NEW w \in Workflows, RecoverWorkflow(w) PROVE Created(i)'
  BY <1>5 DEF RecoverWorkflow, RefreshReady, TypeOK, effectVars
<1>6. ASSUME NEW w \in Workflows, NEW k \in Workers, ClaimNext(w, k) PROVE Created(i)'
  <2>1. UNCHANGED effect
    BY <1>6 DEF ClaimNext, effectVars
  <2>2. PICK j \in Items : /\ RefreshReady(item, w)[j] = "ready"
                           /\ item' = [RefreshReady(item, w) EXCEPT ![j] = "running"]
    BY <1>6, ClaimFacts
  <2>3. RefreshReady(item, w)[i] = "absent"
    BY DEF RefreshReady
  <2>4. item'[i] = "absent"
    BY <2>2, <2>3 DEF RefreshReady
  <2>. QED
    BY <2>1, <2>4
<1>7. ASSUME NEW k \in Workers, CompleteClaim(k) PROVE Created(i)'
  BY <1>7, BusyWorker DEF CompleteClaim, RequireClaim, RefreshReady, TypeOK, Busy, effectVars
<1>8. ASSUME NEW k \in Workers, EnsureEffect(k) PROVE Created(i)'
  <2>1. Created(work[k].item)
    BY <1>8 DEF EnsureEffect, EngineInv, ClaimsSound
  <2>2. i = work[k].item
    BY <1>8 DEF EnsureEffect, TypeOK, engineVars
  <2>. QED
    BY <2>1, <2>2, CreatedKept
<1>9. ASSUME NEW k \in Workers, WaitForApproval(k) \/ FailClaim(k) PROVE Created(i)'
  BY <1>9 DEF WaitForApproval, FailClaim, RequireClaim, TypeOK, effectVars
<1>10. ASSUME NEW k \in Workers, ExecuteForClaim(k) PROVE Created(i)'
  BY <1>10 DEF ExecuteForClaim, ExecuteEffect, CanExecute, TypeOK, engineVars
<1>11. ASSUME NEW j \in Items, ApproveEffect(j) \/ RejectEffect(j) PROVE Created(i)'
  BY <1>11 DEF ApproveEffect, RejectEffect, DecisionOffered, TypeOK
<1>12. ASSUME NEW j \in Items, RetryWorkItem(j) PROVE Created(i)'
  BY <1>12 DEF RetryWorkItem, TypeOK, effectVars
<1>. QED
  BY StepCases, <1>2, <1>3, <1>4, <1>5, <1>6, <1>7, <1>8, <1>9, <1>10, <1>11, <1>12
  DEF vars, engineVars, effectVars, PauseWorkflow, Heartbeat, Raise, LeaseExpires,
      SetBudget, SetKillSwitch

(* Every step keeps what is known of effects.                                *)
LEMMA EffectPartsKept ==
    ASSUME TypeOK, EngineInv, ServedClients, [Next]_vars
    PROVE  EffectsBound' /\ ExecutedMarked'
<1>. USE EngineAssumption DEF EngineInv, EffectsBound, ExecutedMarked
<1>1. ASSUME NEW k \in Workers, EnsureEffect(k) PROVE EffectsBound' /\ ExecutedMarked'
  BY <1>1 DEF EnsureEffect, TypeOK
<1>2. ASSUME NEW k \in Workers, ExecuteForClaim(k) PROVE EffectsBound' /\ ExecutedMarked'
  BY <1>2 DEF ExecuteForClaim, ExecuteEffect, CanExecute, TypeOK
<1>3. ASSUME NEW i \in Items, ApproveEffect(i) \/ RejectEffect(i)
      PROVE  EffectsBound' /\ ExecutedMarked'
  <2>1. /\ \A j \in Items : j # i => effect'[j] = effect[j]
        /\ UNCHANGED executions
    BY <1>3 DEF ApproveEffect, RejectEffect, TypeOK
  <2>2. executions[i] = 0 /\ effect[i] # "none"
    BY <1>3, PendingNotSucceeded DEF ApproveEffect, RejectEffect
  <2>. QED
    BY <2>1, <2>2
<1>4. CASE UNCHANGED <<effect, executions>>
  BY <1>4
<1>. QED
  BY <1>1, <1>2, <1>3, <1>4, EffectSteps

(* Every step keeps ReadyInOrder.                                            *)
LEMMA ReadyInOrderKept ==
    ASSUME TypeOK, EngineInv, ServedClients, [Next]_vars
    PROVE  ReadyInOrder'
<1>. SUFFICES ASSUME NEW i \in Items, item'[i] = "ready"
              PROVE  DependenciesMet(item', i)
  BY DEF ReadyInOrder, DependenciesMet
<1>0. DependenciesMet(item, i) => DependenciesMet(item', i)
  BY DependenciesKept
<1>. SUFFICES ASSUME item[i] # "ready" PROVE DependenciesMet(item', i)
  BY <1>0 DEF EngineInv, ReadyInOrder
<1>. USE EngineAssumption
<1>1. ASSUME NEW w \in Workflows, StartWorkflow(w) PROVE DependenciesMet(item', i)
  BY <1>0, <1>1 DEF StartWorkflow, RefreshReady, TypeOK
<1>2. ASSUME NEW w \in Workflows, RecoverWorkflow(w) PROVE DependenciesMet(item', i)
  <2>. DEFINE stale == {j \in ItemsOf(w) : item[j] = "running" /\ lease[j] = "expired"}
              status == [j \in Items |-> IF j \in stale THEN "ready" ELSE item[j]]
  <2>1. CASE item[i] = "running"
    BY <1>0, <2>1 DEF EngineInv, DependencyOrder
  <2>2. CASE item[i] # "running"
    <3>1. status[i] = item[i]
      BY <2>2
    <3>2. DependenciesMet(status, i)
      BY <1>2, <3>1 DEF RecoverWorkflow, RefreshReady
    <3>. QED
      BY <1>0, <3>2 DEF DependenciesMet
  <2>. QED
    BY <2>1, <2>2
<1>3. ASSUME NEW w \in Workflows, NEW k \in Workers, ClaimNext(w, k)
      PROVE  DependenciesMet(item', i)
  <2>1. PICK j \in Items : item' = [RefreshReady(item, w) EXCEPT ![j] = "running"]
    BY <1>3, ClaimFacts
  <2>2. RefreshReady(item, w)[i] = "ready"
    BY <2>1 DEF RefreshReady
  <2>. QED
    BY <1>0, <2>2 DEF RefreshReady
<1>4. ASSUME NEW k \in Workers, CompleteClaim(k) PROVE DependenciesMet(item', i)
  <2>. DEFINE status == [item EXCEPT ![work[k].item] = "succeeded"]
  <2>1. item' = RefreshReady(status, WorkflowOf[work[k].item])
    BY <1>4 DEF CompleteClaim
  <2>2. status[i] # "ready"
    BY DEF TypeOK
  <2>3. DependenciesMet(status, i)
    BY <2>1, <2>2 DEF RefreshReady
  <2>4. \A d \in Items : status[d] = "succeeded" => item'[d] = "succeeded"
    BY <2>1 DEF RefreshReady
  <2>. QED
    BY <2>3, <2>4 DEF DependenciesMet
<1>5. ASSUME NEW j \in Items, ApproveEffect(j) PROVE DependenciesMet(item', i)
  BY <1>0, <1>5 DEF ApproveEffect, DecisionOffered, EngineInv, DependencyOrder, TypeOK
<1>6. ASSUME NEW j \in Items, RetryWorkItem(j) PROVE DependenciesMet(item', i)
  BY <1>0, <1>6 DEF RetryWorkItem, TypeOK
<1>7. ASSUME NEW w \in Workflows, CreateWorkflow(w) \/ CancelWorkflow(w)
      PROVE  DependenciesMet(item', i)
  BY <1>7 DEF CreateWorkflow, CancelWorkflow
<1>8. ASSUME NEW k \in Workers, WaitForApproval(k) \/ FailClaim(k)
      PROVE  DependenciesMet(item', i)
  BY <1>8 DEF WaitForApproval, FailClaim, TypeOK
<1>9. ASSUME NEW j \in Items, RejectEffect(j) PROVE DependenciesMet(item', i)
  BY <1>9 DEF RejectEffect, TypeOK
<1>10. CASE UNCHANGED item
  BY <1>10
<1>. QED
  BY StepCases, <1>1, <1>2, <1>3, <1>4, <1>5, <1>6, <1>7, <1>8, <1>9, <1>10
  DEF vars, engineVars, PauseWorkflow, EnsureEffect, ExecuteForClaim, ExecuteEffect,
      Heartbeat, Raise, LeaseExpires, SetBudget, SetKillSwitch

(* Every step keeps ClaimsSound.                                             *)
LEMMA ClaimsSoundKept ==
    ASSUME TypeOK, TypeOK', EngineInv, ServedClients, [Next]_vars
    PROVE  ClaimsSound'
<1>. SUFFICES ASSUME NEW k \in Workers, work'[k].pc # "idle"
              PROVE  /\ workflow'[WorkflowOf[work'[k].item]] # "absent"
                     /\ DependenciesMet(item', work'[k].item)
                     /\ work'[k].pc = "completing" => executions'[work'[k].item] = 1
  BY DEF ClaimsSound, Created, DependenciesMet
<1>. USE EngineAssumption
<1>1. ASSUME work[k].pc # "idle"
      PROVE  /\ work[k].item \in Items
             /\ workflow'[WorkflowOf[work[k].item]] # "absent"
             /\ DependenciesMet(item', work[k].item)
             /\ work[k].pc = "completing" => executions[work[k].item] = 1
  <2>1. work[k].item \in Items
    BY <1>1, BusyWorker DEF Busy
  <2>. QED
    BY <1>1, <2>1, CreatedKept, DependenciesKept DEF EngineInv, ClaimsSound, Created
<1>2. ASSUME work'[k] = work[k], UNCHANGED executions
      PROVE  /\ workflow'[WorkflowOf[work'[k].item]] # "absent"
             /\ DependenciesMet(item', work'[k].item)
             /\ work'[k].pc = "completing" => executions'[work'[k].item] = 1
  BY <1>1, <1>2 DEF Created
<1>3. ASSUME NEW w \in Workflows, NEW j \in Workers, ClaimNext(w, j)
      PROVE  /\ workflow'[WorkflowOf[work'[k].item]] # "absent"
             /\ DependenciesMet(item', work'[k].item)
             /\ work'[k].pc = "completing" => executions'[work'[k].item] = 1
  <2>1. UNCHANGED executions
    BY <1>3 DEF ClaimNext, effectVars
  <2>2. PICK i \in Items :
             /\ RefreshReady(item, w)[i] = "ready"
             /\ Created(i)
             /\ \E pc \in {"claimed", "holding"} :
                  work' = [work EXCEPT ![j] = [pc |-> pc, item |-> i, fence |-> fence[i] + 1]]
    BY <1>3, ClaimFacts DEF Created
  <2>3. DependenciesMet(item, i)
    BY <2>2 DEF RefreshReady, EngineInv, ReadyInOrder
  <2>4. DependenciesMet(item', i) /\ Created(i)'
    BY <2>2, <2>3, DependenciesKept, CreatedKept
  <2>5. CASE k = j
    <3>1. work'[k].item = i /\ work'[k].pc # "completing"
      BY <2>2, <2>5 DEF TypeOK
    <3>. QED
      BY <2>4, <3>1 DEF Created
  <2>6. CASE k # j
    BY <1>2, <2>1, <2>2, <2>6 DEF TypeOK
  <2>. QED
    BY <2>5, <2>6
<1>4. ASSUME NEW j \in Workers, EnsureEffect(j)
      PROVE  /\ workflow'[WorkflowOf[work'[k].item]] # "absent"
             /\ DependenciesMet(item', work'[k].item)
             /\ work'[k].pc = "completing" => executions'[work'[k].item] = 1
  <2>1. CASE k = j
    <3>1. work[k] \in Busy
      BY <1>4, <2>1, BusyWorker DEF EnsureEffect
    <3>2. work'[k].item = work[k].item /\ work'[k].pc # "completing"
      BY <1>4, <2>1, <3>1 DEF EnsureEffect, Goto, TypeOK, Busy
    <3>3. work[k].pc # "idle"
      BY <1>4, <2>1 DEF EnsureEffect
    <3>. QED
      BY <1>1, <3>2, <3>3 DEF Created
  <2>2. CASE k # j
    BY <1>2, <1>4, <2>2 DEF EnsureEffect, Goto, TypeOK
  <2>. QED
    BY <2>1, <2>2
<1>5. ASSUME NEW j \in Workers, ExecuteForClaim(j)
      PROVE  /\ workflow'[WorkflowOf[work'[k].item]] # "absent"
             /\ DependenciesMet(item', work'[k].item)
             /\ work'[k].pc = "completing" => executions'[work'[k].item] = 1
  <2>1. /\ work[j] \in Busy
        /\ executions' = [executions EXCEPT ![work[j].item] = 1]
        /\ work' = [work EXCEPT ![j].pc = "completing"]
    BY <1>5, BusyWorker DEF ExecuteForClaim, ExecuteEffect, Goto
  <2>2. work[k].pc # "idle" /\ work'[k].item = work[k].item
    <3>1. CASE k = j
      BY <1>5, <2>1, <3>1 DEF ExecuteForClaim, TypeOK, Busy
    <3>2. CASE k # j
      BY <2>1, <3>2 DEF TypeOK
    <3>. QED
      BY <3>1, <3>2
  <2>3. work'[k].pc = "completing" => executions'[work[k].item] = 1
    <3>1. CASE k = j
      BY <1>1, <2>1, <2>2, <3>1 DEF TypeOK
    <3>2. CASE k # j
      BY <1>1, <2>1, <2>2, <3>2 DEF TypeOK
    <3>. QED
      BY <3>1, <3>2
  <2>. QED
    BY <1>1, <2>2, <2>3 DEF Created
<1>6. work'[k] # Idle
  BY DEF Idle
<1>. QED
  BY <1>2, <1>3, <1>4, <1>5, <1>6, EffectSteps

(* A step completes an item only under the fence the item has, and an item *)
(* is claimed under a new fence only while no attempt has won it.          *)
LEMMA WinnersKept ==
    ASSUME TypeOK, TypeOK', EngineInv, ServedClients, [Next]_vars
    PROVE  WinnersSucceeded' /\ OneAttemptWins'
<1>. USE EngineAssumption
<1>. DEFINE Won(i, f) == attempt[i][f] = "succeeded" \/ <<i, f>> \in artifacts
            Goal == \A i \in Items : \A f \in 1..MaxFence :
                      attempt'[i][f] = "succeeded" \/ <<i, f>> \in artifacts'
                        => item'[i] = "succeeded" /\ f = fence'[i]
<1>. SUFFICES Goal
  BY DEF WinnersSucceeded, OneAttemptWins
<1>1. \A i \in Items : \A f \in 1..MaxFence :
        Won(i, f) => item[i] = "succeeded" /\ item'[i] = "succeeded" /\ f = fence[i]
  BY SucceededKept DEF EngineInv, WinnersSucceeded, OneAttemptWins
<1>2. ASSUME UNCHANGED <<fence, artifacts>>,
             \A i \in Items : \A f \in 1..MaxFence :
                attempt'[i][f] = "succeeded" => attempt[i][f] = "succeeded"
      PROVE  Goal
  BY <1>1, <1>2
<1>3. ASSUME NEW w \in Workflows, NEW k \in Workers, ClaimNext(w, k) PROVE Goal
  <2>1. PICK j \in Items :
          /\ RefreshReady(item, w)[j] = "ready"
          /\ fence[j] + 1 \in 1..MaxFence
          /\ fence' = [fence EXCEPT ![j] = fence[j] + 1]
          /\ attempt' = [attempt EXCEPT ![j][fence[j] + 1] = "running"]
    BY <1>3, ClaimFacts
  <2>2. UNCHANGED artifacts
    BY <1>3 DEF ClaimNext
  <2>3. item[j] # "succeeded"
    BY <2>1 DEF RefreshReady
  <2>4. ASSUME NEW i \in Items, NEW f \in 1..MaxFence,
               attempt'[i][f] = "succeeded" \/ <<i, f>> \in artifacts'
        PROVE  item'[i] = "succeeded" /\ f = fence'[i]
    <3>1. attempt'[i][f] = "succeeded" => attempt[i][f] = "succeeded"
      BY <2>1 DEF TypeOK
    <3>2. Won(i, f)
      BY <2>2, <2>4, <3>1
    <3>3. i # j /\ item'[i] = "succeeded" /\ f = fence[i]
      BY <1>1, <2>3, <3>2
    <3>. QED
      BY <2>1, <3>3 DEF TypeOK
  <2>. QED
    BY <2>4
<1>4. ASSUME NEW k \in Workers, CompleteClaim(k) PROVE Goal
  <2>. DEFINE j == work[k].item
  <2>1. work[k] \in Busy /\ j \in Items
    BY <1>4, BusyWorker DEF CompleteClaim, Busy
  <2>2. /\ fence[j] = work[k].fence
        /\ UNCHANGED fence
        /\ attempt' = [attempt EXCEPT ![j][work[k].fence] = "succeeded"]
        /\ artifacts' = artifacts \cup {<<j, work[k].fence>>}
    BY <1>4 DEF CompleteClaim, RequireClaim
  <2>3. item'[j] = "succeeded"
    BY <1>4, <2>1 DEF CompleteClaim, RefreshReady, TypeOK
  <2>4. ASSUME NEW i \in Items, NEW f \in 1..MaxFence,
               attempt'[i][f] = "succeeded" \/ <<i, f>> \in artifacts'
        PROVE  item'[i] = "succeeded" /\ f = fence'[i]
    <3>1. CASE i = j /\ f = work[k].fence
      BY <2>2, <2>3, <3>1
    <3>2. CASE ~(i = j /\ f = work[k].fence)
      <4>1. Won(i, f)
        BY <2>1, <2>2, <2>4, <3>2 DEF TypeOK
      <4>. QED
        BY <1>1, <2>2, <4>1
    <3>. QED
      BY <3>1, <3>2
  <2>. QED
    BY <2>4
<1>5. ASSUME NEW w \in Workflows, RecoverWorkflow(w) PROVE Goal
  BY <1>2, <1>5 DEF RecoverWorkflow, TypeOK
<1>6. ASSUME NEW k \in Workers, WaitForApproval(k) \/ FailClaim(k) PROVE Goal
  <2>1. work[k] \in Busy
    BY <1>6, BusyWorker DEF WaitForApproval, FailClaim
  <2>2. /\ UNCHANGED <<fence, artifacts>>
        /\ \E s \in {"waiting_approval", "failed"} :
             attempt' = [attempt EXCEPT ![work[k].item][work[k].fence] = s]
    BY <1>6 DEF WaitForApproval, FailClaim
  <2>. QED
    BY <1>2, <2>1, <2>2 DEF TypeOK, Busy
<1>7. CASE UNCHANGED <<fence, artifacts, attempt>>
  BY <1>2, <1>7
<1>. HIDE DEF Goal
<1>. QED
  BY StepCases, <1>3, <1>4, <1>5, <1>6, <1>7
  DEF vars, engineVars, CreateWorkflow, StartWorkflow, PauseWorkflow, CancelWorkflow,
      EnsureEffect, ExecuteForClaim, ExecuteEffect, Heartbeat, Raise, RetryWorkItem,
      ApproveEffect, RejectEffect, LeaseExpires, SetBudget, SetKillSwitch

(* Every step keeps DependencyOrder.                                         *)
LEMMA DependencyOrderKept ==
    ASSUME TypeOK, EngineInv, ServedClients, [Next]_vars
    PROVE  DependencyOrder'
<1>. USE EngineAssumption
<1>. DEFINE Begun(i) == item[i] \in {"running", "waiting_approval", "succeeded"}
                        \/ effect[i] # "none"
<1>. SUFFICES ASSUME NEW i \in Items,
                     \/ item'[i] \in {"running", "waiting_approval", "succeeded"}
                     \/ effect'[i] # "none"
              PROVE  DependenciesMet(item', i)
  BY DEF DependencyOrder, DependenciesMet
<1>1. Begun(i) \/ item[i] = "ready" => DependenciesMet(item', i)
  BY DependenciesKept DEF EngineInv, DependencyOrder, ReadyInOrder
<1>2. ASSUME NEW k \in Workers, work[k].pc # "idle", i = work[k].item
      PROVE  DependenciesMet(item', i)
  BY <1>2, DependenciesKept DEF EngineInv, ClaimsSound
<1>3. ASSUME NEW w \in Workflows, NEW k \in Workers, ClaimNext(w, k)
      PROVE  DependenciesMet(item', i)
  <2>1. UNCHANGED effect
    BY <1>3 DEF ClaimNext, effectVars
  <2>2. PICK j \in Items : /\ RefreshReady(item, w)[j] = "ready"
                           /\ item' = [RefreshReady(item, w) EXCEPT ![j] = "running"]
    BY <1>3, ClaimFacts
  <2>3. CASE i = j
    <3>1. item[i] = "ready" \/ DependenciesMet(item, i)
      BY <2>2, <2>3 DEF RefreshReady
    <3>. QED
      BY <1>1, <3>1, DependenciesKept
  <2>4. CASE i # j
    <3>1. item'[i] = RefreshReady(item, w)[i]
      BY <2>2, <2>4 DEF RefreshReady
    <3>2. item'[i] \in {"running", "waiting_approval", "succeeded"} => item'[i] = item[i]
      BY <3>1 DEF RefreshReady
    <3>. QED
      BY <1>1, <2>1, <3>2
  <2>. QED
    BY <2>3, <2>4
<1>4. ASSUME NEW k \in Workers, CompleteClaim(k) PROVE DependenciesMet(item', i)
  <2>1. work[k].item \in Items /\ work[k].pc # "idle" /\ UNCHANGED effect
    BY <1>4, BusyWorker DEF CompleteClaim, Busy, effectVars
  <2>2. i # work[k].item =>
           (item'[i] \in {"running", "waiting_approval", "succeeded"} => item'[i] = item[i])
    BY <1>4, <2>1 DEF CompleteClaim, RefreshReady, TypeOK
  <2>. QED
    BY <1>1, <1>2, <2>1, <2>2
<1>5. ASSUME NEW k \in Workers, EnsureEffect(k) \/ ExecuteForClaim(k)
      PROVE  DependenciesMet(item', i)
  <2>1. work[k].pc # "idle" /\ UNCHANGED item
    BY <1>5 DEF EnsureEffect, ExecuteForClaim, ExecuteEffect, engineVars
  <2>2. i # work[k].item => effect'[i] = effect[i]
    BY <1>5 DEF EnsureEffect, ExecuteForClaim, ExecuteEffect, TypeOK
  <2>. QED
    BY <1>1, <1>2, <2>1, <2>2
<1>6. ASSUME NEW k \in Workers, WaitForApproval(k) \/ FailClaim(k)
      PROVE  DependenciesMet(item', i)
  BY <1>1, <1>6 DEF WaitForApproval, FailClaim, RequireClaim, TypeOK, effectVars
<1>7. ASSUME NEW j \in Items, ApproveEffect(j) \/ RejectEffect(j)
      PROVE  DependenciesMet(item', i)
  BY <1>1, <1>7 DEF ApproveEffect, RejectEffect, DecisionOffered, TypeOK
<1>8. ASSUME NEW w \in Workflows,
             \/ CreateWorkflow(w) \/ StartWorkflow(w) \/ CancelWorkflow(w)
             \/ RecoverWorkflow(w)
      PROVE  DependenciesMet(item', i)
  <2>1. UNCHANGED effect
    BY <1>8 DEF CreateWorkflow, StartWorkflow, CancelWorkflow, RecoverWorkflow, effectVars
  <2>2. item'[i] \in {"running", "waiting_approval", "succeeded"} => item'[i] = item[i]
    BY <1>8 DEF CreateWorkflow, StartWorkflow, CancelWorkflow, RecoverWorkflow, RefreshReady
  <2>. QED
    BY <1>1, <2>1, <2>2
<1>9. ASSUME NEW j \in Items, RetryWorkItem(j) PROVE DependenciesMet(item', i)
  BY <1>1, <1>9 DEF RetryWorkItem, TypeOK, effectVars
<1>. QED
  BY StepCases, <1>1, <1>3, <1>4, <1>5, <1>6, <1>7, <1>8, <1>9
  DEF vars, engineVars, effectVars, PauseWorkflow, Heartbeat, Raise, LeaseExpires,
      SetBudget, SetKillSwitch

(* Every step keeps SuccessIsReal.                                           *)
LEMMA SuccessIsRealKept ==
    ASSUME TypeOK, EngineInv, ServedClients, [Next]_vars
    PROVE  SuccessIsReal'
<1>. USE EngineAssumption
<1>1. ASSUME NEW i \in EffectItems, item'[i] = "succeeded" PROVE executions'[i] = 1
  <2>1. executions[i] = 1 => executions'[i] = 1
    BY EffectSteps DEF ClaimNext, EnsureEffect, ExecuteForClaim, ExecuteEffect, effectVars, TypeOK
  <2>2. CASE item[i] = "succeeded"
    BY <2>1, <2>2 DEF EngineInv, SuccessIsReal
  <2>3. ASSUME NEW k \in Workers, CompleteClaim(k), item[i] # "succeeded"
        PROVE  executions[i] = 1
    <3>1. i = work[k].item
      BY <1>1, <2>3 DEF CompleteClaim, RefreshReady, TypeOK
    <3>2. work[k].pc = "completing"
      BY <2>3, <3>1 DEF CompleteClaim, ServedClients
    <3>. QED
      BY <3>1, <3>2 DEF EngineInv, ClaimsSound
  <2>4. ASSUME item[i] # "succeeded" PROVE \E k \in Workers : CompleteClaim(k)
    <3>1. ASSUME NEW w \in Workflows, NEW k \in Workers, ClaimNext(w, k) PROVE FALSE
      BY <1>1, <2>4, <3>1, ClaimFacts DEF RefreshReady
    <3>2. ASSUME NEW w \in Workflows, \/ CreateWorkflow(w) \/ StartWorkflow(w)
                                      \/ CancelWorkflow(w) \/ RecoverWorkflow(w)
          PROVE  FALSE
      BY <1>1, <2>4, <3>2 DEF CreateWorkflow, StartWorkflow, CancelWorkflow, RecoverWorkflow,
                              RefreshReady
    <3>. QED
      BY <1>1, <2>4, <3>1, <3>2, StepCases
      DEF vars, engineVars, PauseWorkflow, EnsureEffect, WaitForApproval, ExecuteForClaim,
          ExecuteEffect, Heartbeat, FailClaim, Raise, RetryWorkItem, ApproveEffect,
          RejectEffect, LeaseExpires, SetBudget, SetKillSwitch, TypeOK
  <2>. QED
    BY <2>1, <2>2, <2>3, <2>4
<1>2. ASSUME NEW w \in Workflows, workflow'[w] = "succeeded", NEW i \in ItemsOf(w)
      PROVE  item'[i] = "succeeded"
  <2>1. CASE workflow[w] = "succeeded"
    BY <1>2, <2>1, SucceededKept DEF EngineInv, SuccessIsReal, ItemsOf
  <2>2. ASSUME NEW k \in Workers, CompleteClaim(k), workflow[w] # "succeeded"
        PROVE  item'[i] = "succeeded"
    BY <1>2, <2>2 DEF CompleteClaim, AllSucceeded, TypeOK
  <2>3. ASSUME workflow[w] # "succeeded" PROVE \E k \in Workers : CompleteClaim(k)
    BY <1>2, <2>3, StepCases
    DEF vars, engineVars, CreateWorkflow, StartWorkflow, PauseWorkflow, CancelWorkflow,
        RecoverWorkflow, ClaimNext, EnsureEffect, WaitForApproval, ExecuteForClaim,
        ExecuteEffect, Heartbeat, FailClaim, Raise, RetryWorkItem, ApproveEffect,
        RejectEffect, LeaseExpires, SetBudget, SetKillSwitch, TypeOK
  <2>. QED
    BY <2>1, <2>2, <2>3
<1>. QED
  BY <1>1, <1>2 DEF SuccessIsReal, ItemsOf

-----------------------------------------------------------------------------
(* The invariant of an engine whose clients go through run_next and the    *)
(* approval inbox.                                                         *)
THEOREM EngineInvariant == ServedClients => (Spec => []EngineInv)
<1>. SUFFICES ASSUME ServedClients PROVE Spec => []EngineInv
  OBVIOUS
<1>1. Init => EngineInv
  BY EngineAssumption
  DEF Init, EngineInv, CreatedFirst, Created, EffectsBound, ExecutedMarked, ReadyInOrder,
      ClaimsSound, WinnersSucceeded, OneAttemptWins, DependencyOrder, SuccessIsReal, Idle
<1>2. TypeOK /\ TypeOK' /\ EngineInv /\ [Next]_vars => EngineInv'
  BY CreatedFirstKept, EffectPartsKept, ReadyInOrderKept, ClaimsSoundKept, WinnersKept,
     DependencyOrderKept, SuccessIsRealKept DEF EngineInv
<1>. QED
  BY <1>1, <1>2, TypeCorrect, PTL DEF Spec

(* An item is completed, and leaves its artifact, only under its newest    *)
(* fence: a worker that recover_workflow took the item from never wins.    *)
THEOREM OneAttemptWinsHolds == ServedClients => (Spec => []OneAttemptWins)
<1>1. EngineInv => OneAttemptWins
  BY DEF EngineInv
<1>. QED
  BY <1>1, EngineInvariant, PTL

(* No item is claimed, and no effect proposed or executed, before every    *)
(* item it depends on has succeeded.                                       *)
THEOREM DependencyOrderHolds == ServedClients => (Spec => []DependencyOrder)
<1>1. EngineInv => DependencyOrder
  BY DEF EngineInv
<1>. QED
  BY <1>1, EngineInvariant, PTL

(* Success that is reported was earned: the effect of a succeeded item has *)
(* run, and every item of a succeeded workflow has succeeded.              *)
THEOREM SuccessIsRealHolds == ServedClients => (Spec => []SuccessIsReal)
<1>1. EngineInv => SuccessIsReal
  BY DEF EngineInv
<1>. QED
  BY <1>1, EngineInvariant, PTL
-----------------------------------------------------------------------------
(* Sums over items.  SumFunctionOnSet folds over a set in an order it       *)
(* chooses; what it computes is proved by looking at a smallest set for     *)
(* which it would be wrong.                                                 *)

(* A set of sets of items has a smallest one, of which no member but one   *)
(* with an element less is missing: what an induction over sets needs.     *)
LEMMA SmallestSet ==
    ASSUME NEW C \in SUBSET SUBSET Items, C # {}
    PROVE  \E s \in C : \A x \in s : s \ {x} \notin C
<1>. DEFINE N == {Cardinality(s) : s \in C}
<1>1. \A s \in SUBSET Items : IsFiniteSet(s) /\ Cardinality(s) \in Nat
  BY EngineAssumption, FS_Subset, FS_CardinalityType
<1>2. N \in SUBSET Nat /\ N # {}
  BY <1>1
<1>3. PICK m \in N : \A n \in N : m <= n
  BY <1>2, LeastNat
<1>4. PICK s \in C : m = Cardinality(s)
  BY <1>3
<1>5. ASSUME NEW x \in s, s \ {x} \in C PROVE FALSE
  <2>1. Cardinality(s \ {x}) = Cardinality(s) - 1
    BY <1>1, <1>4, FS_RemoveElement
  <2>2. Cardinality(s) <= Cardinality(s \ {x})
    BY <1>3, <1>4, <1>5
  <2>. QED
    BY <1>1, <1>4, <2>1, <2>2
<1>. QED
  BY <1>4, <1>5

\* The item that a sum takes first, and what makes a function a sum over the subsets of S.
First(s) == CHOOSE x \in s : TRUE
Summed(g, s) == IF s = {} THEN 0 ELSE CostUnits[First(s)] + g[s \ {First(s)}]
IsSum(g, S) == g = [s \in SUBSET S |-> Summed(g, s)]

(* The sum of the community modules, unfolded.                               *)
LEMMA SumIsChosen ==
    ASSUME NEW S \in SUBSET Items
    PROVE  SumOver(S) = (CHOOSE g : IsSum(g, S))[S]
  BY DEF SumOver, SumFunctionOnSet, FoldFunctionOnSet, MapThenFoldSet, IsSum, Summed, First

(* An element is chosen from every nonempty set.                             *)
LEMMA FirstIsIn == \A s : s # {} => First(s) \in s
  BY DEF First

(* Two such functions agree where both are defined. *)
LEMMA SumsAgree ==
    ASSUME NEW S \in SUBSET Items, NEW T \in SUBSET Items, NEW g, IsSum(g, S), NEW h, IsSum(h, T),
           NEW s \in SUBSET S, s \in SUBSET T
    PROVE  g[s] = h[s]
<1>. DEFINE C == {u \in SUBSET s : g[u] # h[u]}
<1>1. ASSUME C # {} PROVE FALSE
  <2>1. C \in SUBSET SUBSET Items
    OBVIOUS
  <2>2. PICK u \in C : \A x \in u : u \ {x} \notin C
    BY <1>1, <2>1, SmallestSet
  <2>3. u \in SUBSET s /\ g[u] # h[u] /\ u \in SUBSET S /\ u \in SUBSET T
    BY <2>2
  <2>4. g[u] = Summed(g, u) /\ h[u] = Summed(h, u)
    BY <2>3 DEF IsSum
  <2>5. u # {}
    BY <2>3, <2>4 DEF Summed
  <2>6. First(u) \in u /\ u \ {First(u)} \in SUBSET s
    BY <2>3, <2>5, FirstIsIn
  <2>7. g[u \ {First(u)}] = h[u \ {First(u)}]
    BY <2>2, <2>6
  <2>. QED
    BY <2>3, <2>4, <2>7 DEF Summed
<1>. QED
  BY <1>1

Small(n) == {s \in SUBSET Items : Cardinality(s) <= n}
IsSumUpTo(g, n) == g = [s \in Small(n) |-> Summed(g, s)]

(* There is such a function over the sets of up to n items: the least n      *)
(* without one would have one for n - 1, and so one for n.                   *)
LEMMA SumsUpTo == \A n \in Nat : \E g : IsSumUpTo(g, n)
<1>. DEFINE N == {n \in Nat : ~\E g : IsSumUpTo(g, n)}
<1>0. \A s \in SUBSET Items : IsFiniteSet(s) /\ Cardinality(s) \in Nat
  BY EngineAssumption, FS_Subset, FS_CardinalityType
<1>1. ASSUME N # {} PROVE FALSE
  <2>1. PICK m \in N : \A n \in N : m <= n
    BY <1>1, LeastNat
  <2>2. m # 0
    <3>1. Small(0) = {{}}
      BY <1>0, FS_EmptySet DEF Small
    <3>. DEFINE g == [s \in Small(0) |-> 0]
    <3>2. \A s \in Small(0) : Summed(g, s) = 0
      BY <3>1 DEF Summed
    <3>3. IsSumUpTo(g, 0)
      BY <3>2 DEF IsSumUpTo
    <3>. QED
      BY <3>3, <2>1
  <2>3. m - 1 \in Nat /\ m - 1 \notin N
    BY <2>1, <2>2
  <2>4. PICK g : IsSumUpTo(g, m - 1)
    BY <2>3
  <2>. DEFINE h == [s \in Small(m) |-> Summed(g, s)]
  <2>5. ASSUME NEW s \in Small(m) PROVE Summed(g, s) = Summed(h, s)
    <3>1. CASE s = {}
      BY <3>1 DEF Summed
    <3>2. CASE s # {}
      <4>. DEFINE u == s \ {First(s)}
      <4>1. First(s) \in s /\ u \in SUBSET Items /\ IsFiniteSet(s)
        BY <1>0, <3>2, FirstIsIn DEF Small
      <4>2. Cardinality(u) = Cardinality(s) - 1 /\ Cardinality(s) \in Nat /\ Cardinality(u) \in Nat
        BY <1>0, <4>1, FS_RemoveElement DEF Small
      <4>3. Cardinality(s) <= m
        BY DEF Small
      <4>4. u \in Small(m - 1) /\ u \in Small(m)
        BY <2>1, <4>1, <4>2, <4>3 DEF Small
      <4>5. g[u] = Summed(g, u)
        BY <2>4, <4>4 DEF IsSumUpTo
      <4>6. h[u] = g[u]
        BY <4>4, <4>5
      <4>. QED
        BY <3>2, <4>6 DEF Summed
    <3>. QED
      BY <3>1, <3>2
  <2>6. IsSumUpTo(h, m)
    <3>1. h = [s \in Small(m) |-> Summed(h, s)]
      BY <2>5
    <3>. QED
      BY <3>1 DEF IsSumUpTo
  <2>. QED
    BY <2>1, <2>6
<1>. QED
  BY <1>1

(* So there is one over the subsets of any set of items. *)
LEMMA SumExists == ASSUME NEW S \in SUBSET Items PROVE \E g : IsSum(g, S)
<1>1. PICK n \in Nat : \A s \in SUBSET Items : Cardinality(s) <= n
  BY EngineAssumption, FS_Subset, FS_CardinalityType
<1>2. PICK g : IsSumUpTo(g, n)
  BY <1>1, SumsUpTo
<1>. DEFINE h == [s \in SUBSET S |-> g[s]]
<1>3. ASSUME NEW s \in SUBSET S PROVE g[s] = Summed(h, s)
  <2>1. s \in Small(n)
    BY <1>1 DEF Small
  <2>2. g[s] = Summed(g, s)
    BY <1>2, <2>1 DEF IsSumUpTo
  <2>3. s \ {First(s)} \in SUBSET S
    OBVIOUS
  <2>. QED
    BY <2>2, <2>3 DEF Summed
<1>4. IsSum(h, S)
  <2>1. h = [s \in SUBSET S |-> Summed(h, s)]
    BY <1>3
  <2>. QED
    BY <2>1 DEF IsSum
<1>. QED
  BY <1>4

(* The equation of SumOver. *)
LEMMA SumEquation ==
    ASSUME NEW S \in SUBSET Items
    PROVE  SumOver(S) = IF S = {} THEN 0
                        ELSE CostUnits[First(S)] + SumOver(S \ {First(S)})
<1>. DEFINE g == CHOOSE f : IsSum(f, S)
            T == S \ {First(S)}
            h == CHOOSE f : IsSum(f, T)
<1>1. IsSum(g, S) /\ SumOver(S) = g[S]
  BY SumExists, SumIsChosen
<1>2. T \in SUBSET Items /\ T \in SUBSET S
  OBVIOUS
<1>3. IsSum(h, T) /\ SumOver(T) = h[T]
  BY <1>2, SumExists, SumIsChosen
<1>. HIDE DEF g, h
<1>4. g[S] = Summed(g, S)
  BY <1>1 DEF IsSum
<1>5. g[T] = h[T]
  BY <1>1, <1>2, <1>3, SumsAgree
<1>. QED
  BY <1>1, <1>3, <1>4, <1>5 DEF Summed

(* A sum of costs is a natural number. *)
LEMMA SumType == \A S \in SUBSET Items : SumOver(S) \in Nat
<1>. DEFINE C == {u \in SUBSET Items : SumOver(u) \notin Nat}
<1>1. ASSUME C # {} PROVE FALSE
  <2>1. PICK u \in C : \A x \in u : u \ {x} \notin C
    BY <1>1, SmallestSet
  <2>2. u # {}
    <3>1. SumOver({}) = 0
      BY SumEquation
    <3>. QED
      BY <2>1, <3>1
  <2>3. First(u) \in u /\ u \ {First(u)} \in SUBSET Items
    BY <2>1, <2>2, FirstIsIn
  <2>4. SumOver(u \ {First(u)}) \in Nat /\ CostUnits[First(u)] \in Nat
    BY <2>1, <2>3, EngineAssumption
  <2>. QED
    BY <2>1, <2>2, <2>4, SumEquation
<1>. QED
  BY <1>1

(* Taking any item out of a sum, not only the one it takes first. *)
LEMMA SumWithout ==
    \A S \in SUBSET Items : \A x \in S : SumOver(S) = SumOver(S \ {x}) + CostUnits[x]
<1>. DEFINE Wrong(S) == \E x \in S : SumOver(S) # SumOver(S \ {x}) + CostUnits[x]
            C == {u \in SUBSET Items : Wrong(u)}
<1>1. ASSUME C # {} PROVE FALSE
  <2>1. PICK u \in C : \A x \in u : u \ {x} \notin C
    BY <1>1, SmallestSet
  <2>2. PICK x \in u : SumOver(u) # SumOver(u \ {x}) + CostUnits[x]
    BY <2>1
  <2>. DEFINE p == First(u)
              v == (u \ {x}) \ {p}
  <2>3. u \in SUBSET Items /\ p \in u /\ x \in Items
    BY <2>1, <2>2, FirstIsIn
  <2>4. /\ CostUnits[p] \in Nat /\ CostUnits[x] \in Nat /\ SumOver(u) \in Nat
        /\ SumOver(u \ {p}) \in Nat /\ SumOver(u \ {x}) \in Nat /\ SumOver(v) \in Nat
    BY <2>3, EngineAssumption, SumType
  <2>5. SumOver(u) = SumOver(u \ {p}) + CostUnits[p]
    <3>1. SumOver(u) = CostUnits[p] + SumOver(u \ {p})
      BY <2>3, SumEquation
    <3>. QED
      BY <2>4, <3>1
  <2>6. x # p
    BY <2>2, <2>5
  <2>7. x \in u \ {p} /\ p \in u \ {x} /\ u \ {p} \in SUBSET Items /\ u \ {x} \in SUBSET Items
    BY <2>2, <2>3, <2>6
  <2>8. SumOver(u \ {p}) = SumOver((u \ {p}) \ {x}) + CostUnits[x]
    <3>1. u \ {p} \notin C
      BY <2>1, <2>3
    <3>. QED
      BY <2>7, <3>1
  <2>9. SumOver(u \ {x}) = SumOver(v) + CostUnits[p]
    <3>1. u \ {x} \notin C
      BY <2>1, <2>2
    <3>. QED
      BY <2>7, <3>1
  <2>10. (u \ {p}) \ {x} = v
    OBVIOUS
  <2>11. SumOver(u \ {p}) = SumOver(v) + CostUnits[x]
    BY <2>8, <2>10
  <2>. HIDE DEF v, p
  <2>12. SumOver(u) = SumOver(v) + CostUnits[p] + CostUnits[x]
    BY <2>4, <2>5, <2>11
  <2>13. SumOver(u \ {x}) + CostUnits[x] = SumOver(v) + CostUnits[p] + CostUnits[x]
    BY <2>4, <2>9
  <2>. QED
    BY <2>2, <2>12, <2>13
<1>. QED
  BY <1>1

(* A sum over two parts of a set. *)
LEMMA SumOfParts ==
    \A S, T \in SUBSET Items : T \subseteq S => SumOver(S) = SumOver(S \ T) + SumOver(T)
<1>. SUFFICES ASSUME NEW S \in SUBSET Items
              PROVE  \A T \in SUBSET S : SumOver(S) = SumOver(S \ T) + SumOver(T)
  OBVIOUS
<1>. DEFINE C == {T \in SUBSET S : SumOver(S) # SumOver(S \ T) + SumOver(T)}
<1>1. ASSUME C # {} PROVE FALSE
  <2>0. C \in SUBSET SUBSET Items
    OBVIOUS
  <2>1. PICK u \in C : \A x \in u : u \ {x} \notin C
    BY <1>1, <2>0, SmallestSet
  <2>2. u \in SUBSET S /\ SumOver(S) # SumOver(S \ u) + SumOver(u)
    BY <2>1
  <2>3. u # {}
    <3>1. SumOver({}) = 0 /\ S \ {} = S /\ SumOver(S) \in Nat
      BY SumEquation, SumType
    <3>. QED
      BY <2>2, <3>1
  <2>4. PICK x \in u : TRUE
    BY <2>3
  <2>. DEFINE v == u \ {x}
              r == S \ u
              q == S \ v
  <2>5. /\ v \in SUBSET Items /\ r \in SUBSET Items /\ q \in SUBSET Items /\ x \in q
        /\ q \ {x} = r /\ u \in SUBSET Items /\ v \in SUBSET S
    BY <2>2, <2>4
  <2>6. SumOver(S) = SumOver(q) + SumOver(v)
    BY <2>1, <2>4, <2>5
  <2>7. SumOver(q) = SumOver(r) + CostUnits[x]
    BY <2>5, SumWithout
  <2>8. SumOver(u) = SumOver(v) + CostUnits[x]
    BY <2>4, <2>5, SumWithout
  <2>9. SumOver(q) \in Nat /\ SumOver(v) \in Nat /\ SumOver(r) \in Nat /\ CostUnits[x] \in Nat
        /\ SumOver(u) \in Nat
    BY <2>2, <2>4, <2>5, SumType, EngineAssumption
  <2>10. SumOver(S) # SumOver(r) + SumOver(u)
    BY <2>2
  <2>. HIDE DEF v, r, q
  <2>. QED
    BY <2>6, <2>7, <2>8, <2>9, <2>10
<1>. QED
  BY <1>1

-----------------------------------------------------------------------------
(* The budget                                                               *)

Reserved == {i \in Items : reservation[i] = "reserved"}
Executed == {i \in Items : executions[i] = 1}

(* No effect is proposed. *)
SameProposals == \A j \in Items : (effect'[j] = "none") = (effect[j] = "none")

(* What a step does to money: nothing, a release of a workflow's open       *)
(* reservations, a reservation, an execution or a new limit.                *)
Reserves(i) ==
    /\ effect[i] = "none" /\ CostUnits[i] <= AvailableUnits
    /\ effect'[i] # "none" /\ UNCHANGED executions
    /\ \A j \in Items \ {i} : (effect'[j] = "none") = (effect[j] = "none")
    /\ reservation' = [reservation EXCEPT ![i] = "reserved"]
    /\ budget' = [budget EXCEPT !.reserved = @ + CostUnits[i]]
NoMoney ==
    /\ UNCHANGED <<executions, reservation, budget>>
    /\ SameProposals
Releases(w) ==
    /\ ReleaseOpenReservations(w) /\ UNCHANGED executions
    /\ SameProposals
    /\ "cancel" \in Commands \/ "reject" \in Commands

(* Every step is of one of these kinds. *)
LEMMA MoneySteps ==
    ASSUME TypeOK, [Next]_vars
    PROVE  \/ NoMoney
           \/ \E w \in Workflows : Releases(w)
           \/ \E i \in Items : Reserves(i) \/ ExecuteEffect(i)
           \/ \E units \in Limits : SetBudget(units)
<1>. USE EngineAssumption
<1>1. ASSUME NEW w \in Workflows, CancelWorkflow(w) PROVE Releases(w)
  BY <1>1 DEF CancelWorkflow, Releases, SameProposals
<1>2. ASSUME NEW i \in Items, RejectEffect(i)
      PROVE  WorkflowOf[i] \in Workflows /\ Releases(WorkflowOf[i])
  BY <1>2 DEF RejectEffect, DecisionOffered, Releases, SameProposals, TypeOK
<1>3. ASSUME NEW k \in Workers, EnsureEffect(k) PROVE NoMoney \/ \E i \in Items : Reserves(i)
  <2>1. work[k].item \in Items
    BY <1>3, BusyWorker DEF EnsureEffect, Busy
  <2>. QED
    BY <1>3, <2>1 DEF EnsureEffect, NoMoney, SameProposals, Reserves, TypeOK
<1>4. ASSUME NEW k \in Workers, ExecuteForClaim(k) PROVE \E i \in Items : ExecuteEffect(i)
  BY <1>4, BusyWorker DEF ExecuteForClaim, Busy
<1>5. ASSUME NEW i \in Items, ApproveEffect(i) PROVE NoMoney
  BY <1>5 DEF ApproveEffect, DecisionOffered, NoMoney, SameProposals, TypeOK
<1>6. CASE UNCHANGED effectVars
  BY <1>6 DEF effectVars, NoMoney, SameProposals
<1>. QED
  BY <1>1, <1>2, <1>3, <1>4, <1>5, <1>6
  DEF Next, vars, WorkerStep, CreateWorkflow, StartWorkflow, PauseWorkflow, RecoverWorkflow,
      ClaimNext, CompleteClaim, EnsureEffectFails, WaitForApproval, ExecuteForClaimFails,
      ClaimLost, Heartbeat, FailClaim, Crash, Raise, RetryWorkItem, ExecuteDirect, LeaseExpires,
      SetKillSwitch

(* The account as a record of three numbers. *)
LEMMA AccountFields ==
    ASSUME TypeOK
    PROVE  /\ budget.limit \in Nat /\ budget.reserved \in Nat /\ budget.settled \in Nat
           /\ \A n \in Int : /\ [budget EXCEPT !.reserved = n].reserved = n
                             /\ [budget EXCEPT !.reserved = n].settled = budget.settled
                             /\ [budget EXCEPT !.reserved = n].limit = budget.limit
                             /\ [budget EXCEPT !.limit = n].reserved = budget.reserved
                             /\ [budget EXCEPT !.limit = n].settled = budget.settled
                             /\ [budget EXCEPT !.limit = n].limit = n
           /\ \A m, n \in Int :
                LET b == [budget EXCEPT !.reserved = m, !.settled = n]
                IN  b.reserved = m /\ b.settled = n /\ b.limit = budget.limit
  BY DEF TypeOK, BudgetAccount

(* The sums after a step of each kind. *)
LEMMA SumsAfter ==
    ASSUME TypeOK
    PROVE  /\ Reserved \in SUBSET Items /\ Executed \in SUBSET Items
           /\ SumOver(Reserved) \in Nat /\ SumOver(Executed) \in Nat
           /\ \A w \in Workflows : ReleaseOpenReservations(w) =>
                /\ budget'.limit = budget.limit /\ budget'.settled = budget.settled
                /\ SumOver(OpenReservations(w)) \in Nat
                /\ budget'.reserved = budget.reserved - SumOver(OpenReservations(w))
                /\ SumOver(Reserved') = SumOver(Reserved) - SumOver(OpenReservations(w))
           /\ \A i \in Items : Reserves(i) /\ i \notin Reserved =>
                /\ budget'.limit = budget.limit /\ budget'.settled = budget.settled
                /\ budget'.reserved = budget.reserved + CostUnits[i]
                /\ SumOver(Reserved') = SumOver(Reserved) + CostUnits[i]
                /\ budget'.reserved + budget'.settled <= budget'.limit
           /\ \A i \in Items : ExecuteEffect(i) =>
                /\ budget'.limit = budget.limit /\ budget'.settled = budget.settled + CostUnits[i]
                /\ budget'.reserved = budget.reserved - CostUnits[i]
                /\ SumOver(Executed') = SumOver(Executed) + CostUnits[i]
                /\ SumOver(Reserved') = IF i \in Reserved THEN SumOver(Reserved) - CostUnits[i]
                                        ELSE SumOver(Reserved)
<1>. USE EngineAssumption
<1>1. /\ Reserved \in SUBSET Items /\ Executed \in SUBSET Items
      /\ SumOver(Reserved) \in Nat /\ SumOver(Executed) \in Nat
      /\ \A i \in Items : CostUnits[i] \in Nat
      /\ budget.limit \in Nat /\ budget.reserved \in Nat /\ budget.settled \in Nat
  BY SumType, AccountFields DEF Reserved, Executed
<1>2. ASSUME NEW w \in Workflows, ReleaseOpenReservations(w)
      PROVE  /\ budget'.limit = budget.limit /\ budget'.settled = budget.settled
             /\ SumOver(OpenReservations(w)) \in Nat
             /\ budget'.reserved = budget.reserved - SumOver(OpenReservations(w))
             /\ SumOver(Reserved') = SumOver(Reserved) - SumOver(OpenReservations(w))
  <2>1. OpenReservations(w) \in SUBSET Items /\ OpenReservations(w) \subseteq Reserved
    BY DEF OpenReservations, ItemsOf, Reserved
  <2>2. Reserved' = Reserved \ OpenReservations(w)
    BY <1>2 DEF ReleaseOpenReservations, Reserved, OpenReservations
  <2>3. /\ SumOver(Reserved) = SumOver(Reserved \ OpenReservations(w)) + SumOver(OpenReservations(w))
        /\ SumOver(OpenReservations(w)) \in Nat
        /\ SumOver(Reserved \ OpenReservations(w)) \in Nat
    BY <1>1, <2>1, SumOfParts, SumType
  <2>4. budget' = [budget EXCEPT !.reserved = budget.reserved - SumOver(OpenReservations(w))]
    BY <1>2 DEF ReleaseOpenReservations, ReservedAfterRelease, SumOver
  <2>5. budget.reserved - SumOver(OpenReservations(w)) \in Int
    BY <1>1, <2>3
  <2>6. /\ budget'.limit = budget.limit /\ budget'.settled = budget.settled
        /\ budget'.reserved = budget.reserved - SumOver(OpenReservations(w))
    BY <2>4, <2>5, AccountFields
  <2>. QED
    BY <2>2, <2>3, <2>6
<1>3. ASSUME NEW i \in Items, Reserves(i), i \notin Reserved
      PROVE  /\ budget'.limit = budget.limit /\ budget'.settled = budget.settled
             /\ budget'.reserved = budget.reserved + CostUnits[i]
             /\ SumOver(Reserved') = SumOver(Reserved) + CostUnits[i]
             /\ budget'.reserved + budget'.settled <= budget'.limit
  <2>1. Reserved' = Reserved \cup {i} /\ Reserved' \in SUBSET Items
    BY <1>3 DEF Reserves, Reserved, TypeOK
  <2>2. Reserved' \ {i} = Reserved
    BY <1>3, <2>1
  <2>3. SumOver(Reserved') = SumOver(Reserved' \ {i}) + CostUnits[i]
    BY <2>1, SumWithout
  <2>4. budget' = [budget EXCEPT !.reserved = budget.reserved + CostUnits[i]]
    BY <1>3 DEF Reserves
  <2>5. budget.reserved + CostUnits[i] \in Int
    BY <1>1
  <2>6. /\ budget'.limit = budget.limit /\ budget'.settled = budget.settled
        /\ budget'.reserved = budget.reserved + CostUnits[i]
    BY <2>4, <2>5, AccountFields
  <2>7. CostUnits[i] <= budget.limit - budget.reserved - budget.settled
    BY <1>3 DEF Reserves, AvailableUnits
  <2>8. budget.reserved + CostUnits[i] + budget.settled <= budget.limit
    BY <1>1, <2>7
  <2>. QED
    BY <2>2, <2>3, <2>6, <2>8
<1>4. ASSUME NEW i \in Items, ExecuteEffect(i)
      PROVE  /\ budget'.limit = budget.limit /\ budget'.settled = budget.settled + CostUnits[i]
             /\ budget'.reserved = budget.reserved - CostUnits[i]
             /\ SumOver(Executed') = SumOver(Executed) + CostUnits[i]
             /\ SumOver(Reserved') = IF i \in Reserved THEN SumOver(Reserved) - CostUnits[i]
                                     ELSE SumOver(Reserved)
  <2>1. executions[i] = 0 /\ i \notin Executed
    BY <1>4 DEF ExecuteEffect, CanExecute, Executed
  <2>2. Executed' = Executed \cup {i} /\ Executed' \in SUBSET Items
    BY <1>4 DEF ExecuteEffect, Executed, TypeOK
  <2>3. SumOver(Executed') = SumOver(Executed) + CostUnits[i]
    <3>1. Executed' \ {i} = Executed
      BY <2>1, <2>2
    <3>2. SumOver(Executed') = SumOver(Executed' \ {i}) + CostUnits[i]
      BY <2>2, SumWithout
    <3>. QED
      BY <3>1, <3>2
  <2>4. Reserved' = Reserved \ {i}
    BY <1>4 DEF ExecuteEffect, Reserved, TypeOK
  <2>5. i \in Reserved => SumOver(Reserved) = SumOver(Reserved \ {i}) + CostUnits[i]
    BY <1>1, SumWithout
  <2>6. i \notin Reserved => Reserved' = Reserved
    BY <2>4
  <2>7. SumOver(Reserved \ {i}) \in Nat
    BY <1>1, SumType
  <2>8. SumOver(Reserved') = IF i \in Reserved THEN SumOver(Reserved) - CostUnits[i]
                             ELSE SumOver(Reserved)
    <3>1. CASE i \in Reserved
      <4>1. SumOver(Reserved) = SumOver(Reserved') + CostUnits[i] /\ SumOver(Reserved') \in Nat
        BY <2>4, <2>5, <2>7, <3>1
      <4>2. SumOver(Reserved') = SumOver(Reserved) - CostUnits[i]
        BY <1>1, <4>1
      <4>. QED
        BY <3>1, <4>2
    <3>2. CASE i \notin Reserved
      BY <2>6, <3>2
    <3>. QED
      BY <3>1, <3>2
  <2>9. budget' = [budget EXCEPT !.reserved = budget.reserved - CostUnits[i],
                                 !.settled = budget.settled + CostUnits[i]]
    BY <1>4 DEF ExecuteEffect, SettleBudget
  <2>10. budget.reserved - CostUnits[i] \in Int /\ budget.settled + CostUnits[i] \in Int
    BY <1>1
  <2>11. /\ budget'.limit = budget.limit /\ budget'.settled = budget.settled + CostUnits[i]
         /\ budget'.reserved = budget.reserved - CostUnits[i]
    BY <2>9, <2>10, AccountFields
  <2>. QED
    BY <2>3, <2>8, <2>11
<1>. QED
  BY <1>1, <1>2, <1>3, <1>4


(* The inductive invariant of the account.  A release may take back the     *)
(* units of an effect that still executes and then gives them back a second *)
(* time, so the reserved column may fall below the open reservations; what  *)
(* _reserve_budget granted still bounds what is spent.                      *)
MoneyInv ==
    /\ budget.reserved + budget.settled <= budget.limit
    /\ budget.settled = SumOver(Executed)
    /\ budget.reserved <= SumOver(Reserved)
    /\ \A i \in Items : (effect[i] = "none") = (reservation[i] = "none")

(* Nothing is reserved or spent before the first effect.                    *)
LEMMA MoneyInit == Init => MoneyInv
<1>. SUFFICES ASSUME Init PROVE MoneyInv
  OBVIOUS
<1>1. Reserved = {} /\ Executed = {}
  BY DEF Init, Reserved, Executed
<1>2. SumOver({}) = 0
  BY SumEquation
<1>3. SumOver(Reserved) = 0 /\ SumOver(Executed) = 0
  BY <1>1, <1>2
<1>4. budget.limit = 0 /\ budget.reserved = 0 /\ budget.settled = 0
  BY DEF Init
<1>5. \A i \in Items : (effect[i] = "none") = (reservation[i] = "none")
  BY DEF Init
<1>. QED
  BY <1>3, <1>4, <1>5 DEF MoneyInv

(* Every step, of whatever kind, keeps the account sound.                   *)
LEMMA MoneyKept == ASSUME TypeOK, TypeOK', MoneyInv, [Next]_vars PROVE MoneyInv'
<1>. USE EngineAssumption
<1>0. /\ budget.limit \in Nat /\ budget.reserved \in Nat /\ budget.settled \in Nat
      /\ budget'.limit \in Nat /\ budget'.reserved \in Nat /\ budget'.settled \in Nat
      /\ SumOver(Reserved) \in Nat /\ SumOver(Executed) \in Nat
      /\ \A i \in Items : CostUnits[i] \in Nat
  <2>1. /\ budget'.limit \in Nat /\ budget'.reserved \in Nat /\ budget'.settled \in Nat
    BY DEF TypeOK, BudgetAccount
  <2>. QED
    BY <2>1, AccountFields, SumsAfter
<1>. DEFINE Holders == \A i \in Items : (effect[i] = "none") = (reservation[i] = "none")
            Account == /\ budget.reserved + budget.settled <= budget.limit
                       /\ budget.settled = SumOver(Executed)
                       /\ budget.reserved <= SumOver(Reserved)
<1>1. Account /\ Holders
  BY DEF MoneyInv
<1>2. CASE NoMoney
  <2>1. Reserved' = Reserved /\ Executed' = Executed /\ budget' = budget
    BY <1>2 DEF NoMoney, Reserved, Executed
  <2>2. Account'
    <3>1. SumOver(Reserved') = SumOver(Reserved) /\ SumOver(Executed') = SumOver(Executed)
      BY <2>1
    <3>. QED
      BY <1>1, <2>1, <3>1
  <2>3. Holders'
    BY <1>1, <1>2 DEF NoMoney, SameProposals
  <2>. QED
    BY <2>2, <2>3 DEF MoneyInv
<1>3. ASSUME NEW w \in Workflows, Releases(w) PROVE MoneyInv'
  <2>1. /\ budget'.limit = budget.limit /\ budget'.settled = budget.settled
        /\ SumOver(OpenReservations(w)) \in Nat
        /\ budget'.reserved = budget.reserved - SumOver(OpenReservations(w))
        /\ SumOver(Reserved') = SumOver(Reserved) - SumOver(OpenReservations(w))
    BY <1>3, SumsAfter DEF Releases
  <2>2. Executed' = Executed
    BY <1>3 DEF Releases, Executed
  <2>3. SumOver(Executed') = SumOver(Executed)
    BY <2>2
  <2>4. Account'
    BY <1>0, <1>1, <2>1, <2>3
  <2>5. Holders'
    BY <1>1, <1>3 DEF Releases, SameProposals, ReleaseOpenReservations, OpenReservations, TypeOK
  <2>. QED
    BY <2>4, <2>5 DEF MoneyInv
<1>4. ASSUME NEW i \in Items, Reserves(i) PROVE MoneyInv'
  <2>1. i \notin Reserved
    BY <1>1, <1>4 DEF Reserves, Reserved
  <2>2. /\ budget'.limit = budget.limit /\ budget'.settled = budget.settled
        /\ budget'.reserved = budget.reserved + CostUnits[i]
        /\ SumOver(Reserved') = SumOver(Reserved) + CostUnits[i]
        /\ budget'.reserved + budget'.settled <= budget'.limit
    BY <1>4, <2>1, SumsAfter
  <2>3. Executed' = Executed
    BY <1>4 DEF Reserves, Executed
  <2>4. SumOver(Executed') = SumOver(Executed)
    BY <2>3
  <2>5. Account'
    BY <1>0, <1>1, <2>2, <2>4
  <2>6. Holders'
    BY <1>1, <1>4 DEF Reserves, TypeOK
  <2>. QED
    BY <2>5, <2>6 DEF MoneyInv
<1>5. ASSUME NEW i \in Items, ExecuteEffect(i) PROVE MoneyInv'
  <2>1. /\ budget'.limit = budget.limit /\ budget'.settled = budget.settled + CostUnits[i]
        /\ budget'.reserved = budget.reserved - CostUnits[i]
        /\ SumOver(Executed') = SumOver(Executed) + CostUnits[i]
        /\ SumOver(Reserved') = IF i \in Reserved THEN SumOver(Reserved) - CostUnits[i]
                                ELSE SumOver(Reserved)
    BY <1>5, SumsAfter
  <2>2. Account'
    BY <1>0, <1>1, <2>1
  <2>3. Holders'
    BY <1>1, <1>5 DEF ExecuteEffect, CanExecute, TypeOK
  <2>. QED
    BY <2>2, <2>3 DEF MoneyInv
<1>6. ASSUME NEW units \in Limits, SetBudget(units) PROVE MoneyInv'
  <2>1. budget' = [budget EXCEPT !.limit = units] /\ units \in Int
        /\ budget.reserved + budget.settled <= units
    BY <1>6 DEF SetBudget
  <2>2. budget'.limit = units /\ budget'.reserved = budget.reserved
        /\ budget'.settled = budget.settled
    BY <2>1, AccountFields
  <2>3. Reserved' = Reserved /\ Executed' = Executed
    BY <1>6 DEF SetBudget, Reserved, Executed
  <2>4. SumOver(Reserved') = SumOver(Reserved) /\ SumOver(Executed') = SumOver(Executed)
    BY <2>3
  <2>5. Account'
    BY <1>1, <2>1, <2>2, <2>4
  <2>6. Holders'
    BY <1>1, <1>6 DEF SetBudget
  <2>. QED
    BY <2>5, <2>6 DEF MoneyInv
<1>. QED
  BY <1>2, <1>3, <1>4, <1>5, <1>6, MoneySteps

(* The account is sound in every reachable state.                           *)
THEOREM MoneyHolds == Spec => []MoneyInv
<1>1. TypeOK /\ TypeOK' /\ MoneyInv /\ [Next]_vars => MoneyInv'
  BY MoneyKept
<1>. QED
  BY <1>1, MoneyInit, TypeCorrect, PTL DEF Spec

(* Executed effects never cost more than the limit and no unit is reserved  *)
(* without a holder, for all workflows, costs, limits and workers and in    *)
(* every order of reservations, releases, rejections and executions.        *)
THEOREM BudgetSafeHolds == Spec => []BudgetSafe
<1>1. TypeOK /\ MoneyInv => BudgetSafe
  <2>. SUFFICES ASSUME TypeOK, MoneyInv PROVE BudgetSafe
    OBVIOUS
  <2>1. budget.limit \in Nat /\ budget.reserved \in Nat /\ budget.settled \in Nat
    BY AccountFields
  <2>2. SumOver(Executed) <= budget.limit
    BY <2>1 DEF MoneyInv
  <2>3. SpendWithinLimit
    BY <2>2 DEF SpendWithinLimit, Executed
  <2>4. NoPhantomReservation
    BY DEF MoneyInv, NoPhantomReservation, Reserved, Executed
  <2>. QED
    BY <2>3, <2>4 DEF BudgetSafe
<1>. QED
  BY <1>1, TypeCorrect, MoneyHolds, PTL

(* Without a release the account is exact: every proposed effect is a       *)
(* holder, and it settles when it executes.                                 *)
ConservedInv ==
    /\ budget.reserved = SumOver(Reserved)
    /\ \A i \in Items : reservation[i] # "released"
    /\ \A i \in Items : (reservation[i] = "settled") = (executions[i] = 1)

(* Every step of an engine without releases keeps the account exact.        *)
LEMMA ConservedKept ==
    ASSUME NoReleases, TypeOK, MoneyInv, ConservedInv, [Next]_vars PROVE ConservedInv'
<1>. USE EngineAssumption
<1>0. /\ budget.reserved \in Nat /\ SumOver(Reserved) \in Nat
      /\ \A i \in Items : CostUnits[i] \in Nat
  BY AccountFields, SumsAfter
<1>. DEFINE Held == \A i \in Items : reservation[i] # "released"
            Settled == \A i \in Items : (reservation[i] = "settled") = (executions[i] = 1)
<1>1. Held /\ Settled /\ budget.reserved = SumOver(Reserved)
  BY DEF ConservedInv
<1>2. \A i \in Items : (effect[i] = "none") = (reservation[i] = "none")
  BY DEF MoneyInv
<1>3. CASE NoMoney
  <2>1. Reserved' = Reserved /\ budget' = budget
    BY <1>3 DEF NoMoney, Reserved
  <2>2. SumOver(Reserved') = SumOver(Reserved)
    BY <2>1
  <2>3. Held' /\ Settled'
    BY <1>1, <1>3 DEF NoMoney
  <2>. QED
    BY <1>1, <2>1, <2>2, <2>3 DEF ConservedInv
<1>4. ASSUME NEW w \in Workflows, Releases(w) PROVE FALSE
  BY <1>4 DEF Releases, NoReleases
<1>5. ASSUME NEW i \in Items, Reserves(i) PROVE ConservedInv'
  <2>1. reservation[i] = "none" /\ i \notin Reserved
    BY <1>2, <1>5 DEF Reserves, Reserved
  <2>2. budget'.reserved = budget.reserved + CostUnits[i]
        /\ SumOver(Reserved') = SumOver(Reserved) + CostUnits[i]
    BY <1>5, <2>1, SumsAfter
  <2>3. Held' /\ Settled'
    BY <1>1, <1>5, <2>1 DEF Reserves, TypeOK
  <2>4. budget'.reserved = SumOver(Reserved')
    BY <1>1, <2>2
  <2>. QED
    BY <2>3, <2>4 DEF ConservedInv
<1>6. ASSUME NEW i \in Items, ExecuteEffect(i) PROVE ConservedInv'
  <2>1. effect[i] # "none" /\ executions[i] = 0
    BY <1>6 DEF ExecuteEffect, CanExecute
  <2>2. i \in Reserved
    <3>1. reservation[i] \in ReservationStatus
      BY DEF TypeOK
    <3>2. reservation[i] # "none" /\ reservation[i] # "settled" /\ reservation[i] # "released"
      BY <1>1, <1>2, <2>1
    <3>. QED
      BY <3>1, <3>2 DEF ReservationStatus, Reserved
  <2>3. budget'.reserved = budget.reserved - CostUnits[i]
        /\ SumOver(Reserved') = SumOver(Reserved) - CostUnits[i]
    BY <1>6, <2>2, SumsAfter
  <2>4. Held' /\ Settled'
    BY <1>1, <1>6 DEF ExecuteEffect, TypeOK
  <2>5. budget'.reserved = SumOver(Reserved')
    BY <1>1, <2>3
  <2>. QED
    BY <2>4, <2>5 DEF ConservedInv
<1>7. ASSUME NEW units \in Limits, SetBudget(units) PROVE ConservedInv'
  <2>1. budget' = [budget EXCEPT !.limit = units] /\ units \in Int
    BY <1>7 DEF SetBudget
  <2>2. budget'.reserved = budget.reserved
    BY <2>1, AccountFields
  <2>3. Reserved' = Reserved
    BY <1>7 DEF SetBudget, Reserved
  <2>4. SumOver(Reserved') = SumOver(Reserved)
    BY <2>3
  <2>5. Held' /\ Settled'
    BY <1>1, <1>7 DEF SetBudget
  <2>. QED
    BY <1>1, <2>2, <2>4, <2>5 DEF ConservedInv
<1>. QED
  BY <1>3, <1>4, <1>5, <1>6, <1>7, MoneySteps

(* Where nothing is cancelled or rejected, the reserved column is exactly   *)
(* the open reservations and the settled one exactly the settled ones.      *)
THEOREM BudgetConservedHolds == NoReleases => (Spec => []BudgetConserved)
<1>. SUFFICES ASSUME NoReleases PROVE Spec => []BudgetConserved
  OBVIOUS
<1>1. Init => ConservedInv
  <2>. SUFFICES ASSUME Init PROVE ConservedInv
    OBVIOUS
  <2>1. Reserved = {} /\ budget.reserved = 0
    BY DEF Init, Reserved
  <2>2. SumOver({}) = 0
    BY SumEquation
  <2>3. SumOver(Reserved) = 0
    BY <2>1, <2>2
  <2>. QED
    BY <2>1, <2>3 DEF Init, ConservedInv
<1>2. TypeOK /\ MoneyInv /\ ConservedInv /\ [Next]_vars => ConservedInv'
  BY ConservedKept
<1>3. MoneyInv /\ ConservedInv => BudgetConserved
  <2>. SUFFICES ASSUME MoneyInv, ConservedInv PROVE BudgetConserved
    OBVIOUS
  <2>1. {i \in Items : reservation[i] = "settled"} = Executed
    BY DEF ConservedInv, Executed
  <2>2. SumOver({i \in Items : reservation[i] = "settled"}) = SumOver(Executed)
    BY <2>1
  <2>3. budget.settled = SumOver(Executed)
    BY DEF MoneyInv
  <2>4. budget.reserved = SumOver({i \in Items : reservation[i] = "reserved"})
    BY DEF ConservedInv, Reserved
  <2>. QED
    BY <2>2, <2>3, <2>4 DEF BudgetConserved
<1>. QED
  BY <1>1, <1>2, <1>3, TypeCorrect, MoneyHolds, PTL DEF Spec

-----------------------------------------------------------------------------
(* Only claim_next moves a fence, and it looks at the switches first.       *)
LEMMA FencesMove ==
    ASSUME TypeOK, [Next]_vars, NEW i \in Items, fence'[i] # fence[i]
    PROVE  ~(<<"global">> \in kill \/ <<"workflow", WorkflowOf[i]>> \in kill)
<1>1. ASSUME NEW w \in Workflows, NEW k \in Workers, ClaimNext(w, k)
      PROVE  ~(<<"global">> \in kill \/ <<"workflow", WorkflowOf[i]>> \in kill)
  <2>. DEFINE j == FirstByKey(ReadyItems(RefreshReady(item, w), w))
  <2>1. ReadyItems(RefreshReady(item, w), w) \in (SUBSET Items) \ {{}}
    BY <1>1 DEF ClaimNext, ReadyItems, ItemsOf
  <2>2. j \in ReadyItems(RefreshReady(item, w), w)
    BY <2>1, FirstByKeyType
  <2>3. WorkflowOf[j] = w
    BY <2>2 DEF ReadyItems, ItemsOf
  <2>4. fence' = [fence EXCEPT ![j] = fence[j] + 1] /\ ~KillSwitchEnabled(w)
    BY <1>1 DEF ClaimNext
  <2>. HIDE DEF j
  <2>5. i = j
    BY <2>4 DEF TypeOK
  <2>. QED
    BY <2>3, <2>4, <2>5 DEF KillSwitchEnabled
<1>2. CASE UNCHANGED fence
  BY <1>2
<1>. QED
  BY <1>1, <1>2
  DEF Next, WorkerStep, EnsureEffectFails, ExecuteForClaimFails, ClaimLost, Crash, ExecuteDirect,
      vars, engineVars, CreateWorkflow, StartWorkflow, PauseWorkflow, CancelWorkflow,
      RecoverWorkflow, CompleteClaim, EnsureEffect, WaitForApproval, ExecuteForClaim, ExecuteEffect,
      Heartbeat, FailClaim, Raise, RetryWorkItem, ApproveEffect, RejectEffect, LeaseExpires,
      SetBudget, SetKillSwitch

(* While the global switch or the switch of a workflow is on, none of its    *)
(* items is claimed, whichever way it became ready.                          *)
THEOREM KillSwitchRespected == Spec => KillSwitchHolds
<1>1. TypeOK /\ [Next]_vars =>
         [\A i \in Items :
             <<"global">> \in kill \/ <<"workflow", WorkflowOf[i]>> \in kill
                => fence'[i] = fence[i]]_vars
  BY FencesMove
<1>. QED
  BY <1>1, TypeCorrect, PTL DEF Spec, KillSwitchHolds

(*****************************************************************************)
(* Governed agent runs                                                       *)
(*****************************************************************************)

AgentEvents == [type : ToolEvents \cup {"started", "completed", "cancelled"}, tool : Tools \cup {NoTool}]
RunStates == {"none", "running", "completed", "failed", "cancelled"}
RunFields == {"state", "variant", "events", "proof"}
OperationRecords ==
    [pc : {"idle", "preflight", "act", "record", "answered"}, kind : {"none", "start", "resume", "cancel"},
     variant : Variants \cup {NoVariant}, proof : Proofs \cup {NoProof}, receipt : Nat,
     outcome : {"none", "success", "failure"}, answer : {"none", "refused", "pending", "success", "failure"}]
Receipts ==
    [operation : Operations, phase : {"authorization", "outcome"},
     outcome : {"allow", "deny", "success", "failure"}]

(* The receipts: the outcome of a call is recorded with its answer.          *)
LedgerInv ==
    /\ ledger \in Seq(Receipts)
    /\ \A i \in DOMAIN ledger : ledger[i].phase = "outcome" => operation[ledger[i].operation].pc = "answered"

(* A call that is under way stands behind its authorization, and its answer  *)
(* next to it.                                                               *)
OperationInv(o) ==
    LET op == operation[o] IN
    /\ op.pc \in {"preflight", "act", "record"} =>
          /\ op.receipt \in DOMAIN ledger /\ ledger[op.receipt] = Receipt(o, "authorization", "allow")
          /\ op.answer = "none"
    /\ op.pc # "idle" => (op.kind = "cancel" <=> op.proof # NoProof)
    /\ op.pc \in {"idle", "preflight", "act"} => op.outcome = "none"
    /\ op.pc = "idle" => op.answer = "none"
    /\ op.pc = "record" => op.outcome \in {"success", "failure"}
    /\ op.answer \in {"success", "failure"} =>
          /\ op.receipt + 1 \in DOMAIN ledger /\ ledger[op.receipt + 1] = Receipt(o, "outcome", op.answer)
          /\ \A i \in DOMAIN ledger : ledger[i].operation = o /\ ledger[i].phase = "outcome" => i = op.receipt + 1
    /\ op.kind = "start" /\ op.outcome = "success" =>
          agentRun.state # "none" /\ op.variant = agentRun.variant

(* The run, who started it and who cancelled it.                             *)
RunInv ==
    /\ DOMAIN agentRun = RunFields
    /\ agentRun.state \in RunStates /\ agentRun.events \in Seq(AgentEvents)
    /\ agentRun.proof \in Proofs \cup {NoProof}
    /\ agentRun.state = "none" => agentRun.events = <<>>
    /\ agentRun.state # "none" => Len(agentRun.events) > 0
    /\ KeepsContract(agentRun.events, agentRun.state)
    /\ agentRun.state # "none" =>
          \E o \in Operations : /\ operation[o].kind = "start" /\ operation[o].variant = agentRun.variant
                                /\ operation[o].pc # "idle" /\ Allowed(o)
    /\ agentRun.state = "cancelled" =>
          /\ agentRun.proof # NoProof
          /\ \E o \in Operations : /\ operation[o].kind = "cancel" /\ operation[o].proof = agentRun.proof
                                   /\ operation[o].pc # "idle" /\ Allowed(o)

AgentInv ==
    /\ operation \in [Operations -> OperationRecords]
    /\ \E n \in 0..MaxCalls : \A o \in Operations : operation[o].pc # "idle" <=> o <= n
    /\ script \in {Unread, Rejected} \cup Accepted
    /\ LedgerInv /\ RunInv
    /\ \A o \in Operations : OperationInv(o)

-----------------------------------------------------------------------------
(* The events of the scripts that _materialize_events accepts.               *)
LEMMA ScriptTypes ==
    ASSUME NEW s \in Accepted
    PROVE  /\ s \in Seq(ScriptEvents) /\ Len(s) > 0 /\ ValidChain(s)
<1>1. PICK t \in Scripts : s = Materialized(t) /\ ValidChain(Materialized(t))
  BY DEF Accepted
<1>2. t \in Seq(ScriptEvents)
  BY <1>1, AgentAssumption, SeqDef DEF Scripts
<1>3. CASE t = <<>>
  <2>1. s = <<Event("started", NoTool)>>
    BY <1>1, <1>3 DEF Materialized
  <2>2. Event("started", NoTool) \in ScriptEvents
    BY DEF ScriptEvents
  <2>. QED
    BY <1>1, <2>1, <2>2
<1>4. CASE t # <<>>
  <2>1. s = t
    BY <1>1, <1>4 DEF Materialized
  <2>2. Len(t) > 0
    <3> HIDE DEF ScriptEvents
    <3>. QED
      BY <1>2, <1>4, EmptySeq
  <2>. QED
    BY <1>1, <1>2, <2>1, <2>2
<1>. QED
  BY <1>3, <1>4

(* The events of a script, by their type.                                    *)
LEMMA EventTypes ==
    ASSUME NEW e \in ScriptEvents
    PROVE  /\ e \in AgentEvents /\ e = Event(e.type, e.tool)
           /\ e.type \in ToolEvents \cup {"started", "completed"}
           /\ e.type \in ToolEvents => e.tool \in Tools
           /\ e.type \notin ToolEvents => e.tool = NoTool
BY DEF ScriptEvents, AgentEvents, Event, ToolEvents

(* validate_agent_run_event_chain establishes the contract of the stream.    *)
LEMMA AcceptedKeeps ==
    ASSUME NEW s \in Accepted
    PROVE  /\ s \in Seq(AgentEvents) /\ Len(s) > 0
           /\ StateOf(s) \in {"running", "completed"} /\ KeepsContract(s, StateOf(s))
<1>1. s \in Seq(ScriptEvents) /\ Len(s) > 0 /\ ValidChain(s)
  BY ScriptTypes
<1>2. PICK L \in Nat \ {0} : L = Len(s) /\ DOMAIN s = 1..L
  <2> HIDE DEF ScriptEvents
  <2>. QED
    BY <1>1, LenProperties
<1>3. \A n \in 1..L : s[n] \in ScriptEvents
  <2> HIDE DEF ScriptEvents
  <2>. QED
    BY <1>1, <1>2, ElementOfSeq
<1>4. s \in Seq(AgentEvents)
  <2>1. ScriptEvents \subseteq AgentEvents
    BY EventTypes
  <2> HIDE DEF ScriptEvents, AgentEvents
  <2>. QED
    BY <1>1, <2>1, SeqMonotonic
<1>5. \A n \in 1..L : /\ s[n] = Event(s[n].type, s[n].tool)
                      /\ s[n].type \in ToolEvents \cup {"started", "completed"}
                      /\ s[n].type \in ToolEvents => s[n].tool \in Tools
                      /\ s[n].type \notin ToolEvents => s[n].tool = NoTool
  BY <1>3, EventTypes
<1>6. /\ s[1].type = "started"
      /\ \A n \in 1..L :
            /\ n > 1 => s[n].type # "started"
            /\ \A i \in 1..(n - 1) : s[i].type \notin DOMAIN TerminalState
            /\ ToolTransition(s, n)
            /\ s[n].type \in DOMAIN TerminalState =>
                  \A tool \in Tools : Requested(s, n, tool) => Finished(s, n, tool)
  BY <1>1, <1>2 DEF ValidChain
<1>7. DOMAIN TerminalState = {"completed", "failed", "cancelled"}
  BY DEF TerminalState
<1>8. \A n \in 1..L : s[n].type \in DOMAIN TerminalState => n = L
  <2>. SUFFICES ASSUME NEW n \in 1..L, s[n].type \in DOMAIN TerminalState, n # L PROVE FALSE
    OBVIOUS
  <2>1. n \in 1..(L - 1)
    BY <1>2
  <2>. QED
    BY <1>2, <1>6, <2>1
<1>9. /\ StateOf(s) \in {"running", "completed"}
      /\ StateOf(s) = "running" <=> s[L].type \notin DOMAIN TerminalState
  BY <1>2, <1>5, <1>7 DEF StateOf, TerminalState, ToolEvents
<1>10. \A n \in 1..L : (s[n].type = "started") <=> (n = 1)
  BY <1>6
<1>11. \A n \in 1..L : s[n].tool \in Tools <=> s[n].type \in ToolEvents
  BY <1>5, AgentAssumption
<1>12. \A n, m \in 1..L : n < m => s[n] # s[m]
  <2>. SUFFICES ASSUME NEW n \in 1..L, NEW m \in 1..L, n < m, s[n] = s[m] PROVE FALSE
    OBVIOUS
  <2>1. n \in 1..(m - 1) /\ s[m] = Event(s[m].type, s[m].tool)
    BY <1>5
  <2>2. s[m].type # "started" /\ s[m].type \notin DOMAIN TerminalState
    BY <1>6, <2>1
  <2>3. s[m].type \in ToolEvents
    BY <1>5, <1>7, <2>2
  <2>4. /\ s[m].type = "requested" => Requested(s, m, s[m].tool)
        /\ s[m].type = "started_tool" => Started(s, m, s[m].tool)
        /\ s[m].type \in {"blocked", "result"} => Finished(s, m, s[m].tool)
    BY <2>1 DEF Requested, Started, Finished, Before
  <2>. QED
    BY <1>6, <2>3, <2>4 DEF ToolTransition, ToolEvents
<1>13. \A n, m \in 1..L : s[n] = s[m] => n = m
  <2>. SUFFICES ASSUME NEW n \in 1..L, NEW m \in 1..L, s[n] = s[m] PROVE n = m
    OBVIOUS
  <2>1. ~(n < m) /\ ~(m < n)
    BY <1>12
  <2>. QED
    BY <2>1
<1>14. \A n \in 1..L : s[n].type \in {"blocked", "started_tool"} =>
            \E m \in 1..L : m < n /\ s[m] = Event("requested", s[n].tool)
  <2>. SUFFICES ASSUME NEW n \in 1..L, s[n].type \in {"blocked", "started_tool"}
                PROVE  \E m \in 1..L : m < n /\ s[m] = Event("requested", s[n].tool)
    OBVIOUS
  <2>1. Requested(s, n, s[n].tool)
    BY <1>6 DEF ToolTransition
  <2>. QED
    BY <2>1 DEF Requested, Before
<1>15. \A n \in 1..L : s[n].type = "result" =>
            \E m \in 1..L : m < n /\ s[m] = Event("started_tool", s[n].tool)
  <2>. SUFFICES ASSUME NEW n \in 1..L, s[n].type = "result"
                PROVE  \E m \in 1..L : m < n /\ s[m] = Event("started_tool", s[n].tool)
    OBVIOUS
  <2>1. Started(s, n, s[n].tool)
    BY <1>6 DEF ToolTransition
  <2>. QED
    BY <2>1 DEF Started, Before
<1>16. \A n, m \in 1..L : s[n].type = "blocked" => s[m] # Event("started_tool", s[n].tool)
  <2>. SUFFICES ASSUME NEW n \in 1..L, NEW m \in 1..L, s[n].type = "blocked",
                       s[m] = Event("started_tool", s[n].tool)
                PROVE  FALSE
    OBVIOUS
  <2>1. s[m].type = "started_tool" /\ s[m].tool = s[n].tool
    BY DEF Event
  <2>2. ~Started(s, n, s[n].tool) /\ ~Finished(s, m, s[m].tool)
    BY <1>6, <2>1 DEF ToolTransition
  <2>3. ~(m < n)
    BY <2>2 DEF Started, Before
  <2>4. ~(n < m)
    BY <1>5, <2>1, <2>2 DEF Finished, Before
  <2>. QED
    BY <2>1, <2>3, <2>4
<1>17. (\E k \in 1..L : s[k].type \in DOMAIN TerminalState) =>
          \A n \in 1..L : s[n].type = "requested" =>
             \E m \in 1..L : s[m].type \in {"blocked", "result"} /\ s[m].tool = s[n].tool
  <2>. SUFFICES ASSUME s[L].type \in DOMAIN TerminalState, NEW n \in 1..L, s[n].type = "requested"
                PROVE  \E m \in 1..L : s[m].type \in {"blocked", "result"} /\ s[m].tool = s[n].tool
    BY <1>8
  <2>1. n # L /\ s[n].tool \in Tools /\ s[n] = Event("requested", s[n].tool)
    BY <1>5, <1>7 DEF ToolEvents
  <2>2. Requested(s, L, s[n].tool)
    BY <2>1 DEF Requested, Before
  <2>3. Finished(s, L, s[n].tool)
    BY <1>6, <2>1, <2>2
  <2>4. PICK m \in 1..(L - 1) : s[m] = Event("blocked", s[n].tool) \/ s[m] = Event("result", s[n].tool)
    BY <2>3 DEF Finished, Before
  <2>5. s[m].type \in {"blocked", "result"} /\ s[m].tool = s[n].tool
    BY <2>4 DEF Event
  <2>. QED
    BY <2>5
<1>18. (\E k \in 1..L : s[k].type \in DOMAIN TerminalState) <=> StateOf(s) \notin {"none", "running"}
  BY <1>8, <1>9
<1>19. KeepsContract(s, StateOf(s))
  BY <1>2, <1>8, <1>10, <1>11, <1>13, <1>14, <1>15, <1>16, <1>17, <1>18 DEF KeepsContract
<1>. QED
  BY <1>1, <1>4, <1>9, <1>19

-----------------------------------------------------------------------------
(* SetToSeq of a finite set is one of its enumerations.                      *)
LEMMA Enumerated ==
    ASSUME NEW S, IsFiniteSet(S)
    PROVE  /\ Cardinality(S) \in Nat
           /\ SetToSeq(S) \in [1..Cardinality(S) -> S] /\ SetToSeq(S) \in Seq(S)
           /\ \A i, j \in 1..Cardinality(S) : SetToSeq(S)[i] = SetToSeq(S)[j] => i = j
           /\ \A x \in S : \E i \in 1..Cardinality(S) : SetToSeq(S)[i] = x
<1>1. PICK k \in Nat : k = Cardinality(S)
  BY FS_CardinalityType
<1>2. ExistsBijection(1..k, S)
  BY <1>1, FS_CardinalityType
<1>3. PICK g \in Bijection(1..k, S) : TRUE
  BY <1>2 DEF ExistsBijection
<1>4. g \in [1..k -> S] /\ IsInjective(g)
  BY <1>3 DEF Bijection, Injection, IsInjective
<1>5. PICK f : f = SetToSeq(S)
  OBVIOUS
<1>6. f \in [1..k -> S] /\ IsInjective(f)
  <2>1. f = CHOOSE h \in [1..k -> S] : IsInjective(h)
    BY <1>1, <1>5 DEF SetToSeq
  <2>. QED
    BY <1>4, <2>1
<1>7. f \in Injection(1..k, S)
  BY <1>6 DEF Injection, IsInjective
<1>8. Cardinality(1..k) = Cardinality(S) /\ IsFiniteSet(1..k)
  BY <1>1, FS_Interval
<1>9. f \in Surjection(1..k, S)
  BY <1>7, <1>8, FS_Injection
<1>10. \A x \in S : \E i \in 1..k : f[i] = x
  BY <1>9 DEF Surjection
<1>11. f \in Seq(S)
  BY <1>6, SeqDef
<1>12. \A i, j \in 1..k : f[i] = f[j] => i = j
  BY <1>6 DEF IsInjective
<1>. QED
  BY <1>1, <1>5, <1>6, <1>10, <1>11, <1>12

(* The events with which a cancelled run ends.                               *)
EndedBy(events, new) == new = Append(CloseOpenTools(events), Event("cancelled", NoTool))

(* The events of a cancelled run: those it had, one for every open tool call *)
(* and the end.                                                              *)
Closes(events, new, L, k, open) ==
    /\ L = Len(events) /\ DOMAIN events = 1..L
    /\ \A i, j \in 1..k : open[i] = open[j] => i = j
    /\ \A t \in OpenTools(events) : \E i \in 1..k : open[i] = t
    /\ new \in Seq(AgentEvents) /\ Len(new) = L + k + 1 /\ DOMAIN new = 1..(L + k + 1)
    /\ \A n \in 1..L : new[n] = events[n]
    /\ \A i \in 1..k : new[L + i].tool = open[i]
    /\ \A i \in 1..k : new[L + i].type = IF Started(events, L + 1, open[i]) THEN "result" ELSE "blocked"
    /\ new[L + k + 1] = Event("cancelled", NoTool)

(* A cancelled run: its events, one closing event for every tool call that   *)
(* is open, and the end.                                                     *)
LEMMA Cancelled ==
    ASSUME NEW events \in Seq(AgentEvents), NEW new,
           EndedBy(events, new)
    PROVE  \E L \in Nat, k \in Nat : \E open \in [1..k -> OpenTools(events)] : Closes(events, new, L, k, open)
<1>1. PICK S : S = OpenTools(events)
  OBVIOUS
<1>2. S \subseteq Tools /\ IsFiniteSet(S)
  BY <1>1, AgentAssumption, FS_Subset DEF OpenTools
<1>3. PICK open : open = SetToSeq(S)
  OBVIOUS
<1>4. PICK k \in Nat : k = Cardinality(S)
  BY <1>2, FS_CardinalityType
<1>5. /\ open \in [1..k -> S] /\ open \in Seq(S)
      /\ \A i, j \in 1..k : open[i] = open[j] => i = j
      /\ \A x \in S : \E i \in 1..k : open[i] = x
  BY <1>2, <1>3, <1>4, Enumerated
<1>6. Len(open) = k
  BY <1>5, LenProperties
<1>7. PICK L \in Nat : L = Len(events) /\ DOMAIN events = 1..L
  <2> HIDE DEF AgentEvents
  <2>. QED
    BY LenProperties
<1> DEFINE closing(t) == Event(IF Started(events, L + 1, t) THEN "result" ELSE "blocked", t)
<1>8. PICK c : c = [i \in 1..k |-> closing(open[i])]
  OBVIOUS
<1>9. CloseOpenTools(events) = events \o c
  BY <1>1, <1>3, <1>6, <1>7, <1>8 DEF CloseOpenTools, Event
<1>10. \A i \in 1..k : closing(open[i]) \in AgentEvents
  BY <1>2, <1>5 DEF AgentEvents, Event, ToolEvents
<1>11. c \in Seq(AgentEvents) /\ Len(c) = k /\ \A i \in 1..k : c[i] = closing(open[i])
  <2> HIDE DEF closing, AgentEvents
  <2>1. c \in Seq(AgentEvents)
    BY <1>8, <1>10, SeqDef
  <2>. QED
    BY <1>8, <2>1, LenProperties
<1>12. Event("cancelled", NoTool) \in AgentEvents
  BY DEF AgentEvents, Event
<1>13. PICK s : s = events \o c
  OBVIOUS
<1>14. /\ s \in Seq(AgentEvents) /\ Len(s) = L + k
       /\ \A n \in 1..L : s[n] = events[n]
       /\ \A i \in 1..k : s[L + i] = closing(open[i])
  <2> HIDE DEF closing, AgentEvents
  <2>1. /\ s \in Seq(AgentEvents) /\ Len(s) = L + k
        /\ \A i \in 1..(L + k) : s[i] = IF i <= L THEN events[i] ELSE c[i - L]
    BY <1>7, <1>11, <1>13, ConcatProperties
  <2>2. \A i \in 1..k : L + i \in 1..(L + k) /\ ~(L + i <= L) /\ (L + i) - L = i
    OBVIOUS
  <2>3. \A i \in 1..k : s[L + i] = c[i]
    BY <2>1, <2>2
  <2>4. \A n \in 1..L : s[n] = events[n]
    BY <2>1
  <2>. QED
    BY <1>11, <2>1, <2>3, <2>4
<1>15. /\ new \in Seq(AgentEvents) /\ Len(new) = L + k + 1
       /\ \A n \in 1..(L + k) : new[n] = s[n]
       /\ new[L + k + 1] = Event("cancelled", NoTool)
  <2>1. PICK e \in AgentEvents : e = Event("cancelled", NoTool)
    BY <1>12
  <2> HIDE DEF AgentEvents
  <2>2. new = Append(s, e)
    BY <1>9, <1>13, <2>1 DEF EndedBy
  <2>3. s \in Seq(AgentEvents) /\ Len(s) = L + k
    BY <1>14
  <2>4. /\ new \in Seq(AgentEvents) /\ Len(new) = Len(s) + 1 /\ new[Len(s) + 1] = e
        /\ \A n \in 1..Len(s) : new[n] = s[n]
    <3>1. /\ Append(s, e) \in Seq(AgentEvents) /\ Len(Append(s, e)) = Len(s) + 1
          /\ Append(s, e)[Len(s) + 1] = e
          /\ \A n \in 1..Len(s) : Append(s, e)[n] = s[n]
      BY <2>1, <2>3, AppendProperties
    <3>. QED
      BY <2>2, <3>1
  <2>. QED
    BY <2>1, <2>3, <2>4
<1>16. DOMAIN new = 1..(L + k + 1)
  <2> HIDE DEF AgentEvents
  <2>. QED
    BY <1>15, LenProperties
<1>17. \A i \in 1..k : L + i \in 1..(L + k)
  OBVIOUS
<1>18. /\ \A n \in 1..L : new[n] = events[n]
       /\ \A i \in 1..k : new[L + i] = closing(open[i])
  BY <1>14, <1>15, <1>17
<1>19. \A i \in 1..k : /\ new[L + i].tool = open[i]
                       /\ new[L + i].type = IF Started(events, L + 1, open[i]) THEN "result" ELSE "blocked"
  <2>1. \A type, tool : Event(type, tool).type = type /\ Event(type, tool).tool = tool
    BY DEF Event
  <2>. QED
    BY <1>18, <2>1
<1>20. Closes(events, new, L, k, open)
  <2> HIDE DEF closing, AgentEvents
  <2>. QED
    BY <1>1, <1>5, <1>7, <1>15, <1>16, <1>18, <1>19 DEF Closes
<1>. QED
  BY <1>1, <1>5, <1>20

(* Events that close those of a running stream keep its contract.            *)
LEMMA ClosedKeeps ==
    ASSUME NEW events, NEW new, NEW L \in Nat, NEW k \in Nat, NEW open \in [1..k -> OpenTools(events)],
           events \in Seq(AgentEvents), Len(events) > 0, KeepsContract(events, "running"),
           Closes(events, new, L, k, open)
    PROVE  new \in Seq(AgentEvents) /\ Len(new) > 0 /\ KeepsContract(new, "cancelled")
<1>21. L = Len(events) /\ DOMAIN events = 1..L /\ L >= 1
  BY DEF Closes
<1>22. \A i, j \in 1..k : open[i] = open[j] => i = j
  BY DEF Closes
<1>23. \A t \in OpenTools(events) : \E i \in 1..k : open[i] = t
  BY DEF Closes
<1>24. new \in Seq(AgentEvents) /\ Len(new) = L + k + 1 /\ DOMAIN new = 1..(L + k + 1)
  BY DEF Closes
<1>25. \A n \in 1..L : new[n] = events[n]
  BY DEF Closes
<1>26. \A i \in 1..k :
          /\ new[L + i].tool = open[i]
          /\ new[L + i].type = IF Started(events, L + 1, open[i]) THEN "result" ELSE "blocked"
  BY DEF Closes
<1>27. new[L + k + 1] = Event("cancelled", NoTool)
  BY DEF Closes
<1>3. PICK N \in Nat : N = L + k + 1
  OBVIOUS
<1>4. DOMAIN new = 1..N /\ Len(new) = N /\ L >= 1 /\ new[N] = Event("cancelled", NoTool)
      /\ 1..L \subseteq 1..N /\ N \in 1..N /\ N \notin 1..L
  BY <1>3, <1>21, <1>24, <1>27
<1>5. \A n \in 1..N : n \in 1..L \/ n = N \/ \E i \in 1..k : n = L + i
  <2>. SUFFICES ASSUME NEW n \in 1..N, n \notin 1..L, n # N PROVE \E i \in 1..k : n = L + i
    OBVIOUS
  <2>1. n - L \in 1..k /\ n = L + (n - L)
    BY <1>3
  <2>. QED
    BY <2>1
<1>6. DOMAIN TerminalState = {"completed", "failed", "cancelled"}
  BY DEF TerminalState
<1>7. /\ \A n \in 1..L : (events[n].type = "started") <=> (n = 1)
      /\ \A n \in 1..L : events[n].type \notin DOMAIN TerminalState
      /\ \A n \in 1..L : events[n].tool \in Tools <=> events[n].type \in ToolEvents
      /\ \A n, m \in 1..L : events[n] = events[m] => n = m
      /\ \A n \in 1..L : events[n].type \in {"blocked", "started_tool"} =>
            \E m \in 1..L : m < n /\ events[m] = Event("requested", events[n].tool)
      /\ \A n \in 1..L : events[n].type = "result" =>
            \E m \in 1..L : m < n /\ events[m] = Event("started_tool", events[n].tool)
      /\ \A n, m \in 1..L : events[n].type = "blocked" => events[m] # Event("started_tool", events[n].tool)
  BY <1>21 DEF KeepsContract
<1>8. \A n \in 1..L : events[n] = Event(events[n].type, events[n].tool)
  <2>1. \A n \in 1..L : events[n] \in AgentEvents
    <3> HIDE DEF AgentEvents
    <3>. QED
      BY <1>21, ElementOfSeq
  <2>. QED
    BY <2>1 DEF AgentEvents, Event
<1>9. \A i \in 1..k :
         /\ open[i] \in Tools /\ new[L + i].tool = open[i]
         /\ new[L + i].type \in {"result", "blocked"}
         /\ \E m \in 1..L : events[m] = Event("requested", open[i])
         /\ \A m \in 1..L : events[m] # Event("blocked", open[i]) /\ events[m] # Event("result", open[i])
         /\ new[L + i].type = "result" => \E m \in 1..L : events[m] = Event("started_tool", open[i])
         /\ new[L + i].type = "blocked" => \A m \in 1..L : events[m] # Event("started_tool", open[i])
  <2>. SUFFICES ASSUME NEW i \in 1..k
                PROVE  /\ open[i] \in Tools /\ new[L + i].tool = open[i]
                       /\ new[L + i].type \in {"result", "blocked"}
                       /\ \E m \in 1..L : events[m] = Event("requested", open[i])
                       /\ \A m \in 1..L : events[m] # Event("blocked", open[i]) /\ events[m] # Event("result", open[i])
                       /\ new[L + i].type = "result" => \E m \in 1..L : events[m] = Event("started_tool", open[i])
                       /\ new[L + i].type = "blocked" => \A m \in 1..L : events[m] # Event("started_tool", open[i])
    OBVIOUS
  <2>1. open[i] \in OpenTools(events) /\ 1..((L + 1) - 1) = 1..L
    OBVIOUS
  <2>2. open[i] \in Tools /\ Requested(events, L + 1, open[i]) /\ ~Finished(events, L + 1, open[i])
    BY <1>21, <2>1 DEF OpenTools
  <2>3. /\ new[L + i].tool = open[i]
        /\ new[L + i].type = IF Started(events, L + 1, open[i]) THEN "result" ELSE "blocked"
    BY <1>26
  <2>. QED
    BY <2>1, <2>2, <2>3 DEF Requested, Finished, Started, Before
<1>10. \A i \in 1..k : L + i \in 1..N /\ L + i > L /\ L + i # N
  BY <1>3
<1>11. new[N].type = "cancelled" /\ new[N].tool = NoTool
  BY <1>4 DEF Event
<1>12. \A n \in 1..N : (new[n].type = "started") <=> (n = 1)
  <2>1. \A n \in 1..L : (new[n].type = "started") <=> (n = 1)
    BY <1>7, <1>25
  <2>2. \A i \in 1..k : new[L + i].type # "started" /\ L + i # 1
    <3>. SUFFICES ASSUME NEW i \in 1..k PROVE new[L + i].type # "started" /\ L + i # 1
      OBVIOUS
    <3>1. new[L + i].type \in {"result", "blocked"}
      BY <1>9
    <3>2. L + i # 1
      BY <1>21
    <3>. QED
      BY <3>1, <3>2
  <2>3. N # 1
    BY <1>3, <1>4
  <2>. QED
    BY <1>5, <1>11, <2>1, <2>2, <2>3
<1>13. \A n \in 1..N : new[n].type \in DOMAIN TerminalState => n = N
  <2>1. \A n \in 1..L : new[n].type \notin DOMAIN TerminalState
    BY <1>7, <1>25
  <2>2. \A i \in 1..k : new[L + i].type \notin DOMAIN TerminalState
    <3>. SUFFICES ASSUME NEW i \in 1..k PROVE new[L + i].type \notin DOMAIN TerminalState
      OBVIOUS
    <3>1. new[L + i].type \in {"result", "blocked"}
      BY <1>9
    <3>. QED
      BY <1>6, <3>1
  <2>. QED
    BY <1>5, <2>1, <2>2
<1>14. \A n \in 1..N : new[n].tool \in Tools <=> new[n].type \in ToolEvents
  <2>1. \A n \in 1..L : new[n].tool \in Tools <=> new[n].type \in ToolEvents
    BY <1>7, <1>25
  <2>2. \A i \in 1..k : new[L + i].tool \in Tools /\ new[L + i].type \in ToolEvents
    BY <1>9 DEF ToolEvents
  <2>3. new[N].tool \notin Tools /\ new[N].type \notin ToolEvents
    BY <1>11, AgentAssumption DEF ToolEvents
  <2>. QED
    BY <1>5, <2>1, <2>2, <2>3
<1>15. \A n, m \in 1..N : new[n] = new[m] => n = m
  <2>1. \A n \in 1..L : \A i \in 1..k : new[n] # new[L + i]
    <3>. SUFFICES ASSUME NEW n \in 1..L, NEW i \in 1..k, new[n] = new[L + i] PROVE FALSE
      OBVIOUS
    <3>2. events[n] = Event(events[n].type, events[n].tool) /\ events[n] = new[L + i]
      BY <1>8, <1>25
    <3>3. new[L + i].tool = open[i]
      BY <1>26
    <3>1. events[n] = Event(new[L + i].type, open[i])
      BY <3>2, <3>3
    <3>4. new[L + i].type \in {"result", "blocked"}
      BY <1>9
    <3>5. events[n] # Event("blocked", open[i]) /\ events[n] # Event("result", open[i])
      BY <1>9
    <3>. QED
      BY <3>1, <3>4, <3>5
  <2>2. \A n \in 1..L : new[n] # new[N]
    BY <1>6, <1>7, <1>11, <1>25
  <2>3. \A i \in 1..k : new[L + i] # new[N]
    BY <1>9, <1>11
  <2>4. \A i, j \in 1..k : new[L + i] = new[L + j] => L + i = L + j
    BY <1>22, <1>26
  <2>5. \A n, m \in 1..L : new[n] = new[m] => n = m
    <3>. SUFFICES ASSUME NEW n \in 1..L, NEW m \in 1..L, new[n] = new[m] PROVE n = m
      OBVIOUS
    <3>1. events[n] = events[m]
      BY <1>25
    <3>. QED
      BY <1>7, <3>1
  <2>. SUFFICES ASSUME NEW n \in 1..N, NEW m \in 1..N, new[n] = new[m] PROVE n = m
    OBVIOUS
  <2>6. CASE n \in 1..L
    BY <1>5, <2>1, <2>2, <2>5, <2>6
  <2>7. CASE n = N
    BY <1>5, <2>2, <2>3, <2>7
  <2>8. CASE \E i \in 1..k : n = L + i
    BY <1>5, <2>1, <2>3, <2>4, <2>8
  <2>. QED
    BY <1>5, <2>6, <2>7, <2>8
<1>16. \A n \in 1..N : new[n].type \in {"blocked", "started_tool"} =>
            \E m \in 1..N : m < n /\ new[m] = Event("requested", new[n].tool)
  <2>1. \A n \in 1..L : new[n].type \in {"blocked", "started_tool"} =>
            \E m \in 1..L : m < n /\ new[m] = Event("requested", new[n].tool)
    BY <1>7, <1>25
  <2>2. \A i \in 1..k : \E m \in 1..L : m < L + i /\ new[m] = Event("requested", new[L + i].tool)
    <3>. SUFFICES ASSUME NEW i \in 1..k
                  PROVE  \E m \in 1..L : m < L + i /\ new[m] = Event("requested", new[L + i].tool)
      OBVIOUS
    <3>1. PICK m \in 1..L : events[m] = Event("requested", open[i])
      BY <1>9
    <3>2. new[m] = events[m]
      BY <1>25
    <3>3. new[L + i].tool = open[i]
      BY <1>26
    <3>4. m < L + i
      OBVIOUS
    <3>. QED
      BY <3>1, <3>2, <3>3, <3>4
  <2>3. new[N].type \notin {"blocked", "started_tool"} /\ 1..L \subseteq 1..N
    BY <1>4, <1>11
  <2>. SUFFICES ASSUME NEW n \in 1..N, new[n].type \in {"blocked", "started_tool"}
                PROVE  \E m \in 1..L : m < n /\ new[m] = Event("requested", new[n].tool)
    BY <2>3
  <2>4. CASE n \in 1..L
    BY <2>1, <2>4
  <2>5. CASE \E i \in 1..k : n = L + i
    BY <2>2, <2>5
  <2>. QED
    BY <1>5, <2>3, <2>4, <2>5
<1>17. \A n \in 1..N : new[n].type = "result" =>
            \E m \in 1..N : m < n /\ new[m] = Event("started_tool", new[n].tool)
  <2>1. \A n \in 1..L : new[n].type = "result" =>
            \E m \in 1..L : m < n /\ new[m] = Event("started_tool", new[n].tool)
    BY <1>7, <1>25
  <2>2. \A i \in 1..k : new[L + i].type = "result" =>
            \E m \in 1..L : m < L + i /\ new[m] = Event("started_tool", new[L + i].tool)
    <3>. SUFFICES ASSUME NEW i \in 1..k, new[L + i].type = "result"
                  PROVE  \E m \in 1..L : m < L + i /\ new[m] = Event("started_tool", new[L + i].tool)
      OBVIOUS
    <3>1. PICK m \in 1..L : events[m] = Event("started_tool", open[i])
      BY <1>9
    <3>2. new[m] = events[m] /\ new[L + i].tool = open[i] /\ m < L + i
      BY <1>25, <1>26
    <3>. QED
      BY <3>1, <3>2
  <2>3. new[N].type # "result" /\ 1..L \subseteq 1..N
    BY <1>4, <1>11
  <2>. SUFFICES ASSUME NEW n \in 1..N, new[n].type = "result"
                PROVE  \E m \in 1..L : m < n /\ new[m] = Event("started_tool", new[n].tool)
    BY <2>3
  <2>4. CASE n \in 1..L
    BY <2>1, <2>4
  <2>5. CASE \E i \in 1..k : n = L + i
    BY <2>2, <2>5
  <2>. QED
    BY <1>5, <2>3, <2>4, <2>5
<1>18. \A n, m \in 1..N : new[n].type = "blocked" => new[m] # Event("started_tool", new[n].tool)
  <2>1. \A m \in 1..N : \A t : new[m] = Event("started_tool", t) => m \in 1..L
    <3>. SUFFICES ASSUME NEW m \in 1..N, NEW t, new[m] = Event("started_tool", t), m \notin 1..L PROVE FALSE
      OBVIOUS
    <3>1. new[m].type = "started_tool"
      BY DEF Event
    <3>2. m # N
      BY <1>11, <3>1
    <3>3. PICK i \in 1..k : m = L + i
      BY <1>5, <3>2
    <3>4. new[L + i].type \in {"result", "blocked"}
      BY <1>9
    <3>. QED
      BY <3>1, <3>3, <3>4
  <2>2. \A n, m \in 1..L : new[n].type = "blocked" => new[m] # Event("started_tool", new[n].tool)
    BY <1>7, <1>25
  <2>3. \A i \in 1..k : \A m \in 1..L : new[L + i].type = "blocked" => new[m] # Event("started_tool", new[L + i].tool)
    <3>. SUFFICES ASSUME NEW i \in 1..k, NEW m \in 1..L, new[L + i].type = "blocked"
                  PROVE  new[m] # Event("started_tool", new[L + i].tool)
      OBVIOUS
    <3>1. events[m] # Event("started_tool", open[i])
      BY <1>9
    <3>2. new[m] = events[m] /\ new[L + i].tool = open[i]
      BY <1>25, <1>26
    <3>. QED
      BY <3>1, <3>2
  <2>. QED
    BY <1>5, <1>11, <2>1, <2>2, <2>3
<1>19. \A n \in 1..N : new[n].type = "requested" =>
             \E m \in 1..N : new[m].type \in {"blocked", "result"} /\ new[m].tool = new[n].tool
  <2>. SUFFICES ASSUME NEW n \in 1..N, new[n].type = "requested"
                PROVE  \E m \in 1..N : new[m].type \in {"blocked", "result"} /\ new[m].tool = new[n].tool
    OBVIOUS
  <2>1. n \in 1..L
    BY <1>5, <1>9, <1>11
  <2>2. PICK t : t = new[n].tool
    OBVIOUS
  <2>3. t \in Tools /\ events[n] = Event("requested", t)
    BY <1>7, <1>25, <1>8, <2>1, <2>2 DEF ToolEvents
  <2>4. 1..((L + 1) - 1) = 1..L
    OBVIOUS
  <2>5. CASE t \in OpenTools(events)
    <3>1. PICK i \in 1..k : open[i] = t
      BY <1>23, <2>5
    <3>. QED
      <4>1. new[L + i].tool = open[i] /\ new[L + i].type \in {"result", "blocked"}
        BY <1>9
      <4>2. L + i \in 1..N
        BY <1>10
      <4>. QED
        BY <2>2, <3>1, <4>1, <4>2
  <2>6. CASE t \notin OpenTools(events)
    <3>1. Requested(events, L + 1, t)
      BY <2>1, <2>3, <2>4 DEF Requested, Before
    <3>2. Finished(events, L + 1, t)
      BY <1>21, <2>3, <2>6, <3>1 DEF OpenTools
    <3>3. PICK m \in 1..L : events[m] = Event("blocked", t) \/ events[m] = Event("result", t)
      BY <2>4, <3>2 DEF Finished, Before
    <3>4. new[m].type \in {"blocked", "result"} /\ new[m].tool = t
      BY <1>25, <3>3 DEF Event
    <3>. QED
      BY <1>4, <2>2, <3>3, <3>4
  <2>. QED
    BY <2>5, <2>6
<1>20. \E n \in 1..N : new[n].type \in DOMAIN TerminalState
  BY <1>4, <1>6, <1>11
<1>28. KeepsContract(new, "cancelled")
  <2>1. Len(new) = N /\ DOMAIN new = 1..N
    BY <1>4
  <2>. QED
    <3>1. PICK D : D = DOMAIN new
      OBVIOUS
    <3>2. PICK T : T = DOMAIN TerminalState
      OBVIOUS
    <3>3. /\ \A n \in D : (new[n].type = "started") <=> (n = 1)
          /\ \A n \in D : new[n].type \in T => n = Len(new)
          /\ \A n \in D : new[n].tool \in Tools <=> new[n].type \in ToolEvents
          /\ \A n, m \in D : new[n] = new[m] => n = m
      BY <2>1, <3>1, <3>2, <1>12, <1>13, <1>14, <1>15
    <3>4. /\ \A n \in D : new[n].type \in {"blocked", "started_tool"} =>
                \E m \in D : m < n /\ new[m] = Event("requested", new[n].tool)
          /\ \A n \in D : new[n].type = "result" =>
                \E m \in D : m < n /\ new[m] = Event("started_tool", new[n].tool)
          /\ \A n, m \in D : new[n].type = "blocked" => new[m] # Event("started_tool", new[n].tool)
      BY <2>1, <3>1, <1>16, <1>17, <1>18
    <3>5. /\ \A n \in D : new[n].type = "requested" =>
                \E m \in D : new[m].type \in {"blocked", "result"} /\ new[m].tool = new[n].tool
          /\ \E n \in D : new[n].type \in T
      BY <2>1, <3>1, <3>2, <1>19, <1>20
    <3>6. "cancelled" \notin {"none", "running"}
      OBVIOUS
    <3>. QED
      BY <3>1, <3>2, <3>3, <3>4, <3>5, <3>6 DEF KeepsContract
<1>. QED
  BY <1>4, <1>24, <1>28

(* _close_open_tool_calls and the end of the stream keep its contract.       *)
LEMMA CancelKeepsContract ==
    ASSUME NEW events \in Seq(AgentEvents), Len(events) > 0, KeepsContract(events, "running"),
           NEW new, EndedBy(events, new)
    PROVE  new \in Seq(AgentEvents) /\ Len(new) > 0 /\ KeepsContract(new, "cancelled")
<1>1. PICK L \in Nat, k \in Nat : \E open \in [1..k -> OpenTools(events)] : Closes(events, new, L, k, open)
  BY Cancelled
<1>2. PICK open \in [1..k -> OpenTools(events)] : Closes(events, new, L, k, open)
  BY <1>1
<1>. QED
  BY <1>2, ClosedKeeps

(* What a step of one call may do to the calls, the ledger and the run.      *)
CallStep(o) ==
    /\ operation' \in [Operations -> OperationRecords]
    /\ \A q \in Operations : q # o => operation'[q] = operation[q]
    /\ operation[o].pc # "answered" /\ operation'[o].pc # "idle"
    /\ operation[o].pc # "idle" =>
          /\ operation'[o].kind = operation[o].kind
          /\ operation'[o].variant = operation[o].variant
          /\ operation'[o].proof = operation[o].proof
LedgerStep(o) ==
    /\ ledger' \in Seq(Receipts)
    /\ \A i \in DOMAIN ledger : i \in DOMAIN ledger' /\ ledger'[i] = ledger[i]
    /\ \A i \in DOMAIN ledger' : i \notin DOMAIN ledger =>
          /\ i = Len(ledger) + 1 /\ ledger'[i].operation = o
          /\ ledger'[i].phase = "outcome" => operation'[o].pc = "answered"
RunStep ==
    agentRun.state # "none" => agentRun'.state # "none" /\ agentRun'.variant = agentRun.variant

(* A call and the receipt of its authorization, on which a run stands.       *)
Stands(q, kind) == operation[q].kind = kind /\ operation[q].pc # "idle" /\ Allowed(q)

(* The ledger has receipts, at its positions.                                *)
LEMMA LedgerTypes ==
    ASSUME ledger \in Seq(Receipts)
    PROVE  Len(ledger) \in Nat /\ DOMAIN ledger = 1..Len(ledger) /\ \A i \in DOMAIN ledger : ledger[i] \in Receipts
<1> HIDE DEF Receipts
<1>. QED
  BY LenProperties, ElementOfSeq

(* A step of a call takes away nothing on which a run stands.                *)
LEMMA StandsOn ==
    ASSUME LedgerInv, NEW o \in Operations, CallStep(o), LedgerStep(o)
    PROVE  \A q \in Operations : \A kind : Stands(q, kind) =>
              /\ Stands(q, kind)'
              /\ operation'[q].variant = operation[q].variant /\ operation'[q].proof = operation[q].proof
<1>. SUFFICES ASSUME NEW q \in Operations, NEW kind, Stands(q, kind)
              PROVE  /\ Stands(q, kind)'
                     /\ operation'[q].variant = operation[q].variant /\ operation'[q].proof = operation[q].proof
  OBVIOUS
<1>1. PICK i \in 1..Len(ledger) : ledger[i] = Receipt(q, "authorization", "allow")
  BY DEF Stands, Allowed
<1>2. i \in DOMAIN ledger
  BY LedgerTypes DEF LedgerInv
<1>3. i \in DOMAIN ledger' /\ ledger'[i] = Receipt(q, "authorization", "allow")
  BY <1>1, <1>2 DEF LedgerStep
<1>4. DOMAIN ledger' = 1..Len(ledger')
  <2> HIDE DEF Receipts
  <2>. QED
    BY LenProperties DEF LedgerStep
<1>5. Allowed(q)'
  BY <1>3, <1>4 DEF Allowed, Receipt
<1>6. operation[q].kind = kind /\ operation[q].pc # "idle"
  BY DEF Stands
<1>7. CASE q = o
  <2>1. /\ operation'[q].kind = operation[q].kind /\ operation'[q].pc # "idle"
        /\ operation'[q].variant = operation[q].variant /\ operation'[q].proof = operation[q].proof
    BY <1>6, <1>7 DEF CallStep
  <2>. QED
    BY <1>5, <1>6, <2>1 DEF Stands
<1>8. CASE q # o
  <2>1. operation'[q] = operation[q]
    BY <1>8 DEF CallStep
  <2>. QED
    BY <1>5, <1>6, <2>1 DEF Stands
<1>. QED
  BY <1>7, <1>8

(* A step of a call leaves the ledger in order.                              *)
LEMMA LedgerKept ==
    ASSUME LedgerInv, NEW o \in Operations, CallStep(o), LedgerStep(o)
    PROVE  LedgerInv'
<1>1. ledger' \in Seq(Receipts)
  BY DEF LedgerStep
<1>2. ASSUME NEW i \in DOMAIN ledger', ledger'[i].phase = "outcome"
      PROVE  operation'[ledger'[i].operation].pc = "answered"
  <2>1. CASE i \in DOMAIN ledger
    <3>1. ledger'[i] = ledger[i]
      BY <2>1 DEF LedgerStep
    <3>2. PICK q : q = ledger[i].operation
      OBVIOUS
    <3>3. q \in Operations /\ operation[q].pc = "answered"
      BY <1>2, <2>1, <3>1, <3>2, LedgerTypes DEF LedgerInv, Receipts
    <3>4. operation'[q] = operation[q]
      BY <3>3 DEF CallStep
    <3>. QED
      BY <3>1, <3>2, <3>3, <3>4
  <2>2. CASE i \notin DOMAIN ledger
    BY <1>2, <2>2 DEF LedgerStep
  <2>. QED
    BY <2>1, <2>2
<1>. QED
  BY <1>1, <1>2 DEF LedgerInv

(* A step of a call changes nothing of what holds of another.                *)
LEMMA OthersKept ==
    ASSUME LedgerInv, NEW o \in Operations, CallStep(o), LedgerStep(o), RunStep,
           NEW q \in Operations, q # o, OperationInv(q)
    PROVE  OperationInv(q)'
<1>1. operation'[q] = operation[q]
  BY DEF CallStep
<1>2. PICK op : op = operation[q]
  OBVIOUS
<1>3. \A i \in DOMAIN ledger : i \in DOMAIN ledger' /\ ledger'[i] = ledger[i]
  BY DEF LedgerStep
<1>4. op.pc \in {"preflight", "act", "record"} =>
          /\ op.receipt \in DOMAIN ledger' /\ ledger'[op.receipt] = Receipt(q, "authorization", "allow")
          /\ op.answer = "none"
  BY <1>2, <1>3 DEF OperationInv
<1>5. /\ op.pc # "idle" => (op.kind = "cancel" <=> op.proof # NoProof)
      /\ op.pc \in {"idle", "preflight", "act"} => op.outcome = "none"
      /\ op.pc = "idle" => op.answer = "none"
      /\ op.pc = "record" => op.outcome \in {"success", "failure"}
  BY <1>2 DEF OperationInv
<1>6. ASSUME op.answer \in {"success", "failure"}
      PROVE  /\ op.receipt + 1 \in DOMAIN ledger'
             /\ ledger'[op.receipt + 1] = Receipt(q, "outcome", op.answer)
             /\ \A i \in DOMAIN ledger' : ledger'[i].operation = q /\ ledger'[i].phase = "outcome" => i = op.receipt + 1
  <2>1. /\ op.receipt + 1 \in DOMAIN ledger /\ ledger[op.receipt + 1] = Receipt(q, "outcome", op.answer)
        /\ \A i \in DOMAIN ledger : ledger[i].operation = q /\ ledger[i].phase = "outcome" => i = op.receipt + 1
    BY <1>2, <1>6 DEF OperationInv
  <2>2. \A i \in DOMAIN ledger' : ledger'[i].operation = q => i \in DOMAIN ledger
    BY DEF LedgerStep
  <2>. QED
    BY <1>3, <2>1, <2>2
<1>7. op.kind = "start" /\ op.outcome = "success" =>
          agentRun'.state # "none" /\ op.variant = agentRun'.variant
  BY <1>2 DEF OperationInv, RunStep
<1>. QED
  BY <1>1, <1>2, <1>4, <1>5, <1>6, <1>7 DEF OperationInv, Receipt

(* A run that a step of a call leaves alone.                                 *)
LEMMA RunKept ==
    ASSUME LedgerInv, RunInv, NEW o \in Operations, CallStep(o), LedgerStep(o), UNCHANGED agentRun
    PROVE  RunInv'
<1>1. agentRun.state # "none" => \E q \in Operations : Stands(q, "start") /\ operation[q].variant = agentRun.variant
  BY DEF RunInv, Stands
<1>2. agentRun.state = "cancelled" => \E q \in Operations : Stands(q, "cancel") /\ operation[q].proof = agentRun.proof
  BY DEF RunInv, Stands
<1>3. agentRun'.state # "none" =>
         \E q \in Operations : Stands(q, "start")' /\ operation'[q].variant = agentRun'.variant
  BY <1>1, StandsOn
<1>4. agentRun'.state = "cancelled" =>
         \E q \in Operations : Stands(q, "cancel")' /\ operation'[q].proof = agentRun'.proof
  BY <1>2, StandsOn
<1>5. KeepsContract(agentRun.events, agentRun.state)
  BY DEF RunInv
<1>6. KeepsContract(agentRun.events, agentRun.state)'
  BY <1>5 DEF KeepsContract, Event
<1>. QED
  BY <1>3, <1>4, <1>6 DEF RunInv, Stands

(* The calls that have come are the first ones.                              *)
CallOrder == \E n \in 0..MaxCalls : \A o \in Operations : operation[o].pc # "idle" <=> o <= n

(* What the audit sink does with a receipt.                                  *)
RecordsAs(result, r) == ledger' = Recorded(result, r)

(* The audit sink appends the receipt once, or not at all.                   *)
LEMMA RecordedOnce ==
    ASSUME ledger \in Seq(Receipts), NEW r \in Receipts, NEW result \in AuditResults, RecordsAs(result, r)
    PROVE  /\ result = "raised" => ledger' = ledger
           /\ result # "raised" =>
                 /\ ledger' \in Seq(Receipts) /\ Len(ledger') = Len(ledger) + 1
                 /\ DOMAIN ledger' = 1..(Len(ledger) + 1)
                 /\ \A i \in DOMAIN ledger : i \in DOMAIN ledger' /\ ledger'[i] = ledger[i]
                 /\ ledger'[Len(ledger) + 1] = r
<1> HIDE DEF Receipts
<1>1. CASE result = "raised"
  BY <1>1 DEF RecordsAs, Recorded
<1>2. CASE result # "raised"
  <2>1. ledger' = Append(ledger, r)
    BY <1>2 DEF RecordsAs, Recorded
  <2>2. /\ Append(ledger, r) \in Seq(Receipts) /\ Len(Append(ledger, r)) = Len(ledger) + 1
        /\ Append(ledger, r)[Len(ledger) + 1] = r
        /\ \A n \in 1..Len(ledger) : Append(ledger, r)[n] = ledger[n]
    BY AppendProperties
  <2>3. /\ ledger' \in Seq(Receipts) /\ Len(ledger') = Len(ledger) + 1
        /\ ledger'[Len(ledger) + 1] = r
        /\ \A n \in 1..Len(ledger) : ledger'[n] = ledger[n]
    BY <2>1, <2>2
  <2>4. DOMAIN ledger' = 1..(Len(ledger) + 1) /\ DOMAIN ledger = 1..Len(ledger) /\ Len(ledger) \in Nat
    BY <2>3, LenProperties
  <2>. QED
    BY <1>2, <2>3, <2>4
<1>. QED
  BY <1>1, <1>2

(* A receipt that is recorded is a step of the ledger.                       *)
LEMMA RecordedStep ==
    ASSUME ledger \in Seq(Receipts), NEW o, NEW r \in Receipts, NEW result \in AuditResults, RecordsAs(result, r),
           r.operation = o, r.phase = "outcome" => operation'[o].pc = "answered"
    PROVE  LedgerStep(o)
<1>1. CASE result = "raised"
  <2>1. ledger' = ledger
    BY <1>1, RecordedOnce
  <2>. QED
    BY <2>1 DEF LedgerStep
<1>2. CASE result # "raised"
  <2>1. /\ ledger' \in Seq(Receipts)
        /\ DOMAIN ledger' = 1..(Len(ledger) + 1)
        /\ \A i \in DOMAIN ledger : i \in DOMAIN ledger' /\ ledger'[i] = ledger[i]
        /\ ledger'[Len(ledger) + 1] = r
    BY <1>2, RecordedOnce
  <2>2. DOMAIN ledger = 1..Len(ledger) /\ Len(ledger) \in Nat
    BY LedgerTypes
  <2>3. \A i \in DOMAIN ledger' : i \notin DOMAIN ledger => i = Len(ledger) + 1
    BY <2>1, <2>2
  <2>. QED
    BY <2>1, <2>3 DEF LedgerStep
<1>. QED
  BY <1>1, <1>2

(* A ledger that is left alone.                                              *)
LEMMA LedgerAlone ==
    ASSUME LedgerInv, UNCHANGED ledger, NEW o
    PROVE  LedgerStep(o)
BY DEF LedgerInv, LedgerStep

(* The fields of a call.                                                     *)
LEMMA CallTypes ==
    ASSUME operation \in [Operations -> OperationRecords], NEW o \in Operations
    PROVE  /\ operation[o] \in OperationRecords
           /\ operation[o].pc \in {"idle", "preflight", "act", "record", "answered"}
           /\ operation[o].receipt \in Nat /\ operation[o].proof \in Proofs \cup {NoProof}
           /\ operation[o].variant \in Variants \cup {NoVariant}
           /\ operation[o].answer \in {"none", "refused", "pending", "success", "failure"}
           /\ operation[o].outcome \in {"none", "success", "failure"}
BY DEF OperationRecords

(* A call whose record changes in its progress, outcome and answer only.     *)
Progress(o, pc, outcome, answer) ==
    operation' = [operation EXCEPT ![o] =
        [operation[o] EXCEPT !.pc = pc, !.outcome = outcome, !.answer = answer]]

(* Such a step is one of its call, and keeps the request of the call.        *)
LEMMA Progressed ==
    ASSUME operation \in [Operations -> OperationRecords], NEW o \in Operations,
           NEW pc \in {"preflight", "act", "record", "answered"}, NEW outcome \in {"none", "success", "failure"},
           NEW answer \in {"none", "refused", "pending", "success", "failure"},
           Progress(o, pc, outcome, answer), operation[o].pc # "answered"
    PROVE  /\ CallStep(o)
           /\ operation'[o].pc = pc /\ operation'[o].outcome = outcome /\ operation'[o].answer = answer
           /\ operation'[o].receipt = operation[o].receipt /\ operation'[o].kind = operation[o].kind
           /\ operation'[o].variant = operation[o].variant /\ operation'[o].proof = operation[o].proof
<1>1. PICK old \in OperationRecords : old = operation[o]
  OBVIOUS
<1>2. PICK new : new = [old EXCEPT !.pc = pc, !.outcome = outcome, !.answer = answer]
  OBVIOUS
<1>3. /\ new \in OperationRecords
      /\ new.pc = pc /\ new.outcome = outcome /\ new.answer = answer
      /\ new.receipt = old.receipt /\ new.kind = old.kind /\ new.variant = old.variant /\ new.proof = old.proof
  BY <1>2 DEF OperationRecords
<1>4. operation' = [operation EXCEPT ![o] = new]
  BY <1>1, <1>2 DEF Progress
<1>5. /\ operation' \in [Operations -> OperationRecords]
      /\ operation'[o] = new /\ \A q \in Operations : q # o => operation'[q] = operation[q]
  <2> HIDE DEF OperationRecords
  <2>. QED
    BY <1>3, <1>4
<1>. QED
  BY <1>1, <1>3, <1>5 DEF CallStep

(* The order of the calls is that of the steps that start none.              *)
LEMMA OrderKept ==
    ASSUME CallOrder, NEW o \in Operations, CallStep(o), operation[o].pc # "idle"
    PROVE  CallOrder'
<1>1. PICK n \in 0..MaxCalls : \A q \in Operations : operation[q].pc # "idle" <=> q <= n
  BY DEF CallOrder
<1>2. \A q \in Operations : operation'[q].pc # "idle" <=> q <= n
  <2>. SUFFICES ASSUME NEW q \in Operations PROVE operation'[q].pc # "idle" <=> q <= n
    OBVIOUS
  <2>1. CASE q = o
    BY <1>1, <2>1 DEF CallStep
  <2>2. CASE q # o
    BY <1>1, <2>2 DEF CallStep
  <2>. QED
    BY <2>1, <2>2
<1>. QED
  BY <1>2 DEF CallOrder

(* Every call starts idle, and the run does not exist.                       *)
LEMMA AgentInitInv == AgentInit => AgentInv
<1>. SUFFICES ASSUME AgentInit PROVE AgentInv
  OBVIOUS
<1>1. NotCalled \in OperationRecords
  BY DEF NotCalled, OperationRecords
<1>2. operation \in [Operations -> OperationRecords] /\ \A o \in Operations : operation[o] = NotCalled
  BY <1>1 DEF AgentInit
<1>3. CallOrder
  <2>1. 0 \in 0..MaxCalls /\ \A o \in Operations : operation[o].pc # "idle" <=> o <= 0
    BY <1>2, AgentAssumption DEF Operations, NotCalled
  <2>. QED
    BY <2>1 DEF CallOrder
<1>4. script \in {Unread, Rejected} \cup Accepted
  BY DEF AgentInit
<1>5. LedgerInv
  <2>1. ledger = <<>>
    BY DEF AgentInit
  <2>2. ledger \in Seq(Receipts) /\ DOMAIN ledger = {}
    BY <2>1
  <2>. QED
    BY <2>2 DEF LedgerInv
<1>6. RunInv
  <2>1. /\ DOMAIN agentRun = RunFields /\ agentRun.state = "none" /\ agentRun.events = <<>>
        /\ agentRun.proof = NoProof
    BY DEF AgentInit, NoRun, RunFields
  <2>2. agentRun.events \in Seq(AgentEvents) /\ DOMAIN agentRun.events = {}
    BY <2>1
  <2>3. KeepsContract(agentRun.events, agentRun.state)
    BY <2>1, <2>2 DEF KeepsContract
  <2>. QED
    BY <2>1, <2>2, <2>3 DEF RunInv, RunStates
<1>7. \A o \in Operations : OperationInv(o)
  BY <1>2 DEF OperationInv, NotCalled
<1>. QED
  BY <1>2, <1>3, <1>4, <1>5, <1>6, <1>7 DEF AgentInv, CallOrder

(* What a step of a call has to keep for the invariant to hold after it.     *)
LEMMA CallKeeps ==
    ASSUME AgentInv, NEW o \in Operations, CallStep(o), LedgerStep(o), RunStep,
           CallOrder', script' \in {Unread, Rejected} \cup Accepted, RunInv', OperationInv(o)'
    PROVE  AgentInv'
<1>1. LedgerInv /\ \A q \in Operations : OperationInv(q)
  BY DEF AgentInv
<1>2. LedgerInv'
  BY <1>1, LedgerKept
<1>3. \A q \in Operations : OperationInv(q)'
  BY <1>1, OthersKept
<1>4. operation' \in [Operations -> OperationRecords]
  BY DEF CallStep
<1>5. (script \in {Unread, Rejected} \cup Accepted)'
  <2>1. Accepted' = Accepted
    <3>1. Scripts' = Scripts
      BY DEF Scripts, ScriptEvents, ToolEvents, Event
    <3>2. \A t : Materialized(t)' = Materialized(t)
      BY DEF Materialized, Event
    <3>3. \A t : ValidChain(t)' <=> ValidChain(t)
      BY DEF ValidChain, Event, ToolTransition, Requested, Started, Finished, Before, TerminalState
    <3>. QED
      BY <3>1, <3>2, <3>3 DEF Accepted
  <2>2. Unread' = Unread /\ Rejected' = Rejected
    BY DEF Unread, Rejected, Event
  <2>. QED
    BY <2>1, <2>2
<1>. QED
  BY <1>2, <1>3, <1>4, <1>5 DEF AgentInv, CallOrder

(* The record of a call after a step that sets some of its fields.           *)
LEMMA ProgressedTo ==
    ASSUME operation \in [Operations -> OperationRecords], NEW o \in Operations
    PROVE  /\ \A pc : operation' = [operation EXCEPT ![o].pc = pc] =>
                         Progress(o, pc, operation[o].outcome, operation[o].answer)
           /\ \A pc, outcome : operation' = [operation EXCEPT ![o].pc = pc, ![o].outcome = outcome] =>
                         Progress(o, pc, outcome, operation[o].answer)
           /\ \A answer : operation' = Answer(o, answer) =>
                         Progress(o, "answered", operation[o].outcome, answer)
<1>1. PICK old \in OperationRecords : old = operation[o]
  OBVIOUS
<1>2. \A pc, outcome, answer :
         /\ [old EXCEPT !.pc = pc, !.outcome = old.outcome, !.answer = old.answer] = [old EXCEPT !.pc = pc]
         /\ [old EXCEPT !.pc = pc, !.outcome = outcome, !.answer = old.answer] = [old EXCEPT !.pc = pc, !.outcome = outcome]
         /\ [old EXCEPT !.pc = pc, !.outcome = old.outcome, !.answer = answer] = [old EXCEPT !.pc = pc, !.answer = answer]
  BY DEF OperationRecords
<1>3. ASSUME NEW pc, operation' = [operation EXCEPT ![o].pc = pc]
      PROVE  Progress(o, pc, operation[o].outcome, operation[o].answer)
  <2>1. operation' = [operation EXCEPT ![o] = [old EXCEPT !.pc = pc]]
    BY <1>1, <1>3
  <2>. QED
    BY <1>1, <1>2, <2>1 DEF Progress
<1>4. ASSUME NEW pc, NEW outcome, operation' = [operation EXCEPT ![o].pc = pc, ![o].outcome = outcome]
      PROVE  Progress(o, pc, outcome, operation[o].answer)
  <2>1. operation' = [operation EXCEPT ![o] = [old EXCEPT !.pc = pc, !.outcome = outcome]]
    BY <1>1, <1>4
  <2>. QED
    BY <1>1, <1>2, <2>1 DEF Progress
<1>5. ASSUME NEW answer, operation' = Answer(o, answer)
      PROVE  Progress(o, "answered", operation[o].outcome, answer)
  <2>1. operation' = [operation EXCEPT ![o] = [old EXCEPT !.pc = "answered", !.answer = answer]]
    BY <1>1, <1>5 DEF Answer
  <2>. QED
    BY <1>1, <1>2, <2>1 DEF Progress
<1>. QED
  BY <1>3, <1>4, <1>5

(* The provider answers before the act, or fails the call.                   *)
LEMMA PreflightInv == ASSUME AgentInv, NEW o \in Operations, ProviderPreflight(o) PROVE AgentInv'
<1>1. /\ operation \in [Operations -> OperationRecords] /\ CallOrder /\ LedgerInv /\ RunInv
      /\ OperationInv(o) /\ script \in {Unread, Rejected} \cup Accepted
  BY DEF AgentInv, CallOrder
<1>2. operation[o].pc = "preflight" /\ UNCHANGED <<ledger, agentRun, script>>
  BY DEF ProviderPreflight
<1>3. operation[o].outcome = "none" /\ operation[o].answer = "none"
  BY <1>1, <1>2 DEF OperationInv
<1>4. PICK pc \in {"act", "record"}, outcome \in {"none", "failure"} :
         /\ Progress(o, pc, outcome, "none") /\ (pc = "record" <=> outcome = "failure")
  <2>1. CASE operation' = [operation EXCEPT ![o].pc = "act"]
    BY <1>1, <1>3, <2>1, ProgressedTo
  <2>2. CASE operation' = [operation EXCEPT ![o].pc = "record", ![o].outcome = "failure"]
    BY <1>1, <1>3, <2>2, ProgressedTo
  <2>. QED
    BY <2>1, <2>2 DEF ProviderPreflight
<1>5. /\ CallStep(o)
      /\ operation'[o].pc = pc /\ operation'[o].outcome = outcome /\ operation'[o].answer = "none"
      /\ operation'[o].receipt = operation[o].receipt /\ operation'[o].kind = operation[o].kind
      /\ operation'[o].variant = operation[o].variant /\ operation'[o].proof = operation[o].proof
  BY <1>1, <1>2, <1>4, Progressed
<1>6. LedgerStep(o) /\ RunStep /\ CallOrder' /\ RunInv'
  <2>1. LedgerStep(o)
    BY <1>1, <1>2, LedgerAlone
  <2>2. RunStep
    BY <1>2 DEF RunStep
  <2>. QED
    BY <1>1, <1>2, <1>5, <2>1, <2>2, OrderKept, RunKept
<1>7. OperationInv(o)'
  <2>1. /\ operation[o].receipt \in DOMAIN ledger
        /\ ledger[operation[o].receipt] = Receipt(o, "authorization", "allow")
        /\ (operation[o].kind = "cancel" <=> operation[o].proof # NoProof)
    BY <1>1, <1>2 DEF OperationInv
  <2>. QED
    BY <1>2, <1>4, <1>5, <2>1 DEF OperationInv, Receipt
<1>. QED
  BY <1>1, <1>2, <1>5, <1>6, <1>7, CallKeeps

(* A call whose task is cancelled answers nothing.                           *)
LEMMA AbandonInv == ASSUME AgentInv, NEW o \in Operations, Abandon(o) PROVE AgentInv'
<1>1. /\ operation \in [Operations -> OperationRecords] /\ CallOrder /\ LedgerInv /\ RunInv
      /\ OperationInv(o) /\ script \in {Unread, Rejected} \cup Accepted
  BY DEF AgentInv, CallOrder
<1>2. operation[o].pc \in {"preflight", "act", "record"} /\ UNCHANGED <<ledger, agentRun, script>>
  BY DEF Abandon
<1>3. PICK outcome \in {"none", "success", "failure"} : outcome = operation[o].outcome
  BY <1>1, CallTypes
<1>4. Progress(o, "answered", outcome, "none")
  BY <1>1, <1>3, ProgressedTo DEF Abandon
<1>5. /\ CallStep(o)
      /\ operation'[o].pc = "answered" /\ operation'[o].outcome = outcome /\ operation'[o].answer = "none"
      /\ operation'[o].receipt = operation[o].receipt /\ operation'[o].kind = operation[o].kind
      /\ operation'[o].variant = operation[o].variant /\ operation'[o].proof = operation[o].proof
  BY <1>1, <1>2, <1>4, Progressed
<1>6. LedgerStep(o) /\ RunStep /\ CallOrder' /\ RunInv'
  <2>1. LedgerStep(o)
    BY <1>1, <1>2, LedgerAlone
  <2>2. RunStep
    BY <1>2 DEF RunStep
  <2>. QED
    BY <1>1, <1>2, <1>5, <2>1, <2>2, OrderKept, RunKept
<1>7. OperationInv(o)'
  <2>1. /\ (operation[o].kind = "cancel" <=> operation[o].proof # NoProof)
        /\ operation[o].kind = "start" /\ outcome = "success" =>
              agentRun.state # "none" /\ operation[o].variant = agentRun.variant
    BY <1>1, <1>2, <1>3 DEF OperationInv
  <2>. QED
    BY <1>2, <1>5, <2>1 DEF OperationInv, Receipt
<1>. QED
  BY <1>1, <1>2, <1>5, <1>6, <1>7, CallKeeps

(* The outcome of a call is recorded next to its authorization, or pending.  *)
LEMMA RecordOutcomeInv == ASSUME AgentInv, NEW o \in Operations, RecordOutcome(o) PROVE AgentInv'
<1>1. /\ operation \in [Operations -> OperationRecords] /\ CallOrder /\ LedgerInv /\ RunInv
      /\ OperationInv(o) /\ script \in {Unread, Rejected} \cup Accepted
  BY DEF AgentInv, CallOrder
<1>2. operation[o].pc = "record" /\ UNCHANGED <<agentRun, script>>
  BY DEF RecordOutcome
<1>3. PICK outcome \in {"success", "failure"} : outcome = operation[o].outcome
  BY <1>1, <1>2 DEF OperationInv
<1>4. PICK result \in AuditResults :
         /\ ledger' = Recorded(result, Receipt(o, "outcome", outcome))
         /\ operation' = Answer(o, IF Acknowledged(o, result) THEN outcome ELSE "pending")
  BY <1>3 DEF RecordOutcome
<1>5. PICK r \in Receipts : r = Receipt(o, "outcome", outcome)
  BY DEF Receipts, Receipt
<1>6. PICK answer \in {"pending", outcome} :
         /\ operation' = Answer(o, answer)
         /\ answer # "pending" => result = "acknowledged" /\ Len(ledger) = operation[o].receipt
  <2>1. CASE Acknowledged(o, result)
    <3>1. operation' = Answer(o, outcome)
      BY <1>4, <2>1, Zenon
    <3>2. result = "acknowledged" /\ Len(ledger) = operation[o].receipt
      BY <2>1 DEF Acknowledged
    <3>. QED
      BY <3>1, <3>2
  <2>2. CASE ~Acknowledged(o, result)
    <3>1. operation' = Answer(o, "pending")
      BY <1>4, <2>2, Zenon
    <3>. QED
      BY <3>1
  <2>. QED
    BY <2>1, <2>2
<1>7. Progress(o, "answered", outcome, answer)
  BY <1>1, <1>3, <1>6, ProgressedTo
<1>8. /\ CallStep(o)
      /\ operation'[o].pc = "answered" /\ operation'[o].outcome = outcome /\ operation'[o].answer = answer
      /\ operation'[o].receipt = operation[o].receipt /\ operation'[o].kind = operation[o].kind
      /\ operation'[o].variant = operation[o].variant /\ operation'[o].proof = operation[o].proof
  BY <1>1, <1>2, <1>7, Progressed
<1>9. RecordsAs(result, r) /\ ledger \in Seq(Receipts)
  BY <1>1, <1>4, <1>5 DEF RecordsAs, LedgerInv
<1>10. LedgerStep(o)
  <2>1. r.operation = o
    BY <1>5 DEF Receipt
  <2>. QED
    BY <1>8, <1>9, <2>1, RecordedStep
<1>11. RunStep /\ CallOrder' /\ RunInv'
  <2>1. RunStep
    BY <1>2 DEF RunStep
  <2>. QED
    BY <1>1, <1>2, <1>8, <1>10, <2>1, OrderKept, RunKept
<1>12. ASSUME answer # "pending"
       PROVE  /\ operation[o].receipt + 1 \in DOMAIN ledger'
              /\ ledger'[operation[o].receipt + 1] = r
              /\ \A i \in DOMAIN ledger' : ledger'[i].operation = o /\ ledger'[i].phase = "outcome" =>
                    i = operation[o].receipt + 1
  <2>1. result # "raised" /\ Len(ledger) = operation[o].receipt
    BY <1>6, <1>12
  <2>2. /\ DOMAIN ledger' = 1..(Len(ledger) + 1) /\ ledger'[Len(ledger) + 1] = r
        /\ \A i \in DOMAIN ledger : ledger'[i] = ledger[i]
    BY <1>9, <2>1, RecordedOnce
  <2>3. DOMAIN ledger = 1..Len(ledger) /\ Len(ledger) \in Nat
    BY <1>9, LedgerTypes
  <2>4. \A i \in DOMAIN ledger : ~(ledger[i].operation = o /\ ledger[i].phase = "outcome")
    BY <1>1, <1>2 DEF LedgerInv
  <2>5. \A i \in DOMAIN ledger' : i \in DOMAIN ledger \/ i = Len(ledger) + 1
    BY <2>2, <2>3
  <2>6. Len(ledger) + 1 \in DOMAIN ledger'
    BY <2>2, <2>3
  <2>. QED
    BY <2>1, <2>2, <2>4, <2>5, <2>6
<1>13. OperationInv(o)'
  <2>1. /\ (operation[o].kind = "cancel" <=> operation[o].proof # NoProof)
        /\ operation[o].kind = "start" /\ outcome = "success" =>
              agentRun.state # "none" /\ operation[o].variant = agentRun.variant
    BY <1>1, <1>2, <1>3 DEF OperationInv
  <2>2. answer # "pending" => r = Receipt(o, "outcome", answer)
    BY <1>5, <1>6
  <2>. QED
    BY <1>2, <1>6, <1>8, <1>12, <2>1, <2>2 DEF OperationInv, Receipt
<1>. QED
  BY <1>1, <1>2, <1>8, <1>10, <1>11, <1>13, CallKeeps

(* The next call is the first that is idle.                                  *)
LEMMA NextCall ==
    ASSUME CallOrder, NEW o \in Operations, o = Calls + 1
    PROVE  \A q \in Operations : operation[q].pc # "idle" <=> q < o
<1>1. PICK n \in 0..MaxCalls : \A q \in Operations : operation[q].pc # "idle" <=> q <= n
  BY DEF CallOrder
<1>2. {q \in Operations : operation[q].pc # "idle"} = 1..n
  BY <1>1, AgentAssumption DEF Operations
<1>3. Calls = n
  <2>1. Cardinality(1..n) = n
    BY AgentAssumption, FS_Interval
  <2>. QED
    BY <1>2, <2>1 DEF Calls
<1>. QED
  BY <1>1, <1>3, AgentAssumption DEF Operations

(* A call that has been through the gate.                                    *)
Called(o, call) == operation' = [operation EXCEPT ![o] = call]

(* The gate: a call goes on behind its receipt, or is refused.               *)
LEMMA GateInv ==
    ASSUME AgentInv, NEW o \in Operations, NEW kind \in {"start", "resume", "cancel"},
           NEW variant \in Variants \cup {NoVariant}, NEW shown \in Proofs \cup {NoProof},
           Gate(o, kind, variant, shown)
    PROVE  AgentInv'
<1>1. /\ operation \in [Operations -> OperationRecords] /\ CallOrder /\ LedgerInv /\ RunInv
      /\ OperationInv(o) /\ script \in {Unread, Rejected} \cup Accepted
  BY DEF AgentInv, CallOrder
<1>2. /\ o = Calls + 1 /\ (kind = "cancel" <=> shown # NoProof) /\ UNCHANGED <<agentRun, script>>
  BY DEF Gate
<1>3. operation[o].pc = "idle" /\ \A q \in Operations : operation[q].pc # "idle" <=> q < o
  <2>1. \A q \in Operations : operation[q].pc # "idle" <=> q < o
    BY <1>1, <1>2, NextCall
  <2>. QED
    BY <2>1 DEF Operations
<1>4. PICK call \in OperationRecords :
         /\ Called(o, call) /\ LedgerStep(o)
         /\ call.kind = kind /\ call.proof = shown /\ call.outcome = "none" /\ call.answer \in {"none", "refused"}
         /\ call.pc \in {"preflight", "act", "answered"}
         /\ call.pc # "answered" =>
               /\ call.answer = "none"
               /\ call.receipt \in DOMAIN ledger' /\ ledger'[call.receipt] = Receipt(o, "authorization", "allow")
  <2> DEFINE called == [NotCalled EXCEPT !.kind = kind, !.variant = variant, !.proof = shown]
             refused(at) == [called EXCEPT !.pc = "answered", !.answer = "refused", !.receipt = at]
  <2>4. PICK base \in OperationRecords :
           /\ base = called /\ base.kind = kind /\ base.proof = shown /\ base.outcome = "none" /\ base.answer = "none"
    <3>1. NotCalled \in OperationRecords /\ NotCalled.outcome = "none" /\ NotCalled.answer = "none"
      BY DEF NotCalled, OperationRecords
    <3>2. PICK idle \in OperationRecords : idle = NotCalled /\ idle.outcome = "none" /\ idle.answer = "none"
      BY <3>1
    <3>3. PICK base : base = [idle EXCEPT !.kind = kind, !.variant = variant, !.proof = shown]
      OBVIOUS
    <3>4. /\ base \in OperationRecords /\ base.kind = kind /\ base.proof = shown
          /\ base.outcome = "none" /\ base.answer = "none"
      BY <3>2, <3>3 DEF OperationRecords
    <3>. QED
      BY <3>2, <3>3, <3>4
  <2>5. \A pc \in {"act", "preflight"}, at \in Nat :
           \E yes \in OperationRecords :
              /\ yes = [base EXCEPT !.pc = pc, !.receipt = at]
              /\ yes.kind = base.kind /\ yes.proof = base.proof /\ yes.outcome = base.outcome
              /\ yes.answer = base.answer /\ yes.pc = pc /\ yes.receipt = at
    <3>. SUFFICES ASSUME NEW pc \in {"act", "preflight"}, NEW at \in Nat
                  PROVE  \E yes \in OperationRecords :
                            /\ yes = [base EXCEPT !.pc = pc, !.receipt = at]
                            /\ yes.kind = base.kind /\ yes.proof = base.proof /\ yes.outcome = base.outcome
                            /\ yes.answer = base.answer /\ yes.pc = pc /\ yes.receipt = at
      OBVIOUS
    <3>1. PICK yes : yes = [base EXCEPT !.pc = pc, !.receipt = at]
      OBVIOUS
    <3>2. /\ yes \in OperationRecords
          /\ yes.kind = base.kind /\ yes.proof = base.proof /\ yes.outcome = base.outcome
          /\ yes.answer = base.answer /\ yes.pc = pc /\ yes.receipt = at
      BY <3>1 DEF OperationRecords
    <3>. QED
      BY <3>1, <3>2
  <2>1. PICK no \in OperationRecords :
           /\ no = refused(0) /\ no.kind = kind /\ no.proof = shown /\ no.outcome = "none"
           /\ no.answer = "refused" /\ no.pc = "answered"
    <3>1. PICK no : no = [base EXCEPT !.pc = "answered", !.answer = "refused", !.receipt = 0]
      OBVIOUS
    <3>2. /\ no \in OperationRecords /\ no.kind = base.kind /\ no.proof = base.proof
          /\ no.outcome = base.outcome /\ no.answer = "refused" /\ no.pc = "answered"
      BY <3>1 DEF OperationRecords
    <3>. QED
      BY <2>4, <3>1, <3>2
  <2>2. CASE operation' = [operation EXCEPT ![o] = refused(0)] /\ UNCHANGED ledger
    <3>1. Called(o, no)
      BY <2>1, <2>2 DEF Called
    <3>2. LedgerStep(o)
      BY <1>1, <2>2, LedgerAlone
    <3>. QED
      BY <2>1, <3>1, <3>2
  <2>3. CASE \E decision \in Decisions(kind), result \in AuditResults :
             /\ ledger' = Recorded(result, Receipt(o, "authorization", decision))
             /\ operation' = [operation EXCEPT ![o] =
                   IF GateOpens(decision, result)
                   THEN [called EXCEPT !.pc = IF kind = "cancel" THEN "act" ELSE "preflight",
                                       !.receipt = Len(ledger')]
                   ELSE refused(0)]
    <3>1. PICK decision \in Decisions(kind), result \in AuditResults :
             /\ ledger' = Recorded(result, Receipt(o, "authorization", decision))
             /\ operation' = [operation EXCEPT ![o] =
                   IF GateOpens(decision, result)
                   THEN [called EXCEPT !.pc = IF kind = "cancel" THEN "act" ELSE "preflight",
                                       !.receipt = Len(ledger')]
                   ELSE refused(0)]
      BY <2>3
    <3>2. decision \in {"allow", "deny"}
      BY DEF Decisions
    <3>3. PICK r \in Receipts : r = Receipt(o, "authorization", decision) /\ r.operation = o /\ r.phase = "authorization"
      <4>1. /\ Receipt(o, "authorization", decision) \in Receipts
            /\ Receipt(o, "authorization", decision).operation = o
            /\ Receipt(o, "authorization", decision).phase = "authorization"
        BY <3>2 DEF Receipts, Receipt
      <4>. QED
        BY <4>1
    <3>4. RecordsAs(result, r) /\ ledger \in Seq(Receipts)
      BY <1>1, <3>1, <3>3 DEF RecordsAs, LedgerInv
    <3>5. LedgerStep(o)
      BY <3>3, <3>4, RecordedStep
    <3>6. CASE GateOpens(decision, result)
      <4>1. decision = "allow" /\ result # "raised"
        BY <3>6 DEF GateOpens
      <4>2. /\ Len(ledger') \in Nat /\ Len(ledger') \in DOMAIN ledger'
            /\ ledger'[Len(ledger')] = Receipt(o, "authorization", "allow")
        <5>1. /\ Len(ledger') = Len(ledger) + 1 /\ DOMAIN ledger' = 1..(Len(ledger) + 1)
              /\ ledger'[Len(ledger) + 1] = r
          BY <3>4, <4>1, RecordedOnce
        <5>2. Len(ledger) \in Nat
          BY <3>4, LedgerTypes
        <5>. QED
          BY <3>3, <4>1, <5>1, <5>2
      <4>3. PICK at \in Nat : at = Len(ledger')
        BY <4>2
      <4>4. PICK pc \in {"act", "preflight"} : pc = IF kind = "cancel" THEN "act" ELSE "preflight"
        OBVIOUS
      <4>5. PICK yes \in OperationRecords :
               /\ yes = [called EXCEPT !.pc = pc, !.receipt = at] /\ yes.kind = kind /\ yes.proof = shown
               /\ yes.outcome = "none" /\ yes.answer = "none" /\ yes.pc = pc /\ yes.receipt = at
        <5>1. PICK yes \in OperationRecords :
                 /\ yes = [base EXCEPT !.pc = pc, !.receipt = at]
                 /\ yes.kind = base.kind /\ yes.proof = base.proof /\ yes.outcome = base.outcome
                 /\ yes.answer = base.answer /\ yes.pc = pc /\ yes.receipt = at
          BY <2>5
        <5>. QED
          BY <2>4, <5>1
      <4>6. Called(o, yes)
        <5>1. operation' = [operation EXCEPT ![o] = [called EXCEPT !.pc = pc, !.receipt = at]]
          BY <3>1, <3>6, <4>3, <4>4, Zenon
        <5>. QED
          BY <4>5, <5>1 DEF Called
      <4>. QED
        BY <3>5, <4>2, <4>3, <4>5, <4>6
    <3>7. CASE ~GateOpens(decision, result)
      <4>1. operation' = [operation EXCEPT ![o] = refused(0)]
        BY <3>1, <3>7, Zenon
      <4>2. Called(o, no)
        BY <2>1, <4>1 DEF Called
      <4>. QED
        BY <2>1, <3>5, <4>2
    <3>. QED
      BY <3>6, <3>7
  <2>. QED
    BY <2>2, <2>3 DEF Gate
<1>5. /\ operation' \in [Operations -> OperationRecords] /\ operation'[o] = call
      /\ \A q \in Operations : q # o => operation'[q] = operation[q]
  <2> HIDE DEF OperationRecords
  <2>. QED
    BY <1>1, <1>4 DEF Called
<1>6. CallStep(o)
  BY <1>3, <1>4, <1>5 DEF CallStep
<1>7. CallOrder'
  <2>1. o \in 0..MaxCalls
    BY AgentAssumption DEF Operations
  <2>2. \A q \in Operations : operation'[q].pc # "idle" <=> q <= o
    <3>. SUFFICES ASSUME NEW q \in Operations PROVE operation'[q].pc # "idle" <=> q <= o
      OBVIOUS
    <3>1. CASE q = o
      BY <1>4, <1>5, <2>1, <3>1
    <3>2. CASE q # o
      <4>1. q < o <=> q <= o
        BY <3>2 DEF Operations
      <4>. QED
        BY <1>3, <1>5, <3>2, <4>1
    <3>. QED
      BY <3>1, <3>2
  <2>. QED
    BY <2>1, <2>2 DEF CallOrder
<1>8. RunStep
  BY <1>2 DEF RunStep
<1>9. RunInv'
  BY <1>1, <1>2, <1>4, <1>6, RunKept
<1>10. OperationInv(o)'
  BY <1>2, <1>4, <1>5 DEF OperationInv, Receipt
<1>. QED
  BY <1>1, <1>2, <1>4, <1>6, <1>7, <1>8, <1>9, <1>10, CallKeeps

(* A call that has acted, by what the runtime answered.                      *)
LEMMA ActedStep ==
    ASSUME AgentInv, NEW o \in Operations, NEW kind, NEW succeeds \in BOOLEAN, NEW changed,
           Acted(o, kind, succeeds, changed)
    PROVE  /\ CallStep(o) /\ LedgerStep(o) /\ CallOrder' /\ UNCHANGED ledger
           /\ operation[o].kind = kind /\ Stands(o, kind) /\ operation'[o].kind = kind
           /\ operation'[o].variant = operation[o].variant /\ operation'[o].proof = operation[o].proof
           /\ succeeds => agentRun' = changed
           /\ ~succeeds => agentRun' = agentRun
           /\ (kind = "start" /\ succeeds =>
                 agentRun'.state # "none" /\ operation[o].variant = agentRun'.variant) => OperationInv(o)'
<1>1. operation \in [Operations -> OperationRecords] /\ CallOrder /\ LedgerInv /\ OperationInv(o)
  BY DEF AgentInv, CallOrder
<1>2. operation[o].pc = "act" /\ operation[o].kind = kind /\ UNCHANGED ledger
  BY DEF Acted
<1>3. /\ operation[o].receipt \in DOMAIN ledger
      /\ ledger[operation[o].receipt] = Receipt(o, "authorization", "allow")
      /\ operation[o].answer = "none" /\ (operation[o].kind = "cancel" <=> operation[o].proof # NoProof)
  BY <1>1, <1>2 DEF OperationInv
<1>4. PICK outcome \in {"success", "failure"} : /\ outcome = IF succeeds THEN "success" ELSE "failure"
                                               /\ (outcome = "success" <=> succeeds)
  OBVIOUS
<1>5. operation' = [operation EXCEPT ![o].pc = "record", ![o].outcome = outcome]
  BY <1>4, Zenon DEF Acted
<1>6. Progress(o, "record", outcome, "none")
  BY <1>1, <1>3, <1>5, ProgressedTo
<1>7. /\ CallStep(o)
      /\ operation'[o].pc = "record" /\ operation'[o].outcome = outcome /\ operation'[o].answer = "none"
      /\ operation'[o].receipt = operation[o].receipt /\ operation'[o].kind = operation[o].kind
      /\ operation'[o].variant = operation[o].variant /\ operation'[o].proof = operation[o].proof
  BY <1>1, <1>2, <1>6, Progressed
<1>8. LedgerStep(o) /\ CallOrder'
  BY <1>1, <1>2, <1>7, LedgerAlone, OrderKept
<1>9. Stands(o, kind)
  <2>1. operation[o].receipt \in 1..Len(ledger)
    BY <1>1, <1>3, LedgerTypes DEF LedgerInv
  <2>. QED
    BY <1>2, <1>3, <2>1 DEF Stands, Allowed
<1>10. (succeeds => agentRun' = changed) /\ (~succeeds => agentRun' = agentRun)
  BY DEF Acted
<1>11. ASSUME kind = "start" /\ succeeds => agentRun'.state # "none" /\ operation[o].variant = agentRun'.variant
       PROVE  OperationInv(o)'
  BY <1>2, <1>3, <1>4, <1>7, <1>11 DEF OperationInv, Receipt
<1>. QED
  BY <1>2, <1>7, <1>8, <1>9, <1>10, <1>11

(* A step of a call that leaves the run alone.                               *)
LEMMA AloneInv ==
    ASSUME AgentInv, NEW o \in Operations, CallStep(o), LedgerStep(o), CallOrder', UNCHANGED agentRun,
           OperationInv(o)', script' \in {Unread, Rejected} \cup Accepted
    PROVE  AgentInv'
<1>1. LedgerInv /\ RunInv
  BY DEF AgentInv
<1>2. RunStep
  BY DEF RunStep
<1>3. RunInv'
  BY <1>1, RunKept
<1>. QED
  BY <1>2, <1>3, CallKeeps

(* The contract of a stream says nothing of the variables.                   *)
LEMMA ContractNow ==
    ASSUME KeepsContract(agentRun'.events, agentRun'.state)
    PROVE  KeepsContract(agentRun.events, agentRun.state)'
BY DEF KeepsContract, Event

(* A run that starts, behind its authorization.                              *)
LEMMA StartInv == ASSUME AgentInv, NEW o \in Operations, Start(o) PROVE AgentInv'
<1>1. LedgerInv /\ RunInv /\ script \in {Unread, Rejected} \cup Accepted
  BY DEF AgentInv
<1>2. PICK s \in IF script = Unread THEN Accepted \cup {Rejected} ELSE {script} :
         /\ script' = s
         /\ Acted(o, "start", StartSucceeds(operation[o].variant, s), StartRun(operation[o].variant, s))
  BY DEF Start
<1>3. s \in Accepted \cup {Rejected}
  BY <1>1, <1>2
<1>4. PICK variant : variant = operation[o].variant
  OBVIOUS
<1>5. PICK succeeds \in BOOLEAN : succeeds <=> StartSucceeds(variant, s)
  OBVIOUS
<1>6. PICK changed : changed = StartRun(variant, s)
  OBVIOUS
<1>7. Acted(o, "start", succeeds, changed)
  <2>1. CASE succeeds
    BY <1>2, <1>4, <1>5, <1>6, <2>1 DEF Acted
  <2>2. CASE ~succeeds
    BY <1>2, <1>4, <1>5, <1>6, <2>2 DEF Acted
  <2>. QED
    BY <2>1, <2>2
<1>8. /\ CallStep(o) /\ LedgerStep(o) /\ CallOrder' /\ UNCHANGED ledger
      /\ Stands(o, "start") /\ operation'[o].variant = variant
      /\ succeeds => agentRun' = changed
      /\ ~succeeds => agentRun' = agentRun
      /\ (succeeds => agentRun'.state # "none" /\ variant = agentRun'.variant) => OperationInv(o)'
  BY <1>4, <1>7, ActedStep
<1>9. script' \in {Unread, Rejected} \cup Accepted
  BY <1>2, <1>3
<1>10. CASE ~succeeds
  <2>1. agentRun' = agentRun
    BY <1>8, <1>10
  <2>2. OperationInv(o)'
    BY <1>8, <1>10
  <2>. QED
    BY <1>8, <1>9, <2>1, <2>2, AloneInv
<1>11. CASE succeeds /\ agentRun.state # "none"
  <2>1. variant = agentRun.variant /\ changed = agentRun
    BY <1>5, <1>6, <1>11 DEF StartSucceeds, StartRun, Replays
  <2>2. agentRun' = agentRun
    BY <1>8, <1>11, <2>1
  <2>3. OperationInv(o)'
    BY <1>8, <1>11, <2>1, <2>2
  <2>. QED
    BY <1>8, <1>9, <2>2, <2>3, AloneInv
<1>12. CASE succeeds /\ agentRun.state = "none"
  <2>1. s \in Accepted
    BY <1>3, <1>5, <1>12 DEF StartSucceeds
  <2>2. /\ s \in Seq(AgentEvents) /\ Len(s) > 0 /\ StateOf(s) \in {"running", "completed"}
        /\ KeepsContract(s, StateOf(s))
    BY <2>1, AcceptedKeeps
  <2>3. PICK state \in {"running", "completed"} : state = StateOf(s)
    BY <2>2
  <2>4. changed = [agentRun EXCEPT !.state = state, !.variant = variant, !.events = s]
    BY <1>6, <1>12, <2>3 DEF StartRun
  <2>5. DOMAIN agentRun = RunFields /\ agentRun.proof \in Proofs \cup {NoProof}
    BY <1>1 DEF RunInv
  <2>6. /\ DOMAIN changed = RunFields /\ changed.state = state /\ changed.variant = variant
        /\ changed.events = s /\ changed.proof = agentRun.proof
    BY <2>4, <2>5 DEF RunFields
  <2>7. agentRun' = changed
    BY <1>8, <1>12
  <2>8. RunStep
    BY <1>12 DEF RunStep
  <2>9. OperationInv(o)'
    BY <1>8, <1>12, <2>6, <2>7
  <2>10. Stands(o, "start")' /\ operation'[o].variant = variant
    BY <1>1, <1>8, StandsOn
  <2>11. KeepsContract(agentRun.events, agentRun.state)'
    <3>1. KeepsContract(agentRun'.events, agentRun'.state)
      BY <2>2, <2>3, <2>6, <2>7
    <3>. QED
      BY <3>1, ContractNow
  <2>12. RunInv'
    BY <2>2, <2>5, <2>6, <2>7, <2>10, <2>11 DEF RunInv, RunStates, RunFields, Stands, AgentEvents, ToolEvents
  <2>. QED
    BY <1>8, <1>9, <2>8, <2>9, <2>12, CallKeeps
<1>. QED
  BY <1>10, <1>11, <1>12

(* A run that is resumed stays as it is.                                     *)
LEMMA ResumeInv == ASSUME AgentInv, NEW o \in Operations, Resume(o) PROVE AgentInv'
<1>1. script' \in {Unread, Rejected} \cup Accepted
  BY DEF AgentInv, Resume
<1>2. PICK succeeds \in BOOLEAN : succeeds <=> ResumeSucceeds(operation[o].variant)
  OBVIOUS
<1>3. Acted(o, "resume", succeeds, agentRun)
  <2>1. CASE succeeds
    BY <1>2, <2>1 DEF Acted, Resume
  <2>2. CASE ~succeeds
    BY <1>2, <2>2 DEF Acted, Resume
  <2>. QED
    BY <2>1, <2>2
<1>4. /\ CallStep(o) /\ LedgerStep(o) /\ CallOrder'
      /\ succeeds => agentRun' = agentRun
      /\ ~succeeds => agentRun' = agentRun
      /\ OperationInv(o)'
  BY <1>3, ActedStep, ZenonT(40)
<1>. QED
  BY <1>1, <1>4, AloneInv

(* A run that is cancelled, behind its authorization: the proof of the first *)
(* cancel is kept, and its events are closed.                                *)
LEMMA CancelInv == ASSUME AgentInv, NEW o \in Operations, Cancel(o) PROVE AgentInv'
<1>1. LedgerInv /\ RunInv /\ script' \in {Unread, Rejected} \cup Accepted
  BY DEF AgentInv, Cancel
<1>2. PICK shown : shown = operation[o].proof
  OBVIOUS
<1>3. PICK succeeds \in BOOLEAN : succeeds <=> CancelSucceeds(shown)
  OBVIOUS
<1>4. PICK changed : changed = CancelRun(shown)
  OBVIOUS
<1>5. Acted(o, "cancel", succeeds, changed)
  <2>1. CASE succeeds
    BY <1>2, <1>3, <1>4, <2>1 DEF Acted, Cancel
  <2>2. CASE ~succeeds
    BY <1>2, <1>3, <1>4, <2>2 DEF Acted, Cancel
  <2>. QED
    BY <2>1, <2>2
<1>6. /\ CallStep(o) /\ LedgerStep(o) /\ CallOrder' /\ UNCHANGED ledger
      /\ operation[o].kind = "cancel" /\ Stands(o, "cancel") /\ operation'[o].proof = shown
      /\ succeeds => agentRun' = changed
      /\ ~succeeds => agentRun' = agentRun
      /\ OperationInv(o)'
  BY <1>2, <1>5, ActedStep, ZenonT(40)
<1>7. shown # NoProof /\ shown \in Proofs \cup {NoProof}
  <2>1. OperationInv(o) /\ operation \in [Operations -> OperationRecords] /\ operation[o].pc # "idle"
    BY <1>6 DEF AgentInv, Stands
  <2>. QED
    BY <1>2, <1>6, <2>1, CallTypes DEF OperationInv
<1>8. CASE ~succeeds \/ agentRun.proof # NoProof
  <2>1. agentRun' = agentRun
    BY <1>4, <1>6, <1>8 DEF CancelRun
  <2>. QED
    BY <1>1, <1>6, <2>1, AloneInv
<1>9. CASE succeeds /\ agentRun.proof = NoProof
  <2>1. DOMAIN agentRun = RunFields /\ agentRun.state \in RunStates /\ agentRun.state \notin {"none", "cancelled"}
    BY <1>1, <1>3, <1>9 DEF RunInv, CancelSucceeds
  <2>2. /\ agentRun.events \in Seq(AgentEvents) /\ Len(agentRun.events) > 0
        /\ KeepsContract(agentRun.events, agentRun.state)
    BY <1>1, <2>1 DEF RunInv
  <2>3. PICK q \in Operations : Stands(q, "start") /\ operation[q].variant = agentRun.variant
    BY <1>1, <2>1 DEF RunInv, Stands
  <2>4. Stands(q, "start")' /\ operation'[q].variant = agentRun.variant
    BY <1>1, <1>6, <2>3, StandsOn
  <2>5. Stands(o, "cancel")' /\ operation'[o].proof = shown
    BY <1>1, <1>6, StandsOn
  <2>6. agentRun' = changed
    BY <1>6, <1>9
  <2>7. PICK events, state :
           /\ DOMAIN changed = RunFields /\ changed.state = state /\ changed.variant = agentRun.variant
           /\ changed.events = events /\ changed.proof = shown
           /\ state \in RunStates \ {"none"}
           /\ events \in Seq(AgentEvents) /\ Len(events) > 0 /\ KeepsContract(events, state)
    <3>1. CASE agentRun.state # "running"
      <4>1. changed = [agentRun EXCEPT !.proof = shown]
        BY <1>4, <1>9, <3>1 DEF CancelRun
      <4>2. /\ DOMAIN changed = RunFields /\ changed.state = agentRun.state /\ changed.variant = agentRun.variant
            /\ changed.events = agentRun.events /\ changed.proof = shown
        BY <2>1, <4>1 DEF RunFields
      <4>. QED
        BY <2>1, <2>2, <4>2
    <3>2. CASE agentRun.state = "running"
      <4>1. PICK new : new = Append(CloseOpenTools(agentRun.events), Event("cancelled", NoTool))
        OBVIOUS
      <4>2. EndedBy(agentRun.events, new)
        BY <4>1 DEF EndedBy
      <4>3. new \in Seq(AgentEvents) /\ Len(new) > 0 /\ KeepsContract(new, "cancelled")
        BY <2>2, <3>2, <4>2, CancelKeepsContract
      <4>4. changed = [agentRun EXCEPT !.proof = shown, !.state = "cancelled", !.events = new]
        BY <1>4, <1>9, <3>2, <4>1 DEF CancelRun
      <4>5. /\ DOMAIN changed = RunFields /\ changed.state = "cancelled" /\ changed.variant = agentRun.variant
            /\ changed.events = new /\ changed.proof = shown
        BY <2>1, <4>4 DEF RunFields
      <4>. QED
        BY <4>3, <4>5 DEF RunStates
    <3>. QED
      BY <3>1, <3>2
  <2>8. RunStep
    BY <2>6, <2>7 DEF RunStep
  <2>9. KeepsContract(agentRun.events, agentRun.state)'
    <3>1. KeepsContract(agentRun'.events, agentRun'.state)
      BY <2>6, <2>7
    <3>. QED
      BY <3>1, ContractNow
  <2>10. RunInv'
    BY <1>7, <2>4, <2>5, <2>6, <2>7, <2>9 DEF RunInv, RunStates, RunFields, Stands, AgentEvents, ToolEvents
  <2>. QED
    BY <1>1, <1>6, <2>8, <2>10, CallKeeps
<1>. QED
  BY <1>8, <1>9

(* The kill switch decides for later calls; it changes nothing that was.     *)
LEMMA AgentStutter == ASSUME AgentInv, UNCHANGED <<ledger, agentRun, operation, script>> PROVE AgentInv'
<1>1. LedgerInv'
  BY DEF AgentInv, LedgerInv
<1>2. KeepsContract(agentRun.events, agentRun.state)'
  <2>1. KeepsContract(agentRun'.events, agentRun'.state)
    BY DEF AgentInv, RunInv
  <2>. QED
    BY <2>1, ContractNow
<1>3. RunInv'
  BY <1>2 DEF AgentInv, RunInv, Allowed, Receipt
<1>4. ASSUME NEW o \in Operations PROVE OperationInv(o)'
  <2>1. OperationInv(o)
    BY DEF AgentInv
  <2>. QED
    BY <2>1 DEF OperationInv, Receipt
<1>5. (script \in {Unread, Rejected} \cup Accepted)'
  BY DEF AgentInv
<1>. QED
  BY <1>1, <1>3, <1>4, <1>5 DEF AgentInv

(* Every step of the calls and of the kill switch keeps the invariant.       *)
LEMMA AgentNextInv == AgentInv /\ [AgentNext]_agentVars => AgentInv'
<1>. SUFFICES ASSUME AgentInv, [AgentNext]_agentVars PROVE AgentInv'
  OBVIOUS
<1>1. ASSUME NEW o \in Operations, NEW variant \in Variants \cup {NoVariant}, NEW shown \in Proofs \cup {NoProof},
             NEW kind \in {"start", "resume", "cancel"}, Gate(o, kind, variant, shown)
      PROVE  AgentInv'
  BY <1>1, GateInv
<1>2. ASSUME NEW o \in Operations, ProviderPreflight(o) PROVE AgentInv'
  BY <1>2, PreflightInv
<1>3. ASSUME NEW o \in Operations, Start(o) PROVE AgentInv'
  BY <1>3, StartInv
<1>4. ASSUME NEW o \in Operations, Resume(o) PROVE AgentInv'
  BY <1>4, ResumeInv
<1>5. ASSUME NEW o \in Operations, Cancel(o) PROVE AgentInv'
  BY <1>5, CancelInv
<1>6. ASSUME NEW o \in Operations, RecordOutcome(o) PROVE AgentInv'
  BY <1>6, RecordOutcomeInv
<1>7. ASSUME NEW o \in Operations, Abandon(o) PROVE AgentInv'
  BY <1>7, AbandonInv
<1>8. CASE ToggleKillSwitch
  BY <1>8, AgentStutter DEF ToggleKillSwitch
<1>9. CASE UNCHANGED agentVars
  BY <1>9, AgentStutter DEF agentVars
<1>. QED
  BY <1>1, <1>2, <1>3, <1>4, <1>5, <1>6, <1>7, <1>8, <1>9 DEF AgentNext

(* The invariant says of acts, answers and events what is promised.          *)
LEMMA AgentInvSound == AgentInv => AgentRunsSound
<1>. SUFFICES ASSUME AgentInv PROVE AgentRunsSound
  OBVIOUS
<1>1. LedgerInv /\ RunInv /\ \A o \in Operations : OperationInv(o)
  BY DEF AgentInv
<1>2. ActsAreAuthorized
  BY <1>1 DEF RunInv, ActsAreAuthorized
<1>3. AnswersRecorded
  <2>. SUFFICES ASSUME NEW o \in Operations, operation[o].answer \in {"success", "failure"}
                PROVE  /\ Cardinality({i \in 1..Len(ledger) : ledger[i].operation = o /\ ledger[i].phase = "outcome"}) = 1
                       /\ ledger[operation[o].receipt + 1] = Receipt(o, "outcome", operation[o].answer)
    BY DEF AnswersRecorded
  <2>1. PICK at : at = operation[o].receipt + 1
    OBVIOUS
  <2>2. /\ at \in DOMAIN ledger /\ ledger[at] = Receipt(o, "outcome", operation[o].answer)
        /\ \A i \in DOMAIN ledger : ledger[i].operation = o /\ ledger[i].phase = "outcome" => i = at
    BY <1>1, <2>1 DEF OperationInv
  <2>3. ledger[at].operation = o /\ ledger[at].phase = "outcome"
    BY <2>2 DEF Receipt
  <2>4. DOMAIN ledger = 1..Len(ledger)
    BY <1>1, LedgerTypes DEF LedgerInv
  <2>5. {i \in 1..Len(ledger) : ledger[i].operation = o /\ ledger[i].phase = "outcome"} = {at}
    BY <2>2, <2>3, <2>4
  <2>6. Cardinality({at}) = 1
    BY FS_Singleton
  <2>. QED
    BY <2>1, <2>2, <2>5, <2>6
<1>4. OneRequestPerRun
  BY <1>1 DEF OperationInv, OneRequestPerRun
<1>5. EventsKeepContract
  BY <1>1 DEF RunInv, EventsKeepContract
<1>. QED
  BY <1>2, <1>3, <1>4, <1>5 DEF AgentRunsSound

(* Acts stand behind recorded authorizations and answers behind recorded     *)
(* outcomes, and a run keeps one request and the contract of its events,     *)
(* whatever the audit sink does and however the calls interleave.            *)
THEOREM AgentRunsSoundHolds == AgentSpec => []AgentRunsSound
<1>1. AgentInit => AgentInv
  BY AgentInitInv
<1>2. AgentInv /\ [AgentNext]_agentVars => AgentInv'
  BY AgentNextInv
<1>3. AgentInv => AgentRunsSound
  BY AgentInvSound
<1>. QED
  BY <1>1, <1>2, <1>3, PTL DEF AgentSpec
==============================================================================
