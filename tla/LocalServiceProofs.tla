-------------------------- MODULE LocalServiceProofs --------------------------
(* Proofs about the services beside the runs: the coding workflow, for every *)
(* budget of repairs and every length of a verification plan; the skill      *)
(* library, for any number of imports, packages, contents and crashes; the   *)
(* signed intents and channel events; governance, for any number of people,  *)
(* projects and calls; and the chats of the terminal, for any number of      *)
(* chats, messages and children.                                             *)
EXTENDS CodingWorkflow, SkillLibrary, Ingress, Governance, ChatRuntime, FiniteSetTheorems,
        SequenceTheorems, TLAPS

(*****************************************************************************)
(* The coding workflow                                                       *)
(*****************************************************************************)


Places ==
    {"begin", "snapshot", "candidate", "attempt", "start", "creating", "stage", "put",
     "command", "close", "decide", "package", "record", "over"}
EventNames ==
    Closing \cup {"run.created", "criteria.created", "plan.created", "repair.created",
                  "sandbox.staging", "verification.completed"}
Results == Seq({"ok", "bad", "timeout"})

WfType ==
    /\ wpc \in Places
    /\ attempts \in 0..MaxRepairs
    /\ results \in Results
    /\ trace \in Seq(EventNames)
    /\ handle \in BOOLEAN /\ root \in BOOLEAN
    /\ creating \in {"no", "asked", "made"}
    /\ after \in {"none", "decide", "blocked", "cancelled"}

(* A container that is there and was not left to the engine is the one of   *)
(* the current attempt, and somebody still knows of it: the sandbox, or the *)
(* creation that execute() waits for.  A creation that it no longer waits   *)
(* for was given up, or has been carried out.                               *)
BoxInv ==
    /\ handle => wpc \in {"stage", "put", "command", "close"}
    /\ creating # "no" =>
          wpc \in {"creating", "over"} \/ (wpc = "close" /\ after \in {"cancelled", "blocked"})
    /\ creating = "asked" /\ wpc # "creating" => attempts \in left
    /\ containers \ left \subseteq {attempts}
    /\ containers \ left # {} => handle \/ (wpc = "creating" /\ creating = "made")

(* What is being decided, packaged or recorded are the results of the whole *)
(* plan in this attempt, and a bundle is made of what was verified last.    *)
AllOk(rs) == Len(rs) = PlanLength /\ \A k \in 1..PlanLength : rs[k] = "ok"
BundleInv ==
    /\ wpc = "decide" \/ (wpc = "close" /\ after = "decide") => Len(results) = PlanLength
    /\ wpc \in {"package", "record"} =>
         verified = [attempt |-> attempts, results |-> results] /\ AllOk(results)
    /\ packaged # {} => packaged = {verified} /\ AllOk(verified.results)

(* Only a run that is over has a closing event, its last one; a bundle that *)
(* was handed out waits for its event or has it.                            *)
Has(s, e) == \E k \in 1..Len(s) : s[k] = e
ClosesLast(s) == \A k \in 1..Len(s) : s[k] \in Closing => k = Len(s)
NotClosed(s) == \A k \in 1..Len(s) : s[k] \notin Closing
TraceInv ==
    /\ ClosesLast(trace)
    /\ wpc # "over" => NotClosed(trace)
    /\ wpc = "over" => ~root
    /\ packaged # {} => wpc \in {"record", "over"}
    /\ wpc = "record" => packaged # {}
    /\ wpc = "over" => (Has(trace, "bundle.created") <=> packaged # {})

(* Every attempt but the current one has been verified once. *)
VerifiedAt(s) == {k \in 1..Len(s) : s[k] = "verification.completed"}
Verifications(s) == Cardinality(VerifiedAt(s))
RepairInv ==
    /\ wpc = "begin" => attempts = 0
    /\ wpc \in {"package", "record"} => Verifications(trace) = attempts + 1
    /\ wpc = "over" => Verifications(trace) <= attempts + 1
    /\ wpc \notin {"package", "record", "over"} => Verifications(trace) = attempts

WfInv == WfType /\ BoxInv /\ BundleInv /\ TraceInv /\ RepairInv

-----------------------------------------------------------------------------
(* The trace                                                                *)

(* What appending an event does to a trace that has not been closed. *)
LEMMA Appended ==
  ASSUME NEW s \in Seq(EventNames), NEW e \in EventNames
  PROVE  /\ Append(s, e) \in Seq(EventNames)
         /\ Verifications(Append(s, e)) =
              IF e = "verification.completed" THEN Verifications(s) + 1 ELSE Verifications(s)
         /\ Verifications(s) \in Nat
         /\ NotClosed(s) =>
              /\ ClosesLast(Append(s, e))
              /\ e \notin Closing => NotClosed(Append(s, e))
              /\ Has(Append(s, e), "bundle.created") <=> e = "bundle.created"
<1> DEFINE t == Append(s, e)
<1>1. /\ t \in Seq(EventNames) /\ Len(t) = Len(s) + 1 /\ Len(s) \in Nat
      /\ \A k \in 1..Len(s) : t[k] = s[k]
      /\ t[Len(s) + 1] = e
  OBVIOUS
<1>2. IsFiniteSet(VerifiedAt(s)) /\ Len(s) + 1 \notin VerifiedAt(s)
  <2>1. IsFiniteSet(1..Len(s)) /\ VerifiedAt(s) \subseteq 1..Len(s)
    BY <1>1, FS_Interval DEF VerifiedAt
  <2> QED
    BY <1>1, <2>1, FS_Subset
<1> HIDE DEF t
<1>3. VerifiedAt(t) = IF e = "verification.completed"
                      THEN VerifiedAt(s) \cup {Len(s) + 1} ELSE VerifiedAt(s)
  BY <1>1 DEF VerifiedAt
<1>4. Verifications(s) \in Nat
  BY <1>2, FS_CardinalityType DEF Verifications
<1>5. Verifications(t) = IF e = "verification.completed" THEN Verifications(s) + 1
                         ELSE Verifications(s)
  BY <1>2, <1>3, FS_AddElement DEF Verifications
<1>6. ASSUME NotClosed(s)
      PROVE  /\ ClosesLast(t)
             /\ e \notin Closing => NotClosed(t)
             /\ Has(t, "bundle.created") <=> e = "bundle.created"
  <2>1. /\ \A k \in 1..Len(t) : k \in 1..Len(s) \/ k = Len(s) + 1
        /\ Len(s) + 1 \in 1..Len(t)
    BY <1>1
  <2>2. \A k \in 1..Len(s) : t[k] \notin Closing
    BY <1>1, <1>6 DEF NotClosed
  <2>3. "bundle.created" \in Closing
    BY DEF Closing
  <2> QED
    BY <1>1, <2>1, <2>2, <2>3 DEF ClosesLast, NotClosed, Has
<1> QED
  BY <1>1, <1>4, <1>5, <1>6 DEF t

(* Two events appended at once. *)
LEMMA AppendTwice ==
  ASSUME NEW s \in Seq(EventNames), NEW a \in EventNames, NEW b \in EventNames
  PROVE  s \o <<a, b>> = Append(Append(s, a), b)
  OBVIOUS

(* The trace a run opens with. *)
LEMMA OpeningTrace ==
  /\ Opening \in Seq(EventNames) /\ NotClosed(Opening) /\ ClosesLast(Opening)
  /\ Verifications(Opening) = 0
<1>1. Opening \in Seq(EventNames) /\ Len(Opening) = 3
      /\ \A k \in 1..3 : Opening[k] \in {"run.created", "criteria.created", "plan.created"}
  BY DEF Opening, EventNames
<1>2. NotClosed(Opening) /\ ClosesLast(Opening)
  BY <1>1 DEF NotClosed, ClosesLast, Closing
<1>3. VerifiedAt(Opening) = {}
  BY <1>1 DEF VerifiedAt
<1> QED
  BY <1>1, <1>2, <1>3, FS_EmptySet DEF Verifications

-----------------------------------------------------------------------------
(* The invariant, part by part                                              *)

(* Types. *)
LEMMA TypeKept == WfType /\ [WfNext]_wfVars => WfType'
<1> SUFFICES ASSUME WfType, [WfNext]_wfVars PROVE WfType'
  OBVIOUS
<1> USE WorkflowBounds
<1>1. ASSUME NEW e \in EventNames, Emit(e) PROVE trace' \in Seq(EventNames)
  BY <1>1, Appended DEF WfType, Emit
<1>2. /\ "run.blocked" \in EventNames /\ "repair.created" \in EventNames
      /\ "sandbox.staging" \in EventNames /\ "verification.completed" \in EventNames
      /\ "run.failed" \in EventNames /\ "bundle.created" \in EventNames
  BY DEF EventNames, Closing
<1>3. CASE UNCHANGED wfVars
  BY <1>3 DEF WfType, wfVars
<1>4. CASE Begin
  BY <1>4, OpeningTrace DEF WfType, Begin, boxVars, Places
<1>5. CASE Snapshot \/ Candidate
  BY <1>1, <1>2, <1>5 DEF WfType, Snapshot, Candidate, Blocked, Over, boxVars, Places
<1>6. CASE Attempt
  <2>1. <<>> \in Results
    BY DEF Results
  <2> QED
    BY <1>1, <1>2, <1>6, <2>1 DEF WfType, Attempt, Blocked, Over, boxVars, Places
<1>7. CASE StartSandbox \/ EngineMakes \/ EngineAnswers
  BY <1>1, <1>2, <1>7, ZenonT(60)
     DEF WfType, StartSandbox, EngineMakes, EngineAnswers, CloseThen, boxVars, Places
<1>15. CASE CreationFails
  BY <1>15 DEF WfType, CreationFails, CreationRefused, CreationGivenUp, DiscardContainer,
               CloseThen, Places
<1>8. CASE ArchiveSource \/ PutArchive \/ ArchiveRejected
  BY <1>8 DEF WfType, ArchiveSource, PutArchive, ArchiveRejected, CloseThen, DiscardContainer,
              boxVars, Places
<1>9. CASE CommandExits \/ CommandTimesOut
  <2>1. \A r \in {"ok", "bad", "timeout"} : Append(results, r) \in Results
    BY DEF WfType, Results
  <2> QED
    BY <1>9, <2>1, ZenonT(60) DEF WfType, CommandExits, CommandTimesOut, DiscardContainer, boxVars, Places
<1>10. CASE CommandRaises \/ NoContainer \/ PlanDone
  BY <1>10 DEF WfType, CommandRaises, NoContainer, PlanDone, CloseThen, DiscardContainer, boxVars,
               Places
<1>11. CASE CloseSandbox
  BY <1>1, <1>2, <1>11 DEF WfType, CloseSandbox, DiscardContainer, Blocked, Over, Places
<1>12. CASE CancelCreation \/ CancelCommand \/ CancelStep
  BY <1>12 DEF WfType, CancelCreation, CreationRefused, CreationGivenUp, CancelCommand, CancelStep,
               CloseThen, DiscardContainer, Over, boxVars, Places
<1>13. CASE Decide
  <2>1. trace' \in Seq(EventNames)
    <3>1. CASE Emit("verification.completed")
      BY <1>1, <1>2, <3>1
    <3>2. CASE trace' = trace \o <<"verification.completed", "run.failed">>
      BY <1>2, <3>2 DEF WfType
    <3> QED
      BY <1>13, <3>1, <3>2 DEF Decide
  <2>2. attempts' \in 0..MaxRepairs
    BY <1>13 DEF WfType, Decide, Exhausted
  <2> QED
    BY <1>13, <2>1, <2>2 DEF WfType, Decide, Over, boxVars, Places
<1>14. CASE Package \/ RecordBundle
  BY <1>1, <1>2, <1>14 DEF WfType, Package, RecordBundle, Blocked, Over, boxVars, Places
<1> QED
  BY <1>3, <1>4, <1>5, <1>6, <1>7, <1>8, <1>9, <1>10, <1>11, <1>12, <1>13, <1>14, <1>15 DEF WfNext

(* Containers. *)
LEMMA BoxKept == WfType /\ BoxInv /\ [WfNext]_wfVars => BoxInv'
<1> SUFFICES ASSUME WfType, BoxInv, [WfNext]_wfVars PROVE BoxInv'
  OBVIOUS
<1>1. CASE UNCHANGED wfVars
  BY <1>1 DEF BoxInv, wfVars
<1>2. CASE Begin \/ Snapshot \/ Candidate \/ Attempt
  BY <1>2 DEF BoxInv, Begin, Snapshot, Candidate, Attempt, Blocked, Over, boxVars
<1>3. CASE StartSandbox \/ EngineMakes \/ EngineAnswers
  BY <1>3 DEF WfType, BoxInv, StartSandbox, EngineMakes, EngineAnswers
<1>12. CASE CreationFails
  BY <1>12 DEF WfType, BoxInv, CreationFails, CreationRefused, CreationGivenUp, DiscardContainer,
               CloseThen
<1>4. CASE ArchiveSource \/ PutArchive \/ ArchiveRejected
  BY <1>4 DEF BoxInv, ArchiveSource, PutArchive, ArchiveRejected, CloseThen, DiscardContainer,
              boxVars
<1>5. CASE CommandExits \/ CommandTimesOut \/ CommandRaises \/ NoContainer \/ PlanDone
  BY <1>5 DEF BoxInv, CommandExits, CommandTimesOut, CommandRaises, NoContainer, PlanDone,
              MoreCommands, CloseThen, DiscardContainer, boxVars
<1>6. CASE CloseSandbox
  BY <1>6 DEF WfType, BoxInv, CloseSandbox, DiscardContainer, Blocked, Over
<1>7. CASE CancelCreation
  BY <1>7 DEF WfType, BoxInv, CancelCreation, CreationRefused, CreationGivenUp, DiscardContainer,
              CloseThen
<1>10. CASE CancelCommand
  BY <1>10 DEF WfType, BoxInv, CancelCommand, MoreCommands, CloseThen, DiscardContainer
<1>11. CASE CancelStep
  BY <1>11 DEF BoxInv, CancelStep, CloseThen, Over, boxVars
<1>8. CASE Decide
  BY <1>8 DEF BoxInv, Decide, Over, boxVars
<1>9. CASE Package \/ RecordBundle
  BY <1>9 DEF BoxInv, Package, RecordBundle, Blocked, Over, boxVars
<1> QED
  BY <1>1, <1>2, <1>3, <1>4, <1>5, <1>6, <1>7, <1>8, <1>9, <1>10, <1>11, <1>12 DEF WfNext

(* Bundles. *)
LEMMA BundleKept == WfType /\ BundleInv /\ TraceInv /\ [WfNext]_wfVars => BundleInv'
<1> SUFFICES ASSUME WfType, BundleInv, TraceInv, [WfNext]_wfVars PROVE BundleInv'
  OBVIOUS
<1>1. CASE UNCHANGED wfVars
  BY <1>1 DEF BundleInv, AllOk, wfVars
<1>2. CASE Begin \/ Snapshot \/ Candidate \/ Attempt \/ StartSandbox \/ EngineMakes
           \/ EngineAnswers \/ CreationFails
  BY <1>2 DEF BundleInv, AllOk, Begin, Snapshot, Candidate, Attempt, StartSandbox, EngineMakes,
              EngineAnswers, CreationFails, Blocked, Over, CloseThen
<1>3. CASE ArchiveSource \/ PutArchive \/ ArchiveRejected \/ CommandExits \/ CommandTimesOut
           \/ CommandRaises \/ NoContainer \/ PlanDone
  BY <1>3 DEF BundleInv, AllOk, ArchiveSource, PutArchive, ArchiveRejected, CommandExits,
              CommandTimesOut, CommandRaises, NoContainer, PlanDone, MoreCommands, CloseThen
<1>4. CASE CloseSandbox
  BY <1>4 DEF WfType, BundleInv, AllOk, CloseSandbox, Blocked, Over
<1>5. CASE CancelCreation \/ CancelCommand \/ CancelStep
  BY <1>5 DEF BundleInv, AllOk, CancelCreation, CancelCommand, CancelStep, MoreCommands, CloseThen,
              Over
<1>6. CASE Decide
  <2>1. packaged = {} /\ packaged' = {} /\ Len(results) = PlanLength /\ results' = results
        /\ verified' = [attempt |-> attempts, results |-> results]
    BY <1>6 DEF BundleInv, TraceInv, Decide
  <2>2. DOMAIN results = 1..Len(results)
    BY DEF WfType, Results
  <2>3. wpc' = "package" => attempts' = attempts /\ AllOk(results)
    BY <1>6, <2>1, <2>2 DEF Decide, Passed, Over, AllOk
  <2>4. wpc' \in {"package", "over", "candidate"}
    BY <1>6 DEF Decide, Over
  <2> QED
    BY <2>1, <2>3, <2>4 DEF BundleInv
<1>7. CASE Package \/ RecordBundle
  BY <1>7 DEF BundleInv, TraceInv, AllOk, Package, RecordBundle, Blocked, Over
<1> QED
  BY <1>1, <1>2, <1>3, <1>4, <1>5, <1>6, <1>7 DEF WfNext

(* A step of a run that emits nothing, or one event that closes nothing. *)
LEMMA GoesOn ==
  ASSUME WfType, TraceInv, RepairInv, wpc \notin {"package", "record", "over"},
         wpc' \in Places \ {"package", "record", "over"}, wpc' = "begin" => wpc = "begin",
         attempts' = attempts, packaged' = packaged,
         UNCHANGED trace \/ Emit("repair.created") \/ Emit("sandbox.staging")
  PROVE  TraceInv' /\ RepairInv'
<1>1. /\ "repair.created" \in EventNames /\ "sandbox.staging" \in EventNames
      /\ "repair.created" \notin Closing /\ "sandbox.staging" \notin Closing
  BY DEF EventNames, Closing
<1>2. trace \in Seq(EventNames) /\ NotClosed(trace) /\ ClosesLast(trace)
  BY DEF WfType, TraceInv
<1>3. NotClosed(trace') /\ ClosesLast(trace') /\ Verifications(trace') = Verifications(trace)
  <2>1. CASE UNCHANGED trace
    BY <1>2, <2>1
  <2>2. CASE Emit("repair.created")
    BY <1>1, <1>2, <2>2, Appended DEF Emit
  <2>3. CASE Emit("sandbox.staging")
    BY <1>1, <1>2, <2>3, Appended DEF Emit
  <2> QED
    BY <2>1, <2>2, <2>3
<1> QED
  BY <1>3 DEF TraceInv, RepairInv

(* A run ends without a bundle: blocked, or cancelled without an event. *)
LEMMA EndsEmpty ==
  ASSUME WfType, TraceInv, RepairInv, wpc \notin {"record", "over"},
         Blocked \/ (Over /\ UNCHANGED trace), attempts' = attempts, packaged' = packaged
  PROVE  TraceInv' /\ RepairInv'
<1>1. "run.blocked" \in EventNames /\ "run.blocked" # "bundle.created"
      /\ "bundle.created" \in Closing
  BY DEF EventNames, Closing
<1>2. trace \in Seq(EventNames) /\ NotClosed(trace) /\ ClosesLast(trace) /\ packaged = {}
      /\ attempts \in Nat /\ Verifications(trace) \in Nat
  BY <1>1, Appended DEF WfType, TraceInv
<1>3. /\ ClosesLast(trace') /\ ~Has(trace', "bundle.created")
      /\ Verifications(trace') = Verifications(trace)
  <2>1. CASE Blocked
    BY <1>1, <1>2, <2>1, Appended DEF Blocked, Emit
  <2>2. CASE UNCHANGED trace
    BY <1>1, <1>2, <2>2 DEF NotClosed, Has
  <2> QED
    BY <2>1, <2>2
<1>4. wpc' = "over" /\ ~root'
  BY DEF Blocked, Over
<1>5. Verifications(trace) <= attempts + 1
  BY <1>2 DEF RepairInv
<1> QED
  BY <1>2, <1>3, <1>4, <1>5 DEF TraceInv, RepairInv

(* The trace and the count of verifications. *)
LEMMA TraceKept ==
  WfType /\ TraceInv /\ RepairInv /\ [WfNext]_wfVars => TraceInv' /\ RepairInv'
<1> SUFFICES ASSUME WfType, TraceInv, RepairInv, [WfNext]_wfVars PROVE TraceInv' /\ RepairInv'
  OBVIOUS
<1> USE DEF Places
<1>1. CASE UNCHANGED wfVars
  BY <1>1 DEF TraceInv, RepairInv, wfVars
<1>2. CASE Begin
  <2>1. trace' = Opening /\ wpc' = "snapshot" /\ UNCHANGED <<attempts, packaged>> /\ wpc = "begin"
    BY <1>2 DEF Begin
  <2>2. attempts = 0
    BY <2>1 DEF RepairInv
  <2> QED
    BY <2>1, <2>2, OpeningTrace DEF TraceInv, RepairInv
<1>3. CASE Snapshot \/ Candidate \/ Attempt \/ CloseSandbox \/ CancelStep
  BY <1>3, GoesOn, EndsEmpty
     DEF WfType, Snapshot, Candidate, Attempt, CloseSandbox, CancelStep, CloseThen, Blocked, Over
<1>4. CASE StartSandbox \/ CreationFails
  BY <1>4, GoesOn DEF StartSandbox, CreationFails, CloseThen
<1>9. CASE EngineMakes \/ EngineAnswers
  <2>1. CASE UNCHANGED <<wpc, trace, attempts, packaged, root>>
    BY <2>1 DEF TraceInv, RepairInv
  <2>2. CASE EngineAnswers /\ wpc = "creating"
    BY <2>2, GoesOn DEF EngineAnswers
  <2> QED
    BY <1>9, <2>1, <2>2 DEF EngineMakes, EngineAnswers
<1>5. CASE ArchiveSource \/ PutArchive \/ ArchiveRejected \/ CommandExits \/ CommandTimesOut
           \/ CommandRaises \/ NoContainer \/ PlanDone \/ CancelCreation \/ CancelCommand
  BY <1>5, GoesOn DEF ArchiveSource, PutArchive, ArchiveRejected, CommandExits, CommandTimesOut,
                      CommandRaises, NoContainer, PlanDone, CancelCreation, CancelCommand,
                      MoreCommands, CloseThen
<1>6. CASE Decide
  <2>1. /\ trace \in Seq(EventNames) /\ NotClosed(trace) /\ packaged = {} /\ packaged' = {}
        /\ Verifications(trace) = attempts /\ attempts \in Nat
    BY <1>6 DEF WfType, TraceInv, RepairInv, Decide
  <2>2. /\ "verification.completed" \in EventNames /\ "run.failed" \in EventNames
        /\ "verification.completed" \notin Closing /\ "run.failed" # "bundle.created"
    BY DEF EventNames, Closing
  <2> DEFINE t == Append(trace, "verification.completed")
  <2>3. t \in Seq(EventNames) /\ NotClosed(t) /\ ClosesLast(t) /\ Verifications(t) = attempts + 1
    BY <2>1, <2>2, Appended
  <2> HIDE DEF t
  <2>4. CASE Passed(results)
    <3>1. wpc' = "package" /\ trace' = t /\ attempts' = attempts
      BY <1>6, <2>4 DEF Decide, Emit, t
    <3> QED
      BY <2>1, <2>3, <3>1 DEF TraceInv, RepairInv
  <2>5. CASE ~Passed(results) /\ Exhausted
    <3>1. /\ wpc' = "over" /\ ~root' /\ attempts' = attempts
          /\ trace' = trace \o <<"verification.completed", "run.failed">>
      BY <1>6, <2>5 DEF Decide, Over
    <3>2. trace' = Append(t, "run.failed")
      BY <2>1, <2>2, <3>1, AppendTwice DEF t
    <3>3. /\ ClosesLast(trace') /\ ~Has(trace', "bundle.created")
          /\ Verifications(trace') = attempts + 1
      BY <2>2, <2>3, <3>2, Appended
    <3> QED
      BY <2>1, <3>1, <3>3 DEF TraceInv, RepairInv
  <2>6. CASE ~Passed(results) /\ ~Exhausted
    <3>1. wpc' = "candidate" /\ trace' = t /\ attempts' = attempts + 1
      BY <1>6, <2>6 DEF Decide, Emit, t
    <3> QED
      BY <2>1, <2>3, <3>1 DEF TraceInv, RepairInv
  <2> QED
    BY <2>4, <2>5, <2>6
<1>7. CASE Package
  <2>1. CASE Blocked
    <3>1. wpc = "package" /\ attempts' = attempts /\ packaged' = packaged
      BY <1>7, <2>1 DEF Package, Blocked, Over
    <3> QED
      BY <2>1, <3>1, EndsEmpty
  <2>2. CASE wpc' = "record" /\ UNCHANGED trace
    <3>1. wpc = "package" /\ attempts' = attempts /\ packaged' # {} /\ root' = root
          /\ wpc' = "record"
      BY <1>7, <2>2 DEF Package, Blocked, Over
    <3> QED
      BY <2>2, <3>1 DEF TraceInv, RepairInv
  <2> QED
    BY <1>7, <2>1, <2>2 DEF Package, Blocked, Over
<1>8. CASE RecordBundle
  <2>1. /\ trace \in Seq(EventNames) /\ NotClosed(trace) /\ packaged # {} /\ packaged' = packaged
        /\ Verifications(trace) = attempts + 1 /\ attempts' = attempts /\ wpc' = "over" /\ ~root'
        /\ trace' = Append(trace, "bundle.created") /\ attempts \in Nat
    BY <1>8 DEF WfType, TraceInv, RepairInv, RecordBundle, Emit, Over
  <2>2. "bundle.created" \in EventNames
    BY DEF EventNames, Closing
  <2>3. /\ ClosesLast(trace') /\ Has(trace', "bundle.created")
        /\ Verifications(trace') = Verifications(trace)
    BY <2>1, <2>2, Appended
  <2> QED
    BY <2>1, <2>3 DEF TraceInv, RepairInv
<1> QED
  BY <1>1, <1>2, <1>3, <1>4, <1>5, <1>6, <1>7, <1>8, <1>9 DEF WfNext

-----------------------------------------------------------------------------
(* In every behaviour of the workflow. *)
LEMMA WfInvHolds == WfSpec => []WfInv
<1>1. WfInit => WfInv
  <2> SUFFICES ASSUME WfInit PROVE WfInv
    OBVIOUS
  <2>1. <<>> \in Results /\ <<>> \in Seq(EventNames) /\ Len(<<>>) = 0
    BY DEF Results
  <2>2. VerifiedAt(<<>>) = {} /\ NotClosed(<<>>) /\ ClosesLast(<<>>)
    BY <2>1 DEF VerifiedAt, NotClosed, ClosesLast
  <2>3. Verifications(<<>>) = 0
    BY <2>2, FS_EmptySet DEF Verifications
  <2>4. WfType
    <3>1. 0 \in 0..MaxRepairs
      BY WorkflowBounds
    <3> QED
      BY <2>1, <3>1 DEF WfInit, WfType, Places
  <2>5. BoxInv /\ BundleInv /\ RepairInv
    BY <2>3 DEF WfInit, BoxInv, BundleInv, RepairInv
  <2>6. TraceInv
    BY <2>2 DEF WfInit, TraceInv
  <2> QED
    BY <2>4, <2>5, <2>6 DEF WfInv
<1>2. WfInv /\ [WfNext]_wfVars => WfInv'
  BY TypeKept, BoxKept, BundleKept, TraceKept DEF WfInv
<1> QED
  BY <1>1, <1>2, PTL DEF WfSpec

(* The conjuncts of WorkflowSound from the invariant. *)
LEMMA InvIsSound == WfInv => WorkflowSound
<1> SUFFICES ASSUME WfInv PROVE WorkflowSound
  OBVIOUS
<1>1. /\ trace \in Seq(EventNames) /\ DOMAIN trace = 1..Len(trace) /\ Len(trace) \in Nat
      /\ attempts \in 0..MaxRepairs
  BY DEF WfInv, WfType
<1>2. BundleWasVerified
  <2> SUFFICES ASSUME NEW b \in packaged
               PROVE  /\ b = verified /\ Len(b.results) = PlanLength
                      /\ \A k \in 1..PlanLength : b.results[k] = "ok"
    BY DEF BundleWasVerified
  <2>1. b = verified /\ AllOk(verified.results)
    BY DEF WfInv, BundleInv
  <2> QED
    BY <2>1 DEF AllOk
<1>3. TraceEndsOnce
  <2>1. trace # <<>> => Len(trace) \in 1..Len(trace)
    BY <1>1
  <2>2. trace # <<>> /\ trace[Len(trace)] \in Closing => wpc = "over" /\ ~root
    BY <2>1 DEF WfInv, TraceInv, NotClosed
  <2>3. \A k \in DOMAIN trace : trace[k] \in Closing => k = Len(trace)
    BY <1>1 DEF WfInv, TraceInv, ClosesLast
  <2>4. wpc = "over" => ((\E k \in DOMAIN trace : trace[k] = "bundle.created") <=> packaged # {})
    BY <1>1 DEF WfInv, TraceInv, Has
  <2> QED
    BY <2>2, <2>3, <2>4 DEF TraceEndsOnce
<1>4. ContainersGone
  BY DEF WfInv, BoxInv, ContainersGone
<1>5. RepairsWithinBudget
  <2>1. {k \in DOMAIN trace : trace[k] = "verification.completed"} = VerifiedAt(trace)
    BY <1>1 DEF VerifiedAt
  <2>2. Verifications(trace) <= attempts + 1 /\ Verifications(trace) \in Nat
    <3>1. "run.failed" \in EventNames
      BY DEF EventNames, Closing
    <3>2. Verifications(trace) \in Nat
      BY <1>1, <3>1, Appended
    <3> QED
      BY <1>1, <3>2 DEF WfInv, WfType, RepairInv
  <2>3. Cardinality(VerifiedAt(trace)) <= MaxRepairs + 1
    BY <1>1, <2>2, WorkflowBounds DEF Verifications
  <2>4. Cardinality(containers \ left) <= 1
    <3>1. IsFiniteSet({attempts}) /\ Cardinality({attempts}) = 1
      BY FS_Singleton
    <3>2. containers \ left \subseteq {attempts}
      BY DEF WfInv, BoxInv
    <3> QED
      BY <3>1, <3>2, FS_Subset
  <2> QED
    BY <2>1, <2>3, <2>4 DEF RepairsWithinBudget
<1> QED
  BY <1>2, <1>3, <1>4, <1>5 DEF WorkflowSound

(* For every repair budget and plan, whatever fails, times out or cancels   *)
(* the run (workflow.py, sandbox.py): a bundle is made of what passed its   *)
(* whole plan last, the trace closes once, a container outlives the run     *)
(* only where its removal failed or the engine made it after its client had *)
(* given the creation up, and the budget of repairs is kept.                *)
THEOREM WorkflowSoundHolds == WfSpec => []WorkflowSound
  BY WfInvHolds, InvIsSound, PTL

(*****************************************************************************)
(* Skill imports                                                             *)
(*****************************************************************************)

RowIds == {r.id : r \in rows}

(* A row is what its import reviewed; identifiers, contents and versions are *)
(* unique, and at most one version of a name is active.                      *)
RowsSound ==
    /\ IsFiniteSet(rows)
    /\ rows \subseteq [id : 1..issued, name : Names, version : Nat, digest : Names \X SkillContents,
                       status : {"draft", "active", "archived"}]
    /\ \A r, x \in rows : r.id = x.id => r = x
    /\ VersionsDistinct /\ RowsHavePackages /\ OnlyReviewedServed /\ OneActiveVersion

(* Running imports have identifiers of their own, that no row has yet.       *)
ImportsSound ==
    /\ import \in [Importers ->
          {NoImport} \cup [pc : {"stage", "rename", "insert"}, id : 1..issued, name : Names,
                           files : skillReviewed, version : Nat]]
    /\ \A c \in Importers : import[c] # NoImport =>
          /\ import[c].files \in Names \X SkillContents /\ import[c].files[1] = import[c].name
          /\ import[c].id \notin RowIds
          /\ \A d \in Importers : import[d] # NoImport /\ import[d].id = import[c].id => d = c
    /\ skillPhase # "serving" => \A c \in Importers : import[c] = NoImport

(* A package is where its import has brought it.                             *)
DiskSound ==
    /\ \A p \in staging \cup library : p.id \in 1..issued
    /\ library \subseteq [id : 1..issued, content : Names \X SkillContents]
    /\ staging \subseteq [id : 1..issued, content : Names \X SkillContents]
    /\ \A c \in Importers :
          /\ import[c].pc = "rename" => \E s \in staging : s.id = import[c].id
          /\ import[c].pc = "insert" => \E p \in library : p.id = import[c].id
          /\ import[c].pc \in {"stage", "rename"} => \A p \in library : p.id # import[c].id
          /\ import[c].pc = "insert" => \A s \in staging : s.id # import[c].id
          /\ import[c] # NoImport =>
                \A s \in staging : s.id = import[c].id => s.content = import[c].files
    /\ NothingLeftBehind

SkillInv ==
    /\ skillPhase \in {"serving", "down", "sweep"} /\ source \in [Names -> SkillContents]
    /\ issued \in Nat
    /\ RowsSound /\ ImportsSound /\ DiskSound
    /\ skillPhase = "sweep" => referenced = RowIds

-----------------------------------------------------------------------------
(* An empty library satisfies it.                                            *)
LEMMA SkillInitInv == SkillInit => SkillInv
<1>. SUFFICES ASSUME SkillInit PROVE SkillInv
  OBVIOUS
<1>1. /\ skillPhase = "serving" /\ rows = {} /\ staging = {} /\ library = {} /\ issued = 0
      /\ import = [c \in Importers |-> NoImport]
      /\ skillReviewed = {} /\ served = {}
      /\ source = [n \in Names |-> CHOOSE x \in SkillContents : TRUE]
  BY DEF SkillInit
<1>2. (CHOOSE x \in SkillContents : TRUE) \in SkillContents
  BY SkillBounds
<1>3. source \in [Names -> SkillContents]
  BY <1>1, <1>2
<1>4. RowsSound
  BY <1>1, FS_EmptySet DEF RowsSound, VersionsDistinct, RowsHavePackages, OnlyReviewedServed,
                           OneActiveVersion
<1>5. ImportsSound
  BY <1>1 DEF ImportsSound
<1>6. DiskSound
  BY <1>1 DEF DiskSound, NothingLeftBehind, NoImport
<1>. QED
  BY <1>1, <1>3, <1>4, <1>5, <1>6 DEF SkillInv

(* Who is importing, by the place of the import.                             *)
LEMMA ImportFields ==
    ASSUME ImportsSound, NEW c \in Importers
    PROVE  /\ import[c] = NoImport <=> import[c].pc = "idle"
           /\ import[c].pc \in {"idle", "stage", "rename", "insert"}
           /\ import[c] # NoImport =>
                 /\ import[c] \in [pc : {"stage", "rename", "insert"}, id : 1..issued, name : Names,
                                   files : skillReviewed, version : Nat]
                 /\ import[c].id \in 1..issued /\ import[c].name \in Names
                 /\ import[c].files \in skillReviewed /\ import[c].version \in Nat
BY DEF ImportsSound, NoImport

(* As many identifiers as rows.                                              *)
LEMMA OneIdEach ==
    ASSUME RowsSound
    PROVE  Cardinality(RowIds) = Cardinality(rows)
<1>. DEFINE f == [r \in rows |-> r.id]
<1>1. f \in Bijection(rows, RowIds)
  BY DEF RowsSound, RowIds, Bijection, Injection, Surjection, IsInjective
<1>2. ExistsBijection(rows, RowIds)
  BY <1>1 DEF ExistsBijection
<1>. QED
  BY <1>2, FS_Bijection DEF RowsSound

-----------------------------------------------------------------------------
(* Steps that leave the rows alone                                           *)

(* The rows stay when no row changes and no package with a row goes.         *)
LEMMA RowsStay ==
    ASSUME SkillInv, rows' = rows, issued' \in Nat, issued' >= issued,
           skillReviewed \subseteq skillReviewed', served' \subseteq skillReviewed',
           \A p \in library : p.id \in RowIds => \E q \in library' : q.id = p.id
    PROVE  RowsSound' /\ RowIds' = RowIds
<1>1. RowIds' = RowIds
  BY DEF RowIds
<1>2. \A k \in 1..issued : k \in 1..issued'
  BY DEF SkillInv
<1>3. RowsHavePackages'
  BY DEF SkillInv, RowsSound, RowsHavePackages, RowIds
<1>4. rows \subseteq [id : 1..issued', name : Names, version : Nat, digest : Names \X SkillContents,
                      status : {"draft", "active", "archived"}]
  BY <1>2 DEF SkillInv, RowsSound
<1>. QED
  BY <1>1, <1>3, <1>4 DEF SkillInv, RowsSound, VersionsDistinct, OnlyReviewedServed, OneActiveVersion

(* The owner of a vendor directory edits it.                                 *)
LEMMA SourceEditedKeeps ==
    ASSUME SkillInv, SourceEdited PROVE SkillInv'
<1>1. /\ UNCHANGED <<skillPhase, rows, staging, library, import, issued, skillReviewed, served,
                     referenced>>
      /\ source' \in [Names -> SkillContents]
  BY DEF SourceEdited, SkillInv, diskVars
<1>2. RowsSound' /\ RowIds' = RowIds
  BY <1>1, RowsStay DEF SkillInv, RowsSound, OnlyReviewedServed
<1>3. ImportsSound'
  BY <1>1, <1>2 DEF SkillInv, ImportsSound
<1>4. DiskSound'
  BY <1>1 DEF SkillInv, DiskSound, NothingLeftBehind, Importing
<1>. QED
  BY <1>1, <1>2, <1>3, <1>4 DEF SkillInv

(* The user approves what the preview shows.                                 *)
LEMMA ReviewKeeps ==
    ASSUME SkillInv, NEW n \in Names, Review(n) PROVE SkillInv'
<1>1. /\ UNCHANGED <<skillPhase, source, rows, staging, library, import, issued, served, referenced>>
      /\ skillReviewed \subseteq skillReviewed'
  BY DEF Review, SkillInv, diskVars
<1>2. RowsSound' /\ RowIds' = RowIds
  BY <1>1, RowsStay DEF SkillInv, RowsSound, OnlyReviewedServed
<1>3. ImportsSound'
  BY <1>1, <1>2 DEF SkillInv, ImportsSound
<1>4. DiskSound'
  BY <1>1 DEF SkillInv, DiskSound, NothingLeftBehind, Importing
<1>. QED
  BY <1>1, <1>2, <1>3, <1>4 DEF SkillInv

(* An active version is handed out, when its package is what its row says.   *)
LEMMA InstructionsKeep ==
    ASSUME SkillInv, Instructions PROVE SkillInv'
<1>1. /\ UNCHANGED <<skillPhase, source, rows, staging, library, import, issued, skillReviewed,
                     referenced>>
      /\ \E r \in rows : served' = served \cup {r.digest}
  BY DEF Instructions, SkillInv, diskVars, Unchanged
<1>2. served' \subseteq skillReviewed
  BY <1>1 DEF SkillInv, RowsSound, OnlyReviewedServed
<1>3. RowsSound' /\ RowIds' = RowIds
  BY <1>1, <1>2, RowsStay DEF SkillInv
<1>4. ImportsSound'
  BY <1>1, <1>3 DEF SkillInv, ImportsSound
<1>5. DiskSound'
  BY <1>1 DEF SkillInv, DiskSound, NothingLeftBehind, Importing
<1>. QED
  BY <1>1, <1>3, <1>4, <1>5 DEF SkillInv

(* Somebody edits a package of the library: its identifier stays.            *)
LEMMA PackageEditedKeeps ==
    ASSUME SkillInv, PackageEdited PROVE SkillInv'
<1>1. PICK p \in library, x \in SkillContents :
         library' = (library \ {p}) \cup {[p EXCEPT !.content = <<p.content[1], x>>]}
  BY DEF PackageEdited
<1>2. UNCHANGED <<skillPhase, source, rows, staging, import, issued, skillReviewed, served, referenced>>
  BY DEF PackageEdited, SkillInv
<1>. DEFINE q == [p EXCEPT !.content = <<p.content[1], x>>]
<1>3. q \in [id : 1..issued, content : Names \X SkillContents] /\ q.id = p.id
  BY DEF SkillInv, DiskSound
<1>4. library' = (library \ {p}) \cup {q}
  BY <1>1
<1>. HIDE DEF q
<1>5. /\ \A y \in library : \E z \in library' : z.id = y.id
      /\ \A z \in library' : \E y \in library : y.id = z.id
      /\ library' \subseteq [id : 1..issued, content : Names \X SkillContents]
  BY <1>3, <1>4 DEF SkillInv, DiskSound
<1>6. RowsSound' /\ RowIds' = RowIds
  BY <1>2, <1>5, RowsStay DEF SkillInv, RowsSound, OnlyReviewedServed
<1>7. ImportsSound'
  BY <1>2, <1>6 DEF SkillInv, ImportsSound
<1>8. Importing' = Importing
  BY <1>2 DEF Importing
<1>9. DiskSound'
  <2>1. NothingLeftBehind'
    BY <1>2, <1>5, <1>6, <1>8 DEF SkillInv, DiskSound, NothingLeftBehind, RowIds
  <2>2. \A y \in staging' \cup library' : y.id \in 1..issued'
    BY <1>2, <1>5 DEF SkillInv, DiskSound
  <2>. QED
    BY <1>2, <1>5, <2>1, <2>2 DEF SkillInv, DiskSound
<1>. QED
  BY <1>2, <1>6, <1>7, <1>9 DEF SkillInv

-----------------------------------------------------------------------------
(* Crash and sweep                                                           *)

(* Nobody imports while the service is down.                                 *)
LEMMA NobodyImports ==
    ASSUME SkillInv, skillPhase # "serving"
    PROVE  \A c \in Importers : import[c] = NoImport /\ import[c].pc = "idle"
BY DEF SkillInv, ImportsSound, NoImport

(* The service dies: its imports are gone, what they left on disk stays.     *)
LEMMA SkillServiceDiesKeeps ==
    ASSUME SkillInv, SkillServiceDies PROVE SkillInv'
<1>1. /\ skillPhase' = "down" /\ import' = [c \in Importers |-> NoImport]
      /\ UNCHANGED <<source, rows, staging, library, issued, skillReviewed, served, referenced>>
  BY DEF SkillServiceDies, diskVars
<1>2. \A c \in Importers : import'[c] = NoImport /\ import'[c].pc = "idle"
  BY <1>1 DEF NoImport
<1>3. RowsSound' /\ RowIds' = RowIds
  BY <1>1, RowsStay DEF SkillInv, RowsSound, OnlyReviewedServed
<1>4. ImportsSound'
  BY <1>1, <1>2 DEF ImportsSound
<1>5. DiskSound'
  BY <1>1, <1>2 DEF SkillInv, DiskSound, NothingLeftBehind
<1>. QED
  BY <1>1, <1>3, <1>4, <1>5 DEF SkillInv

(* Recovery reads which identifiers have a row.                              *)
LEMMA SweepBeginsKeeps ==
    ASSUME SkillInv, SweepBegins PROVE SkillInv'
<1>1. /\ skillPhase = "down" /\ skillPhase' = "sweep" /\ referenced' = RowIds
      /\ UNCHANGED <<source, rows, staging, library, import, issued, skillReviewed, served>>
  BY DEF SweepBegins, diskVars, RowIds
<1>2. RowsSound' /\ RowIds' = RowIds
  BY <1>1, RowsStay DEF SkillInv, RowsSound, OnlyReviewedServed
<1>3. ImportsSound'
  BY <1>1, <1>2 DEF SkillInv, ImportsSound
<1>4. DiskSound'
  BY <1>1 DEF SkillInv, DiskSound, NothingLeftBehind
<1>. QED
  BY <1>1, <1>2, <1>3, <1>4 DEF SkillInv

(* What is swept has no row, and no import is waiting for it.                *)
LEMMA SweepOneKeeps ==
    ASSUME SkillInv, SweepOne PROVE SkillInv'
<1>1. /\ skillPhase = "sweep" /\ referenced = RowIds
      /\ UNCHANGED <<skillPhase, source, rows, import, issued, skillReviewed, served, referenced>>
  BY DEF SweepOne, SkillInv
<1>2. staging' \subseteq staging /\ library' \subseteq library
      /\ \A p \in library : p.id \in RowIds => p \in library'
  BY <1>1 DEF SweepOne, Sweeps
<1>3. RowsSound' /\ RowIds' = RowIds
  BY <1>1, <1>2, RowsStay DEF SkillInv, RowsSound, OnlyReviewedServed
<1>4. ImportsSound'
  BY <1>1, <1>3 DEF SkillInv, ImportsSound
<1>5. \A c \in Importers : import'[c] = NoImport /\ import'[c].pc = "idle"
  BY <1>1, NobodyImports
<1>6. DiskSound'
  BY <1>1, <1>2, <1>5 DEF SkillInv, DiskSound, NothingLeftBehind
<1>. QED
  BY <1>1, <1>3, <1>4, <1>6 DEF SkillInv

(* When the sweep ends, every package left has its row.                      *)
LEMMA SweepEndsKeeps ==
    ASSUME SkillInv, SweepEnds PROVE SkillInv'
<1>1. /\ skillPhase = "sweep" /\ referenced = RowIds /\ skillPhase' = "serving"
      /\ staging = {} /\ \A p \in library : p.id \in referenced
      /\ UNCHANGED <<source, rows, staging, library, import, issued, skillReviewed, served>>
  BY DEF SweepEnds, SkillInv, diskVars, Sweeps
<1>2. RowsSound' /\ RowIds' = RowIds
  BY <1>1, RowsStay DEF SkillInv, RowsSound, OnlyReviewedServed
<1>3. ImportsSound'
  BY <1>1, <1>2 DEF SkillInv, ImportsSound
<1>4. NothingLeftBehind'
  BY <1>1, <1>2 DEF NothingLeftBehind, RowIds
<1>5. DiskSound'
  BY <1>1, <1>4 DEF SkillInv, DiskSound
<1>. QED
  BY <1>1, <1>2, <1>3, <1>5 DEF SkillInv

-----------------------------------------------------------------------------
(* Imports                                                                   *)

(* Importing identifiers, when one import changes.                           *)
LEMMA ImportingIs ==
    ASSUME SkillInv, NEW c \in Importers, NEW q, import' = [import EXCEPT ![c] = q]
    PROVE  /\ \A d \in Importers : import'[d] = IF d = c THEN q ELSE import[d]
           /\ \A k \in Importing : k \in Importing' \/ (import[c] # NoImport /\ k = import[c].id)
           /\ q # NoImport => q.id \in Importing'
<1>1. \A d \in Importers : import'[d] = IF d = c THEN q ELSE import[d]
  BY DEF SkillInv, ImportsSound
<1>. QED
  BY <1>1 DEF Importing

(* An import begins with an identifier that nothing has yet.                 *)
LEMMA ImportBeginsKeeps ==
    ASSUME SkillInv, NEW c \in Importers, NEW n \in Names, ImportBegins(c, n)
    PROVE  SkillInv'
<1>. DEFINE v == 1 + Cardinality({r \in rows : r.name = n})
            q == [pc |-> "stage", id |-> issued + 1, name |-> n, files |-> PackageSnapshot(n),
                  version |-> v]
<1>1. /\ skillPhase = "serving" /\ import[c] = NoImport /\ PackageSnapshot(n) \in skillReviewed
      /\ issued' = issued + 1 /\ import' = [import EXCEPT ![c] = q]
      /\ UNCHANGED <<skillPhase, source, rows, staging, library, skillReviewed, served, referenced>>
  BY DEF ImportBegins, diskVars
<1>2. issued \in Nat /\ issued' \in Nat /\ issued' >= issued /\ issued' \notin 1..issued
      /\ issued' \in 1..issued' /\ \A k \in 1..issued : k \in 1..issued'
  BY <1>1 DEF SkillInv
<1>3. v \in Nat
  <2>1. IsFiniteSet({r \in rows : r.name = n})
    BY FS_Subset DEF SkillInv, RowsSound
  <2>. QED
    BY <2>1, FS_CardinalityType
<1>4. PackageSnapshot(n) \in Names \X SkillContents /\ PackageSnapshot(n)[1] = n
  BY DEF PackageSnapshot, SkillInv
<1>5. /\ q \in [pc : {"stage", "rename", "insert"}, id : 1..issued', name : Names,
                files : skillReviewed, version : Nat]
      /\ q.id = issued' /\ q.pc = "stage" /\ q.files \in Names \X SkillContents
      /\ q.files[1] = q.name /\ q # NoImport
  BY <1>1, <1>2, <1>3, <1>4 DEF NoImport
<1>. HIDE DEF v, q
<1>6. /\ \A d \in Importers : import'[d] = IF d = c THEN q ELSE import[d]
      /\ \A k \in Importing : k \in Importing'
  BY <1>1, ImportingIs
<1>7. RowsSound' /\ RowIds' = RowIds
  BY <1>1, <1>2, RowsStay DEF SkillInv, RowsSound, OnlyReviewedServed
<1>8. \A k \in RowIds : k \in 1..issued
  BY DEF RowIds, SkillInv, RowsSound
<1>9. ImportsSound'
  <2>1. import' \in [Importers ->
           {NoImport} \cup [pc : {"stage", "rename", "insert"}, id : 1..issued', name : Names,
                            files : skillReviewed', version : Nat]]
    <3>1. \A d \in Importers : import[d] \in {NoImport} \cup
             [pc : {"stage", "rename", "insert"}, id : 1..issued', name : Names,
              files : skillReviewed', version : Nat]
      BY <1>1, <1>2, ImportFields DEF SkillInv
    <3>2. import' = [d \in Importers |-> IF d = c THEN q ELSE import[d]]
      BY <1>1, <1>6 DEF SkillInv, ImportsSound
    <3>. QED
      BY <1>1, <1>5, <3>1, <3>2
  <2>2. ASSUME NEW d \in Importers, import'[d] # NoImport
        PROVE  /\ import'[d].files \in Names \X SkillContents
               /\ import'[d].files[1] = import'[d].name
               /\ import'[d].id \notin RowIds'
               /\ \A e \in Importers : import'[e] # NoImport /\ import'[e].id = import'[d].id => e = d
    <3>1. \A e \in Importers : e # c /\ import'[e] # NoImport =>
             import'[e] = import[e] /\ import[e].id \in 1..issued /\ import[e].id # q.id
      BY <1>2, <1>5, <1>6, ImportFields DEF SkillInv
    <3>2. CASE d = c
      BY <1>2, <1>5, <1>6, <1>7, <1>8, <3>1, <3>2
    <3>3. CASE d # c
      BY <1>5, <1>6, <1>7, <2>2, <3>1, <3>3 DEF SkillInv, ImportsSound
    <3>. QED
      BY <3>2, <3>3
  <2>. QED
    BY <1>1, <2>1, <2>2 DEF ImportsSound
<1>10. DiskSound'
  <2>1. NothingLeftBehind'
    BY <1>1, <1>6, <1>7 DEF SkillInv, DiskSound, NothingLeftBehind, RowIds
  <2>2. /\ \A p \in staging' \cup library' : p.id \in 1..issued'
        /\ library' \subseteq [id : 1..issued', content : Names \X SkillContents]
        /\ staging' \subseteq [id : 1..issued', content : Names \X SkillContents]
    BY <1>1, <1>2 DEF SkillInv, DiskSound
  <2>3. \A p \in staging \cup library : p.id # q.id
    BY <1>2, <1>5 DEF SkillInv, DiskSound
  <2>. QED
    BY <1>1, <1>5, <1>6, <2>1, <2>2, <2>3 DEF SkillInv, DiskSound
<1>. QED
  BY <1>1, <1>2, <1>7, <1>9, <1>10 DEF SkillInv

(* An import at another place.                                               *)
Continues(c, q) ==
    /\ q.id = import[c].id /\ q.files = import[c].files /\ q.name = import[c].name
    /\ q \in [pc : {"stage", "rename", "insert"}, id : 1..issued, name : Names,
              files : skillReviewed, version : Nat]

(* An import moves on, or ends, without a change of the rows.                *)
LEMMA ImportMoves ==
    ASSUME SkillInv, NEW c \in Importers, import[c] # NoImport, NEW q,
           q = NoImport \/ Continues(c, q),
           import' = [import EXCEPT ![c] = q],
           \A k \in RowIds' : k \in RowIds \/ (q = NoImport /\ k = import[c].id),
           UNCHANGED <<skillPhase, issued, skillReviewed>>
    PROVE  /\ ImportsSound'
           /\ \A d \in Importers : import'[d] = IF d = c THEN q ELSE import[d]
           /\ q # NoImport => /\ q.id = import[c].id /\ q.files = import[c].files
                              /\ Importing' = Importing
           /\ \A k \in Importing : k # import[c].id => k \in Importing'
           /\ NoImport.pc = "idle"
<1>1. /\ \A d \in Importers : import'[d] = IF d = c THEN q ELSE import[d]
      /\ \A k \in Importing : k \in Importing' \/ k = import[c].id
      /\ q # NoImport => q.id \in Importing'
  <2>1. \A d \in Importers : import'[d] = IF d = c THEN q ELSE import[d]
    BY DEF SkillInv, ImportsSound
  <2>. QED
    BY <2>1 DEF Importing
<1>2. q # NoImport => /\ q.id = import[c].id /\ q.files = import[c].files /\ q.name = import[c].name
                      /\ q \in [pc : {"stage", "rename", "insert"}, id : 1..issued, name : Names,
                                files : skillReviewed, version : Nat]
  BY DEF Continues
<1>3. import' \in [Importers ->
         {NoImport} \cup [pc : {"stage", "rename", "insert"}, id : 1..issued, name : Names,
                          files : skillReviewed, version : Nat]]
  <2>1. \A d \in Importers : import[d] \in {NoImport} \cup
           [pc : {"stage", "rename", "insert"}, id : 1..issued, name : Names,
            files : skillReviewed, version : Nat]
    BY DEF SkillInv, ImportsSound
  <2>2. import' = [d \in Importers |-> IF d = c THEN q ELSE import[d]]
    BY <1>1 DEF SkillInv, ImportsSound
  <2>. QED
    BY <1>2, <2>1, <2>2
<1>4. ASSUME NEW d \in Importers, import'[d] # NoImport
      PROVE  /\ import'[d].files \in Names \X SkillContents
             /\ import'[d].files[1] = import'[d].name
             /\ import'[d].id \notin RowIds'
             /\ \A e \in Importers : import'[e] # NoImport /\ import'[e].id = import'[d].id => e = d
  <2>1. \A e \in Importers : import'[e] # NoImport =>
           /\ import[e] # NoImport /\ import'[e].id = import[e].id
           /\ import'[e].files = import[e].files /\ import'[e].name = import[e].name
    BY <1>1, <1>2
  <2>2. q = NoImport => d # c
    BY <1>1, <1>4
  <2>3. import'[d].id \notin RowIds'
    BY <2>1, <2>2, <1>4 DEF SkillInv, ImportsSound
  <2>. QED
    BY <1>4, <2>1, <2>3 DEF SkillInv, ImportsSound
<1>5. skillPhase' # "serving" => \A d \in Importers : import'[d] = NoImport
  BY DEF SkillInv, ImportsSound
<1>6. ImportsSound'
  BY <1>3, <1>4, <1>5 DEF ImportsSound
<1>7. q # NoImport => Importing' = Importing
  BY <1>1, <1>2 DEF Importing
<1>. QED
  BY <1>1, <1>2, <1>6, <1>7 DEF NoImport

(* The reviewed files are written into the staging directory.                *)
LEMMA StagePackageKeeps ==
    ASSUME SkillInv, NEW c \in Importers, StagePackage(c) PROVE SkillInv'
<1>. DEFINE q == [import[c] EXCEPT !.pc = "rename"]
            s == [id |-> import[c].id, content |-> import[c].files]
<1>1. /\ import[c].pc = "stage" /\ import' = [import EXCEPT ![c] = q]
      /\ staging' = staging \cup {s}
      /\ UNCHANGED <<skillPhase, source, rows, library, issued, skillReviewed, served, referenced>>
  BY DEF StagePackage, CopyReviewed, SkillInv, ImportsSound
<1>2. import[c] # NoImport
  BY <1>1 DEF NoImport
<1>3. q.pc = "rename" /\ q # NoImport
  BY <1>2, ImportFields DEF SkillInv, NoImport
<1>4. /\ s \in [id : 1..issued, content : Names \X SkillContents]
      /\ s.id = import[c].id /\ s.content = import[c].files
  BY <1>2, ImportFields DEF SkillInv, ImportsSound
<1>5. RowsSound' /\ RowIds' = RowIds
  BY <1>1, RowsStay DEF SkillInv, RowsSound, OnlyReviewedServed
<1>6. Continues(c, q)
  BY <1>2, ImportFields DEF SkillInv, Continues
<1>. HIDE DEF q, s
<1>7. /\ ImportsSound' /\ q.id = import[c].id /\ q.files = import[c].files /\ Importing' = Importing
      /\ \A d \in Importers : import'[d] = IF d = c THEN q ELSE import[d]
  BY <1>1, <1>2, <1>3, <1>5, <1>6, ImportMoves
<1>8. \A d \in Importers : d # c /\ import[d] # NoImport => import[d].id # s.id
  BY <1>2, <1>4 DEF SkillInv, ImportsSound
<1>9. s.id \in Importing
  BY <1>2, <1>4 DEF Importing
<1>10. NothingLeftBehind'
  BY <1>1, <1>5, <1>7, <1>9 DEF SkillInv, DiskSound, NothingLeftBehind, RowIds
<1>11. DiskSound'
  <2>1. \A d \in Importers : d # c => import'[d] = import[d]
    BY <1>7
  <2>2. \A d \in Importers : import[d] = NoImport <=> import[d].pc = "idle"
    BY ImportFields DEF SkillInv
  <2>3. import'[c] = q
    BY <1>7
  <2>4. \A d \in Importers :
          /\ import'[d].pc = "rename" => \E x \in staging' : x.id = import'[d].id
          /\ import'[d].pc = "insert" => \E p \in library' : p.id = import'[d].id
          /\ import'[d].pc \in {"stage", "rename"} => \A p \in library' : p.id # import'[d].id
          /\ import'[d].pc = "insert" => \A x \in staging' : x.id # import'[d].id
          /\ import'[d] # NoImport =>
                \A x \in staging' : x.id = import'[d].id => x.content = import'[d].files
    <3>1. ASSUME NEW d \in Importers, d = c
          PROVE  /\ import'[d].pc = "rename" /\ \E x \in staging' : x.id = import'[d].id
                 /\ \A p \in library' : p.id # import'[d].id
                 /\ \A x \in staging' : x.id = import'[d].id => x.content = import'[d].files
      BY <1>1, <1>2, <1>3, <1>4, <1>7, <2>3, <3>1 DEF SkillInv, DiskSound
    <3>2. ASSUME NEW d \in Importers, d # c
          PROVE  /\ import'[d].pc = "rename" => \E x \in staging' : x.id = import'[d].id
                 /\ import'[d].pc = "insert" => \E p \in library' : p.id = import'[d].id
                 /\ import'[d].pc \in {"stage", "rename"} => \A p \in library' : p.id # import'[d].id
                 /\ import'[d].pc = "insert" => \A x \in staging' : x.id # import'[d].id
                 /\ import'[d] # NoImport =>
                       \A x \in staging' : x.id = import'[d].id => x.content = import'[d].files
      BY <1>1, <1>8, <2>1, <2>2, <3>2 DEF SkillInv, DiskSound
    <3>. QED
      BY <3>1, <3>2
  <2>. QED
    BY <1>1, <1>4, <1>10, <2>4 DEF SkillInv, DiskSound
<1>. QED
  BY <1>1, <1>5, <1>7, <1>11 DEF SkillInv

(* Staging fails: the directory goes, nothing else refers to it.             *)
LEMMA StageFailsKeeps ==
    ASSUME SkillInv, NEW c \in Importers, StageFails(c) PROVE SkillInv'
<1>1. /\ import[c].pc \in {"stage", "rename"} /\ import' = [import EXCEPT ![c] = NoImport]
      /\ staging' = {s \in staging : s.id # import[c].id}
      /\ UNCHANGED <<skillPhase, source, rows, library, issued, skillReviewed, served, referenced>>
  BY DEF StageFails
<1>2. import[c] # NoImport /\ \A p \in library : p.id # import[c].id
  BY <1>1 DEF NoImport, SkillInv, DiskSound
<1>3. RowsSound' /\ RowIds' = RowIds
  BY <1>1, RowsStay DEF SkillInv, RowsSound, OnlyReviewedServed
<1>4. /\ ImportsSound' /\ NoImport.pc = "idle"
      /\ \A d \in Importers : import'[d] = IF d = c THEN NoImport ELSE import[d]
      /\ \A k \in Importing : k # import[c].id => k \in Importing'
  BY <1>1, <1>2, <1>3, ImportMoves
<1>5. NothingLeftBehind'
  BY <1>1, <1>2, <1>3, <1>4 DEF SkillInv, DiskSound, NothingLeftBehind, RowIds
<1>6. \A d \in Importers : d # c /\ import[d] # NoImport => import[d].id # import[c].id
  BY <1>2 DEF SkillInv, ImportsSound
<1>7. \A d \in Importers : import[d] = NoImport <=> import[d].pc = "idle"
  BY ImportFields DEF SkillInv
<1>8. DiskSound'
  BY <1>1, <1>4, <1>5, <1>6, <1>7 DEF SkillInv, DiskSound
<1>. QED
  BY <1>1, <1>3, <1>4, <1>8 DEF SkillInv

(* The staged package becomes the package of the library.                    *)
LEMMA RenameKeeps ==
    ASSUME SkillInv, NEW c \in Importers, Rename(c) PROVE SkillInv'
<1>. DEFINE q == [import[c] EXCEPT !.pc = "insert"]
<1>1. /\ import[c].pc = "rename" /\ import' = [import EXCEPT ![c] = q]
      /\ library' = library \cup {s \in staging : s.id = import[c].id}
      /\ staging' = {s \in staging : s.id # import[c].id}
      /\ UNCHANGED <<skillPhase, source, rows, issued, skillReviewed, served, referenced>>
  BY DEF Rename, SkillInv, ImportsSound
<1>2. import[c] # NoImport
  BY <1>1 DEF NoImport
<1>3. q.pc = "insert" /\ q # NoImport
  BY <1>2, ImportFields DEF SkillInv, NoImport
<1>4. RowsSound' /\ RowIds' = RowIds
  BY <1>1, RowsStay DEF SkillInv, RowsSound, OnlyReviewedServed
<1>5. Continues(c, q)
  BY <1>2, ImportFields DEF SkillInv, Continues
<1>. HIDE DEF q
<1>6. /\ ImportsSound' /\ q.id = import[c].id /\ q.files = import[c].files /\ Importing' = Importing
      /\ \A d \in Importers : import'[d] = IF d = c THEN q ELSE import[d]
  BY <1>1, <1>2, <1>3, <1>4, <1>5, ImportMoves
<1>7. \A d \in Importers : d # c /\ import[d] # NoImport => import[d].id # import[c].id
  BY <1>2 DEF SkillInv, ImportsSound
<1>8. staging' \cup library' = staging \cup library
  BY <1>1
<1>9. NothingLeftBehind'
  BY <1>1, <1>4, <1>6, <1>8 DEF SkillInv, DiskSound, NothingLeftBehind, RowIds
<1>10. ASSUME NEW d \in Importers
       PROVE  /\ import'[d].pc = "rename" => \E x \in staging' : x.id = import'[d].id
              /\ import'[d].pc = "insert" => \E p \in library' : p.id = import'[d].id
              /\ import'[d].pc \in {"stage", "rename"} => \A p \in library' : p.id # import'[d].id
              /\ import'[d].pc = "insert" => \A x \in staging' : x.id # import'[d].id
              /\ import'[d] # NoImport =>
                    \A x \in staging' : x.id = import'[d].id => x.content = import'[d].files
  <2>1. CASE d = c
    BY <1>1, <1>2, <1>3, <1>6, <2>1 DEF SkillInv, DiskSound
  <2>2. CASE d # c
    <3>1. import'[d] = import[d] /\ (import[d] = NoImport <=> import[d].pc = "idle")
      BY <1>6, <2>2, ImportFields DEF SkillInv
    <3>. QED
      BY <1>1, <1>7, <2>2, <3>1 DEF SkillInv, DiskSound
  <2>. QED
    BY <2>1, <2>2
<1>11. /\ \A p \in staging' \cup library' : p.id \in 1..issued'
       /\ library' \subseteq [id : 1..issued', content : Names \X SkillContents]
       /\ staging' \subseteq [id : 1..issued', content : Names \X SkillContents]
  BY <1>1 DEF SkillInv, DiskSound
<1>12. DiskSound'
  BY <1>9, <1>10, <1>11 DEF DiskSound
<1>. QED
  BY <1>1, <1>4, <1>6, <1>12 DEF SkillInv

(* The row of a package, if nothing has its name and version or its content. *)
LEMMA InsertKeeps ==
    ASSUME SkillInv, NEW c \in Importers, Insert(c) PROVE SkillInv'
<1>. DEFINE r == import[c]
            row == [id |-> r.id, name |-> r.name, version |-> r.version, digest |-> r.files,
                    status |-> "draft"]
<1>1. /\ r.pc = "insert" /\ import' = [import EXCEPT ![c] = NoImport]
      /\ UNCHANGED <<skillPhase, source, staging, issued, skillReviewed, served, referenced>>
      /\ \/ RowUnique(r) /\ rows' = rows \cup {row} /\ library' = library
         \/ library' = DropPackage(r.id) /\ rows' = rows
  BY DEF Insert
<1>2. r # NoImport
  BY <1>1 DEF NoImport
<1>3. /\ r.id \in 1..issued /\ r.name \in Names /\ r.files \in skillReviewed /\ r.version \in Nat
      /\ r.files \in Names \X SkillContents /\ r.files[1] = r.name /\ r.id \notin RowIds
  BY <1>2, ImportFields DEF SkillInv, ImportsSound
<1>4. /\ \E p \in library : p.id = r.id
      /\ \A s \in staging : s.id # r.id
      /\ \A d \in Importers : d # c /\ import[d] # NoImport => import[d].id # r.id
  BY <1>1, <1>2 DEF SkillInv, DiskSound, ImportsSound
<1>5. /\ row \in [id : 1..issued, name : Names, version : Nat, digest : Names \X SkillContents,
                  status : {"draft", "active", "archived"}]
      /\ row.id = r.id /\ row.name = r.name /\ row.version = r.version /\ row.digest = r.files
      /\ row.status = "draft"
  BY <1>3
<1>. HIDE DEF row
<1>6. CASE library' = DropPackage(r.id) /\ rows' = rows
  <2>1. RowsSound' /\ RowIds' = RowIds
    <3>1. \A p \in library : p.id \in RowIds => p \in library'
      BY <1>3, <1>6 DEF DropPackage
    <3>. QED
      BY <1>1, <1>6, <3>1, RowsStay DEF SkillInv, RowsSound, OnlyReviewedServed
  <2>2. /\ ImportsSound' /\ NoImport.pc = "idle"
        /\ \A d \in Importers : import'[d] = IF d = c THEN NoImport ELSE import[d]
        /\ \A k \in Importing : k # import[c].id => k \in Importing'
    BY <1>1, <1>2, <2>1, ImportMoves
  <2>3. library' = {p \in library : p.id # r.id}
    BY <1>6 DEF DropPackage
  <2>4. NothingLeftBehind'
    BY <1>1, <1>4, <2>1, <2>2, <2>3 DEF SkillInv, DiskSound, NothingLeftBehind, RowIds
  <2>5. \A d \in Importers : import[d] = NoImport <=> import[d].pc = "idle"
    BY ImportFields DEF SkillInv
  <2>6. DiskSound'
    BY <1>1, <1>4, <2>2, <2>3, <2>4, <2>5 DEF SkillInv, DiskSound
  <2>. QED
    BY <1>1, <2>1, <2>2, <2>6 DEF SkillInv, ImportsSound
<1>7. CASE RowUnique(r) /\ rows' = rows \cup {row} /\ library' = library
  <2>1. RowIds' = RowIds \cup {r.id}
    BY <1>5, <1>7 DEF RowIds
  <2>2. RowsSound'
    <3>1. IsFiniteSet(rows')
      BY <1>7, FS_AddElement DEF SkillInv, RowsSound
    <3>2. \A x, y \in rows' : x.id = y.id => x = y
      BY <1>3, <1>5, <1>7 DEF SkillInv, RowsSound, RowIds
    <3>3. \A x \in rows : x.digest # row.digest /\ ~(x.name = row.name /\ x.version = row.version)
      BY <1>5, <1>7 DEF RowUnique
    <3>4. VersionsDistinct'
      BY <1>7, <3>3 DEF SkillInv, RowsSound, VersionsDistinct
    <3>5. RowsHavePackages'
      BY <1>4, <1>5, <1>7 DEF SkillInv, RowsSound, RowsHavePackages
    <3>6. OnlyReviewedServed'
      BY <1>1, <1>3, <1>5, <1>7 DEF SkillInv, RowsSound, OnlyReviewedServed
    <3>7. OneActiveVersion'
      BY <1>5, <1>7 DEF SkillInv, RowsSound, OneActiveVersion
    <3>8. rows' \subseteq [id : 1..issued', name : Names, version : Nat,
                           digest : Names \X SkillContents,
                           status : {"draft", "active", "archived"}]
      BY <1>1, <1>5, <1>7 DEF SkillInv, RowsSound
    <3>. QED
      BY <3>1, <3>2, <3>4, <3>5, <3>6, <3>7, <3>8 DEF RowsSound
  <2>3. \A k \in RowIds' : k \in RowIds \/ (NoImport = NoImport /\ k = import[c].id)
    BY <2>1
  <2>4. /\ ImportsSound' /\ NoImport.pc = "idle"
        /\ \A d \in Importers : import'[d] = IF d = c THEN NoImport ELSE import[d]
        /\ \A k \in Importing : k # import[c].id => k \in Importing'
    BY <1>1, <1>2, <2>3, ImportMoves
  <2>5. NothingLeftBehind'
    BY <1>1, <1>7, <2>1, <2>4 DEF SkillInv, DiskSound, NothingLeftBehind, RowIds
  <2>6. DiskSound'
    BY <1>1, <1>7, <2>4, <2>5 DEF SkillInv, DiskSound
  <2>7. skillPhase = "serving"
    BY <1>2 DEF SkillInv, ImportsSound
  <2>. QED
    BY <1>1, <2>2, <2>4, <2>6, <2>7 DEF SkillInv
<1>. QED
  BY <1>1, <1>6, <1>7

-----------------------------------------------------------------------------
(* Activation and archive                                                    *)

(* The rows with other statuses, at most one of a name active.               *)
Restatus(g) ==
    /\ g = [x \in rows |-> g[x]]
    /\ \A x \in rows :
          /\ g[x].id = x.id /\ g[x].name = x.name /\ g[x].version = x.version
          /\ g[x].digest = x.digest
          /\ g[x] \in [id : 1..issued, name : Names, version : Nat, digest : Names \X SkillContents,
                       status : {"draft", "active", "archived"}]
    /\ \A x, y \in rows :
          x.name = y.name /\ g[x].status = "active" /\ g[y].status = "active" => x = y

(* Rows that only change their status.                                       *)
LEMMA StatusesChange ==
    ASSUME SkillInv, NEW g, Restatus(g), rows' = {g[x] : x \in rows},
           skillPhase = "serving",
           UNCHANGED <<skillPhase, source, staging, library, import, issued, skillReviewed, served>>
    PROVE  SkillInv'
<1>. USE DEF Restatus
<1>1. RowIds' = RowIds
  BY DEF RowIds
<1>2. RowsSound'
  <2>1. IsFiniteSet(rows')
    <3>1. g \in Surjection(rows, rows')
      BY DEF Surjection
    <3>. QED
      BY <3>1, FS_Surjection DEF SkillInv, RowsSound
  <2>2. \A x, y \in rows' : x.id = y.id => x = y
    BY DEF SkillInv, RowsSound
  <2>3. VersionsDistinct'
    BY DEF SkillInv, RowsSound, VersionsDistinct
  <2>4. RowsHavePackages'
    BY DEF SkillInv, RowsSound, RowsHavePackages
  <2>5. OnlyReviewedServed'
    BY DEF SkillInv, RowsSound, OnlyReviewedServed
  <2>6. OneActiveVersion'
    BY DEF OneActiveVersion
  <2>7. rows' \subseteq [id : 1..issued', name : Names, version : Nat,
                         digest : Names \X SkillContents, status : {"draft", "active", "archived"}]
    OBVIOUS
  <2>. QED
    BY <2>1, <2>2, <2>3, <2>4, <2>5, <2>6, <2>7 DEF RowsSound
<1>3. ImportsSound'
  BY <1>1 DEF SkillInv, ImportsSound
<1>4. NothingLeftBehind'
  BY <1>1 DEF SkillInv, DiskSound, NothingLeftBehind, RowIds, Importing
<1>5. DiskSound'
  BY <1>4 DEF SkillInv, DiskSound
<1>. QED
  BY <1>1, <1>2, <1>3, <1>5 DEF SkillInv

(* A row with another status.                                                *)
LEMMA Restamped ==
    ASSUME SkillInv, NEW x \in rows, NEW s \in {"draft", "active", "archived"}
    PROVE  /\ WithStatus(x, s).id = x.id /\ WithStatus(x, s).name = x.name
           /\ WithStatus(x, s).version = x.version /\ WithStatus(x, s).digest = x.digest
           /\ WithStatus(x, s).status = s
           /\ WithStatus(x, s) \in [id : 1..issued, name : Names, version : Nat,
                                    digest : Names \X SkillContents,
                                    status : {"draft", "active", "archived"}]
BY DEF SkillInv, RowsSound, WithStatus

(* Activation demotes the version of the name that was active.               *)
LEMMA ActivateKeeps ==
    ASSUME SkillInv, Activate PROVE SkillInv'
<1>1. PICK r \in rows : skillPhase = "serving" /\ rows' = Activated(r)
  BY DEF Activate
<1>2. UNCHANGED <<skillPhase, source, staging, library, import, issued, skillReviewed, served>>
  BY DEF Activate, diskVars
<1>. DEFINE st(x) == IF x.id = r.id THEN "active"
                     ELSE IF x.name = r.name /\ x.status = "active" THEN "draft" ELSE x.status
            g == [x \in rows |-> WithStatus(x, st(x))]
<1>3. \A x \in rows : st(x) \in {"draft", "active", "archived"}
  BY DEF SkillInv, RowsSound
<1>4. rows' = {g[x] : x \in rows}
  BY <1>1 DEF Activated
<1>5. \A x \in rows : g[x] = WithStatus(x, st(x))
  OBVIOUS
<1>6. \A x, y \in rows : x.name = y.name /\ st(x) = "active" /\ st(y) = "active" => x = y
  BY DEF SkillInv, RowsSound, OneActiveVersion
<1>7. g = [x \in rows |-> g[x]]
  OBVIOUS
<1>. HIDE DEF st, g
<1>8. \A x \in rows : /\ g[x].id = x.id /\ g[x].name = x.name /\ g[x].version = x.version
                      /\ g[x].digest = x.digest /\ g[x].status = st(x)
                      /\ g[x] \in [id : 1..issued, name : Names, version : Nat,
                                   digest : Names \X SkillContents,
                                   status : {"draft", "active", "archived"}]
  BY <1>3, <1>5, Restamped
<1>9. \A x, y \in rows : x.name = y.name /\ g[x].status = "active" /\ g[y].status = "active" => x = y
  BY <1>6, <1>8
<1>10. Restatus(g)
  BY <1>7, <1>8, <1>9 DEF Restatus
<1>. QED
  BY <1>1, <1>2, <1>4, <1>10, StatusesChange

(* An archived version is active no more.                                    *)
LEMMA ArchiveKeeps ==
    ASSUME SkillInv, Archive PROVE SkillInv'
<1>1. PICK r \in rows :
         skillPhase = "serving" /\ rows' = (rows \ {r}) \cup {WithStatus(r, "archived")}
  BY DEF Archive
<1>2. UNCHANGED <<skillPhase, source, staging, library, import, issued, skillReviewed, served>>
  BY DEF Archive, diskVars
<1>. DEFINE g == [x \in rows |-> IF x = r THEN WithStatus(r, "archived") ELSE x]
<1>3. rows' = {g[x] : x \in rows}
  BY <1>1
<1>4. \A x \in rows : g[x] = IF x = r THEN WithStatus(r, "archived") ELSE x
  OBVIOUS
<1>5. g = [x \in rows |-> g[x]]
  OBVIOUS
<1>. HIDE DEF g
<1>6. /\ WithStatus(r, "archived").id = r.id /\ WithStatus(r, "archived").name = r.name
      /\ WithStatus(r, "archived").version = r.version
      /\ WithStatus(r, "archived").digest = r.digest
      /\ WithStatus(r, "archived").status = "archived"
      /\ WithStatus(r, "archived") \in [id : 1..issued, name : Names, version : Nat,
                                        digest : Names \X SkillContents,
                                        status : {"draft", "active", "archived"}]
  BY Restamped
<1>7. \A x \in rows : /\ g[x].id = x.id /\ g[x].name = x.name /\ g[x].version = x.version
                      /\ g[x].digest = x.digest
                      /\ g[x] \in [id : 1..issued, name : Names, version : Nat,
                                   digest : Names \X SkillContents,
                                   status : {"draft", "active", "archived"}]
  BY <1>4, <1>6 DEF SkillInv, RowsSound
<1>8. \A x, y \in rows : x.name = y.name /\ g[x].status = "active" /\ g[y].status = "active" => x = y
  BY <1>4, <1>6 DEF SkillInv, RowsSound, OneActiveVersion
<1>9. Restatus(g)
  BY <1>5, <1>7, <1>8 DEF Restatus
<1>. QED
  BY <1>1, <1>2, <1>3, <1>9, StatusesChange

-----------------------------------------------------------------------------
(* Every step keeps the invariant.                                           *)
LEMMA SkillStepInv == SkillInv /\ [SkillNext]_skillVars => SkillInv'
<1>. SUFFICES ASSUME SkillInv, [SkillNext]_skillVars PROVE SkillInv'
  OBVIOUS
<1>1. CASE SourceEdited
  BY <1>1, SourceEditedKeeps
<1>2. CASE Activate
  BY <1>2, ActivateKeeps
<1>3. CASE Archive
  BY <1>3, ArchiveKeeps
<1>4. CASE PackageEdited
  BY <1>4, PackageEditedKeeps
<1>5. CASE Instructions
  BY <1>5, InstructionsKeep
<1>6. CASE SkillServiceDies
  BY <1>6, SkillServiceDiesKeeps
<1>7. CASE SweepBegins
  BY <1>7, SweepBeginsKeeps
<1>8. CASE SweepOne
  BY <1>8, SweepOneKeeps
<1>9. CASE SweepEnds
  BY <1>9, SweepEndsKeeps
<1>10. ASSUME NEW n \in Names, Review(n) PROVE SkillInv'
  BY <1>10, ReviewKeeps
<1>11. ASSUME NEW n \in Names, NEW c \in Importers, ImportBegins(c, n) PROVE SkillInv'
  BY <1>11, ImportBeginsKeeps
<1>12. ASSUME NEW c \in Importers, StagePackage(c) PROVE SkillInv'
  BY <1>12, StagePackageKeeps
<1>13. ASSUME NEW c \in Importers, StageFails(c) PROVE SkillInv'
  BY <1>13, StageFailsKeeps
<1>14. ASSUME NEW c \in Importers, Rename(c) PROVE SkillInv'
  BY <1>14, RenameKeeps
<1>15. ASSUME NEW c \in Importers, Insert(c) PROVE SkillInv'
  BY <1>15, InsertKeeps
<1>16. CASE UNCHANGED skillVars
  <2>1. UNCHANGED <<skillPhase, source, rows, staging, library, import, issued, skillReviewed,
                    served, referenced>>
    BY <1>16 DEF skillVars, diskVars
  <2>2. RowsSound' /\ RowIds' = RowIds
    BY <2>1, RowsStay DEF SkillInv, RowsSound, OnlyReviewedServed
  <2>3. ImportsSound'
    BY <2>1, <2>2 DEF SkillInv, ImportsSound
  <2>4. DiskSound'
    BY <2>1 DEF SkillInv, DiskSound, NothingLeftBehind, Importing
  <2>. QED
    BY <2>1, <2>2, <2>3, <2>4 DEF SkillInv
<1>. QED
  BY <1>1, <1>2, <1>3, <1>4, <1>5, <1>6, <1>7, <1>8, <1>9, <1>10, <1>11, <1>12, <1>13, <1>14, <1>15,
     <1>16 DEF SkillNext

(* Imports that overlap or die leave rows and packages that fit, one active  *)
(* version of a name, and nothing but reviewed content in use.               *)
THEOREM SkillsSoundHolds == SkillSpec => []SkillsSound
<1>1. SkillInv => SkillsSound
  <2>. SUFFICES ASSUME SkillInv PROVE SkillsSound
    OBVIOUS
  <2>1. Cardinality({r.id : r \in rows}) = Cardinality(rows)
    BY OneIdEach DEF SkillInv, RowIds
  <2>2. SkillTypeOK
    BY <2>1 DEF SkillInv, RowsSound, SkillTypeOK
  <2>3. CopiesReviewed
    BY DEF SkillInv, DiskSound, CopiesReviewed
  <2>. QED
    BY <2>2, <2>3 DEF SkillInv, RowsSound, DiskSound, SkillsSound
<1>. QED
  BY <1>1, SkillInitInv, SkillStepInv, PTL DEF SkillSpec

(*****************************************************************************)
(* Signed intents and channel events                                         *)
(*****************************************************************************)

Intent == [key : Nat, expired : BOOLEAN, status : {"queued", "applied"}, count : {0, 1}]

(* What a caller heard about an intent, and that it is so.                   *)
AboutIntent(t) ==
    \E i \in DOMAIN intents, a \in {"applied", "refused"} :
        /\ t = [about |-> <<"intent", i>>, principal |-> NoPrincipal, answer |-> a]
        /\ a = "applied" => intents[i].status = "applied"

(* What a caller heard about an event is in its row.                         *)
AboutEvent(t) ==
    \E x \in events : t = [about |-> <<"event", x.id>>, principal |-> x.principal,
                           answer |-> x.status]

(* A reconnect has read intents that are there and applied those behind it,  *)
(* an event has one row, and every answer still agrees with the rows.        *)
IngInv ==
    /\ signer \in Nat /\ actorKey \in Nat
    /\ intents \in Seq(Intent) /\ IntentAppliedOnce
    /\ rounds \in [Reconnects -> [rows : SUBSET Nat, last : Nat]]
    /\ \A c \in Reconnects : rounds[c].rows \subseteq DOMAIN intents
    /\ QueueInOrder
    /\ \A x, y \in events : x.id = y.id => x = y
    /\ \A t \in told : AboutIntent(t) \/ AboutEvent(t)

(* Intents may be added and applied: everything else still holds of them.    *)
LEMMA IntentsGrow ==
    ASSUME IngInv, signer' \in Nat, actorKey' \in Nat, intents' \in Seq(Intent), IntentAppliedOnce',
           DOMAIN intents \subseteq DOMAIN intents',
           \A i \in DOMAIN intents :
              intents[i].status = "applied" => intents'[i].status = "applied",
           rounds' = rounds, events' = events, told' = told
    PROVE  IngInv'
<1>1. QueueInOrder'
  BY DEF IngInv, QueueInOrder
<1>2. \A t \in told : AboutIntent(t) => AboutIntent(t)'
  BY DEF AboutIntent
<1>3. \A t \in told : AboutEvent(t) => AboutEvent(t)'
  BY DEF AboutEvent
<1>. QED
  BY <1>1, <1>2, <1>3 DEF IngInv

(* The transaction of reconcile applies an intent or leaves all as it is.    *)
LEMMA ReconciledIs ==
    ASSUME IngInv, NEW i \in DOMAIN intents
    PROVE  /\ Reconciled(i).intents \in Seq(Intent)
           /\ DOMAIN Reconciled(i).intents = DOMAIN intents
           /\ \A j \in DOMAIN intents :
                 /\ intents[j].status = "applied" => Reconciled(i).intents[j].status = "applied"
                 /\ Reconciled(i).intents[j].count =
                       IF Reconciled(i).intents[j].status = "applied" THEN 1 ELSE 0
           /\ Reconciled(i).answer \in {"applied", "refused"}
           /\ Reconciled(i).answer = "applied" => Reconciled(i).intents[i].status = "applied"
           /\ intents[i].status = "applied" => Reconciled(i).answer = "applied"
<1>1. intents \in Seq(Intent) /\ intents[i] \in Intent
  BY ElementOfSeq DEF IngInv
<1>. DEFINE e == [intents[i] EXCEPT !.status = "applied", !.count = IF @ = 0 THEN 1 ELSE @]
<1>2. /\ e \in Intent /\ e.status = "applied"
      /\ intents[i].status = "queued" => e.count = 1
  BY <1>1 DEF Intent, IngInv, IntentAppliedOnce
<1>3. [intents EXCEPT ![i].status = "applied", ![i].count = IF @ = 0 THEN 1 ELSE @]
        = [intents EXCEPT ![i] = e]
  BY <1>1
<1>. HIDE DEF e
<1>4. /\ [intents EXCEPT ![i] = e] \in Seq(Intent)
      /\ DOMAIN [intents EXCEPT ![i] = e] = DOMAIN intents
      /\ [intents EXCEPT ![i] = e][i] = e
      /\ \A j \in DOMAIN intents : j # i => [intents EXCEPT ![i] = e][j] = intents[j]
  BY <1>1, <1>2, ExceptSeq
<1>5. CASE AlreadyApplied(i) \/ ~Verifies(i)
  BY <1>1, <1>5 DEF Reconciled, AlreadyApplied, IngInv, IntentAppliedOnce
<1>6. CASE ~AlreadyApplied(i) /\ Verifies(i)
  <2>1. Reconciled(i) = [intents |-> [intents EXCEPT ![i] = e], answer |-> "applied"]
    BY <1>3, <1>6 DEF Reconciled
  <2>2. intents[i].status = "queued"
    BY <1>1, <1>6 DEF AlreadyApplied, Intent
  <2>. QED
    BY <1>2, <1>4, <2>1, <2>2 DEF IngInv, IntentAppliedOnce
<1>. QED
  BY <1>5, <1>6

(* Every step of the service keeps the invariant.                            *)
LEMMA ReconcileKeeps ==
    ASSUME IngInv, NEW i \in DOMAIN intents, intents' = Reconciled(i).intents,
           Answer(<<"intent", i>>, NoPrincipal, Reconciled(i).answer),
           rounds' \in [Reconnects -> [rows : SUBSET Nat, last : Nat]],
           \A c \in Reconnects : rounds'[c].rows \subseteq DOMAIN intents, QueueInOrder',
           UNCHANGED <<signer, actorKey, events>>
    PROVE  IngInv'
<1>1. /\ intents' \in Seq(Intent) /\ DOMAIN intents' = DOMAIN intents
      /\ \A j \in DOMAIN intents :
            /\ intents[j].status = "applied" => intents'[j].status = "applied"
            /\ intents'[j].count = IF intents'[j].status = "applied" THEN 1 ELSE 0
      /\ Reconciled(i).answer \in {"applied", "refused"}
      /\ Reconciled(i).answer = "applied" => intents'[i].status = "applied"
  BY ReconciledIs
<1>2. PICK a \in {"applied", "refused"} : a = Reconciled(i).answer
  BY <1>1
<1>3. PICK t : /\ t = [about |-> <<"intent", i>>, principal |-> NoPrincipal, answer |-> a]
               /\ told' = told \cup {t}
  BY <1>2 DEF Answer
<1>4. i \in DOMAIN intents' /\ (a = "applied" => intents'[i].status = "applied")
  BY <1>1, <1>2
<1>5. AboutIntent(t)'
  BY <1>3, <1>4 DEF AboutIntent
<1>6. \A u \in told : AboutIntent(u)' \/ AboutEvent(u)'
  <2>1. \A u \in told : AboutIntent(u) => AboutIntent(u)'
    BY <1>1 DEF AboutIntent
  <2>2. \A u \in told : AboutEvent(u) => AboutEvent(u)'
    BY DEF AboutEvent
  <2>. QED
    BY <2>1, <2>2 DEF IngInv
<1>7. IntentAppliedOnce'
  BY <1>1 DEF IntentAppliedOnce
<1>. QED
  BY <1>1, <1>3, <1>5, <1>6, <1>7 DEF IngInv

(* What a call has passed is applied, and it has passed what it applied.     *)
LEMMA ReconcileNextKeeps ==
    ASSUME IngInv, NEW c \in Reconnects, ReconcileNext(c) PROVE IngInv'
<1>1. PICK i \in Ahead(rounds[c]) :
         /\ \A j \in Ahead(rounds[c]) : i <= j
         /\ intents' = Reconciled(i).intents
         /\ Answer(<<"intent", i>>, NoPrincipal, Reconciled(i).answer)
         /\ rounds' = [rounds EXCEPT ![c] =
               IF Reconciled(i).answer = "refused" THEN NoRound ELSE [@ EXCEPT !.last = i]]
         /\ UNCHANGED <<connected, signer, actorKey, identity, events>>
  BY DEF ReconcileNext
<1>2. i \in DOMAIN intents /\ i \in rounds[c].rows /\ i \in Nat
  BY <1>1 DEF Ahead, IngInv
<1>3. /\ DOMAIN intents' = DOMAIN intents
      /\ \A j \in DOMAIN intents : intents[j].status = "applied" => intents'[j].status = "applied"
      /\ Reconciled(i).answer \in {"applied", "refused"}
      /\ Reconciled(i).answer = "applied" => intents'[i].status = "applied"
  BY <1>1, <1>2, ReconciledIs
<1>. DEFINE q == IF Reconciled(i).answer = "refused" THEN NoRound
                 ELSE [rounds[c] EXCEPT !.last = i]
<1>4. /\ q \in [rows : SUBSET Nat, last : Nat] /\ q.rows \subseteq rounds[c].rows
      /\ \A j \in q.rows : j <= q.last => intents'[j].status = "applied"
  <2>1. CASE Reconciled(i).answer = "refused"
    BY <2>1 DEF NoRound
  <2>2. CASE Reconciled(i).answer # "refused"
    <3>1. /\ q = [rows |-> rounds[c].rows, last |-> i] /\ rounds[c].rows \subseteq Nat
          /\ rounds[c].last \in Nat
      BY <1>2, <2>2 DEF IngInv
    <3>2. \A j \in rounds[c].rows : j <= i => j = i \/ j <= rounds[c].last
      BY <1>1, <1>2, <3>1 DEF Ahead
    <3>3. \A j \in rounds[c].rows : j <= rounds[c].last => intents'[j].status = "applied"
      BY <1>3 DEF IngInv, QueueInOrder
    <3>4. intents'[i].status = "applied"
      BY <1>3, <2>2
    <3>. HIDE DEF q
    <3>. QED
      BY <1>2, <3>1, <3>2, <3>3, <3>4
  <2>. QED
    BY <2>1, <2>2
<1>5. rounds' = [rounds EXCEPT ![c] = q]
  BY <1>1
<1>. HIDE DEF q
<1>6. /\ rounds' \in [Reconnects -> [rows : SUBSET Nat, last : Nat]]
      /\ \A d \in Reconnects : rounds'[d] = IF d = c THEN q ELSE rounds[d]
  BY <1>4, <1>5 DEF IngInv
<1>7. \A d \in Reconnects : rounds'[d].rows \subseteq DOMAIN intents
  BY <1>4, <1>6 DEF IngInv
<1>8. QueueInOrder'
  BY <1>3, <1>4, <1>6 DEF IngInv, QueueInOrder
<1>. QED
  BY <1>1, <1>2, <1>6, <1>7, <1>8, ReconcileKeeps

(* A call begins with what it reads and ends with nothing: it has passed     *)
(* nothing yet or no more.                                                   *)
LEMMA RoundsChange ==
    ASSUME IngInv, rounds' \in [Reconnects -> [rows : SUBSET Nat, last : Nat]],
           \A c \in Reconnects :
              rounds'[c] = rounds[c] \/ (rounds'[c].last = 0 /\ rounds'[c].rows \subseteq DOMAIN intents),
           UNCHANGED <<actorKey, intents, events, told>>, signer' \in Nat
    PROVE  IngInv'
<1>1. \A i \in DOMAIN intents : i \in Nat \ {0}
  BY DEF IngInv
<1>2. QueueInOrder'
  <2>1. ASSUME NEW c \in Reconnects, NEW i \in rounds'[c].rows, i <= rounds'[c].last
        PROVE  intents'[i].status = "applied"
    <3>1. CASE rounds'[c] = rounds[c]
      BY <2>1, <3>1 DEF IngInv, QueueInOrder
    <3>2. CASE rounds'[c].last = 0 /\ rounds'[c].rows \subseteq DOMAIN intents
      BY <1>1, <2>1, <3>2
    <3>. QED
      BY <3>1, <3>2
  <2>. QED
    BY <2>1 DEF QueueInOrder
<1>3. IntentAppliedOnce'
  BY DEF IngInv, IntentAppliedOnce
<1>4. \A t \in told : AboutIntent(t)' \/ AboutEvent(t)'
  BY DEF IngInv, AboutIntent, AboutEvent
<1>. QED
  BY <1>2, <1>3, <1>4 DEF IngInv

(* A new event gets one row, and its caller the content of it.               *)
LEMMA IngestKeeps ==
    ASSUME IngInv, NEW e \in ExternalEvents, Ingest(e) PROVE IngInv'
<1>1. UNCHANGED <<signer, actorKey, intents, rounds>>
  BY DEF Ingest
<1>2. CASE /\ Recorded(e) # {} /\ events' = events
           /\ \E x \in Recorded(e) : Answer(<<"event", e>>, x.principal, x.status)
  <2>1. PICK x \in Recorded(e) : Answer(<<"event", e>>, x.principal, x.status)
    BY <1>2
  <2>2. PICK t : /\ t = [about |-> <<"event", x.id>>, principal |-> x.principal,
                         answer |-> x.status]
                 /\ told' = told \cup {t}
    BY <2>1 DEF Answer, Recorded
  <2>3. AboutEvent(t)'
    BY <1>2, <2>1, <2>2 DEF AboutEvent, Recorded
  <2>4. \A u \in told : AboutIntent(u)' \/ AboutEvent(u)'
    BY <1>1, <1>2 DEF IngInv, AboutIntent, AboutEvent
  <2>5. IntentAppliedOnce' /\ QueueInOrder'
    BY <1>1 DEF IngInv, IntentAppliedOnce, QueueInOrder
  <2>. QED
    BY <1>1, <1>2, <2>2, <2>3, <2>4, <2>5 DEF IngInv
<1>3. CASE /\ Recorded(e) = {}
           /\ \E sensitive \in BOOLEAN :
                 /\ events' = {x \in events : x.id # e} \cup
                       {[id |-> e, principal |-> identity, status |-> StatusOf(sensitive)]}
                 /\ Answer(<<"event", e>>, identity, StatusOf(sensitive))
  <2>1. PICK p, s : /\ events' = {x \in events : x.id # e} \cup
                                    {[id |-> e, principal |-> p, status |-> s]}
                    /\ Answer(<<"event", e>>, p, s)
    BY <1>3
  <2>2. PICK y : y = [id |-> e, principal |-> p, status |-> s]
    OBVIOUS
  <2>3. PICK t : /\ t = [about |-> <<"event", y.id>>, principal |-> y.principal,
                         answer |-> y.status]
                 /\ told' = told \cup {t}
    BY <2>1, <2>2 DEF Answer
  <2>4. events' = events \cup {y} /\ y.id = e /\ \A x \in events : x.id # e
    BY <1>3, <2>1, <2>2 DEF Recorded
  <2>5. AboutEvent(t)'
    BY <2>3, <2>4 DEF AboutEvent
  <2>6. \A u \in told : AboutIntent(u)' \/ AboutEvent(u)'
    <3>1. \A u \in told : AboutIntent(u) => AboutIntent(u)'
      BY <1>1 DEF AboutIntent
    <3>2. \A u \in told : AboutEvent(u) => AboutEvent(u)'
      BY <2>4 DEF AboutEvent
    <3>. QED
      BY <3>1, <3>2 DEF IngInv
  <2>7. IntentAppliedOnce' /\ QueueInOrder'
    BY <1>1 DEF IngInv, IntentAppliedOnce, QueueInOrder
  <2>8. \A x, z \in events' : x.id = z.id => x = z
    BY <2>4 DEF IngInv
  <2>. QED
    BY <1>1, <2>3, <2>5, <2>6, <2>7, <2>8 DEF IngInv
<1>. QED
  BY <1>2, <1>3 DEF Ingest

(* Every step keeps the invariant.                                           *)
LEMMA IngStepInv == IngInv /\ [IngNext]_ingVars => IngInv'
<1>. SUFFICES ASSUME IngInv, [IngNext]_ingVars PROVE IngInv'
  OBVIOUS
<1>. USE DEF ingVars
<1>1. CASE RegisterActor \/ Disconnect \/ MapIdentity \/ UNCHANGED ingVars
  <2>1. UNCHANGED <<signer, intents, rounds, events, told>> /\ actorKey' \in Nat
    BY <1>1 DEF RegisterActor, Disconnect, MapIdentity, IngInv
  <2>. QED
    BY <2>1, IntentsGrow DEF IngInv, IntentAppliedOnce
<1>2. CASE QueueIntent
  <2>. DEFINE n == [key |-> signer, expired |-> FALSE, status |-> "queued", count |-> 0]
  <2>1. intents' = Append(intents, n) /\ n \in Intent /\ n.status = "queued" /\ n.count = 0
        /\ UNCHANGED <<signer, actorKey, rounds, events, told>>
    BY <1>2 DEF QueueIntent, Intent, IngInv
  <2>. HIDE DEF n
  <2>2. /\ intents' \in Seq(Intent) /\ DOMAIN intents' = DOMAIN intents \cup {Len(intents) + 1}
        /\ \A i \in DOMAIN intents : intents'[i] = intents[i]
        /\ intents'[Len(intents) + 1] = n
    BY <2>1, AppendProperties DEF IngInv
  <2>3. IntentAppliedOnce'
    BY <2>1, <2>2 DEF IngInv, IntentAppliedOnce
  <2>. QED
    BY <2>1, <2>2, <2>3, IntentsGrow DEF IngInv
<1>3. CASE IntentExpires
  <2>1. PICK i \in DOMAIN intents : intents' = [intents EXCEPT ![i].expired = TRUE]
    BY <1>3 DEF IntentExpires
  <2>. DEFINE n == [intents[i] EXCEPT !.expired = TRUE]
  <2>2. UNCHANGED <<signer, actorKey, rounds, events, told>>
    BY <1>3 DEF IntentExpires
  <2>3. intents[i] \in Intent
    BY <2>1, ElementOfSeq DEF IngInv
  <2>4. n \in Intent /\ n.status = intents[i].status /\ n.count = intents[i].count
    BY <2>3 DEF Intent
  <2>5. intents' = [intents EXCEPT ![i] = n]
    BY <2>1
  <2>. HIDE DEF n
  <2>6. /\ intents' \in Seq(Intent) /\ DOMAIN intents' = DOMAIN intents
        /\ \A j \in DOMAIN intents : intents'[j].status = intents[j].status
                                     /\ intents'[j].count = intents[j].count
    <3>1. intents \in Seq(Intent) /\ i \in DOMAIN intents /\ n \in Intent
      BY <2>1, <2>4 DEF IngInv
    <3>2. /\ [intents EXCEPT ![i] = n] \in Seq(Intent)
          /\ DOMAIN [intents EXCEPT ![i] = n] = DOMAIN intents
          /\ [intents EXCEPT ![i] = n][i] = n
          /\ \A j \in DOMAIN intents : j # i => [intents EXCEPT ![i] = n][j] = intents[j]
      BY <3>1, ExceptSeq
    <3>. QED
      BY <2>4, <2>5, <3>2
  <2>7. IntentAppliedOnce'
    BY <2>6 DEF IngInv, IntentAppliedOnce
  <2>. QED
    BY <2>2, <2>6, <2>7, IntentsGrow DEF IngInv
<1>4. CASE Redelivered
  <2>1. PICK i \in DOMAIN intents :
           /\ intents' = Reconciled(i).intents
           /\ Answer(<<"intent", i>>, NoPrincipal, Reconciled(i).answer)
    BY <1>4 DEF Redelivered
  <2>2. UNCHANGED <<signer, actorKey, rounds, events>>
    BY <1>4 DEF Redelivered
  <2>3. DOMAIN intents' = DOMAIN intents
        /\ \A j \in DOMAIN intents : intents[j].status = "applied" => intents'[j].status = "applied"
    BY <2>1, ReconciledIs
  <2>4. QueueInOrder'
    BY <2>2, <2>3 DEF IngInv, QueueInOrder
  <2>. QED
    BY <2>1, <2>2, <2>4, ReconcileKeeps DEF IngInv
<1>5. CASE ServiceRestarts
  <2>1. /\ rounds' = [c \in Reconnects |-> NoRound] /\ signer' = signer + 1
        /\ UNCHANGED <<actorKey, intents, events, told>>
    BY <1>5 DEF ServiceRestarts
  <2>. QED
    BY <2>1, RoundsChange DEF IngInv, NoRound
<1>6. ASSUME NEW c \in Reconnects, ReconnectBegin(c) PROVE IngInv'
  <2>. DEFINE queued == {i \in DOMAIN intents : intents[i].status = "queued"}
  <2>1. /\ rounds[c] = NoRound /\ rounds' = [rounds EXCEPT ![c].rows = queued]
        /\ UNCHANGED <<signer, actorKey, intents, events, told>>
    BY <1>6 DEF ReconnectBegin
  <2>2. queued \in SUBSET Nat /\ queued \subseteq DOMAIN intents
    BY DEF IngInv
  <2>. HIDE DEF queued
  <2>3. rounds' \in [Reconnects -> [rows : SUBSET Nat, last : Nat]]
        /\ \A d \in Reconnects : IF d = c THEN rounds'[d].rows = queued /\ rounds'[d].last = 0
                                            ELSE rounds'[d] = rounds[d]
    BY <2>1, <2>2 DEF NoRound, IngInv
  <2>. QED
    BY <2>1, <2>2, <2>3, RoundsChange DEF IngInv
<1>7. ASSUME NEW c \in Reconnects, ReconnectEnds(c) PROVE IngInv'
  <2>1. rounds' = [rounds EXCEPT ![c] = NoRound] /\ UNCHANGED <<signer, actorKey, intents, events, told>>
    BY <1>7 DEF ReconnectEnds
  <2>. QED
    BY <2>1, RoundsChange DEF IngInv, NoRound
<1>8. ASSUME NEW c \in Reconnects, ReconcileNext(c) PROVE IngInv'
  BY <1>8, ReconcileNextKeeps
<1>9. ASSUME NEW e \in ExternalEvents, Ingest(e) PROVE IngInv'
  BY <1>9, IngestKeeps
<1>. QED
  BY <1>1, <1>2, <1>3, <1>4, <1>5, <1>6, <1>7, <1>8, <1>9 DEF IngNext

(* Whoever is told something again is told the same.                         *)
LEMMA AnswersAgreeStep ==
    ASSUME IngInv, [IngNext]_ingVars, NEW t \in told' \ told, NEW u \in told, u.about = t.about
    PROVE  (t.about[1] = "intent" /\ u.answer # "applied") \/ t = u
<1>1. ASSUME NEW i \in DOMAIN intents, Answer(<<"intent", i>>, NoPrincipal, Reconciled(i).answer)
      PROVE  (t.about[1] = "intent" /\ u.answer # "applied") \/ t = u
  <2>1. t = [about |-> <<"intent", i>>, principal |-> NoPrincipal, answer |-> Reconciled(i).answer]
    BY <1>1 DEF Answer
  <2>2. u.about = <<"intent", i>> /\ t.about[1] = "intent"
    BY <2>1
  <2>3. ~AboutEvent(u)
    BY <2>2 DEF AboutEvent
  <2>4. PICK k \in DOMAIN intents, a \in {"applied", "refused"} :
           /\ u = [about |-> <<"intent", k>>, principal |-> NoPrincipal, answer |-> a]
           /\ a = "applied" => intents[k].status = "applied"
    BY <2>3 DEF IngInv, AboutIntent
  <2>5. k = i
    BY <2>2, <2>4
  <2>6. a = "applied" => Reconciled(i).answer = "applied"
    BY <2>4, <2>5, ReconciledIs
  <2>. QED
    BY <2>1, <2>2, <2>4, <2>5, <2>6
<1>2. ASSUME NEW e \in ExternalEvents, Ingest(e)
      PROVE  t = u
  <2>1. t.about = <<"event", e>>
    BY <1>2 DEF Ingest, Answer
  <2>2. ~AboutIntent(u)
    BY <2>1 DEF AboutIntent
  <2>3. PICK y \in events : u = [about |-> <<"event", y.id>>, principal |-> y.principal,
                                 answer |-> y.status]
    BY <2>2 DEF IngInv, AboutEvent
  <2>4. y.id = e /\ y \in Recorded(e)
    BY <2>1, <2>3 DEF Recorded
  <2>5. PICK x \in Recorded(e) : Answer(<<"event", e>>, x.principal, x.status)
    BY <1>2, <2>4 DEF Ingest
  <2>6. x = y
    BY <2>4 DEF IngInv, Recorded
  <2>. QED
    BY <2>3, <2>4, <2>5, <2>6 DEF Answer
<1>3. CASE UNCHANGED told
  BY <1>3
<1>4. CASE Redelivered
  BY <1>1, <1>4 DEF Redelivered
<1>5. ASSUME NEW c \in Reconnects, ReconcileNext(c)
      PROVE  (t.about[1] = "intent" /\ u.answer # "applied") \/ t = u
  <2>1. Ahead(rounds[c]) \subseteq DOMAIN intents
    BY DEF Ahead, IngInv
  <2>. QED
    BY <1>1, <1>5, <2>1 DEF ReconcileNext
<1>. QED
  BY <1>2, <1>3, <1>4, <1>5 DEF IngNext, ingVars, RegisterActor, Disconnect, QueueIntent,
     IntentExpires, MapIdentity, ServiceRestarts, ReconnectBegin, ReconnectEnds

(* Deliveries that come again, late or after a restart apply an intent once, *)
(* in order, and are answered alike.                                         *)
THEOREM IngressKeptHolds == IngSpec => IngressKept
<1>1. IngInit => IngInv
  BY DEF IngInit, IngInv, NoRound, IntentAppliedOnce, QueueInOrder
<1>2. IngInv => IntentAppliedOnce /\ QueueInOrder
  BY DEF IngInv
<1>3. IngInv /\ [IngNext]_ingVars =>
         [\A t \in told' \ told : \A u \in told : u.about = t.about =>
               \/ t.about[1] = "intent" /\ u.answer # "applied"
               \/ t = u]_ingVars
  BY AnswersAgreeStep
<1>. QED
  BY <1>1, <1>2, <1>3, IngStepInv, PTL DEF IngSpec, IngressKept, AnswersAgree

(*****************************************************************************)
(* Governance                                                                *)
(*****************************************************************************)

TeamRecords == [project : Projects, role : UNION {[S -> Roles] : S \in SUBSET People}]
ConnectionRecords == [project : Projects, status : {"configured", "connected"}]
FlowRecords == [kind : {"oauth", "device"}, connection : Nat,
                status : {"pending", "completed", "approved", "connected", "expired"},
                by : SUBSET People, late : BOOLEAN]

(* Owners were owners once.                                                  *)
TeamsInv ==
    /\ teams \in Seq(TeamRecords)
    /\ \A k \in DOMAIN teams, p \in People :
          RoleIn(k, p) = "owner" => <<teams[k].project, p>> \in owned

(* A flow belongs to a connection, whoever approved it owned the project,    *)
(* and a device flow connects only what somebody approved.                   *)
FlowsInv ==
    /\ connections \in Seq(ConnectionRecords) /\ flows \in Seq(FlowRecords)
    /\ \A f \in DOMAIN flows :
          /\ flows[f].connection \in DOMAIN connections
          /\ \A p \in flows[f].by : <<connections[flows[f].connection].project, p>> \in owned
          /\ flows[f].status = "approved" => flows[f].by # {}
          /\ flows[f].kind = "oauth" => ~flows[f].late
    /\ grants \subseteq [connection : DOMAIN connections, to : People, by : People]
    /\ ConnectedByOwner /\ GrantsByOwners

(* Evidence is about decisions, and no policy is ever autonomous.            *)
AutonomyInv ==
    /\ decisions \in Seq([project : Projects, person : People, executed : BOOLEAN])
    /\ evidence \in Seq([decision : Nat, successful : BOOLEAN])
    /\ \A e \in DOMAIN evidence : evidence[e].decision \in DOMAIN decisions
    /\ policy \in [Projects \X People -> [mode : {"shadow", "supervised"}, evidence : Nat]]
    /\ EvidenceBased

(* A routine names a skill of its project.                                   *)
RoutinesInv ==
    /\ govSkills \in Seq([project : Projects, active : BOOLEAN])
    /\ routines \in Seq([project : Projects, skill : Nat])
    /\ \A r \in DOMAIN routines : /\ routines[r].skill \in DOMAIN govSkills
                                  /\ govSkills[routines[r].skill].project = routines[r].project
    /\ runsOf \subseteq [routine : DOMAIN routines, skill : DOMAIN govSkills, by : People]
    /\ RoutinesStayInProject

GovInv == TeamsInv /\ FlowsInv /\ AutonomyInv /\ RoutinesInv

-----------------------------------------------------------------------------
(* A group of rows keeps its part while nothing it speaks of changes.        *)
LEMMA TeamsKept ==
    ASSUME TeamsInv, UNCHANGED <<teams, owned>>
    PROVE  TeamsInv'
BY DEF TeamsInv, RoleIn

(* The same for connections, flows and grants, when there are more owners.   *)
LEMMA FlowsKept ==
    ASSUME FlowsInv, UNCHANGED flowVars, owned \subseteq owned'
    PROVE  FlowsInv'
<1>1. ConnectedByOwner'
  BY DEF FlowsInv, flowVars, ConnectedByOwner
<1>2. GrantsByOwners'
  BY DEF FlowsInv, flowVars, GrantsByOwners
<1>. QED
  BY <1>1, <1>2 DEF FlowsInv, flowVars

(* The same for decisions, evidence and policies.                            *)
LEMMA AutonomyKept ==
    ASSUME AutonomyInv, UNCHANGED autonomyVars
    PROVE  AutonomyInv'
BY DEF AutonomyInv, autonomyVars, EvidenceBased, Successes

(* The same for skills and routines, when members stay members.              *)
LEMMA RoutinesKept ==
    ASSUME RoutinesInv, UNCHANGED skillsVars,
           DOMAIN teams \subseteq DOMAIN teams',
           \A k \in DOMAIN teams : teams'[k].project = teams[k].project
                                   /\ DOMAIN teams[k].role \subseteq DOMAIN teams'[k].role
    PROVE  RoutinesInv'
<1>1. UNCHANGED <<govSkills, routines, runsOf>>
  BY DEF skillsVars
<1>2. ASSUME NEW r \in runsOf
      PROVE  /\ govSkills[r.skill].project = routines[r.routine].project
             /\ \E k \in DOMAIN teams' : /\ teams'[k].project = routines[r.routine].project
                                         /\ r.by \in DOMAIN teams'[k].role
  <2>1. PICK k \in DOMAIN teams : /\ teams[k].project = routines[r.routine].project
                                  /\ r.by \in DOMAIN teams[k].role
    BY DEF RoutinesInv, RoutinesStayInProject
  <2>2. k \in DOMAIN teams' /\ teams'[k].project = routines[r.routine].project
        /\ r.by \in DOMAIN teams'[k].role
    BY <2>1
  <2>. QED
    BY <2>2 DEF RoutinesInv, RoutinesStayInProject
<1>3. RoutinesStayInProject'
  BY <1>1, <1>2 DEF RoutinesStayInProject
<1>. QED
  BY <1>1, <1>3 DEF RoutinesInv

(* Nothing of the teams changes.                                             *)
LEMMA RoutinesKeptWithTeams ==
    ASSUME RoutinesInv, UNCHANGED <<skillsVars, teams>>
    PROVE  RoutinesInv'
BY RoutinesKept

-----------------------------------------------------------------------------
(* Whoever creates a team owns it.                                           *)
LEMMA CreateTeamKeeps ==
    ASSUME GovInv, NEW j \in Projects, NEW p \in People, CreateTeam(j, p)
    PROVE  GovInv'
<1>. DEFINE n == [project |-> j, role |-> [x \in {p} |-> "owner"]]
<1>1. /\ teams' = Append(teams, n) /\ owned' = owned \cup {<<j, p>>}
      /\ UNCHANGED <<topic, flowVars, autonomyVars, skillsVars>>
  BY DEF CreateTeam
<1>2. n \in TeamRecords /\ n.project = j /\ DOMAIN n.role = {p}
  <2>1. [x \in {p} |-> "owner"] \in [{p} -> Roles] /\ {p} \in SUBSET People
    BY DEF Roles
  <2>2. [x \in {p} |-> "owner"] \in UNION {[S -> Roles] : S \in SUBSET People}
    BY <2>1
  <2>. QED
    BY <2>2 DEF TeamRecords
<1>. HIDE DEF n
<1>3. /\ teams' \in Seq(TeamRecords) /\ DOMAIN teams' = DOMAIN teams \cup {Len(teams) + 1}
      /\ \A k \in DOMAIN teams : teams'[k] = teams[k]
      /\ teams'[Len(teams) + 1] = n /\ Len(teams) + 1 \notin DOMAIN teams
  BY <1>1, <1>2, AppendProperties DEF GovInv, TeamsInv
<1>4. TeamsInv'
  <2>1. ASSUME NEW k \in DOMAIN teams', NEW q \in People, RoleIn(k, q)' = "owner"
        PROVE  <<teams'[k].project, q>> \in owned'
    <3>1. CASE k \in DOMAIN teams
      BY <1>1, <1>3, <2>1, <3>1 DEF GovInv, TeamsInv, RoleIn
    <3>2. CASE k = Len(teams) + 1
      BY <1>1, <1>2, <1>3, <2>1, <3>2 DEF RoleIn
    <3>. QED
      BY <1>3, <3>1, <3>2
  <2>. QED
    BY <1>3, <2>1 DEF TeamsInv
<1>. QED
  BY <1>1, <1>3, <1>4, FlowsKept, AutonomyKept, RoutinesKept DEF GovInv

(* An owner gives somebody a role: a new owner is remembered as one.         *)
LEMMA AddMemberKeeps ==
    ASSUME GovInv, NEW p \in People, AddMember(p)
    PROVE  GovInv'
<1>1. PICK k \in DOMAIN teams, q \in People, role \in Roles :
         /\ teams' = [teams EXCEPT ![k].role =
               [x \in DOMAIN @ \cup {q} |-> IF x = q THEN role ELSE @[x]]]
         /\ owned' = IF role = "owner" THEN owned \cup {<<teams[k].project, q>>} ELSE owned
         /\ UNCHANGED <<topic, flowVars, autonomyVars, skillsVars>>
  BY DEF AddMember
<1>. DEFINE g == [x \in DOMAIN teams[k].role \cup {q} |-> IF x = q THEN role ELSE teams[k].role[x]]
            n == [project |-> teams[k].project, role |-> g]
<1>2. teams \in Seq(TeamRecords) /\ teams[k] \in TeamRecords
  BY <1>1, ElementOfSeq DEF GovInv, TeamsInv
<1>3. PICK S \in SUBSET People : teams[k].role \in [S -> Roles]
  BY <1>2 DEF TeamRecords
<1>4. g \in [S \cup {q} -> Roles] /\ S \cup {q} \in SUBSET People
  BY <1>3
<1>5. n \in TeamRecords
  BY <1>2, <1>4 DEF TeamRecords
<1>6. teams' = [teams EXCEPT ![k] = n]
  <2>1. teams' = [teams EXCEPT ![k] = [teams[k] EXCEPT !.role = g]]
    BY <1>1
  <2>2. [teams[k] EXCEPT !.role = g] = n
    BY <1>2 DEF TeamRecords
  <2>. HIDE DEF n
  <2>. QED
    BY <2>1, <2>2
<1>7. n.project = teams[k].project /\ n.role = g /\ DOMAIN g = DOMAIN teams[k].role \cup {q}
      /\ \A x \in DOMAIN g : g[x] = IF x = q THEN role ELSE teams[k].role[x]
  OBVIOUS
<1>. HIDE DEF n, g
<1>8. /\ [teams EXCEPT ![k] = n] \in Seq(TeamRecords)
      /\ DOMAIN [teams EXCEPT ![k] = n] = DOMAIN teams
      /\ \A i \in DOMAIN teams : [teams EXCEPT ![k] = n][i] = IF i = k THEN n ELSE teams[i]
  BY <1>2, <1>5, ExceptSeq
<1>9. TeamsInv'
  <2>1. ASSUME NEW i \in DOMAIN teams', NEW r \in People, RoleIn(i, r)' = "owner"
        PROVE  <<teams'[i].project, r>> \in owned'
    <3>1. CASE i # k
      BY <1>1, <1>6, <1>8, <2>1, <3>1 DEF GovInv, TeamsInv, RoleIn
    <3>2. CASE i = k /\ r # q
      BY <1>1, <1>6, <1>7, <1>8, <2>1, <3>2 DEF GovInv, TeamsInv, RoleIn
    <3>3. CASE i = k /\ r = q
      BY <1>1, <1>6, <1>7, <1>8, <2>1, <3>3 DEF RoleIn
    <3>. QED
      BY <3>1, <3>2, <3>3
  <2>. QED
    BY <1>6, <1>8, <2>1 DEF TeamsInv
<1>10. \A i \in DOMAIN teams : teams'[i].project = teams[i].project
                               /\ DOMAIN teams[i].role \subseteq DOMAIN teams'[i].role
  BY <1>6, <1>7, <1>8
<1>11. DOMAIN teams' = DOMAIN teams /\ owned \subseteq owned'
  BY <1>1, <1>6, <1>8
<1>. QED
  BY <1>1, <1>9, <1>10, <1>11, FlowsKept, AutonomyKept, RoutinesKept DEF GovInv

-----------------------------------------------------------------------------
(* Owners are those of the teams.                                            *)
LEMMA OwnersOwned ==
    ASSUME GovInv, NEW j, NEW p \in People, IsOwner(j, p)
    PROVE  <<j, p>> \in owned
BY DEF GovInv, TeamsInv, IsOwner

(* A step on connections, flows and grants alone.                            *)
LEMMA FlowStep ==
    ASSUME GovInv, FlowsInv', UNCHANGED <<teams, owned, autonomyVars, skillsVars>>
    PROVE  GovInv'
BY TeamsKept, AutonomyKept, RoutinesKeptWithTeams DEF GovInv

(* A connection is new, and no flow of it has begun.                         *)
LEMMA CreateConnectionKeeps ==
    ASSUME GovInv, NEW j \in Projects, CreateConnection(j)
    PROVE  GovInv'
<1>. DEFINE n == [project |-> j, status |-> "configured"]
<1>1. connections' = Append(connections, n)
      /\ UNCHANGED <<topic, teams, flows, grants, owned, autonomyVars, skillsVars>>
  BY DEF CreateConnection
<1>2. n \in ConnectionRecords /\ n.status = "configured"
  BY DEF ConnectionRecords
<1>. HIDE DEF n
<1>3. /\ connections' \in Seq(ConnectionRecords)
      /\ DOMAIN connections' = DOMAIN connections \cup {Len(connections) + 1}
      /\ \A k \in DOMAIN connections : connections'[k] = connections[k]
      /\ connections'[Len(connections) + 1] = n
  BY <1>1, <1>2, AppendProperties DEF GovInv, FlowsInv
<1>4. ConnectedByOwner'
  BY <1>1, <1>2, <1>3 DEF GovInv, FlowsInv, ConnectedByOwner
<1>5. GrantsByOwners' /\ grants' \subseteq [connection : DOMAIN connections', to : People, by : People]
  BY <1>1, <1>3 DEF GovInv, FlowsInv, GrantsByOwners
<1>6. \A f \in DOMAIN flows' :
          /\ flows'[f].connection \in DOMAIN connections'
          /\ \A p \in flows'[f].by : <<connections'[flows'[f].connection].project, p>> \in owned'
          /\ flows'[f].status = "approved" => flows'[f].by # {}
          /\ flows'[f].kind = "oauth" => ~flows'[f].late
  BY <1>1, <1>3 DEF GovInv, FlowsInv
<1>7. FlowsInv'
  BY <1>1, <1>3, <1>4, <1>5, <1>6 DEF GovInv, FlowsInv
<1>. QED
  BY <1>1, <1>7, FlowStep

(* An owner grants.                                                          *)
LEMMA GrantKeeps ==
    ASSUME GovInv, NEW p \in People, Grant(p)
    PROVE  GovInv'
<1>1. PICK k \in DOMAIN connections, q \in People :
         /\ IsOwner(connections[k].project, p)
         /\ grants' = grants \cup {[connection |-> k, to |-> q, by |-> p]}
         /\ UNCHANGED <<topic, teams, connections, flows, owned, autonomyVars, skillsVars>>
  BY DEF Grant
<1>2. <<connections[k].project, p>> \in owned
  BY <1>1, OwnersOwned
<1>3. GrantsByOwners'
  <2>1. PICK x : x = [connection |-> k, to |-> q, by |-> p] /\ grants' = grants \cup {x}
    BY <1>1
  <2>2. <<connections[x.connection].project, x.by>> \in owned
    BY <1>2, <2>1
  <2>3. \A y \in grants : <<connections[y.connection].project, y.by>> \in owned
    BY DEF GovInv, FlowsInv, GrantsByOwners
  <2>4. UNCHANGED <<connections, owned>>
    BY <1>1
  <2>. QED
    BY <2>1, <2>2, <2>3, <2>4 DEF GrantsByOwners
<1>4. ConnectedByOwner'
  BY <1>1 DEF GovInv, FlowsInv, ConnectedByOwner
<1>5. FlowsInv'
  BY <1>1, <1>3, <1>4 DEF GovInv, FlowsInv
<1>. QED
  BY <1>1, <1>5, FlowStep

(* A flow begins for a connection, and nobody has approved it.               *)
LEMMA BeginFlowKeeps ==
    ASSUME GovInv, NEW kind \in {"oauth", "device"}, BeginFlow(kind)
    PROVE  GovInv'
<1>1. PICK k \in DOMAIN connections :
         /\ flows' = Append(flows, [kind |-> kind, connection |-> k, status |-> "pending",
                                    by |-> {}, late |-> FALSE])
         /\ UNCHANGED <<topic, teams, connections, grants, owned, autonomyVars, skillsVars>>
  BY DEF BeginFlow
<1>. DEFINE n == [kind |-> kind, connection |-> k, status |-> "pending", by |-> {}, late |-> FALSE]
<1>2. n \in FlowRecords /\ n.connection = k /\ n.by = {} /\ n.status = "pending" /\ ~n.late
  BY <1>1 DEF FlowRecords, GovInv, FlowsInv
<1>3. flows' = Append(flows, n)
  BY <1>1
<1>. HIDE DEF n
<1>4. /\ flows' \in Seq(FlowRecords) /\ DOMAIN flows' = DOMAIN flows \cup {Len(flows) + 1}
      /\ \A f \in DOMAIN flows : flows'[f] = flows[f]
      /\ flows'[Len(flows) + 1] = n
  BY <1>2, <1>3, AppendProperties DEF GovInv, FlowsInv
<1>5. ConnectedByOwner' /\ GrantsByOwners'
  <2>1. UNCHANGED <<connections, owned, grants>>
    BY <1>1
  <2>2. ASSUME NEW i \in DOMAIN connections, connections[i].status = "connected"
        PROVE  \E f \in DOMAIN flows' :
                  /\ flows'[f].connection = i
                  /\ \/ flows'[f].kind = "oauth" /\ flows'[f].status = "completed"
                     \/ \E p \in flows'[f].by : <<connections[i].project, p>> \in owned
    <3>1. PICK f \in DOMAIN flows :
             /\ flows[f].connection = i
             /\ \/ flows[f].kind = "oauth" /\ flows[f].status = "completed"
                \/ \E p \in flows[f].by : <<connections[i].project, p>> \in owned
      BY <2>2 DEF GovInv, FlowsInv, ConnectedByOwner
    <3>2. f \in DOMAIN flows' /\ flows'[f] = flows[f]
      BY <1>4
    <3>. QED
      BY <3>1, <3>2
  <2>3. ConnectedByOwner'
    BY <2>1, <2>2 DEF ConnectedByOwner
  <2>. QED
    BY <2>1, <2>3 DEF GovInv, FlowsInv, GrantsByOwners
<1>6. \A f \in DOMAIN flows' :
          /\ flows'[f].connection \in DOMAIN connections'
          /\ \A p \in flows'[f].by : <<connections'[flows'[f].connection].project, p>> \in owned'
          /\ flows'[f].status = "approved" => flows'[f].by # {}
          /\ flows'[f].kind = "oauth" => ~flows'[f].late
  BY <1>1, <1>2, <1>4 DEF GovInv, FlowsInv
<1>7. FlowsInv'
  BY <1>1, <1>4, <1>5, <1>6 DEF GovInv, FlowsInv
<1>. QED
  BY <1>1, <1>7, FlowStep

(* What a flow may become: it stays what it is and whose it is, an OAuth     *)
(* flow that was completed stays so, and who approved it owns the project.   *)
Advances(f, n) ==
    /\ n \in FlowRecords /\ n.kind = flows[f].kind /\ n.connection = flows[f].connection
    /\ n.kind = "oauth" => ~n.late /\ (flows[f].status = "completed" => n.status = "completed")
    /\ n.status = "approved" => n.by # {}
    /\ flows[f].by # {} => n.by # {}
    /\ \A p \in n.by : <<connections[n.connection].project, p>> \in owned

(* A flow advances and may connect its connection, when it was completed or  *)
(* approved.                                                                 *)
LEMMA FlowAdvances ==
    ASSUME GovInv, NEW f \in DOMAIN flows, NEW n, Advances(f, n), flows' = [flows EXCEPT ![f] = n],
           \/ connections' = connections
           \/ /\ connections' = Connected(n.connection)
              /\ (n.kind = "oauth" /\ n.status = "completed") \/ n.by # {},
           UNCHANGED <<teams, grants, owned, autonomyVars, skillsVars>>
    PROVE  GovInv'
<1>. DEFINE k == flows[f].connection
<1>1. /\ connections \in Seq(ConnectionRecords) /\ k \in DOMAIN connections
      /\ flows \in Seq(FlowRecords) /\ n.connection = k
  BY DEF GovInv, FlowsInv, Advances
<1>2. /\ flows' \in Seq(FlowRecords) /\ DOMAIN flows' = DOMAIN flows
      /\ \A g \in DOMAIN flows : flows'[g] = IF g = f THEN n ELSE flows[g]
  BY <1>1, ExceptSeq DEF Advances
<1>3. /\ connections' \in Seq(ConnectionRecords) /\ DOMAIN connections' = DOMAIN connections
      /\ \A i \in DOMAIN connections :
            /\ connections'[i].project = connections[i].project
            /\ \/ connections'[i].status = connections[i].status
               \/ i = k /\ ((n.kind = "oauth" /\ n.status = "completed") \/ n.by # {})
  <2>1. CASE connections' = connections
    BY <1>1, <2>1
  <2>2. CASE /\ connections' = Connected(n.connection)
             /\ (n.kind = "oauth" /\ n.status = "completed") \/ n.by # {}
    <3>. DEFINE e == [connections[k] EXCEPT !.status = "connected"]
    <3>1. connections[k] \in ConnectionRecords
      BY <1>1, ElementOfSeq
    <3>2. e \in ConnectionRecords /\ e.project = connections[k].project
      BY <3>1 DEF ConnectionRecords
    <3>3. connections' = [connections EXCEPT ![k] = e]
      BY <1>1, <2>2 DEF Connected
    <3>. HIDE DEF e, k
    <3>4. /\ [connections EXCEPT ![k] = e] \in Seq(ConnectionRecords)
          /\ DOMAIN [connections EXCEPT ![k] = e] = DOMAIN connections
          /\ \A i \in DOMAIN connections :
                [connections EXCEPT ![k] = e][i] = IF i = k THEN e ELSE connections[i]
      BY <1>1, <3>2, ExceptSeq
    <3>. QED
      BY <2>2, <3>2, <3>3, <3>4
  <2>. QED
    BY <2>1, <2>2
<1>. HIDE DEF k
<1>4. ConnectedByOwner'
  <2>1. ASSUME NEW i \in DOMAIN connections', connections'[i].status = "connected"
        PROVE  \E g \in DOMAIN flows' :
                  /\ flows'[g].connection = i
                  /\ \/ flows'[g].kind = "oauth" /\ flows'[g].status = "completed"
                     \/ \E p \in flows'[g].by : <<connections'[i].project, p>> \in owned'
    <3>1. CASE i = k /\ ((n.kind = "oauth" /\ n.status = "completed") \/ n.by # {})
      BY <1>1, <1>2, <1>3, <3>1 DEF Advances
    <3>2. CASE connections[i].status = "connected"
      <4>1. PICK g \in DOMAIN flows :
               /\ flows[g].connection = i
               /\ \/ flows[g].kind = "oauth" /\ flows[g].status = "completed"
                  \/ \E p \in flows[g].by : <<connections[i].project, p>> \in owned
        BY <1>3, <2>1, <3>2 DEF GovInv, FlowsInv, ConnectedByOwner
      <4>2. CASE g # f
        BY <1>2, <1>3, <2>1, <4>1, <4>2
      <4>3. CASE g = f
        <5>1. n.connection = i /\ flows'[g] = n
          BY <1>2, <4>1, <4>3 DEF Advances
        <5>2. \/ n.kind = "oauth" /\ n.status = "completed"
              \/ \E p \in n.by : <<connections[i].project, p>> \in owned
          BY <4>1, <4>3, <5>1 DEF Advances
        <5>. QED
          BY <1>2, <1>3, <2>1, <5>1, <5>2
      <4>. QED
        BY <4>2, <4>3
    <3>. QED
      BY <1>3, <2>1, <3>1, <3>2
  <2>. QED
    BY <2>1 DEF ConnectedByOwner
<1>5. GrantsByOwners' /\ grants' \subseteq [connection : DOMAIN connections', to : People, by : People]
  BY <1>3 DEF GovInv, FlowsInv, GrantsByOwners
<1>6. \A g \in DOMAIN flows' :
          /\ flows'[g].connection \in DOMAIN connections'
          /\ \A p \in flows'[g].by : <<connections'[flows'[g].connection].project, p>> \in owned'
          /\ flows'[g].status = "approved" => flows'[g].by # {}
          /\ flows'[g].kind = "oauth" => ~flows'[g].late
  BY <1>1, <1>2, <1>3 DEF GovInv, FlowsInv, Advances
<1>7. FlowsInv'
  BY <1>2, <1>3, <1>4, <1>5, <1>6 DEF FlowsInv
<1>. QED
  BY <1>7, FlowStep

(* Every way a flow goes on, but for its expiry, keeps what the flows say.   *)
LEMMA FlowsGoOn ==
    ASSUME GovInv, CompleteOAuth \/ PollDevice \/ FlowExpires
                   \/ \E p \in People : ApproveDevice(p)
    PROVE  GovInv'
<1>1. ASSUME NEW f \in DOMAIN flows
      PROVE  /\ flows[f] \in FlowRecords
             /\ \A p \in flows[f].by : <<connections[flows[f].connection].project, p>> \in owned
             /\ flows[f].status = "approved" => flows[f].by # {}
             /\ flows[f].kind = "oauth" => ~flows[f].late
  BY <1>1, ElementOfSeq DEF GovInv, FlowsInv
<1>2. CASE CompleteOAuth
  <2>1. PICK f \in DOMAIN flows :
           /\ flows[f].kind = "oauth" /\ flows' = [flows EXCEPT ![f].status = "completed"]
           /\ connections' = Connected(flows[f].connection)
           /\ UNCHANGED <<topic, teams, grants, owned, autonomyVars, skillsVars>>
    BY <1>2 DEF CompleteOAuth
  <2>. DEFINE n == [flows[f] EXCEPT !.status = "completed"]
  <2>2. /\ n \in FlowRecords /\ n.kind = "oauth" /\ n.connection = flows[f].connection
        /\ n.status = "completed" /\ n.by = flows[f].by /\ n.late = flows[f].late
    BY <1>1, <2>1 DEF FlowRecords
  <2>3. flows' = [flows EXCEPT ![f] = n]
    BY <2>1
  <2>. HIDE DEF n
  <2>4. Advances(f, n)
    BY <1>1, <2>1, <2>2 DEF Advances
  <2>. QED
    BY <2>1, <2>2, <2>3, <2>4, FlowAdvances
<1>3. CASE PollDevice
  <2>1. PICK f \in DOMAIN flows, s \in {"expired", "connected"} :
           /\ flows[f].kind = "device" /\ flows' = [flows EXCEPT ![f].status = s]
           /\ \/ connections' = connections
              \/ connections' = Connected(flows[f].connection) /\ flows[f].status = "approved"
           /\ UNCHANGED <<topic, teams, grants, owned, autonomyVars, skillsVars>>
    BY <1>3 DEF PollDevice
  <2>. DEFINE n == [flows[f] EXCEPT !.status = s]
  <2>2. /\ n \in FlowRecords /\ n.kind = "device" /\ n.connection = flows[f].connection
        /\ n.status = s /\ n.by = flows[f].by
    BY <1>1, <2>1 DEF FlowRecords
  <2>3. flows' = [flows EXCEPT ![f] = n]
    BY <2>1
  <2>. HIDE DEF n
  <2>4. Advances(f, n)
    BY <1>1, <2>1, <2>2 DEF Advances
  <2>5. flows[f].status = "approved" => n.by # {}
    BY <1>1, <2>2
  <2>. QED
    BY <2>1, <2>2, <2>3, <2>4, <2>5, FlowAdvances
<1>4. CASE FlowExpires
  <2>1. PICK f \in DOMAIN flows :
           /\ flows[f].kind = "device" /\ flows' = [flows EXCEPT ![f].late = TRUE]
           /\ UNCHANGED <<topic, teams, connections, grants, owned, autonomyVars, skillsVars>>
    BY <1>4 DEF FlowExpires
  <2>. DEFINE n == [flows[f] EXCEPT !.late = TRUE]
  <2>2. /\ n \in FlowRecords /\ n.kind = "device" /\ n.connection = flows[f].connection
        /\ n.status = flows[f].status /\ n.by = flows[f].by
    BY <1>1, <2>1 DEF FlowRecords
  <2>3. flows' = [flows EXCEPT ![f] = n]
    BY <2>1
  <2>. HIDE DEF n
  <2>4. Advances(f, n)
    BY <1>1, <2>1, <2>2 DEF Advances
  <2>. QED
    BY <2>1, <2>3, <2>4, FlowAdvances
<1>5. ASSUME NEW p \in People, ApproveDevice(p) PROVE GovInv'
  <2>1. PICK f \in DOMAIN flows :
           /\ flows[f].kind = "device" /\ MayApprove(f, p)
           /\ flows' = [flows EXCEPT ![f].status = "approved", ![f].by = {p}]
           /\ UNCHANGED <<topic, teams, connections, grants, owned, autonomyVars, skillsVars>>
    BY <1>5 DEF ApproveDevice
  <2>. DEFINE n == [flows[f] EXCEPT !.status = "approved", !.by = {p}]
  <2>2. /\ n \in FlowRecords /\ n.kind = "device" /\ n.connection = flows[f].connection
        /\ n.by = {p}
    BY <1>1, <2>1 DEF FlowRecords
  <2>3. flows' = [flows EXCEPT ![f] = n]
    BY <2>1
  <2>. HIDE DEF n
  <2>4. <<connections[n.connection].project, p>> \in owned
    BY <2>1, <2>2, OwnersOwned DEF MayApprove
  <2>5. Advances(f, n)
    BY <2>1, <2>2, <2>4 DEF Advances
  <2>. QED
    BY <2>1, <2>3, <2>5, FlowAdvances
<1>. QED
  BY <1>2, <1>3, <1>4, <1>5

-----------------------------------------------------------------------------
(* Successes stay successes.                                                 *)
LEMMA SuccessesGrow ==
    ASSUME AutonomyInv, DOMAIN evidence \subseteq DOMAIN evidence',
           DOMAIN decisions \subseteq DOMAIN decisions',
           \A e \in DOMAIN evidence : evidence'[e] = evidence[e],
           \A d \in DOMAIN decisions : decisions'[d] = decisions[d],
           IsFiniteSet(DOMAIN evidence'), NEW j, NEW p
    PROVE  Successes(j, p) \in Nat /\ Successes(j, p)' \in Nat /\ Successes(j, p) <= Successes(j, p)'
<1>. DEFINE A == {e \in DOMAIN evidence :
                    /\ evidence[e].successful
                    /\ decisions[evidence[e].decision].project = j
                    /\ decisions[evidence[e].decision].person = p}
            B == {e \in DOMAIN evidence' :
                    /\ evidence'[e].successful
                    /\ decisions'[evidence'[e].decision].project = j
                    /\ decisions'[evidence'[e].decision].person = p}
<1>1. A \subseteq B
  BY DEF AutonomyInv
<1>2. IsFiniteSet(B)
  BY FS_Subset
<1>3. Successes(j, p) = Cardinality(A) /\ Successes(j, p)' = Cardinality(B)
  BY DEF Successes
<1>. HIDE DEF A, B
<1>. QED
  BY <1>1, <1>2, <1>3, FS_Subset, FS_CardinalityType

(* The indexes of a sequence.                                                *)
LEMMA EvidenceFinite ==
    ASSUME AutonomyInv
    PROVE  IsFiniteSet(DOMAIN evidence)
BY FS_Interval DEF AutonomyInv

(* Autonomy after a step that adds decisions or evidence: a policy rests on  *)
(* no fewer successes than it had.                                           *)
LEMMA AutonomyStep ==
    ASSUME GovInv, UNCHANGED <<teams, owned, flowVars, skillsVars>>,
           decisions' \in Seq([project : Projects, person : People, executed : BOOLEAN]),
           evidence' \in Seq([decision : Nat, successful : BOOLEAN]),
           DOMAIN evidence \subseteq DOMAIN evidence',
           DOMAIN decisions \subseteq DOMAIN decisions',
           \A e \in DOMAIN evidence : evidence'[e] = evidence[e],
           \A d \in DOMAIN decisions : decisions'[d] = decisions[d],
           \A d \in DOMAIN decisions' : ~decisions'[d].executed,
           \A e \in DOMAIN evidence' : evidence'[e].decision \in DOMAIN decisions',
           policy' \in [Projects \X People -> [mode : {"shadow", "supervised"}, evidence : Nat]],
           \A x \in DOMAIN policy : policy'[x] = policy[x]
                                    \/ policy'[x].evidence \in 1..Successes(x[1], x[2])
    PROVE  GovInv'
<1>1. \A j, p : Successes(j, p) \in Nat /\ Successes(j, p)' \in Nat
                /\ Successes(j, p) <= Successes(j, p)'
  <2>1. IsFiniteSet(DOMAIN evidence')
    <3>1. DOMAIN evidence' = 1..Len(evidence') /\ Len(evidence') \in Nat
      OBVIOUS
    <3>. QED
      BY <3>1, FS_Interval
  <2>. QED
    BY <2>1, SuccessesGrow DEF GovInv
<1>2. DOMAIN policy' = DOMAIN policy
  BY DEF GovInv, AutonomyInv
<1>3. ASSUME NEW x \in DOMAIN policy', policy'[x].mode # "shadow"
      PROVE  policy'[x].evidence \in 1..Successes(x[1], x[2])'
  <2>1. policy'[x].evidence \in 1..Successes(x[1], x[2])
    BY <1>2, <1>3 DEF GovInv, AutonomyInv, EvidenceBased
  <2>. QED
    BY <1>1, <2>1
<1>4. EvidenceBased'
  BY <1>3 DEF EvidenceBased
<1>5. AutonomyInv'
  BY <1>4 DEF AutonomyInv
<1>. QED
  BY <1>5, TeamsKept, FlowsKept, RoutinesKeptWithTeams DEF GovInv

(* Nothing is executed as long as no policy is autonomous.                   *)
LEMMA EvaluateKeeps ==
    ASSUME GovInv, NEW j \in Projects, NEW p \in People, Evaluate(j, p)
    PROVE  GovInv'
<1>1. PICK requested \in BOOLEAN :
         decisions' = Append(decisions, [project |-> j, person |-> p,
            executed |-> requested /\ policy[<<j, p>>].mode = "autonomous"])
  BY DEF Evaluate
<1>2. UNCHANGED <<topic, teams, owned, flowVars, evidence, policy, skillsVars>>
  BY DEF Evaluate
<1>3. policy[<<j, p>>].mode # "autonomous"
  BY DEF GovInv, AutonomyInv
<1>. DEFINE n == [project |-> j, person |-> p, executed |-> FALSE]
<1>4. decisions' = Append(decisions, n)
  <2>1. (requested /\ policy[<<j, p>>].mode = "autonomous") = FALSE
    BY <1>3
  <2>. QED
    BY <1>1, <2>1
<1>5. n \in [project : Projects, person : People, executed : BOOLEAN] /\ ~n.executed
  OBVIOUS
<1>. HIDE DEF n
<1>6. /\ decisions' \in Seq([project : Projects, person : People, executed : BOOLEAN])
      /\ DOMAIN decisions' = DOMAIN decisions \cup {Len(decisions) + 1}
      /\ \A d \in DOMAIN decisions : decisions'[d] = decisions[d]
      /\ decisions'[Len(decisions) + 1] = n
  BY <1>4, <1>5, AppendProperties DEF GovInv, AutonomyInv
<1>7. \A d \in DOMAIN decisions' : ~decisions'[d].executed
  BY <1>5, <1>6 DEF GovInv, AutonomyInv, EvidenceBased
<1>8. /\ evidence' \in Seq([decision : Nat, successful : BOOLEAN])
      /\ \A e \in DOMAIN evidence' : evidence'[e].decision \in DOMAIN decisions'
      /\ policy' \in [Projects \X People -> [mode : {"shadow", "supervised"}, evidence : Nat]]
  BY <1>2, <1>6 DEF GovInv, AutonomyInv
<1>. QED
  BY <1>2, <1>6, <1>7, <1>8, AutonomyStep

(* Evidence is about a decision that was taken.                              *)
LEMMA RecordEvidenceKeeps ==
    ASSUME GovInv, RecordEvidence
    PROVE  GovInv'
<1>1. PICK d \in DOMAIN decisions, ok \in BOOLEAN :
         evidence' = Append(evidence, [decision |-> d, successful |-> ok])
  BY DEF RecordEvidence
<1>2. UNCHANGED <<topic, teams, owned, flowVars, decisions, policy, skillsVars>>
  BY DEF RecordEvidence
<1>. DEFINE n == [decision |-> d, successful |-> ok]
<1>3. n \in [decision : Nat, successful : BOOLEAN] /\ n.decision = d
  BY DEF GovInv, AutonomyInv
<1>4. evidence' = Append(evidence, n)
  BY <1>1
<1>. HIDE DEF n
<1>5. /\ evidence' \in Seq([decision : Nat, successful : BOOLEAN])
      /\ DOMAIN evidence' = DOMAIN evidence \cup {Len(evidence) + 1}
      /\ \A e \in DOMAIN evidence : evidence'[e] = evidence[e]
      /\ evidence'[Len(evidence) + 1] = n
  BY <1>3, <1>4, AppendProperties DEF GovInv, AutonomyInv
<1>6. \A e \in DOMAIN evidence' : evidence'[e].decision \in DOMAIN decisions'
  BY <1>1, <1>2, <1>3, <1>5 DEF GovInv, AutonomyInv
<1>7. /\ decisions' \in Seq([project : Projects, person : People, executed : BOOLEAN])
      /\ \A x \in DOMAIN decisions' : ~decisions'[x].executed
      /\ policy' \in [Projects \X People -> [mode : {"shadow", "supervised"}, evidence : Nat]]
  BY <1>2 DEF GovInv, AutonomyInv, EvidenceBased
<1>. QED
  BY <1>2, <1>5, <1>6, <1>7, AutonomyStep

(* A promotion counts the successes, and there is at least one.              *)
LEMMA PromoteKeeps ==
    ASSUME GovInv, NEW j \in Projects, NEW p \in People, PromoteAutonomy(j, p)
    PROVE  GovInv'
<1>1. /\ \E minimum \in 1..MaxEvidence : Successes(j, p) >= minimum
      /\ policy' = [policy EXCEPT ![<<j, p>>] = [mode |-> "supervised",
                                                  evidence |-> Successes(j, p)]]
      /\ UNCHANGED <<topic, teams, owned, flowVars, decisions, evidence, skillsVars>>
  BY DEF PromoteAutonomy, Promoted
<1>2. Successes(j, p) \in Nat
  <2>1. IsFiniteSet(DOMAIN evidence)
    BY EvidenceFinite DEF GovInv
  <2>. QED
    BY <2>1, FS_Subset, FS_CardinalityType DEF Successes
<1>3. Successes(j, p) \in 1..Successes(j, p)
  BY <1>1, <1>2, GovernanceBounds
<1>. DEFINE n == [mode |-> "supervised", evidence |-> Successes(j, p)]
<1>4. n \in [mode : {"shadow", "supervised"}, evidence : Nat] /\ n.evidence = Successes(j, p)
  BY <1>2
<1>5. policy' = [policy EXCEPT ![<<j, p>>] = n]
  BY <1>1
<1>. HIDE DEF n
<1>6. policy' \in [Projects \X People -> [mode : {"shadow", "supervised"}, evidence : Nat]]
  BY <1>4, <1>5 DEF GovInv, AutonomyInv
<1>7. \A x \in DOMAIN policy : policy'[x] = policy[x]
                               \/ policy'[x].evidence \in 1..Successes(x[1], x[2])
  BY <1>3, <1>4, <1>5 DEF GovInv, AutonomyInv
<1>8. /\ decisions' \in Seq([project : Projects, person : People, executed : BOOLEAN])
      /\ evidence' \in Seq([decision : Nat, successful : BOOLEAN])
      /\ \A x \in DOMAIN decisions' : ~decisions'[x].executed
      /\ \A e \in DOMAIN evidence' : evidence'[e].decision \in DOMAIN decisions'
  BY <1>1 DEF GovInv, AutonomyInv, EvidenceBased
<1>. QED
  BY <1>1, <1>6, <1>7, <1>8, AutonomyStep

-----------------------------------------------------------------------------
(* A step on skills and routines alone.                                      *)
LEMMA RoutineStep ==
    ASSUME GovInv, RoutinesInv', UNCHANGED <<teams, owned, flowVars, autonomyVars>>
    PROVE  GovInv'
BY TeamsKept, FlowsKept, AutonomyKept DEF GovInv

(* A routine runs as long as its skill, its project and the members stay.    *)
LEMMA RoutinesStay ==
    ASSUME GovInv, UNCHANGED <<teams, runsOf>>,
           DOMAIN govSkills \subseteq DOMAIN govSkills', DOMAIN routines \subseteq DOMAIN routines',
           \A s \in DOMAIN govSkills : govSkills'[s].project = govSkills[s].project,
           \A r \in DOMAIN routines : routines'[r] = routines[r]
    PROVE  /\ runsOf' \subseteq [routine : DOMAIN routines', skill : DOMAIN govSkills', by : People]
           /\ RoutinesStayInProject'
<1>1. ASSUME NEW x \in runsOf
      PROVE  /\ x \in [routine : DOMAIN routines', skill : DOMAIN govSkills', by : People]
             /\ govSkills'[x.skill].project = routines'[x.routine].project
             /\ \E k \in DOMAIN teams : /\ teams[k].project = routines'[x.routine].project
                                        /\ x.by \in DOMAIN teams[k].role
  <2>1. x \in [routine : DOMAIN routines, skill : DOMAIN govSkills, by : People]
    BY DEF GovInv, RoutinesInv
  <2>2. /\ govSkills[x.skill].project = routines[x.routine].project
        /\ \E k \in DOMAIN teams : /\ teams[k].project = routines[x.routine].project
                                   /\ x.by \in DOMAIN teams[k].role
    BY DEF GovInv, RoutinesInv, RoutinesStayInProject
  <2>3. routines'[x.routine] = routines[x.routine]
        /\ govSkills'[x.skill].project = govSkills[x.skill].project
    BY <2>1
  <2>. QED
    BY <2>1, <2>2, <2>3
<1>. QED
  BY <1>1 DEF RoutinesStayInProject

(* Skills are added and activated, routines are made of active skills of     *)
(* their project, and members of it run them.                                *)
LEMMA RoutinesGoOn ==
    ASSUME GovInv, \/ ActivateSkill
                   \/ \E j \in Projects : CreateSkill(j) \/ CreateRoutine(j)
                   \/ \E p \in People : RunRoutine(p)
    PROVE  GovInv'
<1>1. /\ govSkills \in Seq([project : Projects, active : BOOLEAN])
      /\ routines \in Seq([project : Projects, skill : Nat])
      /\ \A r \in DOMAIN routines : /\ routines[r].skill \in DOMAIN govSkills
                                    /\ govSkills[routines[r].skill].project = routines[r].project
  BY DEF GovInv, RoutinesInv
<1>2. CASE ActivateSkill
  <2>1. PICK s \in DOMAIN govSkills : govSkills' = [govSkills EXCEPT ![s].active = TRUE]
    BY <1>2 DEF ActivateSkill
  <2>2. UNCHANGED <<teams, owned, flowVars, autonomyVars, routines, runsOf>>
    BY <1>2 DEF ActivateSkill
  <2>. DEFINE n == [govSkills[s] EXCEPT !.active = TRUE]
  <2>3. govSkills[s] \in [project : Projects, active : BOOLEAN]
    <3>1. PICK S : S = [project : Projects, active : BOOLEAN]
      OBVIOUS
    <3>2. govSkills \in Seq(S) /\ s \in DOMAIN govSkills
      BY <1>1, <2>1, <3>1
    <3>3. govSkills[s] \in S
      BY <3>2, ElementOfSeq
    <3>. QED
      BY <3>1, <3>3
  <2>4. n \in [project : Projects, active : BOOLEAN] /\ n.project = govSkills[s].project
    BY <2>3
  <2>5. govSkills' = [govSkills EXCEPT ![s] = n]
    BY <2>1
  <2>. HIDE DEF n
  <2>6. /\ govSkills' \in Seq([project : Projects, active : BOOLEAN])
        /\ DOMAIN govSkills' = DOMAIN govSkills
        /\ \A x \in DOMAIN govSkills : govSkills'[x].project = govSkills[x].project
    <3>1. /\ [govSkills EXCEPT ![s] = n] \in Seq([project : Projects, active : BOOLEAN])
          /\ DOMAIN [govSkills EXCEPT ![s] = n] = DOMAIN govSkills
          /\ \A x \in DOMAIN govSkills :
                [govSkills EXCEPT ![s] = n][x] = IF x = s THEN n ELSE govSkills[x]
      BY <1>1, <2>1, <2>4, ExceptSeq
    <3>. QED
      BY <2>4, <2>5, <3>1
  <2>7. /\ runsOf' \subseteq [routine : DOMAIN routines', skill : DOMAIN govSkills', by : People]
        /\ RoutinesStayInProject'
    BY <2>2, <2>6, RoutinesStay
  <2>8. RoutinesInv'
    BY <1>1, <2>2, <2>6, <2>7 DEF RoutinesInv
  <2>. QED
    BY <2>2, <2>8, RoutineStep
<1>3. ASSUME NEW j \in Projects, CreateSkill(j) PROVE GovInv'
  <2>. DEFINE n == [project |-> j, active |-> FALSE]
  <2>1. govSkills' = Append(govSkills, n)
        /\ UNCHANGED <<teams, owned, flowVars, autonomyVars, routines, runsOf>>
    BY <1>3 DEF CreateSkill
  <2>2. n \in [project : Projects, active : BOOLEAN]
    OBVIOUS
  <2>. HIDE DEF n
  <2>3. /\ govSkills' \in Seq([project : Projects, active : BOOLEAN])
        /\ DOMAIN govSkills' = DOMAIN govSkills \cup {Len(govSkills) + 1}
        /\ \A x \in DOMAIN govSkills : govSkills'[x] = govSkills[x]
    BY <1>1, <2>1, <2>2, AppendProperties
  <2>4. /\ runsOf' \subseteq [routine : DOMAIN routines', skill : DOMAIN govSkills', by : People]
        /\ RoutinesStayInProject'
    BY <2>1, <2>3, RoutinesStay
  <2>5. RoutinesInv'
    BY <1>1, <2>1, <2>3, <2>4 DEF RoutinesInv
  <2>. QED
    BY <2>1, <2>5, RoutineStep
<1>4. ASSUME NEW j \in Projects, CreateRoutine(j) PROVE GovInv'
  <2>1. PICK s \in DOMAIN govSkills :
           SkillFits(s, j) /\ routines' = Append(routines, [project |-> j, skill |-> s])
    BY <1>4 DEF CreateRoutine
  <2>2. UNCHANGED <<teams, owned, flowVars, autonomyVars, govSkills, runsOf>>
    BY <1>4 DEF CreateRoutine
  <2>. DEFINE n == [project |-> j, skill |-> s]
  <2>3. n \in [project : Projects, skill : Nat] /\ n.project = j /\ n.skill = s
    BY <1>1
  <2>4. routines' = Append(routines, n) /\ govSkills[s].project = j
    BY <2>1 DEF SkillFits
  <2>. HIDE DEF n
  <2>5. /\ routines' \in Seq([project : Projects, skill : Nat])
        /\ DOMAIN routines' = DOMAIN routines \cup {Len(routines) + 1}
        /\ \A r \in DOMAIN routines : routines'[r] = routines[r]
        /\ routines'[Len(routines) + 1] = n
    BY <1>1, <2>3, <2>4, AppendProperties
  <2>6. /\ runsOf' \subseteq [routine : DOMAIN routines', skill : DOMAIN govSkills', by : People]
        /\ RoutinesStayInProject'
    BY <2>2, <2>5, RoutinesStay
  <2>7. \A r \in DOMAIN routines' : /\ routines'[r].skill \in DOMAIN govSkills
                                    /\ govSkills[routines'[r].skill].project = routines'[r].project
    BY <1>1, <2>3, <2>4, <2>5
  <2>8. RoutinesInv'
    BY <1>1, <2>2, <2>5, <2>6, <2>7 DEF RoutinesInv
  <2>. QED
    BY <2>2, <2>8, RoutineStep
<1>5. ASSUME NEW p \in People, RunRoutine(p) PROVE GovInv'
  <2>1. PICK r \in DOMAIN routines :
           /\ IsMember(routines[r].project, p)
           /\ runsOf' = runsOf \cup {[routine |-> r, skill |-> routines[r].skill, by |-> p]}
    BY <1>5 DEF RunRoutine
  <2>2. UNCHANGED <<teams, owned, flowVars, autonomyVars, govSkills, routines>>
    BY <1>5 DEF RunRoutine
  <2>3. PICK x : x = [routine |-> r, skill |-> routines[r].skill, by |-> p] /\ runsOf' = runsOf \cup {x}
    BY <2>1
  <2>4. x \in [routine : DOMAIN routines, skill : DOMAIN govSkills, by : People]
        /\ govSkills[x.skill].project = routines[x.routine].project
    BY <1>1, <2>1, <2>3
  <2>5. \E k \in DOMAIN teams : /\ teams[k].project = routines[x.routine].project
                                /\ x.by \in DOMAIN teams[k].role
    BY <2>1, <2>3 DEF IsMember, RoleIn
  <2>6. RoutinesStayInProject'
    <3>1. \A y \in runsOf :
             /\ govSkills[y.skill].project = routines[y.routine].project
             /\ \E k \in DOMAIN teams : /\ teams[k].project = routines[y.routine].project
                                        /\ y.by \in DOMAIN teams[k].role
      BY DEF GovInv, RoutinesInv, RoutinesStayInProject
    <3>. QED
      BY <2>2, <2>3, <2>4, <2>5, <3>1 DEF RoutinesStayInProject
  <2>7. runsOf \subseteq [routine : DOMAIN routines, skill : DOMAIN govSkills, by : People]
    BY DEF GovInv, RoutinesInv
  <2>8. RoutinesInv'
    BY <1>1, <2>2, <2>3, <2>4, <2>6, <2>7 DEF RoutinesInv
  <2>. QED
    BY <2>2, <2>8, RoutineStep
<1>. QED
  BY <1>2, <1>3, <1>4, <1>5

-----------------------------------------------------------------------------
(* Nothing is there yet.                                                     *)
LEMMA GovInitInv == GovInit => GovInv
<1>. SUFFICES ASSUME GovInit PROVE GovInv
  OBVIOUS
<1>. USE DEF GovInit
<1>1. TeamsInv
  BY DEF TeamsInv
<1>2. FlowsInv
  BY DEF FlowsInv, ConnectedByOwner, GrantsByOwners
<1>3. AutonomyInv
  BY DEF AutonomyInv, EvidenceBased
<1>4. RoutinesInv
  BY DEF RoutinesInv, RoutinesStayInProject
<1>. QED
  BY <1>1, <1>2, <1>3, <1>4 DEF GovInv

(* Every call keeps the invariant.                                           *)
LEMMA GovStepInv == GovInv /\ [GovNext]_govVars => GovInv'
<1>. SUFFICES ASSUME GovInv, [GovNext]_govVars PROVE GovInv'
  OBVIOUS
<1>1. CASE UNCHANGED govVars
  BY <1>1, TeamsKept, FlowsKept, AutonomyKept, RoutinesKeptWithTeams
     DEF GovInv, govVars, flowVars, autonomyVars, skillsVars
<1>2. ASSUME NEW p \in People, AddMember(p) PROVE GovInv'
  BY <1>2, AddMemberKeeps
<1>3. ASSUME NEW p \in People, Grant(p) PROVE GovInv'
  BY <1>3, GrantKeeps
<1>4. ASSUME NEW j \in Projects, CreateConnection(j) PROVE GovInv'
  BY <1>4, CreateConnectionKeeps
<1>5. CASE BeginFlow("oauth") \/ BeginFlow("device")
  BY <1>5, BeginFlowKeeps
<1>6. CASE CompleteOAuth \/ PollDevice \/ FlowExpires \/ \E p \in People : ApproveDevice(p)
  BY <1>6, FlowsGoOn
<1>7. CASE RecordEvidence
  BY <1>7, RecordEvidenceKeeps
<1>8. CASE ActivateSkill \/ (\E j \in Projects : CreateSkill(j) \/ CreateRoutine(j))
           \/ \E p \in People : RunRoutine(p)
  BY <1>8, RoutinesGoOn
<1>9. ASSUME NEW j \in Projects, NEW p \in People, CreateTeam(j, p) PROVE GovInv'
  BY <1>9, CreateTeamKeeps
<1>10. ASSUME NEW j \in Projects, NEW p \in People, Evaluate(j, p) PROVE GovInv'
  BY <1>10, EvaluateKeeps
<1>11. ASSUME NEW j \in Projects, NEW p \in People, PromoteAutonomy(j, p) PROVE GovInv'
  BY <1>11, PromoteKeeps
<1>. QED
  BY <1>1, <1>2, <1>3, <1>4, <1>5, <1>6, <1>7, <1>8, <1>9, <1>10, <1>11 DEF GovNext

(* A connection changes only by a flow of its own that is not late.          *)
LEMMA ConnectsInTime ==
    ASSUME GovInv, [GovNext]_govVars, NEW k \in DOMAIN connections,
           connections'[k].status # connections[k].status
    PROVE  \E f \in DOMAIN flows : flows[f].connection = k /\ ~flows[f].late
              /\ flows'[f].status # flows[f].status
<1>1. connections \in Seq(ConnectionRecords) /\ flows \in Seq(FlowRecords)
  BY DEF GovInv, FlowsInv
<1>2. CASE CompleteOAuth
  <2>1. PICK f \in DOMAIN flows :
           /\ flows[f].kind = "oauth" /\ flows[f].status = "pending"
           /\ flows' = [flows EXCEPT ![f].status = "completed"]
           /\ connections' = Connected(flows[f].connection)
    BY <1>2 DEF CompleteOAuth
  <2>2. flows[f].connection = k
    BY <1>1, <2>1 DEF Connected
  <2>3. ~flows[f].late
    BY <2>1 DEF GovInv, FlowsInv
  <2>4. flows[f] \in FlowRecords
    BY <1>1, <2>1, ElementOfSeq
  <2>5. flows'[f].status = "completed"
    BY <2>1, <2>4 DEF FlowRecords
  <2>. QED
    BY <2>1, <2>2, <2>3, <2>5
<1>3. CASE PollDevice
  <2>1. PICK f \in DOMAIN flows :
           /\ ~flows[f].late /\ flows[f].status = "approved"
           /\ flows' = [flows EXCEPT ![f].status = "connected"]
           /\ connections' = Connected(flows[f].connection)
    BY <1>3 DEF PollDevice, Expired
  <2>2. flows[f].connection = k
    BY <1>1, <2>1 DEF Connected
  <2>3. flows[f] \in FlowRecords
    BY <1>1, <2>1, ElementOfSeq
  <2>4. flows'[f].status = "connected"
    BY <2>1, <2>3 DEF FlowRecords
  <2>. QED
    BY <2>1, <2>2, <2>4
<1>4. ASSUME NEW j \in Projects, CreateConnection(j) PROVE FALSE
  <2>1. connections' = Append(connections, [project |-> j, status |-> "configured"])
    BY <1>4 DEF CreateConnection
  <2>2. connections'[k] = connections[k]
    BY <1>1, <2>1
  <2>. QED
    BY <2>2
<1>5. CASE UNCHANGED connections
  BY <1>5
<1>. QED
  BY <1>2, <1>3, <1>4, <1>5 DEF GovNext, govVars, flowVars, FlowExpires, RecordEvidence,
     ActivateSkill, BeginFlow, AddMember, Grant, ApproveDevice, RunRoutine, CreateSkill,
     CreateRoutine, CreateTeam, Evaluate, PromoteAutonomy

(* No sequence of calls connects, grants, promotes or runs what an owner,    *)
(* the evidence or the project does not back, and no expired flow connects.  *)
THEOREM GovernanceKeptHolds == GovSpec => GovernanceKept
<1>1. GovInv => ConnectedByOwner /\ GrantsByOwners /\ EvidenceBased /\ RoutinesStayInProject
  BY DEF GovInv, FlowsInv, AutonomyInv, RoutinesInv
<1>2. GovInv /\ [GovNext]_govVars =>
         [\A k \in DOMAIN connections : connections'[k].status # connections[k].status =>
             \E f \in DOMAIN flows : flows[f].connection = k /\ ~flows[f].late
                 /\ flows'[f].status # flows[f].status]_govVars
  BY ConnectsInTime
<1>. QED
  BY <1>1, <1>2, GovInitInv, GovStepInv, PTL DEF GovSpec, GovernanceKept, ExpiredNeverConnects

(*****************************************************************************)
(* The chats of the terminal                                                 *)
(*****************************************************************************)

(* What is said of the last run of a chat, by where its worker waits, until  *)
(* its cancellation is announced.                                           *)
RunLogs == {<<"queued", "started", e>> : e \in Ends}
Bases == {<<>>, <<"queued">>, <<"queued", "started">>} \cup RunLogs
ToldOf(w, log) ==
    /\ w = "none" => log = <<>>
    /\ w = "get" => log \in {<<>>} \cup RunLogs
    /\ w = "queued" => log = <<"queued">>
    /\ w = "runner" => log = <<"queued", "started">>
    /\ w = "settle" => log \in RunLogs
    /\ w = "dead" => \E b \in {<<>>, <<"queued">>} \cup RunLogs :
                        log = b \/ log = Append(b, "chat_cancelled")

RtType ==
    /\ chatStatus \in [ChatIds -> {"none", "idle", "running", "cancelled"}]
    /\ worker \in [ChatIds -> {"none", "get", "queued", "runner", "settle", "dead"}]
    /\ dies \in [ChatIds -> BOOLEAN] /\ active \in [ChatIds -> Int]
    /\ inbox \in [ChatIds -> Nat] /\ submitted \in [ChatIds -> Nat]
    /\ leaving \in [ChatIds -> {"no", "timeout", "cancel"}]
    /\ DOMAIN children = ChatIds /\ DOMAIN lifecycle = ChatIds
    /\ handler \in {"idle", "cancel", "revoke", "switch", "close"}
    /\ todo \subseteq ChatIds /\ at \in ChatIds \cup {NoChat}
    /\ delegation \in BOOLEAN /\ shut \in BOOLEAN

Working == {"queued", "runner", "settle"}

(* A chat by itself: where its worker waits decides its run and its children, *)
(* and a worker that has left was cancelled or deserted.                     *)
ChatSays(c) ==
    /\ (chatStatus[c] = "none") = (worker[c] = "none")
    /\ inbox[c] <= submitted[c] /\ (chatStatus[c] \in {"none", "cancelled"} => inbox[c] = 0)
    /\ worker[c] \in {"none", "get"} => active[c] = 0
    /\ worker[c] \in Working => active[c] # 0 /\ chatStatus[c] \in {"running", "cancelled"}
    /\ worker[c] = "get" => chatStatus[c] \in {"idle", "cancelled"}
    /\ worker[c] = "dead" => \/ chatStatus[c] = "cancelled" /\ (active[c] = 0 \/ c \in torn)
                             \/ chatStatus[c] = "idle" /\ active[c] = 0 /\ c \in deserted
    /\ Live(c) # {} => worker[c] \in {"runner", "settle"}
    /\ leaving[c] = "timeout" => worker[c] = "runner"
    /\ leaving[c] = "cancel" => chatStatus[c] = "cancelled"
    /\ ToldOf(worker[c], lifecycle[c])

(* The terminal's handler and the chats: who is being cancelled or revoked,  *)
(* and that nothing is at work while the model is replaced or after close.   *)
Cancelling(c) == handler \in {"cancel", "close"} /\ at = c
PumpSays(c) ==
    /\ chatStatus[c] = "cancelled" => worker[c] = "dead" \/ Cancelling(c)
    /\ Cancelling(c) => chatStatus[c] = "cancelled" /\ lifecycle[c] \in Bases
    /\ lifecycle[c] \notin Bases => worker[c] = "dead" /\ chatStatus[c] = "cancelled"
    /\ Live(c) # {} => delegation \/ (handler = "revoke" /\ (c \in todo \/ at = c))
    /\ handler = "switch" => inbox[c] = 0 /\ active[c] = 0
    /\ handler = "close" => chatStatus[c] \in {"none", "cancelled"} \/ c \in todo
    /\ handler = "close" /\ c \in todo => chatStatus[c] # "none"
    /\ shut => chatStatus[c] \in {"none", "cancelled"}
HandlerSays ==
    /\ handler \in {"idle", "switch"} => at = NoChat
    /\ handler = "cancel" => at \in ChatIds
    /\ shut => handler = "idle"

CountFrom(a, n) == [k \in 1..n |-> a + k]

(* What the reader has still to yield follows on what it was told last.     *)
ReaderSays ==
    /\ sequence \in Nat /\ toldTo \in Nat /\ reader.cursor = toldTo
    /\ \E n \in Nat : reader.batch = CountFrom(toldTo, n) /\ toldTo + n <= sequence
    /\ reader = [cursor |-> reader.cursor, batch |-> reader.batch, ended |-> reader.ended]
    /\ missed = FALSE /\ reader.ended \in BOOLEAN
    /\ reader.ended => shut /\ reader.batch = <<>> /\ toldTo = sequence

RtInv ==
    /\ RtType /\ HandlerSays /\ ReaderSays
    /\ \A c \in ChatIds : ChatSays(c) /\ PumpSays(c)

(* Cancelling tasks leaves as many of them to wait for.                     *)
LEMMA CancelKeepsLive ==
    ASSUME NEW kids
    PROVE  {i \in DOMAIN CancelTasks(kids) : CancelTasks(kids)[i] \in LiveStates}
           = {i \in DOMAIN kids : kids[i] \in LiveStates}
<1>1. DOMAIN CancelTasks(kids) = DOMAIN kids
  BY DEF CancelTasks
<1>2. ASSUME NEW i \in DOMAIN kids
      PROVE  CancelTasks(kids)[i] \in LiveStates <=> kids[i] \in LiveStates
  BY <1>2 DEF CancelTasks, LiveStates
<1>. QED
  BY <1>1, <1>2

(* A step that concerns one chat c leaves the others as they are.           *)
OthersKept(c) ==
    \A d \in ChatIds \ {c} :
       /\ chatStatus'[d] = chatStatus[d] /\ worker'[d] = worker[d] /\ active'[d] = active[d]
       /\ inbox'[d] = inbox[d] /\ submitted'[d] = submitted[d] /\ leaving'[d] = leaving[d]
       /\ children'[d] = children[d] /\ lifecycle'[d] = lifecycle[d]
       /\ (d \in torn' <=> d \in torn) /\ (d \in deserted' <=> d \in deserted)

(* A step of the worker or the children of c, as the handler and the reader  *)
(* see it: the chat stays as open as it was, and its children are fewer      *)
(* unless delegation is granted.                                            *)
Works(c) ==
    /\ UNCHANGED <<pumpVars, readVars>> /\ OthersKept(c)
    /\ sequence' \in Nat /\ sequence' >= sequence
    /\ worker[c] \notin {"none", "dead"} /\ chatStatus'[c] # "none"
    /\ chatStatus'[c] = "cancelled" <=> chatStatus[c] = "cancelled"
    /\ lifecycle'[c] \in Bases
    /\ Live(c)' # {} => Live(c) # {} \/ delegation
    /\ inbox'[c] <= inbox[c]
    /\ active[c] = 0 /\ inbox[c] = 0 => active'[c] = 0

(* Of a chat that a step does not concern, the same holds as before.        *)
LEMMA OthersSay ==
    ASSUME NEW c \in ChatIds, NEW d \in ChatIds \ {c}, ChatSays(d), OthersKept(c)
    PROVE  ChatSays(d)' /\ Live(d)' = Live(d)
BY DEF ChatSays, OthersKept, Live

(* A step of one chat keeps the invariant if it keeps what that chat says.  *)
LEMMA WorkKeepsInv ==
    ASSUME RtInv, NEW c \in ChatIds, Works(c), RtType', ChatSays(c)'
    PROVE  RtInv'
<1>1. HandlerSays'
  BY DEF RtInv, HandlerSays, Works, pumpVars
<1>2. shut => FALSE
  BY DEF RtInv, HandlerSays, PumpSays, ChatSays, Works, Cancelling
<1>3. ReaderSays'
  <2>1. sequence' >= sequence /\ sequence' \in Nat /\ sequence \in Nat /\ UNCHANGED readVars
    BY DEF Works, RtInv, ReaderSays
  <2>2. PICK n \in Nat : reader.batch = CountFrom(toldTo, n) /\ toldTo + n <= sequence
    BY DEF RtInv, ReaderSays
  <2>3. toldTo + n <= sequence'
    BY <2>1, <2>2 DEF RtInv, ReaderSays
  <2>4. ~reader.ended
    BY <1>2 DEF RtInv, ReaderSays
  <2>. QED
    BY <2>1, <2>2, <2>3, <2>4 DEF RtInv, ReaderSays, readVars
<1>4. ASSUME NEW d \in ChatIds \ {c}
      PROVE  ChatSays(d)' /\ PumpSays(d)'
  <2>1. ChatSays(d)' /\ Live(d)' = Live(d)
    BY OthersSay DEF RtInv, Works
  <2>. QED
    BY <2>1 DEF RtInv, PumpSays, Works, OthersKept, pumpVars, Cancelling
<1>5. PumpSays(c)'
  <2>1. inbox[c] \in Nat /\ inbox'[c] \in Nat
    BY DEF RtInv, RtType
  <2>. QED
    BY <2>1 DEF RtInv, PumpSays, ChatSays, Works, pumpVars, Cancelling
<1>. QED
  BY <1>1, <1>3, <1>4, <1>5 DEF RtInv

(* What Append adds, and where.                                             *)
LEMMA AppendAt ==
    ASSUME NEW S, NEW t \in Seq(S), NEW e \in S
    PROVE  /\ Append(t, e) \in Seq(S) /\ Len(Append(t, e)) = Len(t) + 1
           /\ \A i \in 1..Len(t) : Append(t, e)[i] = t[i]
           /\ Append(t, e)[Len(t) + 1] = e
  BY AppendProperties

(* The logs of a run, event by event.                                       *)
LEMMA LogGrows ==
    /\ Append(<<"queued">>, "started") = <<"queued", "started">>
    /\ \A e \in Ends : Append(<<"queued", "started">>, e) = <<"queued", "started", e>>
<1>. DEFINE S == Ends \cup {"queued", "started"}
<1>2. Append(<<"queued">>, "started") = <<"queued", "started">>
  <2>. DEFINE t == <<"queued">>
              u == <<"queued", "started">>
  <2>1. t \in Seq(S) /\ u \in Seq(S) /\ "started" \in S
    OBVIOUS
  <2>2. Len(t) = 1 /\ Len(u) = 2 /\ t[1] = u[1] /\ u[2] = "started"
    OBVIOUS
  <2>. HIDE DEF t, u, S
  <2>3. /\ Append(t, "started") \in Seq(S) /\ Len(Append(t, "started")) = Len(t) + 1
        /\ \A i \in 1..Len(t) : Append(t, "started")[i] = t[i]
        /\ Append(t, "started")[Len(t) + 1] = "started"
    BY <2>1, AppendAt
  <2>4. Append(t, "started") = u
    BY <2>1, <2>2, <2>3, SeqEqual
  <2>. QED
    BY <2>4 DEF t, u
<1>3. ASSUME NEW e \in Ends
      PROVE  Append(<<"queued", "started">>, e) = <<"queued", "started", e>>
  <2>. DEFINE t == <<"queued", "started">>
              u == <<"queued", "started", e>>
  <2>1. t \in Seq(S) /\ u \in Seq(S) /\ e \in S
    BY <1>3
  <2>2. Len(t) = 2 /\ Len(u) = 3 /\ t[1] = u[1] /\ t[2] = u[2] /\ u[3] = e
    OBVIOUS
  <2>. HIDE DEF t, u, S
  <2>3. /\ Append(t, e) \in Seq(S) /\ Len(Append(t, e)) = Len(t) + 1
        /\ \A i \in 1..Len(t) : Append(t, e)[i] = t[i]
        /\ Append(t, e)[Len(t) + 1] = e
    BY <2>1, AppendAt
  <2>4. \A i \in 1..3 : Append(t, e)[i] = u[i]
    BY <2>2, <2>3
  <2>5. Append(t, e) = u
    BY <2>1, <2>2, <2>3, <2>4, SeqEqual
  <2>. QED
    BY <2>5 DEF t, u
<1>. QED
  BY <1>2, <1>3

(* Publishing only ever counts up.                                          *)
LEMMA AnnounceCounts ==
    ASSUME sequence \in Nat, NEW n \in Nat, Announce(n)
    PROVE  sequence' \in Nat /\ sequence' >= sequence
  BY DEF Announce

(* A step of a child; the chat says what it said before.                    *)
ChildSteps(c) ==
    /\ c \in ChatIds
    /\ UNCHANGED <<chatStatus, worker, dies, active, leaving, lifecycle, torn, deserted, inbox,
                   submitted, pumpVars, readVars>>
    /\ \E k : children' = [children EXCEPT ![c] = k]
    /\ Live(c)' # {} => Live(c) # {} \/ (delegation /\ worker[c] = "runner")
    /\ Live(c) # {} \/ worker[c] = "runner"
    /\ sequence' \in Nat /\ sequence' >= sequence

(* A step of a child keeps the invariant.                                   *)
LEMMA ChildKeepsInv ==
    ASSUME RtInv, NEW c \in ChatIds, ChildSteps(c)
    PROVE  RtInv'
<1>1. RtType'
  BY DEF RtInv, RtType, ChildSteps, pumpVars
<1>2. OthersKept(c)
  BY DEF OthersKept, ChildSteps, RtInv, RtType
<1>3. worker[c] \in {"runner", "settle"} /\ lifecycle[c] \in Bases
  BY DEF ChildSteps, RtInv, ChatSays, ToldOf, Bases
<1>4. Works(c)
  BY <1>1, <1>2, <1>3 DEF Works, ChildSteps, RtInv, RtType, ChatSays
<1>5. ChatSays(c)'
  BY <1>3 DEF ChildSteps, RtInv, ChatSays
<1>. QED
  BY <1>1, <1>4, <1>5, WorkKeepsInv

(* Children are spawned, start, end and are stopped.                        *)
LEMMA ChildrenKeepInv ==
    ASSUME RtInv, NEW c \in ChatIds,
           \/ SpawnSubagent(c)
           \/ \E i \in DOMAIN children[c] :
                 SubagentStarts(c, i) \/ SubagentEnds(c, i) \/ SubagentStopped(c, i)
    PROVE  RtInv'
<1>0. sequence \in Nat /\ DOMAIN children = ChatIds
  BY DEF RtInv, ReaderSays, RtType
<1>1. CASE SpawnSubagent(c)
  <2>1. \E k : children' = [children EXCEPT ![c] = k]
    BY <1>1, Zenon DEF SpawnSubagent
  <2>2. /\ worker[c] = "runner" /\ delegation
        /\ UNCHANGED <<chatStatus, worker, dies, active, leaving, lifecycle, torn, deserted, inbox,
                       submitted, pumpVars, sequence, readVars>>
    BY <1>1 DEF SpawnSubagent
  <2>3. Live(c) # {} \/ worker[c] = "runner"
    BY <2>2
  <2>4. Live(c)' # {} => Live(c) # {} \/ (delegation /\ worker[c] = "runner")
    BY <2>2
  <2>5. sequence' \in Nat /\ sequence' >= sequence
    BY <1>0, <2>2
  <2>6. UNCHANGED <<chatStatus, worker, dies, active, leaving, lifecycle, torn, deserted, inbox,
                    submitted, pumpVars, readVars>>
    BY <2>2
  <2>7. ChildSteps(c)
    BY <2>1, <2>3, <2>4, <2>5, <2>6 DEF ChildSteps
  <2>. QED
    BY <2>7, ChildKeepsInv
<1>2. ASSUME NEW i \in DOMAIN children[c],
             SubagentStarts(c, i) \/ SubagentEnds(c, i) \/ SubagentStopped(c, i)
      PROVE  ChildSteps(c)
  <2>1. PICK s : children' = [children EXCEPT ![c][i] = s]
    BY <1>2 DEF SubagentStarts, SubagentEnds, SubagentStopped, ChildTo
  <2>2. children'[c] = [children[c] EXCEPT ![i] = s]
        /\ children' = [children EXCEPT ![c] = children'[c]]
    BY <1>0, <2>1
  <2>3. i \in Live(c)
    BY <1>2 DEF SubagentStarts, SubagentEnds, SubagentStopped, Live, LiveStates
  <2>4. sequence' \in Nat /\ sequence' >= sequence
    BY <1>0, <1>2, AnnounceCounts DEF SubagentStarts, SubagentEnds, SubagentStopped, Announce
  <2>. QED
    BY <1>2, <2>2, <2>3, <2>4 DEF SubagentStarts, SubagentEnds, SubagentStopped, ChildSteps
<1>3. CASE ~SpawnSubagent(c)
  BY <1>2, <1>3, ChildKeepsInv
<1>. QED
  BY <1>1, <1>3

(* The runner is left, and the worker waits for children or goes on.        *)
LEMMA RunEndKeepsInv ==
    ASSUME RtInv, NEW c \in ChatIds, NEW e \in Ends, NEW out \in BOOLEAN, EndRun(c, e, out),
           worker[c] = "runner", out => leaving[c] = "cancel" \/ leaving[c] = "no",
           sequence' \in Nat, sequence' >= sequence,
           UNCHANGED <<inbox, submitted, pumpVars, readVars>>
    PROVE  RtInv'
<1>1. DOMAIN children = ChatIds /\ DOMAIN lifecycle = ChatIds /\ RtType
  BY DEF RtInv, RtType
<1>2. RtType'
  <2>1. /\ worker' \in [ChatIds -> {"none", "get", "queued", "runner", "settle", "dead"}]
        /\ dies' \in [ChatIds -> BOOLEAN] /\ active' \in [ChatIds -> Int]
    <3>1. CASE Live(c) = {}
      <4>1. /\ worker' = [worker EXCEPT ![c] = IF out THEN "dead" ELSE "get"]
            /\ dies' = [dies EXCEPT ![c] = FALSE] /\ active' = [active EXCEPT ![c] = 0]
        BY <3>1 DEF EndRun, Cleared
      <4>. QED
        BY <1>1, <4>1 DEF RtType
    <3>2. CASE Live(c) # {}
      BY <1>1, <3>2 DEF RtType, EndRun
    <3>. QED
      BY <3>1, <3>2
  <2>2. /\ chatStatus' \in [ChatIds -> {"none", "idle", "running", "cancelled"}]
        /\ leaving' \in [ChatIds -> {"no", "timeout", "cancel"}]
    BY <1>1 DEF RtType, EndRun, Cleared
  <2>3. DOMAIN children' = ChatIds /\ DOMAIN lifecycle' = ChatIds
    BY <1>1 DEF EndRun, Cleared, Note
  <2>. QED
    BY <1>1, <2>1, <2>2, <2>3 DEF RtType, pumpVars
<1>3. lifecycle'[c] = <<"queued", "started", e>>
  BY <1>1, LogGrows DEF RtInv, ChatSays, ToldOf, EndRun, Note
<1>4. lifecycle'[c] \in RunLogs /\ lifecycle'[c] \in Bases
  BY <1>3 DEF RunLogs, Bases
<1>5. OthersKept(c)
  BY <1>1 DEF OthersKept, EndRun, Cleared, Note, RtType
<1>6. CASE Live(c) = {}
  <2>1. Cleared(c, out) /\ leaving'[c] = "no"
    BY <1>1, <1>6 DEF EndRun, RtType
  <2>2. Live(c)' = {}
    BY <1>1, <2>1 DEF Cleared, Live
  <2>3. /\ active'[c] = 0 /\ worker'[c] = IF out THEN "dead" ELSE "get"
        /\ chatStatus'[c] = IF chatStatus[c] = "cancelled" THEN "cancelled" ELSE "idle"
        /\ out /\ chatStatus[c] # "cancelled" => c \in deserted'
    BY <1>1, <2>1 DEF Cleared, RtType
  <2>4. ChatSays(c)'
    BY <1>3, <1>4, <2>1, <2>2, <2>3 DEF RtInv, ChatSays, ToldOf, Working
  <2>5. Works(c)
    BY <1>4, <1>5, <2>1, <2>2, <2>3 DEF RtInv, Works, RtType
  <2>. QED
    BY <1>2, <2>4, <2>5, WorkKeepsInv
<1>7. CASE Live(c) # {}
  <2>1. /\ worker'[c] = "settle" /\ leaving'[c] = "no"
        /\ UNCHANGED <<active, chatStatus, deserted, torn>>
        /\ children'[c] = CancelTasks(children[c])
    BY <1>1, <1>7 DEF EndRun, RtType
  <2>4. ChatSays(c)'
    BY <1>3, <1>4, <2>1 DEF RtInv, ChatSays, ToldOf, Working
  <2>5. Works(c)
    BY <1>4, <1>5, <1>7, <2>1 DEF RtInv, Works, RtType, ChatSays
  <2>. QED
    BY <1>2, <2>4, <2>5, WorkKeepsInv
<1>. QED
  BY <1>6, <1>7

(* The ways a runner is left.                                               *)
LEMMA RunnerKeepsInv ==
    ASSUME RtInv, NEW c \in ChatIds,
           RunnerReturns(c) \/ RunnerFails(c) \/ RunnerLosesChild(c) \/ RunnerUnwinds(c)
    PROVE  RtInv'
<1>1. sequence \in Nat /\ leaving[c] \in {"no", "timeout", "cancel"}
  BY DEF RtInv, ReaderSays, RtType
<1>2. sequence' \in Nat /\ sequence' >= sequence
  BY <1>1, AnnounceCounts DEF RunnerReturns, RunnerFails, RunnerLosesChild, RunnerUnwinds, Announce
<1>3. \E e \in Ends, out \in BOOLEAN :
         EndRun(c, e, out) /\ (out => leaving[c] = "cancel" \/ leaving[c] = "no")
  BY <1>1 DEF RunnerReturns, RunnerFails, RunnerLosesChild, RunnerUnwinds, Ends
<1>. QED
  BY <1>2, <1>3, RunEndKeepsInv DEF RunnerReturns, RunnerFails, RunnerLosesChild, RunnerUnwinds

(* A worker takes a message.                                                *)
LEMMA TakeMessageKeepsInv ==
    ASSUME RtInv, NEW c \in ChatIds, TakeMessage(c)
    PROVE  RtInv'
<1>1. RtType /\ DOMAIN lifecycle = ChatIds /\ sequence \in Nat
  BY DEF RtInv, RtType, ReaderSays
<1>2. /\ worker[c] = "get" /\ inbox[c] > 0 /\ inbox[c] \in Nat /\ submitted[c] \in Nat
      /\ leaving[c] = "no" /\ inbox[c] <= submitted[c] /\ chatStatus[c] = "idle" /\ Live(c) = {}
  BY <1>1 DEF RtInv, RtType, ChatSays, TakeMessage
<1>3. /\ inbox' = [inbox EXCEPT ![c] = inbox[c] - 1]
      /\ active' = [active EXCEPT ![c] = submitted[c] - inbox[c] + 1]
      /\ chatStatus' = [chatStatus EXCEPT ![c] = "running"]
      /\ UNCHANGED <<dies, children, leaving, torn, deserted, submitted, pumpVars, readVars>>
  BY DEF TakeMessage
<1>4. \/ /\ worker' = [worker EXCEPT ![c] = "runner"]
         /\ lifecycle' = [lifecycle EXCEPT ![c] = <<"queued", "started">>]
      \/ /\ worker' = [worker EXCEPT ![c] = "queued"]
         /\ lifecycle' = [lifecycle EXCEPT ![c] = <<"queued">>]
  BY DEF TakeMessage
<1>5. sequence' \in Nat /\ sequence' >= sequence
  BY <1>1 DEF TakeMessage, Announce
<1>6. RtType'
  <2>1. /\ inbox' \in [ChatIds -> Nat] /\ active' \in [ChatIds -> Int]
        /\ chatStatus' \in [ChatIds -> {"none", "idle", "running", "cancelled"}]
    BY <1>1, <1>2, <1>3 DEF RtType
  <2>2. /\ worker' \in [ChatIds -> {"none", "get", "queued", "runner", "settle", "dead"}]
        /\ DOMAIN lifecycle' = ChatIds
    BY <1>1, <1>4 DEF RtType
  <2>. QED
    BY <1>1, <1>3, <2>1, <2>2 DEF RtType, pumpVars
<1>7. /\ inbox'[c] = inbox[c] - 1 /\ active'[c] # 0 /\ chatStatus'[c] = "running"
      /\ leaving'[c] = "no" /\ Live(c)' = {}
  BY <1>1, <1>2, <1>3 DEF RtType, Live
<1>8. \/ worker'[c] = "runner" /\ lifecycle'[c] = <<"queued", "started">>
      \/ worker'[c] = "queued" /\ lifecycle'[c] = <<"queued">>
  BY <1>1, <1>4 DEF RtType
<1>9. ChatSays(c)'
  BY <1>2, <1>3, <1>7, <1>8 DEF ChatSays, ToldOf, Working
<1>10. OthersKept(c)
  BY <1>1, <1>3, <1>4 DEF OthersKept, RtType
<1>11. lifecycle'[c] \in Bases
  BY <1>8 DEF Bases
<1>12. Works(c)
  BY <1>2, <1>3, <1>5, <1>7, <1>10, <1>11 DEF Works
<1>. QED
  BY <1>6, <1>9, <1>12, WorkKeepsInv

(* A queued run gets its slot.                                              *)
LEMMA StartQueuedKeepsInv ==
    ASSUME RtInv, NEW c \in ChatIds, StartQueued(c)
    PROVE  RtInv'
<1>1. RtType /\ DOMAIN lifecycle = ChatIds /\ sequence \in Nat
  BY DEF RtInv, RtType, ReaderSays
<1>2. worker[c] = "queued" /\ lifecycle[c] = <<"queued">> /\ ChatSays(c)
  BY DEF RtInv, ChatSays, ToldOf, StartQueued
<1>3. /\ worker' = [worker EXCEPT ![c] = "runner"]
      /\ lifecycle' = [lifecycle EXCEPT ![c] = Append(@, "started")]
      /\ UNCHANGED <<chatStatus, dies, active, children, leaving, torn, deserted, inbox, submitted,
                     pumpVars, readVars>>
  BY DEF StartQueued, Note
<1>4. lifecycle'[c] = <<"queued", "started">> /\ worker'[c] = "runner"
  BY <1>1, <1>2, <1>3, LogGrows DEF RtType
<1>5. sequence' \in Nat /\ sequence' >= sequence
  BY <1>1 DEF StartQueued, Announce
<1>6. RtType'
  BY <1>1, <1>3 DEF RtType, pumpVars
<1>7. ChatSays(c)'
  BY <1>2, <1>3, <1>4 DEF ChatSays, ToldOf, Working, Live
<1>8. OthersKept(c)
  BY <1>1, <1>3 DEF OthersKept, RtType
<1>9. lifecycle'[c] \in Bases
  BY <1>4 DEF Bases
<1>10. /\ Live(c)' = Live(c) /\ inbox'[c] = inbox[c] /\ active'[c] = active[c]
       /\ inbox[c] \in Nat /\ chatStatus[c] # "none" /\ chatStatus'[c] = chatStatus[c]
  BY <1>1, <1>2, <1>3 DEF Live, RtType, ChatSays
<1>11. Works(c)
  BY <1>2, <1>3, <1>5, <1>8, <1>9, <1>10 DEF Works
<1>. QED
  BY <1>6, <1>7, <1>11, WorkKeepsInv

(* The run is cleared, or the worker torn from its clean-up.                *)
LEMMA ClearedKeepsInv ==
    ASSUME RtInv, NEW c \in ChatIds, Settled(c) \/ WaiterUnwinds(c)
    PROVE  RtInv'
<1>1. RtType /\ ChatSays(c) /\ DOMAIN children = ChatIds /\ sequence \in Nat
  BY DEF RtInv, RtType, ReaderSays
<1>2. /\ worker[c] \in {"settle", "get", "queued"} /\ Live(c) = {}
      /\ UNCHANGED <<lifecycle, inbox, submitted, pumpVars, sequence, readVars>>
      /\ chatStatus[c] # "none"
  BY <1>1 DEF Settled, WaiterUnwinds, ChatSays
<1>3. lifecycle[c] \in {<<>>, <<"queued">>} \cup RunLogs
      /\ (worker[c] = "settle" => lifecycle[c] \in RunLogs)
  BY <1>1, <1>2 DEF ChatSays, ToldOf
<1>4. lifecycle[c] \in Bases
  BY <1>3 DEF Bases
<1>5. CASE \E out \in BOOLEAN : /\ Cleared(c, out) /\ torn' = torn
                                /\ out \/ worker[c] = "settle"
                                /\ leaving' = leaving \/ leaving' = [leaving EXCEPT ![c] = "no"]
  <2>1. PICK out \in BOOLEAN : /\ Cleared(c, out) /\ torn' = torn
                               /\ out \/ worker[c] = "settle"
                               /\ leaving' = leaving \/ leaving' = [leaving EXCEPT ![c] = "no"]
    BY <1>5
  <2>2. leaving'[c] \in {leaving[c], "no"}
    BY <1>1, <2>1 DEF RtType
  <2>3. Live(c)' = {}
    BY <1>1, <2>1 DEF Cleared, Live
  <2>4. /\ active'[c] = 0 /\ worker'[c] = IF out THEN "dead" ELSE "get"
        /\ chatStatus'[c] = IF chatStatus[c] = "cancelled" THEN "cancelled" ELSE "idle"
        /\ out /\ chatStatus[c] # "cancelled" => c \in deserted'
    BY <1>1, <2>1 DEF Cleared, RtType
  <2>5. RtType'
    <3>1. /\ worker' \in [ChatIds -> {"none", "get", "queued", "runner", "settle", "dead"}]
          /\ chatStatus' \in [ChatIds -> {"none", "idle", "running", "cancelled"}]
      BY <1>1, <2>1 DEF Cleared, RtType
    <3>2. /\ dies' \in [ChatIds -> BOOLEAN] /\ active' \in [ChatIds -> Int]
          /\ DOMAIN children' = ChatIds
      BY <1>1, <2>1 DEF Cleared, RtType
    <3>3. leaving' \in [ChatIds -> {"no", "timeout", "cancel"}]
      BY <1>1, <2>1 DEF RtType
    <3>. QED
      BY <1>1, <1>2, <3>1, <3>2, <3>3 DEF RtType, pumpVars
  <2>6. ToldOf(worker'[c], lifecycle'[c])
    BY <1>2, <1>3, <2>1, <2>4 DEF ToldOf
  <2>7. ChatSays(c)'
    BY <1>1, <1>2, <2>1, <2>2, <2>3, <2>4, <2>6 DEF ChatSays, Working
  <2>8. OthersKept(c)
    BY <1>1, <1>2, <2>1 DEF OthersKept, Cleared, RtType
  <2>9. Works(c)
    BY <1>1, <1>2, <1>4, <2>3, <2>4, <2>8 DEF Works, RtType
  <2>. QED
    BY <2>5, <2>7, <2>9, WorkKeepsInv
<1>6. CASE Settled(c) /\ leaving[c] = "cancel"
  <2>1. /\ worker' = [worker EXCEPT ![c] = "dead"] /\ torn' = torn \cup {c}
        /\ leaving' = [leaving EXCEPT ![c] = "no"] /\ worker[c] = "settle"
        /\ UNCHANGED <<chatStatus, dies, active, children, deserted>>
    BY <1>6 DEF Settled
  <2>2. worker'[c] = "dead" /\ leaving'[c] = "no" /\ c \in torn' /\ chatStatus[c] = "cancelled"
    BY <1>1, <1>6, <2>1 DEF RtType, ChatSays
  <2>3. RtType'
    BY <1>1, <1>2, <2>1 DEF RtType, pumpVars
  <2>4. ToldOf(worker'[c], lifecycle'[c])
    BY <1>2, <1>3, <2>2 DEF ToldOf
  <2>5. ChatSays(c)'
    BY <1>1, <1>2, <2>1, <2>2, <2>4 DEF ChatSays, Working, Live
  <2>6. OthersKept(c)
    BY <1>1, <1>2, <2>1 DEF OthersKept, RtType
  <2>7. Works(c)
    BY <1>1, <1>2, <1>4, <2>1, <2>6 DEF Works, RtType, Live
  <2>. QED
    BY <2>3, <2>5, <2>7, WorkKeepsInv
<1>7. CASE Settled(c) /\ leaving[c] # "cancel"
  BY <1>1, <1>5, <1>7 DEF Settled, RtType
<1>8. CASE WaiterUnwinds(c)
  BY <1>5, <1>8 DEF WaiterUnwinds
<1>. QED
  BY <1>6, <1>7, <1>8

(* The timeout of a run reaches its children.                               *)
LEMMA TimeoutKeepsInv ==
    ASSUME RtInv, NEW c \in ChatIds, RunnerTimesOut(c)
    PROVE  RtInv'
<1>1. RtType /\ ChatSays(c) /\ DOMAIN children = ChatIds /\ sequence \in Nat
  BY DEF RtInv, RtType, ReaderSays
<1>2. /\ worker[c] = "runner" /\ leaving' = [leaving EXCEPT ![c] = "timeout"]
      /\ children' = [children EXCEPT ![c] = CancelTasks(children[c])]
      /\ UNCHANGED <<chatStatus, worker, dies, active, lifecycle, torn, deserted, inbox, submitted,
                     pumpVars, sequence, readVars>>
  BY DEF RunnerTimesOut, Interrupt
<1>3. leaving'[c] = "timeout" /\ Live(c)' = Live(c)
  BY <1>1, <1>2, CancelKeepsLive DEF RtType, Live
<1>4. RtType'
  BY <1>1, <1>2 DEF RtType, pumpVars
<1>5. ChatSays(c)'
  BY <1>1, <1>2, <1>3 DEF ChatSays
<1>6. OthersKept(c)
  BY <1>1, <1>2 DEF OthersKept, RtType
<1>7. lifecycle'[c] \in Bases
  BY <1>1, <1>2 DEF ChatSays, ToldOf, Bases
<1>8. Works(c)
  BY <1>1, <1>2, <1>3, <1>6, <1>7 DEF Works, RtType, ChatSays
<1>. QED
  BY <1>4, <1>5, <1>8, WorkKeepsInv

(* Nothing is announced after close, so a reader that has ended has all.    *)
LEMMA ReaderKept ==
    ASSUME ReaderSays, UNCHANGED readVars, sequence' \in Nat, sequence' >= sequence,
           shut => shut' /\ sequence' = sequence
    PROVE  ReaderSays'
<1>1. PICK n \in Nat : reader.batch = CountFrom(toldTo, n) /\ toldTo + n <= sequence
  BY DEF ReaderSays
<1>2. toldTo + n <= sequence'
  BY <1>1 DEF ReaderSays
<1>. QED
  BY <1>1, <1>2 DEF ReaderSays, readVars

(* A step of the handler that leaves the chats alone.                       *)
LEMMA ChatsKept ==
    ASSUME RtInv, UNCHANGED <<runVars, inbox, submitted>>
    PROVE  \A c \in ChatIds : ChatSays(c)' /\ Live(c)' = Live(c)
<1>1. SUFFICES ASSUME NEW c \in ChatIds
               PROVE  ChatSays(c)' /\ Live(c)' = Live(c)
  OBVIOUS
<1>. QED
  BY DEF RtInv, ChatSays, Live, runVars

(* The handler's steps that concern no chat by itself.                      *)
LEMMA PumpKeepsInv ==
    ASSUME RtInv,
           \/ GrantDelegation \/ RevokeDelegation \/ ScopeRevoked \/ RevokeReturns
           \/ SwitchModel \/ SwitchReturns \/ Close \/ CloseReturns
    PROVE  RtInv'
<1>1. RtType /\ sequence \in Nat /\ HandlerSays /\ ReaderSays /\ NoChat \notin ChatIds
  BY ChatBounds DEF RtInv, ReaderSays
<1>2. UNCHANGED <<runVars, inbox, submitted, readVars>>
  BY DEF GrantDelegation, RevokeDelegation, ScopeRevoked, RevokeReturns, SwitchModel, SwitchReturns,
         Close, CloseReturns
<1>3. \A c \in ChatIds : ChatSays(c)' /\ Live(c)' = Live(c)
  BY <1>2, ChatsKept
<1>4. /\ ~shut /\ shut' \in BOOLEAN /\ handler' \in {"idle", "cancel", "revoke", "switch", "close"}
      /\ delegation' \in BOOLEAN /\ todo' \subseteq ChatIds /\ at' \in ChatIds \cup {NoChat}
      /\ sequence' \in Nat /\ sequence' >= sequence
  <2>1. ~shut
    BY <1>1 DEF GrantDelegation, RevokeDelegation, ScopeRevoked, RevokeReturns, SwitchModel,
                SwitchReturns, Close, CloseReturns, HandlerSays
  <2>2. sequence' \in Nat /\ sequence' >= sequence
    BY <1>1 DEF GrantDelegation, RevokeDelegation, ScopeRevoked, RevokeReturns, SwitchModel,
                SwitchReturns, Close, CloseReturns, Announce
  <2>3. shut' \in BOOLEAN /\ delegation' \in BOOLEAN
    BY <1>1 DEF GrantDelegation, RevokeDelegation, ScopeRevoked, RevokeReturns, SwitchModel,
                SwitchReturns, Close, CloseReturns, RtType
  <2>4. handler' \in {"idle", "cancel", "revoke", "switch", "close"}
    BY <1>1 DEF GrantDelegation, RevokeDelegation, ScopeRevoked, RevokeReturns, SwitchModel,
                SwitchReturns, Close, CloseReturns, RtType
  <2>5. todo' \subseteq ChatIds /\ at' \in ChatIds \cup {NoChat}
    BY <1>1 DEF GrantDelegation, RevokeDelegation, ScopeRevoked, RevokeReturns, SwitchModel,
                SwitchReturns, Close, CloseReturns, RtType, Chats
  <2>. QED
    BY <2>1, <2>2, <2>3, <2>4, <2>5
<1>5. RtType'
  BY <1>1, <1>2, <1>4 DEF RtType, runVars
<1>6. ReaderSays'
  BY <1>1, <1>2, <1>4, ReaderKept
<1>7. HandlerSays'
  BY <1>1, <1>4 DEF GrantDelegation, RevokeDelegation, ScopeRevoked, RevokeReturns, SwitchModel,
              SwitchReturns, Close, CloseReturns, HandlerSays
<1>8. ASSUME NEW c \in ChatIds
      PROVE  PumpSays(c)'
  <2>1. ChatSays(c) /\ PumpSays(c) /\ Live(c)' = Live(c)
        /\ UNCHANGED <<chatStatus, worker, lifecycle, inbox, active>> /\ c # NoChat
    BY <1>1, <1>2, <1>3 DEF RtInv, runVars
  <2>2. CASE GrantDelegation
    BY <2>1, <2>2 DEF GrantDelegation, PumpSays, Cancelling
  <2>3. CASE RevokeDelegation
    BY <2>1, <2>3 DEF RevokeDelegation, PumpSays, Cancelling, ChatSays, Working
  <2>4. CASE ScopeRevoked
    BY <2>1, <2>4 DEF ScopeRevoked, PumpSays, Cancelling
  <2>5. CASE RevokeReturns
    BY <2>1, <2>5 DEF RevokeReturns, PumpSays, Cancelling
  <2>6. CASE SwitchModel
    BY <2>1, <2>6 DEF SwitchModel, PumpSays, Cancelling, Chats, ChatSays
  <2>7. CASE SwitchReturns
    BY <2>1, <2>7 DEF SwitchReturns, PumpSays, Cancelling
  <2>8. CASE Close
    BY <1>1, <2>1, <2>8 DEF Close, PumpSays, Cancelling, Chats, HandlerSays
  <2>9. CASE CloseReturns
    BY <2>1, <2>9 DEF CloseReturns, PumpSays, Cancelling
  <2>. QED
    BY <2>2, <2>3, <2>4, <2>5, <2>6, <2>7, <2>8, <2>9
<1>. QED
  BY <1>3, <1>5, <1>6, <1>7, <1>8 DEF RtInv

(* A step of the handler that concerns one chat.                            *)
LEMMA HandlesOne ==
    ASSUME RtInv, NEW c \in ChatIds, RtType', HandlerSays', OthersKept(c), ChatSays(c)', PumpSays(c)',
           UNCHANGED readVars, sequence' \in Nat, sequence' >= sequence,
           shut => shut' /\ sequence' = sequence,
           \A d \in ChatIds \ {c} : PumpSays(d)'
    PROVE  RtInv'
<1>1. ReaderSays'
  BY ReaderKept DEF RtInv
<1>2. \A d \in ChatIds \ {c} : ChatSays(d)'
  BY OthersSay DEF RtInv
<1>. QED
  BY <1>1, <1>2 DEF RtInv

(* A step on one chat that leaves the handler where it is.                  *)
LEMMA OthersPumped ==
    ASSUME RtInv, NEW c \in ChatIds, OthersKept(c), UNCHANGED pumpVars
    PROVE  \A d \in ChatIds \ {c} : PumpSays(d)'
<1>1. SUFFICES ASSUME NEW d \in ChatIds \ {c}
               PROVE  PumpSays(d)'
  OBVIOUS
<1>2. Live(d)' = Live(d)
  BY DEF OthersKept, Live
<1>. QED
  BY <1>2 DEF RtInv, PumpSays, OthersKept, Cancelling, pumpVars

(* A chat is opened or takes a message.                                     *)
LEMMA OpenKeepsInv ==
    ASSUME RtInv, NEW c \in ChatIds, CreateChat(c) \/ SendMessage(c)
    PROVE  RtInv'
<1>1. /\ RtType /\ sequence \in Nat /\ HandlerSays /\ ChatSays(c) /\ PumpSays(c)
      /\ handler = "idle" /\ ~shut /\ UNCHANGED <<pumpVars, readVars>>
  BY DEF RtInv, ReaderSays, CreateChat, SendMessage
<1>2. sequence' \in Nat /\ sequence' >= sequence
  BY <1>1 DEF CreateChat, SendMessage, Announce
<1>3. HandlerSays'
  BY <1>1 DEF HandlerSays, pumpVars
<1>4. CASE CreateChat(c)
  <2>1. /\ chatStatus[c] = "none" /\ chatStatus' = [chatStatus EXCEPT ![c] = "idle"]
        /\ worker' = [worker EXCEPT ![c] = "get"]
        /\ UNCHANGED <<dies, active, children, leaving, lifecycle, torn, deserted, inbox, submitted>>
    BY <1>4 DEF CreateChat
  <2>2. chatStatus'[c] = "idle" /\ worker'[c] = "get" /\ worker[c] = "none" /\ lifecycle[c] = <<>>
    BY <1>1, <2>1 DEF RtType, ChatSays, ToldOf
  <2>3. RtType'
    BY <1>1, <2>1 DEF RtType, pumpVars
  <2>4. OthersKept(c)
    BY <1>1, <2>1 DEF OthersKept, RtType
  <2>5. Live(c)' = Live(c) /\ lifecycle[c] \in Bases
    BY <2>1, <2>2 DEF Live, Bases
  <2>6. ChatSays(c)' /\ PumpSays(c)'
    BY <1>1, <2>1, <2>2, <2>5 DEF ChatSays, PumpSays, Working, ToldOf, Cancelling, pumpVars
  <2>. QED
    BY <1>1, <1>2, <1>3, <2>3, <2>4, <2>6, HandlesOne, OthersPumped
<1>5. CASE SendMessage(c)
  <2>1. /\ chatStatus[c] \notin {"none", "cancelled"}
        /\ inbox' = [inbox EXCEPT ![c] = inbox[c] + 1]
        /\ submitted' = [submitted EXCEPT ![c] = submitted[c] + 1] /\ UNCHANGED runVars
    BY <1>5 DEF SendMessage
  <2>2. RtType'
    BY <1>1, <2>1 DEF RtType, pumpVars, runVars
  <2>3. OthersKept(c)
    BY <1>1, <2>1 DEF OthersKept, RtType, runVars
  <2>4. Live(c)' = Live(c) /\ inbox'[c] <= submitted'[c]
    BY <1>1, <2>1 DEF Live, runVars, RtType, ChatSays
  <2>5. ChatSays(c)' /\ PumpSays(c)'
    BY <1>1, <2>1, <2>4 DEF ChatSays, PumpSays, Cancelling, pumpVars, runVars
  <2>. QED
    BY <1>1, <1>2, <1>3, <2>2, <2>3, <2>5, HandlesOne, OthersPumped
<1>. QED
  BY <1>4, <1>5

(* A chat whose cancellation is announced says nothing else after it.       *)
LEMMA LogsClose ==
    ASSUME NEW b \in Bases
    PROVE  /\ b \in Seq({"queued", "started"} \cup Ends)
           /\ Append(b, "chat_cancelled") \notin Bases
           /\ Len(Append(b, "chat_cancelled")) = Len(b) + 1
           /\ \A i \in 1..Len(b) : Append(b, "chat_cancelled")[i] = b[i] /\ b[i] # "chat_cancelled"
           /\ Append(b, "chat_cancelled")[Len(b) + 1] = "chat_cancelled"
<1>. DEFINE M == {"queued", "started"} \cup Ends
            S == M \cup {"chat_cancelled"}
            t == Append(b, "chat_cancelled")
<1>1. /\ b \in Seq(M) /\ b \in Seq(S) /\ "chat_cancelled" \in S
      /\ Bases \subseteq Seq(M)
  <2>1. ASSUME NEW T, {"queued", "started"} \cup Ends \subseteq T, NEW x \in Bases
        PROVE  x \in Seq(T)
    <3>1. <<>> \in Seq(T) /\ <<"queued">> \in Seq(T) /\ <<"queued", "started">> \in Seq(T)
      BY <2>1
    <3>2. \A e \in Ends : <<"queued", "started", e>> \in Seq(T)
      BY <2>1
    <3>. QED
      BY <3>1, <3>2 DEF Bases, RunLogs
  <2>. QED
    BY <2>1
<1>2. \A m \in M : m # "chat_cancelled"
  BY DEF Ends
<1>. HIDE DEF M, S
<1>3. /\ t \in Seq(S) /\ Len(t) = Len(b) + 1
      /\ \A i \in 1..Len(b) : t[i] = b[i]
      /\ t[Len(b) + 1] = "chat_cancelled"
  BY <1>1, AppendAt
<1>4. Len(b) \in Nat /\ b \in Seq(M)
  BY <1>1
<1>5. \A i \in 1..Len(b) : b[i] # "chat_cancelled"
  BY <1>2, <1>4
<1>6. t \notin Bases
  <2>. HIDE DEF t
  <2>1. ASSUME t \in Seq(M)
        PROVE  FALSE
    BY <1>2, <1>3, <1>4, <2>1
  <2>. QED
    BY <1>1, <2>1
<1>. QED
  BY <1>3, <1>4, <1>5, <1>6 DEF M

(* What _cancel_chat has done when it awaits the worker.                    *)
LEMMA BeginCancelSays ==
    ASSUME RtInv, NEW c \in ChatIds, BeginCancel(c), chatStatus[c] \notin {"none", "cancelled"}
    PROVE  /\ chatStatus' \in [ChatIds -> {"none", "idle", "running", "cancelled"}]
           /\ inbox' \in [ChatIds -> Nat] /\ leaving' \in [ChatIds -> {"no", "timeout", "cancel"}]
           /\ DOMAIN children' = ChatIds /\ chatStatus'[c] = "cancelled" /\ Live(c)' = Live(c)
           /\ OthersKept(c) /\ ChatSays(c)' /\ lifecycle[c] \in Bases /\ inbox'[c] = 0
           /\ UNCHANGED <<worker, dies, active, lifecycle, torn, deserted, submitted>>
<1>1. RtType /\ ChatSays(c) /\ PumpSays(c) /\ DOMAIN children = ChatIds
  BY DEF RtInv, RtType
<1>2. /\ chatStatus' = [chatStatus EXCEPT ![c] = "cancelled"] /\ inbox' = [inbox EXCEPT ![c] = 0]
      /\ UNCHANGED <<worker, dies, active, lifecycle, torn, deserted, submitted>>
  BY DEF BeginCancel
<1>3. /\ chatStatus' \in [ChatIds -> {"none", "idle", "running", "cancelled"}]
      /\ inbox' \in [ChatIds -> Nat] /\ chatStatus'[c] = "cancelled" /\ inbox'[c] = 0
  BY <1>1, <1>2 DEF RtType
<1>4. \/ leaving' = leaving /\ worker[c] = "dead"
      \/ leaving' = [leaving EXCEPT ![c] = "cancel"]
  BY DEF BeginCancel, Interrupt
<1>5. children' = children \/ children' = [children EXCEPT ![c] = CancelTasks(children[c])]
  BY DEF BeginCancel, Interrupt
<1>6. /\ leaving' \in [ChatIds -> {"no", "timeout", "cancel"}] /\ DOMAIN children' = ChatIds
      /\ leaving'[c] = "cancel" \/ (leaving'[c] = leaving[c] /\ worker[c] = "dead")
  BY <1>1, <1>4, <1>5 DEF RtType
<1>7. Live(c)' = Live(c)
  BY <1>1, <1>5, CancelKeepsLive DEF Live
<1>8. OthersKept(c)
  BY <1>1, <1>2, <1>4, <1>5 DEF OthersKept, RtType
<1>9. submitted[c] \in Nat /\ submitted'[c] = submitted[c]
  BY <1>1, <1>2 DEF RtType
<1>10. ChatSays(c)'
  BY <1>1, <1>2, <1>3, <1>6, <1>7, <1>9 DEF ChatSays, Working
<1>11. lifecycle[c] \in Bases
  BY <1>1 DEF PumpSays
<1>. QED
  BY <1>2, <1>3, <1>6, <1>7, <1>8, <1>10, <1>11

(* A cancellation begins, by itself or within close.                        *)
LEMMA CancelKeepsInv ==
    ASSUME RtInv, NEW c \in ChatIds,
           CancelChat(c) \/ (CloseChat(c) /\ chatStatus[c] # "cancelled")
    PROVE  RtInv'
<1>1. /\ RtType /\ sequence \in Nat /\ HandlerSays /\ ChatSays(c) /\ PumpSays(c)
      /\ NoChat \notin ChatIds
  BY ChatBounds DEF RtInv, ReaderSays
<1>2. /\ BeginCancel(c) /\ at' = c /\ at = NoChat /\ handler' \in {"cancel", "close"}
      /\ chatStatus[c] \notin {"none", "cancelled"}
      /\ UNCHANGED <<delegation, grantsMade, shut, sequence, readVars>>
  BY <1>1 DEF CancelChat, CloseChat, HandlerSays, PumpSays
<1>3. /\ chatStatus' \in [ChatIds -> {"none", "idle", "running", "cancelled"}]
      /\ inbox' \in [ChatIds -> Nat] /\ leaving' \in [ChatIds -> {"no", "timeout", "cancel"}]
      /\ DOMAIN children' = ChatIds /\ chatStatus'[c] = "cancelled" /\ Live(c)' = Live(c)
      /\ OthersKept(c) /\ ChatSays(c)' /\ lifecycle[c] \in Bases
      /\ UNCHANGED <<worker, dies, active, lifecycle, torn, deserted, submitted>>
  BY <1>2, BeginCancelSays
<1>4. \/ handler = "idle" /\ handler' = "cancel" /\ todo' = todo
      \/ handler = "close" /\ handler' = "close" /\ todo' = todo \ {c}
  BY DEF CancelChat, CloseChat
<1>5. ~shut
  BY <1>1, <1>2 DEF PumpSays
<1>6. RtType'
  BY <1>1, <1>2, <1>3, <1>4 DEF RtType
<1>7. HandlerSays'
  BY <1>2, <1>4, <1>5 DEF HandlerSays
<1>8. PumpSays(c)'
  BY <1>1, <1>2, <1>3, <1>4, <1>5 DEF PumpSays, Cancelling
<1>9. ASSUME NEW d \in ChatIds \ {c}
      PROVE  PumpSays(d)'
  <2>1. Live(d)' = Live(d) /\ PumpSays(d) /\ d # NoChat
    BY <1>1, <1>3 DEF OthersKept, Live, RtInv
  <2>. QED
    BY <1>2, <1>3, <1>4, <1>5, <2>1 DEF PumpSays, OthersKept, Cancelling
<1>. QED
  BY <1>1, <1>2, <1>3, <1>5, <1>6, <1>7, <1>8, <1>9, HandlesOne

(* A revocation or close visits a chat.                                     *)
LEMMA VisitKeepsInv ==
    ASSUME RtInv, NEW c \in ChatIds,
           RevokeScope(c) \/ (CloseChat(c) /\ chatStatus[c] = "cancelled")
    PROVE  RtInv'
<1>1. /\ RtType /\ sequence \in Nat /\ HandlerSays /\ ChatSays(c) /\ PumpSays(c)
      /\ NoChat \notin ChatIds /\ DOMAIN children = ChatIds
  BY ChatBounds DEF RtInv, ReaderSays, RtType
<1>2. /\ UNCHANGED <<chatStatus, worker, dies, active, leaving, lifecycle, torn, deserted, inbox,
                     submitted, delegation, grantsMade, handler, shut, sequence, readVars>>
      /\ at = NoChat /\ todo' = todo \ {c}
      /\ \/ /\ handler = "revoke" /\ at' = c
            /\ children' = [children EXCEPT ![c] = CancelTasks(children[c])]
         \/ handler = "close" /\ at' = NoChat /\ children' = children /\ chatStatus[c] = "cancelled"
  BY DEF RevokeScope, CloseChat, runVars
<1>3. Live(c)' = Live(c)
  BY <1>1, <1>2, CancelKeepsLive DEF Live
<1>4. OthersKept(c) /\ RtType'
  BY <1>1, <1>2 DEF OthersKept, RtType
<1>5. ~shut /\ HandlerSays'
  BY <1>1, <1>2 DEF HandlerSays
<1>6. ChatSays(c)'
  BY <1>1, <1>2, <1>3 DEF ChatSays
<1>7. PumpSays(c)'
  BY <1>1, <1>2, <1>3 DEF PumpSays, Cancelling
<1>8. ASSUME NEW d \in ChatIds \ {c}
      PROVE  PumpSays(d)'
  <2>1. Live(d)' = Live(d) /\ PumpSays(d) /\ d # NoChat
    BY <1>1, <1>4 DEF OthersKept, Live, RtInv
  <2>. QED
    BY <1>2, <2>1 DEF PumpSays, Cancelling
<1>. QED
  BY <1>1, <1>2, <1>4, <1>5, <1>6, <1>7, <1>8, HandlesOne

(* The worker of a cancelled chat is gone, and that is announced.           *)
LEMMA CancelledKeepsInv ==
    ASSUME RtInv, CancelReturns \/ ChatClosed
    PROVE  RtInv'
<1>1. /\ RtType /\ sequence \in Nat /\ HandlerSays /\ NoChat \notin ChatIds
      /\ DOMAIN lifecycle = ChatIds
  BY ChatBounds DEF RtInv, ReaderSays, RtType
<1>2. /\ at \in ChatIds /\ handler \in {"cancel", "close"} /\ worker[at] = "dead"
      /\ lifecycle' = [lifecycle EXCEPT ![at] = Append(@, "chat_cancelled")]
      /\ UNCHANGED <<chatStatus, worker, dies, active, children, leaving, torn, deserted, inbox,
                     submitted, delegation, grantsMade, todo, shut, readVars>>
      /\ at' = NoChat
      /\ \/ handler = "cancel" /\ handler' = "idle"
         \/ handler = "close" /\ handler' = "close"
  BY <1>1 DEF CancelReturns, ChatClosed, FinishCancel, Note, HandlerSays, RtType
<1>3. PICK c \in ChatIds : c = at
  BY <1>2
<1>4. ChatSays(c) /\ PumpSays(c) /\ lifecycle[c] \in Bases /\ chatStatus[c] = "cancelled"
  BY <1>2, <1>3 DEF RtInv, PumpSays, Cancelling
<1>5. lifecycle'[c] = Append(lifecycle[c], "chat_cancelled")
  BY <1>1, <1>2, <1>3
<1>6. PICK b \in {<<>>, <<"queued">>} \cup RunLogs :
         lifecycle[c] = b \/ lifecycle[c] = Append(b, "chat_cancelled")
  BY <1>2, <1>3, <1>4 DEF ChatSays, ToldOf
<1>7. b \in Bases
  BY <1>6 DEF Bases
<1>8. lifecycle[c] = b
  BY <1>4, <1>6, <1>7, LogsClose
<1>9. ChatSays(c)'
  <2>1. ToldOf("dead", Append(b, "chat_cancelled"))
    BY <1>6 DEF ToldOf
  <2>. QED
    BY <1>2, <1>3, <1>4, <1>5, <1>8, <2>1 DEF ChatSays, Live
<1>10. OthersKept(c)
  BY <1>1, <1>2, <1>3 DEF OthersKept
<1>11. ~shut /\ HandlerSays' /\ RtType'
  BY <1>1, <1>2 DEF HandlerSays, RtType
<1>12. sequence' \in Nat /\ sequence' >= sequence
  BY <1>1 DEF CancelReturns, ChatClosed, FinishCancel, Announce
<1>13. Live(c)' = Live(c)
  BY <1>2 DEF Live
<1>14. PumpSays(c)'
  BY <1>1, <1>2, <1>3, <1>4, <1>11, <1>13 DEF PumpSays, Cancelling
<1>15. ASSUME NEW d \in ChatIds \ {c}
       PROVE  PumpSays(d)'
  <2>1. Live(d)' = Live(d) /\ PumpSays(d) /\ d # NoChat /\ lifecycle'[d] = lifecycle[d] /\ d # at
    BY <1>1, <1>3, <1>10 DEF OthersKept, Live, RtInv
  <2>. QED
    BY <1>2, <2>1 DEF PumpSays, Cancelling
<1>. QED
  BY <1>1, <1>2, <1>9, <1>10, <1>11, <1>12, <1>14, <1>15, HandlesOne

(* Numbers in a row, as a reader copies them.                               *)
LEMMA Counted ==
    ASSUME NEW a \in Nat, NEW n \in Nat, NEW q, q = CountFrom(a, n)
    PROVE  /\ q = <<>> <=> n = 0
           /\ n > 0 => Head(q) = a + 1 /\ Tail(q) = CountFrom(a + 1, n - 1)
<1>1. q \in Seq(Nat) /\ Len(q) = n /\ \A k \in 1..n : q[k] = a + k
  BY DEF CountFrom
<1>2. q = <<>> <=> n = 0
  BY <1>1, EmptySeq
<1>3. ASSUME n > 0
      PROVE  Head(q) = a + 1 /\ Tail(q) = CountFrom(a + 1, n - 1)
  <2>1. q # <<>>
    BY <1>2, <1>3
  <2>2. Head(q) = q[1] /\ Tail(q) \in Seq(Nat) /\ Len(Tail(q)) = n - 1
        /\ \A k \in 1..(n - 1) : Tail(q)[k] = q[k + 1]
    <3>1. q \in Seq(Nat) /\ Len(q) = n
      BY <1>1
    <3>2. Head(q) = q[1]
      OBVIOUS
    <3>3. /\ Tail(q) \in Seq(Nat) /\ Len(Tail(q)) = Len(q) - 1
          /\ \A k \in 1..Len(Tail(q)) : Tail(q)[k] = q[k + 1]
      BY <2>1, <3>1, HeadTailProperties
    <3>. QED
      BY <3>1, <3>2, <3>3
  <2>. DEFINE u == [k \in 1..(n - 1) |-> (a + 1) + k]
  <2>3. u \in Seq(Nat) /\ Len(u) = n - 1 /\ \A k \in 1..(n - 1) : u[k] = a + (k + 1)
    BY <1>3
  <2>. HIDE DEF u
  <2>4. \A k \in 1..(n - 1) : Tail(q)[k] = u[k]
    BY <1>1, <2>2, <2>3
  <2>5. Tail(q) = u
    BY <2>2, <2>3, <2>4, SeqEqual
  <2>6. q[1] = a + 1
    BY <1>1, <1>3
  <2>. QED
    BY <2>2, <2>5, <2>6 DEF u, CountFrom
<1>. QED
  BY <1>2, <1>3

(* The reader copies and yields.                                            *)
LEMMA ReaderKeepsInv ==
    ASSUME RtInv, ReadBatch \/ YieldEvent
    PROVE  RtInv'
<1>1. UNCHANGED <<runVars, inbox, submitted, pumpVars, sequence>>
  BY DEF ReadBatch, YieldEvent
<1>2. RtType' /\ HandlerSays'
  BY <1>1 DEF RtInv, RtType, HandlerSays, runVars, pumpVars
<1>3. \A c \in ChatIds : ChatSays(c)' /\ Live(c)' = Live(c)
  BY <1>1, ChatsKept
<1>4. ASSUME NEW c \in ChatIds
      PROVE  PumpSays(c)'
  BY <1>1, <1>3 DEF RtInv, PumpSays, Cancelling, runVars, pumpVars
<1>5. PICK n \in Nat : reader.batch = CountFrom(toldTo, n) /\ toldTo + n <= sequence
  BY DEF RtInv, ReaderSays
<1>6. /\ sequence \in Nat /\ toldTo \in Nat /\ reader.cursor = toldTo /\ missed = FALSE
      /\ reader.ended \in BOOLEAN /\ reader.ended => shut /\ reader.batch = <<>> /\ toldTo = sequence
      /\ reader = [cursor |-> reader.cursor, batch |-> reader.batch, ended |-> reader.ended]
  BY DEF RtInv, ReaderSays
<1>7. CASE ReadBatch
  <2>. DEFINE from == IF reader.cursor < Oldest - 1 THEN Oldest - 1 ELSE reader.cursor
              got == CountFrom(from, sequence - from)
  <2>1. n = 0
    BY <1>5, <1>6, <1>7, Counted DEF ReadBatch
  <2>2. from \in Nat /\ from <= sequence
    BY <1>5, <1>6, <2>1, ChatBounds DEF Oldest
  <2>3. /\ got # <<>> \/ shut
        /\ reader' = [cursor |-> from, batch |-> got, ended |-> got = <<>>]
        /\ toldTo' = IF from # reader.cursor THEN from ELSE toldTo
        /\ UNCHANGED <<sequence, missed>>
    BY <1>7 DEF ReadBatch, CountFrom
  <2>4. sequence - from \in Nat
    BY <1>6, <2>2
  <2>. HIDE DEF from
  <2>5. got = <<>> => sequence = from
    BY <1>6, <2>2, <2>4, Counted
  <2>6. toldTo' = from
    BY <1>6, <2>3
  <2>7. \E m \in Nat : got = CountFrom(toldTo', m) /\ toldTo' + m <= sequence
    BY <1>6, <2>2, <2>4, <2>6
  <2>. HIDE DEF got
  <2>8. shut' = shut
    BY <1>1 DEF pumpVars
  <2>. QED
    BY <1>1, <1>2, <1>3, <1>4, <1>6, <2>2, <2>3, <2>5, <2>6, <2>7, <2>8 DEF RtInv, ReaderSays
<1>8. CASE YieldEvent
  <2>0. PICK q : q = reader.batch
    OBVIOUS
  <2>0a. q = CountFrom(toldTo, n) /\ toldTo \in Nat /\ n \in Nat
    BY <1>5, <1>6, <2>0
  <2>0b. /\ q = <<>> <=> n = 0
         /\ n > 0 => Head(q) = toldTo + 1 /\ Tail(q) = CountFrom(toldTo + 1, n - 1)
    <3>1. PICK a \in Nat : a = toldTo
      BY <2>0a
    <3>2. q = CountFrom(a, n)
      BY <2>0a, <3>1
    <3>3. /\ q = <<>> <=> n = 0
          /\ n > 0 => Head(q) = a + 1 /\ Tail(q) = CountFrom(a + 1, n - 1)
      BY <2>0a, <3>2, Counted
    <3>. QED
      BY <3>1, <3>3
  <2>1. n > 0
    BY <1>8, <2>0, <2>0a, <2>0b DEF YieldEvent
  <2>2. Head(reader.batch) = toldTo + 1
        /\ Tail(reader.batch) = CountFrom(toldTo + 1, n - 1)
    BY <2>0, <2>0b, <2>1
  <2>3. /\ reader' = [reader EXCEPT !.cursor = toldTo + 1, !.batch = Tail(reader.batch)]
        /\ toldTo' = toldTo + 1 /\ missed' = FALSE /\ ~reader.ended
    <3>1. /\ reader' = [reader EXCEPT !.cursor = IF Head(reader.batch) > reader.cursor
                                                 THEN Head(reader.batch) ELSE reader.cursor,
                                    !.batch = Tail(reader.batch)]
          /\ toldTo' = Head(reader.batch)
          /\ missed' = (missed \/ Head(reader.batch) # toldTo + 1) /\ reader.batch # <<>>
      BY <1>8 DEF YieldEvent
    <3>2. Head(reader.batch) > reader.cursor
      BY <1>6, <2>2
    <3>. QED
      BY <1>6, <2>2, <3>1, <3>2
  <2>4. /\ reader'.cursor = toldTo' /\ reader'.batch = Tail(reader.batch) /\ reader'.ended = FALSE
        /\ reader' = [cursor |-> reader'.cursor, batch |-> reader'.batch, ended |-> reader'.ended]
    <3>1. PICK t, u : t = toldTo + 1 /\ u = Tail(reader.batch)
      OBVIOUS
    <3>2. reader' = [cursor |-> t, batch |-> u, ended |-> reader.ended]
      BY <1>6, <2>3, <3>1
    <3>3. reader'.cursor = t /\ reader'.batch = u /\ reader'.ended = reader.ended
      BY <3>2
    <3>4. toldTo' = t /\ reader.ended = FALSE
      BY <1>6, <2>3, <3>1
    <3>. QED
      BY <3>1, <3>2, <3>3, <3>4
  <2>5. n - 1 \in Nat /\ toldTo' + (n - 1) <= sequence /\ toldTo' \in Nat
    BY <1>5, <1>6, <2>1, <2>3
  <2>6. reader'.batch = CountFrom(toldTo', n - 1)
    BY <2>2, <2>3, <2>4
  <2>7. ReaderSays'
    BY <1>1, <1>6, <2>3, <2>4, <2>5, <2>6 DEF ReaderSays
  <2>. QED
    BY <1>2, <1>3, <1>4, <2>7 DEF RtInv
<1>. QED
  BY <1>7, <1>8

(* The invariant holds at first.                                            *)
LEMMA RtInitially == RtInit => RtInv
<1>1. SUFFICES ASSUME RtInit
               PROVE  RtInv
  OBVIOUS
<1>2. RtType /\ HandlerSays
  <2>1. /\ chatStatus \in [ChatIds -> {"none", "idle", "running", "cancelled"}]
        /\ worker \in [ChatIds -> {"none", "get", "queued", "runner", "settle", "dead"}]
        /\ dies \in [ChatIds -> BOOLEAN]
    BY <1>1 DEF RtInit
  <2>2. /\ active \in [ChatIds -> Int] /\ inbox \in [ChatIds -> Nat]
        /\ submitted \in [ChatIds -> Nat]
    BY <1>1 DEF RtInit
  <2>3. /\ leaving \in [ChatIds -> {"no", "timeout", "cancel"}]
        /\ DOMAIN children = ChatIds /\ DOMAIN lifecycle = ChatIds
    BY <1>1 DEF RtInit
  <2>4. /\ handler = "idle" /\ todo = {} /\ at = NoChat /\ delegation = FALSE /\ shut = FALSE
    BY <1>1 DEF RtInit
  <2>. QED
    BY <2>1, <2>2, <2>3, <2>4 DEF RtType, HandlerSays
<1>3. ReaderSays
  <2>1. reader.batch = CountFrom(toldTo, 0)
    BY <1>1 DEF RtInit, CountFrom
  <2>2. \E n \in Nat : reader.batch = CountFrom(toldTo, n) /\ toldTo + n <= sequence
    BY <1>1, <2>1 DEF RtInit
  <2>. QED
    BY <1>1, <2>2 DEF RtInit, ReaderSays
<1>4. ASSUME NEW c \in ChatIds
      PROVE  ChatSays(c) /\ PumpSays(c)
  <2>1. lifecycle[c] = <<>> /\ <<>> \in Bases /\ Live(c) = {}
    BY <1>1 DEF RtInit, Bases, Live
  <2>. QED
    BY <1>1, <2>1, ChatBounds DEF RtInit, ChatSays, PumpSays, ToldOf, Working, Cancelling
<1>. QED
  BY <1>2, <1>3, <1>4 DEF RtInv

(* Every step keeps the invariant.                                          *)
LEMMA RtStep == RtInv /\ [RtNext]_rtVars => RtInv'
<1>1. SUFFICES ASSUME RtInv, [RtNext]_rtVars
               PROVE  RtInv'
  OBVIOUS
<1>2. ASSUME NEW c \in ChatIds, CreateChat(c) \/ SendMessage(c)
      PROVE  RtInv'
  BY <1>1, <1>2, OpenKeepsInv
<1>3. ASSUME NEW c \in ChatIds, CancelChat(c) \/ CloseChat(c) \/ RevokeScope(c)
      PROVE  RtInv'
  BY <1>1, <1>3, CancelKeepsInv, VisitKeepsInv
<1>4. ASSUME NEW c \in ChatIds, TakeMessage(c) \/ StartQueued(c) \/ RunnerTimesOut(c)
      PROVE  RtInv'
  BY <1>1, <1>4, TakeMessageKeepsInv, StartQueuedKeepsInv, TimeoutKeepsInv
<1>5. ASSUME NEW c \in ChatIds,
             RunnerReturns(c) \/ RunnerFails(c) \/ RunnerLosesChild(c) \/ RunnerUnwinds(c)
      PROVE  RtInv'
  BY <1>1, <1>5, RunnerKeepsInv
<1>6. ASSUME NEW c \in ChatIds, WaiterUnwinds(c) \/ Settled(c)
      PROVE  RtInv'
  BY <1>1, <1>6, ClearedKeepsInv
<1>7. ASSUME NEW c \in ChatIds,
             \/ SpawnSubagent(c)
             \/ \E i \in DOMAIN children[c] :
                   SubagentStarts(c, i) \/ SubagentEnds(c, i) \/ SubagentStopped(c, i)
      PROVE  RtInv'
  BY <1>1, <1>7, ChildrenKeepInv
<1>8. CASE \/ GrantDelegation \/ RevokeDelegation \/ ScopeRevoked \/ RevokeReturns
           \/ SwitchModel \/ SwitchReturns \/ Close \/ CloseReturns
  BY <1>1, <1>8, PumpKeepsInv
<1>9. CASE CancelReturns \/ ChatClosed
  BY <1>1, <1>9, CancelledKeepsInv
<1>10. CASE ReadBatch \/ YieldEvent
  BY <1>1, <1>10, ReaderKeepsInv
<1>11. CASE UNCHANGED rtVars
  <2>1. UNCHANGED <<runVars, inbox, submitted, pumpVars, sequence, readVars>>
    BY <1>11 DEF rtVars
  <2>2. \A c \in ChatIds : ChatSays(c)' /\ Live(c)' = Live(c)
    BY <1>1, <2>1, ChatsKept
  <2>3. RtType' /\ HandlerSays'
    BY <1>1, <2>1 DEF RtInv, RtType, HandlerSays, runVars, pumpVars
  <2>4. ReaderSays'
    <3>1. ReaderSays /\ UNCHANGED readVars /\ sequence' = sequence /\ sequence \in Nat /\ shut' = shut
      BY <1>1, <2>1 DEF RtInv, ReaderSays, pumpVars
    <3>. QED
      BY <3>1, ReaderKept
  <2>5. ASSUME NEW c \in ChatIds
        PROVE  PumpSays(c)'
    BY <1>1, <2>1, <2>2 DEF RtInv, PumpSays, Cancelling, runVars, pumpVars
  <2>. QED
    BY <2>2, <2>3, <2>4, <2>5 DEF RtInv
<1>. QED
  BY <1>1, <1>2, <1>3, <1>4, <1>5, <1>6, <1>7, <1>8, <1>9, <1>10, <1>11 DEF RtNext

(* What a log may say, read off its form.                                   *)
LEMMA LogReads ==
    ASSUME NEW w, NEW log, ToldOf(w, log),
           w \in {"none", "get", "queued", "runner", "settle", "dead"}
    PROVE  \A k \in DOMAIN log :
              /\ w = "get" => log[Len(log)] \in Ends
              /\ log[k] = "started" => IF k = Len(log) THEN w = "runner" ELSE log[k + 1] \in Ends
              /\ log[k] \in Ends => k > 1 /\ log[k - 1] = "started"
              /\ log[k] = "chat_cancelled" => k = Len(log)
<1>1. CASE log = <<>>
  BY <1>1
<1>2. CASE log = <<"queued">> /\ w \in {"queued", "dead"}
  BY <1>2 DEF Ends
<1>3. CASE log = <<"queued", "started">> /\ w = "runner"
  BY <1>3 DEF Ends
<1>4. CASE log \in RunLogs
  <2>1. PICK e \in Ends : log = <<"queued", "started", e>>
    BY <1>4 DEF RunLogs
  <2>2. /\ DOMAIN log = 1..3 /\ Len(log) = 3
        /\ log[1] = "queued" /\ log[2] = "started" /\ log[3] = e
    BY <2>1
  <2>3. e # "started" /\ e # "chat_cancelled" /\ "queued" \notin Ends /\ "started" \notin Ends
    BY DEF Ends
  <2>. QED
    BY <2>2, <2>3
<1>5. CASE w = "dead" /\ \E b \in {<<>>, <<"queued">>} \cup RunLogs : log = Append(b, "chat_cancelled")
  <2>1. PICK b \in {<<>>, <<"queued">>} \cup RunLogs : log = Append(b, "chat_cancelled")
    BY <1>5
  <2>2. b \in Bases
    BY <2>1 DEF Bases
  <2>3. b \in Seq({"queued", "started"} \cup Ends)
    BY <2>2, LogsClose
  <2>4. /\ Len(log) = Len(b) + 1 /\ log[Len(b) + 1] = "chat_cancelled"
        /\ \A i \in 1..Len(b) : log[i] = b[i] /\ b[i] # "chat_cancelled"
    BY <2>1, <2>2, LogsClose
  <2>5. Len(b) \in Nat /\ DOMAIN log = 1..(Len(b) + 1)
    <3>1. log \in Seq({"queued", "started", "chat_cancelled"} \cup Ends)
      BY <2>1, <2>3
    <3>. QED
      BY <2>3, <2>4, <3>1
  <2>6. "chat_cancelled" \notin Ends /\ "queued" \notin Ends /\ "started" \notin Ends
    BY DEF Ends
  <2>7. CASE b = <<>>
    <3>1. Len(b) = 0
      BY <2>7
    <3>. QED
      BY <1>5, <2>4, <2>5, <2>6, <3>1
  <2>8. CASE b = <<"queued">>
    <3>1. Len(b) = 1 /\ b[1] = "queued"
      BY <2>8
    <3>. QED
      BY <1>5, <2>4, <2>5, <2>6, <3>1
  <2>9. CASE b \in RunLogs
    <3>1. PICK e \in Ends : b = <<"queued", "started", e>>
      BY <2>9 DEF RunLogs
    <3>2. Len(b) = 3 /\ b[1] = "queued" /\ b[2] = "started" /\ b[3] = e
      BY <3>1
    <3>3. Len(log) = 4 /\ log[1] = "queued" /\ log[2] = "started" /\ log[3] = e
          /\ log[4] = "chat_cancelled" /\ DOMAIN log = 1..4
      BY <2>4, <2>5, <3>2
    <3>4. e \in Ends /\ e # "started" /\ e # "chat_cancelled"
      BY <2>6
    <3>. QED
      BY <1>5, <2>6, <3>3, <3>4
  <2>. QED
    BY <2>1, <2>7, <2>8, <2>9
<1>. QED
  BY <1>1, <1>2, <1>3, <1>4, <1>5 DEF ToldOf

(* The invariant implies the properties.                                    *)
LEMMA RtInvSound == RtInv => ChatsSound
<1>1. SUFFICES ASSUME RtInv
               PROVE  ChatsSound
  OBVIOUS
<1>2. EveryRunEndsOnce
  <2>1. ASSUME NEW c \in ChatIds
        PROVE  ToldOf(worker[c], lifecycle[c])
               /\ worker[c] \in {"none", "get", "queued", "runner", "settle", "dead"}
    BY <1>1 DEF RtInv, RtType, ChatSays
  <2>. QED
    BY <2>1, LogReads DEF EveryRunEndsOnce
<1>3. NoStrayChildren
  BY <1>1 DEF RtInv, RtType, ChatSays, PumpSays, NoStrayChildren
<1>4. OpenIsServed
  <2>1. ASSUME NEW c \in Chats
        PROVE  /\ chatStatus[c] # "cancelled" => /\ worker[c] # "dead" \/ c \in deserted
                                                 /\ (chatStatus[c] = "running") = (active[c] # 0)
               /\ lifecycle[c] # <<>> /\ lifecycle[c][Len(lifecycle[c])] = "chat_cancelled" =>
                     /\ worker[c] = "dead" /\ inbox[c] = 0 /\ (active[c] = 0 \/ c \in torn)
    <3>1. c \in ChatIds /\ chatStatus[c] # "none" /\ ChatSays(c) /\ PumpSays(c) /\ RtType
      BY <1>1 DEF Chats, RtInv
    <3>2. ASSUME lifecycle[c] # <<>>, lifecycle[c][Len(lifecycle[c])] = "chat_cancelled"
          PROVE  lifecycle[c] \notin Bases
      <4>1. ASSUME lifecycle[c] \in Bases
            PROVE  FALSE
        <5>1. PICK b \in Bases : b = lifecycle[c]
          BY <4>1
        <5>2. b \in Seq({"queued", "started"} \cup Ends)
              /\ \A i \in 1..Len(b) : b[i] # "chat_cancelled"
          BY <5>1, LogsClose
        <5>3. Len(b) \in 1..Len(b)
          BY <3>2, <5>1, <5>2, EmptySeq
        <5>. QED
          BY <3>2, <5>1, <5>2, <5>3
      <4>. QED
        BY <4>1
    <3>. QED
      BY <3>1, <3>2 DEF RtType, ChatSays, PumpSays, Working
  <2>. QED
    BY <2>1 DEF OpenIsServed
<1>5. QuietWhileSwitching
  BY <1>1 DEF RtInv, ChatSays, PumpSays, QuietWhileSwitching, Working
<1>6. ReaderToldAll
  BY <1>1 DEF RtInv, ReaderSays, ReaderToldAll
<1>. QED
  BY <1>2, <1>3, <1>4, <1>5, <1>6 DEF ChatsSound

(* However messages, timeouts, cancellations, lost children, revocations,    *)
(* model changes, close and readers meet (conversations.py), for any number  *)
(* of chats and any limits: a run ends with one event of its own, no child   *)
(* outlives its run or a revocation, and a reader is told of every event.    *)
THEOREM ChatsSoundHolds == RtSpec => []ChatsSound
  BY RtInitially, RtStep, RtInvSound, PTL DEF RtSpec
================================================================================
