-------------------------- MODULE SchedulesProofs --------------------------
(***************************************************************************)
(* Theorems about Schedules, for any schedules, period, lease, limit and   *)
(* number of crashes, errors and commands.                                 *)
(***************************************************************************)
EXTENDS Schedules, TLAPS

\* The remainder that Recurrence.next_after adds stays within one period.
LEMMA PeriodRemainder ==
    ASSUME NEW x \in Int
    PROVE  x % Period \in 0 .. (Period - 1)
    BY ScheduleAssumption

\* attach_run's next instant lies within one period after the claim, so it is
\* no farther overdue than the claim is old.
LEMMA NextAfterBound ==
    ASSUME NEW s \in Schedules, age[s] \in 0 .. MaxAge, due[s] \in Int
    PROVE  NextAfter(s) \in (-MaxLate .. Period) \cup {None}
    <1> DEFINE first == 1 - age[s]
    <1>1. first \in Int /\ 1 - MaxAge <= first /\ first <= 1
        BY ScheduleAssumption
    <1>2. (due[s] - first) % Period \in 0 .. (Period - 1)
        BY <1>1, PeriodRemainder
    <1> HIDE DEF first
    <1>3. first + ((due[s] - first) % Period) \in -MaxLate .. Period
        BY <1>1, <1>2, ScheduleAssumption
    <1> QED BY <1>3 DEF NextAfter, first

\* The first state of the service is well typed.
LEMMA TypeInit == Init => TypeOK
    BY ScheduleAssumption DEF Init, TypeOK, Distances, RunStates

\* Every step keeps the types.
LEMMA TypeNext == TypeOK /\ [Next]_vars => TypeOK'
    <1> SUFFICES ASSUME TypeOK, [Next]_vars PROVE TypeOK'
        OBVIOUS
    <1> USE ScheduleAssumption DEF table, runs, tick
    <1>1. ASSUME NEW s \in Schedules, Create(s) PROVE TypeOK'
        <2>1. PICK d \in 0 .. (Period - 1) \cup {None} : due' = [due EXCEPT ![s] = d]
            BY <1>1 DEF Create
        <2>2. d \in (-MaxLate .. Period) \cup {None}
            BY <2>1
        <2>3. due' \in Distances
            BY <2>1, <2>2 DEF TypeOK, Distances
        <2>4. \A t \in Schedules : age'[t] # None => due'[t] # None /\ status'[t] # "absent"
            BY <1>1, <2>1 DEF Create, TypeOK, Distances
        <2> QED BY <1>1, <2>3, <2>4 DEF Create, TypeOK
    <1>2. ASSUME NEW s \in Schedules, SetStatus(s) PROVE TypeOK'
        BY <1>2 DEF SetStatus, TypeOK
    <1>3. ASSUME NEW s \in Schedules, TickRaises(s) PROVE TypeOK'
        BY <1>3 DEF TickRaises, TypeOK
    <1>4. ASSUME NEW s \in Schedules, StartRefused(s) PROVE TypeOK'
        BY <1>4 DEF StartRefused, Decide, NextClaim, TypeOK
    <1>5. ASSUME NEW s \in Schedules, StartConflicts(s) PROVE TypeOK'
        BY <1>5 DEF StartConflicts, Decide, NextClaim, TypeOK
    <1>6. ASSUME NEW s \in Schedules, StartInserts(s) PROVE TypeOK'
        BY <1>6 DEF StartInserts, NextClaim, TypeOK, RunStates
    <1>7. ASSUME NEW s \in Schedules, RunNow(s) PROVE TypeOK'
        BY <1>7 DEF RunNow, TypeOK, RunStates
    <1>8. ASSUME NEW s \in Schedules, RunMoves(s) PROVE TypeOK'
        BY <1>8 DEF RunMoves, TypeOK, RunStates
    <1>9. CASE ClaimDue
        <2>1. PICK page \in SUBSET Schedules :
                /\ IsPage(page)
                /\ pending' = {s \in page : Claimable(s)}
                /\ age' = [s \in Schedules |-> IF s \in pending' THEN 0 ELSE age[s]]
            BY <1>9 DEF ClaimDue
        <2>2. \A s \in pending' : s \in Schedules /\ due[s] # None /\ status[s] = "active"
            BY <2>1 DEF IsPage, Due
        <2>3. age' \in [Schedules -> (0 .. MaxAge) \cup {None}]
            BY <2>1 DEF TypeOK
        <2>4. \A s \in Schedules : age'[s] # None => due'[s] # None /\ status'[s] # "absent"
            BY <1>9, <2>1, <2>2 DEF ClaimDue, TypeOK
        <2>5. pending' \subseteq {s \in Schedules : age'[s] # None}
            BY <2>1, <2>2
        <2> QED BY <1>9, <2>3, <2>4, <2>5 DEF ClaimDue, TypeOK
    <1>10. CASE StartReturns
        BY <1>10 DEF StartReturns, TypeOK
    <1>11. CASE StartFails
        BY <1>11 DEF StartFails, TypeOK, RunStates
    <1>12. CASE Attach
        <2>1. /\ serving \in Schedules \ pending
              /\ age[serving] \in 0 .. MaxAge
              /\ due[serving] \in Int
            BY <1>12 DEF Attach, TypeOK, Distances
        <2>2. NextAfter(serving) \in (-MaxLate .. Period) \cup {None}
            BY <2>1, NextAfterBound
        <2>3. due' \in Distances
            BY <1>12, <2>1, <2>2 DEF Attach, TypeOK, Distances
        <2>4. /\ age' \in [Schedules -> (0 .. MaxAge) \cup {None}]
              /\ own' \in [Schedules -> RunStates]
              /\ executed' \in [Schedules -> Nat]
            BY <1>12, <2>1 DEF Attach, TypeOK, RunStates
        <2>5. other' \in [Schedules -> RunStates]
            BY <1>12, <2>1 DEF Attach, TypeOK, RunStates
        <2>6. \A s \in Schedules : age'[s] # None => due'[s] # None /\ status'[s] # "absent"
            BY <1>12, <2>1 DEF Attach, TypeOK, Distances
        <2>7. pending' \subseteq {s \in Schedules : age'[s] # None}
            BY <1>12, <2>1 DEF Attach, TypeOK
        <2> QED BY <1>12, <2>3, <2>4, <2>5, <2>6, <2>7 DEF Attach, TypeOK
    <1>13. CASE ClockTicks
        <2>1. PICK moved \in SUBSET Schedules : InOrder(moved) /\ due' = Later(moved)
            BY <1>13 DEF ClockTicks
        <2>2. due' \in Distances
            BY <2>1 DEF InOrder
        <2>3. \A s \in Schedules : Older(age[s]) \in (0 .. MaxAge) \cup {None}
            BY DEF Older, TypeOK
        <2>4. \A s \in Schedules : Older(age[s]) = None <=> age[s] = None
            BY DEF Older, TypeOK
        <2>5. /\ age' \in [Schedules -> (0 .. MaxAge) \cup {None}]
              /\ \A s \in Schedules : age'[s] = None <=> age[s] = None
            BY <1>13, <2>3, <2>4 DEF ClockTicks
        <2>6. \A s \in Schedules : due[s] # None => due'[s] # None
            BY <2>1 DEF Later, TypeOK, Distances
        <2>7. UNCHANGED <<status, runs, tick, up, commands, faults>>
            BY <1>13 DEF ClockTicks
        <2> QED BY <2>2, <2>5, <2>6, <2>7 DEF TypeOK
    <1>14. CASE Crash
        <2>1. up' \in BOOLEAN
            BY <1>14 DEF Crash
        <2>4. commands' \in Nat /\ faults' \in Nat
            BY <1>14 DEF Crash, TypeOK
        <2>2. pending' = {} /\ serving' = None /\ pc' = "idle" /\ verdict' = "skipped"
            BY <1>14 DEF Crash
        <2>3. UNCHANGED <<status, due, age, own, other, executed>>
            BY <1>14 DEF Crash
        <2> QED BY <2>1, <2>2, <2>3, <2>4 DEF TypeOK
    <1>15. CASE Restart
        <2>1. \A run \in RunStates : Recovered(run) \in RunStates
            BY DEF Recovered, RunStates
        <2> QED BY <1>15, <2>1 DEF Restart, TypeOK
    <1>16. CASE UNCHANGED vars
        BY <1>16 DEF vars, TypeOK
    <1> QED
        BY <1>1, <1>2, <1>3, <1>4, <1>5, <1>6, <1>7, <1>8, <1>9, <1>10, <1>11,
           <1>12, <1>13, <1>14, <1>15, <1>16
        DEF Next

\* Every transaction of the schedule store, every step of a tick, the clock and
\* a restart keep the tables well typed; tick works on claims only, and
\* attach_run finds the occurrence it decides claimed.
THEOREM TypeCorrect == Spec => []TypeOK
    BY TypeInit, TypeNext, PTL DEF Spec

----------------------------------------------------------------------------
(* One run for each occurrence, and no two at once. *)

\* An occurrence without a run has been given none, and one that tick has
\* claimed and not yet served has no run that is executing.
RunsInv ==
    /\ NoOverlap
    /\ \A s \in Schedules :
          executed[s] <= 1 /\ (own[s] = "none" => executed[s] = 0)
    /\ \A s \in pending : own[s] # "executing"

\* The actions of the API, of tick and of the clock that change no run leave
\* the invariant alone when they take no claim on.
LEMMA RunsUntouched ==
    ASSUME RunsInv, UNCHANGED runs, pending' \subseteq pending
    PROVE  RunsInv'
    BY DEF RunsInv, NoOverlap, runs

\* Every step keeps what is known of runs and occurrences.
LEMMA RunsNext == TypeOK /\ TypeOK' /\ RunsInv /\ [Next]_vars => RunsInv'
    <1> SUFFICES ASSUME TypeOK, TypeOK', RunsInv, [Next]_vars PROVE RunsInv'
        OBVIOUS
    <1>1. ASSUME NEW s \in Schedules, StartInserts(s) PROVE RunsInv'
        <2>1. own[s] = "none" /\ other[s] \notin {"executing", "waiting"}
            BY <1>1 DEF StartInserts, HasKey, ActiveRun, TypeOK, RunStates
        <2>2. /\ own' = [own EXCEPT ![s] = "executing"]
              /\ executed' = [executed EXCEPT ![s] = @ + 1]
              /\ other' = other
              /\ pending' = pending \ {s}
            BY <1>1 DEF StartInserts
        <2> QED BY <2>1, <2>2 DEF RunsInv, NoOverlap, TypeOK
    <1>2. ASSUME NEW s \in Schedules, RunNow(s) PROVE RunsInv'
        <2>1. own[s] \notin {"executing", "waiting"}
            BY <1>2 DEF RunNow, ActiveRun, TypeOK
        <2>2. other' = [other EXCEPT ![s] = "executing"] /\ UNCHANGED <<own, executed, pending>>
            BY <1>2 DEF RunNow, tick
        <2> QED BY <2>1, <2>2 DEF RunsInv, NoOverlap, TypeOK
    <1>3. ASSUME NEW s \in Schedules, RunMoves(s) PROVE RunsInv'
        <2>1. UNCHANGED <<executed, pending>>
            BY <1>3 DEF RunMoves, tick
        <2>2. CASE own[s] \in {"executing", "waiting"} /\ other' = other
            <3>1. PICK new \in {"waiting", "ended"} :
                    own' = own \/ own' = [own EXCEPT ![s] = new]
                BY <1>3, <2>2 DEF RunMoves
            <3> QED BY <2>1, <2>2, <3>1 DEF RunsInv, NoOverlap, TypeOK
        <2>3. CASE other[s] \in {"executing", "waiting"} /\ own' = own
            <3>1. PICK new \in {"waiting", "ended"} :
                    other' = other \/ other' = [other EXCEPT ![s] = new]
                BY <1>3, <2>3 DEF RunMoves
            <3> QED BY <2>1, <2>3, <3>1 DEF RunsInv, NoOverlap, TypeOK
        <2> QED BY <1>3, <2>2, <2>3 DEF RunMoves
    <1>4. CASE ClaimDue
        <2>1. \A s \in pending' : s \in Schedules /\ own[s] # "executing"
            BY <1>4 DEF ClaimDue, IsPage, Due, ActiveRun
        <2> QED BY <1>4, <2>1 DEF ClaimDue, RunsInv, NoOverlap, runs
    <1>5. CASE StartFails
        <2>1. own' = [own EXCEPT ![serving] = "ended"] /\ UNCHANGED <<other, executed, pending>>
            BY <1>5 DEF StartFails
        <2> QED BY <2>1 DEF RunsInv, NoOverlap, TypeOK
    <1>6. CASE Attach
        <2>1. serving \in Schedules
            BY <1>6 DEF Attach, TypeOK
        <2>2. /\ own' = [own EXCEPT ![serving] = "none"]
              /\ executed' = [executed EXCEPT ![serving] = 0]
              /\ other' = other \/ other' = [other EXCEPT ![serving] = own[serving]]
              /\ pending' = pending
            BY <1>6 DEF Attach
        <2> QED BY <2>1, <2>2 DEF RunsInv, NoOverlap, TypeOK
    <1>7. CASE Restart
        <2>1. /\ \A s \in Schedules : own'[s] = "none" <=> own[s] = "none"
              /\ \A s \in Schedules : own'[s] # "executing"
              /\ \A s \in Schedules : own'[s] = "waiting" => own[s] = "waiting"
              /\ \A s \in Schedules : other'[s] \in {"executing", "waiting"}
                                        => other[s] \in {"executing", "waiting"}
            BY <1>7 DEF Restart, Recovered
        <2>2. UNCHANGED <<executed, pending>>
            BY <1>7 DEF Restart, tick
        <2> QED BY <2>1, <2>2 DEF RunsInv, NoOverlap, TypeOK
    <1>8. CASE UNCHANGED runs /\ pending' \subseteq pending
        BY <1>8, RunsUntouched
    <1>9. ASSUME NEW s \in Schedules,
                 Create(s) \/ SetStatus(s) \/ TickRaises(s) \/ StartRefused(s)
                           \/ StartConflicts(s)
          PROVE  UNCHANGED runs /\ pending' \subseteq pending
        <2>1. CASE Create(s) \/ SetStatus(s)
            BY <2>1 DEF Create, SetStatus, tick
        <2>2. CASE TickRaises(s)
            BY <2>2 DEF TickRaises
        <2>3. CASE StartRefused(s)
            BY <2>3 DEF StartRefused, Decide
        <2>4. CASE StartConflicts(s)
            BY <2>4 DEF StartConflicts, Decide
        <2> QED BY <1>9, <2>1, <2>2, <2>3, <2>4
    <1>10. ASSUME StartReturns \/ ClockTicks \/ Crash \/ UNCHANGED vars
           PROVE  UNCHANGED runs /\ pending' \subseteq pending
        <2>1. CASE StartReturns
            BY <2>1 DEF StartReturns
        <2>2. CASE ClockTicks
            BY <2>2 DEF ClockTicks, tick
        <2>3. CASE Crash
            BY <2>3 DEF Crash
        <2>4. CASE UNCHANGED vars
            BY <2>4 DEF vars, tick
        <2> QED BY <1>10, <2>1, <2>2, <2>3, <2>4
    <1> QED
        BY <1>1, <1>2, <1>3, <1>4, <1>5, <1>6, <1>7, <1>8, <1>9, <1>10 DEF Next

\* What is known of runs and occurrences holds in every state.
LEMMA RunsInvariant == Spec => []RunsInv
    <1>1. Init => RunsInv
        BY DEF Init, RunsInv, NoOverlap
    <1> QED BY <1>1, TypeCorrect, RunsNext, PTL DEF Spec

\* For any number of schedules, crashes, raised ticks and expired claims, no
\* occurrence is given a second run: the unique occurrence key carries it.
THEOREM OneRunPerOccurrenceHolds == Spec => []OneRunPerOccurrence
    <1>1. RunsInv => OneRunPerOccurrence
        BY DEF RunsInv, OneRunPerOccurrence
    <1> QED BY <1>1, RunsInvariant, PTL

\* For any order of ticks, calls of run_now, reviews and crashes, a schedule
\* never has two unfinished runs.
THEOREM NoOverlapHolds == Spec => []NoOverlap
    <1>1. RunsInv => NoOverlap
        BY DEF RunsInv
    <1> QED BY <1>1, RunsInvariant, PTL

----------------------------------------------------------------------------
(* The record of a decision is true. *)

LEMMA VerdictNext ==
    TypeOK /\ TypeOK' /\ RunsInv /\ VerdictIsTrue /\ [Next]_vars => VerdictIsTrue'
    <1> SUFFICES ASSUME TypeOK, TypeOK', RunsInv, VerdictIsTrue, [Next]_vars,
                        pc' = "attaching"
                 PROVE  /\ verdict' = "started" => own'[serving'] # "none"
                        /\ verdict' = "skipped" => own'[serving'] # "executing"
        BY DEF VerdictIsTrue
    <1> USE DEF runs, tick
    <1>1. ASSUME NEW s \in Schedules, StartRefused(s)
          PROVE  verdict' = "skipped" /\ own'[serving'] # "executing"
        BY <1>1 DEF StartRefused, Decide, NextClaim, RunsInv
    <1>2. ASSUME NEW s \in Schedules, StartConflicts(s)
          PROVE  /\ verdict' = "started" => own'[serving'] # "none"
                 /\ verdict' = "skipped" => own'[serving'] # "executing"
        BY <1>2 DEF StartConflicts, Decide, HasKey
    <1>3. CASE StartReturns
        BY <1>3 DEF StartReturns
    <1>4. CASE StartFails
        BY <1>4 DEF StartFails, TypeOK
    <1>5. ASSUME NEW s \in Schedules, RunMoves(s)
          PROVE  /\ UNCHANGED tick
                 /\ own[serving] # "none" => own'[serving] # "none"
                 /\ own'[serving] = "executing" => own[serving] = "executing"
        BY <1>5 DEF RunMoves, TypeOK, RunStates
    <1>6. ASSUME NEW s \in Schedules,
                 Create(s) \/ SetStatus(s) \/ RunNow(s)
          PROVE  UNCHANGED <<tick, own>>
        BY <1>6 DEF Create, SetStatus, RunNow
    <1>7. ASSUME NEW s \in Schedules, TickRaises(s) \/ StartInserts(s) PROVE FALSE
        BY <1>7 DEF TickRaises, StartInserts
    <1>8. ASSUME ClaimDue \/ Attach \/ Crash PROVE FALSE
        BY <1>8 DEF ClaimDue, Attach, Crash
    <1>9. ASSUME ClockTicks \/ UNCHANGED vars PROVE UNCHANGED <<tick, own>>
        BY <1>9 DEF ClockTicks, vars
    <1>10. CASE Restart
        <2>1. serving \in Schedules
            BY <1>10 DEF Restart, TypeOK
        <2>2. UNCHANGED tick /\ own'[serving] = Recovered(own[serving])
            BY <1>10, <2>1 DEF Restart
        <2> QED BY <2>2 DEF Recovered, VerdictIsTrue
    <1>11. CASE UNCHANGED <<tick, own>>
        BY <1>11 DEF VerdictIsTrue
    <1>12. ASSUME NEW s \in Schedules, RunMoves(s)
           PROVE  /\ verdict' = "started" => own'[serving'] # "none"
                  /\ verdict' = "skipped" => own'[serving'] # "executing"
        BY <1>5, <1>12 DEF VerdictIsTrue
    <1> QED
        BY <1>1, <1>2, <1>3, <1>4, <1>6, <1>7, <1>8, <1>9, <1>10, <1>11, <1>12 DEF Next

\* Whatever a cancel, a failing provider, run_now or a crash does between the
\* claim and attach_run: an occurrence recorded as started has its run, and one
\* recorded as skipped leaves no run executing.
THEOREM VerdictIsTrueHolds == Spec => []VerdictIsTrue
    <1>1. Init => VerdictIsTrue
        BY DEF Init, VerdictIsTrue
    <1> QED BY <1>1, TypeCorrect, RunsInvariant, VerdictNext, PTL DEF Spec
=============================================================================
