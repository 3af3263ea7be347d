----------------------------- MODULE Schedules -----------------------------
(***************************************************************************)
(* Repeated runs: ScheduleStore (corvus/mvp/schedules.py), LocalScheduler  *)
(* (corvus/mvp/scheduler.py) and the loop that ticks it (corvus/mvp/api.py) *)
(* over the two unique indexes of mvp_runs that carry the guarantees.      *)
(*                                                                         *)
(* Time is relative: a variable holds the distance from now, and the clock *)
(* moves every distance, so that the model runs for ever in finitely many  *)
(* states.  A recurrence is abstracted to its period.                      *)
(***************************************************************************)
EXTENDS Integers, FiniteSets

CONSTANTS
    Schedules,
    Once,       \* the schedules with recurrence kind "once"
    Broken,     \* their repository cannot be read: refresh raises ValueError
    None,       \* SQL NULL
    Period,     \* the distance between two occurrences
    Lease,      \* _CLAIM_LEASE
    Limit,      \* claim_due's limit
    MaxAge,     \* bound: a tick lasts no longer, and older claims look as old
    MaxLate,    \* bound: overdue by one period more looks the same
    MaxCommands, \* bound: calls of set_status and run_now
    MaxFaults   \* bound: crashes, and refreshes that raise for another schedule than Broken

ASSUME ScheduleAssumption ==
    /\ Once \subseteq Schedules
    /\ Broken \subseteq Schedules
    /\ None \notin Int \cup Schedules
    /\ Period \in Nat \ {0} /\ Lease \in Nat \ {0} /\ Limit \in Nat \ {0}
    /\ MaxAge \in Nat /\ Lease <= MaxAge
    /\ MaxLate \in Nat /\ MaxAge + Period <= MaxLate
    /\ MaxCommands \in Nat /\ MaxFaults \in Nat

VARIABLES
    status,     \* mvp_schedules.status, "absent" before the insert
    due,        \* mvp_schedule_revisions.next_run_at, less now
    age,        \* now less claimed_at of the occurrence at next_run_at, None before the claim
    own,        \* the run that has the key of that occurrence
    other,      \* the last active run of the schedule with another key
    executed,   \* how many runs that occurrence has been given
    pc,         \* where tick is
    serving,    \* the claim tick is working on
    pending,    \* the claims tick has still to work on
    verdict,    \* what attach_run is going to record
    up,         \* the service runs
    commands, faults

table == <<status, due, age>>
runs == <<own, other, executed>>
tick == <<pc, serving, pending, verdict>>
vars == <<table, runs, tick, up, commands, faults>>

\* preparing and running; review_required to publishing; all the others.
RunStates == {"none", "executing", "waiting", "ended"}

Init ==
    /\ status = [s \in Schedules |-> "absent"]
    /\ due = [s \in Schedules |-> None]
    /\ age = [s \in Schedules |-> None]
    /\ own = [s \in Schedules |-> "none"]
    /\ other = [s \in Schedules |-> "none"]
    /\ executed = [s \in Schedules |-> 0]
    /\ pc = "idle" /\ serving = None /\ pending = {} /\ verdict = "skipped"
    /\ up = TRUE
    /\ commands = 0 /\ faults = 0

----------------------------------------------------------------------------
(* Plausible mistakes in the code, for the checks of the properties. *)

\* Runs have no unique occurrence key.
HasKeyNever(s) == FALSE

\* The active index forgets the runs that wait for a person.
ActiveRunExecuting(s) == "executing" \in {own[s], other[s]}

\* A failing start is not recorded on its run.
StartFailsSilently ==
    /\ up /\ pc = "starting"
    /\ pc' = "attaching"
    /\ verdict' = "skipped"
    /\ UNCHANGED <<table, runs, serving, pending, up, commands, faults>>

\* A claim never expires.
ClaimableOnce(s) == age[s] = None

----------------------------------------------------------------------------
(* The indexes of mvp_runs and the recurrence. *)

\* mvp_runs_schedule_active_idx: runs of s that are neither finished nor discarded.
ActiveRun(s) == {own[s], other[s]} \cap {"executing", "waiting"} # {}

\* UNIQUE(schedule_id, occurrence_key): the occurrence already has its run.
HasKey(s) == own[s] # "none"

\* next_after(claimed_at): the first instant of the recurrence after the claim.
NextAfter(s) ==
    IF s \in Once
    THEN None
    ELSE LET first == 1 - age[s] IN first + ((due[s] - first) % Period)

----------------------------------------------------------------------------
(* ScheduleStore, as the API calls it. *)

Create(s) ==
    /\ up /\ status[s] = "absent"
    /\ status' = [status EXCEPT ![s] = "active"]
    /\ \E d \in 0 .. (Period - 1) \cup {n \in {None} : s \in Once} :
          due' = [due EXCEPT ![s] = d]
    /\ UNCHANGED <<age, runs, tick, up, commands, faults>>

SetStatus(s) ==
    /\ up /\ commands < MaxCommands
    /\ status[s] # "absent"
    /\ \E new \in {"active", "paused", "archived"} \ {status[s]} :
          status' = [status EXCEPT ![s] = new]
    /\ commands' = commands + 1
    /\ UNCHANGED <<due, age, runs, tick, up, faults>>

----------------------------------------------------------------------------
(* LocalScheduler.tick. *)

\* The rows claim_due reads: due, active and without an active run.
Due(s) ==
    /\ status[s] = "active"
    /\ due[s] # None
    /\ due[s] <= 0
    /\ ~ActiveRun(s)

\* ORDER BY next_run_at LIMIT limit: any of the earliest rows.
IsPage(page) ==
    /\ page \subseteq {s \in Schedules : Due(s)}
    /\ Cardinality(page) <= Limit
    /\ \A s \in Schedules \ page :
          Due(s) => Cardinality(page) = Limit /\ \A p \in page : due[p] <= due[s]

\* A row is claimed when nobody has claimed it or its claim is as old as the lease.
Claimable(s) == age[s] # None => age[s] >= Lease

ClaimDue ==
    /\ up /\ pc = "idle"
    /\ \E page \in SUBSET Schedules :
          /\ IsPage(page)
          /\ pending' = {s \in page : Claimable(s)}
          /\ pending' # {}
          /\ age' = [s \in Schedules |-> IF s \in pending' THEN 0 ELSE age[s]]
    /\ pc' = "serving"
    /\ UNCHANGED <<status, due, runs, serving, verdict, up, commands, faults>>

\* claim_due answers in the order of next_run_at.
NextClaim(s) == s \in pending /\ \A p \in pending : due[s] <= due[p]

Decide(s, v) ==
    /\ pc' = "attaching"
    /\ serving' = s
    /\ pending' = pending \ {s}
    /\ verdict' = v

\* A refresh that raises ValueError passes every handler of tick, which ends
\* and leaves the claims it has not served; scheduler_loop stores the error.
TickRaises(s) ==
    /\ up /\ pc = "serving" /\ NextClaim(s)
    /\ s \notin Broken => faults < MaxFaults
    /\ faults' = IF s \in Broken THEN faults ELSE faults + 1
    /\ pc' = "idle"
    /\ pending' = {}
    /\ UNCHANGED <<table, runs, serving, verdict, up, commands>>

\* A safety digest, a skill, a missing directory or repository refuses the run.
StartRefused(s) ==
    /\ up /\ pc = "serving" /\ NextClaim(s)
    /\ s \notin Broken
    /\ Decide(s, "skipped")
    /\ UNCHANGED <<table, runs, up, commands, faults>>

\* The insert of the run fails on an index: the run of this occurrence is
\* looked up and attached, and an active run of another one skips it.
StartConflicts(s) ==
    /\ up /\ pc = "serving" /\ NextClaim(s)
    /\ s \notin Broken
    /\ HasKey(s) \/ ActiveRun(s)
    /\ Decide(s, IF HasKey(s) THEN "started" ELSE "skipped")
    /\ UNCHANGED <<table, runs, up, commands, faults>>

\* The run is inserted, and start awaits the worktree and the provider.
StartInserts(s) ==
    /\ up /\ pc = "serving" /\ NextClaim(s)
    /\ s \notin Broken
    /\ ~HasKey(s) /\ ~ActiveRun(s)
    /\ pc' = "starting"
    /\ serving' = s
    /\ pending' = pending \ {s}
    /\ own' = [own EXCEPT ![s] = "executing"]
    /\ executed' = [executed EXCEPT ![s] = @ + 1]
    /\ UNCHANGED <<table, other, verdict, up, commands, faults>>

\* start goes on: running, or not any more because it was cancelled meanwhile.
StartReturns ==
    /\ up /\ pc = "starting"
    /\ pc' = "attaching"
    /\ verdict' = IF own[serving] = "executing" THEN "started" ELSE "skipped"
    /\ UNCHANGED <<table, runs, serving, pending, up, commands, faults>>

\* The worktree or the provider fails: the run is failed, the occurrence skipped.
\* A run that was cancelled meanwhile stays as it is, and is skipped as well.
StartFails ==
    /\ up /\ pc = "starting"
    /\ own' = [own EXCEPT ![serving] = "ended"]
    /\ pc' = "attaching"
    /\ verdict' = "skipped"
    /\ UNCHANGED <<table, other, executed, serving, pending, up, commands, faults>>

\* attach_run records the verdict and moves next_run_at beyond the claim; the
\* next occurrence has no run yet.
Attach ==
    /\ up /\ pc = "attaching"
    /\ due' = [due EXCEPT ![serving] = NextAfter(serving)]
    /\ age' = [age EXCEPT ![serving] = None]
    /\ other' = IF own[serving] \in {"executing", "waiting"}
                THEN [other EXCEPT ![serving] = own[serving]]
                ELSE other
    /\ own' = [own EXCEPT ![serving] = "none"]
    /\ executed' = [executed EXCEPT ![serving] = 0]
    /\ pc' = IF pending = {} THEN "idle" ELSE "serving"
    /\ serving' = None
    /\ verdict' = "skipped"
    /\ UNCHANGED <<status, pending, up, commands, faults>>

----------------------------------------------------------------------------
(* The runs, run_now, the clock and the service. *)

\* The run of this occurrence is being started by tick.
Starting(s) == pc = "starting" /\ serving = s

\* run_now inserts a run with a key of its own; an index refuses it beside an active run.
RunNow(s) ==
    /\ up /\ commands < MaxCommands
    /\ status[s] \in {"active", "paused"}
    /\ ~ActiveRun(s)
    /\ other' = [other EXCEPT ![s] = "executing"]
    /\ commands' = commands + 1
    /\ UNCHANGED <<table, own, executed, tick, up, faults>>

\* A run ends, waits for its review or leaves it (RunLifecycle has the details).
RunMoves(s) ==
    /\ up
    /\ \/ /\ own[s] \in {"executing", "waiting"}
          /\ \E new \in {"waiting", "ended"} \ {own[s]} :
                /\ Starting(s) => new = "ended"
                /\ own' = [own EXCEPT ![s] = new]
          /\ UNCHANGED other
       \/ /\ other[s] \in {"executing", "waiting"}
          /\ \E new \in {"waiting", "ended"} \ {other[s]} :
                other' = [other EXCEPT ![s] = new]
          /\ UNCHANGED own
    /\ UNCHANGED <<table, executed, tick, up, commands, faults>>

Distances == [Schedules -> (-MaxLate .. Period) \cup {None}]

\* The distances one instant later, those of the schedules in moved a period
\* nearer.
Later(moved) ==
    [s \in Schedules |->
        IF due[s] = None THEN None
        ELSE IF s \in moved THEN due[s] - 1 + Period ELSE due[s] - 1]

\* Occurrences overdue beyond the bound are brought nearer, in the same order
\* and before everything that is less overdue.
InOrder(moved) ==
    /\ Later({}) \in Distances => moved = {}
    /\ Later(moved) \in Distances
    /\ \A s \in moved : due[s] # None /\ Later(moved)[s] <= -MaxAge
    /\ \A s, t \in {u \in Schedules : due[u] # None} :
          due[s] <= due[t] <=> Later(moved)[s] <= Later(moved)[t]

Older(a) == IF a = None THEN None ELSE IF a < MaxAge THEN a + 1 ELSE a

ClockTicks ==
    /\ \A s \in pending \cup ({serving} \cap Schedules) : age[s] < MaxAge
    /\ \E moved \in SUBSET Schedules : InOrder(moved) /\ due' = Later(moved)
    /\ age' = [s \in Schedules |-> Older(age[s])]
    /\ UNCHANGED <<status, runs, tick, up, commands, faults>>

\* The process dies: tick and its claims are gone from memory.
Crash ==
    /\ up /\ faults < MaxFaults
    /\ up' = FALSE
    /\ faults' = faults + 1
    /\ pc' = "idle" /\ serving' = None /\ pending' = {} /\ verdict' = "skipped"
    /\ UNCHANGED <<table, runs, commands>>

\* The lifespan's start recovers the runs, then starts scheduler_loop.
Recovered(run) == IF run = "executing" THEN "ended" ELSE run

Restart ==
    /\ ~up
    /\ up' = TRUE
    /\ own' = [s \in Schedules |-> Recovered(own[s])]
    /\ other' = [s \in Schedules |-> Recovered(other[s])]
    /\ UNCHANGED <<table, executed, tick, commands, faults>>

Next ==
    \/ \E s \in Schedules :
          \/ Create(s) \/ SetStatus(s)
          \/ TickRaises(s) \/ StartRefused(s) \/ StartConflicts(s) \/ StartInserts(s)
          \/ RunNow(s) \/ RunMoves(s)
    \/ ClaimDue \/ StartReturns \/ StartFails \/ Attach
    \/ ClockTicks \/ Crash \/ Restart

Spec == Init /\ [][Next]_vars

\* Time passes, scheduler_loop ticks every 15 seconds and goes on within a
\* tick, the provider start returns (it has a timeout), and the desktop shell
\* starts the service again.  Nobody has to end or to review a run.
Serve(s) == TickRaises(s) \/ StartRefused(s) \/ StartConflicts(s) \/ StartInserts(s)

FairSpec ==
    /\ Spec
    /\ WF_vars(ClockTicks)
    /\ WF_vars(ClaimDue)
    /\ WF_vars(\E s \in Schedules : Serve(s))
    /\ WF_vars(StartReturns \/ StartFails)
    /\ WF_vars(Attach)
    /\ WF_vars(Restart)

----------------------------------------------------------------------------
(* Properties. *)

\* Every column and every step of tick holds a value of its kind, and tick
\* only works on claims: attach_run always finds a claimed occurrence.
TypeOK ==
    /\ status \in [Schedules -> {"absent", "active", "paused", "archived"}]
    /\ due \in Distances
    /\ age \in [Schedules -> (0 .. MaxAge) \cup {None}]
    /\ own \in [Schedules -> RunStates]
    /\ other \in [Schedules -> RunStates]
    /\ executed \in [Schedules -> Nat]
    /\ pc \in {"idle", "serving", "starting", "attaching"}
    /\ pc \in {"starting", "attaching"} <=> serving # None
    /\ \A s \in Schedules : age[s] # None => due[s] # None /\ status[s] # "absent"
    /\ pending \subseteq {s \in Schedules : age[s] # None}
    /\ serving # None => serving \in Schedules \ pending /\ age[serving] # None
    /\ verdict \in {"started", "skipped"}
    /\ up \in BOOLEAN
    /\ commands \in Nat /\ faults \in Nat

\* "A database claim with an expiry prevents duplicate execution": however
\* often a crash or an error makes tick claim an occurrence again, it is given
\* one run.
OneRunPerOccurrence == \A s \in Schedules : executed[s] <= 1

\* "Never overlap two occurrences of the same schedule": the run of an
\* occurrence, the run of an earlier one that is still in review and a run
\* started by hand exclude each other, in whatever order tick and run_now
\* come.  (RunCoordinator.retry drops the schedule, so its run is outside.)
NoOverlap ==
    \A s \in Schedules :
        ~(/\ own[s] \in {"executing", "waiting"}
          /\ other[s] \in {"executing", "waiting"})

\* What attach_run records is true: a started occurrence has its run, and a
\* skipped one leaves no run executing that nobody will look for.
VerdictIsTrue ==
    pc = "attaching" =>
        /\ verdict = "started" => own[serving] # "none"
        /\ verdict = "skipped" => own[serving] # "executing"

\* Every due occurrence of an active schedule comes to be decided, unless the
\* schedule is paused or has an unfinished run: neither a crash, a tick that
\* raised, a claim left behind nor the other schedules starve it.
DueIsServed ==
    \A s \in Schedules \ Broken :
        Due(s) ~> (~Due(s) \/ (pc = "attaching" /\ serving = s))
=============================================================================
