------------------------------ MODULE ChatRuntime ------------------------------
(* conversations.py: the chats of the terminal (tui.py), each with a worker  *)
(* that takes its messages one at a time, runs the agent (chat_agent.py,     *)
(* interactive.py) under a bound on concurrent runs, and the children a run  *)
(* may spawn.  Everything runs on one event loop: a step goes from one       *)
(* suspension to the next.  The locks and conditions of the runtime are      *)
(* never held across a suspension, so publishing an event does not suspend.  *)
(* External: the terminal's message pump, which runs one handler at a time,  *)
(* and the provider, which answers, fails or is stopped in its own time.     *)
EXTENDS Integers, Sequences, FiniteSets

CONSTANTS
    ChatIds,        \* chats there may be
    MaxRunsPerChat, MaxQueuedMessages, MaxConcurrentRuns,       \* ConversationLimits
    EventHistory,   \* limits.event_history_limit
    MaxSubagents,   \* of the window: at most so many per run, and so many at once
    MaxGrants,      \* bound on the grants of delegation
    NoChat

ASSUME ChatBounds ==
    /\ {MaxRunsPerChat, MaxQueuedMessages, MaxConcurrentRuns, EventHistory, MaxSubagents} \subseteq Nat \ {0}
    /\ MaxGrants \in Nat /\ NoChat \notin ChatIds

VARIABLES
    chatStatus,   \* ConversationStatus, or "none"
    worker,       \* where _chat_worker waits: "get", "queued", "runner", "settle"; or "dead"
    dies,         \* the worker settles on its way out
    active,       \* active_run_id and scope: the number of the run, or 0
    inbox,        \* messages queued
    submitted,    \* submitted_runs
    children,     \* scope.tasks of the run: sequence of states
    leaving,      \* the cancellation on its way through the worker: "no", "timeout", "cancel"
    lifecycle,    \* events about the chat's last run, and its cancellation
    delegation,   \* subagents.enabled
    grantsMade,   \* times it was granted; a window may open with one grant
    handler,      \* what the pump is running: "idle", "cancel", "revoke", "switch", "close"
    todo, at,     \* chats the handler has still to visit, and the one it awaits
    shut,         \* _closed
    followed,     \* a reader of events() is modelled, of one chat without delegation
    sequence,     \* _event_sequence
    reader,       \* of events(): cursor, numbers of the batch still to yield, and whether it ended
    toldTo,       \* ghost: the reader has seen, or a gap marker has named, all up to here
    missed,       \* ghost: it was given an event out of order
    torn,         \* ghost: chats cancelled while their run waited for its children
    deserted      \* ghost: open chats whose worker left with a child's cancellation

runVars == <<chatStatus, worker, dies, active, children, leaving, lifecycle, torn, deserted>>
pumpVars == <<delegation, grantsMade, handler, todo, at, shut>>
readVars == <<followed, reader, toldTo, missed>>
rtVars == <<runVars, inbox, submitted, pumpVars, sequence, readVars>>

RtInit ==
    /\ chatStatus = [c \in ChatIds |-> "none"] /\ worker = [c \in ChatIds |-> "none"]
    /\ dies = [c \in ChatIds |-> FALSE] /\ active = [c \in ChatIds |-> 0]
    /\ inbox = [c \in ChatIds |-> 0] /\ submitted = [c \in ChatIds |-> 0]
    /\ children = [c \in ChatIds |-> <<>>] /\ leaving = [c \in ChatIds |-> "no"]
    /\ lifecycle = [c \in ChatIds |-> <<>>]
    /\ handler = "idle" /\ todo = {} /\ at = NoChat /\ shut = FALSE
    /\ followed \in BOOLEAN /\ sequence = 0
    /\ delegation = FALSE /\ grantsMade = IF followed THEN MaxGrants ELSE 0
    /\ reader = [cursor |-> 0, batch |-> <<>>, ended |-> FALSE]
    /\ toldTo = 0 /\ missed = FALSE /\ torn = {} /\ deserted = {}

(* _publish: the event gets the next number, and the deque drops its oldest. *)
(* The events an agent emits itself are numbered alike and left out.         *)
Announce(n) == sequence' = IF followed THEN sequence + n ELSE sequence
Oldest == IF sequence > EventHistory THEN sequence - EventHistory + 1 ELSE 1

Note(c, e) == lifecycle' = [lifecycle EXCEPT ![c] = Append(@, e)]
Ends == {"completed", "failed", "timed_out", "cancelled"}

-----------------------------------------------------------------------------
(* Children.  Cancelling one that waits for its permit drops it unstarted.  *)
LiveStates == {"waiting", "dropped", "running", "stopping"}
Live(c) == {i \in DOMAIN children[c] : children[c][i] \in LiveStates}
CancelTasks(kids) ==
    [i \in DOMAIN kids |-> CASE kids[i] = "waiting" -> "dropped"
                             [] kids[i] = "running" -> "stopping"
                             [] OTHER -> kids[i]]
ChildTo(c, i, s) == children' = [children EXCEPT ![c][i] = s]
Holders == {p \in ChatIds \X (1..MaxSubagents) :
               p[2] \in Live(p[1]) /\ children[p[1]][p[2]] \in {"running", "stopping"}}
Permits == MaxSubagents - Cardinality(Holders)

(* _spawn_subagent: a refusal raises, and the agent goes on without it.     *)
SpawnSubagent(c) ==
    /\ worker[c] = "runner" /\ leaving[c] = "no" /\ delegation
    /\ Len(children[c]) < MaxSubagents
    /\ children' = [children EXCEPT ![c] = Append(@, "waiting")]
    /\ UNCHANGED <<chatStatus, worker, dies, active, leaving, lifecycle, torn, deserted, inbox,
                   submitted, pumpVars, sequence, readVars>>

(* _perform_subagent *)
SubagentStarts(c, i) ==
    /\ children[c][i] = "waiting" /\ Permits > 0
    /\ ChildTo(c, i, "running") /\ Announce(1)
    /\ UNCHANGED <<chatStatus, worker, dies, active, leaving, lifecycle, torn, deserted, inbox,
                   submitted, pumpVars, readVars>>

SubagentEnds(c, i) ==
    /\ children[c][i] = "running"
    /\ ChildTo(c, i, "done") /\ Announce(1)
    /\ UNCHANGED <<chatStatus, worker, dies, active, leaving, lifecycle, torn, deserted, inbox,
                   submitted, pumpVars, readVars>>

SubagentStopped(c, i) ==
    /\ \/ children[c][i] = "stopping" /\ Announce(1)
       \/ children[c][i] = "dropped" /\ UNCHANGED sequence
    /\ ChildTo(c, i, "cancelled")
    /\ UNCHANGED <<chatStatus, worker, dies, active, leaving, lifecycle, torn, deserted, inbox,
                   submitted, pumpVars, readVars>>
-----------------------------------------------------------------------------
(* The worker of a chat.                                                    *)
Slots == MaxConcurrentRuns - Cardinality({c \in ChatIds : worker[c] = "runner"})
Waiting == {c \in ChatIds : worker[c] = "queued"}

(* inbox.get and _execute_message up to the runner, or to the semaphore.    *)
TakeMessage(c) ==
    /\ worker[c] = "get" /\ leaving[c] = "no" /\ inbox[c] > 0
    /\ inbox' = [inbox EXCEPT ![c] = @ - 1]
    /\ active' = [active EXCEPT ![c] = submitted[c] - inbox[c] + 1]
    /\ chatStatus' = [chatStatus EXCEPT ![c] = "running"]
    /\ IF Slots > 0 /\ Waiting = {}
       THEN /\ worker' = [worker EXCEPT ![c] = "runner"] /\ Announce(2)
            /\ lifecycle' = [lifecycle EXCEPT ![c] = <<"queued", "started">>]
       ELSE /\ worker' = [worker EXCEPT ![c] = "queued"] /\ Announce(1)
            /\ lifecycle' = [lifecycle EXCEPT ![c] = <<"queued">>]
    /\ UNCHANGED <<dies, children, leaving, torn, deserted, submitted, pumpVars, readVars>>

StartQueued(c) ==
    /\ worker[c] = "queued" /\ leaving[c] = "no" /\ Slots > 0
    /\ worker' = [worker EXCEPT ![c] = "runner"] /\ Announce(1) /\ Note(c, "started")
    /\ UNCHANGED <<chatStatus, dies, active, children, leaving, torn, deserted, inbox, submitted,
                   pumpVars, readVars>>

(* The finally clause of _execute_message once the children are gone.       *)
Cleared(c, out) ==
    /\ active' = [active EXCEPT ![c] = 0] /\ children' = [children EXCEPT ![c] = <<>>]
    /\ chatStatus' = [chatStatus EXCEPT ![c] = IF @ = "cancelled" THEN @ ELSE "idle"]
    /\ worker' = [worker EXCEPT ![c] = IF out THEN "dead" ELSE "get"]
    /\ dies' = [dies EXCEPT ![c] = FALSE]
    /\ deserted' = IF out /\ chatStatus[c] # "cancelled" THEN deserted \cup {c} ELSE deserted

\* Mistake: a run does not cancel the children that still work for it.
EndRunLoose(c, e, out) ==
    /\ Note(c, e) /\ leaving' = [leaving EXCEPT ![c] = "no"] /\ UNCHANGED <<torn, children, deserted>>
    /\ active' = [active EXCEPT ![c] = 0] /\ dies' = [dies EXCEPT ![c] = FALSE]
    /\ chatStatus' = [chatStatus EXCEPT ![c] = IF @ = "cancelled" THEN @ ELSE "idle"]
    /\ worker' = [worker EXCEPT ![c] = IF out THEN "dead" ELSE "get"]

(* The runner is left: its last event, then _cancel_scope_tasks.  out: the  *)
(* CancelledError goes on and ends the worker.                              *)
EndRun(c, e, out) ==
    /\ Note(c, e) /\ leaving' = [leaving EXCEPT ![c] = "no"]
    /\ UNCHANGED torn
    /\ IF Live(c) = {}
       THEN Cleared(c, out)
       ELSE /\ children' = [children EXCEPT ![c] = CancelTasks(@)]
            /\ worker' = [worker EXCEPT ![c] = "settle"]
            /\ dies' = [dies EXCEPT ![c] = out]
            /\ UNCHANGED <<active, chatStatus, deserted>>

Settled(c) ==
    /\ worker[c] = "settle" /\ Live(c) = {} /\ UNCHANGED lifecycle
    /\ IF leaving[c] = "cancel"
       THEN /\ worker' = [worker EXCEPT ![c] = "dead"] /\ torn' = torn \cup {c}
            /\ leaving' = [leaving EXCEPT ![c] = "no"]
            /\ UNCHANGED <<chatStatus, dies, active, children, deserted>>
       ELSE Cleared(c, dies[c]) /\ UNCHANGED <<leaving, torn>>
    /\ UNCHANGED <<inbox, submitted, pumpVars, sequence, readVars>>

(* The agent awaits its children: it returns when all of them have, and a   *)
(* failure of its own, a provider's TimeoutError too, may leave some        *)
(* running.                                                                 *)
RunnerReturns(c) ==
    /\ worker[c] = "runner" /\ leaving[c] = "no"
    /\ \A i \in DOMAIN children[c] : children[c][i] = "done"
    /\ EndRun(c, "completed", FALSE) /\ Announce(2)
    /\ UNCHANGED <<inbox, submitted, pumpVars, readVars>>

RunnerFails(c) ==
    /\ worker[c] = "runner" /\ leaving[c] = "no"
    /\ \E e \in {"failed", "timed_out"} : EndRun(c, e, FALSE)
    /\ Announce(1)
    /\ UNCHANGED <<inbox, submitted, pumpVars, readVars>>

(* A cancelled child raises CancelledError in the agent that awaits it;     *)
(* neither the agent nor _execute_message stops it.                         *)
RunnerLosesChild(c) ==
    /\ worker[c] = "runner" /\ leaving[c] = "no"
    /\ \E i \in DOMAIN children[c] : children[c][i] = "cancelled"
    /\ EndRun(c, "cancelled", TRUE) /\ Announce(1)
    /\ UNCHANGED <<inbox, submitted, pumpVars, readVars>>

(* asyncio.timeout and worker.cancel reach the children the agent awaits.   *)
Interrupt(c, how) ==
    /\ leaving' = [leaving EXCEPT ![c] = how]
    /\ children' = IF worker[c] = "runner" THEN [children EXCEPT ![c] = CancelTasks(@)] ELSE children

RunnerTimesOut(c) ==
    /\ worker[c] = "runner" /\ leaving[c] = "no" /\ Interrupt(c, "timeout")
    /\ UNCHANGED <<chatStatus, worker, dies, active, lifecycle, torn, deserted, inbox, submitted,
                   pumpVars, sequence, readVars>>

RunnerUnwinds(c) ==
    /\ worker[c] = "runner" /\ leaving[c] # "no" /\ Live(c) = {}
    /\ IF leaving[c] = "timeout" THEN EndRun(c, "timed_out", FALSE) ELSE EndRun(c, "cancelled", TRUE)
    /\ Announce(1)
    /\ UNCHANGED <<inbox, submitted, pumpVars, readVars>>

(* Cancelled while it waits for a message or for the semaphore.             *)
WaiterUnwinds(c) ==
    /\ worker[c] \in {"get", "queued"} /\ leaving[c] = "cancel"
    /\ Cleared(c, TRUE) /\ leaving' = [leaving EXCEPT ![c] = "no"]
    /\ UNCHANGED <<lifecycle, torn, inbox, submitted, pumpVars, sequence, readVars>>
-----------------------------------------------------------------------------
(* The handlers of the terminal.                                            *)
Chats == {c \in ChatIds : chatStatus[c] # "none"}
MayCreate == Cardinality(Chats) < (IF followed THEN 1 ELSE Cardinality(ChatIds))   \* max_chats

CreateChat(c) ==
    /\ handler = "idle" /\ ~shut /\ chatStatus[c] = "none" /\ MayCreate
    /\ chatStatus' = [chatStatus EXCEPT ![c] = "idle"] /\ worker' = [worker EXCEPT ![c] = "get"]
    /\ Announce(1)
    /\ UNCHANGED <<dies, active, children, leaving, lifecycle, torn, deserted, inbox, submitted,
                   pumpVars, readVars>>

SendMessage(c) ==
    /\ handler = "idle" /\ ~shut /\ chatStatus[c] \notin {"none", "cancelled"}
    /\ submitted[c] < MaxRunsPerChat /\ inbox[c] < MaxQueuedMessages
    /\ inbox' = [inbox EXCEPT ![c] = @ + 1] /\ submitted' = [submitted EXCEPT ![c] = @ + 1]
    /\ Announce(1)
    /\ UNCHANGED <<runVars, pumpVars, readVars>>

(* _cancel_chat up to its await of the worker, and what follows it.         *)
BeginCancel(c) ==
    /\ chatStatus' = [chatStatus EXCEPT ![c] = "cancelled"]
    /\ inbox' = [inbox EXCEPT ![c] = 0]
    /\ IF worker[c] = "dead" THEN UNCHANGED <<leaving, children>> ELSE Interrupt(c, "cancel")
    /\ UNCHANGED <<worker, dies, active, lifecycle, torn, deserted, submitted>>

FinishCancel(c) ==
    /\ worker[c] = "dead" /\ Note(c, "chat_cancelled") /\ Announce(1)
    /\ UNCHANGED <<chatStatus, worker, dies, active, children, leaving, torn, deserted, inbox,
                   submitted>>

CancelChat(c) ==
    /\ handler = "idle" /\ chatStatus[c] \notin {"none", "cancelled"}
    /\ BeginCancel(c) /\ handler' = "cancel" /\ at' = c
    /\ UNCHANGED <<delegation, grantsMade, todo, shut, sequence, readVars>>

CancelReturns ==
    /\ handler = "cancel" /\ FinishCancel(at) /\ handler' = "idle" /\ at' = NoChat
    /\ UNCHANGED <<delegation, grantsMade, todo, shut, readVars>>

(* set_subagents_enabled *)
GrantDelegation ==
    /\ handler = "idle" /\ ~shut /\ ~delegation /\ grantsMade < MaxGrants
    /\ delegation' = TRUE /\ grantsMade' = grantsMade + 1 /\ Announce(1)
    /\ UNCHANGED <<runVars, inbox, submitted, handler, todo, at, shut, readVars>>

RevokeDelegation ==
    /\ handler = "idle" /\ ~shut /\ delegation
    /\ delegation' = FALSE /\ handler' = "revoke" /\ todo' = {c \in ChatIds : active[c] # 0}
    /\ UNCHANGED <<runVars, inbox, submitted, grantsMade, at, shut, sequence, readVars>>

RevokeScope(c) ==
    /\ handler = "revoke" /\ at = NoChat /\ c \in todo
    /\ todo' = todo \ {c} /\ at' = c
    /\ children' = [children EXCEPT ![c] = CancelTasks(@)]
    /\ UNCHANGED <<chatStatus, worker, dies, active, leaving, lifecycle, torn, deserted, inbox,
                   submitted, delegation, grantsMade, handler, shut, sequence, readVars>>

ScopeRevoked ==
    /\ handler = "revoke" /\ at # NoChat /\ Live(at) = {} /\ at' = NoChat
    /\ UNCHANGED <<runVars, inbox, submitted, delegation, grantsMade, handler, todo, shut, sequence, readVars>>

RevokeReturns ==
    /\ handler = "revoke" /\ at = NoChat /\ todo = {} /\ handler' = "idle" /\ Announce(1)
    /\ UNCHANGED <<runVars, inbox, submitted, delegation, grantsMade, todo, at, shut, readVars>>

(* _apply_model_selection, behind _has_active_work.                         *)
SwitchModel ==
    /\ handler = "idle" /\ ~shut
    /\ \A c \in Chats : active[c] = 0 /\ inbox[c] = 0
    /\ handler' = "switch"
    /\ UNCHANGED <<runVars, inbox, submitted, delegation, grantsMade, todo, at, shut, sequence, readVars>>

SwitchReturns ==
    /\ handler = "switch" /\ handler' = "idle"
    /\ UNCHANGED <<runVars, inbox, submitted, delegation, grantsMade, todo, at, shut, sequence, readVars>>

(* close *)
Close ==
    /\ handler = "idle" /\ ~shut /\ handler' = "close" /\ todo' = Chats
    /\ UNCHANGED <<runVars, inbox, submitted, delegation, grantsMade, at, shut, sequence, readVars>>

CloseChat(c) ==
    /\ handler = "close" /\ at = NoChat /\ c \in todo /\ todo' = todo \ {c}
    /\ IF chatStatus[c] = "cancelled"
       THEN UNCHANGED <<runVars, inbox, submitted, at>>
       ELSE BeginCancel(c) /\ at' = c
    /\ UNCHANGED <<delegation, grantsMade, handler, shut, sequence, readVars>>

ChatClosed ==
    /\ handler = "close" /\ at # NoChat /\ FinishCancel(at) /\ at' = NoChat
    /\ UNCHANGED <<delegation, grantsMade, handler, todo, shut, readVars>>

CloseReturns ==
    /\ handler = "close" /\ at = NoChat /\ todo = {}
    /\ handler' = "idle" /\ shut' = TRUE /\ Announce(1)
    /\ UNCHANGED <<runVars, inbox, submitted, delegation, grantsMade, todo, at, readVars>>
-----------------------------------------------------------------------------
(* events(): the reader copies what is retained beyond its cursor, naming   *)
(* what it lost, and yields the copy while the runtime goes on.             *)
ReadBatch ==
    /\ followed /\ ~reader.ended /\ reader.batch = <<>>
    /\ LET from == IF reader.cursor < Oldest - 1 THEN Oldest - 1 ELSE reader.cursor
           got == [k \in 1..(sequence - from) |-> from + k]
       IN /\ got # <<>> \/ shut
          /\ reader' = [cursor |-> from, batch |-> got, ended |-> got = <<>>]
          /\ toldTo' = IF from # reader.cursor THEN from ELSE toldTo
    /\ UNCHANGED <<runVars, inbox, submitted, pumpVars, sequence, followed, missed>>

YieldEvent ==
    /\ reader.batch # <<>>
    /\ LET n == Head(reader.batch)
       IN /\ reader' = [reader EXCEPT !.cursor = IF n > @ THEN n ELSE @, !.batch = Tail(@)]
          /\ toldTo' = n /\ missed' = (missed \/ n # toldTo + 1)
    /\ UNCHANGED <<runVars, inbox, submitted, pumpVars, sequence, followed>>

RtNext ==
    \/ \E c \in ChatIds :
         \/ CreateChat(c) \/ SendMessage(c) \/ CancelChat(c) \/ RevokeScope(c) \/ CloseChat(c)
         \/ TakeMessage(c) \/ StartQueued(c) \/ SpawnSubagent(c)
         \/ RunnerReturns(c) \/ RunnerFails(c) \/ RunnerLosesChild(c) \/ RunnerTimesOut(c)
         \/ RunnerUnwinds(c) \/ WaiterUnwinds(c) \/ Settled(c)
         \/ \E i \in DOMAIN children[c] :
               SubagentStarts(c, i) \/ SubagentEnds(c, i) \/ SubagentStopped(c, i)
    \/ CancelReturns \/ GrantDelegation \/ RevokeDelegation \/ ScopeRevoked \/ RevokeReturns
    \/ SwitchModel \/ SwitchReturns \/ Close \/ ChatClosed \/ CloseReturns
    \/ ReadBatch \/ YieldEvent

RtSpec == RtInit /\ [][RtNext]_rtVars
-----------------------------------------------------------------------------
(* Every run that started ends with one event of its own before anything    *)
(* else is said of the chat, however a timeout, a cancellation and the loss *)
(* of a child meet, and nothing is said after the chat's cancellation.      *)
EveryRunEndsOnce ==
    \A c \in ChatIds : LET log == lifecycle[c] IN \A k \in DOMAIN log :
       /\ worker[c] = "get" => log[Len(log)] \in Ends
       /\ log[k] = "started" => IF k = Len(log) THEN worker[c] = "runner" ELSE log[k + 1] \in Ends
       /\ log[k] \in Ends => k > 1 /\ log[k - 1] = "started"
       /\ log[k] = "chat_cancelled" => k = Len(log)

(* No child outlives its run, and once a revocation has returned none is    *)
(* left in any chat until delegation is granted again.                      *)
NoStrayChildren ==
    /\ \A c \in ChatIds : Live(c) # {} => worker[c] \in {"runner", "settle"}
    /\ ~delegation /\ handler # "revoke" => \A c \in ChatIds : Live(c) = {}

(* A chat that still takes messages has a worker to run them, unless a      *)
(* revocation took it; one whose cancellation was announced has neither     *)
(* worker nor messages, and no run in progress unless it was torn from its  *)
(* clean-up.                                                                *)
OpenIsServed ==
    \A c \in Chats :
       /\ chatStatus[c] # "cancelled" => /\ worker[c] # "dead" \/ c \in deserted
                                         /\ (chatStatus[c] = "running") = (active[c] # 0)
       /\ lifecycle[c] # <<>> /\ lifecycle[c][Len(lifecycle[c])] = "chat_cancelled" =>
             /\ worker[c] = "dead" /\ inbox[c] = 0 /\ (active[c] = 0 \/ c \in torn)

(* No run is queued, runs or cleans up while the model is being replaced.   *)
QuietWhileSwitching ==
    handler = "switch" => \A c \in ChatIds : worker[c] \notin {"queued", "runner", "settle"}

(* A reader of the events is given each one in order or told of the gap,    *)
(* and has been told of all of them when its stream ends.                   *)
ReaderToldAll == ~missed /\ (reader.ended => toldTo = sequence)

ChatsSound ==
    /\ EveryRunEndsOnce /\ NoStrayChildren /\ OpenIsServed /\ QuietWhileSwitching /\ ReaderToldAll
================================================================================
