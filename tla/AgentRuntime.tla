---- MODULE AgentRuntime ----
(* Governed agent runs: the coordinator authorizes an operation, audits     *)
(* the decision, asks the runtime to act and audits the outcome, with other *)
(* operations in between; the simulated runtime keeps the run of a request  *)
(* and its chain of events.                                                 *)
EXTENDS Naturals, Sequences, FiniteSets, SequencesExt

CONSTANTS
    MaxCalls,        \* bound: start, resume and cancel calls
    Variants,        \* requests with the identity of one run, by their digest
    Proofs,          \* kill-switch proofs a cancel may carry
    Tools,           \* tool calls of a scripted run
    MaxScript,       \* bound: events of the script after the first
    NoTool, NoProof, NoVariant

ASSUME AgentAssumption ==
    /\ MaxCalls \in Nat /\ MaxScript \in Nat
    /\ IsFiniteSet(Tools) /\ NoTool \notin Tools
    /\ NoProof \notin Proofs /\ NoVariant \notin Variants

VARIABLES
    ledger,          \* receipts of the audit sink, in its order
    agentRun,        \* _RunRecord of the run, with its events
    operation,       \* what each call is doing and what it answered
    script,          \* events the provider binding is scripted for, once they matter
    killed           \* the kill switch as the authorizer sees it

Operations == 1..MaxCalls   \* the calls, in the order in which they come

agentVars == <<ledger, agentRun, operation, script, killed>>

Event(type, tool) == [type |-> type, tool |-> tool]
ToolEvents == {"requested", "blocked", "started_tool", "result"}
TerminalState == [completed |-> "completed", failed |-> "failed", cancelled |-> "cancelled"]
ScriptEvents == {Event(type, tool) : type \in ToolEvents, tool \in Tools}
                \cup {Event("started", NoTool), Event("completed", NoTool)}
Scripts == UNION {[1..n -> ScriptEvents] : n \in 0..MaxScript}
Unread == <<Event("unread", NoTool)>>
Rejected == <<Event("rejected", NoTool)>>   \* stands for every script that breaks the contract

NoRun == [state |-> "none", variant |-> NoVariant, events |-> <<>>, proof |-> NoProof]
NotCalled == [pc |-> "idle", kind |-> "none", variant |-> NoVariant, proof |-> NoProof,
              receipt |-> 0, outcome |-> "none", answer |-> "none"]

AgentInit ==
    /\ ledger = <<>>
    /\ agentRun = NoRun
    /\ operation = [o \in Operations |-> NotCalled]
    /\ script = Unread
    /\ killed = FALSE

-----------------------------------------------------------------------------
(* The event chain                                                          *)

Before(events, n, type, tool) == \E i \in 1..(n - 1) : events[i] = Event(type, tool)
Requested(events, n, tool) == Before(events, n, "requested", tool)
Started(events, n, tool) == Before(events, n, "started_tool", tool)
Finished(events, n, tool) == Before(events, n, "blocked", tool) \/ Before(events, n, "result", tool)

\* _validate_tool_transition: what the event of a tool call needs before it.
ToolTransition(events, n) ==
    LET e == events[n] IN
    CASE e.type = "requested"    -> ~Requested(events, n, e.tool)
      [] e.type = "started_tool" -> /\ Requested(events, n, e.tool) /\ ~Finished(events, n, e.tool)
                                    /\ ~Started(events, n, e.tool)
      [] e.type = "blocked"      -> /\ Requested(events, n, e.tool) /\ ~Finished(events, n, e.tool)
                                    /\ ~Started(events, n, e.tool)
      [] e.type = "result"       -> /\ Requested(events, n, e.tool) /\ ~Finished(events, n, e.tool)
                                    /\ Started(events, n, e.tool)
      [] OTHER                   -> TRUE

\* validate_agent_run_event_chain over what is scripted.
ValidChain(events) ==
    /\ events[1].type = "started"
    /\ \A n \in 1..Len(events) :
          /\ n > 1 => events[n].type # "started"
          /\ \A i \in 1..(n - 1) : events[i].type \notin DOMAIN TerminalState
          /\ ToolTransition(events, n)
          /\ events[n].type \in DOMAIN TerminalState =>
                \A tool \in Tools : Requested(events, n, tool) => Finished(events, n, tool)

\* _materialize_events: without a script the run has only started; a script
\* that breaks the contract starts no run.
Materialized(s) == IF s = <<>> THEN <<Event("started", NoTool)>> ELSE s
Accepted == {Materialized(s) : s \in {t \in Scripts : ValidChain(Materialized(t))}}
StateOf(events) ==
    LET last == events[Len(events)].type IN IF last \in DOMAIN TerminalState THEN TerminalState[last] ELSE "running"

OpenTools(events) ==
    {tool \in Tools : LET n == Len(events) + 1 IN Requested(events, n, tool) /\ ~Finished(events, n, tool)}

\* _close_open_tool_calls: a result for a started call, else a block.
CloseOpenTools(events) ==
    LET open == SetToSeq(OpenTools(events))
        closing(tool) == IF Started(events, Len(events) + 1, tool) THEN "result" ELSE "blocked"
    IN events \o [i \in 1..Len(open) |-> Event(closing(open[i]), open[i])]

-----------------------------------------------------------------------------
(* The runtime                                                              *)

\* start of a run that exists: the digest of the request decides.
Replays(variant) == agentRun.variant = variant

StartRun(variant, s) ==
    IF agentRun.state = "none"
    THEN [agentRun EXCEPT !.state = StateOf(s), !.variant = variant, !.events = s]
    ELSE agentRun
StartSucceeds(variant, s) ==
    IF agentRun.state = "none" THEN s # Rejected ELSE Replays(variant)

ResumeSucceeds(variant) == agentRun.state = "running" /\ agentRun.variant = variant

\* cancel: the first result and its proof are kept for every later cancel.
CancelRun(proof) ==
    IF agentRun.proof # NoProof THEN agentRun
    ELSE IF agentRun.state # "running" THEN [agentRun EXCEPT !.proof = proof]
    ELSE [agentRun EXCEPT !.proof = proof, !.state = "cancelled",
                          !.events = Append(CloseOpenTools(agentRun.events), Event("cancelled", NoTool))]
CancelSucceeds(proof) == agentRun.state # "none" /\ agentRun.proof \in {NoProof, proof}

-----------------------------------------------------------------------------
(* The coordinator                                                          *)

Receipt(o, phase, outcome) == [operation |-> o, phase |-> phase, outcome |-> outcome]
Answer(o, answer) == [operation EXCEPT ![o].pc = "answered", ![o].answer = answer]

\* The audit sink records the event and acknowledges it, raises without a
\* record, or records it and fails to acknowledge.
AuditResults == {"acknowledged", "raised", "unacknowledged"}
Recorded(result, receipt) == IF result = "raised" THEN ledger ELSE Append(ledger, receipt)

\* The authorizer decides on the switch as it is now; a cancel is allowed.
Decisions(kind) == IF killed /\ kind # "cancel" THEN {"deny"} ELSE {"allow", "deny"}

\* Bound: a script of more than one event is met by two calls.
Calls == Cardinality({o \in Operations : operation[o].pc # "idle"})
MayCall == Len(script) > 1 => Calls < 2

GateOpens(decision, result) == decision = "allow" /\ result = "acknowledged"

\* _authorization_gate: decision and its receipt, without an await between.
Gate(o, kind, variant, proof) ==
    /\ o = Calls + 1 /\ MayCall
    /\ kind = "cancel" <=> proof # NoProof
    /\ kind = "cancel" <=> variant = NoVariant   \* a cancel is of a handle, whatever the request says
    /\ LET called == [NotCalled EXCEPT !.kind = kind, !.variant = variant, !.proof = proof]
           refused(at) == [called EXCEPT !.pc = "answered", !.answer = "refused", !.receipt = at]
       IN
       \/ operation' = [operation EXCEPT ![o] = refused(0)] /\ UNCHANGED ledger
       \/ \E decision \in Decisions(kind), result \in AuditResults :
             /\ ledger' = Recorded(result, Receipt(o, "authorization", decision))
             /\ operation' = [operation EXCEPT ![o] =
                   IF GateOpens(decision, result)
                   THEN [called EXCEPT !.pc = IF kind = "cancel" THEN "act" ELSE "preflight",
                                       !.receipt = Len(ledger')]
                   ELSE refused(0)]
    /\ UNCHANGED <<agentRun, script, killed>>

\* _provider_preflight: discover, capabilities and health of the binding.
ProviderPreflight(o) ==
    /\ operation[o].pc = "preflight"
    /\ \/ operation' = [operation EXCEPT ![o].pc = "act"]
       \/ operation' = [operation EXCEPT ![o].pc = "record", ![o].outcome = "failure"]
    /\ UNCHANGED <<ledger, agentRun, script, killed>>

Acted(o, kind, succeeds, changed) ==
    /\ operation[o].pc = "act" /\ operation[o].kind = kind
    /\ agentRun' = IF succeeds THEN changed ELSE agentRun
    /\ operation' = [operation EXCEPT ![o].pc = "record",
                                      ![o].outcome = IF succeeds THEN "success" ELSE "failure"]
    /\ UNCHANGED <<ledger, killed>>

Start(o) ==
    \E s \in IF script = Unread THEN Accepted \cup {Rejected} ELSE {script} :
        /\ Len(s) > 1 => Calls <= 2
        /\ script' = s
        /\ Acted(o, "start", StartSucceeds(operation[o].variant, s), StartRun(operation[o].variant, s))
Resume(o) ==
    Acted(o, "resume", ResumeSucceeds(operation[o].variant), agentRun) /\ UNCHANGED script
Cancel(o) ==
    Acted(o, "cancel", CancelSucceeds(operation[o].proof), CancelRun(operation[o].proof)) /\ UNCHANGED script

\* Mistake: an outcome that could not be recorded is reported as recorded.
AcknowledgedAnyway(o, result) == TRUE

\* _receipt_acknowledges_event: and the receipt follows the authorization's.
Acknowledged(o, result) == result = "acknowledged" /\ Len(ledger) = operation[o].receipt

RecordOutcome(o) ==
    /\ operation[o].pc = "record"
    /\ \E result \in AuditResults :
          /\ ledger' = Recorded(result, Receipt(o, "outcome", operation[o].outcome))
          /\ operation' = Answer(o, IF Acknowledged(o, result) THEN operation[o].outcome ELSE "pending")
    /\ UNCHANGED <<agentRun, script, killed>>

\* The task of the call is cancelled at an await.
Abandon(o) ==
    /\ operation[o].pc \in {"preflight", "act", "record"}
    /\ operation' = Answer(o, "none")
    /\ UNCHANGED <<ledger, agentRun, script, killed>>

ToggleKillSwitch ==
    /\ ~killed /\ killed' = TRUE
    /\ UNCHANGED <<ledger, agentRun, operation, script>>

AgentNext ==
    \/ \E o \in Operations, variant \in Variants \cup {NoVariant}, proof \in Proofs \cup {NoProof},
          kind \in {"start", "resume", "cancel"} : Gate(o, kind, variant, proof)
    \/ \E o \in Operations : ProviderPreflight(o) \/ Start(o) \/ Resume(o) \/ Cancel(o) \/ RecordOutcome(o) \/ Abandon(o)
    \/ ToggleKillSwitch

AgentSpec == AgentInit /\ [][AgentNext]_agentVars

-----------------------------------------------------------------------------
(* Properties                                                               *)

Allowed(o) == \E i \in 1..Len(ledger) : ledger[i] = Receipt(o, "authorization", "allow")

\* A run exists only behind a recorded authorization of a start with its
\* request, and is cancelled only behind that of a cancel with its proof.
ActsAreAuthorized ==
    /\ agentRun.state # "none" =>
          \E o \in Operations : /\ operation[o].kind = "start" /\ operation[o].variant = agentRun.variant
                                /\ Allowed(o)
    /\ agentRun.state = "cancelled" =>
          \E o \in Operations : /\ operation[o].kind = "cancel" /\ operation[o].proof = agentRun.proof
                                /\ Allowed(o)

\* An outcome that is not reported as pending is in the ledger, exactly once,
\* next to its authorization; nobody is told of a success that failed.
AnswersRecorded ==
    \A o \in Operations : operation[o].answer \in {"success", "failure"} =>
        /\ Cardinality({i \in 1..Len(ledger) : ledger[i].operation = o /\ ledger[i].phase = "outcome"}) = 1
        /\ ledger[operation[o].receipt + 1] = Receipt(o, "outcome", operation[o].answer)

\* Two starts of one run with different requests never both succeed.
OneRequestPerRun ==
    \A o, q \in Operations :
        /\ operation[o].kind = "start" /\ operation[o].outcome = "success"
        /\ operation[q].kind = "start" /\ operation[q].outcome = "success"
        => operation[o].variant = operation[q].variant

\* The events of a run keep the contract of the stream, also after a cancel:
\* one start, one end, and every tool call requested, then blocked or started
\* and answered, none left open at the end.
KeepsContract(events, state) ==
    LET ended == \E n \in DOMAIN events : events[n].type \in DOMAIN TerminalState
    IN /\ \A n \in DOMAIN events : (events[n].type = "started") <=> (n = 1)
       /\ \A n \in DOMAIN events : events[n].type \in DOMAIN TerminalState => n = Len(events)
       /\ \A n \in DOMAIN events : events[n].tool \in Tools <=> events[n].type \in ToolEvents
       /\ \A n, m \in DOMAIN events : events[n] = events[m] => n = m
       /\ \A n \in DOMAIN events : events[n].type \in {"blocked", "started_tool"} =>
             \E m \in DOMAIN events : m < n /\ events[m] = Event("requested", events[n].tool)
       /\ \A n \in DOMAIN events : events[n].type = "result" =>
             \E m \in DOMAIN events : m < n /\ events[m] = Event("started_tool", events[n].tool)
       /\ \A n, m \in DOMAIN events : events[n].type = "blocked" => events[m] # Event("started_tool", events[n].tool)
       /\ ended => \A n \in DOMAIN events : events[n].type = "requested" =>
             \E m \in DOMAIN events : events[m].type \in {"blocked", "result"} /\ events[m].tool = events[n].tool
       /\ ended <=> state \notin {"none", "running"}
EventsKeepContract == KeepsContract(agentRun.events, agentRun.state)

(* Whatever the audit sink and other calls do in between, acts stand behind *)
(* recorded authorizations, answers behind recorded outcomes, and a run     *)
(* keeps one request and the contract of its events.                        *)
AgentRunsSound ==
    ActsAreAuthorized /\ AnswersRecorded /\ OneRequestPerRun /\ EventsKeepContract
=============================
