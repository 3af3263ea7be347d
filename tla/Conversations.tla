---------------------------- MODULE Conversations ----------------------------
(* Threads, messages, runs, run events and artifacts of one workspace       *)
(* (repositories/conversations.py under application/conversations.py).      *)
(* Callers run transactions that read the membership first and then work    *)
(* under the lock of the thread's or the run's row.  SQLite holds one write *)
(* lock from BEGIN IMMEDIATE to the commit; PostgreSQL lets the first reads *)
(* of two transactions overlap, and lets a statement that waited for a row  *)
(* lock see the values of its own start.                                    *)
EXTENDS Integers, Sequences, FiniteSets, SequencesExt

CONSTANTS
    Callers,        \* clients with a request of their own
    Dialects,       \* subset of {"sqlite", "postgresql"}
    Keys,           \* idempotency keys of messages and runs
    ProviderIds,    \* provider event ids
    Tools,          \* tool calls of a run
    Decisions,      \* effect authorization decisions
    ArtifactIds,
    PageLimit,      \* events in a page
    MaxMessages, MaxEvents, MaxVersions,   \* bounds on rows
    MaxMembership,  \* bound: versions of the membership
    None

ASSUME ConversationBounds ==
    /\ Dialects \subseteq {"sqlite", "postgresql"}
    /\ PageLimit \in Nat \ {0} /\ MaxMessages \in Nat \ {0} /\ MaxEvents \in Nat
    /\ MaxVersions \in Nat /\ MaxMembership \in Nat

Workloads == {"thread", "event", "artifact"}
Runs == {"r1", "r2", "r3"}
Titles == {"one", "two"}
Terminal == {"completed", "failed", "cancelled"}

VARIABLES
    dialect,
    workload,      \* what the callers work on
    member,        \* latest workspace_memberships row: [version, active]
    thread,        \* thread_versions of the one thread: sequence of [title, status]
    attachments,   \* attachments: set of [id]
    messages,      \* messages: set of [seq, key, files], the files standing for the whole request
    runs,          \* agent_runs: set of [id, key, parent]
    events,        \* agent_run_events of r1: sequence of [type, key, tool, decision]
    artifacts,     \* run_artifacts and their lineage: set of [id, event, parents]
    call,          \* the open transaction of each caller
    answers,       \* what callers were told: set of [kind, key, place]
    follower       \* a reader of page_events

convVars == <<dialect, workload, member, thread, attachments, messages, runs,
              events, artifacts, call, answers, follower>>
rows == <<thread, attachments, messages, runs, events, artifacts>>

Idle == [pc |-> "idle", version |-> 0, seen |-> 0]

(* The requests a caller makes.  Each is a value its domain class accepts.  *)
ThreadOps == [kind : {"create"}, title : Titles] \cup [kind : {"archive"}, expected : 1..2]
AttachmentOps == [kind : {"attach"}, id : {"f1"}]
MessageOps == [kind : {"message"}, key : Keys, files : SUBSET {"f1"}]
RunOps ==
    {o \in [kind : {"run"}, id : Runs, key : Keys, parent : {None, "r1"}] : o.parent # o.id}
ToolTypes == {"tool_requested", "tool_blocked", "tool_started", "tool_result"}
EventOps ==
    [kind : {"event"}, type : {"started", "completed"},
     key : {None} \cup ProviderIds, tool : {None}, decision : {None}]
    \cup [kind : {"event"}, type : ToolTypes, key : {None}, tool : Tools, decision : Decisions]
    \cup [kind : {"event"}, type : {"approval_required"}, key : {None}, tool : Tools,
          decision : Decisions]
ArtifactOps ==
    {o \in [kind : {"artifact"}, id : ArtifactIds, event : 1..2, parents : SUBSET ArtifactIds] :
        o.id \notin o.parents}

Requests ==
    CASE workload = "thread" -> ThreadOps \cup AttachmentOps \cup MessageOps
      [] workload = "event" -> EventOps
      [] OTHER -> RunOps \cup ArtifactOps

(* A new workspace, a run just created, or a run that has started.          *)
ConvInit ==
    /\ dialect \in Dialects /\ workload \in Workloads
    /\ member = [version |-> 1, active |-> TRUE]
    /\ LET old == workload # "thread" IN
       /\ thread = IF old THEN <<[title |-> "one", status |-> "active"]>> ELSE <<>>
       /\ messages = IF old THEN {[seq |-> 1, key |-> None, files |-> {}]} ELSE {}
       /\ runs = IF old THEN {[id |-> "r1", key |-> None, parent |-> None]} ELSE {}
       /\ events = IF workload = "artifact"
                   THEN <<[type |-> "started", key |-> None, tool |-> None, decision |-> None]>>
                   ELSE <<>>
    /\ attachments = {} /\ artifacts = {}
    /\ call = [c \in Callers |-> Idle] /\ answers = {}
    /\ follower = [pc |-> "idle", after |-> 0, high |-> 0, seen |-> <<>>]

-----------------------------------------------------------------------------

(* A transaction opens and reads the membership; what its first locking     *)
(* statement sees of the thread is fixed here (seen).  What it asks for     *)
(* matters only when it has the lock and is chosen there.                   *)
WriteLockFree == dialect = "sqlite" => \A c \in Callers : call[c].pc = "idle"

(* _require_membership                                                      *)
CurrentMembership(v) == member.active /\ v = member.version

Begin(c) ==
    /\ call[c].pc = "idle" /\ WriteLockFree
    /\ \E v \in 1..member.version :
        /\ CurrentMembership(v)
        /\ call' = [call EXCEPT ![c] = [pc |-> "open", version |-> v, seen |-> Len(thread)]]
    /\ UNCHANGED <<dialect, workload, member, rows, answers, follower>>

Open(c, op, kind) == call[c].pc = "open" /\ op.kind = kind

(* The transaction ends; its answer goes to the caller.  A receipt of the   *)
(* authority lifecycle that does not match turns the answer into a failure, *)
(* but the rows stay and the caller asks again.                             *)
Close(c, told) ==
    /\ call' = [call EXCEPT ![c] = Idle]
    /\ answers' = answers \cup told
    /\ UNCHANGED <<dialect, workload, member, follower>>

(* create_thread has no row to lock: two creations meet at the primary key. *)
CreateThread(c, op) ==
    /\ Open(c, op, "create")
    /\ IF call[c].seen = 0 /\ thread = <<>>
       THEN thread' = <<[title |-> op.title, status |-> "active"]>>
       ELSE UNCHANGED thread        \* the same thread, a conflict or binding_invalid
    /\ Close(c, {})
    /\ UNCHANGED <<attachments, messages, runs, events, artifacts>>

(* archive_thread: a statement that waited for the lock may still see the   *)
(* version before; its insert then meets the primary key.                   *)
ArchiveThread(c, op) ==
    LET seen == IF dialect = "sqlite" THEN Len(thread) ELSE call[c].seen IN
    /\ Open(c, op, "archive")
    /\ IF /\ seen > 0 /\ seen = op.expected
          /\ seen + 1 > Len(thread) /\ seen < MaxVersions
       THEN thread' = Append(thread, [title |-> thread[seen].title, status |-> "archived"])
       ELSE UNCHANGED thread
    /\ Close(c, {})
    /\ UNCHANGED <<attachments, messages, runs, events, artifacts>>

(* register_attachment                                                      *)
RegisterAttachment(c, op) ==
    /\ Open(c, op, "attach")
    /\ attachments' = IF \E a \in attachments : a.id = op.id THEN attachments
                      ELSE attachments \cup {[id |-> op.id]}
    /\ Close(c, {})
    /\ UNCHANGED <<thread, messages, runs, events, artifacts>>

(* COALESCE(MAX(sequence), 0) + 1                                           *)
NextSequence == 1 + Max({m.seq : m \in messages} \cup {0})

Told(k, key, place) == {[kind |-> k, key |-> key, place |-> place]}

(* append_message: a repeated key answers with the stored message when the  *)
(* request is the same and is refused otherwise; the files must exist.      *)
AppendMessage(c, op) ==
    LET old == {m \in messages : m.key = op.key}
        same == {m \in old : m.files = op.files}
    IN  /\ Open(c, op, "message")
        /\ \/ /\ thread # <<>> /\ old # {} /\ same # {}
              /\ UNCHANGED messages
              /\ Close(c, UNION {Told("message", m.key, m.seq) : m \in same})
           \/ /\ thread # <<>> /\ old = {} /\ Cardinality(messages) < MaxMessages
              /\ \A f \in op.files : \E a \in attachments : a.id = f
              /\ messages' = messages \cup {[seq |-> NextSequence, key |-> op.key, files |-> op.files]}
              /\ Close(c, Told("message", op.key, NextSequence))
           \/ /\ \/ thread = <<>> \/ (old # {} /\ same = {})
                 \/ Cardinality(messages) >= MaxMessages
                 \/ \E f \in op.files : ~\E a \in attachments : a.id = f
              /\ UNCHANGED messages /\ Close(c, {})
        /\ UNCHANGED <<thread, attachments, runs, events, artifacts>>

(* create_run: the key, the id and the parent are settled by the table.     *)
CreateRun(c, op) ==
    /\ Open(c, op, "run")
    /\ runs' = IF \/ \E r \in runs : r.key = op.key \/ r.id = op.id
                  \/ (op.parent # None /\ ~\E r \in runs : r.id = op.parent)
               THEN runs
               ELSE runs \cup {[id |-> op.id, key |-> op.key, parent |-> op.parent]}
    /\ Close(c, {})
    /\ UNCHANGED <<thread, attachments, messages, events, artifacts>>

Before(es, i, types, tool) == {j \in 1..(i - 1) : es[j].type \in types /\ es[j].tool = tool}
Finished == {"tool_blocked", "tool_result"}

(* One tool event against those before it.                                  *)
ToolStep(es, i) ==
    LET e == es[i]
        requests == Before(es, i, {"tool_requested"}, e.tool)
        begun == Before(es, i, {"tool_started"}, e.tool)
        done == Before(es, i, Finished, e.tool)
    IN  /\ e.type = "tool_requested" =>
              /\ requests = {}
              /\ \A j \in 1..(i - 1) : es[j].type = "tool_requested" => es[j].decision # e.decision
        /\ e.type \in (ToolTypes \ {"tool_requested"}) \cup {"approval_required"} =>
              /\ requests # {} /\ done = {}
              /\ \A j \in requests : es[j].decision = e.decision
        /\ e.type \in {"tool_started", "tool_blocked"} => begun = {}
        /\ e.type = "tool_result" => begun # {}

(* validate_agent_run_event_chain                                           *)
ChainValid(es) ==
    /\ es # <<>> => es[1].type = "started"
    /\ \A i \in DOMAIN es :
          /\ es[i].type \in Terminal =>
                /\ i = Len(es)
                /\ \A j \in 1..i : es[j].type = "tool_requested" =>
                      Before(es, i, Finished, es[j].tool) # {}
          /\ \A j \in 1..(i - 1) :
                /\ ~(es[i].type = "started" /\ es[j].type = "started")
                /\ es[i].key # None => es[j].key # es[i].key
          /\ ToolStep(es, i)

Body(op) == [type |-> op.type, key |-> op.key, tool |-> op.tool, decision |-> op.decision]

\* Mistake: a provider event that was sent again becomes a new event.
AppendAgain(c, op) ==
    LET e == Body(op) IN
    /\ Open(c, op, "event")
    /\ \/ /\ Len(events) < MaxEvents /\ ChainValid(Append(events, [e EXCEPT !.key = None]))
          /\ events' = Append(events, e)
          /\ Close(c, IF e.key = None THEN {} ELSE Told("event", e.key, Len(events) + 1))
       \/ /\ UNCHANGED events /\ Close(c, {})
    /\ UNCHANGED <<thread, attachments, messages, runs, artifacts>>

(* append_event: a provider event that was stored answers with its record;  *)
(* any other takes the next place in the chain, if the chain stays valid.   *)
AppendEvent(c, op) ==
    LET e == Body(op)
        old == {i \in DOMAIN events : e.key # None /\ events[i].key = e.key}
    IN  /\ Open(c, op, "event")
        /\ \/ /\ old # {} /\ UNCHANGED events
              /\ Close(c, UNION {Told("event", e.key, i) : i \in {j \in old : events[j] = e}})
           \/ /\ old = {} /\ Len(events) < MaxEvents /\ ChainValid(Append(events, e))
              /\ events' = Append(events, e)
              /\ Close(c, IF e.key = None THEN {} ELSE Told("event", e.key, Len(events) + 1))
           \/ /\ old = {} /\ (Len(events) >= MaxEvents \/ ~ChainValid(Append(events, e)))
              /\ UNCHANGED events /\ Close(c, {})
        /\ UNCHANGED <<thread, attachments, messages, runs, artifacts>>

(* The producing event and every parent are there.                          *)
ArtifactRooted(op) ==
    /\ op.event \in DOMAIN events
    /\ \A p \in op.parents : \E a \in artifacts : a.id = p

(* record_artifact                                                          *)
RecordArtifact(c, op) ==
    /\ Open(c, op, "artifact")
    /\ artifacts' = IF ~ArtifactRooted(op) \/ \E a \in artifacts : a.id = op.id THEN artifacts
                    ELSE artifacts \cup {[id |-> op.id, event |-> op.event,
                                          parents |-> op.parents]}
    /\ Close(c, {})
    /\ UNCHANGED <<thread, attachments, messages, runs, events>>

Finish(c, op) ==
    \/ CreateThread(c, op) \/ ArchiveThread(c, op) \/ RegisterAttachment(c, op) \/ AppendMessage(c, op)
    \/ CreateRun(c, op) \/ AppendEvent(c, op) \/ RecordArtifact(c, op)

(* The membership gets a new version: ended, or renewed.                    *)
MembershipChanges ==
    /\ WriteLockFree /\ member.version < MaxMembership
    /\ \E on \in BOOLEAN : member' = [version |-> member.version + 1, active |-> on]
    /\ UNCHANGED <<dialect, workload, rows, call, answers, follower>>

-----------------------------------------------------------------------------
\* Mistake: a page is read only when more than one event is new.
PageBoundsLate ==
    /\ follower.pc = "idle" /\ member.active /\ workload = "event"
    /\ follower.after + 1 < Len(events)
    /\ follower' = [follower EXCEPT !.pc = "chain", !.high = Len(events)]
    /\ UNCHANGED <<dialect, workload, member, rows, call, answers>>

(* page_events in two reads: the bounds, then the chain up to them.         *)
PageBounds ==
    /\ follower.pc = "idle" /\ member.active /\ workload = "event"
    /\ follower.after < Len(events)
    /\ follower' = [follower EXCEPT !.pc = "chain", !.high = Len(events)]
    /\ UNCHANGED <<dialect, workload, member, rows, call, answers>>

(* The events after the cursor, at most PageLimit.                          *)
PageOf(f) ==
    SubSeq(events, f.after + 1,
           IF f.high > f.after + PageLimit THEN f.after + PageLimit ELSE f.high)

PageChain ==
    /\ follower.pc = "chain"
    /\ ChainValid(SubSeq(events, 1, follower.high))     \* else run_event_integrity_invalid
    /\ follower' = [follower EXCEPT !.pc = "idle",
                       !.seen = @ \o PageOf(follower),
                       !.after = @ + Len(PageOf(follower))]
    /\ UNCHANGED <<dialect, workload, member, rows, call, answers>>

-----------------------------------------------------------------------------
ConvNext ==
    \/ \E c \in Callers : Begin(c) \/ \E op \in Requests : Finish(c, op)
    \/ MembershipChanges \/ PageBounds \/ PageChain

ConvSpec == ConvInit /\ [][ConvNext]_convVars

(* A transaction runs to its end; a follower keeps asking.                  *)
FairConvSpec ==
    /\ ConvSpec /\ WF_convVars(PageBounds) /\ WF_convVars(PageChain)
    /\ \A c \in Callers : WF_convVars(\E op \in Requests : Finish(c, op))

-----------------------------------------------------------------------------
(* Properties                                                               *)

(* Every row has its type and points at rows that exist.                    *)
ConvTypeOK ==
    /\ \A m \in messages : /\ m.seq \in 1..MaxMessages /\ thread # <<>>
                           /\ m.files \subseteq {a.id : a \in attachments}
    /\ \A i \in DOMAIN thread : thread[i] \in [title : Titles, status : {"active", "archived"}]
    /\ \A r \in runs : r.parent = None \/ \E p \in runs : p.id = r.parent
    /\ events # <<>> => runs # {}
    /\ \A c \in Callers : call[c].pc \in {"idle", "open"}
    /\ follower.pc \in {"idle", "chain"}

(* Messages are numbered from 1 without a gap and a key is stored once,     *)
(* however the transactions of two callers overlap.                         *)
MessagesContiguous ==
    /\ {m.seq : m \in messages} = 1..Cardinality(messages)
    /\ \A m, n \in messages : m.key = n.key => m = n

(* All answers for one key name one place, and that place holds it: a       *)
(* retry after a lost answer or a mismatched receipt never gets a second    *)
(* message or event.                                                        *)
RetriesAgree ==
    \A a \in answers :
        /\ \A b \in answers : (a.kind = b.kind /\ a.key = b.key) => a = b
        /\ a.kind = "message" => \E m \in messages : m.key = a.key /\ m.seq = a.place
        /\ a.kind = "event" => a.place \in DOMAIN events /\ events[a.place].key = a.key

(* A key belongs to one run and so does an id.                              *)
RunsDistinct == \A r, s \in runs : (r.key = s.key \/ r.id = s.id) => r = s

(* The events of a tool call, approvals aside, in their order.              *)
Steps(t) == {i \in DOMAIN events : events[i].tool = t /\ events[i].type \in ToolTypes}
StepsAre(t, types) ==
    \E pos \in [DOMAIN types -> DOMAIN events] :
        /\ Steps(t) = {pos[k] : k \in DOMAIN types}
        /\ \A k \in DOMAIN types : events[pos[k]].type = types[k]
        /\ \A k, l \in DOMAIN types : k < l => pos[k] < pos[l]
ClosedCalls == {<<>>, <<"tool_requested", "tool_blocked">>,
                <<"tool_requested", "tool_started", "tool_result">>}
OpenCalls == {<<"tool_requested">>, <<"tool_requested", "tool_started">>}

(* The events of each tool call are a prefix of requested, started, result  *)
(* or of requested, blocked (approvals aside); a run ends at most once, as  *)
(* its last event, with no tool call open; no decision serves two calls.    *)
ToolProtocol ==
    /\ \A t \in Tools : \E types \in ClosedCalls \cup OpenCalls : StepsAre(t, types)
    /\ \A i \in DOMAIN events : events[i].type \in Terminal =>
          i = Len(events) /\ \A t \in Tools : \E types \in ClosedCalls : StepsAre(t, types)
    /\ \A i, j \in DOMAIN events :
          (events[i].decision # None /\ events[i].decision = events[j].decision)
          => events[i].tool = events[j].tool

(* Lineage has a first artifact: whatever set of artifacts is taken, one of *)
(* them has no parent in it, and every parent and producing event exists.   *)
LineageGrounded ==
    /\ \A a \in artifacts : /\ a.event \in DOMAIN events
                            /\ a.parents \subseteq {b.id : b \in artifacts}
    /\ \A S \in (SUBSET artifacts) \ {{}} :
          \E a \in S : a.parents \cap {b.id : b \in S} = {}

(* Under SQLite nothing is written for a membership that is not the current *)
(* one any more, although it was read before.                               *)
WrittenByMembers ==
    [][(dialect = "sqlite" /\ rows' # rows) =>
          \E c \in Callers : /\ call[c].pc = "open" /\ call'[c].pc = "idle"
                             /\ member.active /\ call[c].version = member.version]_convVars

(* A follower has seen a prefix of the run's events, nothing twice and      *)
(* nothing left out, and no page is refused as corrupt.                     *)
FollowerSeesChain ==
    /\ IsPrefix(follower.seen, events) /\ Len(follower.seen) = follower.after
    /\ ChainValid(SubSeq(events, 1, follower.high))

(* A follower that stays a member sees the end of a run.                    *)
FollowerSeesEnd ==
    (events # <<>> /\ Last(events).type \in Terminal)
        ~> (follower.seen = events \/ ~member.active)

(* Overlapping transactions leave threads, runs, tool calls and artifacts   *)
(* as if they had come one after the other, and a follower sees them so.    *)
ConversationsSound ==
    /\ ConvTypeOK /\ MessagesContiguous /\ RetriesAgree /\ RunsDistinct
    /\ ToolProtocol /\ LineageGrounded /\ FollowerSeesChain

(* A follower reaches the end of a run, and all that it can see was written *)
(* by a member.                                                             *)
ConversationsProgress == WrittenByMembers /\ FollowerSeesEnd
=============================================================================
