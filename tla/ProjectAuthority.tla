---- MODULE ProjectAuthority ----
(* Creation of a project under the workspace authority.  One create writes  *)
(* an idempotency envelope, an audit receipt, a commit intent, the sealed   *)
(* state in the keyring, a recovery checkpoint, the project, the leaf       *)
(* commitments of the new generation, the authority row and a result        *)
(* binding, each in a transaction of its own.  Attempts run in several      *)
(* processes, die between any two writes and are repeated.                  *)
EXTENDS Naturals, Sequences, FiniteSets

CONSTANTS
    Procs,         \* processes that execute ProjectService
    Requests,      \* create requests, each of a project of its own
    NoValue,       \* no value
    Tampered,      \* leaf commitments that are nobody's plan
    MaxCrashes,    \* bound: attempts that die, where the create must succeed in the end
    MaxReads,      \* bound: audited reads and denials
    MaxTampers     \* bound: generations whose commitments are altered

(* The digests of LiveRoot, below. *)
Roots == [generation : Nat, version : Nat, projects : SUBSET Requests, intents : SUBSET Requests,
          receipts : Nat, envelopes : SUBSET Requests, snapshots : SUBSET Requests]

\* The digests of HistoryHeads, below.
Heads == [checkpoints : [Requests -> {"none", "prepared", "authority_finalized", "binding_persisted",
                                      "complete", "quarantined"}],
          bindings : [Requests -> Nat]]

\* What IssueProof keeps of a runtime proof, below.
IssuedProofs == [generation : Nat, root : Roots]

ASSUME AuthAssumption ==
    /\ IsFiniteSet(Requests)
    /\ NoValue \notin Requests \cup Roots \cup Heads \cup IssuedProofs \cup {Tampered}

VARIABLES
    authDb,        \* the tables of the authority database
    sealed,        \* SealedAuthorityState in the keyring
    proof,         \* generation and root of the runtime proof of a request
    attempt,       \* what each process is doing, with what it has read
    scenario,      \* which faults and actors a behaviour exercises
    crashes, reads, tampers

authVars == <<authDb, sealed, proof, attempt, scenario, crashes, reads, tampers>>

NoAttempt == [pc |-> "idle", req |-> NoValue, view |-> NoValue, fresh |-> FALSE, intent |-> NoValue,
         receipt |-> 0, checkpoint |-> "none", heads |-> NoValue]
NoIntent == [state |-> "none", prior |-> 0, priorRoot |-> NoValue, root |-> NoValue]
NoCheckpoint == [state |-> "none", receipt |-> 0]
InFlight == {"prepared", "anchor_reserved", "db_committed"}

\* The digest over all families of rows: equal digests are equal rows.  The
\* envelope's status and the intent's state and proposed root are excluded,
\* and checkpoints and bindings enter by an external proof only.
Root(authority, projects, intents, tables) ==
    [generation |-> authority.generation, version |-> authority.version,
     projects |-> projects, intents |-> intents, receipts |-> Len(tables.receipts),
     envelopes |-> {r \in Requests : tables.envelopes[r] # "none"}, snapshots |-> tables.snapshots]

IntentRows == {r \in Requests : authDb.intents[r].state # "none"}
LiveRoot == Root(authDb.authority, authDb.projects, IntentRows, authDb)

\* current_history_heads: the checkpoints as they stand and the bindings.
HistoryHeads == [checkpoints |-> [r \in Requests |-> authDb.checkpoints[r].state], bindings |-> authDb.bindings]

GenesisRows == [receipts |-> <<>>, envelopes |-> [r \in Requests |-> "none"], snapshots |-> {}]
GenesisRoot == Root([generation |-> 0, version |-> 1], {}, {}, GenesisRows)
GenesisHeads == [checkpoints |-> [r \in Requests |-> "none"], bindings |-> [r \in Requests |-> 0]]

AuthInit ==
    /\ authDb = [authority |-> [generation |-> 0, root |-> GenesisRoot, state |-> "active", version |-> 1],
             intents |-> [r \in Requests |-> NoIntent], receipts |-> <<>>,
             checkpoints |-> [r \in Requests |-> NoCheckpoint], bindings |-> [r \in Requests |-> 0],
             projects |-> {}, envelopes |-> [r \in Requests |-> "none"], snapshots |-> {},
             commitments |-> [g \in 0..Cardinality(Requests) |-> IF g = 0 THEN GenesisRoot ELSE NoValue]]
    /\ sealed = [generation |-> 0, root |-> GenesisRoot, pending |-> NoValue, pendingRoot |-> NoValue,
                 heads |-> GenesisHeads, pendingHeads |-> NoValue, last |-> NoValue]
    /\ proof = [r \in Requests |-> NoValue]
    /\ attempt = [p \in Procs |-> NoAttempt]
    /\ scenario \in {"alone", "twins", "rivals", "tampered"}
    /\ crashes = 0 /\ reads = 0 /\ tampers = 0

Unmoved == UNCHANGED <<proof, scenario, crashes, reads, tampers>>
Reply(p) == attempt' = [attempt EXCEPT ![p] = NoAttempt]
Proceed(p, pc) == attempt' = [attempt EXCEPT ![p].pc = pc]
\* The attempt ends with a reason code and leaves what it has written.
Refuse(p) == Reply(p) /\ UNCHANGED <<authDb, sealed>>
At(p, pc) == attempt[p].pc = pc
Rq(p) == attempt[p].req
Mine(p) == attempt[p].intent

\* The early returns of the lifecycle's steps: a repeated attempt goes on where
\* the state it has read says that the work is not yet done.
IfPrepared(state) == IF state = "prepared" THEN "reserve" ELSE "checkpoint"
IfReserved(state) == IF state = "anchor_reserved" THEN "commit" ELSE "finalize"
IfUntrailed(checkpoint) == IF checkpoint = "prepared" THEN "trail" ELSE "binding"
IfUnbound(checkpoint) ==
    CASE checkpoint = "authority_finalized" -> "bind"
      [] checkpoint = "binding_persisted"   -> "finish"
      [] checkpoint = "complete"            -> "heads"
      [] OTHER                              -> "invalid"

-----------------------------------------------------------------------------
(* Authorization: the proof of possession, the snapshot, the decision       *)

\* verify_live_root: the stored commitments, the rows and the sealed root agree.
LiveRootVerified ==
    /\ authDb.commitments[sealed.generation] = LiveRoot
    /\ sealed.root = LiveRoot

IssueProof(r) ==
    /\ proof[r] = NoValue
    /\ scenario \in {"alone", "twins"} => \A q \in Requests : proof[q] = NoValue
    /\ sealed.pending = NoValue
    /\ sealed.pendingHeads = NoValue
    /\ LiveRootVerified
    /\ proof' = [proof EXCEPT ![r] = [generation |-> sealed.generation, root |-> sealed.root]]
    /\ UNCHANGED <<authDb, sealed, attempt, scenario, crashes, reads, tampers>>

AppendSnapshot(r) ==
    /\ proof[r] # NoValue
    /\ r \notin authDb.snapshots
    /\ authDb' = [authDb EXCEPT !.snapshots = @ \cup {r}]
    /\ UNCHANGED <<sealed, attempt>> /\ Unmoved

\* What the evaluator requires of the authority it is shown, and of the proof.
PossessionHolds(r, view) ==
    /\ view.generation = proof[r].generation
    /\ view.root = proof[r].root
AuthorityAllows(r, view) == view.state = "active" /\ PossessionHolds(r, view)

\* What the resolver shows: the inputs gathered with the request, or the rows.
ResolvedViews(r) ==
    {[generation |-> proof[r].generation, root |-> proof[r].root, state |-> "active"],
     [generation |-> authDb.authority.generation, root |-> authDb.authority.root, state |-> authDb.authority.state]}

\* The snapshot of the decision is stored, and signed for this request.
SnapshotVerified(r) == r \in authDb.snapshots

Authorize(p, r) ==
    /\ At(p, "idle")
    /\ SnapshotVerified(r)
    /\ scenario # "twins" => \A q \in Procs : attempt[q].req # r
    /\ scenario = "tampered" => \A q \in Procs : At(q, "idle")   \* bound: one attempt at a time
    /\ \E view \in ResolvedViews(r) : AuthorityAllows(r, view)
    /\ attempt' = [attempt EXCEPT ![p] = [NoAttempt EXCEPT !.pc = "claim", !.req = r]]
    /\ UNCHANGED <<authDb, sealed>> /\ Unmoved

-----------------------------------------------------------------------------
(* ProjectService._execute around the lifecycle                             *)

Claimed(p) == [authDb EXCEPT !.envelopes[Rq(p)] = "in_progress"]
Completed(p) == [authDb EXCEPT !.envelopes[Rq(p)] = "succeeded"]

Claim(p) ==
    /\ At(p, "claim")
    /\ IF authDb.envelopes[Rq(p)] = "succeeded"
       THEN Refuse(p)   \* the cached project is the answer
       ELSE /\ authDb' = Claimed(p)
            /\ Proceed(p, "intent")
            /\ UNCHANGED sealed
    /\ Unmoved

CompleteEnvelope(p) ==
    /\ At(p, "complete")
    /\ \/ /\ authDb.envelopes[Rq(p)] = "in_progress"
          /\ authDb' = Completed(p)
          /\ Reply(p) /\ UNCHANGED sealed
       \/ authDb.envelopes[Rq(p)] # "in_progress" /\ Refuse(p)
    /\ Unmoved

\* An allowed read, or a decision to deny: a receipt of its own.
AuditedDecision ==
    /\ scenario = "twins"       \* rivals append receipts of their own
    /\ reads < MaxReads
    /\ reads' = reads + 1
    /\ authDb' = [authDb EXCEPT !.receipts = Append(@, [of |-> NoValue, generation |-> authDb.authority.generation])]
    /\ UNCHANGED <<sealed, proof, attempt, scenario, crashes, tampers>>

-----------------------------------------------------------------------------
(* The intent: load, receipt, plan, prepare                                 *)

LoadIntent(p) ==
    /\ At(p, "intent")
    /\ attempt' = [attempt EXCEPT ![p].pc = "authority", ![p].intent = authDb.intents[Rq(p)]]
    /\ UNCHANGED <<authDb, sealed>> /\ Unmoved

\* A new intent takes its prior generation and root from the authority as read.
LoadAuthority(p) ==
    /\ At(p, "authority")
    /\ IF authDb.authority.state = "quarantined" \/ Mine(p).state = "quarantined"
       THEN Refuse(p)
       ELSE /\ attempt' = [attempt EXCEPT
                  ![p].pc = "receipt", ![p].view = authDb.authority,
                  ![p].fresh = (Mine(p).state = "none"),
                  ![p].intent = IF @.state # "none" THEN @ ELSE
                     [state |-> "prepared", prior |-> authDb.authority.generation,
                      priorRoot |-> authDb.authority.root, root |-> NoValue]]
            /\ UNCHANGED <<authDb, sealed>>
    /\ Unmoved

ReceiptsOf(r) == {i \in DOMAIN authDb.receipts : authDb.receipts[i].of = r}

LoadReceipt(p) ==
    /\ At(p, "receipt")
    /\ LET found == ReceiptsOf(Rq(p)) IN
       \/ Cardinality(found) > 1 /\ Reply(p)
       \/ \E i \in found : Cardinality(found) = 1
             /\ attempt' = [attempt EXCEPT ![p].pc = "plan", ![p].receipt = i]
       \/ found = {} /\ Proceed(p, "record")
    /\ UNCHANGED <<authDb, sealed>> /\ Unmoved

\* record_with_context: the snapshot must be of the intent's prior generation.
NumberReceipt(p) ==
    /\ At(p, "record")
    /\ IF proof[Rq(p)] # [generation |-> Mine(p).prior, root |-> Mine(p).priorRoot]
       THEN Reply(p)
       ELSE attempt' = [attempt EXCEPT ![p].pc = "append", ![p].receipt = Len(authDb.receipts) + 1]
    /\ UNCHANGED <<authDb, sealed>> /\ Unmoved

AppendReceipt(p) ==
    /\ At(p, "append")
    /\ \/ /\ attempt[p].receipt = Len(authDb.receipts) + 1
          /\ authDb' = [authDb EXCEPT !.receipts = Append(@, [of |-> Rq(p), generation |-> Mine(p).prior])]
          /\ Proceed(p, "plan") /\ UNCHANGED sealed
       \/ attempt[p].receipt # Len(authDb.receipts) + 1 /\ Refuse(p)
    /\ Unmoved

\* _target_authority: the authority as read, advanced unless it is already.
PriorMatches(p) ==
    /\ attempt[p].view.generation = Mine(p).prior
    /\ attempt[p].view.root = Mine(p).priorRoot
FinalizedMatches(p) ==
    /\ attempt[p].view.generation = Mine(p).prior + 1
    /\ attempt[p].view.root = Mine(p).root

TargetAuthority(p) ==
    IF PriorMatches(p)
    THEN [attempt[p].view EXCEPT !.generation = @ + 1, !.version = @ + 1]
    ELSE attempt[p].view

Planned(p) ==
    Root(TargetAuthority(p), authDb.projects \cup {Rq(p)}, IntentRows \cup {Rq(p)}, authDb)

Plan(p) ==
    /\ At(p, "plan")
    /\ IF /\ PriorMatches(p) \/ FinalizedMatches(p)
          /\ attempt[p].fresh \/ Planned(p) = Mine(p).root
       THEN attempt' = [attempt EXCEPT ![p].intent.root = Planned(p), ![p].view = NoValue, ![p].fresh = FALSE,
                                 ![p].pc = IF attempt[p].fresh THEN "prepare" ELSE IfPrepared(Mine(p).state)]
       ELSE Reply(p)
    /\ UNCHANGED <<authDb, sealed>> /\ Unmoved

\* Mistake: an intent may be prepared beside one that is in flight.
PrepareBesides(p) ==
    /\ authDb.authority.generation = Mine(p).prior
    /\ authDb.authority.root = Mine(p).priorRoot
    /\ authDb.intents[Rq(p)].state = "none"

PrepareAllowed(p) ==
    /\ authDb.authority.generation = Mine(p).prior
    /\ authDb.authority.root = Mine(p).priorRoot
    /\ \A r \in Requests : authDb.intents[r].state \notin InFlight
    /\ authDb.intents[Rq(p)].state = "none"

Prepare(p) ==
    /\ At(p, "prepare")
    /\ \/ /\ PrepareAllowed(p)
          /\ authDb' = [authDb EXCEPT !.intents[Rq(p)] = Mine(p)]
          /\ Proceed(p, "reserve") /\ UNCHANGED sealed
       \/ ~PrepareAllowed(p) /\ Refuse(p)
    /\ Unmoved

-----------------------------------------------------------------------------
(* The anchor and the commit                                                *)

\* Mistake: a reservation of one's own is busy like any other.
ReserveNeverReplays(p) == FALSE

\* reserve: a repeated reservation is accepted, any other pending one is busy.
ReserveReplays(p) == sealed.pending = Rq(p) /\ sealed.pendingRoot = Mine(p).root
ReserveAllowed(p) ==
    /\ sealed.pending = NoValue
    /\ Mine(p).prior = sealed.generation
    /\ Mine(p).priorRoot = sealed.root

Reserve(p) ==
    /\ At(p, "reserve")
    /\ \/ ReserveReplays(p) /\ Proceed(p, "reserved") /\ UNCHANGED <<authDb, sealed>>
       \/ /\ ~ReserveReplays(p) /\ ReserveAllowed(p)
          /\ sealed' = [sealed EXCEPT
                 !.pending = Rq(p), !.pendingRoot = Mine(p).root,
                 !.pendingHeads = IF @ = NoValue THEN sealed.heads ELSE @]
          /\ Proceed(p, "reserved") /\ UNCHANGED authDb
       \/ ~ReserveReplays(p) /\ ~ReserveAllowed(p) /\ Refuse(p)
    /\ Unmoved

\* advance_commit: compare and set of the intent's state; the step to
\* db_committed moves the authority row in the same transaction.
AdvanceAllowed(p, from, to) ==
    /\ authDb.intents[Rq(p)] = [Mine(p) EXCEPT !.state = from]
    /\ to = "db_committed" =>
          /\ authDb.authority.generation = Mine(p).prior
          /\ authDb.authority.root = Mine(p).priorRoot

AdvancedAuthority(p) ==
    [authDb.authority EXCEPT !.generation = Mine(p).prior + 1, !.root = Mine(p).root, !.version = @ + 1]

AdvanceCommit(p, from, to, next) ==
    /\ \/ /\ AdvanceAllowed(p, from, to)
          /\ authDb' = [authDb EXCEPT !.intents[Rq(p)].state = to,
                              !.authority = IF to = "db_committed" THEN AdvancedAuthority(p) ELSE @]
          /\ attempt' = [attempt EXCEPT ![p].pc = next, ![p].intent.state = to]
          /\ UNCHANGED sealed
       \/ ~AdvanceAllowed(p, from, to) /\ Refuse(p)
    /\ Unmoved

MarkReserved(p) == At(p, "reserved") /\ AdvanceCommit(p, "prepared", "anchor_reserved", "checkpoint")

-----------------------------------------------------------------------------
(* Checkpoint, project and commitments                                      *)

LoadCheckpoint(p) ==
    /\ At(p, "checkpoint")
    /\ LET c == authDb.checkpoints[Rq(p)] IN
       \/ c.state = "none" /\ Proceed(p, "newcheckpoint")
       \/ /\ c.state # "none" /\ c.receipt = attempt[p].receipt
          /\ attempt' = [attempt EXCEPT ![p].pc = "project", ![p].checkpoint = c.state]
       \/ c.state # "none" /\ c.receipt # attempt[p].receipt /\ Reply(p)
    /\ UNCHANGED <<authDb, sealed>> /\ Unmoved

PrepareCheckpoint(p) ==
    /\ At(p, "newcheckpoint")
    /\ \/ /\ authDb.checkpoints[Rq(p)].state = "none"
          /\ authDb' = [authDb EXCEPT !.checkpoints[Rq(p)] = [state |-> "prepared", receipt |-> attempt[p].receipt]]
          /\ attempt' = [attempt EXCEPT ![p].pc = "project", ![p].checkpoint = "prepared"]
          /\ UNCHANGED sealed
       \/ authDb.checkpoints[Rq(p)].state # "none" /\ Refuse(p)
    /\ Unmoved

AddProject(p) ==
    /\ At(p, "project")
    /\ authDb' = [authDb EXCEPT !.projects = @ \cup {Rq(p)}]
    /\ Proceed(p, "commitments") /\ UNCHANGED sealed /\ Unmoved

CommitmentsAt(p) == authDb.commitments[Mine(p).prior + 1]

ValidateCommitments(p) ==
    /\ At(p, "commitments")
    /\ \/ CommitmentsAt(p) = NoValue /\ Proceed(p, "newcommitments")
       \/ CommitmentsAt(p) = Mine(p).root /\ Proceed(p, IfReserved(Mine(p).state))
       \/ CommitmentsAt(p) \notin {NoValue, Mine(p).root} /\ Proceed(p, "quarantine")
    /\ UNCHANGED <<authDb, sealed>> /\ Unmoved

AppendCommitments(p) ==
    /\ At(p, "newcommitments")
    /\ \/ /\ CommitmentsAt(p) = NoValue
          /\ authDb' = [authDb EXCEPT !.commitments[Mine(p).prior + 1] = Mine(p).root]
          /\ Proceed(p, IfReserved(Mine(p).state)) /\ UNCHANGED sealed
       \/ CommitmentsAt(p) # NoValue /\ Refuse(p)
    /\ Unmoved

-----------------------------------------------------------------------------
(* _quarantine_inflight: authority, checkpoint and intent, one by one       *)

QuarantineAuthority(p) ==
    /\ At(p, "quarantine")
    /\ LET row == authDb.authority
           advanced == Mine(p).state \in {"db_committed", "anchor_finalized"}
           matches == row.generation = Mine(p).prior + 1 /\ row.root = Mine(p).root
       IN
       \/ /\ advanced /\ matches
          /\ authDb' = [authDb EXCEPT !.authority =
                IF row.state = "active"
                THEN [row EXCEPT !.state = "quarantined", !.version = row.version + 1] ELSE row]
          /\ Proceed(p, "quarantine2") /\ UNCHANGED sealed
       \/ advanced /\ ~matches /\ Refuse(p)
       \/ ~advanced /\ Proceed(p, "quarantine2") /\ UNCHANGED <<authDb, sealed>>
    /\ Unmoved

QuarantineCheckpoint(p) ==
    /\ At(p, "quarantine2")
    /\ \/ /\ attempt[p].checkpoint \in {"complete", "quarantined"}
          /\ Proceed(p, "quarantine3") /\ UNCHANGED <<authDb, sealed>>
       \/ /\ attempt[p].checkpoint \notin {"complete", "quarantined"}
          /\ authDb.checkpoints[Rq(p)].state = attempt[p].checkpoint
          /\ authDb' = [authDb EXCEPT !.checkpoints[Rq(p)].state = "quarantined"]
          /\ Proceed(p, "quarantine3") /\ UNCHANGED sealed
       \/ /\ attempt[p].checkpoint \notin {"complete", "quarantined"}
          /\ authDb.checkpoints[Rq(p)].state # attempt[p].checkpoint
          /\ Refuse(p)
    /\ Unmoved

QuarantineIntent(p) ==
    /\ At(p, "quarantine3")
    /\ \/ /\ Mine(p).state # "anchor_finalized"
          /\ authDb.intents[Rq(p)].state = Mine(p).state
          /\ authDb' = [authDb EXCEPT !.intents[Rq(p)].state = "quarantined"]
          /\ UNCHANGED sealed
       \/ /\ Mine(p).state = "anchor_finalized" \/ authDb.intents[Rq(p)].state # Mine(p).state
          /\ UNCHANGED <<authDb, sealed>>
    /\ Reply(p) /\ Unmoved

-----------------------------------------------------------------------------
(* Commit, finalization and the audit trail                                 *)

CommitAuthority(p) == At(p, "commit") /\ AdvanceCommit(p, "anchor_reserved", "db_committed", "finalize")

FinalizeAllowed(p) ==
    /\ Mine(p).state \in {"db_committed", "anchor_finalized"}
    /\ \/ sealed.last = Rq(p)
       \/ /\ sealed.pending = Rq(p) /\ sealed.pendingRoot = Mine(p).root
          /\ sealed.generation = Mine(p).prior /\ sealed.root = Mine(p).priorRoot

\* The pending history heads stay until the histories are finalized.
Finalize(p) ==
    /\ At(p, "finalize")
    /\ \/ /\ FinalizeAllowed(p)
          /\ sealed' = IF sealed.last = Rq(p) THEN sealed ELSE
                [sealed EXCEPT !.generation = Mine(p).prior + 1, !.root = Mine(p).root,
                               !.pending = NoValue, !.pendingRoot = NoValue, !.last = Rq(p)]
          /\ Proceed(p, IF Mine(p).state = "db_committed" THEN "finalized" ELSE IfUntrailed(attempt[p].checkpoint))
          /\ UNCHANGED authDb
       \/ ~FinalizeAllowed(p) /\ Refuse(p)
    /\ Unmoved

MarkFinalized(p) ==
    /\ At(p, "finalized")
    /\ AdvanceCommit(p, "db_committed", "anchor_finalized", IfUntrailed(attempt[p].checkpoint))

\* advance_recovery: compare and set; a bound checkpoint needs its binding.
AdvanceCheckpoint(p, from, to, next) ==
    LET c == authDb.checkpoints[Rq(p)]
        ok == /\ c.state = from /\ c.receipt = attempt[p].receipt
              /\ to \in {"binding_persisted", "complete"} => authDb.bindings[Rq(p)] = c.receipt
    IN /\ \/ /\ ok
             /\ authDb' = [authDb EXCEPT !.checkpoints[Rq(p)].state = to]
             /\ attempt' = [attempt EXCEPT ![p].pc = next, ![p].checkpoint = to]
             /\ UNCHANGED sealed
          \/ ~ok /\ Refuse(p)
       /\ Unmoved

MarkAuthorityFinalized(p) ==
    At(p, "trail") /\ AdvanceCheckpoint(p, "prepared", "authority_finalized", "binding")

LoadBinding(p) ==
    /\ At(p, "binding")
    /\ LET b == authDb.bindings[Rq(p)] IN
       \/ b = 0 /\ Proceed(p, "newbinding")
       \/ b = attempt[p].receipt /\ Proceed(p, IfUnbound(attempt[p].checkpoint))
       \/ b \notin {0, attempt[p].receipt} /\ Reply(p)
    /\ UNCHANGED <<authDb, sealed>> /\ Unmoved

AppendBinding(p) ==
    /\ At(p, "newbinding")
    /\ \/ /\ authDb.bindings[Rq(p)] = 0
          /\ authDb' = [authDb EXCEPT !.bindings[Rq(p)] = attempt[p].receipt]
          /\ Proceed(p, IfUnbound(attempt[p].checkpoint)) /\ UNCHANGED sealed
       \/ authDb.bindings[Rq(p)] # 0 /\ Refuse(p)
    /\ Unmoved

PersistBinding(p) ==
    At(p, "bind") /\ AdvanceCheckpoint(p, "authority_finalized", "binding_persisted", "finish")
CompleteCheckpoint(p) ==
    At(p, "finish") /\ AdvanceCheckpoint(p, "binding_persisted", "complete", "heads")
CheckpointInvalid(p) == At(p, "invalid") /\ Refuse(p) /\ Unmoved

ReadHeads(p) ==
    /\ At(p, "heads")
    /\ attempt' = [attempt EXCEPT ![p].pc = "seal", ![p].heads = HistoryHeads]
    /\ UNCHANGED <<authDb, sealed>> /\ Unmoved

\* finalize_audit_histories: only of the last finalized intent, onto heads
\* that are pending as read, pending as sealed, or already sealed.
SealAllowed(p) ==
    /\ sealed.last = Rq(p)
    /\ IF sealed.pendingHeads = NoValue
       THEN sealed.heads = attempt[p].heads
       ELSE sealed.pendingHeads \in {attempt[p].heads, sealed.heads}

SealHeads(p) ==
    /\ At(p, "seal")
    /\ \/ /\ SealAllowed(p)
          /\ sealed' = [sealed EXCEPT !.heads = attempt[p].heads, !.pendingHeads = NoValue]
          /\ Proceed(p, "complete") /\ UNCHANGED authDb
       \/ ~SealAllowed(p) /\ Refuse(p)
    /\ Unmoved

-----------------------------------------------------------------------------
(* Faults                                                                   *)

\* The process dies, or a store raises after or instead of its write.
AttemptDies(p) ==
    /\ ~At(p, "idle")
    /\ IF scenario = "alone" THEN crashes < MaxCrashes /\ crashes' = crashes + 1
                             ELSE UNCHANGED crashes
    /\ Reply(p)
    /\ UNCHANGED <<authDb, sealed, proof, scenario, reads, tampers>>

\* The commitments of a generation are not those that were written.
Tamper(g) ==
    /\ scenario = "tampered"
    /\ tampers < MaxTampers
    /\ authDb.commitments[g] \notin {NoValue, Tampered}
    /\ authDb' = [authDb EXCEPT !.commitments[g] = Tampered]
    /\ tampers' = tampers + 1
    /\ UNCHANGED <<sealed, proof, attempt, scenario, crashes, reads>>

Attempt(p) ==
    \/ Claim(p) \/ CompleteEnvelope(p)
    \/ LoadIntent(p) \/ LoadAuthority(p) \/ LoadReceipt(p) \/ NumberReceipt(p) \/ AppendReceipt(p)
    \/ Plan(p) \/ Prepare(p) \/ Reserve(p) \/ MarkReserved(p)
    \/ LoadCheckpoint(p) \/ PrepareCheckpoint(p) \/ AddProject(p)
    \/ ValidateCommitments(p) \/ AppendCommitments(p)
    \/ QuarantineAuthority(p) \/ QuarantineCheckpoint(p) \/ QuarantineIntent(p)
    \/ CommitAuthority(p) \/ Finalize(p) \/ MarkFinalized(p)
    \/ MarkAuthorityFinalized(p) \/ LoadBinding(p) \/ AppendBinding(p)
    \/ PersistBinding(p) \/ CompleteCheckpoint(p) \/ CheckpointInvalid(p) \/ ReadHeads(p) \/ SealHeads(p)

AuthNext ==
    \/ \E r \in Requests : IssueProof(r) \/ AppendSnapshot(r)
    \/ \E p \in Procs, r \in Requests : Authorize(p, r)
    \/ \E p \in Procs : Attempt(p) \/ AttemptDies(p)
    \/ AuditedDecision
    \/ \E g \in DOMAIN authDb.commitments : Tamper(g)

AuthSpec == AuthInit /\ [][AuthNext]_authVars

-----------------------------------------------------------------------------
(* Properties                                                               *)

Committed(r) == authDb.intents[r].state \in {"db_committed", "anchor_finalized"}

\* The sealed generation and root are those of the authority row, or one
\* behind it while the committed intent still holds the reservation; no two
\* intents are in flight, and the committed ones form one chain of roots.
AnchorFollowsDatabase ==
    /\ \/ /\ sealed.generation = authDb.authority.generation
          /\ sealed.root = authDb.authority.root
       \/ /\ sealed.generation + 1 = authDb.authority.generation
          /\ sealed.pending # NoValue
          /\ authDb.intents[sealed.pending].state \in {"db_committed", "quarantined"}
          /\ authDb.intents[sealed.pending].root = authDb.authority.root
    /\ \A r \in Requests : authDb.intents[r].state = "anchor_finalized" => sealed.generation > authDb.intents[r].prior
    /\ \A q, r \in Requests : q # r =>
          /\ ~(authDb.intents[q].state \in InFlight /\ authDb.intents[r].state \in InFlight)
          /\ Committed(q) /\ Committed(r) =>
                /\ authDb.intents[q].prior # authDb.intents[r].prior
                /\ authDb.intents[r].prior = authDb.intents[q].prior + 1 => authDb.intents[r].priorRoot = authDb.intents[q].root

\* ProjectRepository._is_finalized: what get and list show.
Visible(r) ==
    /\ r \in authDb.projects
    /\ authDb.checkpoints[r].state = "complete"
    /\ authDb.bindings[r] # 0

\* A project that readers see, or whose create was answered, is anchored: its
\* intent is finalized in the database and in the keyring, its generation has
\* commitments, and an answered create is one that readers see.
CreatedIsAnchored ==
    \A r \in Requests :
        /\ Visible(r) =>
              /\ authDb.intents[r].state = "anchor_finalized"
              /\ sealed.generation > authDb.intents[r].prior
              /\ authDb.commitments[authDb.intents[r].prior + 1] \in {authDb.intents[r].root, Tampered}
        /\ authDb.envelopes[r] = "succeeded" => Visible(r)

\* Receipt, checkpoint and binding of a create are one trail, also when two
\* attempts of one request have each written a receipt.
OneAuditTrail ==
    \A r \in Requests : authDb.bindings[r] # 0 =>
        /\ authDb.receipts[authDb.bindings[r]].of = r
        /\ authDb.checkpoints[r].receipt = authDb.bindings[r]

\* Alone in its workspace a create is never refused: wherever its attempts
\* die, the next one that is not cut short ends with the project created.
RecoversAlone ==
    [][\A p \in Procs :
          /\ scenario = "alone" /\ crashes' = crashes
          /\ ~At(p, "idle") /\ At(p, "idle")'
          => authDb'.envelopes[Rq(p)] = "succeeded"]_authVars

\* Wherever attempts die or cross, the sealed anchor follows the database,
\* what readers see of a create is anchored, and its receipts agree.
AnchorSound == AnchorFollowsDatabase /\ CreatedIsAnchored /\ OneAuditTrail
=================================
