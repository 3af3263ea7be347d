--------------------------- MODULE Contributions ---------------------------
(***************************************************************************)
(* Publishing a reviewed run: ContributionService                          *)
(* (corvus/mvp/contributions.py) under the handlers of the API             *)
(* (corvus/mvp/api.py) that also move the run, beside discard.             *)
(*                                                                         *)
(* One run.  Every request is a thread of the service's pool; a step is    *)
(* one Git or GitHub command or one transaction.  The selected files are   *)
(* one value, their bytes; a commit is the bytes it holds.  A request that *)
(* differs from the stored one is refused without a change and left out.   *)
(***************************************************************************)
EXTENDS Naturals

CONSTANTS
    Preparers, Publishers, Discarders,  \* the threads of the three requests
    Contents,   \* bytes the agent or an editor may leave in the selected files
    Secrets,    \* those the secret scan blocks
    Base,       \* the bytes at the pinned base commit
    Foreign,    \* a commit somebody else pushed
    None,       \* SQL NULL, no branch on the remote
    MaxEdits,   \* bound: changes by an editor, a file watcher or on the remote
    MaxCrashes  \* bound: deaths of the service

ASSUME ContributionAssumption ==
    /\ Secrets \subseteq Contents
    /\ Base \notin Contents /\ Foreign \notin Contents /\ None \notin Contents
    /\ None # Foreign
    /\ Preparers \cap Publishers = {} /\ Preparers \cap Discarders = {}
    /\ Publishers \cap Discarders = {}
    /\ MaxEdits \in Nat /\ MaxCrashes \in Nat

Threads == Preparers \cup Publishers \cup Discarders

VARIABLES
    run,        \* mvp_runs.status
    state,      \* mvp_contributions.state, "none" before the insert
    reviewed,   \* change_digest: the bytes that were reviewed and scanned
    commit,     \* commit_sha
    tree,       \* the worktree and its lease are there
    bytes,      \* the selected files in the worktree
    index,      \* the selected files in the Git index
    branch,     \* the contribution's branch exists and is checked out
    head,       \* the commit at HEAD
    remote,     \* the head of the branch on the remote
    pull,       \* the pull request exists
    pc,         \* where a thread is
    saw,        \* the run status or record state a thread has read
    held,       \* the digest or commit a thread carries to its next statement
    edits, crashes

row == <<state, reviewed, commit>>
git == <<tree, bytes, index, branch, head>>
hub == <<remote, pull>>
thread == <<pc, saw, held>>
vars == <<run, row, git, hub, thread, edits, crashes>>

RunStatus ==
    {"review_required", "contribution_ready", "publishing", "published", "discarded"}
Labels ==
    {"idle", "insert", "reread", "resume", "branch", "branched", "stage", "staged",
     "commit", "record", "prepared", "read", "push", "push_done", "check", "pull",
     "opened", "done", "failing", "remove", "mark"}
States == {"none", "preparing", "branch_created", "committed", "pushed", "published"}

\* A finished build run waits for its review.
Init ==
    /\ run = "review_required"
    /\ state = "none" /\ reviewed = None /\ commit = None
    /\ tree = TRUE /\ bytes \in Contents /\ index = Base
    /\ branch = FALSE /\ head = Base
    /\ remote = None /\ pull = FALSE
    /\ pc = [t \in Threads |-> "idle"]
    /\ saw = [t \in Threads |-> "none"]
    /\ held = [t \in Threads |-> None]
    /\ edits = 0 /\ crashes = 0

----------------------------------------------------------------------------
(* The statements of a thread. *)

Goto(t, label) == pc' = [pc EXCEPT ![t] = label]

Reads(t, value) == saw' = [saw EXCEPT ![t] = value]

\* The request ends, or raises, and leaves nothing more to do.
Leaves(t) ==
    /\ Goto(t, "idle")
    /\ Reads(t, "none")
    /\ held' = [held EXCEPT ![t] = None]

\* _revalidate_prepare: the files still differ from HEAD, are the reviewed
\* ones and pass the scan.
Valid == tree /\ bytes # head /\ bytes = reviewed /\ bytes \notin Secrets

----------------------------------------------------------------------------
(* Plausible mistakes in the code, for the checks of the properties. *)

\* The files are not read again after git add.
RevalidateNothing(t) ==
    /\ pc[t] = "staged"
    /\ Goto(t, "commit")
    /\ UNCHANGED <<run, row, git, hub, saw, held, edits, crashes>>

\* A failed push starts the contribution again.
PushFailsResets(t) ==
    /\ pc[t] = "push"
    /\ state' = "preparing"
    /\ Goto(t, "failing")
    /\ UNCHANGED <<run, reviewed, commit, git, hub, saw, held, edits, crashes>>

\* The transition to discarded does not look at the status again.
DiscardableAlways == TRUE

----------------------------------------------------------------------------
(* POST .../contribution/prepare. *)

\* A new contribution reviews and scans the files; a known one is resumed.
PrepareBegins(t) ==
    /\ pc[t] = "idle"
    /\ run \in {"review_required", "contribution_ready"}
    /\ tree
    /\ IF state = "none"
       THEN /\ bytes # head /\ bytes \notin Secrets
            /\ held' = [held EXCEPT ![t] = bytes]
            /\ Goto(t, "insert")
       ELSE /\ UNCHANGED held
            /\ Goto(t, "reread")
    /\ UNCHANGED <<run, row, git, hub, saw, edits, crashes>>

PrepareInserts(t) ==
    /\ pc[t] = "insert"
    /\ IF state = "none"
       THEN /\ state' = "preparing"
            /\ reviewed' = held[t]
            /\ Goto(t, "reread")
            /\ UNCHANGED <<saw, held>>
       ELSE /\ Leaves(t)
            /\ UNCHANGED <<state, reviewed>>
    /\ UNCHANGED <<run, commit, git, hub, edits, crashes>>

PrepareReads(t) ==
    /\ pc[t] = "reread"
    /\ Reads(t, state)
    /\ Goto(t, "resume")
    /\ UNCHANGED <<run, row, git, hub, held, edits, crashes>>

\* _resume_prepare, by the state that was read: the statement that follows
\* when the files are valid, or the end.
Resumed(read) ==
    CASE read = "preparing" -> "branch"
      [] read = "branch_created" -> "stage"
      [] OTHER -> "prepared"

Resume(t) ==
    /\ pc[t] = "resume"
    /\ IF Resumed(saw[t]) = "prepared" \/ Valid
       THEN Goto(t, Resumed(saw[t])) /\ UNCHANGED <<saw, held>>
       ELSE Leaves(t)
    /\ UNCHANGED <<run, row, git, hub, edits, crashes>>

\* switch -c, or the branch is checked out and still at the base.
CreateBranch(t) ==
    /\ pc[t] = "branch"
    /\ IF tree /\ (branch => head = Base)
       THEN /\ branch' = TRUE
            /\ Goto(t, "branched")
            /\ UNCHANGED <<saw, held>>
       ELSE Leaves(t) /\ UNCHANGED branch
    /\ UNCHANGED <<run, row, tree, bytes, index, head, hub, edits, crashes>>

SetBranchCreated(t) ==
    /\ pc[t] = "branched"
    /\ state' = "branch_created"
    /\ Goto(t, "reread")
    /\ UNCHANGED <<run, reviewed, commit, git, hub, saw, held, edits, crashes>>

\* _existing_commit: HEAD is not the base, so it is a commit with the message
\* and the paths of the contribution (made or amended here).
ExistingCommit == tree /\ head # Base

\* _commit_selected: take the commit that exists, or reset and add.
Stage(t) ==
    /\ pc[t] = "stage"
    /\ IF ExistingCommit
       THEN /\ held' = [held EXCEPT ![t] = head]
            /\ Goto(t, "record")
            /\ UNCHANGED <<index, saw>>
       ELSE IF tree /\ bytes # head
       THEN /\ index' = bytes
            /\ Goto(t, "staged")
            /\ UNCHANGED <<saw, held>>
       ELSE Leaves(t) /\ UNCHANGED index
    /\ UNCHANGED <<run, row, tree, bytes, branch, head, hub, edits, crashes>>

\* The files are read and scanned again after git add.
Revalidate(t) ==
    /\ pc[t] = "staged"
    /\ IF Valid
       THEN Goto(t, "commit") /\ UNCHANGED <<saw, held>>
       ELSE Leaves(t)
    /\ UNCHANGED <<run, row, git, hub, edits, crashes>>

\* git commit takes the index as it is now.
Commit(t) ==
    /\ pc[t] = "commit"
    /\ IF tree /\ index # head
       THEN /\ head' = index
            /\ held' = [held EXCEPT ![t] = index]
            /\ Goto(t, "record")
            /\ UNCHANGED saw
       ELSE Leaves(t) /\ UNCHANGED head
    /\ UNCHANGED <<run, row, tree, bytes, index, branch, hub, edits, crashes>>

SetCommitted(t) ==
    /\ pc[t] = "record"
    /\ state' = "committed"
    /\ commit' = held[t]
    /\ Goto(t, "prepared")
    /\ UNCHANGED <<run, reviewed, git, hub, saw, held, edits, crashes>>

\* The handler moves a run it found in review on.
PrepareEnds(t) ==
    /\ pc[t] = "prepared"
    /\ run' = IF run = "review_required" THEN "contribution_ready" ELSE run
    /\ Leaves(t)
    /\ UNCHANGED <<row, git, hub, edits, crashes>>

----------------------------------------------------------------------------
(* POST .../contribution/publish. *)

\* The handler reads the run and marks it; a published or publishing run is
\* accepted too, which makes a publish that died resumable.
PublishBegins(t) ==
    /\ pc[t] = "idle"
    /\ run \in {"contribution_ready", "publishing", "published"}
    /\ run' = IF run = "contribution_ready" THEN "publishing" ELSE run
    /\ Goto(t, "read")
    /\ UNCHANGED <<row, git, hub, saw, held, edits, crashes>>

\* The statement that follows the state of the record and its lease.
PublishStep ==
    CASE state = "published" -> "done"
      [] state = "committed" /\ tree -> "push"
      [] state = "pushed" /\ tree -> "check"
      [] OTHER -> "failing"

PublishReads(t) ==
    /\ pc[t] = "read"
    /\ Goto(t, PublishStep)
    /\ UNCHANGED <<run, row, git, hub, saw, held, edits, crashes>>

\* A push without force of the recorded commit, if the branch is still at it.
CanPush == tree /\ head = commit /\ remote \in {None, commit}

Push(t) ==
    /\ pc[t] = "push"
    /\ CanPush
    /\ remote' = commit
    /\ Goto(t, "push_done")
    /\ UNCHANGED <<run, row, git, pull, saw, held, edits, crashes>>

\* It is refused, does not reach the remote, or reaches it without an answer.
PushFails(t) ==
    /\ pc[t] = "push"
    /\ remote' \in {remote} \cup {c \in {commit} : CanPush}
    /\ Goto(t, "failing")
    /\ UNCHANGED <<run, row, git, pull, saw, held, edits, crashes>>

SetPushed(t) ==
    /\ pc[t] = "push_done"
    /\ state' = "pushed"
    /\ Goto(t, "check")
    /\ UNCHANGED <<run, reviewed, commit, git, hub, saw, held, edits, crashes>>

\* ls-remote must name the recorded commit.
CheckRemote(t) ==
    /\ pc[t] = "check"
    /\ \E answer \in BOOLEAN :
          Goto(t, IF answer /\ tree /\ remote = commit THEN "pull" ELSE "failing")
    /\ UNCHANGED <<run, row, git, hub, saw, held, edits, crashes>>

\* The pull request is created, or found by its branches after an error.
OpenPull(t) ==
    /\ pc[t] = "pull"
    /\ pull' = TRUE
    /\ Goto(t, "opened")
    /\ UNCHANGED <<run, row, git, remote, saw, held, edits, crashes>>

\* It is not created, or created and not found.
OpenPullFails(t) ==
    /\ pc[t] = "pull"
    /\ pull' \in {pull, TRUE}
    /\ Goto(t, "failing")
    /\ UNCHANGED <<run, row, git, remote, saw, held, edits, crashes>>

SetPublished(t) ==
    /\ pc[t] = "opened"
    /\ state' = "published"
    /\ Goto(t, "done")
    /\ UNCHANGED <<run, reviewed, commit, git, hub, saw, held, edits, crashes>>

PublishEnds(t) ==
    /\ pc[t] = "done"
    /\ run' = IF run = "publishing" THEN "published" ELSE run
    /\ Leaves(t)
    /\ UNCHANGED <<row, git, hub, edits, crashes>>

\* The handler's except clause gives the run back.
PublishFails(t) ==
    /\ pc[t] = "failing"
    /\ run' = IF run = "publishing" THEN "contribution_ready" ELSE run
    /\ Leaves(t)
    /\ UNCHANGED <<row, git, hub, edits, crashes>>

----------------------------------------------------------------------------
(* Discard (RunLifecycle has its details), the world outside and crashes. *)

DiscardChecks(t) ==
    /\ pc[t] = "idle"
    /\ run \in {"review_required", "contribution_ready"}
    /\ Goto(t, "remove")
    /\ UNCHANGED <<run, row, git, hub, saw, held, edits, crashes>>

DiscardRemoves(t) ==
    /\ pc[t] = "remove"
    /\ IF tree
       THEN tree' = FALSE /\ Goto(t, "mark") /\ UNCHANGED <<saw, held>>
       ELSE Leaves(t) /\ UNCHANGED tree
    /\ UNCHANGED <<run, row, bytes, index, branch, head, hub, edits, crashes>>

\* RunStore.transition refuses to discard a run that is being published.
Discardable == run \in {"review_required", "contribution_ready"}

DiscardRecords(t) ==
    /\ pc[t] = "mark"
    /\ run' = IF Discardable THEN "discarded" ELSE run
    /\ Leaves(t)
    /\ UNCHANGED <<row, git, hub, edits, crashes>>

\* An editor or a file watcher writes a selected file.
Edit ==
    /\ tree /\ edits < MaxEdits
    /\ \E c \in Contents \ {bytes} : bytes' = c
    /\ edits' = edits + 1
    /\ UNCHANGED <<run, row, tree, index, branch, head, hub, thread, crashes>>

\* Somebody amends the commit in the worktree.
Amend ==
    /\ tree /\ head # Base /\ edits < MaxEdits
    /\ \E c \in Contents \ {head} : bytes' = c /\ index' = c /\ head' = c
    /\ edits' = edits + 1
    /\ UNCHANGED <<run, row, tree, branch, hub, thread, crashes>>

\* Somebody pushes to the branch on the remote.
RemoteMoves ==
    /\ remote # None /\ edits < MaxEdits
    /\ remote' = Foreign
    /\ edits' = edits + 1
    /\ UNCHANGED <<run, row, git, pull, thread, crashes>>

\* The service dies and starts again; recovery looks at preparing and running
\* runs only.
Crash ==
    /\ crashes < MaxCrashes
    /\ crashes' = crashes + 1
    /\ pc' = [t \in Threads |-> "idle"]
    /\ saw' = [t \in Threads |-> "none"]
    /\ held' = [t \in Threads |-> None]
    /\ UNCHANGED <<run, row, git, hub, edits>>

Prepare(t) ==
    \/ PrepareBegins(t) \/ PrepareInserts(t) \/ PrepareReads(t) \/ Resume(t)
    \/ CreateBranch(t) \/ SetBranchCreated(t)
    \/ Stage(t) \/ Revalidate(t) \/ Commit(t) \/ SetCommitted(t) \/ PrepareEnds(t)

Publish(t) ==
    \/ PublishBegins(t) \/ PublishReads(t)
    \/ Push(t) \/ PushFails(t) \/ SetPushed(t) \/ CheckRemote(t)
    \/ OpenPull(t) \/ OpenPullFails(t) \/ SetPublished(t)
    \/ PublishEnds(t) \/ PublishFails(t)

Discard(t) == DiscardChecks(t) \/ DiscardRemoves(t) \/ DiscardRecords(t)

Next ==
    \/ \E t \in Preparers : Prepare(t)
    \/ \E t \in Publishers : Publish(t)
    \/ \E t \in Discarders : Discard(t)
    \/ Edit \/ Amend \/ RemoteMoves \/ Crash

Spec == Init /\ [][Next]_vars

----------------------------------------------------------------------------
(* Properties. *)

\* Every column, Git ref and thread holds a value of its kind: no statement
\* records a digest or a commit that was not taken before.
TypeOK ==
    /\ run \in RunStatus
    /\ state \in States
    /\ reviewed \in Contents \cup {None}
    /\ commit \in Contents \cup {None}
    /\ tree \in BOOLEAN /\ branch \in BOOLEAN /\ pull \in BOOLEAN
    /\ bytes \in Contents
    /\ index \in Contents \cup {Base} /\ head \in Contents \cup {Base}
    /\ remote \in Contents \cup {None, Foreign}
    /\ pc \in [Threads -> Labels]
    /\ saw \in [Threads -> States]
    /\ held \in [Threads -> Contents \cup {None}]
    /\ \A t \in Threads : pc[t] \in {"insert", "record"} => held[t] # None
    /\ \A t \in Threads : pc[t] \in {"staged", "commit"} => index # Base
    /\ edits \in Nat /\ crashes \in Nat

\* What leaves the machine is what a person reviewed and the scan let pass,
\* although the agent's files may change under prepare: what is pushed has the
\* digest that the confirmation names.
PublishedIsReviewed ==
    remote \in Contents => remote = reviewed /\ remote \notin Secrets

\* "The operation is resumable and idempotent": a commit that prepare has
\* recorded stays recorded, whoever calls prepare or publish again.
CommitStaysRecorded ==
    [][(state \in {"committed", "pushed", "published"})
         => (state' \in {"committed", "pushed", "published"})]_state

\* A run is published only when its pull request exists, for every order of
\* failures, lost answers, retries and crashes.
PublishedRunIsReal == run = "published" => pull /\ commit # None

(* What the world sees of a contribution is what a person approved, and    *)
(* what the service says of it is there (publish, _commit_selected).       *)
PublishedSound == PublishedIsReviewed /\ PublishedRunIsReal

\* Once a run is discarded nothing of it is pushed or proposed any more:
\* discard and publish exclude each other by the status of the run.
NothingAfterDiscard ==
    [][run = "discarded" => (remote' \in {remote, Foreign} /\ pull' = pull)]_vars
=============================================================================
