------------------------------- MODULE Delivery -------------------------------
(* delivery.py: a reviewed bundle is written over the files of a project     *)
(* and can be taken back.  Every command of the shell is a process of its    *)
(* own; what survives a crash is the bundle, its approval records, the       *)
(* encrypted backups and the journal, each written atomically.  All bundles  *)
(* of the model go to one destination and change all of its files, in order. *)
(* An exception that is not caught leaves the same durable state as a crash. *)
(* External: the file system, advisory locks that end with their process,    *)
(* and the user, who edits files at any time.                                *)
EXTENDS Integers, Sequences, FiniteSets

CONSTANTS
    Procs, Bundles,
    NumFiles,                \* changed_files of a bundle, in sorted order
    CandidateContents,           \* what a candidate may hold
    Original, Absent,        \* what files hold at the start
    Edited,                  \* what the user writes
    Nobody,
    MaxApprovals, MaxStops, MaxUserEdits   \* bounds: approvals, crashes, edits

ASSUME DeliveryBounds ==
    /\ NumFiles \in Nat \ {0} /\ {MaxApprovals, MaxStops, MaxUserEdits} \subseteq Nat
    /\ {Original, Absent, Edited} \cap CandidateContents = {}
    /\ Nobody \notin Procs \cup Bundles \cup CandidateContents \cup {Original, Absent, Edited}
    /\ "destination" \notin Bundles

Files == 1..NumFiles
FileContents == CandidateContents \cup {Original, Absent, Edited}

VARIABLES
    disk,       \* the destination: Files -> FileContents
    bundle,     \* bundle_root: [ready, baseline, delivered] of each bundle
    approvals,  \* approval records: sequence of [bundle, operation, state]
    backup,     \* the bundles whose backup directory exists
    journal,    \* journal.json of a bundle, or NoJournal
    proc,       \* what a process is doing: [pc, bundle, approval, file]
    lock,       \* who holds the lock of a bundle and of the destination
    stops, userEdits,   \* crashes and edits so far
    touched,    \* ghost: files the user has edited
    raced,      \* ghost: files edited between a check of them and the write that follows
    overlapped  \* ghost: an apply or an undo began while the journal of another bundle was unfinished

delVars == <<disk, bundle, approvals, backup, journal, proc, lock, stops, userEdits, touched, raced,
             overlapped>>
ghosts == <<touched, raced, overlapped>>
userVars == <<stops, userEdits>>

NoJournal == [status |-> "none", operation |-> "apply", approval |-> 0, undoApproval |-> 0,
              receipt |-> FALSE, state |-> [f \in Files |-> "pending"]]
Idle == [pc |-> "idle", bundle |-> Nobody, approval |-> 0, file |-> 0]

Unfinished(b) == journal[b].status \in {"prepared", "applying", "rolling_back", "undoing"}

DelInit ==
    /\ disk = [f \in Files |-> IF f = 1 THEN Original ELSE Absent]
    /\ bundle = [b \in Bundles |-> [ready |-> FALSE, baseline |-> [f \in Files |-> Nobody],
                                    delivered |-> [f \in Files |-> Nobody]]]
    /\ approvals = <<>> /\ backup = {}
    /\ journal = [b \in Bundles |-> NoJournal]
    /\ proc = [p \in Procs |-> Idle]
    /\ lock = [x \in Bundles \cup {"destination"} |-> Nobody]
    /\ stops = 0 /\ userEdits = 0 /\ touched = {} /\ raced = {} /\ overlapped = FALSE

-----------------------------------------------------------------------------
(* package: stages the candidate and reads the baseline file by file,       *)
(* without a lock; the manifest comes last.                                 *)
BeginPackage(p, b) ==
    /\ proc[p] = Idle /\ bundle[b].baseline[1] = Nobody
    /\ \A q \in Procs : proc[q].bundle # b
    /\ \E c \in [Files -> CandidateContents] : bundle' = [bundle EXCEPT ![b].delivered = c]
    /\ proc' = [proc EXCEPT ![p] = [pc |-> "package", bundle |-> b, approval |-> 0, file |-> 1]]
    /\ UNCHANGED <<disk, approvals, backup, journal, lock, userVars, ghosts>>

ReadBaseline(p) ==
    LET b == proc[p].bundle  f == proc[p].file IN
    /\ proc[p].pc = "package" /\ f <= NumFiles
    /\ bundle' = [bundle EXCEPT ![b].baseline[f] = disk[f]]
    /\ proc' = [proc EXCEPT ![p].file = f + 1]
    /\ UNCHANGED <<disk, approvals, backup, journal, lock, userVars, ghosts>>

(* The reports, the manifest and the checksums; load and apply refuse a     *)
(* bundle without them.                                                     *)
SealBundle(p) ==
    /\ proc[p].pc = "package" /\ proc[p].file = NumFiles + 1
    /\ bundle' = [bundle EXCEPT ![proc[p].bundle].ready = TRUE]
    /\ proc' = [proc EXCEPT ![p] = Idle]
    /\ UNCHANGED <<disk, approvals, backup, journal, lock, userVars, ghosts>>

(* load and _verified_bundle_payloads: manifest, checksums and every staged *)
(* file agree; nothing in the model alters a bundle once it is sealed.      *)
Verified(b) == bundle[b].ready

(* approve writes a new record; approve_undo takes the locks and asks for   *)
(* an applied receipt.                                                      *)
Approve(b) ==
    /\ Verified(b) /\ Len(approvals) < MaxApprovals
    /\ approvals' = Append(approvals, [bundle |-> b, operation |-> "apply", state |-> "approved"])
    /\ UNCHANGED <<disk, bundle, backup, journal, proc, lock, userVars, ghosts>>

LocksFree(b) == lock[b] = Nobody /\ lock["destination"] = Nobody

ApproveUndo(b) ==
    /\ LocksFree(b) /\ journal[b].status = "applied" /\ journal[b].receipt
    /\ Len(approvals) < MaxApprovals
    /\ approvals' = Append(approvals, [bundle |-> b, operation |-> "undo", state |-> "approved"])
    /\ UNCHANGED <<disk, bundle, backup, journal, proc, lock, userVars, ghosts>>

-----------------------------------------------------------------------------

(* _delivery_locks: both locks, without waiting; a process that finds one   *)
(* held gives up.  Leaving the block, or dying, releases both.              *)
TakeLocks(p, b) == /\ LocksFree(b)
                   /\ lock' = [lock EXCEPT ![b] = p, !["destination"] = p]
Released(p) == [x \in DOMAIN lock |-> IF lock[x] = p THEN Nobody ELSE lock[x]]

Leave(p) == proc' = [proc EXCEPT ![p] = Idle] /\ lock' = Released(p)
At(p, pc) == proc[p].pc = pc
GoTo(p, pc, f) == proc' = [proc EXCEPT ![p].pc = pc, ![p].file = f] /\ UNCHANGED lock

(* _available_approval_record                                               *)
Available(a, b, op) == approvals[a] = [bundle |-> b, operation |-> op, state |-> "approved"]
Consumed(a) == [approvals EXCEPT ![a].state = "consumed"]

(* Neither an apply nor an undo looks at the journals of other bundles.     *)
Overlaps(b) ==
    /\ overlapped' = (overlapped \/ \E c \in Bundles \ {b} : Unfinished(c))
    /\ UNCHANGED <<touched, raced>>

(* _apply_locked up to the backups: the destination must hold the baseline  *)
(* of every file, and a backup directory is made only once for a bundle.    *)
BeginApply(p, b, a) ==
    /\ proc[p] = Idle /\ Verified(b) /\ Available(a, b, "apply")
    /\ disk = bundle[b].baseline /\ b \notin backup
    /\ TakeLocks(p, b)
    /\ backup' = backup \cup {b}
    /\ proc' = [proc EXCEPT ![p] = [pc |-> "intent", bundle |-> b, approval |-> a, file |-> 0]]
    /\ Overlaps(b)
    /\ UNCHANGED <<disk, bundle, approvals, journal, userVars>>

(* The journal is written before the approval is claimed.                   *)
PersistIntent(p) ==
    LET b == proc[p].bundle IN
    /\ At(p, "intent")
    /\ journal' = [journal EXCEPT ![b] = [NoJournal EXCEPT !.status = "prepared",
                                                           !.approval = proc[p].approval]]
    /\ GoTo(p, "claim", 0)
    /\ UNCHANGED <<disk, bundle, approvals, backup, userVars, ghosts>>

ClaimApproval(p) ==
    LET b == proc[p].bundle  a == proc[p].approval IN
    /\ At(p, "claim")
    /\ IF Available(a, b, "apply")
       THEN approvals' = Consumed(a) /\ GoTo(p, "applying", 0)
       ELSE UNCHANGED approvals /\ Leave(p)
    /\ UNCHANGED <<disk, bundle, backup, journal, userVars, ghosts>>

StartWriting(p) ==
    /\ At(p, "applying")
    /\ journal' = [journal EXCEPT ![proc[p].bundle].status = "applying"]
    /\ GoTo(p, "check", 1)
    /\ UNCHANGED <<disk, bundle, approvals, backup, userVars, ghosts>>

(* One file: its baseline is checked again and the journal says "writing"   *)
(* before the write; the write is verified before the journal says          *)
(* "delivered".  Whatever raises inside the loop ends in _restore.          *)
CheckFile(p) ==
    LET b == proc[p].bundle  f == proc[p].file IN
    /\ At(p, "check")
    /\ \/ /\ disk[f] = bundle[b].baseline[f]
          /\ journal' = [journal EXCEPT ![b].state[f] = "writing"]
          /\ GoTo(p, "write", f)
       \/ UNCHANGED journal /\ GoTo(p, "restore", 0)
    /\ UNCHANGED <<disk, bundle, approvals, backup, userVars, ghosts>>

WriteFile(p) ==
    LET b == proc[p].bundle  f == proc[p].file IN
    /\ At(p, "write")
    /\ \/ disk' = [disk EXCEPT ![f] = bundle[b].delivered[f]] /\ GoTo(p, "verify", f)
       \/ UNCHANGED disk /\ GoTo(p, "restore", 0)
    /\ UNCHANGED <<bundle, approvals, backup, journal, userVars, ghosts>>

VerifyFile(p) ==
    LET b == proc[p].bundle  f == proc[p].file IN
    /\ At(p, "verify")
    /\ \/ /\ disk[f] = bundle[b].delivered[f]
          /\ journal' = [journal EXCEPT ![b].state[f] = "delivered"]
          /\ IF f = NumFiles THEN GoTo(p, "finish", f) ELSE GoTo(p, "check", f + 1)
       \/ UNCHANGED journal /\ GoTo(p, "restore", 0)
    /\ UNCHANGED <<disk, bundle, approvals, backup, userVars, ghosts>>

(* The receipt and "applied" are one write of the journal.  The write may   *)
(* raise after the journal has been replaced: then the delivery is taken    *)
(* back although its journal said applied.                                  *)
FinishApply(p) ==
    /\ At(p, "finish")
    /\ journal' = [journal EXCEPT ![proc[p].bundle].status = "applied",
                                  ![proc[p].bundle].receipt = TRUE]
    /\ Leave(p) \/ GoTo(p, "restore", 0)
    /\ UNCHANGED <<disk, bundle, approvals, backup, userVars, ghosts>>

-----------------------------------------------------------------------------
(* _restore: files in reverse order; a file never reached is skipped, one   *)
(* that holds neither its baseline nor the delivered content stops the      *)
(* restore where it is.                                                     *)
BeginRestore(p) ==
    /\ At(p, "restore")
    /\ journal' = [journal EXCEPT ![proc[p].bundle].status = "rolling_back"]
    /\ GoTo(p, "back", NumFiles)
    /\ UNCHANGED <<disk, bundle, approvals, backup, userVars, ghosts>>

\* Mistake: a file is restored whatever it holds.
RestoreUnchecked(p) ==
    LET b == proc[p].bundle  f == proc[p].file IN
    /\ At(p, "back") /\ f > 0
    /\ IF journal[b].state[f] = "pending" THEN GoTo(p, "back", f - 1) ELSE GoTo(p, "put", f)
    /\ UNCHANGED <<disk, bundle, approvals, backup, journal, userVars, ghosts>>

RestoreCheck(p) ==
    LET b == proc[p].bundle  f == proc[p].file IN
    /\ At(p, "back") /\ f > 0
    /\ IF journal[b].state[f] = "pending" THEN GoTo(p, "back", f - 1)
       ELSE IF disk[f] \in {bundle[b].baseline[f], bundle[b].delivered[f]} THEN GoTo(p, "put", f)
       ELSE Leave(p)
    /\ UNCHANGED <<disk, bundle, approvals, backup, journal, userVars, ghosts>>

RestoreFile(p) ==
    LET b == proc[p].bundle  f == proc[p].file IN
    /\ At(p, "put")
    /\ disk' = [disk EXCEPT ![f] = bundle[b].baseline[f]]
    /\ GoTo(p, "mark", f)
    /\ UNCHANGED <<bundle, approvals, backup, journal, userVars, ghosts>>

MarkRestored(p) ==
    LET b == proc[p].bundle  f == proc[p].file IN
    /\ At(p, "mark")
    /\ journal' = [journal EXCEPT ![b].state[f] = "restored"]
    /\ GoTo(p, "back", f - 1)
    /\ UNCHANGED <<disk, bundle, approvals, backup, userVars, ghosts>>

FinishRestore(p) ==
    /\ At(p, "back") /\ proc[p].file = 0
    /\ journal' = [journal EXCEPT ![proc[p].bundle].status = "rolled_back"]
    /\ Leave(p)
    /\ UNCHANGED <<disk, bundle, approvals, backup, userVars, ghosts>>

-----------------------------------------------------------------------------
(* _undo_locked                                                             *)
BeginUndo(p, b, a) ==
    /\ proc[p] = Idle /\ Available(a, b, "undo")
    /\ journal[b].status = "applied" /\ disk = bundle[b].delivered
    /\ TakeLocks(p, b)
    /\ journal' = [journal EXCEPT ![b].status = "undoing", ![b].operation = "undo",
                                  ![b].undoApproval = a]
    /\ proc' = [proc EXCEPT ![p] = [pc |-> "claimUndo", bundle |-> b, approval |-> a, file |-> 0]]
    /\ Overlaps(b)
    /\ UNCHANGED <<disk, bundle, approvals, backup, userVars>>

ClaimUndo(p) ==
    LET b == proc[p].bundle  a == proc[p].approval IN
    /\ At(p, "claimUndo")
    /\ IF Available(a, b, "undo") THEN approvals' = Consumed(a) /\ GoTo(p, "restore", 0)
                                  ELSE UNCHANGED approvals /\ Leave(p)
    /\ UNCHANGED <<disk, bundle, backup, journal, userVars, ghosts>>

\* Mistake: recovery leaves the approval of the interrupted operation usable.
RecoverWithoutConsuming(p, b) ==
    /\ proc[p] = Idle /\ Unfinished(b)
    /\ TakeLocks(p, b)
    /\ proc' = [proc EXCEPT ![p] = [pc |-> "restore", bundle |-> b, approval |-> 0, file |-> 0]]
    /\ UNCHANGED <<disk, approvals, bundle, backup, journal, userVars, ghosts>>

(* _recover_locked: the approval of the interrupted operation is consumed   *)
(* if it was not, then what was written is taken back.                      *)
BeginRecover(p, b) ==
    /\ proc[p] = Idle /\ Unfinished(b)
    /\ TakeLocks(p, b)
    /\ LET a == IF journal[b].operation = "undo" THEN journal[b].undoApproval
                                                 ELSE journal[b].approval
       IN approvals' = Consumed(a)
    /\ proc' = [proc EXCEPT ![p] = [pc |-> "restore", bundle |-> b, approval |-> 0, file |-> 0]]
    /\ UNCHANGED <<disk, bundle, backup, journal, userVars, ghosts>>

-----------------------------------------------------------------------------
(* A process dies, or an exception leaves it before its work is done.       *)
Stop(p) ==
    /\ proc[p] # Idle /\ stops < MaxStops
    /\ Leave(p) /\ stops' = stops + 1
    /\ UNCHANGED <<disk, bundle, approvals, backup, journal, userEdits, ghosts>>

UserEdit(f) ==
    /\ userEdits < MaxUserEdits /\ disk[f] # Edited
    /\ disk' = [disk EXCEPT ![f] = Edited] /\ userEdits' = userEdits + 1
    /\ touched' = touched \cup {f}
    /\ raced' = IF \E p \in Procs : proc[p].pc \in {"write", "put"} /\ proc[p].file = f
                THEN raced \cup {f} ELSE raced
    /\ UNCHANGED <<bundle, approvals, backup, journal, proc, lock, stops, overlapped>>

Work(p) ==
    \/ PersistIntent(p) \/ ClaimApproval(p) \/ StartWriting(p) \/ CheckFile(p) \/ WriteFile(p)
    \/ VerifyFile(p) \/ FinishApply(p) \/ BeginRestore(p) \/ RestoreCheck(p) \/ RestoreFile(p)
    \/ MarkRestored(p) \/ FinishRestore(p) \/ ClaimUndo(p) \/ ReadBaseline(p) \/ SealBundle(p)

DelNext ==
    \/ \E p \in Procs : Work(p) \/ Stop(p)
    \/ \E p \in Procs, b \in Bundles : BeginPackage(p, b) \/ BeginRecover(p, b)
    \/ \E p \in Procs, b \in Bundles, a \in DOMAIN approvals :
           BeginApply(p, b, a) \/ BeginUndo(p, b, a)
    \/ \E b \in Bundles : Approve(b) \/ ApproveUndo(b)
    \/ \E f \in Files : UserEdit(f)

DelSpec == DelInit /\ [][DelNext]_delVars

-----------------------------------------------------------------------------
(* AllOrNothing: when every delivery has ended (applied, or rolled back by   *)
(* an exception, an undo or a recovery after a crash at any point), the      *)
(* files the user has not edited are together what they were at the start    *)
(* or together what one bundle delivered, never a mixture.  It takes that no *)
(* apply or undo began over the unfinished journal of another bundle, which  *)
(* the code allows: the content of a file does not tell which bundle wrote it. *)
Ended == \A p \in Procs : proc[p].pc \in {"idle", "package"}
AllOrNothing ==
    (Ended /\ ~overlapped /\ \A b \in Bundles : ~Unfinished(b)) =>
        \/ \A f \in Files \ touched : disk[f] = IF f = 1 THEN Original ELSE Absent
        \/ \E b \in backup : \A f \in Files \ touched : disk[f] = bundle[b].delivered[f]

(* NothingWrittenUnapproved: a bundle has touched a file only if the approval *)
(* its journal names has been consumed, so no crash leaves an approval that  *)
(* has taken effect and can be used again; the same for an undo.             *)
NothingWrittenUnapproved ==
    \A b \in Bundles :
        /\ (\E f \in Files : journal[b].state[f] # "pending") =>
               approvals[journal[b].approval].state = "consumed"
        /\ (journal[b].operation = "undo" /\ journal[b].status \in {"rolling_back", "rolled_back"})
               => approvals[journal[b].undoApproval].state = "consumed"
        /\ journal[b].status = "rolled_back" => approvals[journal[b].approval].state = "consumed"

(* EditsSurvive: what the user wrote into a file is overwritten only if a    *)
(* bundle was packaged over it, and then it is in that bundle's backup, or   *)
(* if the edit fell between a check of the file and the write that follows.  *)
EditsSurvive ==
    [][\A f \in Files : (disk[f] = Edited /\ disk'[f] # Edited) =>
           f \in raced \/ \E b \in backup : bundle[b].baseline[f] = Edited]_delVars

(* A delivery is whole or taken back, under an approval used once, wherever *)
(* its process died.                                                        *)
DeliverySound == AllOrNothing /\ NothingWrittenUnapproved
================================================================================
