----------------------------- MODULE DeliveryProofs -----------------------------
(* Theorems about the two ways work leaves the workspace: Delivery, for any     *)
(* number of processes, bundles, files, approvals, crashes and edits, and then   *)
(* Contributions, for any number of requests at once, contents, edits, crashes.  *)
EXTENDS Delivery, Contributions, SequenceTheorems, TLAPS

StepLabels == {"idle", "package", "intent", "claim", "applying", "check", "write", "verify", "finish",
           "restore", "back", "put", "mark", "claimUndo"}
Statuses == {"none", "prepared", "applying", "applied", "rolling_back", "rolled_back", "undoing"}
FileStates == {"pending", "writing", "delivered", "restored"}
BundleRecords == [ready : BOOLEAN, baseline : [Files -> FileContents \cup {Nobody}],
                  delivered : [Files -> CandidateContents \cup {Nobody}]]
ApprovalRecords == [bundle : Bundles, operation : {"apply", "undo"}, state : {"approved", "consumed"}]
JournalRecords == [status : Statuses, operation : {"apply", "undo"}, approval : Nat,
                   undoApproval : Nat, receipt : BOOLEAN, state : [Files -> FileStates]]
ProcRecords == [pc : StepLabels, bundle : Bundles \cup {Nobody}, approval : Nat, file : Nat]

(* What every file, record and process holds. *)
DelTypeOK ==
    /\ disk \in [Files -> FileContents]
    /\ bundle \in [Bundles -> BundleRecords]
    /\ approvals \in Seq(ApprovalRecords)
    /\ backup \subseteq Bundles
    /\ journal \in [Bundles -> JournalRecords]
    /\ proc \in [Procs -> ProcRecords]
    /\ lock \in [Bundles \cup {"destination"} -> Procs \cup {Nobody}]
    /\ touched \subseteq Files /\ raced \subseteq Files /\ overlapped \in BOOLEAN

-----------------------------------------------------------------------------
(* The pieces a step is made of                                              *)

(* A process goes on: it keeps its bundle, its approval and its locks.       *)
Went(p, place, f) ==
    /\ proc' \in [Procs -> ProcRecords] /\ lock' = lock
    /\ proc'[p].pc = place /\ proc'[p].file = f
    /\ proc'[p].bundle = proc[p].bundle /\ proc'[p].approval = proc[p].approval
    /\ \A q \in Procs \ {p} : proc'[q] = proc[q]

(* A process leaves: it releases its own locks and no other ones.            *)
Left(p) ==
    /\ proc' \in [Procs -> ProcRecords]
    /\ lock' \in [Bundles \cup {"destination"} -> Procs \cup {Nobody}]
    /\ proc'[p] = Idle
    /\ \A q \in Procs \ {p} : proc'[q] = proc[q]
    /\ \A x \in Bundles \cup {"destination"} : lock[x] # p => lock'[x] = lock[x]

(* A process begins: it holds both locks, which nobody held.                 *)
Entered(p, place, b, a) ==
    /\ proc' \in [Procs -> ProcRecords]
    /\ lock' \in [Bundles \cup {"destination"} -> Procs \cup {Nobody}]
    /\ proc[p] = Idle /\ lock["destination"] = Nobody /\ lock'["destination"] = p
    /\ proc'[p] = [pc |-> place, bundle |-> b, approval |-> a, file |-> 0]
    /\ \A q \in Procs \ {p} : proc'[q] = proc[q]

(* The journal of a bundle changes and no other one.                         *)
OnlyJournal(b) ==
    /\ journal' \in [Bundles -> JournalRecords]
    /\ \A c \in Bundles \ {b} : journal'[c] = journal[c]
SetsStatus(b, s) ==
    /\ OnlyJournal(b)
    /\ journal'[b].status = s /\ journal'[b].state = journal[b].state
    /\ journal'[b].operation = journal[b].operation
    /\ journal'[b].approval = journal[b].approval
    /\ journal'[b].undoApproval = journal[b].undoApproval
SetsState(b, f, s) ==
    /\ OnlyJournal(b)
    /\ journal'[b].state[f] = s
    /\ \A g \in Files \ {f} : journal'[b].state[g] = journal[b].state[g]
    /\ journal'[b].status = journal[b].status
    /\ journal'[b].operation = journal[b].operation
    /\ journal'[b].approval = journal[b].approval
    /\ journal'[b].undoApproval = journal[b].undoApproval

(* An approval is consumed; nothing else of it and no other one changes.     *)
Used(a) == approvals[a].state = "consumed"
Uses(a) ==
    /\ approvals' \in Seq(ApprovalRecords)
    /\ DOMAIN approvals' = DOMAIN approvals
    /\ approvals'[a].state = "consumed"
    /\ \A x \in DOMAIN approvals : /\ approvals'[x].bundle = approvals[x].bundle
                                   /\ approvals'[x].operation = approvals[x].operation
    /\ \A x \in DOMAIN approvals \ {a} : approvals'[x] = approvals[x]

(* What GoTo, Leave and the writes of a field do to a well-typed state.      *)
LEMMA GoToFacts ==
    ASSUME DelTypeOK, NEW p \in Procs, NEW place \in StepLabels, NEW f \in Nat, GoTo(p, place, f)
    PROVE  Went(p, place, f)
  BY DEF Went, DelTypeOK, GoTo, ProcRecords

(* Leaving, which releases the locks of the process and no other ones.       *)
LEMMA LeaveFacts ==
    ASSUME DelTypeOK, NEW p \in Procs, Leave(p)
    PROVE  Left(p)
  BY DEF Left, DelTypeOK, Leave, Released, ProcRecords, Idle, StepLabels

(* A new status in one journal; what else the journal says stays.            *)
LEMMA StatusFacts ==
    ASSUME DelTypeOK, NEW b \in Bundles, NEW s \in Statuses,
           journal' = [journal EXCEPT ![b].status = s]
    PROVE  SetsStatus(b, s)
<1>. DEFINE j == [journal[b] EXCEPT !.status = s]
<1>1. journal[b] \in JournalRecords /\ journal \in [Bundles -> JournalRecords]
  BY DEF DelTypeOK
<1>2. /\ j \in JournalRecords
      /\ j.status = s /\ j.state = journal[b].state /\ j.operation = journal[b].operation
      /\ j.approval = journal[b].approval /\ j.undoApproval = journal[b].undoApproval
      /\ j.receipt = journal[b].receipt
  BY <1>1 DEF JournalRecords
<1>3. journal' = [journal EXCEPT ![b] = j]
  OBVIOUS
<1>. HIDE DEF j
<1>. QED
  BY <1>1, <1>2, <1>3 DEF SetsStatus, OnlyJournal

(* A new state of one file in one journal.                                   *)
LEMMA StateFacts ==
    ASSUME DelTypeOK, NEW b \in Bundles, NEW f \in Files, NEW s \in FileStates,
           journal' = [journal EXCEPT ![b].state[f] = s]
    PROVE  SetsState(b, f, s)
<1>. DEFINE t == [journal[b].state EXCEPT ![f] = s]
            j == [journal[b] EXCEPT !.state = t]
<1>1. /\ journal[b] \in JournalRecords /\ journal \in [Bundles -> JournalRecords]
      /\ journal[b].state \in [Files -> FileStates]
  BY DEF DelTypeOK, JournalRecords
<1>2. /\ t \in [Files -> FileStates] /\ t[f] = s
      /\ \A g \in Files \ {f} : t[g] = journal[b].state[g]
  BY <1>1
<1>3. journal' = [journal EXCEPT ![b] = j]
  BY <1>1
<1>. HIDE DEF t
<1>4. /\ j \in JournalRecords
      /\ j.state = t /\ j.status = journal[b].status /\ j.operation = journal[b].operation
      /\ j.approval = journal[b].approval /\ j.undoApproval = journal[b].undoApproval
      /\ j.receipt = journal[b].receipt
  BY <1>1, <1>2 DEF JournalRecords
<1>. HIDE DEF j
<1>. QED
  BY <1>1, <1>2, <1>3, <1>4 DEF SetsState, OnlyJournal

(* An approval consumed: the other records and its own names stay.           *)
LEMMA ConsumedFacts ==
    ASSUME DelTypeOK, NEW a \in DOMAIN approvals, approvals' = Consumed(a)
    PROVE  Uses(a)
<1>. DEFINE r == [approvals[a] EXCEPT !.state = "consumed"]
<1>1. approvals \in Seq(ApprovalRecords) /\ approvals[a] \in ApprovalRecords
  BY DEF DelTypeOK
<1>2. /\ r \in ApprovalRecords /\ r.state = "consumed"
      /\ r.bundle = approvals[a].bundle /\ r.operation = approvals[a].operation
  BY <1>1 DEF ApprovalRecords
<1>3. approvals' = [approvals EXCEPT ![a] = r]
  BY DEF Consumed
<1>. HIDE DEF r
<1>. QED
  BY <1>1, <1>2, <1>3 DEF Uses

(* Taking both locks.                                                        *)
LEMMA EnterFacts ==
    ASSUME DelTypeOK, NEW p \in Procs, NEW b \in Bundles, NEW place \in StepLabels, NEW a \in Nat,
           proc[p] = Idle, TakeLocks(p, b),
           proc' = [proc EXCEPT ![p] = [pc |-> place, bundle |-> b, approval |-> a, file |-> 0]]
    PROVE  Entered(p, place, b, a)
<1>1. [pc |-> place, bundle |-> b, approval |-> a, file |-> 0] \in ProcRecords
  BY DEF ProcRecords
<1>2. /\ lock' \in [Bundles \cup {"destination"} -> Procs \cup {Nobody}]
      /\ lock["destination"] = Nobody /\ lock'["destination"] = p
  BY DEF TakeLocks, LocksFree, DelTypeOK
<1>. QED
  BY <1>1, <1>2 DEF Entered, DelTypeOK

(* The intent of an apply, the end of one, and the intent of an undo.        *)
Intends(b, a) ==
    /\ OnlyJournal(b)
    /\ journal'[b].status = "prepared" /\ journal'[b].operation = "apply"
    /\ journal'[b].approval = a /\ \A f \in Files : journal'[b].state[f] = "pending"
IntendsUndo(b, a) ==
    /\ OnlyJournal(b)
    /\ journal'[b].status = "undoing" /\ journal'[b].operation = "undo"
    /\ journal'[b].undoApproval = a /\ journal'[b].approval = journal[b].approval
    /\ journal'[b].state = journal[b].state

(* The intent of an apply: a journal on which no file has been reached.      *)
LEMMA IntentFacts ==
    ASSUME DelTypeOK, NEW b \in Bundles, NEW a \in Nat,
           journal' = [journal EXCEPT ![b] = [NoJournal EXCEPT !.status = "prepared",
                                                               !.approval = a]]
    PROVE  Intends(b, a)
<1>. DEFINE j == [NoJournal EXCEPT !.status = "prepared", !.approval = a]
<1>1. /\ j.status = "prepared" /\ j.operation = "apply" /\ j.approval = a
      /\ \A f \in Files : j.state[f] = "pending"
      /\ j \in JournalRecords
  BY DEF NoJournal, JournalRecords, Statuses, FileStates
<1>2. journal' = [journal EXCEPT ![b] = j]
  OBVIOUS
<1>. HIDE DEF j
<1>3. journal'[b] = j /\ OnlyJournal(b)
  BY <1>1, <1>2 DEF OnlyJournal, DelTypeOK
<1>. QED
  BY <1>1, <1>3 DEF Intends

(* The end of an apply: status and receipt in one write.                     *)
LEMMA AppliedFacts ==
    ASSUME DelTypeOK, NEW b \in Bundles,
           journal' = [journal EXCEPT ![b].status = "applied", ![b].receipt = TRUE]
    PROVE  SetsStatus(b, "applied")
<1>. DEFINE j == [journal[b] EXCEPT !.status = "applied", !.receipt = TRUE]
<1>1. journal[b] \in JournalRecords /\ journal \in [Bundles -> JournalRecords]
  BY DEF DelTypeOK
<1>2. /\ j \in JournalRecords
      /\ j.status = "applied" /\ j.state = journal[b].state
      /\ j.operation = journal[b].operation
      /\ j.approval = journal[b].approval /\ j.undoApproval = journal[b].undoApproval
  BY <1>1 DEF JournalRecords, Statuses
<1>3. journal' = [journal EXCEPT ![b] = j]
  BY <1>1
<1>. HIDE DEF j
<1>. QED
  BY <1>1, <1>2, <1>3 DEF SetsStatus, OnlyJournal

(* The intent of an undo: the files of the journal stay delivered.           *)
LEMMA UndoFacts ==
    ASSUME DelTypeOK, NEW b \in Bundles, NEW a \in Nat,
           journal' = [journal EXCEPT ![b].status = "undoing", ![b].operation = "undo",
                                      ![b].undoApproval = a]
    PROVE  IntendsUndo(b, a)
<1>. DEFINE j == [journal[b] EXCEPT !.status = "undoing", !.operation = "undo",
                                    !.undoApproval = a]
<1>1. journal[b] \in JournalRecords /\ journal \in [Bundles -> JournalRecords]
  BY DEF DelTypeOK
<1>2. /\ j \in JournalRecords
      /\ j.status = "undoing" /\ j.state = journal[b].state
      /\ j.operation = "undo"
      /\ j.approval = journal[b].approval /\ j.undoApproval = a
  BY <1>1 DEF JournalRecords, Statuses
<1>3. journal' = [journal EXCEPT ![b] = j]
  BY <1>1
<1>. HIDE DEF j
<1>. QED
  BY <1>1, <1>2, <1>3, ZenonT(60) DEF IntendsUndo, OnlyJournal

-----------------------------------------------------------------------------
(* The inductive invariant                                                   *)

Writer(p) == proc[p].pc \notin {"idle", "package"}

(* What a process is at: a package nobody else works on and that is read up  *)
(* to its file, or a delivery under the lock of the destination.             *)
ProcInv ==
    \A p \in Procs :
        /\ proc[p].pc = "idle" => proc[p] = Idle
        /\ proc[p].pc # "idle" => proc[p].bundle \in Bundles
        /\ proc[p].pc = "package" =>
              /\ proc[p].file \in 1..(NumFiles + 1)
              /\ ~bundle[proc[p].bundle].ready
              /\ \A g \in Files : g < proc[p].file =>
                     bundle[proc[p].bundle].baseline[g] \in FileContents
              /\ bundle[proc[p].bundle].delivered \in [Files -> CandidateContents]
              /\ \A q \in Procs : proc[q].bundle = proc[p].bundle => q = p
        /\ Writer(p) => lock["destination"] = p /\ proc[p].bundle \in backup
        /\ proc[p].pc \in {"check", "write", "verify", "finish", "put", "mark"} =>
               proc[p].file \in Files
        /\ proc[p].pc = "back" => proc[p].file \in 0..NumFiles
        /\ proc[p].pc = "finish" => proc[p].file = NumFiles

(* A sealed bundle is complete; only a sealed one has a backup, and only one *)
(* with a backup has a journal.                                              *)
BundleInv ==
    \A b \in Bundles :
        /\ bundle[b].ready => /\ bundle[b].baseline \in [Files -> FileContents]
                              /\ bundle[b].delivered \in [Files -> CandidateContents]
        /\ b \in backup => bundle[b].ready
        /\ journal[b].status # "none" => b \in backup

(* What a delivery does next is what its journal says.                       *)
PhaseOf(place) ==
    CASE place = "intent" -> {"none"}
      [] place \in {"claim", "applying"} -> {"prepared"}
      [] place \in {"check", "write", "verify", "finish"} -> {"applying"}
      [] place = "restore" -> {"prepared", "applying", "applied", "rolling_back", "undoing"}
      [] place \in {"back", "put", "mark"} -> {"rolling_back"}
      [] place = "claimUndo" -> {"undoing"}
      [] OTHER -> Statuses
PlaceSays(p) ==
    LET st == journal[proc[p].bundle].state  n == proc[p].file IN
    \A f \in Files :
        /\ proc[p].pc \in {"check", "write", "verify"} /\ f < n => st[f] = "delivered"
        /\ proc[p].pc = "finish" => st[f] = "delivered"
        /\ proc[p].pc \in {"check", "write", "verify"} /\ f > n => st[f] = "pending"
        /\ proc[p].pc = "check" /\ f = n => st[f] = "pending"
        /\ proc[p].pc \in {"write", "verify"} /\ f = n => st[f] = "writing"
        /\ proc[p].pc \in {"put", "mark"} /\ f = n => st[f] # "pending"
StatusSays(b) ==
    \A f \in Files :
        /\ journal[b].status \in {"none", "prepared"} => journal[b].state[f] = "pending"
        /\ journal[b].status \in {"applied", "undoing"} => journal[b].state[f] = "delivered"
JournalInv ==
    /\ \A p \in Procs : Writer(p) => journal[proc[p].bundle].status \in PhaseOf(proc[p].pc)
    /\ \A p \in Procs : PlaceSays(p)
    /\ \A b \in Bundles : StatusSays(b)

(* The approvals a journal names exist, and whoever writes has used them.    *)
WriterUses(p) ==
    LET b == proc[p].bundle  a == proc[p].approval IN
    /\ proc[p].pc = "intent" => a \in DOMAIN approvals
    /\ proc[p].pc = "claim" => a = journal[b].approval
    /\ proc[p].pc \in {"applying", "check", "write", "verify", "finish", "restore", "back", "put",
                       "mark", "claimUndo"} => Used(journal[b].approval)
    /\ proc[p].pc = "claimUndo" => a = journal[b].undoApproval
    /\ proc[p].pc \in {"restore", "back", "put", "mark"} /\ journal[b].operation = "undo"
          => Used(journal[b].undoApproval)
JournalUses(b) ==
    /\ journal[b].status # "none" => journal[b].approval \in DOMAIN approvals
    /\ journal[b].operation = "undo" => journal[b].undoApproval \in DOMAIN approvals
    /\ journal[b].status \in {"prepared", "applying", "applied"} => journal[b].operation = "apply"
    /\ journal[b].status = "undoing" => journal[b].operation = "undo"
    /\ journal[b].status \notin {"none", "prepared"} => Used(journal[b].approval)
    /\ journal[b].operation = "undo" /\ journal[b].status \in {"rolling_back", "rolled_back"}
          => Used(journal[b].undoApproval)
ApprovalInv == (\A p \in Procs : WriterUses(p)) /\ \A b \in Bundles : JournalUses(b)

(* The files the user has not edited are those of d, or those at the start   *)
(* or of one delivery.                                                       *)
Start == [f \in Files |-> IF f = 1 THEN Original ELSE Absent]
Agrees(d, e) == \A f \in Files \ touched : d[f] = e[f]
Whole(d) == Agrees(d, Start) \/ \E c \in backup : Agrees(d, bundle[c].delivered)

(* An apply begins on its baseline.                                          *)
IntentInv ==
    \A p \in Procs : proc[p].pc = "intent" => Agrees(disk, bundle[proc[p].bundle].baseline)

(* Nothing but the user changes a file between its check and its write.      *)
EditInv ==
    \A p \in Procs : LET b == proc[p].bundle  f == proc[p].file IN
        /\ proc[p].pc = "write" => f \in raced \/ disk[f] = bundle[b].baseline[f]
        /\ proc[p].pc = "put" =>
               f \in raced \/ disk[f] \in {bundle[b].baseline[f], bundle[b].delivered[f]}

(* Deliveries that do not overlap: at most one journal is unfinished, and it *)
(* is that of the process which writes, if there is one.                     *)
OneUnfinished ==
    /\ \A b, c \in Bundles : Unfinished(b) /\ Unfinished(c) => b = c
    /\ \A p \in Procs : Writer(p) => \A c \in Bundles : Unfinished(c) => c = proc[p].bundle

(* A restore that is at a file has put back those behind it.                 *)
PutBack(p) ==
    LET base == bundle[proc[p].bundle].baseline  n == proc[p].file IN
    /\ proc[p].pc \in {"back", "put"} => \A f \in Files \ touched : f > n => disk[f] = base[f]
    /\ proc[p].pc = "mark" => \A f \in Files \ touched : f >= n => disk[f] = base[f]
BackInv == \A p \in Procs : PutBack(p)

(* Between deliveries the destination is whole, every delivery began on a    *)
(* whole one, and a file is what the unfinished journal says of it.          *)
DiskSays(b) ==
    \A f \in Files \ touched :
        /\ journal[b].state[f] = "pending" => disk[f] = bundle[b].baseline[f]
        /\ journal[b].status = "applying" /\ journal[b].state[f] = "delivered" =>
               disk[f] = bundle[b].delivered[f]
WholeInv ==
    /\ (\A b \in Bundles : ~Unfinished(b)) => Whole(disk)
    /\ \A b \in backup : Whole(bundle[b].baseline)
    /\ \A b \in Bundles : Unfinished(b) => DiskSays(b)

DeliveryInv ==
    /\ DelTypeOK /\ ProcInv /\ BundleInv /\ JournalInv /\ ApprovalInv /\ IntentInv /\ EditInv
    /\ ~overlapped => OneUnfinished /\ BackInv /\ WholeInv

Rest == <<disk, bundle, backup, touched, raced, overlapped>>

(* The steps of a process that holds the locks, in the terms of the pieces.  *)
LEMMA ApplySteps ==
    ASSUME DeliveryInv, NEW p \in Procs, NEW b, NEW f, b = proc[p].bundle, f = proc[p].file
    PROVE  /\ PersistIntent(p) =>
                /\ proc[p].pc = "intent" /\ b \in Bundles /\ UNCHANGED <<Rest, approvals>>
                /\ Intends(b, proc[p].approval) /\ Went(p, "claim", 0)
           /\ ClaimApproval(p) =>
                /\ proc[p].pc = "claim" /\ b \in Bundles /\ UNCHANGED <<Rest, journal>>
                /\ \/ /\ proc[p].approval \in DOMAIN approvals
                      /\ Uses(proc[p].approval) /\ Went(p, "applying", 0)
                   \/ UNCHANGED approvals /\ Left(p)
           /\ StartWriting(p) =>
                /\ proc[p].pc = "applying" /\ b \in Bundles /\ UNCHANGED <<Rest, approvals>>
                /\ SetsStatus(b, "applying") /\ Went(p, "check", 1)
           /\ CheckFile(p) =>
                /\ proc[p].pc = "check" /\ b \in Bundles /\ f \in Files
                /\ UNCHANGED <<Rest, approvals>>
                /\ \/ /\ disk[f] = bundle[b].baseline[f]
                      /\ SetsState(b, f, "writing") /\ Went(p, "write", f)
                   \/ UNCHANGED journal /\ Went(p, "restore", 0)
           /\ WriteFile(p) =>
                /\ proc[p].pc = "write" /\ b \in Bundles /\ f \in Files
                /\ UNCHANGED <<bundle, backup, touched, raced, overlapped, approvals, journal>>
                /\ \/ disk' = [disk EXCEPT ![f] = bundle[b].delivered[f]] /\ Went(p, "verify", f)
                   \/ UNCHANGED disk /\ Went(p, "restore", 0)
           /\ VerifyFile(p) =>
                /\ proc[p].pc = "verify" /\ b \in Bundles /\ f \in Files
                /\ UNCHANGED <<Rest, approvals>>
                /\ \/ /\ disk[f] = bundle[b].delivered[f]
                      /\ SetsState(b, f, "delivered")
                      /\ \/ f = NumFiles /\ Went(p, "finish", f)
                         \/ f # NumFiles /\ f + 1 \in Files /\ Went(p, "check", f + 1)
                   \/ UNCHANGED journal /\ Went(p, "restore", 0)
           /\ FinishApply(p) =>
                /\ proc[p].pc = "finish" /\ b \in Bundles /\ UNCHANGED <<Rest, approvals>>
                /\ SetsStatus(b, "applied")
                /\ Left(p) \/ Went(p, "restore", 0)
<1>. USE DeliveryBounds DEF At, Rest, ghosts, userVars
<1>1. /\ DelTypeOK
      /\ proc[p].pc # "idle" => b \in Bundles
      /\ proc[p].pc \in {"check", "write", "verify", "finish"} => f \in Files
      /\ proc[p].approval \in Nat /\ f \in Nat
      /\ {"claim", "applying", "check", "write", "verify", "finish", "restore"} \subseteq StepLabels
      /\ {"applying", "applied"} \subseteq Statuses
      /\ {"writing", "delivered"} \subseteq FileStates
  BY DEF DeliveryInv, ProcInv, DelTypeOK, ProcRecords, StepLabels, Statuses, FileStates
<1>2. ASSUME PersistIntent(p) PROVE Intends(b, proc[p].approval) /\ Went(p, "claim", 0)
  <2>1. journal' = [journal EXCEPT ![b] = [NoJournal EXCEPT !.status = "prepared",
                                                            !.approval = proc[p].approval]]
        /\ GoTo(p, "claim", 0) /\ b \in Bundles
    BY <1>1, <1>2 DEF PersistIntent
  <2>. QED
    BY <1>1, <2>1, IntentFacts, GoToFacts
<1>3. ASSUME ClaimApproval(p)
      PROVE  \/ /\ proc[p].approval \in DOMAIN approvals
                /\ Uses(proc[p].approval) /\ Went(p, "applying", 0)
             \/ UNCHANGED approvals /\ Left(p)
  <2>1. proc[p].approval \in DOMAIN approvals
    <3>1. proc[p].pc = "claim" /\ b \in Bundles
      BY <1>1, <1>3 DEF ClaimApproval
    <3>2. journal[b].status = "prepared"
      BY <3>1 DEF DeliveryInv, JournalInv, PhaseOf, Writer
    <3>. QED
      BY <3>1, <3>2 DEF DeliveryInv, ApprovalInv, WriterUses, JournalUses
  <2>2. \/ approvals' = Consumed(proc[p].approval) /\ GoTo(p, "applying", 0)
        \/ UNCHANGED approvals /\ Leave(p)
    BY <1>3 DEF ClaimApproval
  <2>. QED
    BY <1>1, <2>1, <2>2, ConsumedFacts, GoToFacts, LeaveFacts
<1>4. ASSUME StartWriting(p) PROVE SetsStatus(b, "applying") /\ Went(p, "check", 1)
  <2>1. journal' = [journal EXCEPT ![b].status = "applying"] /\ GoTo(p, "check", 1)
        /\ b \in Bundles
    BY <1>1, <1>4 DEF StartWriting
  <2>. QED
    BY <1>1, <2>1, StatusFacts, GoToFacts
<1>5. ASSUME CheckFile(p)
      PROVE  \/ /\ disk[f] = bundle[b].baseline[f]
                /\ SetsState(b, f, "writing") /\ Went(p, "write", f)
             \/ UNCHANGED journal /\ Went(p, "restore", 0)
  <2>1. /\ b \in Bundles /\ f \in Files
        /\ \/ /\ disk[f] = bundle[b].baseline[f]
              /\ journal' = [journal EXCEPT ![b].state[f] = "writing"]
              /\ GoTo(p, "write", f)
           \/ UNCHANGED journal /\ GoTo(p, "restore", 0)
    BY <1>1, <1>5 DEF CheckFile
  <2>. QED
    BY <1>1, <2>1, StateFacts, GoToFacts
<1>6. ASSUME WriteFile(p)
      PROVE  \/ disk' = [disk EXCEPT ![f] = bundle[b].delivered[f]] /\ Went(p, "verify", f)
             \/ UNCHANGED disk /\ Went(p, "restore", 0)
  <2>1. \/ disk' = [disk EXCEPT ![f] = bundle[b].delivered[f]] /\ GoTo(p, "verify", f)
        \/ UNCHANGED disk /\ GoTo(p, "restore", 0)
    BY <1>6 DEF WriteFile
  <2>. QED
    BY <1>1, <2>1, GoToFacts
<1>7. ASSUME VerifyFile(p)
      PROVE  \/ /\ disk[f] = bundle[b].delivered[f]
                /\ SetsState(b, f, "delivered")
                /\ \/ f = NumFiles /\ Went(p, "finish", f)
                   \/ f # NumFiles /\ f + 1 \in Files /\ Went(p, "check", f + 1)
             \/ UNCHANGED journal /\ Went(p, "restore", 0)
  <2>1. /\ b \in Bundles /\ f \in Files
        /\ \/ /\ disk[f] = bundle[b].delivered[f]
              /\ journal' = [journal EXCEPT ![b].state[f] = "delivered"]
              /\ \/ f = NumFiles /\ GoTo(p, "finish", f)
                 \/ f # NumFiles /\ GoTo(p, "check", f + 1)
           \/ UNCHANGED journal /\ GoTo(p, "restore", 0)
    BY <1>1, <1>7 DEF VerifyFile
  <2>2. f # NumFiles => f + 1 \in Files
    BY <2>1 DEF Files
  <2>3. f + 1 \in Nat
    BY <1>1
  <2>. QED
    BY <1>1, <2>1, <2>2, <2>3, StateFacts, GoToFacts
<1>8. ASSUME FinishApply(p)
      PROVE  SetsStatus(b, "applied") /\ (Left(p) \/ Went(p, "restore", 0))
  <2>1. /\ b \in Bundles
        /\ journal' = [journal EXCEPT ![b].status = "applied", ![b].receipt = TRUE]
        /\ Leave(p) \/ GoTo(p, "restore", 0)
    BY <1>1, <1>8 DEF FinishApply
  <2>. QED
    BY <1>1, <2>1, AppliedFacts, GoToFacts, LeaveFacts
<1>9. ASSUME PersistIntent(p)
      PROVE  /\ proc[p].pc = "intent" /\ b \in Bundles
             /\ UNCHANGED <<Rest, approvals>>
  BY <1>1, <1>9 DEF PersistIntent
<1>10. ASSUME ClaimApproval(p)
      PROVE  /\ proc[p].pc = "claim" /\ b \in Bundles
             /\ UNCHANGED <<Rest, journal>>
  BY <1>1, <1>10 DEF ClaimApproval
<1>11. ASSUME StartWriting(p)
      PROVE  /\ proc[p].pc = "applying" /\ b \in Bundles
             /\ UNCHANGED <<Rest, approvals>>
  BY <1>1, <1>11 DEF StartWriting
<1>12. ASSUME CheckFile(p)
      PROVE  /\ proc[p].pc = "check" /\ b \in Bundles /\ f \in Files
             /\ UNCHANGED <<Rest, approvals>>
  BY <1>1, <1>12 DEF CheckFile
<1>13. ASSUME WriteFile(p)
      PROVE  /\ proc[p].pc = "write" /\ b \in Bundles /\ f \in Files
             /\ UNCHANGED <<bundle, backup, touched, raced, overlapped, approvals, journal>>
  BY <1>1, <1>13 DEF WriteFile
<1>14. ASSUME VerifyFile(p)
      PROVE  /\ proc[p].pc = "verify" /\ b \in Bundles /\ f \in Files
             /\ UNCHANGED <<Rest, approvals>>
  BY <1>1, <1>14 DEF VerifyFile
<1>15. ASSUME FinishApply(p)
      PROVE  /\ proc[p].pc = "finish" /\ b \in Bundles
             /\ UNCHANGED <<Rest, approvals>>
  BY <1>1, <1>15 DEF FinishApply
<1>. QED
  BY <1>2, <1>3, <1>4, <1>5, <1>6, <1>7, <1>8, <1>9, <1>10, <1>11, <1>12, <1>13, <1>14, <1>15

(* The steps that take a delivery back.                                      *)
LEMMA RestoreSteps ==
    ASSUME DeliveryInv, NEW p \in Procs, NEW b, NEW f, b = proc[p].bundle, f = proc[p].file
    PROVE  /\ BeginRestore(p) =>
                /\ proc[p].pc = "restore" /\ b \in Bundles /\ UNCHANGED <<Rest, approvals>>
                /\ SetsStatus(b, "rolling_back") /\ Went(p, "back", NumFiles)
           /\ RestoreCheck(p) =>
                /\ proc[p].pc = "back" /\ b \in Bundles /\ f \in Files
                /\ UNCHANGED <<Rest, approvals, journal>>
                /\ \/ journal[b].state[f] = "pending" /\ Went(p, "back", f - 1)
                   \/ /\ journal[b].state[f] # "pending"
                      /\ disk[f] \in {bundle[b].baseline[f], bundle[b].delivered[f]}
                      /\ Went(p, "put", f)
                   \/ Left(p)
           /\ RestoreFile(p) =>
                /\ proc[p].pc = "put" /\ b \in Bundles /\ f \in Files
                /\ UNCHANGED <<bundle, backup, touched, raced, overlapped, approvals, journal>>
                /\ disk' = [disk EXCEPT ![f] = bundle[b].baseline[f]] /\ Went(p, "mark", f)
           /\ MarkRestored(p) =>
                /\ proc[p].pc = "mark" /\ b \in Bundles /\ f \in Files
                /\ UNCHANGED <<Rest, approvals>>
                /\ SetsState(b, f, "restored") /\ Went(p, "back", f - 1)
           /\ FinishRestore(p) =>
                /\ proc[p].pc = "back" /\ b \in Bundles /\ f = 0
                /\ UNCHANGED <<Rest, approvals>>
                /\ SetsStatus(b, "rolled_back") /\ Left(p)
           /\ ClaimUndo(p) =>
                /\ proc[p].pc = "claimUndo" /\ b \in Bundles /\ UNCHANGED <<Rest, journal>>
                /\ \/ /\ proc[p].approval \in DOMAIN approvals
                      /\ Uses(proc[p].approval) /\ Went(p, "restore", 0)
                   \/ UNCHANGED approvals /\ Left(p)
<1>. USE DeliveryBounds DEF At, Rest, ghosts, userVars
<1>1. /\ DelTypeOK
      /\ proc[p].pc # "idle" => b \in Bundles
      /\ proc[p].pc \in {"put", "mark"} => f \in Files
      /\ proc[p].pc = "back" => f \in 0..NumFiles
      /\ proc[p].approval \in Nat /\ f \in Nat
      /\ {"restore", "back", "put", "mark"} \subseteq StepLabels
      /\ {"rolling_back", "rolled_back"} \subseteq Statuses
      /\ "restored" \in FileStates
  BY DEF DeliveryInv, ProcInv, DelTypeOK, ProcRecords, StepLabels, Statuses, FileStates
<1>2. ASSUME BeginRestore(p) PROVE SetsStatus(b, "rolling_back") /\ Went(p, "back", NumFiles)
  <2>1. /\ b \in Bundles /\ journal' = [journal EXCEPT ![b].status = "rolling_back"]
        /\ GoTo(p, "back", NumFiles)
    BY <1>1, <1>2 DEF BeginRestore
  <2>. QED
    BY <1>1, <2>1, StatusFacts, GoToFacts
<1>3. ASSUME RestoreCheck(p)
      PROVE  /\ f \in Files
             /\ \/ journal[b].state[f] = "pending" /\ Went(p, "back", f - 1)
                \/ /\ journal[b].state[f] # "pending"
                   /\ disk[f] \in {bundle[b].baseline[f], bundle[b].delivered[f]}
                   /\ Went(p, "put", f)
                \/ Left(p)
  <2>1. f \in Files /\ f - 1 \in Nat
    BY <1>1, <1>3 DEF RestoreCheck, Files
  <2>2. \/ journal[b].state[f] = "pending" /\ GoTo(p, "back", f - 1)
        \/ /\ journal[b].state[f] # "pending"
           /\ disk[f] \in {bundle[b].baseline[f], bundle[b].delivered[f]}
           /\ GoTo(p, "put", f)
        \/ Leave(p)
    BY <1>3 DEF RestoreCheck
  <2>. QED
    BY <1>1, <2>1, <2>2, GoToFacts, LeaveFacts
<1>4. ASSUME RestoreFile(p)
      PROVE  disk' = [disk EXCEPT ![f] = bundle[b].baseline[f]] /\ Went(p, "mark", f)
  <2>1. disk' = [disk EXCEPT ![f] = bundle[b].baseline[f]] /\ GoTo(p, "mark", f)
    BY <1>4 DEF RestoreFile
  <2>. QED
    BY <1>1, <2>1, GoToFacts
<1>5. ASSUME MarkRestored(p) PROVE SetsState(b, f, "restored") /\ Went(p, "back", f - 1)
  <2>1. /\ b \in Bundles /\ f \in Files /\ f - 1 \in Nat
        /\ journal' = [journal EXCEPT ![b].state[f] = "restored"] /\ GoTo(p, "back", f - 1)
    BY <1>1, <1>5 DEF MarkRestored, Files
  <2>. QED
    BY <1>1, <2>1, StateFacts, GoToFacts
<1>6. ASSUME FinishRestore(p) PROVE SetsStatus(b, "rolled_back") /\ Left(p)
  <2>1. /\ b \in Bundles /\ journal' = [journal EXCEPT ![b].status = "rolled_back"] /\ Leave(p)
    BY <1>1, <1>6 DEF FinishRestore
  <2>. QED
    BY <1>1, <2>1, StatusFacts, LeaveFacts
<1>7. ASSUME ClaimUndo(p)
      PROVE  \/ /\ proc[p].approval \in DOMAIN approvals
                /\ Uses(proc[p].approval) /\ Went(p, "restore", 0)
             \/ UNCHANGED approvals /\ Left(p)
  <2>1. ASSUME approvals' = Consumed(proc[p].approval) PROVE proc[p].approval \in DOMAIN approvals
    <3>1. proc[p].pc = "claimUndo" /\ b \in Bundles
      BY <1>1, <1>7 DEF ClaimUndo
    <3>2. journal[b].status = "undoing"
      BY <3>1 DEF DeliveryInv, JournalInv, PhaseOf, Writer
    <3>3. journal[b].operation = "undo" /\ proc[p].approval = journal[b].undoApproval
      BY <3>1, <3>2 DEF DeliveryInv, ApprovalInv, WriterUses, JournalUses
    <3>. QED
      BY <3>1, <3>3 DEF DeliveryInv, ApprovalInv, WriterUses, JournalUses
  <2>2. \/ approvals' = Consumed(proc[p].approval) /\ GoTo(p, "restore", 0)
        \/ UNCHANGED approvals /\ Leave(p)
    BY <1>7 DEF ClaimUndo
  <2>. QED
    BY <1>1, <2>1, <2>2, ConsumedFacts, GoToFacts, LeaveFacts
<1>8. ASSUME BeginRestore(p)
      PROVE  /\ proc[p].pc = "restore" /\ b \in Bundles
             /\ UNCHANGED <<Rest, approvals>>
  BY <1>1, <1>8 DEF BeginRestore
<1>9. ASSUME RestoreCheck(p)
      PROVE  /\ proc[p].pc = "back" /\ b \in Bundles
             /\ UNCHANGED <<Rest, approvals, journal>>
  BY <1>1, <1>9 DEF RestoreCheck
<1>10. ASSUME RestoreFile(p)
      PROVE  /\ proc[p].pc = "put" /\ b \in Bundles /\ f \in Files
             /\ UNCHANGED <<bundle, backup, touched, raced, overlapped, approvals, journal>>
  BY <1>1, <1>10 DEF RestoreFile
<1>11. ASSUME MarkRestored(p)
      PROVE  /\ proc[p].pc = "mark" /\ b \in Bundles /\ f \in Files
             /\ UNCHANGED <<Rest, approvals>>
  BY <1>1, <1>11 DEF MarkRestored
<1>12. ASSUME FinishRestore(p)
      PROVE  /\ proc[p].pc = "back" /\ b \in Bundles /\ f = 0
             /\ UNCHANGED <<Rest, approvals>>
  BY <1>1, <1>12 DEF FinishRestore
<1>13. ASSUME ClaimUndo(p)
      PROVE  /\ proc[p].pc = "claimUndo" /\ b \in Bundles
             /\ UNCHANGED <<Rest, journal>>
  BY <1>1, <1>13 DEF ClaimUndo
<1>. QED
  BY <1>2, <1>3, <1>4, <1>5, <1>6, <1>7, <1>8, <1>9, <1>10, <1>11, <1>12, <1>13

(* The steps that take the locks.                                            *)
LEMMA EnterSteps ==
    ASSUME DeliveryInv, NEW p \in Procs, NEW b \in Bundles
    PROVE  /\ \A a \in DOMAIN approvals : BeginApply(p, b, a) =>
                /\ Entered(p, "intent", b, a) /\ b \notin backup /\ backup' = backup \cup {b}
                /\ bundle[b].ready /\ disk = bundle[b].baseline /\ Overlaps(b)
                /\ UNCHANGED <<disk, bundle, approvals, journal>>
           /\ \A a \in DOMAIN approvals : BeginUndo(p, b, a) =>
                /\ Entered(p, "claimUndo", b, a) /\ b \in backup
                /\ journal[b].status = "applied" /\ disk = bundle[b].delivered /\ Overlaps(b)
                /\ IntendsUndo(b, a) /\ UNCHANGED <<disk, bundle, approvals, backup>>
           /\ BeginRecover(p, b) =>
                /\ Entered(p, "restore", b, 0) /\ b \in backup /\ Unfinished(b)
                /\ UNCHANGED <<Rest, journal>>
                /\ \E a \in DOMAIN approvals :
                      /\ a = IF journal[b].operation = "undo" THEN journal[b].undoApproval
                             ELSE journal[b].approval
                      /\ Uses(a)
<1>. USE DeliveryBounds DEF Rest, ghosts, userVars
<1>1. /\ DelTypeOK /\ DOMAIN approvals \subseteq Nat /\ 0 \in Nat
      /\ {"intent", "claimUndo", "restore"} \subseteq StepLabels
      /\ journal[b].status # "none" => b \in backup
  BY DEF DeliveryInv, BundleInv, DelTypeOK, StepLabels
<1>2. ASSUME NEW a \in DOMAIN approvals, BeginApply(p, b, a) PROVE Entered(p, "intent", b, a)
  <2>1. /\ proc[p] = Idle /\ TakeLocks(p, b)
        /\ proc' = [proc EXCEPT ![p] = [pc |-> "intent", bundle |-> b, approval |-> a,
                                        file |-> 0]]
    BY <1>2 DEF BeginApply
  <2>. QED
    BY <1>1, <2>1, EnterFacts
<1>3. ASSUME NEW a \in DOMAIN approvals, BeginUndo(p, b, a)
      PROVE  Entered(p, "claimUndo", b, a) /\ IntendsUndo(b, a)
  <2>1. /\ proc[p] = Idle /\ TakeLocks(p, b)
        /\ proc' = [proc EXCEPT ![p] = [pc |-> "claimUndo", bundle |-> b, approval |-> a,
                                        file |-> 0]]
        /\ journal' = [journal EXCEPT ![b].status = "undoing", ![b].operation = "undo",
                                      ![b].undoApproval = a]
    BY <1>3 DEF BeginUndo
  <2>. QED
    BY <1>1, <2>1, EnterFacts, UndoFacts
<1>4. ASSUME BeginRecover(p, b)
      PROVE  /\ Entered(p, "restore", b, 0)
             /\ \E a \in DOMAIN approvals :
                   /\ a = IF journal[b].operation = "undo" THEN journal[b].undoApproval
                          ELSE journal[b].approval
                   /\ Uses(a)
  <2>. DEFINE a == IF journal[b].operation = "undo" THEN journal[b].undoApproval
                   ELSE journal[b].approval
  <2>1. /\ proc[p] = Idle /\ TakeLocks(p, b) /\ journal[b].status # "none"
        /\ proc' = [proc EXCEPT ![p] = [pc |-> "restore", bundle |-> b, approval |-> 0,
                                        file |-> 0]]
        /\ approvals' = Consumed(a)
    BY <1>4 DEF BeginRecover, Unfinished
  <2>2. a \in DOMAIN approvals
    BY <2>1 DEF DeliveryInv, ApprovalInv, WriterUses, JournalUses
  <2>. HIDE DEF a
  <2>3. Uses(a) /\ Entered(p, "restore", b, 0)
    BY <1>1, <2>1, <2>2, ConsumedFacts, EnterFacts
  <2>. QED
    BY <2>2, <2>3 DEF a
<1>. QED
  BY <1>1, <1>2, <1>3, <1>4 DEF BeginApply, BeginUndo, BeginRecover, Verified, Unfinished, Overlaps

(* Packaging touches one bundle, which is not sealed yet.                    *)
Packages(p, b) ==
    /\ ~bundle[b].ready /\ ~Writer(p) /\ proc'[p].pc \in {"idle", "package"}
    /\ bundle' \in [Bundles -> BundleRecords] /\ proc' \in [Procs -> ProcRecords]
    /\ \A c \in Bundles \ {b} : bundle'[c] = bundle[c]
    /\ \A q \in Procs \ {p} : proc'[q] = proc[q]
    /\ UNCHANGED <<disk, approvals, backup, journal, lock, stops, userEdits, touched, raced,
                   overlapped>>

(* The steps of package, in the terms of the pieces.                         *)
LEMMA PackageSteps ==
    ASSUME DeliveryInv, NEW p \in Procs
    PROVE  /\ \A b \in Bundles : BeginPackage(p, b) =>
                /\ Packages(p, b) /\ \A q \in Procs : proc[q].bundle # b
                /\ proc'[p] = [pc |-> "package", bundle |-> b, approval |-> 0, file |-> 1]
                /\ ~bundle'[b].ready /\ bundle'[b].delivered \in [Files -> CandidateContents]
           /\ ReadBaseline(p) =>
                /\ Packages(p, proc[p].bundle) /\ proc[p].bundle \in Bundles
                /\ proc[p].pc = "package" /\ proc'[p].pc = "package"
                /\ proc'[p].bundle = proc[p].bundle
                /\ proc[p].file \in Files /\ proc'[p].file = proc[p].file + 1
                /\ ~bundle'[proc[p].bundle].ready
                /\ bundle'[proc[p].bundle].delivered = bundle[proc[p].bundle].delivered
                /\ bundle'[proc[p].bundle].baseline =
                       [bundle[proc[p].bundle].baseline EXCEPT ![proc[p].file] = disk[proc[p].file]]
           /\ SealBundle(p) =>
                /\ Packages(p, proc[p].bundle) /\ proc[p].bundle \in Bundles
                /\ proc[p].pc = "package" /\ proc'[p] = Idle
                /\ bundle'[proc[p].bundle].delivered \in [Files -> CandidateContents]
                /\ bundle'[proc[p].bundle].baseline \in [Files -> FileContents]
<1>. USE DeliveryBounds DEF ghosts, userVars
<1>1. /\ bundle \in [Bundles -> BundleRecords] /\ proc \in [Procs -> ProcRecords]
      /\ disk \in [Files -> FileContents]
  BY DEF DeliveryInv, DelTypeOK
<1>2. ASSUME NEW b \in Bundles, BeginPackage(p, b)
      PROVE  /\ Packages(p, b) /\ \A q \in Procs : proc[q].bundle # b
             /\ proc'[p] = [pc |-> "package", bundle |-> b, approval |-> 0, file |-> 1]
             /\ ~bundle'[b].ready /\ bundle'[b].delivered \in [Files -> CandidateContents]
  <2>1. PICK c \in [Files -> CandidateContents] : bundle' = [bundle EXCEPT ![b].delivered = c]
    BY <1>2 DEF BeginPackage
  <2>. DEFINE r == [bundle[b] EXCEPT !.delivered = c]
  <2>2. /\ r \in BundleRecords /\ r.delivered = c /\ r.ready = bundle[b].ready
        /\ bundle' = [bundle EXCEPT ![b] = r]
    BY <1>1, <2>1 DEF BundleRecords
  <2>3. ~bundle[b].ready
    <3>1. Nobody \notin FileContents /\ 1 \in Files
      BY DEF FileContents, Files
    <3>2. bundle[b].baseline[1] = Nobody
      BY <1>2 DEF BeginPackage
    <3>. QED
      BY <3>1, <3>2 DEF DeliveryInv, BundleInv
  <2>. HIDE DEF r
  <2>4. [pc |-> "package", bundle |-> b, approval |-> 0, file |-> 1] \in ProcRecords
    BY DEF ProcRecords, StepLabels
  <2>5. /\ proc[p] = Idle /\ \A q \in Procs : proc[q].bundle # b
        /\ proc' = [proc EXCEPT ![p] = [pc |-> "package", bundle |-> b, approval |-> 0, file |-> 1]]
        /\ UNCHANGED <<disk, approvals, backup, journal, lock, userVars, ghosts>>
    BY <1>2 DEF BeginPackage
  <2>6. /\ bundle' \in [Bundles -> BundleRecords] /\ bundle'[b] = r
        /\ \A d \in Bundles \ {b} : bundle'[d] = bundle[d]
    BY <1>1, <2>2
  <2>7. /\ proc' \in [Procs -> ProcRecords]
        /\ proc'[p] = [pc |-> "package", bundle |-> b, approval |-> 0, file |-> 1]
        /\ \A q \in Procs \ {p} : proc'[q] = proc[q]
    BY <1>1, <2>4, <2>5
  <2>. QED
    BY <2>2, <2>3, <2>5, <2>6, <2>7 DEF Packages, Writer, Idle
<1>3. ASSUME ReadBaseline(p)
      PROVE  /\ Packages(p, proc[p].bundle) /\ proc[p].bundle \in Bundles
             /\ proc[p].pc = "package" /\ proc'[p].pc = "package"
             /\ proc'[p].bundle = proc[p].bundle
             /\ proc[p].file \in Files /\ proc'[p].file = proc[p].file + 1
             /\ ~bundle'[proc[p].bundle].ready
             /\ bundle'[proc[p].bundle].delivered = bundle[proc[p].bundle].delivered
             /\ bundle'[proc[p].bundle].baseline =
                    [bundle[proc[p].bundle].baseline EXCEPT ![proc[p].file] = disk[proc[p].file]]
  <2>. DEFINE b == proc[p].bundle
              f == proc[p].file
              n == [bundle[b].baseline EXCEPT ![f] = disk[f]]
              r == [bundle[b] EXCEPT !.baseline = n]
  <2>1. /\ proc[p].pc = "package" /\ b \in Bundles /\ f \in Files /\ ~bundle[b].ready
    <3>1. proc[p].pc = "package" /\ f <= NumFiles
      BY <1>3 DEF ReadBaseline
    <3>. QED
      BY <3>1 DEF DeliveryInv, ProcInv, Files
  <2>2. /\ bundle' = [bundle EXCEPT ![b] = r]
        /\ proc' = [proc EXCEPT ![p].file = f + 1]
        /\ UNCHANGED <<disk, approvals, backup, journal, lock, userVars, ghosts>>
    BY <1>1, <1>3, <2>1 DEF ReadBaseline
  <2>3. n \in [Files -> FileContents \cup {Nobody}]
    BY <1>1, <2>1 DEF BundleRecords
  <2>. HIDE DEF n
  <2>4. /\ r \in BundleRecords /\ r.baseline = n /\ r.ready = bundle[b].ready
        /\ r.delivered = bundle[b].delivered
    BY <1>1, <2>1, <2>3 DEF BundleRecords
  <2>. HIDE DEF r
  <2>5. /\ bundle' \in [Bundles -> BundleRecords] /\ bundle'[b] = r
        /\ \A d \in Bundles \ {b} : bundle'[d] = bundle[d]
    BY <1>1, <2>1, <2>2, <2>4
  <2>6. f + 1 \in Nat
    BY <2>1 DEF Files
  <2>7. /\ proc' \in [Procs -> ProcRecords]
        /\ proc'[p].pc = "package" /\ proc'[p].bundle = b /\ proc'[p].file = f + 1
        /\ \A q \in Procs \ {p} : proc'[q] = proc[q]
    BY <1>1, <2>1, <2>2, <2>6 DEF ProcRecords
  <2>8. Packages(p, b)
    BY <2>1, <2>2, <2>5, <2>7 DEF Packages, Writer
  <2>. QED
    BY <2>1, <2>4, <2>5, <2>7, <2>8 DEF n
<1>4. ASSUME SealBundle(p)
      PROVE  /\ Packages(p, proc[p].bundle) /\ proc[p].bundle \in Bundles
             /\ proc[p].pc = "package" /\ proc'[p] = Idle
             /\ bundle'[proc[p].bundle].delivered \in [Files -> CandidateContents]
             /\ bundle'[proc[p].bundle].baseline \in [Files -> FileContents]
  <2>. DEFINE b == proc[p].bundle
              r == [bundle[b] EXCEPT !.ready = TRUE]
  <2>1. /\ proc[p].pc = "package" /\ proc[p].file = NumFiles + 1
        /\ proc' = [proc EXCEPT ![p] = Idle]
        /\ UNCHANGED <<disk, approvals, backup, journal, lock, userVars, ghosts>>
    BY <1>4 DEF SealBundle
  <2>2. /\ b \in Bundles /\ ~bundle[b].ready
        /\ bundle[b].delivered \in [Files -> CandidateContents]
        /\ \A g \in Files : g < NumFiles + 1 => bundle[b].baseline[g] \in FileContents
    BY <2>1 DEF DeliveryInv, ProcInv
  <2>3. \A g \in Files : bundle[b].baseline[g] \in FileContents
    BY <2>2 DEF Files
  <2>4. bundle[b] \in BundleRecords /\ bundle' = [bundle EXCEPT ![b] = r]
    BY <1>1, <1>4, <2>2 DEF SealBundle
  <2>5. /\ r \in BundleRecords /\ r.delivered = bundle[b].delivered
        /\ r.baseline = bundle[b].baseline
    BY <2>4 DEF BundleRecords
  <2>6. bundle[b].baseline \in [Files -> FileContents]
    <3>1. bundle[b].baseline \in [Files -> FileContents \cup {Nobody}]
      BY <2>4 DEF BundleRecords
    <3>. QED
      BY <2>3, <3>1
  <2>. HIDE DEF r
  <2>7. /\ bundle' \in [Bundles -> BundleRecords] /\ bundle'[b] = r
        /\ \A d \in Bundles \ {b} : bundle'[d] = bundle[d]
    BY <1>1, <2>2, <2>4, <2>5
  <2>8. Idle \in ProcRecords
    BY DEF Idle, ProcRecords, StepLabels
  <2>9. /\ proc' \in [Procs -> ProcRecords] /\ proc'[p] = Idle
        /\ \A q \in Procs \ {p} : proc'[q] = proc[q]
    BY <1>1, <2>1, <2>8
  <2>10. Packages(p, b)
    BY <2>1, <2>2, <2>7, <2>9 DEF Packages, Writer, Idle
  <2>. QED
    BY <2>1, <2>2, <2>5, <2>6, <2>7, <2>9, <2>10
<1>. QED
  BY <1>2, <1>3, <1>4

-----------------------------------------------------------------------------
(* The steps of a process that holds the locks keep the invariant            *)

Delivers(p) ==
    \/ PersistIntent(p) \/ ClaimApproval(p) \/ StartWriting(p) \/ CheckFile(p) \/ WriteFile(p)
    \/ VerifyFile(p) \/ FinishApply(p) \/ BeginRestore(p) \/ RestoreCheck(p) \/ RestoreFile(p)
    \/ MarkRestored(p) \/ FinishRestore(p) \/ ClaimUndo(p)

(* The lock of the destination: one process at a time delivers.              *)
LEMMA Alone ==
    ASSUME ProcInv, NEW p \in Procs, Writer(p)
    PROVE  \A q \in Procs \ {p} : ~Writer(q)
  BY DEF ProcInv

(* While nobody holds that lock nobody delivers.                             *)
LEMMA NobodyWrites ==
    ASSUME ProcInv, lock["destination"] = Nobody
    PROVE  \A q \in Procs : ~Writer(q)
  BY DeliveryBounds DEF ProcInv

(* A process that goes on, leaves or begins keeps what is known of processes. *)
LEMMA WentProc ==
    ASSUME DeliveryInv, NEW p \in Procs, NEW place, NEW f, Writer(p), Went(p, place, f),
           place \notin {"idle", "package"}, UNCHANGED <<bundle, backup>>,
           place \in {"check", "write", "verify", "finish", "put", "mark"} => f \in Files,
           place = "back" => f \in 0..NumFiles, place = "finish" => f = NumFiles
    PROVE  ProcInv'
<1>1. ProcInv /\ \A q \in Procs \ {p} : ~Writer(q)
  BY Alone DEF DeliveryInv
<1>. QED
  BY <1>1 DEF ProcInv, Writer, Went

(* A process that leaves: whoever else holds the lock keeps it.              *)
LEMMA LeftProc ==
    ASSUME DeliveryInv, NEW p \in Procs, Left(p), UNCHANGED <<bundle, backup>>
    PROVE  ProcInv'
<1>1. ProcInv /\ \A q \in Procs : proc[q] \in ProcRecords
  BY DEF DeliveryInv, DelTypeOK
<1>2. Idle.pc = "idle" /\ Idle.bundle = Nobody
  BY DEF Idle
<1>. QED
  BY <1>1, <1>2, DeliveryBounds DEF ProcInv, Writer, Left

(* A process that begins: nobody else was at a delivery.                     *)
LEMMA EnteredProc ==
    ASSUME DeliveryInv, NEW p \in Procs, NEW b \in Bundles, NEW a, NEW place, Entered(p, place, b, a),
           place \in {"intent", "claimUndo", "restore"}, UNCHANGED bundle,
           bundle[b].ready, b \in backup', backup \subseteq backup'
    PROVE  ProcInv'
<1>1. ProcInv /\ \A q \in Procs : ~Writer(q)
  BY NobodyWrites DEF DeliveryInv, Entered
<1>. QED
  BY <1>1 DEF ProcInv, Writer, Entered

(* Each step of a delivery goes on, leaves, and stays inside the files.      *)
LEMMA DeliversKeepsProc ==
    ASSUME DeliveryInv, NEW p \in Procs, Delivers(p)
    PROVE  ProcInv'
<1>. DEFINE b == proc[p].bundle
            f == proc[p].file
<1>. USE DEF Rest
<1>1. NumFiles \in Nat \ {0} /\ Files = 1..NumFiles
  BY DeliveryBounds DEF Files
<1>2. 1 \in Files /\ NumFiles \in 0..NumFiles
  BY <1>1
<1>3. CASE PersistIntent(p)
  BY <1>3, ApplySteps, WentProc DEF Writer
<1>4. CASE ClaimApproval(p)
  BY <1>4, ApplySteps, WentProc, LeftProc DEF Writer
<1>5. CASE StartWriting(p)
  BY <1>2, <1>5, ApplySteps, WentProc DEF Writer
<1>6. CASE CheckFile(p)
  BY <1>6, ApplySteps, WentProc DEF Writer
<1>7. CASE WriteFile(p)
  BY <1>7, ApplySteps, WentProc DEF Writer
<1>8. CASE VerifyFile(p)
  BY <1>8, ApplySteps, WentProc DEF Writer
<1>9. CASE FinishApply(p)
  BY <1>9, ApplySteps, WentProc, LeftProc DEF Writer
<1>10. CASE BeginRestore(p)
  BY <1>2, <1>10, RestoreSteps, WentProc DEF Writer
<1>11. CASE RestoreCheck(p)
  <2>1. f \in Files => f - 1 \in 0..NumFiles
    BY <1>1
  <2>. QED
    BY <1>11, <2>1, RestoreSteps, WentProc, LeftProc DEF Writer
<1>12. CASE RestoreFile(p)
  BY <1>12, RestoreSteps, WentProc DEF Writer
<1>13. CASE MarkRestored(p)
  <2>1. f \in Files => f - 1 \in 0..NumFiles
    BY <1>1
  <2>. QED
    BY <1>13, <2>1, RestoreSteps, WentProc DEF Writer
<1>14. CASE FinishRestore(p)
  BY <1>14, RestoreSteps, LeftProc DEF Writer
<1>15. CASE ClaimUndo(p)
  BY <1>15, RestoreSteps, WentProc, LeftProc DEF Writer
<1>. QED
  BY <1>3, <1>4, <1>5, <1>6, <1>7, <1>8, <1>9, <1>10, <1>11, <1>12, <1>13, <1>14, <1>15
  DEF Delivers

(* Every file and record keeps its type, and only a bundle with a backup has *)
(* a journal.                                                                *)
LEMMA DeliversKeepsType ==
    ASSUME DeliveryInv, NEW p \in Procs, Delivers(p)
    PROVE  DelTypeOK' /\ BundleInv'
<1>. DEFINE b == proc[p].bundle
            f == proc[p].file
<1>1. /\ DelTypeOK /\ BundleInv /\ DOMAIN approvals \subseteq Nat
      /\ CandidateContents \subseteq FileContents
  BY DEF DeliveryInv, DelTypeOK, FileContents
<1>2. Writer(p) /\ b \in backup
  BY ApplySteps, RestoreSteps DEF Delivers, DeliveryInv, ProcInv, Writer
<1>3. UNCHANGED <<bundle, backup, touched, raced, overlapped>>
  BY ApplySteps, RestoreSteps DEF Delivers, Rest
<1>4. UNCHANGED approvals \/ \E a \in DOMAIN approvals : Uses(a)
  BY ApplySteps, RestoreSteps DEF Delivers
<1>5. (\E place, g : Went(p, place, g)) \/ Left(p)
  BY ApplySteps, RestoreSteps DEF Delivers
<1>6. UNCHANGED journal \/ OnlyJournal(b)
  BY ApplySteps, RestoreSteps DEF Delivers, Rest, SetsStatus, SetsState, Intends
<1>7. disk' \in [Files -> FileContents]
  <2>1. \/ UNCHANGED disk
        \/ f \in Files /\ disk' = [disk EXCEPT ![f] = bundle[b].delivered[f]]
        \/ f \in Files /\ disk' = [disk EXCEPT ![f] = bundle[b].baseline[f]]
    BY ApplySteps, RestoreSteps DEF Delivers, Rest
  <2>2. /\ bundle[b].baseline \in [Files -> FileContents]
        /\ bundle[b].delivered \in [Files -> CandidateContents]
    BY <1>1, <1>2 DEF BundleInv, DelTypeOK
  <2>3. disk \in [Files -> FileContents]
    BY <1>1 DEF DelTypeOK
  <2>. QED
    BY <1>1, <2>1, <2>2, <2>3
<1>8. DelTypeOK'
  BY <1>1, <1>3, <1>4, <1>5, <1>6, <1>7 DEF DelTypeOK, Went, Left, Uses, OnlyJournal
<1>9. BundleInv'
  BY <1>1, <1>2, <1>3, <1>6 DEF BundleInv, OnlyJournal
<1>. QED
  BY <1>8, <1>9
(* Of the journals only that of the process which steps changes.             *)
LEMMA JournalOfOne ==
    ASSUME DeliveryInv, NEW p \in Procs, Writer(p), NEW b \in Bundles,
           \A q \in Procs \ {p} : proc'[q] = proc[q],
           \A c \in Bundles \ {b} : journal'[c] = journal[c],
           Writer(p)' => journal'[proc'[p].bundle].status \in PhaseOf(proc'[p].pc),
           PlaceSays(p)', StatusSays(b)'
    PROVE  JournalInv'
<1>1. \A q \in Procs \ {p} : ~Writer(q) /\ ~Writer(q)'
  BY Alone DEF DeliveryInv, Writer
<1>2. \A q \in Procs \ {p} : PlaceSays(q)'
  BY <1>1 DEF PlaceSays, Writer
<1>3. \A c \in Bundles : StatusSays(c)
  BY DEF DeliveryInv, JournalInv
<1>4. \A c \in Bundles \ {b} : StatusSays(c)'
  BY <1>3 DEF StatusSays
<1>. QED
  BY <1>1, <1>2, <1>4 DEF JournalInv, Writer

(* Each step of a delivery leaves the journal saying where its process is.   *)
LEMMA DeliversKeepsJournal ==
    ASSUME DeliveryInv, NEW p \in Procs, NEW b, NEW f, b = proc[p].bundle, f = proc[p].file,
           Delivers(p)
    PROVE  JournalInv'
<1>1. /\ Writer(p) /\ b \in Bundles
      /\ \A q \in Procs \ {p} : proc'[q] = proc[q]
      /\ \A c \in Bundles \ {b} : journal'[c] = journal[c]
  <2>1. Writer(p) /\ b \in Bundles
    BY ApplySteps, RestoreSteps DEF Delivers, Writer
  <2>2. \A q \in Procs \ {p} : proc'[q] = proc[q]
    BY ApplySteps, RestoreSteps DEF Delivers, Went, Left
  <2>3. \A c \in Bundles \ {b} : journal'[c] = journal[c]
    BY ApplySteps, RestoreSteps DEF Delivers, Rest, SetsStatus, SetsState, Intends, OnlyJournal
  <2>. QED
    BY <2>1, <2>2, <2>3
<1>2. /\ journal[b].status \in PhaseOf(proc[p].pc) /\ PlaceSays(p) /\ StatusSays(b)
      /\ journal[b].status \in Statuses
  BY <1>1 DEF DeliveryInv, JournalInv, DelTypeOK, JournalRecords
<1>3. ASSUME Writer(p)' => journal'[proc'[p].bundle].status \in PhaseOf(proc'[p].pc),
             PlaceSays(p)', StatusSays(b)'
      PROVE  JournalInv'
  BY <1>1, <1>3, JournalOfOne
<1>. SUFFICES /\ Writer(p)' => journal'[proc'[p].bundle].status \in PhaseOf(proc'[p].pc)
              /\ PlaceSays(p)' /\ StatusSays(b)'
  BY <1>3
<1>4. ASSUME Left(p) PROVE ~Writer(p)' /\ PlaceSays(p)'
  BY <1>4 DEF Left, PlaceSays, Writer, Idle
<1>. USE DEF Rest
<1>5. CASE PersistIntent(p)
  <2>1. /\ Intends(b, proc[p].approval)
        /\ proc'[p].pc = "claim" /\ proc'[p].bundle = b
    BY <1>5, ApplySteps DEF Went
  <2>. QED
    BY <2>1 DEF Intends, PhaseOf, PlaceSays, StatusSays
<1>6. CASE ClaimApproval(p)
  <2>1. proc[p].pc = "claim" /\ UNCHANGED journal /\ (Went(p, "applying", 0) \/ Left(p))
    BY <1>6, ApplySteps
  <2>2. CASE Left(p)
    BY <1>2, <1>4, <2>1, <2>2 DEF SetsStatus, PlaceSays, StatusSays
  <2>3. CASE Went(p, "applying", 0)
    BY <1>2, <2>1, <2>3 DEF Went, SetsStatus, PhaseOf, PlaceSays, StatusSays
  <2>. QED
    BY <2>1, <2>2, <2>3
<1>7. CASE StartWriting(p)
  <2>1. /\ proc[p].pc = "applying" /\ SetsStatus(b, "applying")
        /\ proc'[p].pc = "check" /\ proc'[p].bundle = b /\ proc'[p].file = 1
    BY <1>7, ApplySteps DEF Went
  <2>2. \A g \in Files : journal'[b].state[g] = "pending"
    BY <1>2, <2>1 DEF SetsStatus, PhaseOf, StatusSays
  <2>3. \A g \in Files : ~(g < 1)
    BY DeliveryBounds DEF Files
  <2>4. journal'[b].status = "applying"
    BY <2>1 DEF SetsStatus
  <2>5. PlaceSays(p)'
    BY <2>1, <2>2, <2>3 DEF PlaceSays
  <2>. QED
    BY <2>1, <2>4, <2>5 DEF PhaseOf, StatusSays
<1>8. CASE CheckFile(p)
  <2>1. /\ proc[p].pc = "check" /\ b \in Bundles /\ f \in Files
        /\ \/ SetsState(b, f, "writing") /\ Went(p, "write", f)
           \/ UNCHANGED journal /\ Went(p, "restore", 0)
    BY <1>8, ApplySteps
  <2>2. CASE SetsState(b, f, "writing") /\ Went(p, "write", f)
    <3>1. /\ proc'[p].pc = "write" /\ proc'[p].bundle = b /\ proc'[p].file = f
          /\ journal'[b].status = "applying" /\ journal'[b].state[f] = "writing"
          /\ \A g \in Files \ {f} : journal'[b].state[g] = journal[b].state[g]
      BY <1>2, <2>1, <2>2 DEF Went, SetsState, PhaseOf
    <3>2. \A g \in Files : (g < f => g # f) /\ (g > f => g # f)
      BY DeliveryBounds DEF Files
    <3>3. PlaceSays(p)'
      BY <1>2, <2>1, <3>1, <3>2 DEF PlaceSays
    <3>. QED
      BY <3>1, <3>3 DEF PhaseOf, StatusSays
  <2>3. CASE UNCHANGED journal /\ Went(p, "restore", 0)
    BY <1>2, <2>1, <2>3 DEF Went, PhaseOf, PlaceSays, StatusSays
  <2>. QED
    BY <2>1, <2>2, <2>3
<1>9. CASE WriteFile(p)
  <2>1. /\ proc[p].pc = "write" /\ UNCHANGED journal /\ b \in Bundles
        /\ Went(p, "verify", f) \/ Went(p, "restore", 0)
    BY <1>9, ApplySteps
  <2>2. CASE Went(p, "verify", f)
    BY <1>2, <2>1, <2>2 DEF Went, PhaseOf, PlaceSays, StatusSays
  <2>3. CASE Went(p, "restore", 0)
    BY <1>2, <2>1, <2>3 DEF Went, PhaseOf, PlaceSays, StatusSays
  <2>. QED
    BY <2>1, <2>2, <2>3
<1>10. CASE VerifyFile(p)
  <2>1. /\ proc[p].pc = "verify" /\ b \in Bundles /\ f \in Files
        /\ \/ /\ SetsState(b, f, "delivered")
              /\ \/ f = NumFiles /\ Went(p, "finish", f)
                 \/ f # NumFiles /\ f + 1 \in Files /\ Went(p, "check", f + 1)
           \/ UNCHANGED journal /\ Went(p, "restore", 0)
    BY <1>10, ApplySteps
  <2>2. ASSUME SetsState(b, f, "delivered")
        PROVE  /\ journal'[b].status = "applying" /\ StatusSays(b)'
               /\ \A g \in Files : /\ g <= f => journal'[b].state[g] = "delivered"
                                   /\ g > f => journal'[b].state[g] = "pending"
    <3>1. /\ journal'[b].status = "applying" /\ journal'[b].state[f] = "delivered"
          /\ \A g \in Files \ {f} : journal'[b].state[g] = journal[b].state[g]
      BY <1>2, <2>1, <2>2 DEF SetsState, PhaseOf
    <3>2. \A g \in Files : (g <= f => g = f \/ g < f) /\ (g > f => g # f)
      BY <2>1, DeliveryBounds DEF Files
    <3>3. StatusSays(b)'
      BY <3>1 DEF StatusSays
    <3>4. ASSUME NEW g \in Files
          PROVE  /\ g <= f => journal'[b].state[g] = "delivered"
                 /\ g > f => journal'[b].state[g] = "pending"
      <4>1. g \in Int /\ f \in Int
        BY <2>1, DeliveryBounds DEF Files
      <4>2. /\ g < f => journal[b].state[g] = "delivered"
            /\ g > f => journal[b].state[g] = "pending"
        BY <1>2, <2>1, <4>1 DEF PlaceSays
      <4>3. (g <= f => g = f \/ g < f) /\ (g > f => g # f)
        BY <3>2
      <4>4. CASE g = f
        BY <3>1, <4>3, <4>4
      <4>5. CASE g # f
        <5>1. journal'[b].state[g] = journal[b].state[g]
          BY <3>1, <4>5
        <5>. QED
          BY <4>2, <4>3, <4>1, <4>5, <5>1
      <4>. QED
        BY <4>4, <4>5
    <3>. QED
      BY <3>1, <3>3, <3>4
  <2>3. CASE SetsState(b, f, "delivered") /\ f = NumFiles /\ Went(p, "finish", f)
    <3>1. \A g \in Files : g <= f
      BY <2>3, DeliveryBounds DEF Files
    <3>2. proc'[p].pc = "finish" /\ proc'[p].bundle = b
      BY <2>3 DEF Went
    <3>. QED
      BY <2>2, <2>3, <3>1, <3>2 DEF PhaseOf, PlaceSays
  <2>4. CASE SetsState(b, f, "delivered") /\ f + 1 \in Files /\ Went(p, "check", f + 1)
    <3>1. \A g \in Files : /\ g < f + 1 => g <= f
                           /\ g > f + 1 => g > f
                           /\ g = f + 1 => g > f
      BY <2>1, DeliveryBounds DEF Files
    <3>2. proc'[p].pc = "check" /\ proc'[p].bundle = b /\ proc'[p].file = f + 1
      BY <2>4 DEF Went
    <3>3. ASSUME NEW g \in Files
          PROVE  /\ g < f + 1 => journal'[b].state[g] = "delivered"
                 /\ g > f + 1 => journal'[b].state[g] = "pending"
                 /\ g = f + 1 => journal'[b].state[g] = "pending"
      <4>1. /\ g <= f => journal'[b].state[g] = "delivered"
            /\ g > f => journal'[b].state[g] = "pending"
        BY <2>2, <2>4
      <4>2. g \in Int /\ f \in Int
        BY <2>1, DeliveryBounds DEF Files
      <4>. QED
        BY <4>1, <4>2
    <3>4. PlaceSays(p)'
      BY <3>2, <3>3 DEF PlaceSays
    <3>. QED
      BY <2>2, <2>4, <3>2, <3>4 DEF PhaseOf
  <2>5. CASE UNCHANGED journal /\ Went(p, "restore", 0)
    BY <1>2, <2>1, <2>5 DEF Went, PhaseOf, PlaceSays, StatusSays
  <2>. QED
    BY <2>1, <2>3, <2>4, <2>5
<1>11. CASE FinishApply(p)
  <2>1. proc[p].pc = "finish" /\ SetsStatus(b, "applied") /\ (Left(p) \/ Went(p, "restore", 0))
    BY <1>11, ApplySteps
  <2>2. CASE Left(p)
    BY <1>2, <1>4, <2>1, <2>2 DEF SetsStatus, PlaceSays, StatusSays
  <2>3. CASE Went(p, "restore", 0)
    BY <1>2, <2>1, <2>3, SMTT(30) DEF Went, SetsStatus, PhaseOf, PlaceSays, StatusSays
  <2>. QED
    BY <2>1, <2>2, <2>3
<1>12. CASE BeginRestore(p)
  <2>1. /\ proc[p].pc = "restore" /\ SetsStatus(b, "rolling_back")
        /\ proc'[p].pc = "back" /\ proc'[p].bundle = b
    BY <1>12, RestoreSteps DEF Went
  <2>. QED
    BY <2>1 DEF SetsStatus, PhaseOf, PlaceSays, StatusSays
<1>13. CASE RestoreCheck(p)
  <2>1. /\ proc[p].pc = "back" /\ f \in Files /\ UNCHANGED journal
        /\ \/ Left(p) \/ Went(p, "back", f - 1)
           \/ journal[b].state[f] # "pending" /\ Went(p, "put", f)
    BY <1>13, RestoreSteps
  <2>2. CASE Left(p)
    BY <1>2, <1>4, <2>1, <2>2 DEF SetsStatus, PlaceSays, StatusSays
  <2>3. CASE ~Left(p)
    BY <1>2, <2>1, <2>3 DEF Went, SetsStatus, PhaseOf, PlaceSays, StatusSays
  <2>. QED
    BY <2>1, <2>2, <2>3
<1>14. CASE RestoreFile(p)
  <2>1. /\ proc[p].pc = "put" /\ UNCHANGED journal
        /\ proc'[p].pc = "mark" /\ proc'[p].bundle = b /\ proc'[p].file = f
    BY <1>14, RestoreSteps DEF Went
  <2>. QED
    BY <1>2, <2>1 DEF PhaseOf, PlaceSays, StatusSays
<1>15. CASE MarkRestored(p)
  <2>1. /\ proc[p].pc = "mark" /\ SetsState(b, f, "restored")
        /\ proc'[p].pc = "back" /\ proc'[p].bundle = b
    BY <1>15, RestoreSteps DEF Went
  <2>2. journal'[b].status = "rolling_back"
    BY <1>2, <2>1 DEF SetsState, PhaseOf
  <2>. QED
    BY <2>1, <2>2 DEF PhaseOf, PlaceSays, StatusSays
<1>16. CASE FinishRestore(p)
  BY <1>2, <1>4, <1>16, RestoreSteps DEF SetsStatus, StatusSays
<1>17. CASE ClaimUndo(p)
  <2>1. proc[p].pc = "claimUndo" /\ UNCHANGED journal /\ (Went(p, "restore", 0) \/ Left(p))
    BY <1>17, RestoreSteps
  <2>2. CASE Left(p)
    BY <1>2, <1>4, <2>1, <2>2 DEF SetsStatus, PlaceSays, StatusSays
  <2>3. CASE Went(p, "restore", 0)
    BY <1>2, <2>1, <2>3 DEF Went, SetsStatus, PhaseOf, PlaceSays, StatusSays
  <2>. QED
    BY <2>1, <2>2, <2>3
<1>. QED
  BY <1>5, <1>6, <1>7, <1>8, <1>9, <1>10, <1>11, <1>12, <1>13, <1>14, <1>15, <1>16, <1>17
  DEF Delivers
(* Approvals are added and consumed, never dropped or given back.            *)
Spent ==
    /\ DOMAIN approvals \subseteq DOMAIN approvals'
    /\ \A a \in DOMAIN approvals : Used(a) => approvals'[a].state = "consumed"

(* Consuming an approval gives none back.                                    *)
LEMMA UsesSpends ==
    ASSUME NEW a \in DOMAIN approvals, Uses(a)
    PROVE  Spent /\ approvals'[a].state = "consumed"
  BY DEF Uses, Spent, Used

(* A journal that does not change names the approvals it named.              *)
LEMMA OtherJournalsUse ==
    ASSUME DeliveryInv, Spent, NEW c \in Bundles, journal'[c] = journal[c]
    PROVE  JournalUses(c)'
<1>1. JournalUses(c)
  BY DEF DeliveryInv, ApprovalInv
<1>2. journal[c] \in JournalRecords
  BY DEF DeliveryInv, DelTypeOK
<1>. QED
  BY <1>1, <1>2 DEF JournalUses, Spent, Used, JournalRecords, Statuses

(* Of the journals only that of the process which steps can name another     *)
(* approval.                                                                 *)
LEMMA ApprovalOfOne ==
    ASSUME DeliveryInv, NEW p \in Procs, Writer(p), NEW b \in Bundles, Spent,
           \A q \in Procs \ {p} : proc'[q] = proc[q],
           \A c \in Bundles \ {b} : journal'[c] = journal[c],
           WriterUses(p)', JournalUses(b)'
    PROVE  ApprovalInv'
<1>1. \A q \in Procs \ {p} : proc'[q].pc \in {"idle", "package"}
  BY Alone DEF DeliveryInv, Writer
<1>2. \A q \in Procs \ {p} : WriterUses(q)'
  BY <1>1 DEF WriterUses
<1>3. \A c \in Bundles \ {b} : JournalUses(c)'
  BY OtherJournalsUse
<1>. QED
  BY <1>2, <1>3 DEF ApprovalInv

(* Each step of a delivery: what is written has its approval consumed        *)
(* before.                                                                   *)
LEMMA DeliversKeepsApproval ==
    ASSUME DeliveryInv, NEW p \in Procs, NEW b, NEW f, b = proc[p].bundle, f = proc[p].file,
           Delivers(p)
    PROVE  ApprovalInv'
<1>1. /\ Writer(p) /\ b \in Bundles
      /\ \A q \in Procs \ {p} : proc'[q] = proc[q]
      /\ \A c \in Bundles \ {b} : journal'[c] = journal[c]
      /\ Spent
  <2>1. Writer(p) /\ b \in Bundles
    BY ApplySteps, RestoreSteps DEF Delivers, Writer
  <2>2. \A q \in Procs \ {p} : proc'[q] = proc[q]
    BY ApplySteps, RestoreSteps DEF Delivers, Went, Left
  <2>3. \A c \in Bundles \ {b} : journal'[c] = journal[c]
    BY ApplySteps, RestoreSteps DEF Delivers, Rest, SetsStatus, SetsState, Intends, OnlyJournal
  <2>4. UNCHANGED approvals \/ \E a \in DOMAIN approvals : Uses(a)
    BY ApplySteps, RestoreSteps DEF Delivers
  <2>5. Spent
    BY <2>4, UsesSpends DEF Spent, Used
  <2>. QED
    BY <2>1, <2>2, <2>3, <2>5
<1>2. /\ WriterUses(p) /\ JournalUses(b) /\ journal[b].status \in PhaseOf(proc[p].pc)
      /\ journal[b].status \in Statuses
  BY <1>1 DEF DeliveryInv, JournalInv, ApprovalInv, DelTypeOK, JournalRecords
<1>3. ASSUME WriterUses(p)', JournalUses(b)' PROVE ApprovalInv'
  BY <1>1, <1>3, ApprovalOfOne
<1>. SUFFICES WriterUses(p)' /\ JournalUses(b)'
  BY <1>3
<1>4. UNCHANGED journal => JournalUses(b)'
  BY <1>1, OtherJournalsUse
<1>5. ASSUME Left(p) PROVE WriterUses(p)'
  BY <1>5 DEF Left, WriterUses, Idle
<1>. USE DEF Rest
<1>6. CASE PersistIntent(p)
  <2>1. /\ proc[p].pc = "intent" /\ UNCHANGED approvals
        /\ Intends(b, proc[p].approval) /\ Went(p, "claim", 0)
    BY <1>6, ApplySteps
  <2>2. JournalUses(b)'
    BY <1>2, <2>1 DEF Intends, WriterUses, JournalUses
  <2>3. WriterUses(p)'
    BY <2>1 DEF Went, Intends, WriterUses
  <2>. QED
    BY <2>2, <2>3
<1>7. CASE ClaimApproval(p)
  <2>1. /\ proc[p].pc = "claim" /\ UNCHANGED journal
        /\ \/ /\ proc[p].approval \in DOMAIN approvals
              /\ Uses(proc[p].approval) /\ Went(p, "applying", 0)
           \/ Left(p)
    BY <1>7, ApplySteps
  <2>2. CASE Left(p)
    BY <1>4, <1>5, <2>1, <2>2
  <2>3. CASE Uses(proc[p].approval) /\ Went(p, "applying", 0)
    BY <1>2, <1>4, <2>1, <2>3 DEF Uses, Went, WriterUses, Used
  <2>. QED
    BY <2>1, <2>2, <2>3
<1>8. CASE StartWriting(p)
  <2>1. /\ proc[p].pc = "applying" /\ UNCHANGED approvals
        /\ SetsStatus(b, "applying") /\ Went(p, "check", 1)
    BY <1>8, ApplySteps
  <2>. QED
    BY <1>2, <2>1 DEF Went, SetsStatus, WriterUses, JournalUses, PhaseOf, Used
<1>9. CASE CheckFile(p)
  <2>1. /\ proc[p].pc = "check" /\ UNCHANGED approvals
        /\ \/ SetsState(b, f, "writing") /\ Went(p, "write", f)
           \/ UNCHANGED journal /\ Went(p, "restore", 0)
    BY <1>9, ApplySteps
  <2>2. CASE SetsState(b, f, "writing") /\ Went(p, "write", f)
    <3>1. JournalUses(b)'
      BY <1>2, <2>1, <2>2 DEF SetsState, JournalUses, Used
    <3>2. WriterUses(p)'
      BY <1>2, <2>1, <2>2 DEF Went, SetsState, WriterUses, Used
    <3>. QED
      BY <3>1, <3>2
  <2>3. CASE UNCHANGED journal /\ Went(p, "restore", 0)
    BY <1>2, <1>4, <2>1, <2>3 DEF Went, WriterUses, JournalUses, PhaseOf, Used
  <2>. QED
    BY <2>1, <2>2, <2>3
<1>10. CASE WriteFile(p)
  BY <1>2, <1>4, <1>10, ApplySteps DEF Went, WriterUses, JournalUses, PhaseOf, Used
<1>11. CASE VerifyFile(p)
  <2>1. /\ proc[p].pc = "verify" /\ UNCHANGED approvals
        /\ \/ /\ SetsState(b, f, "delivered")
              /\ Went(p, "finish", f) \/ Went(p, "check", f + 1)
           \/ UNCHANGED journal /\ Went(p, "restore", 0)
    BY <1>11, ApplySteps
  <2>2. CASE /\ SetsState(b, f, "delivered")
             /\ Went(p, "finish", f) \/ Went(p, "check", f + 1)
    <3>1. JournalUses(b)'
      BY <1>2, <2>1, <2>2 DEF SetsState, JournalUses, Used
    <3>2. /\ proc'[p].pc \in {"finish", "check"} /\ proc'[p].bundle = b
          /\ journal'[b].approval = journal[b].approval
      BY <2>2 DEF Went, SetsState
    <3>3. WriterUses(p)'
      BY <1>2, <2>1, <3>2 DEF WriterUses, Used
    <3>. QED
      BY <3>1, <3>3
  <2>3. CASE UNCHANGED journal /\ Went(p, "restore", 0)
    BY <1>2, <1>4, <2>1, <2>3 DEF Went, WriterUses, JournalUses, PhaseOf, Used
  <2>. QED
    BY <2>1, <2>2, <2>3
<1>12. CASE FinishApply(p)
  <2>1. /\ proc[p].pc = "finish" /\ UNCHANGED approvals
        /\ SetsStatus(b, "applied") /\ (Left(p) \/ Went(p, "restore", 0))
    BY <1>12, ApplySteps
  <2>2. JournalUses(b)'
    BY <1>2, <2>1 DEF SetsStatus, WriterUses, JournalUses, PhaseOf, Used
  <2>3. ASSUME Went(p, "restore", 0) PROVE WriterUses(p)'
    BY <1>2, <2>1, <2>3 DEF Went, SetsStatus, WriterUses, JournalUses, PhaseOf, Used
  <2>. QED
    BY <1>5, <2>1, <2>2, <2>3
<1>13. CASE BeginRestore(p)
  <2>1. /\ proc[p].pc = "restore" /\ UNCHANGED approvals
        /\ SetsStatus(b, "rolling_back") /\ Went(p, "back", NumFiles)
    BY <1>13, RestoreSteps
  <2>. QED
    BY <1>2, <2>1 DEF Went, SetsStatus, WriterUses, JournalUses, PhaseOf, Used
<1>14. CASE RestoreCheck(p)
  BY <1>2, <1>4, <1>5, <1>14, RestoreSteps DEF Went, WriterUses, Used
<1>15. CASE RestoreFile(p)
  BY <1>2, <1>4, <1>15, RestoreSteps DEF Went, WriterUses, Used
<1>16. CASE MarkRestored(p)
  <2>1. /\ proc[p].pc = "mark" /\ UNCHANGED approvals
        /\ SetsState(b, f, "restored") /\ Went(p, "back", f - 1)
    BY <1>16, RestoreSteps
  <2>2. JournalUses(b)'
    BY <1>2, <2>1 DEF SetsState, JournalUses, Used
  <2>3. WriterUses(p)'
    BY <1>2, <2>1 DEF Went, SetsState, WriterUses, Used
  <2>. QED
    BY <2>2, <2>3
<1>17. CASE FinishRestore(p)
  <2>1. /\ proc[p].pc = "back" /\ UNCHANGED approvals
        /\ SetsStatus(b, "rolled_back") /\ Left(p)
    BY <1>17, RestoreSteps
  <2>2. JournalUses(b)'
    BY <1>2, <2>1 DEF SetsStatus, WriterUses, JournalUses, PhaseOf, Used
  <2>. QED
    BY <1>5, <2>1, <2>2
<1>18. CASE ClaimUndo(p)
  <2>1. /\ proc[p].pc = "claimUndo" /\ UNCHANGED journal
        /\ \/ /\ proc[p].approval \in DOMAIN approvals
              /\ Uses(proc[p].approval) /\ Went(p, "restore", 0)
           \/ Left(p)
    BY <1>18, RestoreSteps
  <2>2. CASE Left(p)
    BY <1>4, <1>5, <2>1, <2>2
  <2>3. CASE Uses(proc[p].approval) /\ Went(p, "restore", 0)
    <3>1. Used(journal[b].approval) /\ journal[b].approval \in DOMAIN approvals
      BY <1>2, <2>1 DEF WriterUses, JournalUses, PhaseOf
    <3>. QED
      BY <1>1, <1>2, <1>4, <2>1, <2>3, <3>1 DEF Uses, Went, WriterUses, Used, Spent
  <2>. QED
    BY <2>1, <2>2, <2>3
<1>. QED
  BY <1>6, <1>7, <1>8, <1>9, <1>10, <1>11, <1>12, <1>13, <1>14, <1>15, <1>16, <1>17, <1>18
  DEF Delivers
(* A file is checked right before it is written or put back.                 *)
LEMMA DeliversKeepsEdit ==
    ASSUME DeliveryInv, NEW p \in Procs, NEW b, NEW f, b = proc[p].bundle, f = proc[p].file,
           Delivers(p)
    PROVE  IntentInv' /\ EditInv'
<1>1. Writer(p) /\ \A q \in Procs \ {p} : proc'[q] = proc[q]
  <2>1. Writer(p)
    BY ApplySteps, RestoreSteps DEF Delivers, Writer
  <2>2. \A q \in Procs \ {p} : proc'[q] = proc[q]
    BY ApplySteps, RestoreSteps DEF Delivers, Went, Left
  <2>. QED
    BY <2>1, <2>2
<1>2. \A q \in Procs \ {p} : proc'[q].pc \in {"idle", "package"}
  BY <1>1, Alone DEF DeliveryInv, Writer
<1>3. proc'[p].pc # "intent"
  BY ApplySteps, RestoreSteps DEF Delivers, Went, Left, Idle
<1>4. proc'[p].pc = "write" => /\ proc'[p].file = f /\ proc'[p].bundle = b
                               /\ disk[f] = bundle[b].baseline[f]
                               /\ UNCHANGED <<disk, bundle, raced>>
  BY ApplySteps, RestoreSteps DEF Delivers, Went, Left, Idle, Rest
<1>5. proc'[p].pc = "put" => /\ proc'[p].file = f /\ proc'[p].bundle = b
                             /\ disk[f] \in {bundle[b].baseline[f], bundle[b].delivered[f]}
                             /\ UNCHANGED <<disk, bundle, raced>>
  BY ApplySteps, RestoreSteps DEF Delivers, Went, Left, Idle, Rest
<1>6. IntentInv'
  BY <1>2, <1>3 DEF IntentInv
<1>7. EditInv'
  BY <1>2, <1>4, <1>5 DEF EditInv
<1>. QED
  BY <1>6, <1>7

(* Without overlaps only the journal of the process which steps is           *)
(* unfinished.                                                               *)
LEMMA WholeOfOne ==
    ASSUME DeliveryInv, NEW p \in Procs, Writer(p), NEW b \in Bundles, b = proc[p].bundle,
           \A q \in Procs \ {p} : proc'[q] = proc[q],
           \A c \in Bundles \ {b} : journal'[c] = journal[c],
           UNCHANGED <<bundle, backup, touched>>, OneUnfinished, WholeInv,
           Writer(p)' => proc'[p].bundle = b, PutBack(p)',
           ~Unfinished(b)' => Whole(disk)', Unfinished(b)' => DiskSays(b)'
    PROVE  OneUnfinished' /\ BackInv' /\ WholeInv'
<1>1. \A q \in Procs \ {p} : proc'[q].pc \in {"idle", "package"}
  BY Alone DEF DeliveryInv, Writer
<1>2. \A c \in Bundles : Unfinished(c)' => c = b
  BY DEF OneUnfinished, Unfinished
<1>3. OneUnfinished'
  BY <1>1, <1>2 DEF OneUnfinished, Writer
<1>4. BackInv'
  <2>1. \A q \in Procs \ {p} : PutBack(q)'
    BY <1>1 DEF PutBack
  <2>. QED
    BY <2>1 DEF BackInv
<1>5. \A c \in backup' : Whole(bundle[c].baseline)'
  BY DEF WholeInv, Whole, Agrees
<1>6. WholeInv'
  BY <1>2, <1>5 DEF WholeInv
<1>. QED
  BY <1>3, <1>4, <1>6

(* Each step of a delivery leaves the files as the journal says, and the     *)
(* last step of an apply, an undo or a recovery leaves them whole.           *)
LEMMA DeliversKeepsWhole ==
    ASSUME DeliveryInv, NEW p \in Procs, NEW b, NEW f, b = proc[p].bundle, f = proc[p].file,
           Delivers(p)
    PROVE  ~overlapped' => OneUnfinished' /\ BackInv' /\ WholeInv'
<1>1. /\ Writer(p) /\ b \in Bundles
      /\ \A q \in Procs \ {p} : proc'[q] = proc[q]
      /\ \A c \in Bundles \ {b} : journal'[c] = journal[c]
      /\ UNCHANGED <<bundle, backup, touched, overlapped>>
      /\ Writer(p)' => proc'[p].bundle = b
  <2>1. Writer(p) /\ b \in Bundles
    BY ApplySteps, RestoreSteps DEF Delivers, Writer
  <2>2. \A q \in Procs \ {p} : proc'[q] = proc[q]
    BY ApplySteps, RestoreSteps DEF Delivers, Went, Left
  <2>3. \A c \in Bundles \ {b} : journal'[c] = journal[c]
    BY ApplySteps, RestoreSteps DEF Delivers, Rest, SetsStatus, SetsState, Intends, OnlyJournal
  <2>4. UNCHANGED <<bundle, backup, touched, overlapped>>
    BY ApplySteps, RestoreSteps DEF Delivers, Rest
  <2>5. Writer(p)' => proc'[p].bundle = b
    BY ApplySteps, RestoreSteps DEF Delivers, Went, Left, Writer, Idle
  <2>. QED
    BY <2>1, <2>2, <2>3, <2>4, <2>5
<1>. SUFFICES ASSUME ~overlapped' PROVE OneUnfinished' /\ BackInv' /\ WholeInv'
  OBVIOUS
<1>2. /\ journal[b].status \in PhaseOf(proc[p].pc) /\ PlaceSays(p) /\ StatusSays(b)
      /\ journal[b].status \in Statuses /\ b \in backup
      /\ disk \in [Files -> FileContents]
  BY <1>1 DEF DeliveryInv, JournalInv, DelTypeOK, JournalRecords, ProcInv
<1>3. /\ OneUnfinished /\ WholeInv /\ PutBack(p)
      /\ Unfinished(b) => DiskSays(b)
      /\ Whole(bundle[b].baseline)
  BY <1>1, <1>2 DEF DeliveryInv, BackInv, WholeInv
<1>4. ASSUME PutBack(p)', ~Unfinished(b)' => Whole(disk)', Unfinished(b)' => DiskSays(b)'
      PROVE  OneUnfinished' /\ BackInv' /\ WholeInv'
  BY <1>1, <1>3, <1>4, WholeOfOne
<1>. SUFFICES PutBack(p)' /\ (~Unfinished(b)' => Whole(disk)') /\ (Unfinished(b)' => DiskSays(b)')
  BY <1>4
<1>5. proc'[p].pc \notin {"back", "put", "mark"} => PutBack(p)'
  BY DEF PutBack
<1>6. UNCHANGED <<disk, journal>> /\ Unfinished(b) => Unfinished(b)' /\ DiskSays(b)'
  BY <1>1, <1>3 DEF Unfinished, DiskSays
<1>. USE DEF Rest
<1>7. CASE PersistIntent(p)
  <2>1. /\ proc[p].pc = "intent" /\ UNCHANGED disk
        /\ Intends(b, proc[p].approval) /\ proc'[p].pc = "claim"
    BY <1>7, ApplySteps DEF Went
  <2>2. Agrees(disk, bundle[b].baseline)
    BY <2>1 DEF DeliveryInv, IntentInv
  <2>3. DiskSays(b)'
    BY <1>1, <2>1, <2>2 DEF DiskSays, Agrees, Intends
  <2>. QED
    BY <1>5, <2>1, <2>3 DEF Unfinished, Intends
<1>8. CASE ClaimApproval(p)
  <2>1. /\ proc[p].pc = "claim" /\ UNCHANGED <<disk, journal>>
        /\ proc'[p].pc \in {"applying", "idle"}
    BY <1>8, ApplySteps DEF Went, Left, Idle
  <2>2. Unfinished(b)
    BY <1>2, <2>1 DEF PhaseOf, Unfinished
  <2>. QED
    BY <1>5, <1>6, <2>1, <2>2
<1>9. CASE StartWriting(p)
  <2>1. /\ proc[p].pc = "applying" /\ UNCHANGED disk
        /\ SetsStatus(b, "applying") /\ proc'[p].pc = "check"
    BY <1>9, ApplySteps DEF Went
  <2>2. journal[b].status = "prepared"
    BY <1>2, <2>1 DEF PhaseOf
  <2>3. DiskSays(b)'
    BY <1>1, <1>2, <1>3, <2>1, <2>2 DEF DiskSays, StatusSays, SetsStatus, Unfinished
  <2>. QED
    BY <1>5, <2>1, <2>3 DEF Unfinished, SetsStatus
<1>10. CASE CheckFile(p)
  <2>1. /\ proc[p].pc = "check" /\ UNCHANGED disk /\ f \in Files
        /\ SetsState(b, f, "writing") \/ UNCHANGED journal
        /\ proc'[p].pc \in {"write", "restore"}
    BY <1>10, ApplySteps DEF Went
  <2>2. Unfinished(b) /\ DiskSays(b)
    BY <1>2, <1>3, <2>1 DEF PhaseOf, Unfinished
  <2>3. Unfinished(b)'
    BY <2>1, <2>2 DEF SetsState, Unfinished
  <2>4. ASSUME SetsState(b, f, "writing") PROVE DiskSays(b)'
    <3>1. /\ \A g \in Files \ {f} : journal'[b].state[g] = journal[b].state[g]
          /\ journal'[b].state[f] = "writing" /\ journal'[b].status = journal[b].status
      BY <2>4 DEF SetsState
    <3>. QED
      BY <1>1, <2>1, <2>2, <3>1 DEF DiskSays
  <2>5. DiskSays(b)' /\ Unfinished(b)'
    BY <1>6, <2>1, <2>2, <2>3, <2>4
  <2>. QED
    BY <1>5, <2>1, <2>5
<1>11. CASE WriteFile(p)
  <2>1. /\ proc[p].pc = "write" /\ UNCHANGED journal /\ f \in Files
        /\ disk' = [disk EXCEPT ![f] = bundle[b].delivered[f]] \/ UNCHANGED disk
        /\ proc'[p].pc \in {"verify", "restore"}
    BY <1>11, ApplySteps DEF Went
  <2>2. Unfinished(b) /\ DiskSays(b) /\ journal[b].state[f] = "writing"
    BY <1>2, <1>3, <2>1 DEF PhaseOf, Unfinished, PlaceSays
  <2>3. Unfinished(b)'
    BY <2>1, <2>2 DEF Unfinished
  <2>4. \A g \in Files \ {f} : disk'[g] = disk[g]
    BY <1>2, <2>1
  <2>5. DiskSays(b)'
    BY <1>1, <2>1, <2>2, <2>4 DEF DiskSays
  <2>. QED
    BY <1>5, <2>1, <2>3, <2>5
<1>12. CASE VerifyFile(p)
  <2>1. /\ proc[p].pc = "verify" /\ UNCHANGED disk /\ f \in Files
        /\ \/ disk[f] = bundle[b].delivered[f] /\ SetsState(b, f, "delivered")
           \/ UNCHANGED journal
        /\ proc'[p].pc \in {"finish", "check", "restore"}
    BY <1>12, ApplySteps DEF Went
  <2>2. Unfinished(b) /\ DiskSays(b)
    BY <1>2, <1>3, <2>1 DEF PhaseOf, Unfinished
  <2>3. CASE SetsState(b, f, "delivered") /\ disk[f] = bundle[b].delivered[f]
    <3>1. /\ \A g \in Files \ {f} : journal'[b].state[g] = journal[b].state[g]
          /\ journal'[b].state[f] = "delivered" /\ journal'[b].status = journal[b].status
      BY <2>3 DEF SetsState
    <3>2. DiskSays(b)'
      BY <1>1, <2>1, <2>2, <2>3, <3>1, SMTT(30) DEF DiskSays
    <3>. QED
      BY <1>5, <2>1, <2>2, <3>1, <3>2 DEF Unfinished
  <2>4. CASE UNCHANGED journal
    BY <1>5, <1>6, <2>1, <2>2, <2>4
  <2>. QED
    BY <2>1, <2>3, <2>4
<1>13. CASE FinishApply(p)
  <2>1. /\ proc[p].pc = "finish" /\ UNCHANGED disk /\ SetsStatus(b, "applied")
        /\ proc'[p].pc \in {"idle", "restore"}
    BY <1>13, ApplySteps DEF Went, Left, Idle
  <2>2. /\ DiskSays(b) /\ journal[b].status = "applying"
        /\ \A g \in Files : journal[b].state[g] = "delivered"
    BY <1>2, <1>3, <2>1 DEF PhaseOf, Unfinished, PlaceSays
  <2>3. Agrees(disk, bundle[b].delivered)
    BY <2>2 DEF DiskSays, Agrees
  <2>4. Whole(disk)'
    BY <1>1, <1>2, <2>1, <2>3 DEF Whole, Agrees
  <2>5. ~Unfinished(b)'
    BY <2>1 DEF Unfinished, SetsStatus
  <2>. QED
    BY <1>5, <2>1, <2>4, <2>5
<1>14. CASE BeginRestore(p)
  <2>1. /\ proc[p].pc = "restore" /\ UNCHANGED disk /\ SetsStatus(b, "rolling_back")
        /\ proc'[p].pc = "back" /\ proc'[p].file = NumFiles
    BY <1>14, RestoreSteps DEF Went
  <2>2. PutBack(p)'
    BY <2>1, DeliveryBounds DEF PutBack, Files
  <2>3. \A g \in Files \ touched : journal[b].state[g] = "pending" => disk[g] = bundle[b].baseline[g]
    BY <1>2, <1>3, <2>1 DEF PhaseOf, Unfinished, DiskSays, StatusSays
  <2>4. DiskSays(b)' /\ Unfinished(b)'
    BY <1>1, <2>1, <2>3 DEF DiskSays, SetsStatus, Unfinished
  <2>. QED
    BY <2>2, <2>4
<1>15. CASE RestoreCheck(p)
  <2>1. /\ proc[p].pc = "back" /\ UNCHANGED <<disk, journal>> /\ f \in Files
        /\ \/ journal[b].state[f] = "pending" /\ Went(p, "back", f - 1)
           \/ Went(p, "put", f)
           \/ Left(p)
    BY <1>15, RestoreSteps
  <2>2. Unfinished(b) /\ DiskSays(b)
    BY <1>2, <1>3, <2>1 DEF PhaseOf, Unfinished
  <2>3. PutBack(p)'
    <3>1. CASE journal[b].state[f] = "pending" /\ Went(p, "back", f - 1)
      <4>1. \A g \in Files : g > f - 1 => g > f \/ g = f
        BY <2>1, DeliveryBounds DEF Files
      <4>2. \A g \in Files \ touched : g > f - 1 => disk[g] = bundle[b].baseline[g]
        BY <1>3, <2>1, <2>2, <3>1, <4>1 DEF PutBack, DiskSays
      <4>. QED
        BY <1>1, <2>1, <3>1, <4>2 DEF PutBack, Went
    <3>2. CASE Went(p, "put", f)
      BY <1>1, <1>3, <2>1, <3>2 DEF PutBack, Went
    <3>3. CASE Left(p)
      BY <1>5, <3>3 DEF Left, Idle
    <3>. QED
      BY <2>1, <3>1, <3>2, <3>3
  <2>. QED
    BY <1>6, <2>1, <2>2, <2>3
<1>16. CASE RestoreFile(p)
  <2>1. /\ proc[p].pc = "put" /\ UNCHANGED journal /\ f \in Files
        /\ disk' = [disk EXCEPT ![f] = bundle[b].baseline[f]] /\ Went(p, "mark", f)
    BY <1>16, RestoreSteps
  <2>2. Unfinished(b) /\ DiskSays(b) /\ journal[b].status = "rolling_back"
    BY <1>2, <1>3, <2>1 DEF PhaseOf, Unfinished
  <2>3. DiskSays(b)' /\ Unfinished(b)'
    BY <1>1, <1>2, <2>1, <2>2 DEF DiskSays, Unfinished
  <2>4. \A g \in Files \ touched : g >= f => disk'[g] = bundle[b].baseline[g]
    <3>1. \A g \in Files : g >= f => g > f \/ g = f
      BY <2>1, DeliveryBounds DEF Files
    <3>2. \A g \in Files \ touched : g > f => disk[g] = bundle[b].baseline[g]
      BY <1>3, <2>1 DEF PutBack
    <3>. QED
      BY <1>2, <2>1, <3>1, <3>2
  <2>5. PutBack(p)'
    BY <1>1, <2>1, <2>4 DEF PutBack, Went
  <2>. QED
    BY <2>3, <2>5
<1>17. CASE MarkRestored(p)
  <2>1. /\ proc[p].pc = "mark" /\ UNCHANGED disk /\ f \in Files
        /\ SetsState(b, f, "restored") /\ Went(p, "back", f - 1)
    BY <1>17, RestoreSteps
  <2>2. Unfinished(b) /\ DiskSays(b) /\ journal[b].status = "rolling_back"
    BY <1>2, <1>3, <2>1 DEF PhaseOf, Unfinished
  <2>3. DiskSays(b)' /\ Unfinished(b)'
    BY <1>1, <2>1, <2>2 DEF DiskSays, SetsState, Unfinished
  <2>4. \A g \in Files \ touched : g > f - 1 => disk[g] = bundle[b].baseline[g]
    <3>1. \A g \in Files : g > f - 1 => g >= f
      BY <2>1, DeliveryBounds DEF Files
    <3>. QED
      BY <1>3, <2>1, <3>1 DEF PutBack
  <2>5. PutBack(p)'
    BY <1>1, <2>1, <2>4 DEF PutBack, Went
  <2>. QED
    BY <2>3, <2>5
<1>18. CASE FinishRestore(p)
  <2>1. /\ proc[p].pc = "back" /\ UNCHANGED disk /\ f = 0
        /\ SetsStatus(b, "rolled_back") /\ proc'[p].pc = "idle"
    BY <1>18, RestoreSteps DEF Left, Idle
  <2>2. \A g \in Files : g > 0
    BY DeliveryBounds DEF Files
  <2>3. Agrees(disk, bundle[b].baseline)
    BY <1>3, <2>1, <2>2 DEF PutBack, Agrees
  <2>4. Whole(disk)
    BY <1>3, <2>3 DEF Whole, Agrees
  <2>5. Whole(disk)' /\ ~Unfinished(b)'
    BY <1>1, <2>1, <2>4 DEF Whole, Agrees, Unfinished, SetsStatus
  <2>. QED
    BY <1>5, <2>1, <2>5
<1>19. CASE ClaimUndo(p)
  <2>1. /\ proc[p].pc = "claimUndo" /\ UNCHANGED <<disk, journal>>
        /\ proc'[p].pc \in {"restore", "idle"}
    BY <1>19, RestoreSteps DEF Went, Left, Idle
  <2>2. Unfinished(b)
    BY <1>2, <2>1 DEF PhaseOf, Unfinished
  <2>. QED
    BY <1>5, <1>6, <2>1, <2>2
<1>. QED
  BY <1>7, <1>8, <1>9, <1>10, <1>11, <1>12, <1>13, <1>14, <1>15, <1>16, <1>17, <1>18, <1>19
  DEF Delivers
(* The steps of a delivery keep the invariant.                               *)
LEMMA DeliversKeeps ==
    ASSUME DeliveryInv, NEW p \in Procs, Delivers(p)
    PROVE  DeliveryInv'
<1>1. DelTypeOK' /\ BundleInv' /\ ProcInv'
  BY DeliversKeepsType, DeliversKeepsProc
<1>2. JournalInv' /\ ApprovalInv'
  BY DeliversKeepsJournal, DeliversKeepsApproval
<1>3. IntentInv' /\ EditInv' /\ (~overlapped' => OneUnfinished' /\ BackInv' /\ WholeInv')
  BY DeliversKeepsEdit, DeliversKeepsWhole
<1>. QED
  BY <1>1, <1>2, <1>3 DEF DeliveryInv

-----------------------------------------------------------------------------
(* The other steps keep it                                                   *)

(* An apply begins on its baseline; without overlaps that baseline is        *)
(* whole.                                                                    *)
LEMMA BeginApplyKeeps ==
    ASSUME DeliveryInv, NEW p \in Procs, NEW b \in Bundles, NEW a \in DOMAIN approvals,
           BeginApply(p, b, a)
    PROVE  DeliveryInv'
<1>1. /\ Entered(p, "intent", b, a) /\ b \notin backup /\ backup' = backup \cup {b}
      /\ bundle[b].ready /\ disk = bundle[b].baseline
      /\ UNCHANGED <<disk, bundle, approvals, journal>>
      /\ overlapped' = (overlapped \/ \E c \in Bundles \ {b} : Unfinished(c))
      /\ UNCHANGED <<touched, raced>>
  BY EnterSteps DEF Overlaps
<1>2. /\ DelTypeOK /\ BundleInv /\ JournalInv /\ ApprovalInv
      /\ ~overlapped => OneUnfinished /\ BackInv /\ WholeInv
  BY DEF DeliveryInv
<1>3. journal[b].status = "none"
  BY <1>1, <1>2 DEF BundleInv
<1>4. /\ \A q \in Procs \ {p} : ~Writer(q) /\ ~Writer(q)'
      /\ proc'[p].pc = "intent" /\ proc'[p].bundle = b /\ proc'[p].approval = a
      /\ Writer(p)'
  <2>1. lock["destination"] = Nobody /\ ProcInv
    BY <1>1 DEF Entered, DeliveryInv
  <2>2. \A q \in Procs : ~Writer(q)
    BY <2>1, NobodyWrites
  <2>. QED
    BY <1>1, <2>2 DEF Entered, Writer
<1>5. ProcInv'
  BY <1>1, EnteredProc
<1>6. DelTypeOK' /\ BundleInv'
  BY <1>1, <1>2 DEF DelTypeOK, BundleInv, Entered
<1>7. JournalInv'
  BY <1>1, <1>2, <1>3, <1>4 DEF JournalInv, PlaceSays, StatusSays, PhaseOf, Writer
<1>8. ApprovalInv'
  BY <1>1, <1>2, <1>4 DEF ApprovalInv, WriterUses, JournalUses, Used, Writer
<1>9. IntentInv' /\ EditInv'
  BY <1>1, <1>4 DEF IntentInv, EditInv, Agrees, Writer
<1>10. ASSUME ~overlapped' PROVE OneUnfinished' /\ BackInv' /\ WholeInv'
  <2>1. /\ ~overlapped /\ \A c \in Bundles : ~Unfinished(c)
    BY <1>1, <1>3, <1>10 DEF Unfinished
  <2>2. OneUnfinished'
    BY <1>1, <2>1 DEF OneUnfinished, Unfinished
  <2>3. BackInv'
    BY <1>4 DEF BackInv, PutBack, Writer
  <2>4. Whole(disk) /\ \A c \in backup : Whole(bundle[c].baseline)
    BY <1>2, <2>1 DEF WholeInv
  <2>5. Whole(disk)' /\ \A c \in backup' : Whole(bundle[c].baseline)'
    BY <1>1, <2>4 DEF Whole, Agrees
  <2>6. WholeInv'
    BY <1>1, <2>1, <2>5 DEF WholeInv, Unfinished
  <2>. QED
    BY <2>2, <2>3, <2>6
<1>. QED
  BY <1>5, <1>6, <1>7, <1>8, <1>9, <1>10 DEF DeliveryInv

(* An undo begins where every file is delivered.                             *)
LEMMA BeginUndoKeeps ==
    ASSUME DeliveryInv, NEW p \in Procs, NEW b \in Bundles, NEW a \in DOMAIN approvals,
           BeginUndo(p, b, a)
    PROVE  DeliveryInv'
<1>1. /\ Entered(p, "claimUndo", b, a) /\ b \in backup
      /\ journal[b].status = "applied" /\ IntendsUndo(b, a)
      /\ UNCHANGED <<disk, bundle, approvals, backup>>
      /\ overlapped' = (overlapped \/ \E c \in Bundles \ {b} : Unfinished(c))
      /\ UNCHANGED <<touched, raced>>
  BY EnterSteps DEF Overlaps
<1>2. /\ DelTypeOK /\ BundleInv /\ JournalInv /\ ApprovalInv
      /\ ~overlapped => OneUnfinished /\ BackInv /\ WholeInv
  BY DEF DeliveryInv
<1>3. /\ journal' \in [Bundles -> JournalRecords]
      /\ \A c \in Bundles \ {b} : journal'[c] = journal[c]
      /\ journal'[b].status = "undoing" /\ journal'[b].operation = "undo"
      /\ journal'[b].undoApproval = a /\ journal'[b].approval = journal[b].approval
      /\ journal'[b].state = journal[b].state
  BY <1>1 DEF IntendsUndo, OnlyJournal
<1>4. /\ \A q \in Procs \ {p} : ~Writer(q) /\ ~Writer(q)'
      /\ proc'[p].pc = "claimUndo" /\ proc'[p].bundle = b /\ proc'[p].approval = a
      /\ Writer(p)'
  <2>1. lock["destination"] = Nobody /\ ProcInv
    BY <1>1 DEF Entered, DeliveryInv
  <2>2. \A q \in Procs : ~Writer(q)
    BY <2>1, NobodyWrites
  <2>. QED
    BY <1>1, <2>2 DEF Entered, Writer
<1>5. ProcInv'
  BY <1>1, <1>2, EnteredProc DEF BundleInv
<1>6. DelTypeOK' /\ BundleInv'
  BY <1>1, <1>2, <1>3 DEF DelTypeOK, BundleInv, Entered
<1>7. JournalInv'
  <2>1. StatusSays(b) /\ \A c \in Bundles : StatusSays(c)
    BY <1>2 DEF JournalInv
  <2>2. StatusSays(b)' /\ \A c \in Bundles \ {b} : StatusSays(c)'
    BY <1>1, <1>3, <2>1 DEF StatusSays
  <2>3. \A q \in Procs : PlaceSays(q)'
    BY <1>4 DEF PlaceSays, Writer
  <2>4. \A q \in Procs : Writer(q)' => journal'[proc'[q].bundle].status \in PhaseOf(proc'[q].pc)
    BY <1>3, <1>4 DEF PhaseOf
  <2>. QED
    BY <2>2, <2>3, <2>4 DEF JournalInv
<1>8. ApprovalInv'
  <2>1. JournalUses(b) /\ Spent
    BY <1>1, <1>2 DEF ApprovalInv, Spent, Used
  <2>2. JournalUses(b)'
    BY <1>1, <1>3, <2>1 DEF JournalUses, Used
  <2>3. \A c \in Bundles \ {b} : JournalUses(c)'
    BY <1>3, <2>1, OtherJournalsUse
  <2>4. WriterUses(p)'
    BY <1>1, <1>3, <1>4, <2>1 DEF WriterUses, JournalUses, Used
  <2>5. \A q \in Procs \ {p} : WriterUses(q)'
    BY <1>4 DEF WriterUses, Writer
  <2>. QED
    BY <2>2, <2>3, <2>4, <2>5 DEF ApprovalInv
<1>9. IntentInv' /\ EditInv'
  BY <1>4 DEF IntentInv, EditInv, Writer
<1>10. ASSUME ~overlapped' PROVE OneUnfinished' /\ BackInv' /\ WholeInv'
  <2>1. ~overlapped /\ \A c \in Bundles \ {b} : ~Unfinished(c)
    BY <1>1, <1>10
  <2>2. \A c \in Bundles : Unfinished(c)' => c = b
    BY <1>3, <2>1 DEF Unfinished
  <2>3. OneUnfinished'
    BY <1>4, <2>2 DEF OneUnfinished
  <2>4. BackInv'
    BY <1>4 DEF BackInv, PutBack, Writer
  <2>5. \A c \in backup' : Whole(bundle[c].baseline)'
    BY <1>1, <1>2, <2>1 DEF WholeInv, Whole, Agrees
  <2>6. StatusSays(b)
    BY <1>2 DEF JournalInv
  <2>7. DiskSays(b)'
    BY <1>1, <1>3, <2>6 DEF StatusSays, DiskSays
  <2>8. Unfinished(b)'
    BY <1>3 DEF Unfinished
  <2>9. WholeInv'
    BY <2>2, <2>5, <2>7, <2>8 DEF WholeInv
  <2>. QED
    BY <2>3, <2>4, <2>9
<1>. QED
  BY <1>5, <1>6, <1>7, <1>8, <1>9, <1>10 DEF DeliveryInv

(* A recovery consumes the approval of what was interrupted.                 *)
LEMMA BeginRecoverKeeps ==
    ASSUME DeliveryInv, NEW p \in Procs, NEW b \in Bundles, BeginRecover(p, b)
    PROVE  DeliveryInv'
<1>1. PICK a \in DOMAIN approvals :
      /\ a = IF journal[b].operation = "undo" THEN journal[b].undoApproval
             ELSE journal[b].approval
      /\ Uses(a)
  BY EnterSteps
<1>2. /\ Entered(p, "restore", b, 0) /\ b \in backup /\ Unfinished(b)
      /\ UNCHANGED <<Rest, journal>>
  BY EnterSteps
<1>3. /\ DelTypeOK /\ BundleInv /\ JournalInv /\ ApprovalInv
      /\ ~overlapped => OneUnfinished /\ BackInv /\ WholeInv
  BY DEF DeliveryInv
<1>4. /\ \A q \in Procs \ {p} : ~Writer(q) /\ ~Writer(q)'
      /\ proc'[p].pc = "restore" /\ proc'[p].bundle = b /\ Writer(p)'
  <2>1. lock["destination"] = Nobody /\ ProcInv
    BY <1>2 DEF Entered, DeliveryInv
  <2>2. \A q \in Procs : ~Writer(q)
    BY <2>1, NobodyWrites
  <2>. QED
    BY <1>2, <2>2 DEF Entered, Writer
<1>5. UNCHANGED <<disk, bundle, backup, touched, raced, overlapped>>
  BY <1>2 DEF Rest
<1>6. ProcInv'
  BY <1>2, <1>3, <1>5, EnteredProc DEF BundleInv
<1>7. DelTypeOK' /\ BundleInv'
  BY <1>1, <1>2, <1>3, <1>5 DEF DelTypeOK, BundleInv, Entered, Uses
<1>8. JournalInv'
  <2>1. \A c \in Bundles : StatusSays(c)'
    BY <1>2, <1>3 DEF JournalInv, StatusSays
  <2>2. \A q \in Procs : PlaceSays(q)'
    BY <1>4 DEF PlaceSays, Writer
  <2>3. \A q \in Procs : Writer(q)' => journal'[proc'[q].bundle].status \in PhaseOf(proc'[q].pc)
    BY <1>2, <1>4 DEF PhaseOf, Unfinished
  <2>. QED
    BY <2>1, <2>2, <2>3 DEF JournalInv
<1>9. ApprovalInv'
  <2>1. Spent /\ approvals'[a].state = "consumed"
    BY <1>1, UsesSpends
  <2>2. \A c \in Bundles : JournalUses(c)'
    BY <1>2, <2>1, OtherJournalsUse
  <2>3. JournalUses(b) /\ journal[b].operation \in {"apply", "undo"}
    BY <1>3 DEF ApprovalInv, DelTypeOK, JournalRecords
  <2>4. /\ approvals'[journal[b].approval].state = "consumed"
        /\ journal[b].operation = "undo" => approvals'[journal[b].undoApproval].state = "consumed"
    BY <1>1, <1>2, <2>1, <2>3 DEF JournalUses, Unfinished, Spent
  <2>5. WriterUses(p)'
    BY <1>2, <1>4, <2>4 DEF WriterUses, Used
  <2>6. \A q \in Procs \ {p} : WriterUses(q)'
    BY <1>4 DEF WriterUses, Writer
  <2>. QED
    BY <2>2, <2>5, <2>6 DEF ApprovalInv
<1>10. IntentInv' /\ EditInv'
  BY <1>4 DEF IntentInv, EditInv, Writer
<1>11. ASSUME ~overlapped' PROVE OneUnfinished' /\ BackInv' /\ WholeInv'
  <2>1. OneUnfinished /\ WholeInv
    BY <1>3, <1>5, <1>11
  <2>2. OneUnfinished'
    BY <1>2, <1>4, <2>1 DEF OneUnfinished, Unfinished
  <2>3. BackInv'
    BY <1>4 DEF BackInv, PutBack, Writer
  <2>4. WholeInv'
    BY <1>2, <1>5, <2>1 DEF WholeInv, Whole, Agrees, DiskSays, Unfinished
  <2>. QED
    BY <2>2, <2>3, <2>4
<1>. QED
  BY <1>6, <1>7, <1>8, <1>9, <1>10, <1>11 DEF DeliveryInv
(* Whoever delivers uses a sealed bundle, and packaging changes no sealed    *)
(* one.                                                                      *)
LEMMA PackagesKeeps ==
    ASSUME DeliveryInv, NEW p \in Procs, NEW b \in Bundles, Packages(p, b),
           DelTypeOK', ProcInv', BundleInv'
    PROVE  DeliveryInv'
<1>1. /\ ~bundle[b].ready /\ ~Writer(p) /\ ~Writer(p)'
      /\ \A c \in Bundles \ {b} : bundle'[c] = bundle[c]
      /\ \A q \in Procs \ {p} : proc'[q] = proc[q]
      /\ UNCHANGED <<disk, approvals, backup, journal, lock, touched, raced, overlapped>>
  BY DEF Packages, Writer
<1>2. b \notin backup /\ \A c \in backup : bundle'[c] = bundle[c]
  BY <1>1 DEF DeliveryInv, DelTypeOK, BundleInv
<1>3. \A q \in Procs : Writer(q)' => /\ Writer(q) /\ proc'[q] = proc[q]
                                     /\ bundle'[proc[q].bundle] = bundle[proc[q].bundle]
  BY <1>1, <1>2 DEF DeliveryInv, ProcInv, Writer
<1>4. JournalInv'
  <2>1. \A q \in Procs : PlaceSays(q) /\ (Writer(q) => journal[proc[q].bundle].status \in PhaseOf(proc[q].pc))
    BY DEF DeliveryInv, JournalInv
  <2>2. \A q \in Procs : ~Writer(q)' => PlaceSays(q)'
    BY DEF PlaceSays, Writer
  <2>3. \A q \in Procs : Writer(q)' => PlaceSays(q)'
    BY <1>1, <1>3, <2>1 DEF PlaceSays
  <2>4. \A c \in Bundles : StatusSays(c)'
    BY <1>1 DEF DeliveryInv, JournalInv, StatusSays
  <2>. QED
    BY <1>1, <1>3, <2>1, <2>2, <2>3, <2>4 DEF JournalInv
<1>5. ApprovalInv'
  <2>1. \A q \in Procs : WriterUses(q)
    BY DEF DeliveryInv, ApprovalInv
  <2>2. \A q \in Procs : ~Writer(q)' => WriterUses(q)'
    BY DEF WriterUses, Writer
  <2>3. \A q \in Procs : Writer(q)' => WriterUses(q)'
    BY <1>1, <1>3, <2>1 DEF WriterUses, Used
  <2>4. \A c \in Bundles : JournalUses(c)'
    BY <1>1 DEF DeliveryInv, ApprovalInv, JournalUses, Used
  <2>. QED
    BY <2>2, <2>3, <2>4 DEF ApprovalInv
<1>6. IntentInv'
  BY <1>1, <1>3 DEF DeliveryInv, IntentInv, Agrees, Writer
<1>7. EditInv'
  BY <1>1, <1>3, SMTT(30) DEF DeliveryInv, EditInv, Writer
<1>8. ASSUME ~overlapped' PROVE OneUnfinished' /\ BackInv' /\ WholeInv'
  <2>1. OneUnfinished /\ BackInv /\ WholeInv
    BY <1>1, <1>8 DEF DeliveryInv
  <2>2. OneUnfinished'
    BY <1>1, <1>3, <2>1 DEF OneUnfinished, Unfinished
  <2>3. BackInv'
    BY <1>1, <1>3, <2>1 DEF BackInv, PutBack, Writer
  <2>4. \A c \in Bundles : Unfinished(c) => c \in backup
    BY DEF DeliveryInv, BundleInv, Unfinished
  <2>5. Whole(disk) => Whole(disk)'
    BY <1>1, <1>2 DEF Whole, Agrees
  <2>6. \A c \in backup' : Whole(bundle[c].baseline)'
    BY <1>1, <1>2, <2>1 DEF WholeInv, Whole, Agrees
  <2>7. \A c \in Bundles : Unfinished(c)' => DiskSays(c)'
    BY <1>1, <1>2, <2>1, <2>4 DEF WholeInv, DiskSays, Unfinished
  <2>8. WholeInv'
    BY <1>1, <2>1, <2>5, <2>6, <2>7 DEF WholeInv, Unfinished
  <2>. QED
    BY <2>2, <2>3, <2>8
<1>. QED
  BY <1>4, <1>5, <1>6, <1>7, <1>8 DEF DeliveryInv

(* The steps of package keep the invariant.                                  *)
LEMMA PackageKeeps ==
    ASSUME DeliveryInv, NEW p \in Procs,
           ReadBaseline(p) \/ SealBundle(p) \/ \E b \in Bundles : BeginPackage(p, b)
    PROVE  DeliveryInv'
<1>. DEFINE f == proc[p].file
<1>1. DelTypeOK /\ ProcInv /\ BundleInv
  BY DEF DeliveryInv
<1>2. ASSUME NEW b \in Bundles, Packages(p, b), BundleInv' PROVE DelTypeOK' /\ b \notin backup
  BY <1>1, <1>2 DEF Packages, DelTypeOK, BundleInv
<1>3. ASSUME NEW b \in Bundles, BeginPackage(p, b) PROVE DeliveryInv'
  <2>1. /\ Packages(p, b) /\ \A q \in Procs : proc[q].bundle # b
        /\ proc'[p] = [pc |-> "package", bundle |-> b, approval |-> 0, file |-> 1]
        /\ ~bundle'[b].ready /\ bundle'[b].delivered \in [Files -> CandidateContents]
    BY <1>3, PackageSteps
  <2>2. BundleInv'
    BY <1>1, <2>1 DEF Packages, BundleInv
  <2>3. 1 \in 1..(NumFiles + 1) /\ \A g \in Files : ~(g < 1)
    BY DeliveryBounds DEF Files
  <2>4. ProcInv'
    BY <1>1, <2>1, <2>3 DEF Packages, ProcInv, Writer
  <2>. QED
    BY <1>2, <2>1, <2>2, <2>4, PackagesKeeps
<1>4. ASSUME ReadBaseline(p) PROVE DeliveryInv'
  <2>1. PICK b \in Bundles : b = proc[p].bundle
    BY <1>4, PackageSteps
  <2>2. /\ Packages(p, b)
        /\ proc[p].pc = "package" /\ proc'[p].pc = "package"
        /\ proc'[p].bundle = b
        /\ f \in Files /\ proc'[p].file = f + 1
        /\ ~bundle'[b].ready
        /\ bundle'[b].delivered = bundle[b].delivered
        /\ bundle'[b].baseline = [bundle[b].baseline EXCEPT ![f] = disk[f]]
    BY <1>4, <2>1, PackageSteps
  <2>3. BundleInv'
    BY <1>1, <2>2 DEF Packages, BundleInv
  <2>4. /\ f + 1 \in 1..(NumFiles + 1) /\ \A g \in Files : g < f + 1 => g < f \/ g = f
    BY <2>2, DeliveryBounds DEF Files
  <2>5. /\ bundle[b].baseline \in [Files -> FileContents \cup {Nobody}]
        /\ disk[f] \in FileContents
    BY <1>1, <2>2 DEF DelTypeOK, BundleRecords
  <2>6. \A g \in Files : g < f + 1 => bundle'[b].baseline[g] \in FileContents
    BY <1>1, <2>1, <2>2, <2>4, <2>5 DEF ProcInv
  <2>7. /\ \A q \in Procs : proc[q].bundle = b => q = p
        /\ bundle[b].delivered \in [Files -> CandidateContents]
    BY <1>1, <2>1, <2>2 DEF ProcInv
  <2>8. ProcInv'
    <3>1. /\ \A q \in Procs \ {p} : proc'[q] = proc[q] /\ proc[q].bundle # b
          /\ \A c \in Bundles \ {b} : bundle'[c] = bundle[c]
          /\ UNCHANGED <<lock, backup>>
      BY <2>2, <2>7 DEF Packages
    <3>. DEFINE d == f + 1
    <3>2. /\ proc'[p].file = d /\ d \in 1..(NumFiles + 1)
          /\ \A g \in Files : g < d => bundle'[b].baseline[g] \in FileContents
          /\ bundle'[b].delivered \in [Files -> CandidateContents]
          /\ proc'[p].pc = "package" /\ proc'[p].bundle = b /\ ~bundle'[b].ready
      BY <2>2, <2>4, <2>6, <2>7
    <3>. HIDE DEF d, f
    <3>3. \A q \in Procs \ {p} : proc[q].bundle \in Bundles => proc[q].bundle \in Bundles \ {b}
      BY <3>1
    <3>4. \A q \in Procs : proc'[q].bundle = proc'[p].bundle => q = p
      BY <3>1, <3>2
    <3>. QED
      BY <1>1, <3>1, <3>2, <3>3, <3>4 DEF ProcInv, Writer
  <2>. QED
    BY <1>2, <2>2, <2>3, <2>8, PackagesKeeps
<1>5. ASSUME SealBundle(p) PROVE DeliveryInv'
  <2>1. PICK b \in Bundles : b = proc[p].bundle
    BY <1>5, PackageSteps
  <2>2. /\ Packages(p, b) /\ proc[p].pc = "package" /\ proc'[p] = Idle
        /\ bundle'[b].delivered \in [Files -> CandidateContents]
        /\ bundle'[b].baseline \in [Files -> FileContents]
    BY <1>5, <2>1, PackageSteps
  <2>3. BundleInv'
    BY <1>1, <2>2 DEF Packages, BundleInv
  <2>4. \A q \in Procs : proc[q].bundle = b => q = p
    BY <1>1, <2>1, <2>2 DEF ProcInv
  <2>5. Idle.pc = "idle" /\ Idle.bundle \notin Bundles
    BY DeliveryBounds DEF Idle
  <2>6. ProcInv'
    BY <1>1, <2>2, <2>4, <2>5 DEF Packages, ProcInv, Writer
  <2>. QED
    BY <1>2, <2>2, <2>3, <2>6, PackagesKeeps
<1>. QED
  BY <1>3, <1>4, <1>5
(* A process that dies leaves the files and the journals as they are.        *)
LEMMA StopKeeps ==
    ASSUME DeliveryInv, NEW p \in Procs, Stop(p)
    PROVE  DeliveryInv'
<1>1. DelTypeOK /\ BundleInv /\ JournalInv /\ ApprovalInv /\ IntentInv /\ EditInv
  BY DEF DeliveryInv
<1>2. /\ Left(p)
      /\ UNCHANGED <<disk, bundle, approvals, backup, journal, touched, raced, overlapped>>
  BY <1>1, LeaveFacts DEF Stop, ghosts
<1>3. /\ ~Writer(p)' /\ proc'[p].pc = "idle"
      /\ \A q \in Procs \ {p} : proc'[q] = proc[q]
  BY <1>2 DEF Left, Idle, Writer
<1>4. DelTypeOK' /\ ProcInv' /\ BundleInv'
  BY <1>1, <1>2, LeftProc DEF DelTypeOK, BundleInv, Left
<1>5. JournalInv'
  <2>1. \A q \in Procs : PlaceSays(q)'
    BY <1>1, <1>2, <1>3 DEF JournalInv, PlaceSays
  <2>. QED
    BY <1>1, <1>2, <1>3, <2>1 DEF JournalInv, StatusSays, Writer
<1>6. ApprovalInv'
  <2>1. \A q \in Procs : WriterUses(q)'
    BY <1>1, <1>2, <1>3 DEF ApprovalInv, WriterUses, Used
  <2>. QED
    BY <1>1, <1>2, <2>1 DEF ApprovalInv, JournalUses, Used
<1>7. IntentInv' /\ EditInv'
  BY <1>1, <1>2, <1>3 DEF IntentInv, EditInv, Agrees
<1>8. ASSUME ~overlapped' PROVE OneUnfinished' /\ BackInv' /\ WholeInv'
  <2>1. OneUnfinished /\ BackInv /\ WholeInv
    BY <1>2, <1>8 DEF DeliveryInv
  <2>2. OneUnfinished'
    BY <1>2, <1>3, <2>1 DEF OneUnfinished, Unfinished, Writer
  <2>3. BackInv'
    BY <1>2, <1>3, <2>1 DEF BackInv, PutBack
  <2>4. WholeInv'
    BY <1>2, <2>1 DEF WholeInv, Whole, Agrees, DiskSays, Unfinished
  <2>. QED
    BY <2>2, <2>3, <2>4
<1>. QED
  BY <1>4, <1>5, <1>6, <1>7, <1>8 DEF DeliveryInv

(* A new approval leaves those there are as they are.                        *)
LEMMA ApproveKeeps ==
    ASSUME DeliveryInv, NEW b \in Bundles, Approve(b) \/ ApproveUndo(b)
    PROVE  DeliveryInv'
<1>1. DelTypeOK /\ ProcInv /\ BundleInv /\ JournalInv /\ ApprovalInv /\ IntentInv /\ EditInv
  BY DEF DeliveryInv
<1>2. UNCHANGED <<disk, bundle, backup, journal, proc, lock, touched, raced, overlapped>>
  BY DEF Approve, ApproveUndo, ghosts
<1>3. approvals' \in Seq(ApprovalRecords) /\ Spent
  <2>1. PICK r \in ApprovalRecords : approvals' = Append(approvals, r)
    BY DEF Approve, ApproveUndo, ApprovalRecords
  <2>2. approvals \in Seq(ApprovalRecords)
    BY <1>1 DEF DelTypeOK
  <2>3. /\ approvals' \in Seq(ApprovalRecords)
        /\ DOMAIN approvals \subseteq DOMAIN approvals'
        /\ \A a \in DOMAIN approvals : approvals'[a] = approvals[a]
    BY <2>1, <2>2
  <2>. QED
    BY <2>3 DEF Spent, Used
<1>4. DelTypeOK' /\ ProcInv' /\ BundleInv'
  BY <1>1, <1>2, <1>3 DEF DelTypeOK, ProcInv, BundleInv, Writer
<1>5. JournalInv'
  BY <1>1, <1>2 DEF JournalInv, PlaceSays, StatusSays, Writer
<1>6. ApprovalInv'
  <2>1. \A c \in Bundles : JournalUses(c)'
    BY <1>2, <1>3, OtherJournalsUse
  <2>2. \A q \in Procs : WriterUses(q)'
    <3>1. TAKE q \in Procs
    <3>. DEFINE c == proc[q].bundle
    <3>2. WriterUses(q) /\ (Writer(q) => c \in Bundles)
      BY <1>1 DEF ApprovalInv, ProcInv, Writer
    <3>3. CASE ~Writer(q)
      BY <1>2, <3>3 DEF WriterUses, Writer
    <3>4. CASE Writer(q)
      <4>1. JournalUses(c) /\ journal[c].status \in PhaseOf(proc[q].pc)
        BY <1>1, <3>2, <3>4 DEF ApprovalInv, JournalInv
      <4>2. proc[q].pc # "intent" => journal[c].status # "none"
        BY <3>4, <4>1, <1>1, <3>2 DEF PhaseOf, Writer, DelTypeOK, ProcRecords, StepLabels
      <4>3. proc[q].pc # "intent" => journal[c].approval \in DOMAIN approvals
        BY <4>1, <4>2 DEF JournalUses
      <4>. QED
        BY <1>2, <1>3, <3>2, <4>1, <4>3 DEF WriterUses, JournalUses, Used, Spent
    <3>. QED
      BY <3>3, <3>4
  <2>. QED
    BY <2>1, <2>2 DEF ApprovalInv
<1>7. IntentInv' /\ EditInv'
  BY <1>1, <1>2 DEF IntentInv, EditInv, Agrees
<1>8. ASSUME ~overlapped' PROVE OneUnfinished' /\ BackInv' /\ WholeInv'
  <2>1. OneUnfinished /\ BackInv /\ WholeInv
    BY <1>2, <1>8 DEF DeliveryInv
  <2>. QED
    BY <1>2, <2>1
    DEF OneUnfinished, BackInv, PutBack, WholeInv, Whole, Agrees, DiskSays, Unfinished, Writer
<1>. QED
  BY <1>4, <1>5, <1>6, <1>7, <1>8 DEF DeliveryInv

(* What the user edits is no longer what the files are compared on, and an   *)
(* edit between a check and the write that follows is one of raced.          *)
LEMMA UserEditKeeps ==
    ASSUME DeliveryInv, NEW f \in Files, UserEdit(f)
    PROVE  DeliveryInv'
<1>1. DelTypeOK /\ ProcInv /\ BundleInv /\ JournalInv /\ ApprovalInv /\ IntentInv /\ EditInv
  BY DEF DeliveryInv
<1>2. /\ disk' = [disk EXCEPT ![f] = Edited] /\ touched' = touched \cup {f}
      /\ raced' = IF \E p \in Procs : proc[p].pc \in {"write", "put"} /\ proc[p].file = f
                  THEN raced \cup {f} ELSE raced
      /\ UNCHANGED <<bundle, approvals, backup, journal, proc, lock, overlapped>>
  BY DEF UserEdit
<1>3. disk \in [Files -> FileContents] /\ Edited \in FileContents
  BY <1>1 DEF DelTypeOK, FileContents
<1>4. /\ disk' \in [Files -> FileContents]
      /\ \A g \in Files \ touched' : g \in Files \ touched /\ disk'[g] = disk[g]
      /\ \A g \in Files \ {f} : disk'[g] = disk[g]
  BY <1>2, <1>3
<1>5. DelTypeOK' /\ ProcInv' /\ BundleInv'
  BY <1>1, <1>2, <1>4 DEF DelTypeOK, ProcInv, BundleInv, Writer
<1>6. JournalInv' /\ ApprovalInv'
  <2>1. JournalInv'
    BY <1>1, <1>2 DEF JournalInv, PlaceSays, StatusSays, Writer
  <2>2. ApprovalInv'
    BY <1>1, <1>2 DEF ApprovalInv, WriterUses, JournalUses, Used
  <2>. QED
    BY <2>1, <2>2
<1>7. IntentInv'
  BY <1>1, <1>2, <1>4 DEF IntentInv, Agrees
<1>8. EditInv'
  <2>1. raced \subseteq raced'
    BY <1>2
  <2>2. \A p \in Procs : proc[p].pc \in {"write", "put"} =>
            proc[p].file \in Files /\ (proc[p].file = f => f \in raced')
    BY <1>1, <1>2 DEF ProcInv
  <2>. QED
    BY <1>1, <1>2, <1>4, <2>1, <2>2 DEF EditInv
<1>9. ASSUME ~overlapped' PROVE OneUnfinished' /\ BackInv' /\ WholeInv'
  <2>1. OneUnfinished /\ BackInv /\ WholeInv
    BY <1>2, <1>9 DEF DeliveryInv
  <2>2. OneUnfinished'
    BY <1>2, <2>1 DEF OneUnfinished, Unfinished, Writer
  <2>3. BackInv'
    BY <1>2, <1>4, <2>1 DEF BackInv, PutBack
  <2>4. Whole(disk) => Whole(disk)'
    BY <1>2, <1>4 DEF Whole, Agrees
  <2>5. \A c \in backup' : Whole(bundle[c].baseline)'
    BY <1>2, <1>4, <2>1 DEF WholeInv, Whole, Agrees
  <2>6. \A c \in Bundles : Unfinished(c)' => DiskSays(c)'
    BY <1>2, <1>4, <2>1 DEF WholeInv, DiskSays, Unfinished
  <2>7. WholeInv'
    BY <1>2, <2>1, <2>4, <2>5, <2>6 DEF WholeInv, Unfinished
  <2>. QED
    BY <2>2, <2>3, <2>7
<1>. QED
  BY <1>5, <1>6, <1>7, <1>8, <1>9 DEF DeliveryInv

(* So does a step that changes nothing.                                      *)
LEMMA StutterKeeps ==
    ASSUME DeliveryInv, UNCHANGED delVars
    PROVE  DeliveryInv'
<1>1. /\ DelTypeOK /\ ProcInv /\ BundleInv /\ JournalInv /\ ApprovalInv /\ IntentInv /\ EditInv
      /\ ~overlapped => OneUnfinished /\ BackInv /\ WholeInv
  BY DEF DeliveryInv
<1>. USE DEF delVars
<1>2. DelTypeOK' /\ ProcInv' /\ BundleInv'
  BY <1>1 DEF DelTypeOK, ProcInv, BundleInv, Writer
<1>3. JournalInv' /\ ApprovalInv' /\ IntentInv' /\ EditInv'
  <2>1. JournalInv'
    BY <1>1 DEF JournalInv, PlaceSays, StatusSays, Writer
  <2>2. ApprovalInv'
    BY <1>1 DEF ApprovalInv, WriterUses, JournalUses, Used
  <2>. QED
    BY <1>1, <2>1, <2>2 DEF IntentInv, EditInv, Agrees
<1>4. ~overlapped' => OneUnfinished' /\ BackInv' /\ WholeInv'
  BY <1>1
  DEF OneUnfinished, BackInv, PutBack, WholeInv, Whole, Agrees, DiskSays, Unfinished, Writer
<1>. QED
  BY <1>2, <1>3, <1>4 DEF DeliveryInv

-----------------------------------------------------------------------------
(* The theorems                                                              *)

(* At the start nothing is packaged, approved or delivered.                  *)
LEMMA DeliveryInit == DelInit => DeliveryInv
<1>. SUFFICES ASSUME DelInit PROVE DeliveryInv
  OBVIOUS
<1>1. /\ disk = Start /\ approvals = <<>> /\ backup = {}
      /\ bundle = [b \in Bundles |-> [ready |-> FALSE, baseline |-> [f \in Files |-> Nobody],
                                      delivered |-> [f \in Files |-> Nobody]]]
      /\ journal = [b \in Bundles |-> NoJournal] /\ proc = [p \in Procs |-> Idle]
      /\ lock = [x \in Bundles \cup {"destination"} |-> Nobody]
      /\ touched = {} /\ raced = {} /\ overlapped = FALSE
  BY DEF DelInit, Start
<1>2. /\ \A p \in Procs : proc[p] = Idle /\ proc[p].pc = "idle"
      /\ \A b \in Bundles : /\ journal[b].status = "none" /\ journal[b].operation = "apply"
                            /\ \A f \in Files : journal[b].state[f] = "pending"
                            /\ ~bundle[b].ready
  BY <1>1 DEF Idle, NoJournal
<1>3. DelTypeOK
  <2>1. Start \in [Files -> FileContents]
    BY DEF Start, FileContents
  <2>2. Idle \in ProcRecords
    BY DEF Idle, ProcRecords, StepLabels
  <2>3. NoJournal \in JournalRecords
    BY DEF NoJournal, JournalRecords, Statuses, FileStates
  <2>4. [ready |-> FALSE, baseline |-> [f \in Files |-> Nobody],
         delivered |-> [f \in Files |-> Nobody]] \in BundleRecords
    BY DEF BundleRecords
  <2>5. <<>> \in Seq(ApprovalRecords)
    OBVIOUS
  <2>. QED
    BY <1>1, <2>1, <2>2, <2>3, <2>4, <2>5 DEF DelTypeOK
<1>4. ProcInv /\ BundleInv /\ IntentInv /\ EditInv
  BY <1>1, <1>2 DEF ProcInv, BundleInv, IntentInv, EditInv, Writer
<1>5. JournalInv /\ ApprovalInv
  BY <1>2 DEF JournalInv, PlaceSays, StatusSays, ApprovalInv, WriterUses, JournalUses, Writer
<1>6. OneUnfinished /\ BackInv
  BY <1>2 DEF OneUnfinished, BackInv, PutBack, Unfinished, Writer
<1>7. WholeInv
  BY <1>1, <1>2 DEF WholeInv, Whole, Agrees, Unfinished
<1>. QED
  BY <1>3, <1>4, <1>5, <1>6, <1>7 DEF DeliveryInv

(* Every step keeps the invariant.                                           *)
LEMMA DeliveryInvNext ==
    ASSUME DeliveryInv, [DelNext]_delVars
    PROVE  DeliveryInv'
<1>1. ASSUME NEW p \in Procs, Work(p) PROVE DeliveryInv'
  BY <1>1, DeliversKeeps, PackageKeeps DEF Work, Delivers
<1>2. ASSUME NEW p \in Procs, Stop(p) PROVE DeliveryInv'
  BY <1>2, StopKeeps
<1>3. ASSUME NEW p \in Procs, NEW b \in Bundles, BeginPackage(p, b) \/ BeginRecover(p, b)
      PROVE  DeliveryInv'
  BY <1>3, PackageKeeps, BeginRecoverKeeps
<1>4. ASSUME NEW p \in Procs, NEW b \in Bundles, NEW a \in DOMAIN approvals,
             BeginApply(p, b, a) \/ BeginUndo(p, b, a)
      PROVE  DeliveryInv'
  BY <1>4, BeginApplyKeeps, BeginUndoKeeps
<1>5. ASSUME NEW b \in Bundles, Approve(b) \/ ApproveUndo(b) PROVE DeliveryInv'
  BY <1>5, ApproveKeeps
<1>6. ASSUME NEW f \in Files, UserEdit(f) PROVE DeliveryInv'
  BY <1>6, UserEditKeeps
<1>. QED
  BY <1>1, <1>2, <1>3, <1>4, <1>5, <1>6, StutterKeeps DEF DelNext

(* The invariant holds in every state.                                       *)
LEMMA DeliveryInvariant == DelSpec => []DeliveryInv
  BY DeliveryInit, DeliveryInvNext, PTL DEF DelSpec

(* The invariant says all the run asks of a delivery.                        *)
LEMMA InvSound == DeliveryInv => DeliverySound
<1>. SUFFICES ASSUME DeliveryInv PROVE AllOrNothing /\ NothingWrittenUnapproved
  BY DEF DeliverySound
<1>1. AllOrNothing
  <2>. SUFFICES ASSUME ~overlapped, \A b \in Bundles : ~Unfinished(b)
                PROVE  \/ \A f \in Files \ touched :
                              disk[f] = IF f = 1 THEN Original ELSE Absent
                       \/ \E b \in backup : \A f \in Files \ touched :
                              disk[f] = bundle[b].delivered[f]
    BY DEF AllOrNothing
  <2>1. Whole(disk)
    BY DEF DeliveryInv, WholeInv
  <2>. QED
    BY <2>1 DEF Whole, Agrees, Start
<1>2. NothingWrittenUnapproved
  <2>1. \A b \in Bundles : JournalUses(b) /\ StatusSays(b) /\ journal[b] \in JournalRecords
    BY DEF DeliveryInv, ApprovalInv, JournalInv, DelTypeOK
  <2>2. \A b \in Bundles : (\E f \in Files : journal[b].state[f] # "pending") =>
            journal[b].status \notin {"none", "prepared"}
    BY <2>1 DEF StatusSays
  <2>. QED
    BY <2>1, <2>2 DEF NothingWrittenUnapproved, JournalUses, Used
<1>. QED
  BY <1>1, <1>2

(* DeliverySoundHolds: whatever crashes, edits and further deliveries there  *)
(* are, a delivery that has ended is whole or taken back, unless deliveries  *)
(* overlapped, and nothing is written under an approval that can be used     *)
(* again.                                                                    *)
THEOREM DeliverySoundHolds == DelSpec => []DeliverySound
  BY DeliveryInvariant, InvSound, PTL

(* Only a write and a restore change a file the user wrote.                  *)
LEMMA EditStep ==
    ASSUME DeliveryInv, [DelNext]_delVars, NEW f \in Files, disk[f] = Edited, disk'[f] # Edited
    PROVE  f \in raced \/ \E b \in backup : bundle[b].baseline[f] = Edited
<1>1. PICK p \in Procs : WriteFile(p) \/ RestoreFile(p)
  <2>1. disk' # disk
    OBVIOUS
  <2>2. \A g \in Files : ~UserEdit(g)
    BY DEF UserEdit, DeliveryInv, DelTypeOK
  <2>3. ASSUME NEW p \in Procs, Work(p), ~WriteFile(p), ~RestoreFile(p) PROVE FALSE
    <3>1. UNCHANGED disk
      BY <2>3 DEF Work, PersistIntent, ClaimApproval, StartWriting, CheckFile, VerifyFile,
                  FinishApply, BeginRestore, RestoreCheck, MarkRestored, FinishRestore, ClaimUndo,
                  ReadBaseline, SealBundle
    <3>. QED
      BY <2>1, <3>1
  <2>4. ASSUME NEW p \in Procs, Stop(p) PROVE FALSE
    BY <2>1, <2>4 DEF Stop
  <2>5. ASSUME NEW p \in Procs, NEW b \in Bundles, BeginPackage(p, b) \/ BeginRecover(p, b)
        PROVE  FALSE
    BY <2>1, <2>5 DEF BeginPackage, BeginRecover
  <2>6. ASSUME NEW p \in Procs, NEW b \in Bundles, NEW a \in DOMAIN approvals,
               BeginApply(p, b, a) \/ BeginUndo(p, b, a)
        PROVE  FALSE
    BY <2>1, <2>6 DEF BeginApply, BeginUndo
  <2>7. ASSUME NEW b \in Bundles, Approve(b) \/ ApproveUndo(b) PROVE FALSE
    BY <2>1, <2>7 DEF Approve, ApproveUndo
  <2>. QED
    BY <2>1, <2>2, <2>3, <2>4, <2>5, <2>6, <2>7 DEF DelNext, delVars
<1>. DEFINE b == proc[p].bundle
<1>2. /\ disk \in [Files -> FileContents] /\ b \in backup
      /\ bundle[b].delivered \in [Files -> CandidateContents]
  BY <1>1 DEF DeliveryInv, DelTypeOK, ProcInv, BundleInv, Writer, WriteFile, RestoreFile, At
<1>3. /\ proc[p].file = f
      /\ proc[p].pc \in {"write", "put"}
  BY <1>1, <1>2 DEF WriteFile, RestoreFile, At
<1>4. Edited \notin CandidateContents
  BY DeliveryBounds
<1>5. f \in raced \/ disk[f] \in {bundle[b].baseline[f], bundle[b].delivered[f]}
  BY <1>3 DEF DeliveryInv, EditInv
<1>. QED
  BY <1>2, <1>4, <1>5

(* EditsSurviveHolds: only a check that a later edit overtook, or a bundle   *)
(* that holds the edit as its baseline, lets a delivery overwrite it.        *)
THEOREM EditsSurviveHolds == DelSpec => EditsSurvive
<1>1. ASSUME DeliveryInv, [DelNext]_delVars
      PROVE  [\A f \in Files : (disk[f] = Edited /\ disk'[f] # Edited) =>
                 f \in raced \/ \E b \in backup : bundle[b].baseline[f] = Edited]_delVars
  BY <1>1, EditStep
<1>. QED
  BY <1>1, DeliveryInvariant, PTL DEF DelSpec, EditsSurvive

-----------------------------------------------------------------------------
(* Contributions                                                             *)

USE DEF Threads

\* The first state is well typed.
LEMMA TypeInit == Init => TypeOK
    <1> SUFFICES ASSUME Init PROVE TypeOK
        OBVIOUS
    <1>1. tree \in BOOLEAN /\ branch \in BOOLEAN /\ pull \in BOOLEAN
        BY DEF Init
    <1>2. /\ run \in RunStatus /\ state \in States
          /\ reviewed \in Contents \cup {None} /\ commit \in Contents \cup {None}
          /\ bytes \in Contents /\ index \in Contents \cup {Base}
          /\ head \in Contents \cup {Base} /\ remote \in Contents \cup {None, Foreign}
          /\ edits \in Nat /\ crashes \in Nat
        BY DEF Init, RunStatus, States
    <1>3. /\ pc \in [Threads -> Labels] /\ saw \in [Threads -> States]
          /\ held \in [Threads -> Contents \cup {None}]
          /\ \A t \in Threads : pc[t] = "idle"
        BY DEF Init, Labels, States
    <1> QED BY <1>1, <1>2, <1>3 DEF TypeOK

\* The steps of prepare keep the types.
LEMMA PrepareTypes ==
    ASSUME TypeOK, NEW t \in Preparers, Prepare(t)
    PROVE  TypeOK'
    <1> USE ContributionAssumption DEF row, git, hub, Goto, Reads, Leaves, States, Labels
    <1>1. CASE PrepareBegins(t)
        BY <1>1 DEF PrepareBegins, TypeOK
    <1>2. CASE PrepareInserts(t)
        BY <1>2 DEF PrepareInserts, TypeOK
    <1>3. CASE PrepareReads(t)
        BY <1>3 DEF PrepareReads, TypeOK
    <1>4. CASE Resume(t)
        <2>1. Resumed(saw[t]) \in {"branch", "stage", "prepared"}
            BY DEF Resumed
        <2> QED BY <1>4, <2>1 DEF Resume, TypeOK
    <1>5. CASE CreateBranch(t)
        <2>1. branch' \in BOOLEAN
            BY <1>5 DEF CreateBranch, TypeOK
        <2>2. UNCHANGED <<run, state, reviewed, commit, tree, pull, bytes, index, head,
                          remote, edits, crashes>>
            BY <1>5 DEF CreateBranch
        <2>3. /\ pc' \in [Threads -> Labels]
              /\ saw' \in [Threads -> States]
              /\ held' \in [Threads -> Contents \cup {None}]
              /\ \A s \in Threads : \/ pc'[s] = pc[s] /\ held'[s] = held[s]
                                   \/ pc'[s] \in {"idle", "branched"}
            BY <1>5 DEF CreateBranch, TypeOK
        <2> QED BY <2>1, <2>2, <2>3 DEF TypeOK
    <1>6. CASE SetBranchCreated(t)
        BY <1>6 DEF SetBranchCreated, TypeOK
    <1>7. CASE Stage(t)
        BY <1>7 DEF Stage, ExistingCommit, TypeOK
    <1>8. CASE Revalidate(t)
        BY <1>8 DEF Revalidate, TypeOK
    <1>9. CASE Commit(t)
        BY <1>9 DEF Commit, TypeOK
    <1>10. CASE SetCommitted(t)
        BY <1>10 DEF SetCommitted, TypeOK
    <1>11. CASE PrepareEnds(t)
        BY <1>11 DEF PrepareEnds, TypeOK, RunStatus
    <1> QED
        BY <1>1, <1>2, <1>3, <1>4, <1>5, <1>6, <1>7, <1>8, <1>9, <1>10, <1>11 DEF Prepare

\* The steps of publish keep the types.
LEMMA PublishTypes ==
    ASSUME TypeOK, NEW t \in Publishers, Publish(t)
    PROVE  TypeOK'
    <1> USE ContributionAssumption DEF row, git, hub, Goto, Reads, Leaves, States, Labels
    <1>1. CASE PublishBegins(t)
        BY <1>1 DEF PublishBegins, TypeOK, RunStatus
    <1>2. CASE PublishReads(t)
        <2>1. PublishStep \in {"done", "push", "check", "failing"}
            BY DEF PublishStep
        <2> QED BY <1>2, <2>1 DEF PublishReads, TypeOK
    <1>3. CASE Push(t)
        BY <1>3 DEF Push, CanPush, TypeOK
    <1>4. CASE PushFails(t)
        BY <1>4 DEF PushFails, CanPush, TypeOK
    <1>5. CASE SetPushed(t)
        BY <1>5 DEF SetPushed, TypeOK
    <1>6. CASE CheckRemote(t)
        BY <1>6 DEF CheckRemote, TypeOK
    <1>7. CASE OpenPull(t)
        BY <1>7 DEF OpenPull, TypeOK
    <1>8. CASE OpenPullFails(t)
        <2>1. pull' \in BOOLEAN
            BY <1>8 DEF OpenPullFails, TypeOK
        <2>2. UNCHANGED <<run, state, reviewed, commit, tree, branch, bytes, index, head,
                          remote, saw, held, edits, crashes>>
            BY <1>8 DEF OpenPullFails
        <2>3. /\ pc' \in [Threads -> Labels]
              /\ \A s \in Threads : pc'[s] = pc[s] \/ pc'[s] = "failing"
            BY <1>8 DEF OpenPullFails, TypeOK
        <2> QED BY <2>1, <2>2, <2>3 DEF TypeOK
    <1>9. CASE SetPublished(t)
        BY <1>9 DEF SetPublished, TypeOK
    <1>10. CASE PublishEnds(t)
        BY <1>10 DEF PublishEnds, TypeOK, RunStatus
    <1>11. CASE PublishFails(t)
        BY <1>11 DEF PublishFails, TypeOK, RunStatus
    <1> QED
        BY <1>1, <1>2, <1>3, <1>4, <1>5, <1>6, <1>7, <1>8, <1>9, <1>10, <1>11 DEF Publish

\* Every step, of any request and of the world outside, keeps the types.
LEMMA TypeNext == TypeOK /\ [Next]_vars => TypeOK'
    <1> SUFFICES ASSUME TypeOK, [Next]_vars PROVE TypeOK'
        OBVIOUS
    <1> USE ContributionAssumption DEF row, git, hub, thread, Goto, Reads, Leaves, States, Labels
    <1>1. ASSUME NEW t \in Discarders, Discard(t) PROVE TypeOK'
        <2>1. CASE DiscardChecks(t)
            BY <2>1 DEF DiscardChecks, TypeOK
        <2>2. CASE DiscardRemoves(t)
            <3>1. tree' \in BOOLEAN
                BY <2>2 DEF DiscardRemoves, TypeOK
            <3>2. UNCHANGED <<run, state, reviewed, commit, branch, pull, bytes, index,
                              head, remote, edits, crashes>>
                BY <2>2 DEF DiscardRemoves
            <3>3. /\ pc' \in [Threads -> Labels]
                  /\ saw' \in [Threads -> States]
                  /\ held' \in [Threads -> Contents \cup {None}]
                  /\ \A s \in Threads : \/ pc'[s] = pc[s] /\ held'[s] = held[s]
                                       \/ pc'[s] \in {"idle", "mark"}
                BY <2>2 DEF DiscardRemoves, TypeOK
            <3> QED BY <3>1, <3>2, <3>3 DEF TypeOK
        <2>3. CASE DiscardRecords(t)
            BY <2>3 DEF DiscardRecords, TypeOK, RunStatus
        <2> QED BY <1>1, <2>1, <2>2, <2>3 DEF Discard
    <1>2. CASE Edit
        BY <1>2 DEF Edit, TypeOK
    <1>3. CASE Amend
        BY <1>3 DEF Amend, TypeOK
    <1>4. CASE RemoteMoves
        BY <1>4 DEF RemoteMoves, TypeOK
    <1>5. CASE Crash
        BY <1>5 DEF Crash, TypeOK
    <1>6. CASE UNCHANGED vars
        BY <1>6 DEF vars, TypeOK
    <1> QED
        BY <1>1, <1>2, <1>3, <1>4, <1>5, <1>6, PrepareTypes, PublishTypes DEF Next

\* Every statement of prepare, publish and discard, in any number of threads,
\* keeps the rows, the refs and the threads well typed: what is committed was
\* staged, and what is recorded was committed.
THEOREM TypeCorrect == Spec => []TypeOK
    BY TypeInit, TypeNext, PTL DEF Spec

----------------------------------------------------------------------------
(* A published run has its pull request. *)

Recorded == {"committed", "pushed", "published"}
Publishing == {"push", "push_done", "check", "pull", "opened", "done"}

\* What a publisher relies on after it has read the row: neither a commit nor
\* a pull request goes away again.
PublishInv ==
    /\ state \in Recorded => commit # None
    /\ \A t \in Publishers : pc[t] \in Publishing => commit # None
    /\ state = "published" => pull
    /\ \A t \in Publishers : pc[t] \in {"opened", "done"} => pull
    /\ run = "published" => pull /\ commit # None

\* Nothing is recorded or published at first.
LEMMA PublishInvInit == Init => PublishInv
    BY DEF Init, PublishInv, Recorded, Publishing

\* No step takes a commit or a pull request away from who relies on it.
LEMMA PublishInvNext == TypeOK /\ PublishInv /\ [Next]_vars => PublishInv'
    <1> SUFFICES ASSUME TypeOK, PublishInv, [Next]_vars PROVE PublishInv'
        OBVIOUS
    <1> USE ContributionAssumption DEF row, git, hub, thread, Goto, Reads, Leaves,
            PublishInv, Recorded, Publishing
    <1>1. ASSUME NEW t \in Preparers, Prepare(t) PROVE PublishInv'
        <2>1. t \notin Publishers
            BY <1>1
        <2>2. CASE \/ PrepareBegins(t) \/ PrepareReads(t) \/ Resume(t) \/ CreateBranch(t)
                   \/ Stage(t) \/ Revalidate(t) \/ Commit(t)
            <3>1. UNCHANGED <<run, state, commit, pull>>
                BY <2>2 DEF PrepareBegins, PrepareReads, Resume, CreateBranch, Stage,
                            Revalidate, Commit
            <3>2. \A s \in Publishers : pc'[s] = pc[s]
                BY <2>1, <2>2 DEF PrepareBegins, PrepareReads, Resume, CreateBranch, Stage,
                                  Revalidate, Commit, TypeOK
            <3> QED BY <3>1, <3>2
        <2>3. CASE PrepareInserts(t)
            BY <2>1, <2>3 DEF PrepareInserts, TypeOK
        <2>4. CASE SetBranchCreated(t)
            BY <2>1, <2>4 DEF SetBranchCreated, TypeOK
        <2>5. CASE SetCommitted(t)
            BY <2>1, <2>5 DEF SetCommitted, TypeOK
        <2>6. CASE PrepareEnds(t)
            BY <2>1, <2>6 DEF PrepareEnds, TypeOK
        <2> QED BY <1>1, <2>2, <2>3, <2>4, <2>5, <2>6 DEF Prepare
    <1>2. ASSUME NEW t \in Publishers, Publish(t) PROVE PublishInv'
        <2>1. CASE PublishBegins(t)
            BY <1>2, <2>1 DEF PublishBegins, TypeOK
        <2>2. CASE PublishReads(t)
            BY <1>2, <2>2 DEF PublishReads, PublishStep, TypeOK
        <2>3. CASE Push(t)
            BY <1>2, <2>3 DEF Push, TypeOK
        <2>4. CASE PushFails(t)
            BY <1>2, <2>4 DEF PushFails, TypeOK
        <2>5. CASE SetPushed(t)
            BY <1>2, <2>5 DEF SetPushed, TypeOK
        <2>6. CASE CheckRemote(t)
            BY <1>2, <2>6 DEF CheckRemote, TypeOK
        <2>7. CASE OpenPull(t)
            BY <1>2, <2>7 DEF OpenPull, TypeOK
        <2>8. CASE OpenPullFails(t)
            BY <1>2, <2>8 DEF OpenPullFails, TypeOK
        <2>9. CASE SetPublished(t)
            BY <1>2, <2>9 DEF SetPublished, TypeOK
        <2>10. CASE PublishEnds(t)
            BY <1>2, <2>10 DEF PublishEnds, TypeOK
        <2>11. CASE PublishFails(t)
            BY <1>2, <2>11 DEF PublishFails, TypeOK
        <2> QED
            BY <1>2, <2>1, <2>2, <2>3, <2>4, <2>5, <2>6, <2>7, <2>8, <2>9, <2>10, <2>11
            DEF Publish
    <1>3. ASSUME NEW t \in Discarders, Discard(t) PROVE PublishInv'
        BY <1>3 DEF Discard, DiscardChecks, DiscardRemoves, DiscardRecords, TypeOK
    <1>4. CASE Edit \/ Amend \/ RemoteMoves
        BY <1>4 DEF Edit, Amend, RemoteMoves
    <1>5. CASE Crash
        BY <1>5 DEF Crash
    <1>6. CASE UNCHANGED vars
        BY <1>6 DEF vars
    <1> QED BY <1>1, <1>2, <1>3, <1>4, <1>5, <1>6 DEF Next

\* Whatever fails, is lost, is retried or dies, and with any number of publish
\* requests at once, a run is published only when its pull request exists.
THEOREM PublishedRunIsRealHolds == Spec => []PublishedRunIsReal
    <1>1. PublishInv => PublishedRunIsReal
        BY DEF PublishInv, PublishedRunIsReal
    <1> QED
        BY <1>1, PublishInvInit, PublishInvNext, TypeCorrect, PTL DEF Spec

----------------------------------------------------------------------------
(* With one prepare request at a time a recorded commit stays recorded. *)

\* One panel of the desktop client (ContributionPanel.tsx) disables its buttons
\* while a request is under way; the service itself does not serialize them.
OnePreparer == \A s, t \in Preparers : s = t

\* A preparer that is about to record its branch still has the row it read,
\* and a publisher that is past its read has a row that records a commit.
RecordInv ==
    /\ \A t \in Preparers :
          /\ pc[t] = "resume" /\ saw[t] = "preparing" => state = "preparing"
          /\ pc[t] \in {"branch", "branched"} => state = "preparing"
    /\ \A t \in Publishers : pc[t] \in Publishing => state \in Recorded

\* No request has read the row yet.
LEMMA RecordInvInit == Init => RecordInv
    BY DEF Init, RecordInv, Publishing

\* A preparer's snapshot stays true while no second one writes the row.
LEMMA RecordInvNext ==
    OnePreparer /\ TypeOK /\ RecordInv /\ [Next]_vars => RecordInv'
    <1> SUFFICES ASSUME OnePreparer, TypeOK, RecordInv, [Next]_vars PROVE RecordInv'
        OBVIOUS
    <1> USE ContributionAssumption DEF OnePreparer, row, git, hub, thread, Goto, Reads,
            Leaves, RecordInv, Recorded, Publishing
    <1>1. ASSUME NEW t \in Preparers, Prepare(t) PROVE RecordInv'
        <2>1. t \notin Publishers /\ \A s \in Preparers : s = t
            BY <1>1
        <2>2. CASE PrepareBegins(t) \/ Stage(t) \/ Revalidate(t) \/ Commit(t)
                   \/ PrepareEnds(t)
            <3>1. UNCHANGED state /\ \A s \in Publishers : pc'[s] = pc[s]
                BY <2>1, <2>2 DEF PrepareBegins, Stage, Revalidate, Commit, PrepareEnds,
                                  TypeOK
            <3>2. pc'[t] \in {"insert", "reread", "record", "staged", "commit", "idle"}
                BY <2>2 DEF PrepareBegins, Stage, Revalidate, Commit, PrepareEnds, TypeOK
            <3> QED BY <2>1, <3>1, <3>2
        <2>3. CASE PrepareInserts(t)
            BY <2>1, <2>3 DEF PrepareInserts, TypeOK
        <2>4. CASE PrepareReads(t)
            BY <2>1, <2>4 DEF PrepareReads, TypeOK
        <2>5. CASE Resume(t)
            BY <2>1, <2>5 DEF Resume, Resumed, TypeOK
        <2>6. CASE CreateBranch(t)
            <3>1. UNCHANGED state /\ \A s \in Publishers : pc'[s] = pc[s]
                BY <2>1, <2>6 DEF CreateBranch, TypeOK
            <3>2. pc[t] = "branch" /\ pc'[t] \in {"branched", "idle"}
                BY <2>6 DEF CreateBranch, TypeOK
            <3> QED BY <2>1, <3>1, <3>2
        <2>7. CASE SetBranchCreated(t)
            BY <2>1, <2>7 DEF SetBranchCreated, TypeOK
        <2>8. CASE SetCommitted(t)
            BY <2>1, <2>8 DEF SetCommitted, TypeOK
        <2> QED
            BY <1>1, <2>2, <2>3, <2>4, <2>5, <2>6, <2>7, <2>8 DEF Prepare
    <1>2. ASSUME NEW t \in Publishers, Publish(t) PROVE RecordInv'
        <2>1. \A s \in Preparers : s # t
            BY <1>2
        <2>2. CASE \/ PublishBegins(t) \/ Push(t) \/ PushFails(t) \/ CheckRemote(t)
                   \/ OpenPull(t) \/ OpenPullFails(t) \/ PublishEnds(t) \/ PublishFails(t)
            <3>1. UNCHANGED state /\ \A s \in Preparers : pc'[s] = pc[s] /\ saw'[s] = saw[s]
                BY <2>1, <2>2 DEF PublishBegins, Push, PushFails, CheckRemote, OpenPull,
                                  OpenPullFails, PublishEnds, PublishFails, TypeOK
            <3>2. \A s \in Publishers : s # t => pc'[s] = pc[s]
                BY <2>2 DEF PublishBegins, Push, PushFails, CheckRemote, OpenPull,
                            OpenPullFails, PublishEnds, PublishFails, TypeOK
            <3>3. pc'[t] \in Publishing => pc[t] \in Publishing
                BY <1>2, <2>2 DEF PublishBegins, Push, PushFails, CheckRemote, OpenPull,
                            OpenPullFails, PublishEnds, PublishFails, TypeOK
            <3> QED BY <1>2, <3>1, <3>2, <3>3
        <2>3. CASE PublishReads(t)
            BY <1>2, <2>1, <2>3 DEF PublishReads, PublishStep, TypeOK
        <2>4. CASE SetPushed(t)
            BY <1>2, <2>1, <2>4 DEF SetPushed, TypeOK
        <2>5. CASE SetPublished(t)
            BY <1>2, <2>1, <2>5 DEF SetPublished, TypeOK
        <2> QED BY <1>2, <2>2, <2>3, <2>4, <2>5 DEF Publish
    <1>3. ASSUME NEW t \in Discarders, Discard(t) PROVE RecordInv'
        <2>1. UNCHANGED state
            BY <1>3 DEF Discard, DiscardChecks, DiscardRemoves, DiscardRecords
        <2>2. \A s \in Preparers \cup Publishers : pc'[s] = pc[s] /\ saw'[s] = saw[s]
            BY <1>3 DEF Discard, DiscardChecks, DiscardRemoves, DiscardRecords, TypeOK
        <2> QED BY <2>1, <2>2
    <1>4. CASE Edit \/ Amend \/ RemoteMoves
        BY <1>4 DEF Edit, Amend, RemoteMoves
    <1>5. CASE Crash
        BY <1>5 DEF Crash
    <1>6. CASE UNCHANGED vars
        BY <1>6 DEF vars
    <1> QED BY <1>1, <1>2, <1>3, <1>4, <1>5, <1>6 DEF Next

\* The only writer that could take the record of a commit back is the one that
\* records its branch, and it has seen the row before any commit.
LEMMA RecordStep ==
    TypeOK /\ RecordInv /\ [Next]_vars
        => [(state \in {"committed", "pushed", "published"})
              => (state' \in {"committed", "pushed", "published"})]_state
    <1> SUFFICES ASSUME TypeOK, RecordInv, Next, state \in Recorded, state' # state
                 PROVE  state' \in Recorded
        BY DEF vars, row, Recorded
    <1> USE DEF row, thread
    <1>1. ASSUME NEW t \in Preparers, Prepare(t) PROVE state' \in Recorded
        BY <1>1 DEF Prepare, PrepareBegins, PrepareInserts, PrepareReads, Resume,
           CreateBranch, SetBranchCreated, Stage, Revalidate, Commit, SetCommitted,
           PrepareEnds, RecordInv, Recorded
    <1>2. ASSUME NEW t \in Publishers, Publish(t) PROVE state' \in Recorded
        BY <1>2 DEF Publish, PublishBegins, PublishReads, Push, PushFails, SetPushed,
           CheckRemote, OpenPull, OpenPullFails, SetPublished, PublishEnds, PublishFails,
           Recorded
    <1>3. ASSUME NEW t \in Discarders, Discard(t) PROVE FALSE
        BY <1>3 DEF Discard, DiscardChecks, DiscardRemoves, DiscardRecords
    <1>4. ASSUME Edit \/ Amend \/ RemoteMoves \/ Crash PROVE FALSE
        BY <1>4 DEF Edit, Amend, RemoteMoves, Crash
    <1> QED BY <1>1, <1>2, <1>3, <1>4 DEF Next

\* When prepare requests do not overlap, no failure, retry or crash, of prepare
\* or of any number of publishes, takes back the record of a commit.
THEOREM CommitStaysRecordedHolds == OnePreparer => (Spec => CommitStaysRecorded)
    <1> SUFFICES ASSUME OnePreparer PROVE Spec => CommitStaysRecorded
        OBVIOUS
    <1>1. RecordInv /\ TypeOK /\ [Next]_vars => RecordInv'
        BY RecordInvNext
    <1> QED
        BY <1>1, RecordInvInit, RecordStep, TypeCorrect, PTL DEF Spec, CommitStaysRecorded

----------------------------------------------------------------------------
(* With one publish request at a time nothing leaves after a discard. *)

\* As for prepare, the client keeps to this and the service does not enforce it.
OnePublisher == \A s, t \in Publishers : s = t

\* The status of the run is the lock between publish and discard.
LockInv ==
    \A t \in Publishers : pc[t] # "idle" => run \in {"publishing", "published"}

\* A publish under way keeps the run in its status.
LEMMA LockInvNext == OnePublisher /\ TypeOK /\ LockInv /\ [Next]_vars => LockInv'
    <1> SUFFICES ASSUME OnePublisher, TypeOK, LockInv, [Next]_vars PROVE LockInv'
        OBVIOUS
    <1> USE ContributionAssumption DEF OnePublisher, row, git, hub, thread, Goto, Leaves,
            LockInv
    <1>1. ASSUME NEW t \in Preparers, Prepare(t) PROVE LockInv'
        <2>1. \A s \in Publishers : pc'[s] = pc[s]
            BY <1>1 DEF Prepare, PrepareBegins, PrepareInserts, PrepareReads, Resume,
               CreateBranch, SetBranchCreated, Stage, Revalidate, Commit, SetCommitted,
               PrepareEnds, TypeOK
        <2>2. run' = run \/ (run = "review_required" /\ run' = "contribution_ready")
            BY <1>1 DEF Prepare, PrepareBegins, PrepareInserts, PrepareReads, Resume,
               CreateBranch, SetBranchCreated, Stage, Revalidate, Commit, SetCommitted,
               PrepareEnds
        <2> QED BY <2>1, <2>2
    <1>2. ASSUME NEW t \in Publishers, Publish(t) PROVE LockInv'
        <2>1. CASE PublishBegins(t)
            BY <1>2, <2>1 DEF PublishBegins, TypeOK
        <2>2. CASE PublishEnds(t) \/ PublishFails(t)
            BY <1>2, <2>2 DEF PublishEnds, PublishFails, TypeOK
        <2>3. CASE \/ PublishReads(t) \/ Push(t) \/ PushFails(t) \/ SetPushed(t)
                   \/ CheckRemote(t) \/ OpenPull(t) \/ OpenPullFails(t) \/ SetPublished(t)
            <3>1. UNCHANGED run /\ pc[t] # "idle"
                BY <2>3 DEF PublishReads, Push, PushFails, SetPushed, CheckRemote, OpenPull,
                            OpenPullFails, SetPublished
            <3> QED BY <1>2, <3>1
        <2> QED BY <1>2, <2>1, <2>2, <2>3 DEF Publish
    <1>3. ASSUME NEW t \in Discarders, Discard(t) PROVE LockInv'
        <2>1. \A s \in Publishers : pc'[s] = pc[s]
            BY <1>3 DEF Discard, DiscardChecks, DiscardRemoves, DiscardRecords, TypeOK
        <2>2. run' = run \/ run \in {"review_required", "contribution_ready"}
            BY <1>3 DEF Discard, DiscardChecks, DiscardRemoves, DiscardRecords, Discardable
        <2> QED BY <2>1, <2>2
    <1>4. CASE Edit \/ Amend \/ RemoteMoves
        BY <1>4 DEF Edit, Amend, RemoteMoves
    <1>5. CASE Crash
        BY <1>5 DEF Crash
    <1>6. CASE UNCHANGED vars
        BY <1>6 DEF vars
    <1> QED BY <1>1, <1>2, <1>3, <1>4, <1>5, <1>6 DEF Next

\* Nobody who may push meets a discarded run.
LEMMA LockStep ==
    TypeOK /\ LockInv /\ [Next]_vars
        => [run = "discarded" => (remote' \in {remote, Foreign} /\ pull' = pull)]_vars
    <1> SUFFICES ASSUME LockInv, Next, run = "discarded"
                 PROVE  remote' \in {remote, Foreign} /\ pull' = pull
        OBVIOUS
    <1> USE DEF hub
    <1>1. ASSUME NEW t \in Preparers, Prepare(t) PROVE UNCHANGED hub
        BY <1>1 DEF Prepare, PrepareBegins, PrepareInserts, PrepareReads, Resume,
           CreateBranch, SetBranchCreated, Stage, Revalidate, Commit, SetCommitted,
           PrepareEnds
    <1>2. ASSUME NEW t \in Publishers, Publish(t) PROVE UNCHANGED hub
        <2>1. pc[t] = "idle"
            BY DEF LockInv
        <2> QED
            BY <1>2, <2>1 DEF Publish, PublishBegins, PublishReads, Push, PushFails,
               SetPushed, CheckRemote, OpenPull, OpenPullFails, SetPublished, PublishEnds,
               PublishFails
    <1>3. ASSUME NEW t \in Discarders, Discard(t) PROVE UNCHANGED hub
        BY <1>3 DEF Discard, DiscardChecks, DiscardRemoves, DiscardRecords
    <1>4. CASE Edit \/ Amend \/ RemoteMoves \/ Crash
        BY <1>4 DEF Edit, Amend, RemoteMoves, Crash
    <1> QED BY <1>1, <1>2, <1>3, <1>4 DEF Next

\* When publish requests do not overlap, a discard that succeeded is final:
\* any number of discards and prepares, and every crash, leave GitHub alone.
THEOREM NothingAfterDiscardHolds == OnePublisher => (Spec => NothingAfterDiscard)
    <1> SUFFICES ASSUME OnePublisher PROVE Spec => NothingAfterDiscard
        OBVIOUS
    <1>1. Init => LockInv
        BY DEF Init, LockInv
    <1>2. LockInv /\ TypeOK /\ [Next]_vars => LockInv'
        BY LockInvNext
    <1> QED
        BY <1>1, <1>2, LockStep, TypeCorrect, PTL DEF Spec, NothingAfterDiscard

----------------------------------------------------------------------------
(* One change at any one point does not get unreviewed bytes out. *)

\* One change by an editor, by a file watcher, by an amend or on the remote;
\* two of them, out and back, are what the second look at the files misses.
OneChange == MaxEdits <= 1

\* The digest is fixed at the insert; what is staged under an unchanged file,
\* committed and recorded has it, or the one change there may be shows in the
\* worktree, where the second look refuses it.
ReviewedInv ==
    /\ state = "none" => reviewed = None /\ head = Base /\ commit = None /\ remote = None
    /\ state # "none" => reviewed \in Contents \ Secrets
    /\ head # Base => head = reviewed \/ (edits >= 1 /\ bytes = head)
    /\ commit \in {None, reviewed}
    /\ remote \in Contents => remote = reviewed
    /\ \A t \in Preparers :
          /\ pc[t] = "insert" => held[t] \notin Secrets
          /\ pc[t] \notin {"idle", "insert"} => state # "none"
          /\ pc[t] \in {"stage", "staged", "commit"} => head = Base
          /\ pc[t] = "stage" => bytes = reviewed \/ edits >= 1
          /\ pc[t] = "staged" => index = reviewed \/ (bytes # reviewed /\ edits >= 1)
          /\ pc[t] = "commit" => index = reviewed
          /\ pc[t] = "record" => held[t] = reviewed

\* A run in review has no contribution.
LEMMA ReviewedInvInit == Init => ReviewedInv
    BY ContributionAssumption DEF Init, ReviewedInv

\* The steps of prepare, each of them after every other request and change.
LEMMA ReviewedInPrepare ==
    ASSUME OnePreparer, TypeOK, ReviewedInv, NEW t \in Preparers, Prepare(t)
    PROVE  ReviewedInv'
    <1> USE ContributionAssumption DEF OnePreparer, row, git, hub, Goto, Reads, Leaves
    <1>1. \A s \in Preparers : s = t
        OBVIOUS
    <1>2. CASE PrepareBegins(t)
        BY <1>1, <1>2 DEF PrepareBegins, ReviewedInv, TypeOK
    <1>3. CASE PrepareInserts(t)
        BY <1>1, <1>3 DEF PrepareInserts, ReviewedInv, TypeOK
    <1>4. CASE PrepareReads(t)
        BY <1>1, <1>4 DEF PrepareReads, ReviewedInv, TypeOK
    <1>5. CASE Resume(t)
        <2>1. /\ pc[t] = "resume" /\ state # "none"
              /\ UNCHANGED <<row, git, hub, edits>>
            BY <1>5 DEF Resume, ReviewedInv
        <2>2. pc'[t] \in {"branch", "stage", "prepared", "idle"}
            BY <1>5 DEF Resume, Resumed, TypeOK
        <2>3. pc'[t] = "stage" => Valid
            BY <1>5 DEF Resume, Resumed, TypeOK
        <2>4. Valid => head = Base /\ bytes = reviewed
            BY DEF Valid, ReviewedInv
        <2> QED BY <1>1, <2>1, <2>2, <2>3, <2>4 DEF ReviewedInv
    <1>6. CASE CreateBranch(t)
        <2>1. pc[t] = "branch" /\ pc'[t] \in {"branched", "idle"}
            BY <1>6 DEF CreateBranch, TypeOK
        <2>2. UNCHANGED <<row, tree, bytes, index, head, hub, edits>>
            BY <1>6 DEF CreateBranch
        <2> QED BY <1>1, <2>1, <2>2 DEF ReviewedInv
    <1>7. CASE SetBranchCreated(t)
        BY <1>1, <1>7 DEF SetBranchCreated, ReviewedInv, TypeOK
    <1>8. CASE Stage(t)
        BY <1>1, <1>8 DEF Stage, ExistingCommit, ReviewedInv, TypeOK
    <1>9. CASE Revalidate(t)
        BY <1>1, <1>9 DEF Revalidate, Valid, ReviewedInv, TypeOK
    <1>10. CASE Commit(t)
        BY <1>1, <1>10 DEF Commit, ReviewedInv, TypeOK
    <1>11. CASE SetCommitted(t)
        BY <1>1, <1>11 DEF SetCommitted, ReviewedInv, TypeOK
    <1>12. CASE PrepareEnds(t)
        BY <1>1, <1>12 DEF PrepareEnds, ReviewedInv, TypeOK
    <1> QED
        BY <1>2, <1>3, <1>4, <1>5, <1>6, <1>7, <1>8, <1>9, <1>10, <1>11, <1>12 DEF Prepare

\* A publish pushes what is recorded and touches nothing that prepare works on.
LEMMA ReviewedInPublish ==
    ASSUME TypeOK, PublishInv, ReviewedInv, NEW t \in Publishers, Publish(t)
    PROVE  ReviewedInv'
    <1> USE ContributionAssumption DEF row, git, hub, Goto, Leaves
    <1>1. \A s \in Preparers : pc'[s] = pc[s] /\ held'[s] = held[s]
        BY DEF Publish, PublishBegins, PublishReads, Push, PushFails, SetPushed, CheckRemote,
           OpenPull, OpenPullFails, SetPublished, PublishEnds, PublishFails, TypeOK
    <1>2. UNCHANGED <<reviewed, commit, git, edits>>
        BY DEF Publish, PublishBegins, PublishReads, Push, PushFails, SetPushed, CheckRemote,
           OpenPull, OpenPullFails, SetPublished, PublishEnds, PublishFails
    <1>3. pc[t] \in Publishing => state # "none"
        BY DEF PublishInv, ReviewedInv
    <1>4. state' = state \/ (state # "none" /\ state' # "none")
        BY <1>3 DEF Publish, PublishBegins, PublishReads, Push, PushFails, SetPushed,
           CheckRemote, OpenPull, OpenPullFails, SetPublished, PublishEnds, PublishFails,
           Publishing
    <1>5. remote' = remote \/ (state # "none" /\ remote' = commit)
        BY <1>3 DEF Publish, PublishBegins, PublishReads, Push, PushFails, SetPushed,
           CheckRemote, OpenPull, OpenPullFails, SetPublished, PublishEnds, PublishFails,
           Publishing
    <1> QED BY <1>1, <1>2, <1>4, <1>5 DEF ReviewedInv

\* Every step, of one prepare request and any number of the others, with one
\* change at any point.
LEMMA ReviewedInvNext ==
    ASSUME OneChange, OnePreparer, TypeOK, PublishInv, ReviewedInv, [Next]_vars
    PROVE  ReviewedInv'
    <1> USE ContributionAssumption DEF row, git, hub, thread, Goto, Leaves
    <1>1. ASSUME NEW t \in Discarders, Discard(t) PROVE ReviewedInv'
        <2>1. \A s \in Preparers : pc'[s] = pc[s] /\ held'[s] = held[s]
            BY <1>1 DEF Discard, DiscardChecks, DiscardRemoves, DiscardRecords, TypeOK
        <2>2. UNCHANGED <<row, bytes, index, head, remote, edits>>
            BY <1>1 DEF Discard, DiscardChecks, DiscardRemoves, DiscardRecords
        <2> QED BY <2>1, <2>2 DEF ReviewedInv
    <1>2. CASE Edit
        <2>1. edits = 0 /\ edits' = 1
            BY <1>2 DEF Edit, OneChange, TypeOK
        <2>2. UNCHANGED <<row, index, head, remote, pc, held>>
            BY <1>2 DEF Edit
        <2> QED BY <2>1, <2>2 DEF ReviewedInv
    <1>3. CASE Amend
        <2>1. edits = 0 /\ edits' = 1 /\ head # Base /\ head' = bytes' /\ state # "none"
            BY <1>3 DEF Amend, OneChange, TypeOK, ReviewedInv
        <2>2. UNCHANGED <<row, remote, pc, held>>
            BY <1>3 DEF Amend
        <2> QED BY <2>1, <2>2 DEF ReviewedInv
    <1>4. CASE RemoteMoves
        <2>1. edits' >= 1 /\ edits <= edits'
            BY <1>4 DEF RemoteMoves, TypeOK
        <2>2. /\ UNCHANGED <<row, bytes, index, head, pc, held>>
              /\ remote' = Foreign /\ remote # None /\ Foreign \notin Contents
            BY <1>4 DEF RemoteMoves
        <2> QED BY <2>1, <2>2 DEF ReviewedInv, TypeOK
    <1>5. CASE Crash
        BY <1>5 DEF Crash, ReviewedInv
    <1>6. CASE UNCHANGED vars
        BY <1>6 DEF vars, ReviewedInv
    <1> QED
        BY <1>1, <1>2, <1>3, <1>4, <1>5, <1>6, ReviewedInPrepare, ReviewedInPublish DEF Next

\* What is on the remote, and what the service says of it, is true: for any
\* contents, any number of publishes, discards and crashes, one prepare request
\* at a time and one change, wherever it falls, the pushed bytes are the
\* reviewed ones and a published run has its pull request.
THEOREM PublishedSoundHolds == OneChange /\ OnePreparer => (Spec => []PublishedSound)
    <1> SUFFICES ASSUME OneChange, OnePreparer PROVE Spec => []PublishedSound
        OBVIOUS
    <1>1. TypeOK /\ PublishInv /\ ReviewedInv /\ [Next]_vars => ReviewedInv'
        BY ReviewedInvNext
    <1>2. ReviewedInv => PublishedIsReviewed
        <2> SUFFICES ASSUME ReviewedInv, remote \in Contents
                     PROVE  remote = reviewed /\ remote \notin Secrets
            BY DEF PublishedIsReviewed
        <2>1. remote = reviewed /\ remote # None
            BY ContributionAssumption DEF ReviewedInv
        <2> QED BY <2>1 DEF ReviewedInv
    <1>3. PublishInv => PublishedRunIsReal
        BY DEF PublishInv, PublishedRunIsReal
    <1>4. PublishedIsReviewed /\ PublishedRunIsReal => PublishedSound
        BY DEF PublishedSound
    <1> QED
        BY <1>1, <1>2, <1>3, <1>4, PublishInvInit, PublishInvNext, ReviewedInvInit,
           TypeCorrect, PTL DEF Spec
=============================================================================
