--------------------------- MODULE ProcessSession ---------------------------
(* One provider process and the session that watches it                     *)
(* (infrastructure/agent_runtimes/process_session.py).  The supervisor task *)
(* reads frames from the process's stdout into an event log; cancel calls,  *)
(* a timeout, a protocol error and the natural exit compete for the         *)
(* terminal lock, and the first to finish under it writes the terminal      *)
(* event.  asyncio switches tasks only at an await that suspends, so each   *)
(* action is the code between two such awaits.                              *)
EXTENDS Naturals, Sequences

CONSTANTS
    FrameKinds,   \* what a line of stdout can be; "bad" breaks the protocol
    MaxFrames,    \* bound: lines the process writes
    MaxEvents,    \* ProcessSessionLimits.max_events
    None

ASSUME SessionAssumption ==
    /\ MaxFrames \in Nat /\ MaxEvents \in Nat \ {0}
    /\ None # "fail"
    /\ FrameKinds \cap {"exited0", "exited1", "cancelled", "failed"} = {}

VARIABLES
    proc,         \* the process tree: "none", "alive", "exited0", "exited1", "killed"
    pipe,         \* lines written and not read yet
    written,      \* lines written so far (bound)
    log,          \* _events: frame kinds and one of the terminal kinds
    terminal,     \* _terminal
    cancelReason, \* _cancel_reason is set
    lock,         \* holder of _terminal_lock: None, "fail" or a canceller
    sup           \* _supervise: "none", "reading", "failing", "exiting", "done"

sessionVars == <<proc, pipe, written, log, terminal, cancelReason, lock, sup>>

TerminalKinds == {"exited0", "exited1", "cancelled", "failed"}

\* The invocations start() refuses, by the first check that fails.
InvocationFaults ==
    {"executable", "shell", "digest", "arguments", "stdin", "cwd", "roots", "environment"}

\* No session: before start() and after the service's memory is gone.
NoSession ==
    /\ proc' = "none" /\ pipe' = <<>> /\ written' = 0 /\ log' = <<>>
    /\ terminal' = FALSE /\ cancelReason' = FALSE /\ lock' = None /\ sup' = "none"

SessionInit ==
    /\ proc = "none" /\ pipe = <<>> /\ written = 0 /\ log = <<>>
    /\ terminal = FALSE /\ cancelReason = FALSE /\ lock = None /\ sup = "none"

(* start(): the invocation passed _validate_invocation and the digest       *)
(* recheck, and the process was spawned.                                    *)
Spawn ==
    /\ proc = "none" /\ sup = "none"
    /\ proc' = "alive" /\ sup' = "reading"
    /\ UNCHANGED <<pipe, written, log, terminal, cancelReason, lock>>

-----------------------------------------------------------------------------
(* The process: external, it writes lines and exits when it likes. *)
ProcessWrites ==
    /\ proc = "alive" /\ written < MaxFrames
    /\ \E f \in FrameKinds : pipe' = Append(pipe, f)
    /\ written' = written + 1
    /\ UNCHANGED <<proc, log, terminal, cancelReason, lock, sup>>

ProcessExits ==
    /\ proc = "alive"
    /\ proc' \in {"exited0", "exited1"}
    /\ UNCHANGED <<pipe, written, log, terminal, cancelReason, lock, sup>>

-----------------------------------------------------------------------------
(* _read_stdout and _accept_frame: a line that breaks the protocol, or one  *)
(* that would leave no room for the terminal event, ends the supervision;   *)
(* the log is not asked whether it is already terminal.                     *)
FrameAccepted(f) == f # "bad" /\ Len(log) < MaxEvents - 1

ReadFrame ==
    /\ sup = "reading" /\ pipe # <<>>
    /\ pipe' = Tail(pipe)
    /\ IF FrameAccepted(Head(pipe))
       THEN log' = Append(log, Head(pipe)) /\ sup' = "reading"
       ELSE log' = log /\ sup' = "failing"
    /\ UNCHANGED <<proc, written, terminal, cancelReason, lock>>

\* Mistake: the supervision has no timeout.
NoTimeout == sup = "reading" /\ pipe # <<>> /\ ReadFrame

(* _supervise: the timeout, an oversized stream or a broken stdin. *)
SuperviseFails ==
    /\ sup = "reading"
    /\ sup' = "failing"
    /\ UNCHANGED <<proc, pipe, written, log, terminal, cancelReason, lock>>

(* _supervise: all four tasks ended, so the process is gone and its output  *)
(* was read to the end.                                                     *)
SuperviseEnds ==
    /\ sup = "reading" /\ proc # "alive" /\ pipe = <<>>
    /\ sup' = "exiting"
    /\ UNCHANGED <<proc, pipe, written, log, terminal, cancelReason, lock>>

(* _append_terminal, without its own look at _terminal: everybody who calls *)
(* it has looked under the lock, which OneTerminalEvent shows to be enough. *)
AppendTerminal(kind) == log' = Append(log, kind) /\ terminal' = TRUE

(* terminate_process_tree: confirmed only when the whole tree is gone. *)
TerminateTree(confirmed) ==
    IF confirmed
    THEN proc' = IF proc = "alive" THEN "killed" ELSE proc
    ELSE proc = "alive" /\ proc' \in {"alive", "killed"}

\* Mistake: the supervisor does not look whether the session has ended.
FailAgain ==
    /\ sup = "failing" /\ lock = None
    /\ lock' = "fail"
    /\ UNCHANGED <<proc, pipe, written, log, terminal, cancelReason, sup>>

(* _fail waits for the lock, then gives up if the session has ended. *)
FailEnters ==
    /\ sup = "failing" /\ lock = None
    /\ IF terminal
       THEN sup' = "done" /\ UNCHANGED lock
       ELSE lock' = "fail" /\ UNCHANGED sup
    /\ UNCHANGED <<proc, pipe, written, log, terminal, cancelReason>>

FailFinishes ==
    /\ sup = "failing" /\ lock = "fail"
    /\ \E confirmed \in BOOLEAN : TerminateTree(confirmed)
    /\ AppendTerminal("failed")
    /\ lock' = None /\ sup' = "done"
    /\ UNCHANGED <<pipe, written, cancelReason>>

(* _finish_natural_exit *)
NaturalExit ==
    /\ sup = "exiting" /\ lock = None
    /\ sup' = "done"
    /\ \/ terminal /\ UNCHANGED <<log, terminal>>
       \/ ~terminal /\ cancelReason /\ AppendTerminal("cancelled")
       \/ ~terminal /\ ~cancelReason /\
            AppendTerminal(IF proc = "exited0" THEN "exited0" ELSE "exited1")
    /\ UNCHANGED <<proc, pipe, written, cancelReason, lock>>

-----------------------------------------------------------------------------
(* _cancel(c): under the lock, note the reason and terminate the tree. *)
CancelEnters(c) ==
    /\ lock = None /\ ~terminal
    /\ lock' = c /\ cancelReason' = TRUE
    /\ UNCHANGED <<proc, pipe, written, log, terminal, sup>>

CancelFinishes(c) ==
    /\ lock = c
    /\ \E confirmed \in BOOLEAN :
         /\ TerminateTree(confirmed)
         /\ AppendTerminal(IF confirmed THEN "cancelled" ELSE "failed")
    /\ lock' = None
    /\ UNCHANGED <<pipe, written, cancelReason, sup>>

(* The task that called _cancel is itself cancelled while it waits for the  *)
(* tree to end: the lock is released and no terminal event is written.  The *)
(* signals it sent may or may not have taken effect.                        *)
CancelAbandoned(c) ==
    /\ lock = c
    /\ lock' = None
    /\ proc' \in {proc, IF proc = "alive" THEN "killed" ELSE proc}
    /\ UNCHANGED <<pipe, written, log, terminal, cancelReason, sup>>

(* A cancel that gets the lock of a session that has ended returns at once. *)
CancelTooLate == lock = None /\ terminal

Supervisor ==
    \/ ReadFrame \/ SuperviseEnds \/ SuperviseFails
    \/ FailEnters \/ FailFinishes \/ NaturalExit

-----------------------------------------------------------------------------
SessionTypeOK ==
    /\ proc \in {"none", "alive", "exited0", "exited1", "killed"}
    /\ pipe \in Seq(FrameKinds) /\ written \in 0..MaxFrames
    /\ log \in Seq(FrameKinds \cup TerminalKinds)
    /\ terminal \in BOOLEAN /\ cancelReason \in BOOLEAN
    /\ sup \in {"none", "reading", "failing", "exiting", "done"}

(* However exit, cancel, timeout and protocol errors race, the session's    *)
(* log holds exactly one terminal event once it is terminal and none        *)
(* before, and it never outgrows max_events, frames that were still in the  *)
(* pipe of a cancelled process included (process_session.py:374-463).       *)
OneTerminalEvent ==
    /\ LET ends == {i \in 1..Len(log) : log[i] \in TerminalKinds}
       IN  IF terminal THEN \E i \in ends : ends = {i} ELSE ends = {}
    /\ Len(log) <= MaxEvents

(* A session whose supervisor ended is terminal: nobody waits for a         *)
(* terminal event that no task is left to write.                            *)
SupervisedToTheEnd == sup = "done" => terminal

(* However exit, cancel, timeout and protocol error race, a session ends    *)
(* once, and not while its process still runs unwatched.                    *)
SessionEndsOnce == OneTerminalEvent /\ SupervisedToTheEnd
=============================================================================
