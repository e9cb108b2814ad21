------------------------------- MODULE Process -------------------------------
(***************************************************************************)
(* One script process and the capture of its stderr                         *)
(* (internal/runner/process.go): Start, the reader goroutine, Wait, Cancel  *)
(* and Done.                                                               *)
(*                                                                         *)
(* os/exec, the pipe and the script are the environment.  Output is counted *)
(* in chunks; the pipe holds PipeCap of them and a writer of a full pipe    *)
(* blocks.  A child of the script may inherit the pipe and outlive it.      *)
(***************************************************************************)
EXTENDS Integers

CONSTANTS
    PipeCap,      \* chunks the pipe holds
    MaxOutput     \* bound: chunks a script writes

ASSUME ProcessAssumption == PipeCap \in Nat \ {0} /\ MaxOutput \in Nat

VARIABLES
    started,      \* Start: no, yes or failed
    ctx,          \* p.ctx: live or done (Done is closed)
    asked,        \* someone called Cancel (history variable)
    script,       \* the process: none, alive, exited or killed
    child,        \* a child of it that holds the pipe: none, alive or dead
    output,       \* chunks the script writes if it is left alone
    written,      \* chunks it has written
    pipe,         \* chunks in the pipe
    readEnd,      \* the end of the pipe the reader has: open or closed
    reader,       \* the reader goroutine: none, reading or done
    data,         \* chunks ReadAll has read
    stderr,       \* p.stderr
    waiter,       \* Wait: none, waiting, reaped, draining or returned
    captured      \* the stderrOutput that Wait returns

procVars   == <<script, child, output, written>>
readerVars == <<reader, data, stderr>>
waitVars   == <<waiter, captured>>
vars       == <<started, ctx, asked, procVars, pipe, readEnd, readerVars, waitVars>>

Chunks == 0..MaxOutput

TypeOK ==
    /\ started \in {"no", "yes", "failed"}
    /\ ctx \in {"live", "done"} /\ asked \in BOOLEAN
    /\ script \in {"none", "alive", "exited", "killed"}
    /\ child \in {"none", "alive", "dead"}
    /\ output \in Chunks /\ written \in 0..output
    /\ pipe \in 0..PipeCap /\ data \in Chunks /\ data + pipe <= written
    /\ readEnd \in {"open", "closed"}
    /\ reader \in {"none", "reading", "done"}
    /\ stderr \in {0, data} /\ captured \in {0, stderr}
    /\ waiter \in {"none", "waiting", "reaped", "draining", "returned"}

Init ==
    /\ started = "no" /\ ctx = "live" /\ asked = FALSE
    /\ script = "none" /\ child = "none" /\ output \in Chunks /\ written = 0
    /\ pipe = 0 /\ readEnd = "open"
    /\ reader = "none" /\ data = 0 /\ stderr = 0
    /\ waiter = "none" /\ captured = 0

-----------------------------------------------------------------------------
(* StartRun and waitForExit as they use a Process *)

\* Mutation: nobody reads the pipe.
StartWithoutReader ==
    /\ started = "no" /\ started' = "yes" /\ script' = "alive"
    /\ UNCHANGED <<ctx, asked, child, output, written, pipe, readEnd, readerVars, waitVars>>

Start ==
    /\ started = "no" /\ started' = "yes"
    /\ script' = "alive" /\ reader' = "reading"
    /\ UNCHANGED <<ctx, asked, child, output, written, pipe, readEnd, data, stderr, waitVars>>

\* No Python, no pipe or no process: Start returns an error.
StartFails ==
    /\ started = "no" /\ started' = "failed"
    /\ UNCHANGED <<ctx, asked, procVars, pipe, readEnd, readerVars, waitVars>>

\* CancelRun, the connect timeout, a failed SendStart or the kill timer.
Cancel ==
    /\ started = "yes" /\ asked' = TRUE /\ ctx' = "done"
    /\ UNCHANGED <<started, procVars, pipe, readEnd, readerVars, waitVars>>

Wait ==
    /\ started = "yes" /\ waiter = "none" /\ waiter' = "waiting"
    /\ UNCHANGED <<started, ctx, asked, procVars, pipe, readEnd, readerVars, captured>>

-----------------------------------------------------------------------------
(* The script *)

ScriptWrites ==
    /\ script = "alive" /\ written < output /\ pipe < PipeCap
    /\ written' = written + 1 /\ pipe' = pipe + 1
    /\ UNCHANGED <<started, ctx, asked, script, child, output, readEnd, readerVars, waitVars>>

ScriptForks ==
    /\ script = "alive" /\ child = "none" /\ child' = "alive"
    /\ UNCHANGED <<started, ctx, asked, script, output, written, pipe, readEnd,
                   readerVars, waitVars>>

ScriptExits ==
    /\ script = "alive" /\ written = output /\ script' = "exited"
    /\ UNCHANGED <<started, ctx, asked, child, output, written, pipe, readEnd,
                   readerVars, waitVars>>

ChildExits ==
    /\ child = "alive" /\ child' = "dead"
    /\ UNCHANGED <<started, ctx, asked, script, output, written, pipe, readEnd,
                   readerVars, waitVars>>

\* exec.CommandContext kills the process, not its children, when the context is done.
Killed ==
    /\ ctx = "done" /\ script = "alive" /\ script' = "killed"
    /\ UNCHANGED <<started, ctx, asked, child, output, written, pipe, readEnd,
                   readerVars, waitVars>>

-----------------------------------------------------------------------------
(* The reader goroutine *)

Read ==
    /\ reader = "reading" /\ readEnd = "open" /\ pipe > 0
    /\ pipe' = pipe - 1 /\ data' = data + 1
    /\ UNCHANGED <<started, ctx, asked, procVars, readEnd, reader, stderr, waitVars>>

Eof == pipe = 0 /\ script # "alive" /\ child # "alive"

\* At the end of the file, or when the pipe is closed under it, what was read so far
\* goes to p.stderr.
ReadEnds ==
    /\ reader = "reading"
    /\ Eof \/ readEnd = "closed"
    /\ reader' = "done" /\ stderr' = data
    /\ UNCHANGED <<started, ctx, asked, procVars, pipe, readEnd, data, waitVars>>

-----------------------------------------------------------------------------
(* Wait *)

Dead == script \in {"exited", "killed"}

\* Mutation: Wait drains the reader before cmd.Wait closes the pipe.
ReapDrained ==
    /\ waiter = "waiting" /\ Dead /\ reader = "done"
    /\ waiter' = "reaped" /\ readEnd' = "closed"
    /\ UNCHANGED <<started, ctx, asked, procVars, pipe, readerVars, captured>>

\* cmd.Wait: the process is reaped and the pipe is closed.
Reap ==
    /\ waiter = "waiting" /\ Dead
    /\ waiter' = "reaped" /\ readEnd' = "closed"
    /\ UNCHANGED <<started, ctx, asked, procVars, pipe, readerVars, captured>>

LetGo ==
    /\ waiter = "reaped" /\ waiter' = "draining" /\ ctx' = "done"
    /\ UNCHANGED <<started, asked, procVars, pipe, readEnd, readerVars, captured>>

\* Mutation: the buffer is read at once.
ReturnAtOnce ==
    /\ waiter = "draining" /\ waiter' = "returned" /\ captured' = stderr
    /\ UNCHANGED <<started, ctx, asked, procVars, pipe, readEnd, readerVars>>

Return ==
    /\ waiter = "draining" /\ reader = "done"
    /\ waiter' = "returned" /\ captured' = stderr
    /\ UNCHANGED <<started, ctx, asked, procVars, pipe, readEnd, readerVars>>

-----------------------------------------------------------------------------
Settled ==
    /\ started = "failed" \/ (waiter = "returned" /\ child # "alive")
    /\ UNCHANGED vars

Next ==
    \/ Start \/ StartFails \/ Cancel \/ Wait
    \/ ScriptWrites \/ ScriptForks \/ ScriptExits \/ ChildExits \/ Killed
    \/ Read \/ ReadEnds
    \/ Reap \/ LetGo \/ Return
    \/ Settled

Spec == Init /\ [][Next]_vars

\* Goroutines run, StartRun launches waitForExit, and a script writes what it has to
\* write and ends.  A child need not end, and nobody has to cancel.
FairSpec ==
    /\ Spec
    /\ WF_vars(Wait) /\ WF_vars(Reap) /\ WF_vars(LetGo) /\ WF_vars(Return)
    /\ WF_vars(Read) /\ WF_vars(ReadEnds)
    /\ WF_vars(ScriptWrites) /\ WF_vars(ScriptExits) /\ WF_vars(Killed)

-----------------------------------------------------------------------------
(* Properties *)

\* Done is closed, and a process is killed, only if the process has ended or someone
\* cancelled it: Wait lets go of the context after cmd.Wait, so that Done never sends
\* waitAndSendStart away from a process that still has to be started (Wait, Done).
HealthyNotKilled == (ctx = "done" \/ script = "killed") => asked \/ script = "exited"

\* What Wait returns is all the reader will ever have read: the reader is done and its
\* buffer is not written to any more (Wait, the reader goroutine).
CaptureIsFinal == waiter = "returned" => reader = "done" /\ captured = data

\* Wait returns for every process that was started: a script is not stalled by its own
\* output, because the reader empties the pipe while it runs (Start), and a child that
\* keeps the pipe open holds nobody up, because cmd.Wait closes it (Wait).
WaitReturns == script = "alive" ~> waiter = "returned"
=============================================================================
