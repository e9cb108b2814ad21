---------------------------- MODULE RunLifecycle ----------------------------
(***************************************************************************)
(* The life of a run: from Manager.StartRun to the terminal record.        *)
(*                                                                         *)
(* For each run r the program has                                          *)
(*   starter   Manager.StartRun                (internal/runner/manager.go) *)
(*   sender    goroutine waitAndSendStart                                   *)
(*   waiter    goroutine waitForExit                                        *)
(*   canceller a caller of CancelRun, and the grace timer it arms           *)
(*   exec      goroutine GRPCServer.Execute    (internal/runner/grpc_server.go) *)
(*   fwd       goroutine forwardMessages       (internal/services/runner_service.go) *)
(*   py        the Python process and its library (scripts/_lib/runner.py)  *)
(* and one action per step of each.  A step ends where another goroutine    *)
(* can look: at a lock, a channel operation, a select or an atomic load.    *)
(*                                                                         *)
(* Locks are not variables.  GRPCServer.mu is held across a wait only by    *)
(* UnregisterRun (waiter at "close"); phaseMu is held across a wait only by *)
(* a trySend blocked on a full channel (exec at "sending", waiter at        *)
(* "push").  Manager.mu is never held across a wait, so each of its         *)
(* critical sections is one step.                                           *)
(***************************************************************************)
EXTENDS Naturals, Sequences, FiniteSets, Functions

CONSTANTS
    Run,            \* run ids; uuid.New() never repeats one
    BufferSize,     \* messageBufferSize, the capacity of RunChannel.Messages
    MaxMsgs,        \* bound: output(), progress(), warn() and info() calls of a script
    MaxCancels      \* bound: CancelRun calls per run

ASSUME BufferSizeAssumption == BufferSize \in Nat \ {0}
ASSUME MaxMsgsAssumption    == MaxMsgs \in Nat
ASSUME MaxCancelsAssumption == MaxCancels \in Nat

VARIABLES
    starter,          \* pc of StartRun
    activeRuns,       \* the keys of Manager.activeRuns
    cancelRequested,  \* RunState.cancelRequested
    sender,           \* pc of waitAndSendStart
    canceller,        \* pc of CancelRun
    cancels,          \* CancelRun calls accepted so far (bounded by MaxCancels)
    timer,            \* a time.AfterFunc(cancelGracePeriod, kill) is armed
    ctxDone,          \* Process.ctx is cancelled
    py,               \* state of the Python process
    exit,             \* what cmd.Wait reports of it
    stderr,           \* it left text on stderr
    pyCancel,         \* Python's _cancel_event
    sent,             \* unforced messages the script sent (bounded by MaxMsgs)
    acked,            \* what complete() or fail() told Go and saw confirmed by the end of the
                      \* stream before the process exited (recorded for the properties)
    wire,             \* messages on their way from Python to Execute
    down,             \* messages on their way from Go to Python
    exec,             \* pc of Execute
    execMsg,          \* the message Execute hands to trySend
    phase,            \* RunChannel.phase; "none" before RegisterRun
    gotError,         \* RunChannel.gotError
    pythonStatus,     \* RunChannel.pythonStatus
    messages,         \* RunChannel.Messages
    waiter,           \* pc of waitForExit
    drain,            \* how WaitStreamDone returned
    final,            \* finalStatus of waitForExit
    errorMessage,     \* where the recorded error_message came from
    history,          \* status of the run's record in Manager.history
    db,               \* status of the run's row in the runs table
    fwd,              \* pc of forwardMessages
    ui                \* events that reached the frontend for the run, in order

startVars  == <<starter, sender>>
cancelVars == <<cancelRequested, canceller, cancels, timer>>
pyVars     == <<py, exit, stderr, pyCancel, sent, acked>>
netVars    == <<wire, down>>
execVars   == <<exec, execMsg>>
flagVars   == <<gotError, pythonStatus>>
verdictVars == <<drain, final, errorMessage>>
recordVars == <<activeRuns, history, db>>
fwdVars    == <<fwd, ui>>

vars == <<startVars, cancelVars, ctxDone, pyVars, netVars, execVars, phase,
          flagVars, messages, waiter, verdictVars, recordVars, fwdVars>>

-----------------------------------------------------------------------------
(* Values *)

Terminal == {"completed", "failed", "cancelled"}          \* RunStatus.IsTerminal

\* ClientMessage: error is fail()'s ErrorMsg, warn an ErrorMsg of severity
\* INFO or WARN, output an Output or Progress message.
ErrorMsg  == {"error", "warn"}
Payload   == {"output"} \cup ErrorMsg
StatusMsg == {"status_completed", "status_failed"}
ClientMsg == Payload \cup StatusMsg \cup {"dialog"}       \* dialog: a FileDialogRequest

\* What a forwarded message becomes: pane is notify's run-error-in-flight
\* event, toast an in-flight warning, logged an error demoted to the log,
\* crash the pane event waitForExit reports itself.
UiEvent == {"output", "pane", "toast", "logged", "crash"} \cup Terminal

\* booting: no stream yet; opened: in connect(); running: in main();
\* completing, failing: in or after complete(), fail(); finished: fail() after complete().
Alive  == {"booting", "opened", "running", "completing", "failing", "finished"}
Closed == {"completing", "failing", "finished", "exited"}  \* _msg_iter is closed or gone

TypeOK ==
    /\ starter \in [Run -> {"idle", "registered", "spawned", "active", "returned", "failed"}]
    /\ activeRuns \in SUBSET Run
    /\ cancelRequested \in [Run -> BOOLEAN]
    /\ sender \in [Run -> {"none", "wait", "send", "done"}]
    /\ canceller \in [Run -> {"idle", "send"}]
    /\ cancels \in [Run -> Nat]
    /\ timer \in [Run -> BOOLEAN]
    /\ ctxDone \in [Run -> BOOLEAN]
    /\ py \in [Run -> {"none", "exited"} \cup Alive]
    /\ exit \in [Run -> {"none", "zero", "nonzero"}]
    /\ stderr \in [Run -> BOOLEAN]
    /\ pyCancel \in [Run -> BOOLEAN]
    /\ sent \in [Run -> Nat]
    /\ acked \in [Run -> {"none", "completed", "failed"}]
    /\ wire \in [Run -> Seq(ClientMsg)]
    /\ down \in [Run -> Seq({"start", "cancel"})]
    /\ exec \in [Run -> {"none", "pending", "recv", "dialog", "push", "sending", "done",
                         "broken", "rejected"}]
    /\ execMsg \in [Run -> {"none"} \cup Payload]
    /\ phase \in [Run -> {"none", "registered", "connected", "done"}]
    /\ gotError \in [Run -> BOOLEAN]
    /\ pythonStatus \in [Run -> {"none", "completed", "failed"}]
    /\ messages \in [Run -> Seq(Payload \cup Terminal)]
    /\ waiter \in [Run -> {"none", "wait", "check", "drain", "cancelled", "error", "status",
                           "report", "lock", "push", "capture", "unregister", "close",
                           "finalize", "update", "done"}]
    /\ drain \in [Run -> {"none", "eof", "timeout", "skipped"}]
    /\ final \in [Run -> {"none"} \cup Terminal]
    /\ errorMessage \in [Run -> {"none", "stderr", "python", "process"}]
    /\ history \in [Run -> {"none"} \cup Terminal]
    /\ db \in [Run -> {"absent", "running"} \cup Terminal]
    /\ fwd \in [Run -> {"none", "run", "done"}]
    /\ ui \in [Run -> Seq(UiEvent)]

Init ==
    /\ starter = [r \in Run |-> "idle"]
    /\ activeRuns = {}
    /\ cancelRequested = [r \in Run |-> FALSE]
    /\ sender = [r \in Run |-> "none"]
    /\ canceller = [r \in Run |-> "idle"]
    /\ cancels = [r \in Run |-> 0]
    /\ timer = [r \in Run |-> FALSE]
    /\ ctxDone = [r \in Run |-> FALSE]
    /\ py = [r \in Run |-> "none"]
    /\ exit = [r \in Run |-> "none"]
    /\ stderr = [r \in Run |-> FALSE]
    /\ pyCancel = [r \in Run |-> FALSE]
    /\ sent = [r \in Run |-> 0]
    /\ acked = [r \in Run |-> "none"]
    /\ wire = [r \in Run |-> <<>>]
    /\ down = [r \in Run |-> <<>>]
    /\ exec = [r \in Run |-> "none"]
    /\ execMsg = [r \in Run |-> "none"]
    /\ phase = [r \in Run |-> "none"]
    /\ gotError = [r \in Run |-> FALSE]
    /\ pythonStatus = [r \in Run |-> "none"]
    /\ messages = [r \in Run |-> <<>>]
    /\ waiter = [r \in Run |-> "none"]
    /\ drain = [r \in Run |-> "none"]
    /\ final = [r \in Run |-> "none"]
    /\ errorMessage = [r \in Run |-> "none"]
    /\ history = [r \in Run |-> "none"]
    /\ db = [r \in Run |-> "absent"]
    /\ fwd = [r \in Run |-> "none"]
    /\ ui = [r \in Run |-> <<>>]

-----------------------------------------------------------------------------
(* Locks and lookups.  A definition named after another and introduced as a  *)
(* mutation is not part of the specification: it is a plausible bug that one *)
(* of the properties below must catch.                                       *)

\* GRPCServer.mu can be taken (for reading or writing).
ServerMuFree == \A q \in Run : waiter[q] # "close"

\* Mutation: the channel is used and closed without phaseMu.
PhaseMuIgnored(r) == TRUE

\* RunChannel.phaseMu of r can be taken.
PhaseMuFree(r) == exec[r] # "sending" /\ waiter[r] # "push"

\* r is a key of GRPCServer.runs.  UnregisterRun closes the channel and
\* deletes the key in one critical section of GRPCServer.mu.
Registered(r) == phase[r] \in {"registered", "connected"}

\* Mutation: errors do not take part in the verdict.
GotErrorIgnored(r) == FALSE

\* GRPCServer.GotError and PythonReportedStatus.
GotError(r) == Registered(r) /\ gotError[r]
PythonReportedStatus(r) == IF Registered(r) THEN pythonStatus[r] ELSE "none"

\* Manager.WasCancelled: only an active run can be cancelled.
WasCancelled(r) == r \in activeRuns /\ cancelRequested[r]

\* The buffered channel accepts a message.
HasRoom(r) == Len(messages[r]) < BufferSize

\* Mutation: trySend gives up when the buffer is full.
ClosedOrFull(r) == phase[r] = "done" \/ ~HasRoom(r)

\* The phase check of trySend.
ChannelClosed(r) == phase[r] = "done"

\* Execute has returned from a stream it served: "done" after its client
\* half-closed or died, "broken" while its client was still at it.
ExecReturned(r) == exec[r] \in {"done", "broken"}

\* SendStart and SendCancel: a stream is there and its handler has not
\* returned.  Once the process is gone Send may fail before Execute notices.
StreamOpen(r)  == phase[r] = "connected" /\ ~ExecReturned(r)
SendMayFail(r) == ~StreamOpen(r) \/ py[r] = "exited"

-----------------------------------------------------------------------------
(* StartRun *)

StartRegister(r) ==
    /\ starter[r] = "idle"
    /\ ServerMuFree
    /\ phase' = [phase EXCEPT ![r] = "registered"]
    /\ starter' = [starter EXCEPT ![r] = "registered"]
    /\ UNCHANGED <<sender, cancelVars, ctxDone, pyVars, netVars, execVars, flagVars,
                   messages, waiter, verdictVars, recordVars, fwdVars>>

StartSpawn(r) ==
    /\ starter[r] = "registered"
    /\ py' = [py EXCEPT ![r] = "booting"]
    /\ starter' = [starter EXCEPT ![r] = "spawned"]
    /\ UNCHANGED <<sender, cancelVars, ctxDone, exit, stderr, pyCancel, sent, acked, netVars,
                   execVars, phase, flagVars, messages, waiter, verdictVars, recordVars, fwdVars>>

\* proc.Start failed: UnregisterRun (nobody else knows the channel yet).
StartSpawnFails(r) ==
    /\ starter[r] = "registered"
    /\ ServerMuFree
    /\ phase' = [phase EXCEPT ![r] = "done"]
    /\ starter' = [starter EXCEPT ![r] = "failed"]
    /\ UNCHANGED <<sender, cancelVars, ctxDone, pyVars, netVars, execVars, flagVars,
                   messages, waiter, verdictVars, recordVars, fwdVars>>

StartActivate(r) ==
    /\ starter[r] = "spawned"
    /\ activeRuns' = activeRuns \cup {r}
    /\ starter' = [starter EXCEPT ![r] = "active"]
    /\ UNCHANGED <<sender, cancelVars, ctxDone, pyVars, netVars, execVars, phase, flagVars,
                   messages, waiter, verdictVars, history, db, fwdVars>>

\* INSERT INTO runs (a failure is only reported), then the goroutines start;
\* the caller of StartRun starts forwardMessages.
StartLaunch(r) ==
    /\ starter[r] = "active"
    /\ \E row \in {"running", "absent"} : db' = [db EXCEPT ![r] = row]
    /\ starter' = [starter EXCEPT ![r] = "returned"]
    /\ sender' = [sender EXCEPT ![r] = "wait"]
    /\ waiter' = [waiter EXCEPT ![r] = "wait"]
    /\ fwd' = [fwd EXCEPT ![r] = "run"]
    /\ UNCHANGED <<cancelVars, ctxDone, pyVars, netVars, execVars, phase, flagVars,
                   messages, verdictVars, activeRuns, history, ui>>

-----------------------------------------------------------------------------
(* waitAndSendStart *)

\* WaitConnected hands out a closed channel for a run already unregistered.
SenderConnected(r) ==
    /\ sender[r] = "wait"
    /\ phase[r] = "connected" \/ (~Registered(r) /\ ServerMuFree)
    /\ sender' = [sender EXCEPT ![r] = "send"]
    /\ UNCHANGED <<starter, cancelVars, ctxDone, pyVars, netVars, execVars, phase, flagVars,
                   messages, waiter, verdictVars, recordVars, fwdVars>>

SenderProcessDone(r) ==
    /\ sender[r] = "wait"
    /\ ctxDone[r]
    /\ sender' = [sender EXCEPT ![r] = "done"]
    /\ UNCHANGED <<starter, cancelVars, ctxDone, pyVars, netVars, execVars, phase, flagVars,
                   messages, waiter, verdictVars, recordVars, fwdVars>>

\* Mutation: the connect timer is not stopped when the client connects.
ConnectTimerNotStopped(r) == sender[r] \in {"wait", "done"}

\* Mutation: there is no connect timeout.
ConnectTimerMissing(r) == FALSE

\* The select of waitAndSendStart can still take its time.After branch.
ConnectTimerRuns(r) == sender[r] = "wait"

\* connectTimeout, 30 s after the goroutine started: kill the process.
SenderTimeout(r) ==
    /\ ConnectTimerRuns(r)
    /\ ctxDone' = [ctxDone EXCEPT ![r] = TRUE]
    /\ sender' = [sender EXCEPT ![r] = "done"]
    /\ UNCHANGED <<starter, cancelVars, pyVars, netVars, execVars, phase, flagVars,
                   messages, waiter, verdictVars, recordVars, fwdVars>>

SenderSend(r) ==
    /\ sender[r] = "send"
    /\ ServerMuFree
    /\ StreamOpen(r)
    /\ down' = [down EXCEPT ![r] = Append(@, "start")]
    /\ sender' = [sender EXCEPT ![r] = "done"]
    /\ UNCHANGED <<starter, cancelVars, ctxDone, pyVars, wire, execVars, phase, flagVars,
                   messages, waiter, verdictVars, recordVars, fwdVars>>

SenderSendFails(r) ==
    /\ sender[r] = "send"
    /\ ServerMuFree
    /\ SendMayFail(r)
    /\ ctxDone' = [ctxDone EXCEPT ![r] = TRUE]
    /\ sender' = [sender EXCEPT ![r] = "done"]
    /\ UNCHANGED <<starter, cancelVars, pyVars, netVars, execVars, phase, flagVars,
                   messages, waiter, verdictVars, recordVars, fwdVars>>

-----------------------------------------------------------------------------
(* CancelRun.  A run that is not in activeRuns gets ErrRunNotActive and      *)
(* nothing changes.                                                          *)

CancelMark(r) ==
    /\ r \in activeRuns
    /\ canceller[r] = "idle"
    /\ cancels[r] < MaxCancels
    /\ cancelRequested' = [cancelRequested EXCEPT ![r] = TRUE]
    /\ cancels' = [cancels EXCEPT ![r] = @ + 1]
    /\ canceller' = [canceller EXCEPT ![r] = "send"]
    /\ UNCHANGED <<startVars, timer, ctxDone, pyVars, netVars, execVars, phase, flagVars,
                   messages, waiter, verdictVars, recordVars, fwdVars>>

CancelSend(r) ==
    /\ canceller[r] = "send"
    /\ ServerMuFree
    /\ StreamOpen(r)
    /\ down' = [down EXCEPT ![r] = Append(@, "cancel")]
    /\ timer' = [timer EXCEPT ![r] = TRUE]
    /\ canceller' = [canceller EXCEPT ![r] = "idle"]
    /\ UNCHANGED <<startVars, cancelRequested, cancels, ctxDone, pyVars, wire, execVars, phase,
                   flagVars, messages, waiter, verdictVars, recordVars, fwdVars>>

\* SendCancel failed: kill at once.
CancelSendFails(r) ==
    /\ canceller[r] = "send"
    /\ ServerMuFree
    /\ SendMayFail(r)
    /\ ctxDone' = [ctxDone EXCEPT ![r] = TRUE]
    /\ canceller' = [canceller EXCEPT ![r] = "idle"]
    /\ UNCHANGED <<startVars, cancelRequested, cancels, timer, pyVars, netVars, execVars, phase,
                   flagVars, messages, waiter, verdictVars, recordVars, fwdVars>>

\* Mutation: the grace timer never fires.
CancelTimerLost(r) == FALSE

\* cancelGracePeriod is over.
CancelTimer(r) ==
    /\ timer[r]
    /\ timer' = [timer EXCEPT ![r] = FALSE]
    /\ ctxDone' = [ctxDone EXCEPT ![r] = TRUE]
    /\ UNCHANGED <<startVars, cancelRequested, canceller, cancels, pyVars, netVars, execVars,
                   phase, flagVars, messages, waiter, verdictVars, recordVars, fwdVars>>

-----------------------------------------------------------------------------
(* The Python process and its library.  Nothing obliges a script to do      *)
(* anything: these actions are not fair.                                    *)

\* connect(): the Execute call leaves the process.
PyOpen(r) ==
    /\ py[r] = "booting"
    /\ py' = [py EXCEPT ![r] = "opened"]
    /\ exec' = [exec EXCEPT ![r] = "pending"]
    /\ UNCHANGED <<startVars, cancelVars, ctxDone, exit, stderr, pyCancel, sent, acked, netVars,
                   execMsg, phase, flagVars, messages, waiter, verdictVars, recordVars, fwdVars>>

\* connect() returns the params of the StartRequest.
PyConnected(r) ==
    /\ py[r] = "opened"
    /\ down[r] # <<>> /\ Head(down[r]) = "start"
    /\ down' = [down EXCEPT ![r] = Tail(@)]
    /\ py' = [py EXCEPT ![r] = "running"]
    /\ UNCHANGED <<startVars, cancelVars, ctxDone, exit, stderr, pyCancel, sent, acked, wire,
                   execVars, phase, flagVars, messages, waiter, verdictVars, recordVars, fwdVars>>

\* connect() raises: the first message is not the StartRequest, or the stream
\* ended.  run() turns the exception into fail().
PyConnectFails(r) ==
    /\ py[r] = "opened"
    /\ \/ down[r] # <<>> /\ Head(down[r]) = "cancel"
       \/ ExecReturned(r) \/ exec[r] = "rejected"
    /\ wire' = [wire EXCEPT ![r] = @ \o <<"error", "status_failed">>]
    /\ py' = [py EXCEPT ![r] = "failing"]
    /\ UNCHANGED <<startVars, cancelVars, ctxDone, exit, stderr, pyCancel, sent, acked, down,
                   execVars, phase, flagVars, messages, waiter, verdictVars, recordVars, fwdVars>>

\* output(), progress(), warn(), info(): _send raises once cancel was seen.
PySend(r, m) ==
    /\ py[r] = "running"
    /\ ~pyCancel[r]
    /\ sent[r] < MaxMsgs
    /\ wire' = [wire EXCEPT ![r] = Append(@, m)]
    /\ sent' = [sent EXCEPT ![r] = @ + 1]
    /\ UNCHANGED <<startVars, cancelVars, ctxDone, py, exit, stderr, pyCancel, acked, down,
                   execVars, phase, flagVars, messages, waiter, verdictVars, recordVars, fwdVars>>

\* A thread of the script asks for a file dialog (bound: one request at a time).
\* What its answer does to the script is ScriptRequests.
PyAsk(r) ==
    /\ py[r] = "running"
    /\ ~pyCancel[r]
    /\ exec[r] # "dialog" /\ "dialog" \notin Range(wire[r])
    /\ wire' = [wire EXCEPT ![r] = Append(@, "dialog")]
    /\ UNCHANGED <<startVars, cancelVars, ctxDone, pyVars, down, execVars, phase, flagVars,
                   messages, waiter, verdictVars, recordVars, fwdVars>>

PyComplete(r) ==
    /\ py[r] = "running"
    /\ ~pyCancel[r]
    /\ wire' = [wire EXCEPT ![r] = Append(@, "status_completed")]
    /\ py' = [py EXCEPT ![r] = "completing"]
    /\ UNCHANGED <<startVars, cancelVars, ctxDone, exit, stderr, pyCancel, sent, acked, down,
                   execVars, phase, flagVars, messages, waiter, verdictVars, recordVars, fwdVars>>

\* fail(), from the script or from run()'s except clauses (CancelledError
\* included): both messages are forced past the cancel check.
PyFail(r) ==
    /\ py[r] = "running"
    /\ wire' = [wire EXCEPT ![r] = @ \o <<"error", "status_failed">>]
    /\ py' = [py EXCEPT ![r] = "failing"]
    /\ UNCHANGED <<startVars, cancelVars, ctxDone, exit, stderr, pyCancel, sent, acked, down,
                   execVars, phase, flagVars, messages, waiter, verdictVars, recordVars, fwdVars>>

\* An exception after complete(): fail() forces its messages into an iterator
\* that gRPC may already have seen exhausted, in which case they are lost.
PyFailAfterComplete(r) ==
    /\ py[r] = "completing"
    /\ py' = [py EXCEPT ![r] = "finished"]
    /\ \E late \in {<<>>, <<"error", "status_failed">>} :
          wire' = [wire EXCEPT ![r] = @ \o late]
    /\ UNCHANGED <<startVars, cancelVars, ctxDone, exit, stderr, pyCancel, sent, acked, down,
                   execVars, phase, flagVars, messages, waiter, verdictVars, recordVars, fwdVars>>

\* The reader thread, started by connect(), takes a CancelRequest.
PyCancelSeen(r) ==
    /\ py[r] \in {"running", "completing", "failing", "finished"}
    /\ down[r] # <<>> /\ Head(down[r]) = "cancel"
    /\ down' = [down EXCEPT ![r] = Tail(@)]
    /\ pyCancel' = [pyCancel EXCEPT ![r] = TRUE]
    /\ UNCHANGED <<startVars, cancelVars, ctxDone, py, exit, stderr, sent, acked, wire,
                   execVars, phase, flagVars, messages, waiter, verdictVars, recordVars, fwdVars>>

\* The process ends by itself, with any exit code: _finish joins the reader
\* (it ends with the stream) for at most 5 s.
PyExit(r) ==
    /\ py[r] \in Alive
    /\ \E code \in {"zero", "nonzero"} : exit' = [exit EXCEPT ![r] = code]
    /\ \E text \in BOOLEAN : stderr' = [stderr EXCEPT ![r] = text]
    /\ acked' = [acked EXCEPT ![r] =
                    IF ExecReturned(r) /\ py[r] = "completing" THEN "completed"
                    ELSE IF ExecReturned(r) /\ py[r] = "failing" THEN "failed"
                    ELSE "none"]
    /\ py' = [py EXCEPT ![r] = "exited"]
    /\ UNCHANGED <<startVars, cancelVars, ctxDone, pyCancel, sent, netVars, execVars, phase,
                   flagVars, messages, waiter, verdictVars, recordVars, fwdVars>>

\* exec.CommandContext kills the process once its context is cancelled.
PyKilled(r) ==
    /\ py[r] \in Alive
    /\ ctxDone[r]
    /\ exit' = [exit EXCEPT ![r] = "nonzero"]
    /\ \E text \in BOOLEAN : stderr' = [stderr EXCEPT ![r] = text]
    /\ py' = [py EXCEPT ![r] = "exited"]
    /\ UNCHANGED <<startVars, cancelVars, ctxDone, pyCancel, sent, acked, netVars, execVars,
                   phase, flagVars, messages, waiter, verdictVars, recordVars, fwdVars>>

\* What the process had not got through to Execute when it ended can be lost.
\* What an Execute that returned has left unread stays on the wire, uncounted by
\* anybody but the properties.
WireLost(r) ==
    /\ py[r] = "exited"
    /\ ~ExecReturned(r)
    /\ wire[r] # <<>>
    /\ wire' = [wire EXCEPT ![r] = <<>>]
    /\ UNCHANGED <<startVars, cancelVars, ctxDone, pyVars, down, execVars, phase, flagVars,
                   messages, waiter, verdictVars, recordVars, fwdVars>>

-----------------------------------------------------------------------------
(* Execute and handleClientMessage *)

\* The stream is stored and the phase advanced under GRPCServer.mu.
ExecConnect(r) ==
    /\ exec[r] = "pending"
    /\ ServerMuFree
    /\ Registered(r)
    /\ phase' = [phase EXCEPT ![r] = "connected"]
    /\ exec' = [exec EXCEPT ![r] = "recv"]
    /\ UNCHANGED <<startVars, cancelVars, ctxDone, pyVars, netVars, execMsg, flagVars,
                   messages, waiter, verdictVars, recordVars, fwdVars>>

\* Unknown run id; or the call never reaches the server because its process died.
ExecReject(r) ==
    /\ exec[r] = "pending"
    /\ (ServerMuFree /\ ~Registered(r)) \/ py[r] = "exited"
    /\ exec' = [exec EXCEPT ![r] = "rejected"]
    /\ UNCHANGED <<startVars, cancelVars, ctxDone, pyVars, netVars, execMsg, phase, flagVars,
                   messages, waiter, verdictVars, recordVars, fwdVars>>

\* Output, Progress and Error go to trySend; an Error of any severity raises gotError.
ExecRecvPayload(r) ==
    /\ exec[r] = "recv"
    /\ wire[r] # <<>> /\ Head(wire[r]) \in Payload
    /\ wire' = [wire EXCEPT ![r] = Tail(@)]
    /\ gotError' = [gotError EXCEPT ![r] = @ \/ Head(wire[r]) \in ErrorMsg]
    /\ execMsg' = [execMsg EXCEPT ![r] = Head(wire[r])]
    /\ exec' = [exec EXCEPT ![r] = "push"]
    /\ UNCHANGED <<startVars, cancelVars, ctxDone, pyVars, down, phase, pythonStatus,
                   messages, waiter, verdictVars, recordVars, fwdVars>>

\* Mutation: Python's StatusMsg is forwarded to the channel as well.
ExecRecvStatusForwards(r) ==
    /\ exec[r] = "recv"
    /\ wire[r] # <<>> /\ Head(wire[r]) \in StatusMsg
    /\ HasRoom(r)
    /\ messages' = [messages EXCEPT ![r] = Append(@,
                      IF Head(wire[r]) = "status_completed" THEN "completed" ELSE "failed")]
    /\ wire' = [wire EXCEPT ![r] = Tail(@)]
    /\ UNCHANGED <<startVars, cancelVars, ctxDone, pyVars, down, execVars, phase, flagVars,
                   waiter, verdictVars, recordVars, fwdVars>>

\* Status only feeds the verdict; pythonStatus is compare-and-swapped from nil.
ExecRecvStatus(r) ==
    /\ exec[r] = "recv"
    /\ wire[r] # <<>> /\ Head(wire[r]) \in StatusMsg
    /\ wire' = [wire EXCEPT ![r] = Tail(@)]
    /\ pythonStatus' = [pythonStatus EXCEPT ![r] =
                          IF @ # "none" THEN @
                          ELSE IF Head(wire[r]) = "status_completed" THEN "completed" ELSE "failed"]
    /\ UNCHANGED <<startVars, cancelVars, ctxDone, pyVars, down, execVars, phase, gotError,
                   messages, waiter, verdictVars, recordVars, fwdVars>>

\* handleFileDialog opens the dialog and waits, outside every lock, for the user, ...
ExecRecvDialog(r) ==
    /\ exec[r] = "recv"
    /\ wire[r] # <<>> /\ Head(wire[r]) = "dialog"
    /\ wire' = [wire EXCEPT ![r] = Tail(@)]
    /\ exec' = [exec EXCEPT ![r] = "dialog"]
    /\ UNCHANGED <<startVars, cancelVars, ctxDone, pyVars, down, execMsg, phase, flagVars,
                   messages, waiter, verdictVars, recordVars, fwdVars>>

\* ... who need never answer.
DialogAnswered(r) ==
    /\ exec[r] = "dialog"
    /\ exec' = [exec EXCEPT ![r] = "recv"]
    /\ UNCHANGED <<startVars, cancelVars, ctxDone, pyVars, netVars, execMsg, phase, flagVars,
                   messages, waiter, verdictVars, recordVars, fwdVars>>

\* trySend takes phaseMu and finds the channel open, ...
ExecLock(r) ==
    /\ exec[r] = "push"
    /\ PhaseMuFree(r)
    /\ ~ChannelClosed(r)
    /\ exec' = [exec EXCEPT ![r] = "sending"]
    /\ UNCHANGED <<startVars, cancelVars, ctxDone, pyVars, netVars, execMsg, phase, flagVars,
                   messages, waiter, verdictVars, recordVars, fwdVars>>

\* ... or closed: the message is dropped.
ExecDrop(r) ==
    /\ exec[r] = "push"
    /\ PhaseMuFree(r)
    /\ ChannelClosed(r)
    /\ exec' = [exec EXCEPT ![r] = "recv"]
    /\ execMsg' = [execMsg EXCEPT ![r] = "none"]
    /\ UNCHANGED <<startVars, cancelVars, ctxDone, pyVars, netVars, phase, flagVars,
                   messages, waiter, verdictVars, recordVars, fwdVars>>

\* ch.Messages <- msg, still under phaseMu, once the channel has room.
ExecSend(r) ==
    /\ exec[r] = "sending"
    /\ HasRoom(r)
    /\ messages' = [messages EXCEPT ![r] = Append(@, execMsg[r])]
    /\ exec' = [exec EXCEPT ![r] = "recv"]
    /\ execMsg' = [execMsg EXCEPT ![r] = "none"]
    /\ UNCHANGED <<startVars, cancelVars, ctxDone, pyVars, netVars, phase, flagVars,
                   waiter, verdictVars, recordVars, fwdVars>>

\* Mutation: the half-close is noticed ahead of the messages before it.
StreamEndedEarly(r) == py[r] \in Closed

\* stream.Recv returns io.EOF: everything was read and Python half-closed or is gone.
StreamEnded(r) == wire[r] = <<>> /\ py[r] \in Closed

\* Execute returns and streamDone closes.
ExecEnd(r) ==
    /\ exec[r] = "recv"
    /\ StreamEnded(r)
    /\ exec' = [exec EXCEPT ![r] = "done"]
    /\ UNCHANGED <<startVars, cancelVars, ctxDone, pyVars, netVars, execMsg, phase, flagVars,
                   messages, waiter, verdictVars, recordVars, fwdVars>>

\* Execute returns with its client alive: Recv fails on a message above gRPC's
\* 4 MB or because the client gave the call up, or the answer to a dialog, cache
\* or SQL request cannot be sent.  What was not read stays unread.
StreamBreaks(r) ==
    /\ exec[r] = "recv"
    /\ py[r] # "exited"
    /\ exec' = [exec EXCEPT ![r] = "broken"]
    /\ UNCHANGED <<startVars, cancelVars, ctxDone, pyVars, netVars, execMsg, phase, flagVars,
                   messages, waiter, verdictVars, recordVars, fwdVars>>

-----------------------------------------------------------------------------
(* waitForExit *)

\* proc.Wait: reaps the process and cancels its context.  A context cancelled
\* between the exit and the reaping makes Wait report an error even for exit code 0.
WaiterReap(r) ==
    /\ waiter[r] = "wait"
    /\ py[r] = "exited"
    /\ \E code \in {exit[r]} \cup (IF ctxDone[r] THEN {"nonzero"} ELSE {}) :
          exit' = [exit EXCEPT ![r] = code]
    /\ ctxDone' = [ctxDone EXCEPT ![r] = TRUE]
    /\ waiter' = [waiter EXCEPT ![r] = "check"]
    /\ UNCHANGED <<startVars, cancelVars, py, stderr, pyCancel, sent, acked, netVars, execVars,
                   phase, flagVars, messages, verdictVars, recordVars, fwdVars>>

\* WaitStreamDone, first select: is the connected channel closed?
WaiterCheck(r) ==
    /\ waiter[r] = "check"
    /\ ServerMuFree
    /\ waiter' = [waiter EXCEPT ![r] = IF phase[r] = "connected" THEN "drain" ELSE "cancelled"]
    /\ drain' = [drain EXCEPT ![r] = IF phase[r] = "connected" THEN @ ELSE "skipped"]
    /\ UNCHANGED <<startVars, cancelVars, ctxDone, pyVars, netVars, execVars, phase, flagVars,
                   messages, final, errorMessage, recordVars, fwdVars>>

\* Mutation: the wait for the end of the stream is skipped.
StreamDoneAssumed(r) == TRUE

\* streamDone is closed.
StreamDone(r) == ExecReturned(r)

\* Second select: streamDone, or 5 s have passed.
WaiterDrain(r) ==
    /\ waiter[r] = "drain"
    /\ waiter' = [waiter EXCEPT ![r] = "cancelled"]
    /\ \E d \in {"timeout"} \cup (IF StreamDone(r) THEN {"eof"} ELSE {}) :
          drain' = [drain EXCEPT ![r] = d]
    /\ UNCHANGED <<startVars, cancelVars, ctxDone, pyVars, netVars, execVars, phase, flagVars,
                   messages, final, errorMessage, recordVars, fwdVars>>

\* deriveFinalStatus: WasCancelled under Manager.mu, then the exit code, ...
WaiterCancelled(r) ==
    /\ waiter[r] = "cancelled"
    /\ LET v == IF WasCancelled(r) THEN "cancelled"
                ELSE IF exit[r] = "nonzero" THEN "failed" ELSE "none"
       IN  /\ final' = [final EXCEPT ![r] = v]
           /\ waiter' = [waiter EXCEPT ![r] = IF v = "none" THEN "error" ELSE "report"]
    /\ UNCHANGED <<startVars, cancelVars, ctxDone, pyVars, netVars, execVars, phase, flagVars,
                   messages, drain, errorMessage, recordVars, fwdVars>>

\* ... GotError, ...
WaiterError(r) ==
    /\ waiter[r] = "error"
    /\ ServerMuFree
    /\ final' = [final EXCEPT ![r] = IF GotError(r) THEN "failed" ELSE @]
    /\ waiter' = [waiter EXCEPT ![r] = IF GotError(r) THEN "report" ELSE "status"]
    /\ UNCHANGED <<startVars, cancelVars, ctxDone, pyVars, netVars, execVars, phase, flagVars,
                   messages, drain, errorMessage, recordVars, fwdVars>>

\* Mutation: exit code 0 counts as success unless Python said failed.
StatusVerdictOptimistic(s) == IF s = "failed" THEN "failed" ELSE "completed"

\* Exit code 0 without a signal means the script ended before complete() or fail().
StatusVerdict(s) == IF s = "completed" THEN "completed" ELSE "failed"

\* ... GotFailedStatus and GotCompletedStatus: pythonStatus is written once, so
\* the two loads decide as the second one alone would.
WaiterStatus(r) ==
    /\ waiter[r] = "status"
    /\ ServerMuFree
    /\ final' = [final EXCEPT ![r] = StatusVerdict(PythonReportedStatus(r))]
    /\ waiter' = [waiter EXCEPT ![r] = "report"]
    /\ UNCHANGED <<startVars, cancelVars, ctxDone, pyVars, netVars, execVars, phase, flagVars,
                   messages, drain, errorMessage, recordVars, fwdVars>>

\* A crash without a structured error is reported straight to the run's pane.
WaiterReport(r) ==
    /\ waiter[r] = "report"
    /\ ServerMuFree
    /\ ui' = IF final[r] = "failed" /\ exit[r] = "nonzero" /\ stderr[r] /\ ~GotError(r)
               THEN [ui EXCEPT ![r] = Append(@, "crash")] ELSE ui
    /\ waiter' = [waiter EXCEPT ![r] = "lock"]
    /\ UNCHANGED <<startVars, cancelVars, ctxDone, pyVars, netVars, execVars, phase, flagVars,
                   messages, verdictVars, recordVars, fwd>>

\* TrySendStatus: lookup, phaseMu, and the phase check of trySend.
WaiterLock(r) ==
    /\ waiter[r] = "lock"
    /\ ServerMuFree
    /\ PhaseMuFree(r)
    /\ Registered(r)
    /\ waiter' = [waiter EXCEPT ![r] = "push"]
    /\ UNCHANGED <<startVars, cancelVars, ctxDone, pyVars, netVars, execVars, phase, flagVars,
                   messages, verdictVars, recordVars, fwdVars>>

WaiterPush(r) ==
    /\ waiter[r] = "push"
    /\ HasRoom(r)
    /\ messages' = [messages EXCEPT ![r] = Append(@, final[r])]
    /\ waiter' = [waiter EXCEPT ![r] = "capture"]
    /\ UNCHANGED <<startVars, cancelVars, ctxDone, pyVars, netVars, execVars, phase, flagVars,
                   verdictVars, recordVars, fwdVars>>

\* error_message: stderr, else the ErrorMsg of the channel, else the error of
\* Wait.  Then the cache drops what the run holds (module CacheManager).
WaiterCapture(r) ==
    /\ waiter[r] = "capture"
    /\ ServerMuFree
    /\ errorMessage' = [errorMessage EXCEPT ![r] =
                          IF final[r] # "failed" THEN "none"
                          ELSE IF stderr[r] THEN "stderr"
                          ELSE IF GotError(r) THEN "python"
                          ELSE IF exit[r] = "nonzero" THEN "process" ELSE "none"]
    /\ waiter' = [waiter EXCEPT ![r] = "unregister"]
    /\ UNCHANGED <<startVars, cancelVars, ctxDone, pyVars, netVars, execVars, phase, flagVars,
                   messages, drain, final, recordVars, fwdVars>>

\* UnregisterRun holds GRPCServer.mu while transitionTo(Done) waits for phaseMu.
WaiterUnregister(r) ==
    /\ waiter[r] = "unregister"
    /\ ServerMuFree
    /\ waiter' = [waiter EXCEPT ![r] = "close"]
    /\ UNCHANGED <<startVars, cancelVars, ctxDone, pyVars, netVars, execVars, phase, flagVars,
                   messages, verdictVars, recordVars, fwdVars>>

WaiterClose(r) ==
    /\ waiter[r] = "close"
    /\ PhaseMuFree(r)
    /\ phase' = [phase EXCEPT ![r] = "done"]
    /\ waiter' = [waiter EXCEPT ![r] = "finalize"]
    /\ UNCHANGED <<startVars, cancelVars, ctxDone, pyVars, netVars, execVars, flagVars,
                   messages, verdictVars, recordVars, fwdVars>>

\* Mutation: cancelRequested is read once more when the run is recorded.
RecordStatusReread(r) == IF cancelRequested[r] THEN "cancelled" ELSE final[r]

\* recordStatus: RunState.Status is set nowhere else, so it takes finalStatus.
RecordStatus(r) == final[r]

\* Under Manager.mu: the run leaves activeRuns and enters history.
WaiterFinalize(r) ==
    /\ waiter[r] = "finalize"
    /\ history' = [history EXCEPT ![r] = RecordStatus(r)]
    /\ activeRuns' = activeRuns \ {r}
    /\ waiter' = [waiter EXCEPT ![r] = "update"]
    /\ UNCHANGED <<startVars, cancelVars, ctxDone, pyVars, netVars, execVars, phase, flagVars,
                   messages, verdictVars, db, fwdVars>>

\* UPDATE runs: changes nothing if it fails or if the INSERT had failed.
WaiterUpdate(r) ==
    /\ waiter[r] = "update"
    /\ \E row \in {db[r]} \cup (IF db[r] = "running" THEN {history[r]} ELSE {}) :
          db' = [db EXCEPT ![r] = row]
    /\ waiter' = [waiter EXCEPT ![r] = "done"]
    /\ UNCHANGED <<startVars, cancelVars, ctxDone, pyVars, netVars, execVars, phase, flagVars,
                   messages, verdictVars, activeRuns, history, fwdVars>>

-----------------------------------------------------------------------------
(* forwardMessages *)

\* The event a message becomes.  A failed status also raises the "Run failed"
\* toast, in the same step.
Routed(r, m) ==
    IF m \in ErrorMsg
      THEN IF WasCancelled(r) THEN "logged"
           ELSE IF m = "error" THEN "pane" ELSE "toast"
      ELSE m

Forward(r) ==
    /\ fwd[r] = "run"
    /\ messages[r] # <<>>
    /\ ui' = [ui EXCEPT ![r] = Append(@, Routed(r, Head(messages[r])))]
    /\ messages' = [messages EXCEPT ![r] = Tail(@)]
    /\ UNCHANGED <<startVars, cancelVars, ctxDone, pyVars, netVars, execVars, phase, flagVars,
                   waiter, verdictVars, recordVars, fwd>>

\* Mutation: the loop is also left when an error was shown.
RangeDoneAtError(r) == messages[r] = <<>> /\ (phase[r] = "done" \/ "pane" \in Range(ui[r]))

\* range over the channel ends: it is closed and empty.
RangeDone(r) == messages[r] = <<>> /\ phase[r] = "done"

ForwardEnd(r) ==
    /\ fwd[r] = "run"
    /\ RangeDone(r)
    /\ fwd' = [fwd EXCEPT ![r] = "done"]
    /\ UNCHANGED <<startVars, cancelVars, ctxDone, pyVars, netVars, execVars, phase, flagVars,
                   messages, waiter, verdictVars, recordVars, ui>>

-----------------------------------------------------------------------------
Starter(r) == \/ StartRegister(r) \/ StartSpawn(r) \/ StartSpawnFails(r)
              \/ StartActivate(r) \/ StartLaunch(r)

Sender(r) == \/ SenderConnected(r) \/ SenderProcessDone(r) \/ SenderTimeout(r)
             \/ SenderSend(r) \/ SenderSendFails(r)

Canceller(r) == CancelSend(r) \/ CancelSendFails(r)

Python(r) == \/ PyOpen(r) \/ PyConnected(r) \/ PyConnectFails(r)
             \/ \E m \in {"output", "warn"} : PySend(r, m)
             \/ PyAsk(r) \/ PyComplete(r) \/ PyFail(r) \/ PyFailAfterComplete(r)
             \/ PyCancelSeen(r) \/ PyExit(r) \/ WireLost(r)

Execute(r) == \/ ExecConnect(r) \/ ExecReject(r) \/ ExecRecvPayload(r) \/ ExecRecvStatus(r)
              \/ ExecRecvDialog(r) \/ ExecLock(r) \/ ExecDrop(r) \/ ExecSend(r)
              \/ ExecEnd(r)

Waiter(r) == \/ WaiterReap(r) \/ WaiterCheck(r) \/ WaiterDrain(r) \/ WaiterCancelled(r)
             \/ WaiterError(r) \/ WaiterStatus(r) \/ WaiterReport(r) \/ WaiterLock(r)
             \/ WaiterPush(r) \/ WaiterCapture(r) \/ WaiterUnregister(r) \/ WaiterClose(r)
             \/ WaiterFinalize(r) \/ WaiterUpdate(r)

Forwarder(r) == Forward(r) \/ ForwardEnd(r)

\* Every goroutine of every run has returned and no stream is left.
AllReturned ==
    /\ \A r \in Run :
          \/ starter[r] = "failed"
          \/ waiter[r] = "done" /\ fwd[r] = "done" /\ sender[r] = "done"
             /\ canceller[r] = "idle" /\ exec[r] \in {"none", "done", "broken", "rejected"}
    /\ UNCHANGED vars

RunStep(r) ==
    \/ Starter(r) \/ Sender(r) \/ Canceller(r) \/ CancelMark(r) \/ CancelTimer(r)
    \/ Python(r) \/ PyKilled(r) \/ Execute(r) \/ DialogAnswered(r) \/ StreamBreaks(r)
    \/ Waiter(r) \/ Forwarder(r)

Next == (\E r \in Run : RunStep(r)) \/ AllReturned

Spec == Init /\ [][Next]_vars

\* The Go scheduler runs every ready goroutine, timers fire and a killed process
\* dies.  A script owes nothing, nobody has to call StartRun or CancelRun or to
\* answer a dialog, and a stream need not break.
Fairness ==
    \A r \in Run :
        /\ WF_vars(StartSpawn(r) \/ StartSpawnFails(r) \/ StartActivate(r) \/ StartLaunch(r))
        /\ WF_vars(Sender(r))
        /\ WF_vars(Canceller(r))
        /\ WF_vars(CancelTimer(r))
        /\ WF_vars(PyKilled(r))
        /\ WF_vars(Execute(r))
        /\ WF_vars(Waiter(r))
        /\ WF_vars(Forwarder(r))

FairSpec == Spec /\ Fairness

-----------------------------------------------------------------------------
(* Properties *)

\* What the frontend has been, and is about to be, sent for r.
Outbox(r) == ui[r] \o messages[r]

Count(seq, S) == Cardinality({i \in DOMAIN seq : seq[i] \in S})

\* Nobody sends on the channel after it is closed, which would panic: trySend's
\* check of the phase still holds when its blocking send goes through, however
\* long it waited, and no two goroutines are inside phaseMu (grpc_server.go
\* trySend and transitionTo).
NoSendOnClosed ==
    \A r \in Run :
        /\ exec[r] = "sending" \/ waiter[r] = "push" => phase[r] # "done"
        /\ ~(exec[r] = "sending" /\ waiter[r] = "push")

\* Once the stream was drained, the verdict of deriveFinalStatus is the one its
\* documented trust order gives on the flags as they finally stand: nothing that
\* arrives between its four separate reads, or after them, could have changed it.
TrustOrder ==
    \A r \in Run : drain[r] = "eof" /\ final[r] # "none" =>
        \/ final[r] = "cancelled" /\ cancelRequested[r]
        \/ final[r] = IF exit[r] = "zero" /\ ~gotError[r] /\ pythonStatus[r] = "completed"
                        THEN "completed" ELSE "failed"

\* Success is never made up: a completed run, wherever it says so, has exited
\* with code 0 and Python has reported completed, even when the drain timed out.
NoFalseSuccess ==
    \A r \in Run :
        "completed" \in {final[r], history[r], db[r]} \cup Range(ui[r]) \cup Range(messages[r])
          => py[r] = "exited" /\ exit[r] = "zero" /\ pythonStatus[r] = "completed"

\* Manager is the sole emitter of the terminal status: the frontend is sent at
\* most one per run, and the status that enters the history has been sent before.
OneTerminalStatus ==
    \A r \in Run :
        /\ \A i, j \in DOMAIN Outbox(r) :
              Outbox(r)[i] \in Terminal /\ Outbox(r)[j] \in Terminal => i = j
        /\ history[r] # "none" => history[r] \in Range(Outbox(r))

\* After a drained stream the terminal status is the last thing the frontend
\* hears of the run: no output or error follows it (waitForExit drains first).
StatusLast ==
    \A r \in Run : drain[r] = "eof" =>
        \A i \in DOMAIN Outbox(r) : Outbox(r)[i] \in Terminal => i = Len(Outbox(r))

\* Once complete() or fail() saw the stream end, every message of the script was
\* forwarded, ahead of the status, or is left unread on a stream that broke: none
\* is dropped at a full buffer, at shutdown of the channel or by the order in which
\* Execute meets the half-close, and the end of a stream that did not break means
\* what _finish takes it for, that Go has read everything.
NothingLost ==
    \A r \in Run : acked[r] # "none" =>
        /\ Count(Outbox(r), {"output", "pane", "toast", "logged"} \cup ErrorMsg)
             + Count(wire[r], Payload) = sent[r] + (IF acked[r] = "failed" THEN 1 ELSE 0)
        /\ exec[r] # "broken" => wire[r] = <<>>

\* A script that completed, was confirmed, exited 0 and was not cancelled is recorded
\* as completed, or as failed if it raised an error or so much as a warning, whatever
\* the timers did meanwhile, unless a kill reached it before it was reaped or its
\* stream broke ahead of the status.
CleanCompletion ==
    \A r \in Run :
        /\ acked[r] = "completed" /\ exit[r] = "zero" /\ ~cancelRequested[r]
        /\ ~(exec[r] = "broken" /\ "status_completed" \in Range(wire[r]))
        => history[r] \in {"none", IF gotError[r] THEN "failed" ELSE "completed"}

\* A script in its main function is killed only by a cancel: neither the connect
\* timeout nor a failed SendStart reaches a run that has been started.
HealthyRunNotKilled ==
    \A r \in Run : py[r] = "running" /\ ctxDone[r] => cancelRequested[r]

-----------------------------------------------------------------------------
(* The promise *)

\* The status among the events of a sequence, or "none".
StatusIn(seq) ==
    IF Range(seq) \cap Terminal = {} THEN "none"
    ELSE CHOOSE s \in Range(seq) : s \in Terminal

Promise == INSTANCE RunPromise WITH
    exited   <- {r \in Run : py[r] = "exited"},
    verdict  <- final,
    shown    <- [r \in Run |-> StatusIn(ui[r])],
    recorded <- history,
    stored   <- [r \in Run |-> IF db[r] \in Terminal THEN db[r] ELSE "none"]

\* All the goroutines, locks and channels of a run implement RunPromise.
KeepsPromise == Promise!Spec

-----------------------------------------------------------------------------
(* The events *)

\* What the events that reached the frontend say of r.
SaidOf(r) == IF starter[r] # "returned" THEN "none"
             ELSE IF StatusIn(ui[r]) = "none" THEN "running" ELSE "ended"

Events == INSTANCE RunEvents WITH
    run     <- [r \in Run |-> SaidOf(r)],
    drained <- {r \in Run : drain[r] = "eof"},
    emitted <- [r \in Run |-> Len(ui[r]) - (IF StatusIn(ui[r]) = "none" THEN 0 ELSE 1)]

\* A run is heard of only when StartRun has returned, tells one status, and tells
\* nothing after it if its stream was drained: the goroutines of RunLifecycle
\* implement RunEvents.
EventsInOrder == Events!Spec

-----------------------------------------------------------------------------
(* Liveness, under FairSpec *)

\* Whatever state the process leaves its stream, locks and buffer in, its exit is
\* eventually recorded and shown, and every goroutine of the run returns, except an
\* Execute that still has a file dialog open, which holds up none of the others.
ExitIsSettled ==
    \A r \in Run :
        py[r] = "exited" ~> /\ history[r] # "none"
                            /\ StatusIn(ui[r]) = history[r]
                            /\ fwd[r] = "done" /\ sender[r] = "done"
                            /\ exec[r] \in {"none", "done", "broken", "rejected", "dialog"}

\* A cancelled run ends, even if the script never looks at is_cancelled().
CancelEnds == \A r \in Run : cancelRequested[r] ~> history[r] # "none"

\* A run that never connects does not stay active: the connect timeout ends it.
ConnectsOrEnds ==
    \A r \in Run : starter[r] = "returned" ~> phase[r] \in {"connected", "done"}
=============================================================================
