--------------------------- MODULE ScriptRequests ---------------------------
(***************************************************************************)
(* Requests a script makes of Go while it runs: cache_set, cache_get,      *)
(* dialog_open, dialog_save, db_execute and db_query of                    *)
(* scripts/_lib/runner.py, and the handlers of                             *)
(* internal/runner/grpc_server.go that answer them.                        *)
(*                                                                         *)
(* Requests and answers carry no correlation id: the next message of the   *)
(* response queue answers the request that _request_lock lets through.     *)
(* One run is modelled (streams share nothing), with the threads of its    *)
(* script, the reader thread, and Execute, which handles one message at a   *)
(* time.  What a request does to the cache is module SharedCache.           *)
(***************************************************************************)
EXTENDS Naturals, Sequences

CONSTANTS
    Thread,       \* threads of the script
    Kind,         \* kinds of request; an answer is checked for its kind only
    Dialog,       \* the kind a user has to answer
    MaxCalls,     \* bound: requests made by all the threads
    MaxTimeouts   \* bound: requests given up while their answer can still come

ASSUME DialogAssumption      == Dialog \in Kind
ASSUME MaxCallsAssumption    == MaxCalls \in Nat
ASSUME MaxTimeoutsAssumption == MaxTimeouts \in Nat

VARIABLES
    thread,       \* pc of a request call
    call,         \* the thread's current or last request
    outcome,      \* how the thread's last request ended
    calls,        \* requests made (bounded by MaxCalls)
    timeouts,     \* requests given up (bounded by MaxTimeouts)
    requests,     \* _msg_iter and the stream to Go
    exec,         \* pc of Execute
    serving,      \* the request Execute handles
    down,         \* the stream from Go
    queue,        \* _response_queue
    reader,       \* the reader thread
    cancelSent,   \* SendCancel has been called
    cancelEvent,  \* _cancel_event
    finished      \* _finished: complete() or fail() closed the iterator

callVars   == <<thread, call, outcome, calls, timeouts>>
serverVars == <<exec, serving, down>>
vars == <<callVars, requests, serverVars, queue, reader, cancelSent, cancelEvent, finished>>

Request == [id : 0..MaxCalls, kind : Kind]
Nothing == [id |-> 0, kind |-> Dialog]
Cancel  == [id |-> 0, kind |-> "cancel"]      \* CancelRequest
End     == [id |-> 0, kind |-> "end"]         \* the sentinel None

TypeOK ==
    /\ thread \in [Thread -> {"idle", "lock", "put", "waiting"}]
    /\ call \in [Thread -> Request]
    /\ outcome \in [Thread -> [how : {"none", "answer", "mismatch", "timeout", "closed", "cancelled"},
                               got : 0..MaxCalls]]
    /\ calls \in 0..MaxCalls
    /\ timeouts \in 0..MaxTimeouts
    /\ requests \in Seq(Request)
    /\ exec \in {"recv", "serving", "ended"}
    /\ serving \in Request
    /\ down \in Seq(Request \cup {Cancel})
    /\ queue \in Seq(Request \cup {End})
    /\ reader \in {"reading", "ended"}
    /\ cancelSent \in BOOLEAN
    /\ cancelEvent \in BOOLEAN
    /\ finished \in BOOLEAN

\* connect() has returned: the stream is open and the reader runs.
Init ==
    /\ thread = [t \in Thread |-> "idle"]
    /\ call = [t \in Thread |-> Nothing]
    /\ outcome = [t \in Thread |-> [how |-> "none", got |-> 0]]
    /\ calls = 0
    /\ timeouts = 0
    /\ requests = <<>>
    /\ exec = "recv"
    /\ serving = Nothing
    /\ down = <<>>
    /\ queue = <<>>
    /\ reader = "reading"
    /\ cancelSent = FALSE
    /\ cancelEvent = FALSE
    /\ finished = FALSE

-----------------------------------------------------------------------------
(* The calling threads *)

Call(t, k) ==
    /\ thread[t] = "idle"
    /\ calls < MaxCalls
    /\ calls' = calls + 1
    /\ call' = [call EXCEPT ![t] = [id |-> calls + 1, kind |-> k]]
    /\ thread' = [thread EXCEPT ![t] = "lock"]
    /\ UNCHANGED <<outcome, timeouts, requests, serverVars, queue, reader, cancelSent,
                   cancelEvent, finished>>

\* Mutation: requests are not serialised.
RequestLockIgnored == TRUE

\* _request_lock is held from the send until the answer.
RequestLockFree == \A t \in Thread : thread[t] \notin {"put", "waiting"}

Return(t, how, got) ==
    /\ thread' = [thread EXCEPT ![t] = "idle"]
    /\ outcome' = [outcome EXCEPT ![t] = [how |-> how, got |-> got]]

\* with _request_lock: _send raises once the run is cancelled ...
SendCancelled(t) ==
    /\ thread[t] = "lock"
    /\ RequestLockFree
    /\ cancelEvent /\ ~finished
    /\ Return(t, "cancelled", 0)
    /\ UNCHANGED <<call, calls, timeouts, requests, serverVars, queue, reader, cancelSent,
                   cancelEvent, finished>>

\* ... and sends nothing, silently, once the script has finished.
SendChecked(t) ==
    /\ thread[t] = "lock"
    /\ RequestLockFree
    /\ finished \/ ~cancelEvent
    /\ thread' = [thread EXCEPT ![t] = IF finished THEN "waiting" ELSE "put"]
    /\ UNCHANGED <<call, outcome, calls, timeouts, requests, serverVars, queue, reader,
                   cancelSent, cancelEvent, finished>>

\* _msg_iter.put; another thread can have closed the iterator since the check, or
\* the stream can have broken, and gRPC reads no further after either.
Put(t) ==
    /\ thread[t] = "put"
    /\ thread' = [thread EXCEPT ![t] = "waiting"]
    /\ \/ exec # "ended" /\ requests' = Append(requests, call[t])
       \/ (finished \/ exec = "ended") /\ UNCHANGED requests
    /\ UNCHANGED <<call, outcome, calls, timeouts, serverVars, queue, reader, cancelSent,
                   cancelEvent, finished>>

\* _recv_response, and the caller's HasField check of the kind.
Recv(t) ==
    /\ thread[t] = "waiting"
    /\ queue # <<>>
    /\ queue' = Tail(queue)
    /\ LET m == Head(queue)
       IN  Return(t, CASE m = End -> "closed"
                       [] m # End /\ m.kind = call[t].kind -> "answer"
                       [] OTHER -> "mismatch", m.id)
    /\ UNCHANGED <<call, calls, timeouts, requests, serverVars, reader, cancelSent,
                   cancelEvent, finished>>

\* Mutation: _response_queue.get waits for ever.
NoResponseTimeout(t) == FALSE

\* _response_queue.get found nothing for _RESPONSE_TIMEOUT.  Nothing is bounded
\* once the reader has ended: no answer can come.
ResponseTimeout(t) == queue = <<>> /\ (reader = "ended" \/ timeouts < MaxTimeouts)

GiveUp(t) ==
    /\ thread[t] = "waiting"
    /\ ResponseTimeout(t)
    /\ timeouts' = IF reader = "ended" THEN timeouts ELSE timeouts + 1
    /\ Return(t, "timeout", 0)
    /\ UNCHANGED <<call, calls, requests, serverVars, queue, reader, cancelSent, cancelEvent,
                   finished>>

\* complete() or fail(), from any thread that is not in a request: _finish.
Finish ==
    /\ ~finished
    /\ \E t \in Thread : thread[t] = "idle"
    /\ finished' = TRUE
    /\ UNCHANGED <<callVars, requests, serverVars, queue, reader, cancelSent, cancelEvent>>

-----------------------------------------------------------------------------
(* Execute, SendCancel and the reader thread *)

ExecTake ==
    /\ exec = "recv"
    /\ requests # <<>>
    /\ serving' = Head(requests)
    /\ requests' = Tail(requests)
    /\ exec' = "serving"
    /\ UNCHANGED <<callVars, down, queue, reader, cancelSent, cancelEvent, finished>>

\* Mutation: the error path of a handler answers and falls through to the second answer.
ExecAnswerTwice ==
    /\ exec = "serving"
    /\ down' = down \o <<serving, serving>>
    /\ exec' = "recv"
    /\ UNCHANGED <<callVars, requests, serving, queue, reader, cancelSent, cancelEvent, finished>>

\* The handler returns and streamSend sends the answer: at once for a cache
\* request, when the database answers for SQL, when the user does for a dialog.
ExecAnswer ==
    /\ exec = "serving"
    /\ down' = Append(down, serving)
    /\ exec' = "recv"
    /\ UNCHANGED <<callVars, requests, serving, queue, reader, cancelSent, cancelEvent, finished>>

ExecEnd ==
    /\ exec = "recv"
    /\ finished
    /\ requests = <<>>
    /\ exec' = "ended"
    /\ UNCHANGED <<callVars, requests, serving, down, queue, reader, cancelSent, cancelEvent,
                   finished>>

\* Execute returns with the script alive: the answer could not be sent, or Recv failed,
\* as it does for a message above gRPC's 4 MB.  What was not read is lost.
StreamBreaks ==
    /\ exec # "ended"
    /\ exec' = "ended"
    /\ requests' = <<>>
    /\ UNCHANGED <<callVars, serving, down, queue, reader, cancelSent, cancelEvent, finished>>

\* SendCancel, from the goroutine of CancelRun: it does not wait for the handler.
SendCancel ==
    /\ ~cancelSent
    /\ exec # "ended"
    /\ cancelSent' = TRUE
    /\ down' = Append(down, Cancel)
    /\ UNCHANGED <<callVars, requests, exec, serving, queue, reader, cancelEvent, finished>>

\* Mutation: the reader only runs inside a request call.
ReaderLazy == reader = "reading" /\ \E t \in Thread : thread[t] = "waiting"

\* The reader thread, started by connect().
ReaderRuns == reader = "reading"

\* What the reader passes on to _response_queue.
IsAnswer(m) == m # Cancel

ReaderTake ==
    /\ ReaderRuns
    /\ down # <<>>
    /\ down' = Tail(down)
    /\ cancelEvent' = (cancelEvent \/ Head(down) = Cancel)
    /\ queue' = IF IsAnswer(Head(down)) THEN Append(queue, Head(down)) ELSE queue
    /\ UNCHANGED <<callVars, requests, exec, serving, reader, cancelSent, finished>>

ReaderEnd ==
    /\ ReaderRuns
    /\ exec = "ended" /\ down = <<>>
    /\ reader' = "ended"
    /\ queue' = Append(queue, End)
    /\ UNCHANGED <<callVars, requests, serverVars, cancelSent, cancelEvent, finished>>

-----------------------------------------------------------------------------
Script(t) == SendCancelled(t) \/ SendChecked(t) \/ Put(t) \/ Recv(t) \/ GiveUp(t)
Reader    == ReaderTake \/ ReaderEnd

\* The script is over.
Terminated ==
    /\ reader = "ended" /\ calls = MaxCalls
    /\ \A t \in Thread : thread[t] = "idle"
    /\ UNCHANGED vars

Next ==
    \/ \E t \in Thread : Script(t) \/ \E k \in Kind : Call(t, k)
    \/ Finish \/ ExecTake \/ ExecAnswer \/ ExecEnd \/ StreamBreaks \/ SendCancel
    \/ Reader \/ Terminated

Spec == Init /\ [][Next]_vars

\* Threads run, timeouts fire, the database answers.  A user need not answer a
\* dialog, nobody has to call, cancel or finish, and the stream need not break.
FairSpec ==
    /\ Spec
    /\ \A t \in Thread : WF_vars(Script(t))
    /\ WF_vars(Reader)
    /\ WF_vars(ExecTake \/ ExecEnd \/ (serving.kind # Dialog /\ ExecAnswer))

-----------------------------------------------------------------------------
(* Properties *)

\* Each request gets the answer to itself, although answers carry no id, when
\* several threads call, the run is cancelled and the stream ends meanwhile: the
\* lock and the order of the stream are enough (runner.py _request_lock), as long
\* as no request was given up while its answer could still come.
AnswersMatch ==
    timeouts = 0 => \A t \in Thread :
        thread[t] = "idle" /\ outcome[t].how \in {"answer", "mismatch"}
          => outcome[t].how = "answer" /\ outcome[t].got = call[t].id

\* Between two requests nothing is left of the first: no answer waits in the
\* queue, on the stream or in Execute for the next caller, also when the script has
\* finished or the stream broke, after which the queue has the sentinel at most.
\* Again until the first timeout.
InSync ==
    timeouts = 0 /\ (\A t \in Thread : thread[t] \notin {"put", "waiting"}) =>
        /\ requests = <<>> /\ exec # "serving"
        /\ queue = <<>> \/ (queue = <<End>> /\ reader = "ended")
        /\ \A i \in DOMAIN down : down[i] = Cancel

\* A request call returns, whatever Execute, the user and the stream do: no
\* thread keeps _request_lock for ever.
CallsReturn == \A t \in Thread : thread[t] = "lock" ~> thread[t] = "idle"

\* A CancelRequest sets _cancel_event also while a thread waits for an answer, a
\* dialog is open or the script makes no request at all.
CancelArrives == cancelSent ~> cancelEvent
=============================================================================
