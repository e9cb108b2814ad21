------------------------------- MODULE LogRing -------------------------------
(***************************************************************************)
(* The RingBuffer of log entries (internal/logging/ring.go), which every    *)
(* goroutine pushes to through multiHandler, the LogService that streams it *)
(* (internal/services/log_service.go) and the LogViewer that fetches it and *)
(* follows the stream (frontend/src/components/LogViewer.tsx).              *)
(*                                                                         *)
(* The callback of Push runs after the lock is released.  Entries are       *)
(* numbered in the order in which they enter the buffer.                    *)
(***************************************************************************)
EXTENDS Integers, Sequences

CONSTANTS
    Cap,          \* the capacity; main.go takes 1000, as the LogViewer does
    MaxPushed,    \* bound: entries pushed
    Pusher        \* goroutines that log

ASSUME CapAssumption == Cap \in Nat \ {0} /\ MaxPushed \in Nat

VARIABLES
    entries, head, count,  \* the RingBuffer, 0 where nothing was pushed yet
    pushed,       \* entries so far
    emitting,     \* the entry whose callback a goroutine has still to run, or 0
    events,       \* log:entry events not yet handled by the window
    viewer,       \* the LogViewer: closed, open or listening
    fetch,        \* its GetLogs: none, asked, read or done
    response,     \* the entries of the response
    logs,         \* the entries it shows
    disturbed     \* since the fetch, or while it was made, events were on their way, were
                  \* lost, or were emitted in another order (history variable)

ringVars   == <<entries, head, count, pushed>>
viewerVars == <<viewer, fetch, response, logs>>
vars       == <<ringVars, emitting, events, viewerVars, disturbed>>

Slot  == 0..(Cap - 1)
Entry == 1..MaxPushed

\* Mutation: the buffer is read from the head on, as if it were always full.
EntriesFromHead == [i \in 1..count |-> entries[(head + i - 1) % Cap]]

\* RingBuffer.Entries.
Entries ==
    LET start == (head - count + Cap) % Cap
    IN  [i \in 1..count |-> entries[(start + i - 1) % Cap]]

TypeOK ==
    /\ entries \in [Slot -> Nat] /\ head \in Slot /\ count \in 0..Cap
    /\ count < Cap => head = count
    /\ pushed \in 0..MaxPushed /\ count <= pushed
    /\ emitting \in [Pusher -> 0..pushed]
    /\ events \in Seq(1..pushed)
    /\ viewer \in {"closed", "open", "listening"}
    /\ fetch \in {"none", "asked", "read", "done"}
    /\ response \in Seq(1..pushed) /\ logs \in Seq(1..pushed)
    /\ Len(response) <= Cap /\ Len(logs) <= Cap
    /\ disturbed \in BOOLEAN

Init ==
    /\ entries = [s \in Slot |-> 0] /\ head = 0 /\ count = 0 /\ pushed = 0
    /\ emitting = [p \in Pusher |-> 0] /\ events = <<>>
    /\ viewer = "closed" /\ fetch = "none" /\ response = <<>> /\ logs = <<>>
    /\ disturbed = FALSE

Pending == events # <<>> \/ \E p \in Pusher : emitting[p] # 0

Counted == IF count < Cap THEN count + 1 ELSE count

\* Push up to the release of the lock.
Push(p) ==
    /\ emitting[p] = 0 /\ pushed < MaxPushed
    /\ pushed' = pushed + 1
    /\ entries' = [entries EXCEPT ![head] = pushed + 1]
    /\ head' = (head + 1) % Cap
    /\ count' = Counted
    /\ emitting' = [emitting EXCEPT ![p] = pushed + 1]
    /\ UNCHANGED <<events, viewerVars, disturbed>>

\* The callback that LogService.SetApp installs.
OnPush(p) ==
    /\ emitting[p] # 0
    /\ events' = Append(events, emitting[p])
    /\ emitting' = [emitting EXCEPT ![p] = 0]
    /\ disturbed' = (disturbed \/ \E q \in Pusher : emitting[q] \in 1..(emitting[p] - 1))
    /\ UNCHANGED <<ringVars, viewerVars>>

-----------------------------------------------------------------------------
(* The LogViewer: one effect fetches, another subscribes *)

Open ==
    /\ viewer = "closed" /\ viewer' = "open" /\ fetch' = "asked" /\ logs' = <<>>
    /\ UNCHANGED <<ringVars, emitting, events, response, disturbed>>

Subscribe ==
    /\ viewer = "open" /\ viewer' = "listening"
    /\ UNCHANGED <<ringVars, emitting, events, fetch, response, logs, disturbed>>

Close ==
    /\ viewer # "closed" /\ viewer' = "closed" /\ fetch' = "none" /\ response' = <<>>
    /\ UNCHANGED <<ringVars, emitting, events, logs, disturbed>>

GetLogs ==
    /\ fetch = "asked" /\ fetch' = "read"
    /\ response' = Entries /\ disturbed' = Pending
    /\ UNCHANGED <<ringVars, emitting, events, viewer, logs>>

\* The response takes the place of what has come since the viewer was opened.
Respond ==
    /\ fetch = "read" /\ fetch' = "done"
    /\ logs' = response /\ response' = <<>>
    /\ UNCHANGED <<ringVars, emitting, events, viewer, disturbed>>

\* Mutation: the viewer keeps fewer entries than the buffer.
AppendedShort(e) ==
    Append(IF Len(logs) < Cap THEN logs ELSE SubSeq(logs, Len(logs) - Cap + 3, Len(logs)), e)

\* The last Cap - 1 entries and the new one.
Appended(e) ==
    Append(IF Len(logs) < Cap THEN logs ELSE SubSeq(logs, Len(logs) - Cap + 2, Len(logs)), e)

Deliver ==
    /\ events # <<>> /\ events' = Tail(events)
    /\ logs' = IF viewer = "listening" THEN Appended(Head(events)) ELSE logs
    /\ disturbed' = (disturbed \/ fetch = "read" \/ viewer # "listening")
    /\ UNCHANGED <<ringVars, emitting, viewer, fetch, response>>

-----------------------------------------------------------------------------
Settled == pushed = MaxPushed /\ ~Pending /\ UNCHANGED vars

Next ==
    \/ \E p \in Pusher : Push(p) \/ OnPush(p)
    \/ Open \/ Subscribe \/ Close \/ GetLogs \/ Respond \/ Deliver
    \/ Settled

Spec == Init /\ [][Next]_vars

-----------------------------------------------------------------------------
(* Properties *)

\* The buffer is a log of the last Cap entries: head and count, kept modulo the
\* capacity, never lose, repeat or reorder an entry (Push, Entries).
Log == INSTANCE BoundedLog WITH log <- Entries

RingIsLog == Log!Spec

\* The viewer at rest shows what is in the buffer, if nothing was on its way when it
\* was fetched and every later event came in order and was handled after the response
\* (GetLogs, the two effects of LogViewer): both keep the same number of entries.
ViewerFollows ==
    (viewer = "listening" /\ fetch = "done" /\ ~Pending /\ ~disturbed) => logs = Entries
=============================================================================
