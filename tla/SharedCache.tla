---------------------------- MODULE SharedCache ----------------------------
(***************************************************************************)
(* The shared cache: Python objects in shared-memory segments, the registry *)
(* of CacheManager (internal/runner/cache.go) and the cache API of          *)
(* scripts/_lib/runner.py.                                                  *)
(*                                                                         *)
(* A segment is created and mapped by a script; Go only counts the runs     *)
(* that refer to it and unlinks its name with the last one.  Segments are   *)
(* named by their creator and its call number: names never repeat.  The     *)
(* non-Windows build is modelled, where a name stays until it is unlinked.  *)
(* Requests are answered in step (module ScriptRequests): a script whose    *)
(* request timed out makes no further one here.                             *)
(***************************************************************************)
EXTENDS Integers, Sequences

CONSTANTS
    Run,        \* run ids
    Key,        \* cache keys
    MaxCalls    \* bound: cache calls per run

ASSUME MaxCallsAssumption == MaxCalls \in Nat

VARIABLES
    blocks,     \* CacheManager.blocks
    shm,        \* the segments whose name exists in /dev/shm
    py,         \* state of a run's process
    call,       \* its current or last cache call
    calls,      \* its calls so far (bounded by MaxCalls)
    handle,     \* _cache_refs: the segment mapped under a key
    owned,      \* _cache_owned
    cancelEvent,\* _cancel_event
    wire,       \* requests on their way to Execute
    reply,      \* the answer on its way back
    exec,       \* pc of Execute
    waiter,     \* pc of waitForExit
    drain       \* how WaitStreamDone returned

registryVars == <<blocks, shm>>
scriptVars   == <<py, call, calls, handle, owned, cancelEvent>>
streamVars   == <<wire, reply, exec>>
waiterVars   == <<waiter, drain>>
vars == <<registryVars, scriptVars, streamVars, waiterVars>>

NoSegment == [run |-> "none", n |-> 0]
Segment   == [run : Run, n : 1..MaxCalls]
Block     == [shm : Segment, refs : [Run -> Nat]]     \* Refs, as the multiplicity of each run
NoBlock   == [shm |-> NoSegment, refs |-> [r \in Run |-> 0]]
Request   == [op : {"create", "lookup", "release"}, key : Key, shm : Segment \cup {NoSegment}]
NoRequest == [op |-> "none"]
Reply     == [ok : BOOLEAN, shm : Segment \cup {NoSegment}]
NoReply   == [ok |-> FALSE]

TypeOK ==
    /\ blocks \in [Key -> Block \cup {NoBlock}]
    /\ shm \subseteq Segment
    /\ py \in [Run -> {"running", "waiting", "leaving", "exited", "killed"}]
    /\ call \in [Run -> Request \cup {NoRequest}]
    /\ calls \in [Run -> 0..MaxCalls]
    /\ handle \in [Run -> [Key -> Segment \cup {NoSegment}]]
    /\ owned \in [Run -> SUBSET Key]
    /\ cancelEvent \in [Run -> BOOLEAN]
    /\ wire \in [Run -> Seq(Request)]
    /\ reply \in [Run -> Reply \cup {NoReply}]
    /\ exec \in [Run -> {"recv", "done"}]
    /\ waiter \in [Run -> {"wait", "cleanup", "done"}]
    /\ drain \in [Run -> {"none", "eof", "timeout"}]

\* Every run is connected and in its main function.
Init ==
    /\ blocks = [k \in Key |-> NoBlock]
    /\ shm = {}
    /\ py = [r \in Run |-> "running"]
    /\ call = [r \in Run |-> NoRequest]
    /\ calls = [r \in Run |-> 0]
    /\ handle = [r \in Run |-> [k \in Key |-> NoSegment]]
    /\ owned = [r \in Run |-> {}]
    /\ cancelEvent = [r \in Run |-> FALSE]
    /\ wire = [r \in Run |-> <<>>]
    /\ reply = [r \in Run |-> NoReply]
    /\ exec = [r \in Run |-> "recv"]
    /\ waiter = [r \in Run |-> "wait"]
    /\ drain = [r \in Run |-> "none"]

-----------------------------------------------------------------------------
(* CacheManager.  Each method is one critical section of its mutex. *)

\* Mutation: Register overwrites the block of a key in use.
KeyNeverTaken(k) == FALSE

\* Register: the key is in the registry.
KeyTaken(k) == blocks[k] # NoBlock

\* Mutation: LookupAndRef appends without looking for the run.
AddRefAgain(refs, r) == [refs EXCEPT ![r] = @ + 1]

\* LookupAndRef: a run is listed once.
AddRef(refs, r) == [refs EXCEPT ![r] = IF @ = 0 THEN 1 ELSE @]

\* Mutation: block.Refs[:i] without what follows it.
DropRefCut(refs, r) == IF refs[r] = 0 THEN refs ELSE [q \in Run |-> 0]

\* Release, CleanupRun: the first occurrence of the run goes.
DropRef(refs, r) == [refs EXCEPT ![r] = IF @ = 0 THEN 0 ELSE @ - 1]

\* Mutation: the block goes as soon as one run lets go of it.
AnyRefLess(refs) == \E r \in Run : refs[r] = 0

\* len(block.Refs) == 0
Unreferenced(refs) == \A r \in Run : refs[r] = 0

\* Mutation: the name is left to the operating system, as on Windows.
UnlinkShmNothing(names) == shm

\* unlinkShm for a set of names; a name that is gone is not an error.
UnlinkShm(names) == shm \ names

\* The blocks of the keys in K after r's reference is dropped from each.
Dropped(r, K) ==
    [k \in Key |->
        IF k \notin K \/ blocks[k] = NoBlock THEN blocks[k]
        ELSE LET refs == DropRef(blocks[k].refs, r)
             IN  IF Unreferenced(refs) THEN NoBlock ELSE [blocks[k] EXCEPT !.refs = refs]]

\* The segments of the blocks that go with r's reference.
Freed(r, K) == {blocks[k].shm : k \in {j \in K : blocks[j] # NoBlock /\ Dropped(r, K)[j] = NoBlock}}

DropRefs(r, K) ==
    /\ blocks' = Dropped(r, K)
    /\ shm' = UnlinkShm(Freed(r, K))

-----------------------------------------------------------------------------
(* The cache API of a script *)

Calling(r) == py[r] = "running" /\ calls[r] < MaxCalls

Send(r, op, k, s) ==
    /\ call' = [call EXCEPT ![r] = [op |-> op, key |-> k, shm |-> s]]
    /\ wire' = [wire EXCEPT ![r] = Append(@, [op |-> op, key |-> k, shm |-> s])]
    /\ calls' = [calls EXCEPT ![r] = @ + 1]

\* cache_set: the segment is created and filled before Go hears of it.
CacheSet(r, k) ==
    LET s == [run |-> r, n |-> calls[r] + 1]
    IN  /\ Calling(r) /\ ~cancelEvent[r]
        /\ shm' = shm \cup {s}
        /\ Send(r, "create", k, s)
        /\ py' = [py EXCEPT ![r] = "waiting"]
        /\ UNCHANGED <<blocks, handle, owned, cancelEvent, reply, exec, waiterVars>>

\* cache_get
CacheGet(r, k) ==
    /\ Calling(r) /\ ~cancelEvent[r]
    /\ Send(r, "lookup", k, NoSegment)
    /\ py' = [py EXCEPT ![r] = "waiting"]
    /\ UNCHANGED <<registryVars, handle, owned, cancelEvent, reply, exec, waiterVars>>

\* cache_release: closes and, for its own block, unlinks; then tells Go, unless
\* the run is cancelled and _send raises.
CacheRelease(r, k) ==
    /\ Calling(r)
    /\ shm' = IF k \in owned[r] THEN shm \ {handle[r][k]} ELSE shm
    /\ handle' = [handle EXCEPT ![r][k] = NoSegment]
    /\ owned' = [owned EXCEPT ![r] = @ \ {k}]
    /\ IF cancelEvent[r]
         THEN UNCHANGED <<call, wire>> /\ calls' = [calls EXCEPT ![r] = @ + 1]
         ELSE Send(r, "release", k, NoSegment)
    /\ UNCHANGED <<blocks, py, cancelEvent, reply, exec, waiterVars>>

\* The acknowledgement of cache_set: a rejected segment is unlinked again.
SetReturns(r) ==
    /\ py[r] = "waiting" /\ call[r].op = "create" /\ reply[r] # NoReply
    /\ IF reply[r].ok
         THEN /\ handle' = [handle EXCEPT ![r][call[r].key] = call[r].shm]
              /\ owned' = [owned EXCEPT ![r] = @ \cup {call[r].key}]
              /\ UNCHANGED shm
         ELSE /\ shm' = shm \ {call[r].shm}
              /\ UNCHANGED <<handle, owned>>
    /\ reply' = [reply EXCEPT ![r] = NoReply]
    /\ py' = [py EXCEPT ![r] = "running"]
    /\ UNCHANGED <<blocks, call, calls, cancelEvent, wire, exec, waiterVars>>

\* The answer of cache_get: opens the segment, which can be gone by now
\* (KeyError, as for a key that was not found).
GetReturns(r) ==
    /\ py[r] = "waiting" /\ call[r].op = "lookup" /\ reply[r] # NoReply
    /\ handle' = IF reply[r].ok /\ reply[r].shm \in shm
                   THEN [handle EXCEPT ![r][call[r].key] = reply[r].shm] ELSE handle
    /\ reply' = [reply EXCEPT ![r] = NoReply]
    /\ py' = [py EXCEPT ![r] = "running"]
    /\ UNCHANGED <<registryVars, call, calls, owned, cancelEvent, wire, exec, waiterVars>>

\* The request timed out: cache_set unlinks its segment, and the script ends.
GiveUp(r) ==
    /\ py[r] = "waiting"
    /\ shm' = IF call[r].op = "create" THEN shm \ {call[r].shm} ELSE shm
    /\ py' = [py EXCEPT ![r] = "leaving"]
    /\ UNCHANGED <<blocks, call, calls, handle, owned, cancelEvent, streamVars, waiterVars>>

Cancel(r) ==
    /\ py[r] \in {"running", "waiting"}
    /\ ~cancelEvent[r]
    /\ cancelEvent' = [cancelEvent EXCEPT ![r] = TRUE]
    /\ UNCHANGED <<registryVars, py, call, calls, handle, owned, streamVars, waiterVars>>

\* The process ends and its atexit handler, _cleanup_cache, runs.  Go is told nothing.
PyExit(r) ==
    /\ py[r] \in {"running", "leaving"}
    /\ shm' = shm \ {handle[r][k] : k \in owned[r]}
    /\ handle' = [handle EXCEPT ![r] = [k \in Key |-> NoSegment]]
    /\ owned' = [owned EXCEPT ![r] = {}]
    /\ py' = [py EXCEPT ![r] = "exited"]
    /\ UNCHANGED <<blocks, call, calls, cancelEvent, streamVars, waiterVars>>

\* The process is killed or calls os._exit: no handler runs, and what it had not
\* got through to Execute can be lost.
PyKilled(r) ==
    /\ py[r] \in {"running", "waiting", "leaving"}
    /\ handle' = [handle EXCEPT ![r] = [k \in Key |-> NoSegment]]
    /\ owned' = [owned EXCEPT ![r] = {}]
    /\ py' = [py EXCEPT ![r] = "killed"]
    /\ \E kept \in {wire[r], <<>>} : wire' = [wire EXCEPT ![r] = kept]
    /\ UNCHANGED <<registryVars, call, calls, cancelEvent, reply, exec, waiterVars>>

-----------------------------------------------------------------------------
(* Execute: handleCacheCreate, handleCacheLookup, handleCacheRelease.  They   *)
(* do not look at the phase of the run.                                      *)

Received(r, op) ==
    /\ exec[r] = "recv"
    /\ wire[r] # <<>> /\ Head(wire[r]).op = op
    /\ wire' = [wire EXCEPT ![r] = Tail(@)]

\* streamSend; a script that gave up or is gone does not read it any more.
Answer(r, ok, s) ==
    reply' = [reply EXCEPT ![r] = IF py[r] = "waiting" THEN [ok |-> ok, shm |-> s] ELSE @]

ExecCreate(r) ==
    /\ Received(r, "create")
    /\ LET m == Head(wire[r])
       IN  /\ blocks' = IF KeyTaken(m.key) THEN blocks
                        ELSE [blocks EXCEPT ![m.key] =
                                [shm |-> m.shm, refs |-> AddRef(NoBlock.refs, r)]]
           /\ Answer(r, ~KeyTaken(m.key), m.shm)
    /\ UNCHANGED <<shm, scriptVars, exec, waiterVars>>

ExecLookup(r) ==
    /\ Received(r, "lookup")
    /\ LET k == Head(wire[r]).key
       IN  /\ blocks' = IF blocks[k] = NoBlock THEN blocks
                        ELSE [blocks EXCEPT ![k].refs = AddRef(@, r)]
           /\ Answer(r, blocks[k] # NoBlock, blocks[k].shm)
    /\ UNCHANGED <<shm, scriptVars, exec, waiterVars>>

ExecRelease(r) ==
    /\ Received(r, "release")
    /\ DropRefs(r, {Head(wire[r]).key})
    /\ UNCHANGED <<scriptVars, reply, exec, waiterVars>>

ExecEnd(r) ==
    /\ exec[r] = "recv"
    /\ wire[r] = <<>> /\ py[r] \in {"exited", "killed"}
    /\ exec' = [exec EXCEPT ![r] = "done"]
    /\ UNCHANGED <<registryVars, scriptVars, wire, reply, waiterVars>>

-----------------------------------------------------------------------------
(* waitForExit *)

\* WaitStreamDone: streamDone is closed, or 5 s have passed.
WaiterDrain(r) ==
    /\ waiter[r] = "wait"
    /\ py[r] \in {"exited", "killed"}
    /\ \E d \in {"timeout"} \cup (IF exec[r] = "done" THEN {"eof"} ELSE {}) :
          drain' = [drain EXCEPT ![r] = d]
    /\ waiter' = [waiter EXCEPT ![r] = "cleanup"]
    /\ UNCHANGED <<registryVars, scriptVars, streamVars>>

\* CleanupRun: every block is visited.
CleanupRun(r) ==
    /\ waiter[r] = "cleanup"
    /\ DropRefs(r, Key)
    /\ waiter' = [waiter EXCEPT ![r] = "done"]
    /\ UNCHANGED <<scriptVars, streamVars, drain>>

Ended(r) == waiter[r] = "done" /\ exec[r] = "done"

AllEnded == (\A r \in Run : Ended(r)) /\ UNCHANGED vars

Next ==
    \/ \E r \in Run :
          \/ \E k \in Key : CacheSet(r, k) \/ CacheGet(r, k) \/ CacheRelease(r, k)
          \/ SetReturns(r) \/ GetReturns(r) \/ GiveUp(r) \/ Cancel(r)
          \/ PyExit(r) \/ PyKilled(r)
          \/ ExecCreate(r) \/ ExecLookup(r) \/ ExecRelease(r) \/ ExecEnd(r)
          \/ WaiterDrain(r) \/ CleanupRun(r)
    \/ AllEnded

Spec == Init /\ [][Next]_vars

-----------------------------------------------------------------------------
(* Properties *)

\* An object a script has mapped stays registered, under the key it used and with
\* a reference of that run, until the script lets go of it: no other run's
\* release, exit, crash or cache_set takes it away.
HandlePinned ==
    \A r \in Run, k \in Key : handle[r][k] # NoSegment =>
        blocks[k].shm = handle[r][k] /\ blocks[k].refs[r] > 0

\* Nobody unlinks the segment of a creator that is alive and has not released it:
\* other runs can still open what they look up.
OwnerKeepsSegment == \A r \in Run : \A k \in owned[r] : handle[r][k] \in shm

\* CleanupRun after a drained stream is final: it leaves no reference of the run,
\* whatever it looked up how often, and none can be added any more.
DrainedRunHoldsNothing ==
    \A r \in Run : waiter[r] = "done" /\ drain[r] = "eof" =>
        \A k \in Key : blocks[k].refs[r] = 0

\* When every run has ended after a drained stream, no segment is left but one
\* whose creator was killed inside cache_set.
NothingLeaks ==
    (\A r \in Run : Ended(r) /\ drain[r] = "eof") =>
        \A s \in shm : py[s.run] = "killed" /\ call[s.run].op = "create" /\ call[s.run].shm = s

-----------------------------------------------------------------------------
(* The promise *)

Objects == INSTANCE SharedObjects WITH
    Object <- Segment,
    Maker  <- [s \in Segment |-> s.run],
    None   <- NoSegment,
    named  <- shm,
    object <- [k \in Key |-> blocks[k].shm],
    users  <- [k \in Key |-> {r \in Run : blocks[k].refs[r] > 0}],
    mapped <- handle,
    over   <- {r \in Run : waiter[r] = "done" /\ drain[r] = "eof"}

\* The registry with its counts, the requests on a stream that is cut off or read too
\* late, and the cleanup of runs implement SharedObjects: an object is taken from nobody
\* who has it mapped, its name only by its maker or with its last user, and a run whose
\* stream was drained is over for good.
SharesObjects == Objects!Spec
=============================================================================
