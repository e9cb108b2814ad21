------------------------------ MODULE RunsView ------------------------------
(***************************************************************************)
(* What the page makes of the runs: useScripts (frontend/src/hooks/         *)
(* useScripts.ts), which follows runs by their events and learns of its own *)
(* runs by the responses of StartRun and StartParallelRuns.                 *)
(*                                                                         *)
(* Events come in the order of RunEvents, which RunLifecycle implements:    *)
(* one terminal status, the last unless the stream was not drained.  A      *)
(* response comes when it comes.  A batch of one run is a StartRun, a       *)
(* larger one a StartParallelRuns with a group.  The hook is mounted while  *)
(* its tab is open, and its state goes with it.                             *)
(***************************************************************************)
EXTENDS Integers, Sequences, FiniteSets

CONSTANTS
    Run,
    Batches,      \* the sets of runs that are started by one call
    MaxOutputs,   \* bound: outputs of a run
    MaxMounts     \* bound: how often the tab is opened

ASSUME ViewAssumption ==
    /\ Batches \subseteq SUBSET Run /\ {} \notin Batches
    /\ \A b, d \in Batches : b = d \/ b \cap d = {}
    /\ MaxOutputs \in Nat /\ MaxMounts \in Nat

VARIABLES
    call,         \* each batch: none, called, answered, failed or received
    caller,       \* the mount that called
    run,          \* the runs of the backend: none, running or ended
    emitted,      \* outputs of a run so far
    events,       \* run events not yet handled by the window
    mount,        \* the number of the mount, 0 while the tab is closed
    mounts,       \* mounts so far (bounded by MaxMounts)
    listening,    \* it has subscribed
    runs, groups, \* the state of the hook
    effect,       \* the effect that drops groups is due
    missed        \* an event came and nobody listened, or the state went (history variable)

backendVars == <<call, caller, run, emitted>>
pageVars    == <<mount, mounts, listening, runs, groups, effect, missed>>
vars        == <<backendVars, events, pageVars>>

Group == {b \in Batches : Cardinality(b) > 1}

\* The entry of a run: absent, or its status and the number of its outputs.
Absent == [status |-> "absent", output |-> 0]
Fresh  == [status |-> "running", output |-> 0]
NoRuns == [r \in Run |-> Absent]

TypeOK ==
    /\ call \in [Batches -> {"none", "called", "answered", "failed", "received"}]
    /\ caller \in [Batches -> 0..MaxMounts]
    /\ run \in [Run -> {"none", "running", "ended"}]
    /\ emitted \in [Run -> 0..MaxOutputs]
    /\ events \in Seq([run : Run, type : {"run:output", "run:status"}])
    /\ mount \in 0..mounts /\ mounts \in 0..MaxMounts
    /\ listening \in BOOLEAN /\ (listening => mount # 0)
    /\ runs \in [Run -> [status : {"absent", "running", "ended"}, output : 0..MaxOutputs]]
    /\ \A r \in Run : runs[r].output <= emitted[r]
    /\ groups \in SUBSET Group /\ effect \in BOOLEAN /\ missed \in BOOLEAN

Init ==
    /\ call = [b \in Batches |-> "none"] /\ caller = [b \in Batches |-> 0]
    /\ run = [r \in Run |-> "none"] /\ emitted = [r \in Run |-> 0]
    /\ events = <<>>
    /\ mount = 0 /\ mounts = 0 /\ listening = FALSE
    /\ runs = NoRuns /\ groups = {} /\ effect = FALSE /\ missed = FALSE

-----------------------------------------------------------------------------
(* The backend *)

StartWorker(b, r) ==
    /\ call[b] = "called" /\ r \in b /\ run[r] = "none"
    /\ run' = [run EXCEPT ![r] = "running"]
    /\ UNCHANGED <<call, caller, emitted, events, pageVars>>

\* The call returns when all are started, or fails at one that cannot be started; the
\* runs started before it are then cancelled and end by themselves.
Return(b) ==
    /\ call[b] = "called"
    /\ \/ (\A r \in b : run[r] # "none") /\ call' = [call EXCEPT ![b] = "answered"]
       \/ (\E r \in b : run[r] = "none") /\ call' = [call EXCEPT ![b] = "failed"]
    /\ UNCHANGED <<caller, run, emitted, events, pageVars>>

\* Execute may still forward when waitForExit has given up draining and has sent the
\* status.
Output(r) ==
    /\ run[r] # "none" /\ emitted[r] < MaxOutputs
    /\ emitted' = [emitted EXCEPT ![r] = @ + 1]
    /\ events' = Append(events, [run |-> r, type |-> "run:output"])
    /\ UNCHANGED <<call, caller, run, pageVars>>

End(r) ==
    /\ run[r] = "running" /\ run' = [run EXCEPT ![r] = "ended"]
    /\ events' = Append(events, [run |-> r, type |-> "run:status"])
    /\ UNCHANGED <<call, caller, emitted, pageVars>>

-----------------------------------------------------------------------------
(* The page *)

Mount ==
    /\ mount = 0 /\ mounts < MaxMounts
    /\ mount' = mounts + 1 /\ mounts' = mounts + 1
    /\ UNCHANGED <<backendVars, events, listening, runs, groups, effect, missed>>

Subscribe ==
    /\ mount # 0 /\ ~listening /\ listening' = TRUE
    /\ UNCHANGED <<backendVars, events, mount, mounts, runs, groups, effect, missed>>

Unmount ==
    /\ mount # 0 /\ mount' = 0 /\ listening' = FALSE
    /\ runs' = NoRuns /\ groups' = {} /\ effect' = FALSE
    /\ missed' = (missed \/ \E b \in Batches : call[b] # "none")
    /\ UNCHANGED <<backendVars, events, mounts>>

\* startRun, startParallelRuns.
Call(b) ==
    /\ mount # 0 /\ call[b] = "none"
    /\ call' = [call EXCEPT ![b] = "called"] /\ caller' = [caller EXCEPT ![b] = mount]
    /\ UNCHANGED <<run, emitted, events, pageVars>>

\* Mutation: the response sets the entries of its runs, whatever they hold.
RespondedAnyway(b) == [r \in Run |-> IF r \in b THEN Fresh ELSE runs[r]]

\* An entry that events have already made is kept.
Responded(b) == [r \in Run |-> IF r \in b /\ runs[r] = Absent THEN Fresh ELSE runs[r]]

\* The response is handled; what an unmounted hook sets changes nothing.
Respond(b) ==
    /\ call[b] = "answered" /\ call' = [call EXCEPT ![b] = "received"]
    /\ IF mount = caller[b]
       THEN /\ runs' = Responded(b) /\ effect' = TRUE
            /\ groups' = IF b \in Group THEN groups \cup {b} ELSE groups
       ELSE UNCHANGED <<runs, groups, effect>>
    /\ UNCHANGED <<caller, run, emitted, events, mount, mounts, listening, missed>>

\* onRunEvent: the entry is made if it is not there; run:progress and run:error are
\* like run:output.
Updated(e) ==
    LET old == IF runs[e.run] = Absent THEN Fresh ELSE runs[e.run]
    IN  IF e.type = "run:output" THEN [old EXCEPT !.output = @ + 1]
        ELSE [old EXCEPT !.status = "ended"]

Deliver ==
    /\ events # <<>> /\ events' = Tail(events)
    /\ IF listening
       THEN LET e == Head(events) IN
            runs' = [runs EXCEPT ![e.run] = Updated(e)] /\ effect' = TRUE /\ UNCHANGED missed
       ELSE missed' = TRUE /\ UNCHANGED <<runs, effect>>
    /\ UNCHANGED <<backendVars, mount, mounts, listening, groups>>

\* Mutation: a group goes with the first of its runs that ends.
OverAtFirst(g) == \E r \in g : runs[r].status = "ended"

\* Every run of the group is known and has ended.
Over(g) == \A r \in g : runs[r].status = "ended"

DropGroups ==
    /\ effect /\ effect' = FALSE
    /\ groups' = {g \in groups : ~Over(g)}
    /\ UNCHANGED <<backendVars, events, mount, mounts, listening, runs, missed>>

-----------------------------------------------------------------------------
Quiet == events = <<>> /\ ~effect /\ \A b \in Batches : call[b] # "answered"

Settled ==
    /\ Quiet /\ mounts = MaxMounts /\ mount = 0 /\ UNCHANGED vars

Next ==
    \/ \E b \in Batches : Call(b) \/ Return(b) \/ Respond(b) \/ \E r \in b : StartWorker(b, r)
    \/ \E r \in Run : Output(r) \/ End(r)
    \/ Mount \/ Subscribe \/ Unmount \/ Deliver \/ DropGroups
    \/ Settled

Spec == Init /\ [][Next]_vars

-----------------------------------------------------------------------------
(* Properties *)

\* The page at rest shows every run as it is, with all its output, and a group exactly
\* as long as one of its runs is running, in whatever order events and responses came
\* ("fast scripts can emit events before StartRun returns"), also when all runs of a
\* group end before the response that names it.  What came before the subscription or
\* while the tab was closed is missed.
PageShowsRuns ==
    (Quiet /\ listening /\ ~missed) =>
        /\ \A b \in Batches : call[b] = "received" => \A r \in b :
              runs[r] = [status |-> run[r], output |-> emitted[r]]
        /\ groups = {g \in Group : call[g] = "received" /\ \E r \in g : run[r] = "running"}
=============================================================================
