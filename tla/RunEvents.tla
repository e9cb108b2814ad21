----------------------------- MODULE RunEvents -----------------------------
(***************************************************************************)
(* What the frontend hears of the runs, with nobody behind the events: a   *)
(* run that was started tells things of itself and then, once, its status. *)
(* The status is the last it tells if its stream had been drained.         *)
(* RunLifecycle implements this module, RunsView is its other side.        *)
(***************************************************************************)
EXTENDS Naturals

CONSTANT Run

VARIABLES
    run,      \* none, running or ended: what the events say
    drained,  \* the runs whose stream has been read to its end
    emitted   \* events of a run so far, the status not counted

vars == <<run, drained, emitted>>

Init ==
    /\ run = [r \in Run |-> "none"]
    /\ drained = {}
    /\ emitted = [r \in Run |-> 0]

Start(r) ==
    /\ run[r] = "none" /\ run' = [run EXCEPT ![r] = "running"]
    /\ UNCHANGED <<drained, emitted>>

Drain(r) ==
    /\ run[r] = "running" /\ drained' = drained \cup {r}
    /\ UNCHANGED <<run, emitted>>

\* An output, an error or a warning of the script, or the report of a crash.
Emit(r) ==
    /\ run[r] = "running" \/ (run[r] = "ended" /\ r \notin drained)
    /\ emitted' = [emitted EXCEPT ![r] = @ + 1]
    /\ UNCHANGED <<run, drained>>

End(r) ==
    /\ run[r] = "running" /\ run' = [run EXCEPT ![r] = "ended"]
    /\ UNCHANGED <<drained, emitted>>

Next == \E r \in Run : Start(r) \/ Drain(r) \/ Emit(r) \/ End(r)

Spec == Init /\ [][Next]_vars
=============================================================================
