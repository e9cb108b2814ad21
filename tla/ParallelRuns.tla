---------------------------- MODULE ParallelRuns ----------------------------
(***************************************************************************)
(* Batches of runs: StartParallelRuns, CancelGroup and the group registry   *)
(* of RunnerService (internal/services/runner_service.go).                  *)
(*                                                                         *)
(* A worker is active from Manager.StartRun on; waitForExit sends its       *)
(* terminal status ("told") before it leaves activeRuns ("ended"), and its  *)
(* forwarder takes it out of the group when it meets that status.  All of   *)
(* this runs while StartParallelRuns still starts the other workers.        *)
(***************************************************************************)
EXTENDS Naturals

CONSTANTS
    Group,        \* group ids: one call of StartParallelRuns each
    WorkerCount,  \* the count each call asks for
    MaxWorkers    \* ParallelConfig.MaxWorkers

ASSUME CountAssumption == WorkerCount \in [Group -> Nat] /\ MaxWorkers \in Nat

VARIABLES
    starter,    \* pc of StartParallelRuns
    started,    \* len(runIDs)
    undone,     \* workers the rollback has visited
    run,        \* a worker's run, as Manager sees it
    cancelled,  \* CancelRun accepted for the worker
    cleared,    \* the forwarder has met the worker's terminal status
    groups,     \* the keys of RunnerService.groups
    runGroups,  \* the keys of runGroups (a run id determines its group)
    cancelAt    \* position of CancelGroup in g.RunIDs; 0 before the call

vars == <<starter, started, undone, run, cancelled, cleared, groups, runGroups, cancelAt>>

\* The clamps on workerCount.
Clamp(n) == LET m == IF n < 1 THEN 1 ELSE n
            IN  IF m > MaxWorkers THEN MaxWorkers ELSE m

Size(g) == Clamp(WorkerCount[g])
Worker  == UNION {{g} \X (1..Size(g)) : g \in Group}

TypeOK ==
    /\ starter \in [Group -> {"idle", "loop", "rollback", "returned", "failed"}]
    /\ started \in [Group -> Nat] /\ undone \in [Group -> Nat] /\ cancelAt \in [Group -> Nat]
    /\ \A g \in Group : started[g] <= Size(g) /\ undone[g] <= started[g] /\ cancelAt[g] <= Size(g) + 1
    /\ run \in [Worker -> {"none", "active", "told", "ended"}]
    /\ cancelled \in [Worker -> BOOLEAN]
    /\ cleared \in [Worker -> BOOLEAN]
    /\ groups \in SUBSET Group
    /\ runGroups \in SUBSET Worker

Init ==
    /\ starter = [g \in Group |-> "idle"]
    /\ started = [g \in Group |-> 0]
    /\ undone = [g \in Group |-> 0]
    /\ run = [w \in Worker |-> "none"]
    /\ cancelled = [w \in Worker |-> FALSE]
    /\ cleared = [w \in Worker |-> FALSE]
    /\ groups = {}
    /\ runGroups = {}
    /\ cancelAt = [g \in Group |-> 0]

\* The workers in runIDs of g.
Started(g) == {<<g, i>> : i \in 1..started[g]}

\* In Manager.activeRuns: CancelRun accepts the run instead of ErrRunNotActive.
Active(w) == run[w] \in {"active", "told"}

\* What Manager.CancelRun does to a worker, accepted or not.
CancelRun(w) == cancelled' = [cancelled EXCEPT ![w] = @ \/ Active(w)]

-----------------------------------------------------------------------------
(* StartParallelRuns *)

Begin(g) ==
    /\ starter[g] = "idle"
    /\ starter' = [starter EXCEPT ![g] = "loop"]
    /\ UNCHANGED <<started, undone, run, cancelled, cleared, groups, runGroups, cancelAt>>

\* i < workerCount
MoreWorkers(g) == started[g] < Size(g)

StartWorker(g) ==
    /\ starter[g] = "loop" /\ MoreWorkers(g)
    /\ started' = [started EXCEPT ![g] = @ + 1]
    /\ run' = [run EXCEPT ![<<g, started[g] + 1>>] = "active"]
    /\ UNCHANGED <<starter, undone, cancelled, cleared, groups, runGroups, cancelAt>>

\* manager.StartRun failed: the workers started so far are cancelled.
StartWorkerFails(g) ==
    /\ starter[g] = "loop" /\ MoreWorkers(g)
    /\ starter' = [starter EXCEPT ![g] = "rollback"]
    /\ UNCHANGED <<started, undone, run, cancelled, cleared, groups, runGroups, cancelAt>>

\* Mutation: the rollback ends at the first worker that cannot be cancelled.
RollbackStopsEarly(g) ==
    /\ starter[g] = "rollback" /\ undone[g] < started[g]
    /\ LET w == <<g, undone[g] + 1>>
       IN  /\ CancelRun(w)
           /\ undone' = [undone EXCEPT ![g] = IF Active(w) THEN @ + 1 ELSE started[g]]
    /\ UNCHANGED <<starter, started, run, cleared, groups, runGroups, cancelAt>>

\* One worker of the rollback loop; ErrRunNotActive is reported and skipped.
Rollback(g) ==
    /\ starter[g] = "rollback" /\ undone[g] < started[g]
    /\ CancelRun(<<g, undone[g] + 1>>)
    /\ undone' = [undone EXCEPT ![g] = @ + 1]
    /\ UNCHANGED <<starter, started, run, cleared, groups, runGroups, cancelAt>>

RollbackDone(g) ==
    /\ starter[g] = "rollback" /\ undone[g] = started[g]
    /\ starter' = [starter EXCEPT ![g] = "failed"]
    /\ UNCHANGED <<started, undone, run, cancelled, cleared, groups, runGroups, cancelAt>>

\* registerGroup, then the group id is returned.
RegisterGroup(g) ==
    /\ starter[g] = "loop" /\ ~MoreWorkers(g)
    /\ groups' = groups \cup {g}
    /\ runGroups' = runGroups \cup Started(g)
    /\ starter' = [starter EXCEPT ![g] = "returned"]
    /\ UNCHANGED <<started, undone, run, cancelled, cleared, cancelAt>>

-----------------------------------------------------------------------------
(* The runs: RunLifecycle, as far as a group can see *)

\* The terminal status is in the channel.
Tell(w) ==
    /\ run[w] = "active"
    /\ run' = [run EXCEPT ![w] = "told"]
    /\ UNCHANGED <<starter, started, undone, cancelled, cleared, groups, runGroups, cancelAt>>

\* The run leaves activeRuns.
End(w) ==
    /\ run[w] = "told"
    /\ run' = [run EXCEPT ![w] = "ended"]
    /\ UNCHANGED <<starter, started, undone, cancelled, cleared, groups, runGroups, cancelAt>>

\* Mutation: the group goes with the first worker that ends.
LastMemberAlways(w) == TRUE

\* No other run of the group is left in runGroups.
LastMember(w) == \A v \in runGroups \ {w} : v[1] # w[1]

\* forwardMessages meets the terminal status: clearRunFromGroup, which does
\* nothing for a run that is not in runGroups.
ClearRunFromGroup(w) ==
    /\ run[w] \in {"told", "ended"} /\ ~cleared[w]
    /\ cleared' = [cleared EXCEPT ![w] = TRUE]
    /\ runGroups' = runGroups \ {w}
    /\ groups' = IF w \in runGroups /\ LastMember(w) THEN groups \ {w[1]} ELSE groups
    /\ UNCHANGED <<starter, started, undone, run, cancelled, cancelAt>>

-----------------------------------------------------------------------------
(* CancelRun and CancelGroup, from the frontend *)

CancelOne(w) ==
    /\ Active(w)
    /\ CancelRun(w)
    /\ UNCHANGED <<starter, started, undone, run, cleared, groups, runGroups, cancelAt>>

\* The group is looked up; an unknown one is an error and nothing changes.  The
\* frontend knows the id once StartParallelRuns has returned.
CancelGroup(g) ==
    /\ starter[g] = "returned" /\ g \in groups /\ cancelAt[g] = 0
    /\ cancelAt' = [cancelAt EXCEPT ![g] = 1]
    /\ UNCHANGED <<starter, started, undone, run, cancelled, cleared, groups, runGroups>>

\* Mutation: CancelGroup returns at the first worker that is not active.
CancelNextOrStop(g) ==
    /\ cancelAt[g] \in 1..Size(g)
    /\ LET w == <<g, cancelAt[g]>>
       IN  /\ CancelRun(w)
           /\ cancelAt' = [cancelAt EXCEPT ![g] = IF Active(w) THEN @ + 1 ELSE Size(g) + 1]
    /\ UNCHANGED <<starter, started, undone, run, cleared, groups, runGroups>>

\* One worker of g.RunIDs, which never changes; ErrRunNotActive is no failure.
CancelNext(g) ==
    /\ cancelAt[g] \in 1..Size(g)
    /\ CancelRun(<<g, cancelAt[g]>>)
    /\ cancelAt' = [cancelAt EXCEPT ![g] = @ + 1]
    /\ UNCHANGED <<starter, started, undone, run, cleared, groups, runGroups>>

-----------------------------------------------------------------------------
\* Nothing is left to do: every batch has returned and every worker is over.
AllOver ==
    /\ \A g \in Group : starter[g] \in {"returned", "failed"} /\ cancelAt[g] \in {0, Size(g) + 1}
    /\ \A w \in Worker : run[w] = "none" \/ (run[w] = "ended" /\ cleared[w])
    /\ UNCHANGED vars

Next ==
    \/ \E g \in Group : \/ Begin(g) \/ StartWorker(g) \/ StartWorkerFails(g)
                        \/ Rollback(g) \/ RollbackDone(g) \/ RegisterGroup(g)
                        \/ CancelGroup(g) \/ CancelNext(g)
    \/ \E w \in Worker : Tell(w) \/ End(w) \/ ClearRunFromGroup(w) \/ CancelOne(w)
    \/ AllOver

Spec == Init /\ [][Next]_vars

-----------------------------------------------------------------------------
(* Properties *)

\* The rollback of a batch that could not be started, and CancelGroup, reach every
\* worker: when they are through, each has been cancelled or has already ended, although
\* workers end, and the group may be deleted, while they go through their lists.
CancelReachesAll ==
    \A g \in Group : (starter[g] = "failed" \/ cancelAt[g] = Size(g) + 1) =>
        \A w \in Started(g) : cancelled[w] \/ run[w] = "ended"

\* As long as a worker of a returned batch has not shown its terminal status, the
\* frontend can cancel the batch: CancelGroup finds it, whatever other workers and
\* other batches do.
GroupStaysKnown ==
    \A g \in Group :
        starter[g] = "returned" /\ (\E w \in Started(g) : ~cleared[w]) => g \in groups
=============================================================================
