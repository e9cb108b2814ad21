------------------------- MODULE ParallelRuns_proofs -------------------------
(***************************************************************************)
(* Theorems about ParallelRuns, for any number of batches, any counts asked *)
(* for and any limit on the workers of a batch.                             *)
(***************************************************************************)
EXTENDS ParallelRuns, TLAPS

\* A worker is at rest: it was cancelled, or it is no longer active.
Stopped(w) == cancelled[w] \/ run[w] = "ended"

\* Where StartParallelRuns of g is, and CancelGroup with it: only a batch that has
\* returned can be cancelled, and it is complete.
Staged(g) ==
    /\ starter[g] = "returned" => started[g] = Size(g)
    /\ starter[g] = "failed" => undone[g] = started[g]
    /\ starter[g] \notin {"rollback", "failed"} => undone[g] = 0
    /\ cancelAt[g] # 0 => starter[g] = "returned"

\* A run exists exactly for the workers started, and both loops leave nobody
\* behind them that still runs uncancelled.
Walked(g) ==
    \A i \in 1..Size(g) :
        /\ run[<<g, i>>] # "none" <=> i <= started[g]
        /\ i <= undone[g] => Stopped(<<g, i>>)
        /\ i < cancelAt[g] => Stopped(<<g, i>>)

\* A worker of a returned batch that has not been cleared is in runGroups, and then
\* clearRunFromGroup of another worker does not take the last member.
Held(g) ==
    \A i \in 1..Size(g) :
        starter[g] = "returned" /\ ~cleared[<<g, i>>] => <<g, i>> \in runGroups /\ g \in groups

Inv == TypeOK /\ \A g \in Group : Staged(g) /\ Walked(g) /\ Held(g)

-----------------------------------------------------------------------------
LEMMA SizeIsNat == \A g \in Group : Size(g) \in Nat
BY CountAssumption DEF CountAssumption, Size, Clamp

\* Workers are the pairs of a batch and a position in it.
LEMMA WorkerPair == \A g \in Group : \A i \in 1..Size(g) : <<g, i>> \in Worker
BY DEF Worker

LEMMA WorkerParts ==
    ASSUME NEW w \in Worker
    PROVE  w[1] \in Group /\ w[2] \in 1..Size(w[1]) /\ w = <<w[1], w[2]>>
BY DEF Worker

LEMMA InitInv == Init => Inv
<1>1. Init => TypeOK
  BY SizeIsNat DEF Init, TypeOK
<1>2. ASSUME Init, NEW g \in Group PROVE Staged(g) /\ Held(g)
  BY <1>2 DEF Init, Staged, Held
<1>3. ASSUME Init, NEW g \in Group PROVE Walked(g)
  <2> SUFFICES ASSUME NEW i \in 1..Size(g)
               PROVE  /\ run[<<g, i>>] = "none"
                      /\ ~(i <= started[g]) /\ ~(i <= undone[g]) /\ ~(i < cancelAt[g])
    BY DEF Walked
  <2>1. <<g, i>> \in Worker /\ i \in Nat \ {0}  BY WorkerPair, SizeIsNat
  <2> QED  BY <2>1, <1>3 DEF Init
<1> QED  BY <1>1, <1>2, <1>3 DEF Inv

-----------------------------------------------------------------------------
(* One lemma per part of Next: the starter, the canceller, the runs *)

LEMMA StarterStep ==
    ASSUME Inv, NEW g \in Group,
           \/ Begin(g) \/ StartWorker(g) \/ StartWorkerFails(g)
           \/ Rollback(g) \/ RollbackDone(g) \/ RegisterGroup(g)
    PROVE  Inv'
<1> USE SizeIsNat, WorkerPair DEF Inv
<1>1. CASE Begin(g)
  BY <1>1 DEF Begin, TypeOK, Staged, Walked, Held, Stopped
<1>2. CASE StartWorker(g)
  <2>1. started[g] + 1 \in 1..Size(g) /\ <<g, started[g] + 1>> \in Worker
    BY <1>2 DEF StartWorker, MoreWorkers, TypeOK
  <2>2. TypeOK'  BY <1>2, <2>1 DEF StartWorker, MoreWorkers, TypeOK
  <2>3. \A h \in Group : Staged(h)'
    BY <1>2, <2>1 DEF StartWorker, MoreWorkers, TypeOK, Staged
  <2>4. \A h \in Group : Walked(h)'
    <3> SUFFICES ASSUME NEW h \in Group, NEW i \in 1..Size(h)
                 PROVE  /\ run'[<<h, i>>] # "none" <=> i <= started'[h]
                        /\ i <= undone'[h] => Stopped(<<h, i>>)'
                        /\ i < cancelAt'[h] => Stopped(<<h, i>>)'
      BY <1>2 DEF StartWorker, Walked
    <3>1. CASE <<h, i>> = <<g, started[g] + 1>>
      BY <3>1, <1>2, <2>1 DEF StartWorker, TypeOK, Staged
    <3>2. CASE <<h, i>> # <<g, started[g] + 1>>
      <4>1. run'[<<h, i>>] = run[<<h, i>>]
        BY <3>2, <1>2 DEF StartWorker, TypeOK
      <4>2. i <= started'[h] <=> i <= started[h]
        <5>1. CASE h = g
          <6>1. i # started[g] + 1 /\ started'[g] = started[g] + 1
            BY <5>1, <3>2, <1>2 DEF StartWorker, TypeOK
          <6> QED  BY <6>1, <5>1 DEF TypeOK
        <5>2. CASE h # g
          BY <5>2, <1>2 DEF StartWorker, TypeOK
        <5> QED  BY <5>1, <5>2
      <4> QED  BY <4>1, <4>2, <1>2 DEF StartWorker, Walked, Stopped
    <3> QED  BY <3>1, <3>2
  <2>5. \A h \in Group : Held(h)'
    BY <1>2 DEF StartWorker, Held
  <2> QED  BY <2>2, <2>3, <2>4, <2>5
<1>3. CASE StartWorkerFails(g)
  BY <1>3 DEF StartWorkerFails, TypeOK, Staged, Walked, Held, Stopped
<1>4. CASE Rollback(g)
  <2>0. PICK w : w = <<g, undone[g] + 1>>  OBVIOUS
  <2>1. undone[g] + 1 \in 1..Size(g) /\ w \in Worker /\ run[w] # "none"
    BY <2>0, <1>4 DEF Rollback, TypeOK, Walked
  <2>2. TypeOK'  BY <1>4, <2>0, <2>1 DEF Rollback, CancelRun, Active, TypeOK
  <2>3. \A h \in Group : Staged(h)'
    BY <1>4, <2>0, <2>1 DEF Rollback, TypeOK, Staged
  <2>4. Stopped(w)'
    BY <1>4, <2>0, <2>1 DEF Rollback, CancelRun, Active, TypeOK, Stopped
  <2>5. \A v \in Worker : Stopped(v) => Stopped(v)'
    BY <1>4, <2>0, <2>1 DEF Rollback, CancelRun, Active, TypeOK, Stopped
  <2>6. \A h \in Group : Walked(h)'
    <3> SUFFICES ASSUME NEW h \in Group, NEW i \in 1..Size(h)
                 PROVE  /\ run'[<<h, i>>] # "none" <=> i <= started'[h]
                        /\ i <= undone'[h] => Stopped(<<h, i>>)'
                        /\ i < cancelAt'[h] => Stopped(<<h, i>>)'
      BY <1>4 DEF Rollback, Walked
    <3>1. i <= undone'[h] => i <= undone[h] \/ <<h, i>> = w
      BY <1>4, <2>0, <2>1 DEF Rollback, TypeOK
    <3> QED  BY <3>1, <2>4, <2>5, <1>4 DEF Rollback, Walked
  <2>7. \A h \in Group : Held(h)'  BY <1>4 DEF Rollback, Held
  <2> QED  BY <2>2, <2>3, <2>6, <2>7
<1>5. CASE RollbackDone(g)
  BY <1>5 DEF RollbackDone, TypeOK, Staged, Walked, Held, Stopped
<1>6. CASE RegisterGroup(g)
  <2>1. started[g] = Size(g)
    BY <1>6 DEF RegisterGroup, MoreWorkers, TypeOK
  <2>2. Started(g) = {<<g, i>> : i \in 1..Size(g)} /\ Started(g) \subseteq Worker
    BY <2>1 DEF Started
  <2>3. TypeOK'  BY <1>6, <2>2 DEF RegisterGroup, TypeOK
  <2>4. \A h \in Group : Staged(h)' /\ Walked(h)'
    BY <1>6, <2>1 DEF RegisterGroup, TypeOK, Staged, Walked, Stopped
  <2>5. \A h \in Group : Held(h)'
    BY <1>6, <2>2 DEF RegisterGroup, TypeOK, Held
  <2> QED  BY <2>3, <2>4, <2>5
<1> QED  BY <1>1, <1>2, <1>3, <1>4, <1>5, <1>6

LEMMA CancelStep ==
    ASSUME Inv, NEW g \in Group, CancelGroup(g) \/ CancelNext(g)
    PROVE  Inv'
<1> USE SizeIsNat, WorkerPair DEF Inv
<1>1. CASE CancelGroup(g)
  BY <1>1 DEF CancelGroup, TypeOK, Staged, Walked, Held, Stopped
<1>2. CASE CancelNext(g)
  <2>0. PICK w : w = <<g, cancelAt[g]>>  OBVIOUS
  <2>1. w \in Worker /\ run[w] # "none"
    BY <2>0, <1>2 DEF CancelNext, TypeOK, Staged, Walked
  <2>2. TypeOK'  BY <1>2, <2>0, <2>1 DEF CancelNext, CancelRun, Active, TypeOK
  <2>3. \A h \in Group : Staged(h)'  BY <1>2 DEF CancelNext, TypeOK, Staged
  <2>4. Stopped(w)'
    BY <1>2, <2>0, <2>1 DEF CancelNext, CancelRun, Active, TypeOK, Stopped
  <2>5. \A v \in Worker : Stopped(v) => Stopped(v)'
    BY <1>2, <2>0, <2>1 DEF CancelNext, CancelRun, Active, TypeOK, Stopped
  <2>6. \A h \in Group : Walked(h)'
    <3> SUFFICES ASSUME NEW h \in Group, NEW i \in 1..Size(h)
                 PROVE  /\ run'[<<h, i>>] # "none" <=> i <= started'[h]
                        /\ i <= undone'[h] => Stopped(<<h, i>>)'
                        /\ i < cancelAt'[h] => Stopped(<<h, i>>)'
      BY <1>2 DEF CancelNext, Walked
    <3>1. i < cancelAt'[h] => i < cancelAt[h] \/ <<h, i>> = w
      BY <1>2, <2>0 DEF CancelNext, TypeOK
    <3> QED  BY <3>1, <2>4, <2>5, <1>2 DEF CancelNext, Walked
  <2>7. \A h \in Group : Held(h)'  BY <1>2 DEF CancelNext, Held
  <2> QED  BY <2>2, <2>3, <2>6, <2>7
<1> QED  BY <1>1, <1>2

LEMMA RunStep ==
    ASSUME Inv, NEW w \in Worker,
           Tell(w) \/ End(w) \/ ClearRunFromGroup(w) \/ CancelOne(w)
    PROVE  Inv'
<1> USE SizeIsNat, WorkerPair, WorkerParts DEF Inv
<1>1. TypeOK'
  BY DEF Tell, End, ClearRunFromGroup, CancelOne, CancelRun, Active, TypeOK
<1>2. \A h \in Group : Staged(h)'
  BY DEF Tell, End, ClearRunFromGroup, CancelOne, Staged
<1>3. \A v \in Worker : /\ run'[v] # "none" <=> run[v] # "none"
                        /\ Stopped(v) => Stopped(v)'
  BY DEF Tell, End, ClearRunFromGroup, CancelOne, CancelRun, Active, TypeOK, Stopped
<1>4. started' = started /\ undone' = undone /\ cancelAt' = cancelAt /\ starter' = starter
  BY DEF Tell, End, ClearRunFromGroup, CancelOne
<1>5. \A h \in Group : Walked(h)'
  BY <1>3, <1>4 DEF Walked
<1>6. \A h \in Group : Held(h)'
  <2>1. CASE Tell(w) \/ End(w) \/ CancelOne(w)
    BY <2>1 DEF Tell, End, CancelOne, Held
  <2>2. CASE ClearRunFromGroup(w)
    <3> SUFFICES ASSUME NEW h \in Group, NEW i \in 1..Size(h),
                        starter[h] = "returned", ~cleared'[<<h, i>>]
                 PROVE  <<h, i>> \in runGroups' /\ h \in groups'
      BY <1>4 DEF Held
    <3>1. <<h, i>> # w /\ ~cleared[<<h, i>>]
      BY <2>2 DEF ClearRunFromGroup, TypeOK
    <3>2. <<h, i>> \in runGroups /\ h \in groups
      BY <3>1 DEF Held
    <3>3. LastMember(w) => h # w[1]
      BY <3>1, <3>2 DEF LastMember
    <3> QED  BY <3>1, <3>2, <3>3, <2>2 DEF ClearRunFromGroup
  <2> QED  BY <2>1, <2>2
<1> QED  BY <1>1, <1>2, <1>5, <1>6

LEMMA InvNext == Inv /\ [Next]_vars => Inv'
<1> SUFFICES ASSUME Inv, [Next]_vars PROVE Inv'
  OBVIOUS
<1>1. CASE \E g \in Group : \/ Begin(g) \/ StartWorker(g) \/ StartWorkerFails(g)
                            \/ Rollback(g) \/ RollbackDone(g) \/ RegisterGroup(g)
  BY <1>1, StarterStep
<1>2. CASE \E g \in Group : CancelGroup(g) \/ CancelNext(g)
  BY <1>2, CancelStep
<1>3. CASE \E w \in Worker : Tell(w) \/ End(w) \/ ClearRunFromGroup(w) \/ CancelOne(w)
  BY <1>3, RunStep
<1>4. CASE UNCHANGED vars
  BY <1>4 DEF vars, Inv, TypeOK, Staged, Walked, Held, Stopped
<1> QED  BY <1>1, <1>2, <1>3, <1>4 DEF Next, AllOver

-----------------------------------------------------------------------------
\* The variables of StartParallelRuns, CancelGroup and the group registry keep their
\* types, and no position leaves its list.
THEOREM TypeCorrect == Spec => []TypeOK
<1>1. Inv => TypeOK  BY DEF Inv
<1> QED  BY <1>1, InitInv, InvNext, PTL DEF Spec

\* The rollback and CancelGroup reach every worker of the batch, whatever the workers
\* and other batches do meanwhile (StartParallelRuns, CancelGroup).
THEOREM CancelIsComplete == Spec => []CancelReachesAll
<1>1. Inv => CancelReachesAll
  BY SizeIsNat DEF Inv, TypeOK, Staged, Walked, Stopped, CancelReachesAll, Started
<1> QED  BY <1>1, InitInv, InvNext, PTL DEF Spec

\* A returned batch with a worker that has not shown its status can be cancelled by its
\* id (registerGroup, clearRunFromGroup).
THEOREM GroupIsKnown == Spec => []GroupStaysKnown
<1>1. Inv => GroupStaysKnown
  BY SizeIsNat DEF Inv, TypeOK, Staged, Held, GroupStaysKnown, Started
<1> QED  BY <1>1, InitInv, InvNext, PTL DEF Spec
=============================================================================
