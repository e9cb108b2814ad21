-------------------------- MODULE RunHistory_proofs --------------------------
(***************************************************************************)
(* What the runs table and the history say is true, for any set of runs     *)
(* and any number of crashes and restarts.                                  *)
(***************************************************************************)
EXTENDS RunHistory, TLAPS

\* What of a run its row and its place in the history depend on.
Recorded(r) ==
    /\ waiter[r] \in {"none", "waiting"} => outcome[r] = None
    /\ waiter[r] \in {"judged", "recorded"} => outcome[r] \in Terminal
    /\ starter[r] \in {"none", "registered", "spawned", "active", "inserted"}
          => waiter[r] = "none"
    /\ waiter[r] \in {"waiting", "judged", "recorded"} => starter[r] = "launched"

\* The row: there unless the INSERT failed, and never ahead of the outcome.
RowTrue(r) ==
    /\ (starter[r] \in {"inserted", "launched"} /\ r \notin dbFailed) => row[r] # None
    /\ row[r] \in Terminal => row[r] = outcome[r]
    /\ (Up /\ outcome[r] # None /\ r \notin Ending \cup dbFailed
           /\ starter[r] \in {"inserted", "launched"})
          => row[r] = outcome[r]

\* The history: true, and in the table once the UPDATE was made.
HistoryTrue(r) ==
    /\ history[r] # None => history[r] = outcome[r]
    /\ (history[r] # None /\ r \notin Ending \cup dbFailed) => row[r] = history[r]

Inv == TypeOK /\ \A r \in Run : Recorded(r) /\ RowTrue(r) /\ HistoryTrue(r)

\* Steps that touch neither the two goroutines' counters nor the records.
LEMMA RecordsKept ==
    ASSUME Inv, NEW r \in Run, UNCHANGED <<starter, waiter, dbVars>>, Up' => Up
    PROVE  (Recorded(r) /\ RowTrue(r) /\ HistoryTrue(r))'
  BY DEF Inv, Recorded, RowTrue, HistoryTrue, Ending, dbVars

LEMMA InvInit == Init => Inv
<1> SUFFICES ASSUME Init PROVE Inv
  OBVIOUS
<1>1. TypeOK
  BY HistoryAssumption DEF Init, TypeOK
<1>2. ASSUME NEW r \in Run PROVE Recorded(r) /\ RowTrue(r) /\ HistoryTrue(r)
  BY HistoryAssumption DEF Init, Recorded, RowTrue, HistoryTrue, Terminal
<1> QED
  BY <1>1, <1>2 DEF Inv

-----------------------------------------------------------------------------
(* TypeOK *)

\* What CancelRun does to the process and the kill timer is well typed.
LEMMA CancelRunTyped ==
    ASSUME TypeOK, NEW r \in Run, CancelRun(r)
    PROVE  /\ proc' \in [Run -> {"none", "alive", "dead"}] /\ stream' = stream
           /\ \A q \in Run : stream[q] = "open" => proc'[q] = "alive"
           /\ cancelled' \in SUBSET Run /\ timed' \in SUBSET cancelled'
<1>1. CASE r \notin Active
  BY <1>1 DEF CancelRun, TypeOK, cancelVars
<1>2. CASE r \in Active /\ r \in Executing
  BY <1>2 DEF CancelRun, TypeOK, cancelVars
<1>3. CASE r \in Active /\ r \notin Executing
  BY <1>3 DEF CancelRun, Executing, TypeOK, cancelVars
<1> QED
  BY <1>1, <1>2, <1>3

\* Closing the stream of a run, and ending its process or not, is well typed.
LEMMA ClosedTyped ==
    ASSUME TypeOK, NEW r \in Run, stream' = Closed(r),
           proc' = proc \/ proc' = [proc EXCEPT ![r] = "dead"]
    PROVE  /\ proc' \in [Run -> {"none", "alive", "dead"}]
           /\ stream' \in [Run -> {"none", "open", "dialog", "closed"}]
           /\ \A q \in Run : stream'[q] = "open" => stream[q] = "open" /\ proc'[q] = "alive"
           /\ Executing' \subseteq Executing
  BY DEF TypeOK, Closed, Executing

\* TypeOK in parts, as the actions touch them.
LEMMA TypeOKNext == TypeOK /\ [Next]_vars => TypeOK'
<1> SUFFICES ASSUME TypeOK, [Next]_vars PROVE TypeOK'
  OBVIOUS
<1> USE HistoryAssumption DEF Executing
<1>1. ASSUME NEW r \in Run, StartRegister(r) PROVE TypeOK'
  BY <1>1 DEF StartRegister, Step, TypeOK, mainVars, cancelVars, dbVars
<1>2. ASSUME NEW r \in Run, Launch(r) PROVE TypeOK'
  <2>1. CASE StartSpawn(r)
    BY <2>1 DEF StartSpawn, Step, TypeOK, mainVars, cancelVars, dbVars
  <2>2. CASE StartActivate(r)
    BY <2>2 DEF StartActivate, Step, TypeOK, mainVars, cancelVars, dbVars
  <2>3. CASE StartInsert(r)
    BY <2>3 DEF StartInsert, Step, TypeOK, mainVars, cancelVars
  <2>4. CASE StartLaunch(r)
    BY <2>4 DEF StartLaunch, Step, TypeOK, mainVars, cancelVars, dbVars
  <2> QED
    BY <1>2, <2>1, <2>2, <2>3, <2>4 DEF Launch
<1>3. ASSUME NEW r \in Run, Connect(r) PROVE TypeOK'
  BY <1>3 DEF Connect, TypeOK, mainVars, cancelVars, dbVars
<1>14. ASSUME NEW r \in Run, AskDialog(r) \/ DialogAnswered(r) PROVE TypeOK'
  <2>1. /\ stream[r] \in {"open", "dialog"} /\ main # "closed"
        /\ stream' \in [Run -> {"none", "open", "dialog", "closed"}]
        /\ \A q \in Run : stream'[q] = "open" => proc[q] = "alive"
    BY <1>14 DEF AskDialog, DialogAnswered, TypeOK
  <2>2. UNCHANGED <<mainVars, starter, waiter, proc, cancelVars, dbVars, missed>>
    BY <1>14 DEF AskDialog, DialogAnswered
  <2> QED
    BY <2>1, <2>2 DEF TypeOK, mainVars, cancelVars, dbVars
<1>4. ASSUME NEW r \in Run, StreamEnds(r) \/ ProcessEnds(r) \/ GraceKill(r) PROVE TypeOK'
  <2>1. stream' = Closed(r) /\ (proc' = proc \/ proc' = [proc EXCEPT ![r] = "dead"])
    BY <1>4 DEF StreamEnds, ProcessEnds, GraceKill
  <2>2. /\ UNCHANGED <<mainVars, starter, waiter, cancelled, dbVars, missed>>
        /\ timed' \in SUBSET cancelled
    BY <1>4 DEF StreamEnds, ProcessEnds, GraceKill, cancelVars, TypeOK
  <2> QED
    BY <2>1, <2>2, ClosedTyped DEF TypeOK, mainVars, dbVars
<1>5. ASSUME NEW r \in Run, UserCancels(r) PROVE TypeOK'
  BY <1>5, CancelRunTyped DEF UserCancels, TypeOK, mainVars, dbVars
<1>15. ASSUME NEW r \in Run, Judge(r) PROVE TypeOK'
  BY <1>15 DEF Judge, Verdict, Terminal, TypeOK, mainVars, cancelVars
<1>6. ASSUME NEW r \in Run, Record(r) PROVE TypeOK'
  BY <1>6 DEF Record, TypeOK, mainVars, cancelVars
<1>7. ASSUME NEW r \in Run, Update(r) PROVE TypeOK'
  BY <1>7 DEF Update, Updated, TypeOK, mainVars, cancelVars
<1>8. ASSUME NEW r \in Run, CancelNext(r) PROVE TypeOK'
  BY <1>8, CancelRunTyped DEF CancelNext, TypeOK, dbVars
<1>9. CASE Shutdown
  BY <1>9 DEF Shutdown, Active, TypeOK, runVars, cancelVars, dbVars
<1>10. CASE CancelAllDone \/ StopAndClose
  BY <1>10 DEF CancelAllDone, StopAndClose, TypeOK, runVars, cancelVars, dbVars
<1>11. CASE Exit \/ Crash
  BY <1>11 DEF Exit, Crash, EndOfProgram, TypeOK, dbVars
<1>12. CASE Restart
  BY <1>12 DEF Restart, LoadHistory, TypeOK, cancelVars
<1>13. CASE UNCHANGED vars
  BY <1>13 DEF vars, mainVars, runVars, cancelVars, dbVars, TypeOK
<1> QED
  BY <1>1, <1>2, <1>3, <1>4, <1>5, <1>6, <1>7, <1>8, <1>9, <1>10, <1>11, <1>12, <1>13,
     <1>14, <1>15 DEF Next, Settled

-----------------------------------------------------------------------------
(* The records *)

LEMMA InvNext == Inv /\ [Next]_vars => Inv'
<1> SUFFICES ASSUME Inv, [Next]_vars PROVE Inv'
  OBVIOUS
<1>t. TypeOK'
  BY TypeOKNext DEF Inv
<1> SUFFICES ASSUME NEW q \in Run
             PROVE  (Recorded(q) /\ RowTrue(q) /\ HistoryTrue(q))'
  BY <1>t DEF Inv
<1> DEFINE Goal == (Recorded(q) /\ RowTrue(q) /\ HistoryTrue(q))'
<1> USE HistoryAssumption
<1>0. TypeOK /\ Recorded(q) /\ RowTrue(q) /\ HistoryTrue(q)
  BY DEF Inv
\* The steps that move StartRun.
<1>1. ASSUME NEW r \in Run, StartRegister(r) \/ StartSpawn(r) \/ StartActivate(r) PROVE Goal
  <2>1. /\ UNCHANGED <<waiter, dbVars, main>>
        /\ starter[r] \in {"none", "registered", "spawned"}
        /\ starter' \in {[starter EXCEPT ![r] = x] :
                             x \in {"registered", "spawned", "active", "over"}}
    BY <1>1 DEF StartRegister, StartSpawn, StartActivate, Step, mainVars
  <2>2. starter'[q] = starter[q]
           \/ /\ starter[q] \in {"none", "registered", "spawned"}
              /\ starter'[q] \in {"registered", "spawned", "active", "over"}
    BY <2>1 DEF TypeOK, Inv
  <2> QED
    BY <1>0, <2>1, <2>2 DEF Recorded, RowTrue, HistoryTrue, Ending, Up, dbVars
<1>2. ASSUME NEW r \in Run, StartInsert(r) PROVE Goal
  <2>1. /\ UNCHANGED <<waiter, history, outcome, main>> /\ starter[r] = "active"
        /\ starter' = [starter EXCEPT ![r] = "inserted"]
        /\ \/ row' = [row EXCEPT ![r] = "running"] /\ UNCHANGED dbFailed
           \/ dbFailed' = dbFailed \cup {r} /\ UNCHANGED row
    BY <1>2 DEF StartInsert, Step, mainVars
  <2>2. CASE q = r
    <3>1. waiter[q] = "none" /\ outcome[q] = None /\ history[q] = None
      BY <1>0, <2>1, <2>2 DEF Recorded, HistoryTrue
    <3>2. row[q] \notin Terminal
      BY <1>0, <3>1 DEF RowTrue
    <3>3. row'[q] \notin Terminal /\ (q \in dbFailed' \/ row'[q] # None)
      BY <1>0, <2>1, <2>2, <3>2 DEF TypeOK, Terminal
    <3> QED
      BY <1>0, <2>1, <2>2, <3>1, <3>3 DEF Recorded, RowTrue, HistoryTrue, TypeOK, Terminal
  <2>3. CASE q # r
    <3>1. /\ starter'[q] = starter[q] /\ row'[q] = row[q]
          /\ q \in dbFailed' <=> q \in dbFailed
      BY <1>0, <2>1, <2>3 DEF TypeOK
    <3> QED
      BY <1>0, <2>1, <3>1 DEF Recorded, RowTrue, HistoryTrue, Ending, Up
  <2> QED BY <2>2, <2>3
<1>3. ASSUME NEW r \in Run, StartLaunch(r) PROVE Goal
  <2>1. /\ UNCHANGED <<dbVars, main>> /\ starter[r] = "inserted"
        /\ starter' = [starter EXCEPT ![r] = "launched"]
        /\ waiter' = [waiter EXCEPT ![r] = "waiting"]
    BY <1>3 DEF StartLaunch, Step, mainVars
  <2>2. CASE q = r
    <3>1. /\ waiter[q] = "none" /\ outcome[q] = None /\ starter[q] = "inserted"
          /\ starter'[q] = "launched" /\ waiter'[q] = "waiting"
      BY <1>0, <2>1, <2>2 DEF Recorded, TypeOK
    <3> QED
      BY <1>0, <2>1, <3>1 DEF Recorded, RowTrue, HistoryTrue, Ending, Up, dbVars
  <2>3. CASE q # r
    <3>1. starter'[q] = starter[q] /\ waiter'[q] = waiter[q]
      BY <1>0, <2>1, <2>3 DEF TypeOK
    <3> QED
      BY <1>0, <2>1, <3>1 DEF Recorded, RowTrue, HistoryTrue, Ending, Up, dbVars
  <2> QED BY <2>2, <2>3
\* The steps of waitForExit that write.
<1>10. ASSUME NEW r \in Run, Judge(r) PROVE Goal
  <2>1. PICK s \in Terminal : outcome' = [outcome EXCEPT ![r] = s]
    BY <1>10 DEF Judge, Verdict, Terminal
  <2>2. /\ UNCHANGED <<starter, history, row, dbFailed, main>> /\ waiter[r] = "waiting"
        /\ waiter' = [waiter EXCEPT ![r] = "judged"]
    BY <1>10 DEF Judge, mainVars
  <2>3. CASE q = r
    <3>1. /\ waiter'[q] = "judged" /\ outcome'[q] = s /\ history[q] = None
          /\ outcome[q] = None /\ row[q] \notin Terminal
          /\ q \in Ending'
          /\ starter[q] = "launched"
      BY <1>0, <2>1, <2>2, <2>3 DEF Recorded, RowTrue, HistoryTrue, Ending, TypeOK
    <3> QED
      BY <1>0, <2>1, <2>2, <3>1 DEF Recorded, RowTrue, HistoryTrue
  <2>4. CASE q # r
    <3>1. /\ waiter'[q] = waiter[q] /\ outcome'[q] = outcome[q]
      BY <1>0, <2>1, <2>2, <2>4 DEF TypeOK
    <3> QED
      BY <1>0, <2>2, <3>1 DEF Recorded, RowTrue, HistoryTrue, Ending, Up
  <2> QED BY <2>3, <2>4
<1>4. ASSUME NEW r \in Run, Record(r) PROVE Goal
  <2>1. /\ history' = [history EXCEPT ![r] = outcome[r]]
        /\ UNCHANGED <<starter, row, outcome, dbFailed, main>> /\ waiter[r] = "judged"
        /\ waiter' = [waiter EXCEPT ![r] = "recorded"]
    BY <1>4 DEF Record, mainVars
  <2>2. CASE q = r
    <3>1. /\ waiter'[q] = "recorded" /\ history'[q] = outcome[q]
          /\ q \in Ending'
          /\ outcome[q] \in Terminal /\ starter[q] = "launched"
      BY <1>0, <2>1, <2>2 DEF Recorded, Ending, TypeOK
    <3> QED
      BY <1>0, <2>1, <3>1 DEF Recorded, RowTrue, HistoryTrue
  <2>3. CASE q # r
    <3>1. waiter'[q] = waiter[q] /\ history'[q] = history[q]
      BY <1>0, <2>1, <2>3 DEF TypeOK
    <3> QED
      BY <1>0, <2>1, <3>1 DEF Recorded, RowTrue, HistoryTrue, Ending, Up
  <2> QED BY <2>2, <2>3
<1>5. ASSUME NEW r \in Run, Update(r) PROVE Goal
  <2>1. /\ UNCHANGED <<starter, history, outcome, main>> /\ waiter[r] = "recorded"
        /\ waiter' = [waiter EXCEPT ![r] = "over"]
        /\ \/ row' = Updated(r) /\ UNCHANGED dbFailed
           \/ dbFailed' = dbFailed \cup {r} /\ UNCHANGED row
    BY <1>5 DEF Update, mainVars
  <2>2. CASE q = r
    <3>1. outcome[q] \in Terminal /\ waiter'[q] = "over" /\ q \notin Ending'
      BY <1>0, <2>1, <2>2 DEF Recorded, Ending, TypeOK
    <3>2. CASE row' = Updated(r) /\ UNCHANGED dbFailed
      <4>1. row'[q] = IF row[q] = None THEN None ELSE outcome[q]
        BY <1>0, <2>2, <3>2 DEF Updated, TypeOK
      <4> QED
        BY <1>0, <2>1, <2>2, <3>1, <3>2, <4>1
           DEF Recorded, RowTrue, HistoryTrue, Terminal, Up
    <3>3. CASE dbFailed' = dbFailed \cup {r} /\ UNCHANGED row
      BY <1>0, <2>1, <2>2, <3>1, <3>3 DEF Recorded, RowTrue, HistoryTrue
    <3> QED BY <2>1, <3>2, <3>3
  <2>3. CASE q # r
    <3>1. /\ waiter'[q] = waiter[q] /\ row'[q] = row[q]
          /\ q \in dbFailed' <=> q \in dbFailed
      BY <1>0, <2>1, <2>3 DEF TypeOK, Updated
    <3> QED
      BY <1>0, <2>1, <3>1 DEF Recorded, RowTrue, HistoryTrue, Ending, Up
  <2> QED BY <2>2, <2>3
\* The steps of the process, of cancels and of main.
<1>6. ASSUME NEW r \in Run,
             \/ Connect(r) \/ AskDialog(r) \/ DialogAnswered(r)
             \/ StreamEnds(r) \/ ProcessEnds(r)
             \/ GraceKill(r) \/ UserCancels(r) \/ CancelNext(r)
      PROVE  Goal
  BY <1>6, RecordsKept
     DEF Connect, AskDialog, DialogAnswered, StreamEnds, ProcessEnds, GraceKill,
         UserCancels, CancelNext, mainVars, Up
<1>7. CASE Shutdown \/ CancelAllDone \/ StopAndClose \/ Exit \/ Crash
  BY <1>7, RecordsKept
     DEF Shutdown, CancelAllDone, StopAndClose, Exit, Crash, EndOfProgram, runVars, Up
<1>8. CASE Restart
  <2>1. /\ UNCHANGED <<row, outcome>>
        /\ starter'[q] = IF starter[q] = "none" THEN "none" ELSE "over"
        /\ waiter'[q] = IF waiter[q] = "none" THEN "none" ELSE "over"
    BY <1>8 DEF Restart
  <2>2. history'[q] # None => history'[q] = row[q] /\ row[q] \in Terminal
    BY <1>8 DEF Restart, LoadHistory
  <2>3. Recorded(q)'
    BY <1>0, <2>1 DEF Recorded
  <2>4. RowTrue(q)'
    BY <1>0, <2>1 DEF RowTrue
  <2>5. HistoryTrue(q)'
    BY <1>0, <2>1, <2>2 DEF RowTrue, HistoryTrue
  <2> QED
    BY <2>3, <2>4, <2>5
<1>9. CASE UNCHANGED vars
  BY <1>9, RecordsKept DEF vars, mainVars, runVars, Up
<1> QED
  BY <1>1, <1>2, <1>3, <1>4, <1>5, <1>6, <1>7, <1>8, <1>9, <1>10
     DEF Next, Launch, Settled

-----------------------------------------------------------------------------
(* The theorems *)

\* The strengthened invariant holds in every reachable state.
THEOREM Invariance == Spec => []Inv
  BY InvInit, InvNext, PTL DEF Spec

\* Every variable keeps its type, through any crash and restart.
THEOREM TypeCorrect == Spec => []TypeOK
<1>1. Inv => TypeOK
  BY DEF Inv
<1> QED BY <1>1, Invariance, PTL

\* Neither the runs table nor the history, recorded or loaded, contradicts the outcome
\* of a run (StartRun, waitForExit, loadHistory).
THEOREM RecordsAreTrue == Spec => []RecordsTellTruth
<1>1. Inv => RowTellsTruth
  BY DEF Inv, RowTrue, RowTellsTruth
<1>2. Inv => HistoryTellsTruth
  BY DEF Inv, HistoryTrue, HistoryTellsTruth
<1>3. Inv => RecordsTellTruth
  BY <1>1, <1>2 DEF RecordsTellTruth
<1> QED BY <1>3, Invariance, PTL

\* A restart loses no run whose UPDATE was made (waitForExit, loadHistory).
THEOREM HistorySurvives == Spec => HistoryKept
<1> DEFINE Kept == Restart => \A r \in Run :
              (history[r] # None /\ r \notin Ending \cup dbFailed')
                 => history'[r] = history[r]
<1>1. Inv => [Kept]_vars
  <2> SUFFICES ASSUME Inv, Restart, NEW r \in Run,
                      history[r] # None, r \notin Ending \cup dbFailed'
               PROVE  history'[r] = history[r]
    OBVIOUS
  <2>1. PICK lost \in SUBSET Run : LoadHistory(lost) /\ dbFailed' = dbFailed \cup lost
    BY DEF Restart
  <2>2. row[r] = history[r] /\ history[r] \in Terminal
    BY <2>1 DEF Inv, HistoryTrue, TypeOK
  <2> QED BY <2>1, <2>2 DEF LoadHistory
<1> QED
  BY <1>1, Invariance, PTL DEF HistoryKept
=============================================================================
