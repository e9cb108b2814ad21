----------------------------- MODULE RunHistory -----------------------------
(***************************************************************************)
(* What outlives the program: the runs table and the history loaded from it *)
(* (internal/runner/manager.go, internal/db/db.go), through the shutdown in *)
(* main.go, crashes and restarts.                                           *)
(*                                                                         *)
(* A run is reduced to the steps of StartRun and waitForExit that touch the *)
(* table, activeRuns or the history (RunLifecycle has the others), its      *)
(* process and its stream.  A script may run for as long as it likes.       *)
(***************************************************************************)
EXTENDS Integers

CONSTANTS
    Run,          \* runs, in whatever life of the program they are started
    MaxLives,     \* bound: how often the program is started
    None

VARIABLES
    main,         \* where main is, from app.Run to the end of its defers
    todo,         \* the ids CancelAll has still to cancel
    lives,        \* how often the program was started (bounded by MaxLives)
    starter,      \* pc of StartRun for each run
    waiter,       \* pc of its waitForExit
    proc,         \* its process
    stream,       \* its Execute call
    cancelled,    \* runs with cancelRequested
    timed,        \* runs whose kill timer is armed
    history,      \* Manager.history: the status of each run in it
    row,          \* the status in the runs table
    outcome,      \* finalStatus of waitForExit; it outlives the program as a history variable
    dbFailed,     \* runs whose row could not be written or read (history variable)
    missed        \* runs being started when CancelAll took its list (history variable)

mainVars  == <<main, todo, lives>>
runVars   == <<starter, waiter, proc, stream>>
cancelVars == <<cancelled, timed>>
dbVars    == <<history, row, outcome, dbFailed>>
vars      == <<mainVars, runVars, cancelVars, dbVars, missed>>

Terminal == {"completed", "failed", "cancelled"}

ASSUME HistoryAssumption == MaxLives \in Nat \ {0} /\ None \notin Terminal \cup {"running"}

\* Runs of which a goroutine of this life has a step to go.
Starting == {r \in Run : starter[r] \in {"registered", "spawned", "active", "inserted"}}
Ending   == {r \in Run : waiter[r] \in {"waiting", "judged", "recorded"}}

\* Manager.activeRuns.
Active == {r \in Run : starter[r] \in {"active", "inserted", "launched"}
                         /\ waiter[r] \in {"none", "waiting", "judged"}}

\* Runs whose Execute has not returned.
Executing == {r \in Run : stream[r] \in {"open", "dialog"}}

TypeOK ==
    /\ main \in {"running", "cancelling", "stopping", "closed", "exited"}
    /\ todo \in SUBSET Run /\ (main # "cancelling" => todo = {})
    /\ lives \in 1..MaxLives
    /\ starter \in [Run -> {"none", "registered", "spawned", "active", "inserted", "launched", "over"}]
    /\ waiter \in [Run -> {"none", "waiting", "judged", "recorded", "over"}]
    /\ proc \in [Run -> {"none", "alive", "dead"}]
    /\ stream \in [Run -> {"none", "open", "dialog", "closed"}]
    /\ \A r \in Run : stream[r] = "open" => proc[r] = "alive"
    /\ main = "closed" => Executing = {}
    /\ cancelled \in SUBSET Run /\ timed \in SUBSET cancelled
    /\ history \in [Run -> Terminal \cup {None}]
    /\ row \in [Run -> Terminal \cup {"running", None}]
    /\ outcome \in [Run -> Terminal \cup {None}]
    /\ dbFailed \in SUBSET Run /\ missed \in SUBSET Run

Init ==
    /\ main = "running" /\ todo = {} /\ lives = 1
    /\ starter = [r \in Run |-> "none"]
    /\ waiter = [r \in Run |-> "none"]
    /\ proc = [r \in Run |-> "none"]
    /\ stream = [r \in Run |-> "none"]
    /\ cancelled = {} /\ timed = {}
    /\ history = [r \in Run |-> None]
    /\ row = [r \in Run |-> None]
    /\ outcome = [r \in Run |-> None]
    /\ dbFailed = {} /\ missed = {}

Up == main # "exited"
Step(r, from, to) == Up /\ starter[r] = from /\ starter' = [starter EXCEPT ![r] = to]

-----------------------------------------------------------------------------
(* StartRun.  A call begun while the window is there goes on after it. *)

StartRegister(r) ==
    /\ main = "running" /\ Step(r, "none", "registered")
    /\ UNCHANGED <<mainVars, waiter, proc, stream, cancelVars, dbVars, missed>>

StartSpawn(r) ==
    /\ \/ Step(r, "registered", "spawned") /\ proc' = [proc EXCEPT ![r] = "alive"]
       \/ Step(r, "registered", "over") /\ UNCHANGED proc
    /\ UNCHANGED <<mainVars, waiter, stream, cancelVars, dbVars, missed>>

StartActivate(r) ==
    /\ Step(r, "spawned", "active")
    /\ UNCHANGED <<mainVars, waiter, proc, stream, cancelVars, dbVars, missed>>

\* A database error is reported and the run goes on.
StartInsert(r) ==
    /\ Step(r, "active", "inserted")
    /\ \/ main # "closed" /\ row' = [row EXCEPT ![r] = "running"] /\ UNCHANGED dbFailed
       \/ dbFailed' = dbFailed \cup {r} /\ UNCHANGED row
    /\ UNCHANGED <<mainVars, waiter, proc, stream, cancelVars, history, outcome, missed>>

\* Mutation: waitForExit is launched as soon as the run is active.
StartLaunchEarly(r) ==
    /\ Up /\ starter[r] \in {"active", "inserted"} /\ waiter[r] = "none"
    /\ waiter' = [waiter EXCEPT ![r] = "waiting"]
    /\ UNCHANGED <<mainVars, starter, proc, stream, cancelVars, dbVars, missed>>

StartLaunch(r) ==
    /\ Step(r, "inserted", "launched")
    /\ waiter' = [waiter EXCEPT ![r] = "waiting"]
    /\ UNCHANGED <<mainVars, proc, stream, cancelVars, dbVars, missed>>

-----------------------------------------------------------------------------
(* The process and its stream *)

\* GracefulStop takes no new calls, and the server of a later life knows nothing of
\* the run.
Connect(r) ==
    /\ main \in {"running", "cancelling"} /\ starter[r] # "over"
    /\ proc[r] = "alive" /\ stream[r] = "none"
    /\ stream' = [stream EXCEPT ![r] = "open"]
    /\ UNCHANGED <<mainVars, starter, waiter, proc, cancelVars, dbVars, missed>>

\* handleFileDialog keeps Execute until the user answers, who need never do so and
\* whose answer finds the process there or not.
AskDialog(r) ==
    /\ stream[r] = "open" /\ stream' = [stream EXCEPT ![r] = "dialog"]
    /\ UNCHANGED <<mainVars, starter, waiter, proc, cancelVars, dbVars, missed>>

DialogAnswered(r) ==
    /\ stream[r] = "dialog"
    /\ stream' = [stream EXCEPT ![r] = IF proc[r] = "alive" THEN "open" ELSE "closed"]
    /\ UNCHANGED <<mainVars, starter, waiter, proc, cancelVars, dbVars, missed>>

\* Execute returns once Recv fails; in a dialog it is not in Recv.
Closed(r) == [stream EXCEPT ![r] = IF @ = "open" THEN "closed" ELSE @]

\* The script has ended its side, or the stream breaks.
StreamEnds(r) ==
    /\ stream[r] = "open" /\ stream' = Closed(r)
    /\ UNCHANGED <<mainVars, starter, waiter, proc, cancelVars, dbVars, missed>>

ProcessEnds(r) ==
    /\ proc[r] = "alive"
    /\ proc' = [proc EXCEPT ![r] = "dead"] /\ stream' = Closed(r)
    /\ UNCHANGED <<mainVars, starter, waiter, cancelVars, dbVars, missed>>

\* The kill of time.AfterFunc; it needs the program.
GraceKill(r) ==
    /\ Up /\ r \in timed
    /\ timed' = timed \ {r}
    /\ proc' = [proc EXCEPT ![r] = "dead"] /\ stream' = Closed(r)
    /\ UNCHANGED <<mainVars, starter, waiter, cancelled, dbVars, missed>>

\* Mutation: a cancel that was sent is left to the script.
CancelRunPolitely(r) ==
    IF r \notin Active
    THEN UNCHANGED <<proc, stream, cancelVars>>
    ELSE /\ cancelled' = cancelled \cup {r} /\ UNCHANGED timed
         /\ IF r \in Executing
            THEN UNCHANGED <<proc, stream>>
            ELSE proc' = [proc EXCEPT ![r] = "dead"] /\ UNCHANGED stream

\* CancelRun: the cancel is sent and a kill follows in 3 s, or it cannot be sent and
\* the process is killed.
CancelRun(r) ==
    IF r \notin Active
    THEN UNCHANGED <<proc, stream, cancelVars>>
    ELSE /\ cancelled' = cancelled \cup {r}
         /\ IF r \in Executing
            THEN timed' = timed \cup {r} /\ UNCHANGED <<proc, stream>>
            ELSE /\ proc' = [proc EXCEPT ![r] = "dead"]
                 /\ UNCHANGED <<stream, timed>>

UserCancels(r) ==
    /\ main = "running" /\ r \in Active /\ CancelRun(r)
    /\ UNCHANGED <<mainVars, starter, waiter, dbVars, missed>>

-----------------------------------------------------------------------------
(* waitForExit *)

Verdict(r) == IF r \in cancelled THEN {"cancelled"} ELSE {"completed", "failed"}

\* deriveFinalStatus reads cancelRequested once: a cancel accepted after that, while the
\* run is still in activeRuns, changes nothing of its status.
Judge(r) ==
    /\ Up /\ waiter[r] = "waiting" /\ proc[r] = "dead"
    /\ \E s \in Verdict(r) : outcome' = [outcome EXCEPT ![r] = s]
    /\ waiter' = [waiter EXCEPT ![r] = "judged"]
    /\ UNCHANGED <<mainVars, starter, proc, stream, cancelVars, history, row, dbFailed, missed>>

\* The run leaves activeRuns and enters the history.
Record(r) ==
    /\ Up /\ waiter[r] = "judged"
    /\ history' = [history EXCEPT ![r] = outcome[r]]
    /\ waiter' = [waiter EXCEPT ![r] = "recorded"]
    /\ UNCHANGED <<mainVars, starter, proc, stream, cancelVars, row, outcome, dbFailed, missed>>

\* An UPDATE of a row that is not there changes nothing and is no error.
Updated(r) == [row EXCEPT ![r] = IF @ = None THEN None ELSE outcome[r]]

Update(r) ==
    /\ Up /\ waiter[r] = "recorded"
    /\ \/ main # "closed" /\ row' = Updated(r) /\ UNCHANGED dbFailed
       \/ dbFailed' = dbFailed \cup {r} /\ UNCHANGED row
    /\ waiter' = [waiter EXCEPT ![r] = "over"]
    /\ UNCHANGED <<mainVars, starter, proc, stream, cancelVars, history, outcome, missed>>

-----------------------------------------------------------------------------
(* main after app.Run *)

\* The list CancelAll makes under the lock.
Shutdown ==
    /\ main = "running" /\ main' = "cancelling" /\ todo' = Active
    /\ missed' = {r \in Run : starter[r] \in {"registered", "spawned"}}
    /\ UNCHANGED <<lives, runVars, cancelVars, dbVars>>

CancelNext(r) ==
    /\ main = "cancelling" /\ r \in todo
    /\ CancelRun(r) /\ todo' = todo \ {r}
    /\ UNCHANGED <<main, lives, starter, waiter, dbVars, missed>>

CancelAllDone ==
    /\ main = "cancelling" /\ todo = {} /\ main' = "stopping"
    /\ UNCHANGED <<todo, lives, runVars, cancelVars, dbVars, missed>>

\* The deferred Stop returns when no Execute is left, then the store is closed.
StopAndClose ==
    /\ main = "stopping" /\ Executing = {}
    /\ main' = "closed"
    /\ UNCHANGED <<todo, lives, runVars, cancelVars, dbVars, missed>>

\* The end of the program takes goroutines and timers with it, not the processes.
EndOfProgram ==
    /\ main' = "exited" /\ todo' = {} /\ timed' = {}
    /\ stream' = [r \in Run |-> IF r \in Executing THEN "closed" ELSE stream[r]]
    /\ UNCHANGED <<lives, starter, waiter, proc, cancelled, dbVars, missed>>

Exit  == main = "closed" /\ EndOfProgram
Crash == main \in {"running", "cancelling", "stopping"} /\ EndOfProgram

\* Mutation: every row is loaded.
LoadHistoryAll(lost) ==
    history' = [r \in Run |-> IF row[r] = "running" THEN "failed"
                              ELSE IF r \in lost THEN None ELSE row[r]]

\* Mutation: cancelled runs are not loaded.
LoadHistoryOfOthers(lost) ==
    history' = [r \in Run |-> IF r \notin lost /\ row[r] \in {"completed", "failed"}
                              THEN row[r] ELSE None]

\* What cannot be read, the table or some of its rows, is reported and left out.
LoadHistory(lost) ==
    history' = [r \in Run |-> IF r \notin lost /\ row[r] \in Terminal THEN row[r] ELSE None]

Restart ==
    /\ main = "exited" /\ lives < MaxLives
    /\ main' = "running" /\ lives' = lives + 1
    /\ \E lost \in SUBSET Run : LoadHistory(lost) /\ dbFailed' = dbFailed \cup lost
    /\ starter' = [r \in Run |-> IF starter[r] = "none" THEN "none" ELSE "over"]
    /\ waiter' = [r \in Run |-> IF waiter[r] = "none" THEN "none" ELSE "over"]
    /\ missed' = {}
    /\ UNCHANGED <<todo, proc, stream, cancelVars, row, outcome>>

-----------------------------------------------------------------------------
Launch(r) == StartSpawn(r) \/ StartActivate(r) \/ StartInsert(r) \/ StartLaunch(r)

\* The program is not started again, and the processes it left have ended.
Settled ==
    /\ main = "exited" /\ lives = MaxLives /\ \A r \in Run : proc[r] # "alive"
    /\ UNCHANGED vars

Next ==
    \/ \E r \in Run :
          \/ StartRegister(r) \/ Launch(r)
          \/ Connect(r) \/ AskDialog(r) \/ DialogAnswered(r) \/ StreamEnds(r) \/ ProcessEnds(r)
          \/ GraceKill(r) \/ UserCancels(r)
          \/ Judge(r) \/ Record(r) \/ Update(r) \/ CancelNext(r)
    \/ Shutdown \/ CancelAllDone \/ StopAndClose \/ Exit \/ Crash \/ Restart
    \/ Settled

Spec == Init /\ [][Next]_vars

\* Goroutines run and timers fire; no script has to end by itself and no user has to
\* answer a dialog.
FairSpec ==
    /\ Spec
    /\ \A r \in Run : WF_vars(Launch(r)) /\ WF_vars(Judge(r) \/ Record(r) \/ Update(r))
    /\ \A r \in Run : WF_vars(GraceKill(r)) /\ WF_vars(CancelNext(r))
    /\ WF_vars(CancelAllDone) /\ WF_vars(StopAndClose) /\ WF_vars(Exit)

-----------------------------------------------------------------------------
(* Properties *)

\* The table never contradicts the frontend and the history, in any life of the
\* program: a row is terminal only with the recorded status, and when waitForExit has
\* made its UPDATE the row no longer says running (StartRun inserts before it
\* launches waitForExit; recordStatus serves both).
RowTellsTruth ==
    \A r \in Run :
        /\ row[r] \in Terminal => row[r] = outcome[r]
        /\ (Up /\ outcome[r] # None /\ r \notin Ending \cup dbFailed
               /\ starter[r] \in {"inserted", "launched"})
              => row[r] = outcome[r]

\* The history, loaded or recorded, holds a run only with the outcome it had: a run
\* cut off by a crash is not in it (loadHistory).
HistoryTellsTruth == \A r \in Run : history[r] # None => history[r] = outcome[r]

\* No record of a run, in the table or in the history, contradicts how it ended.
RecordsTellTruth == RowTellsTruth /\ HistoryTellsTruth

\* A restart keeps every run the history had, but those whose UPDATE did not come
\* before the end of the program and those whose row could not be written or read
\* (waitForExit, loadHistory).
HistoryKept ==
    [][Restart => \A r \in Run :
          (history[r] # None /\ r \notin Ending \cup dbFailed') => history'[r] = history[r]]_vars

\* The program ends after the window is closed, unless a run was just being started or
\* the user leaves a file dialog open for good: CancelAll, the kill timers and
\* GracefulStop need no script to cooperate, but GracefulStop waits for Execute, and an
\* open dialog keeps Execute even when its process has been killed.
ShutdownEnds ==
    (\A r \in Run : []<>(stream[r] # "dialog"))
      => (main = "cancelling" ~> (main = "exited" \/ missed # {}))
=============================================================================
