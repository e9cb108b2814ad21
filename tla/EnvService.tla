----------------------------- MODULE EnvService -----------------------------
(***************************************************************************)
(* The environment pane and its service: EnvService (internal/services/     *)
(* env_service.go) runs one install or uninstall at a time and forwards     *)
(* what the command prints; useEnv (frontend/src/hooks/useEnv.ts) follows   *)
(* the operation by its events and lists the packages when it ends.         *)
(*                                                                         *)
(* The pane is mounted while its tab is open.  Its subscription comes some  *)
(* time after the mount, and events before it are lost.  A line is Short,   *)
(* or Long for the scanner (over 1 MB): Scan then gives up and nobody       *)
(* reads that pipe any more.                                                *)
(***************************************************************************)
EXTENDS Integers, Sequences

CONSTANTS
    MaxOps,       \* bound: calls of InstallPackage, InstallRequirements, UninstallPackage
    Fetch,        \* bound: calls of ListPackages at a time
    PipeSize,     \* lines that fit in a pipe
    MaxLines,     \* bound: lines all commands print
    MaxMounts,    \* bound: how often the pane is opened
    Short, Long

ASSUME EnvAssumption ==
    /\ MaxOps \in Nat /\ PipeSize \in Nat \ {0} /\ MaxLines \in Nat /\ MaxMounts \in Nat
    /\ Fetch # {} /\ Short # Long

VARIABLES
    op,        \* s.op, with the call that made it running
    call,      \* pc of each call
    command,   \* the command: none, running, in a write to a stream, or how it exited
    child,     \* a process the command has started holds its ends of the pipes
    pipe,      \* lines in the stdout and stderr pipes
    scanner,   \* the forwardLines of each pipe: reading, done or gaveUp
    written,   \* lines the command has printed on each (history variable)
    printed,   \* lines printed by all commands (bounded by MaxLines)
    venv,      \* version of the installed packages
    events,    \* events emitted and not yet handled by the window
    fetch,     \* calls of ListPackages: free, asked, or the version read
    page,      \* the state of useEnv
    mounts     \* how often the pane was opened (bounded by MaxMounts)

serviceVars == <<op, call>>
commandVars == <<command, child, pipe, scanner, written, printed, venv>>
pageVars    == <<fetch, page, mounts>>
vars        == <<serviceVars, commandVars, events, pageVars>>

\* The calls, numbered as they are made.
Op   == 1..MaxOps
Idle == 0

Stream == {"stdout", "stderr"}
Event  == [type : {"start", "log", "end"}, op : Op, stream : Stream \cup {"none"}]
Ev(t, c, s) == [type |-> t, op |-> c, stream |-> s]

\* A call of ListPackages that is not there, and one that has read nothing yet.
Free  == -2
Asked == -1

NoLines == [s \in Stream |-> 0]

\* What a newly mounted useEnv holds.  heard: operations whose start it handled
\* and whose end it did not; spoiled: a list of packages failed, overlapped another, or
\* an end was missed (history).
Mounted == [mounted |-> TRUE, listening |-> FALSE, asked |-> FALSE, busy |-> FALSE,
            lines |-> NoLines, packages |-> -1, heard |-> {}, spoiled |-> FALSE]

TypeOK ==
    /\ op \in Op \cup {Idle}
    /\ call \in [Op -> {"ready", "called", "entered", "spawn", "streaming", "waiting",
                        "report", "exit", "leave", "returned"}]
    /\ command \in {"none", "running", "ok", "failed"} \cup Stream
    /\ child \in BOOLEAN
    /\ pipe \in [Stream -> Seq({Short, Long})]
    /\ \A s \in Stream : Len(pipe[s]) <= PipeSize
    /\ scanner \in [Stream -> {"done", "reading", "gaveUp"}]
    /\ printed \in 0..MaxLines /\ written \in [Stream -> 0..printed]
    /\ venv \in Nat
    /\ events \in Seq(Event)
    /\ fetch \in [Fetch -> {Free, Asked} \cup 0..venv]
    /\ page \in [mounted : BOOLEAN, listening : BOOLEAN, asked : BOOLEAN, busy : BOOLEAN,
                 lines : [Stream -> Nat], packages : {-1} \cup 0..venv,
                 heard : SUBSET Op, spoiled : BOOLEAN]
    /\ mounts \in 0..MaxMounts

Init ==
    /\ op = Idle
    /\ call = [c \in Op |-> "ready"]
    /\ command = "none" /\ child = FALSE
    /\ pipe = [s \in Stream |-> <<>>]
    /\ scanner = [s \in Stream |-> "done"]
    /\ written = NoLines /\ printed = 0
    /\ venv = 0
    /\ events = <<>>
    /\ fetch = [f \in Fetch |-> Free]
    /\ page = [Mounted EXCEPT !.mounted = FALSE]
    /\ mounts = 0

EnvBusy == op # Idle

Goto(c, pc) == call' = [call EXCEPT ![c] = pc]
Emit(e)     == events' = Append(events, e)

-----------------------------------------------------------------------------
(* The service *)

\* The pane calls: its forms while it shows no operation, a file chosen in a
\* dialog or dropped at any time.
Call(c) ==
    /\ page.mounted /\ call[c] = "ready" /\ \A d \in Op : d < c => call[d] # "ready"
    /\ Goto(c, "called")
    /\ UNCHANGED <<op, commandVars, events, pageVars>>

\* An empty argument, no such file, or a venv that cannot be written.
Reject(c) ==
    /\ call[c] = "called"
    /\ Goto(c, "returned")
    /\ UNCHANGED <<op, commandVars, events, pageVars>>

\* Mutation: the operation begins whether or not another is running.
TryEnterAnyway(c) ==
    /\ call[c] = "called"
    /\ op' = c
    /\ Goto(c, "entered")
    /\ UNCHANGED <<commandVars, events, pageVars>>

\* The compare-and-swap of tryEnter; its event follows in a step of its own.
TryEnter(c) ==
    /\ call[c] = "called" /\ op = Idle
    /\ op' = c
    /\ Goto(c, "entered")
    /\ UNCHANGED <<commandVars, events, pageVars>>

\* Operation busy.
Refuse(c) ==
    /\ call[c] = "called" /\ op # Idle
    /\ Goto(c, "returned")
    /\ UNCHANGED <<op, commandVars, events, pageVars>>

EmitStart(c) ==
    /\ call[c] = "entered"
    /\ Emit(Ev("start", c, "none"))
    /\ Goto(c, "spawn")
    /\ UNCHANGED <<op, commandVars, pageVars>>

Spawn(c) ==
    /\ call[c] = "spawn"
    /\ command' = "running"
    /\ scanner' = [s \in Stream |-> "reading"]
    /\ Goto(c, "streaming")
    /\ UNCHANGED <<op, child, pipe, written, printed, venv, events, pageVars>>

\* Mutation: the error of Start returns past the exit of the operation.
SpawnFailsNoReport(c) ==
    /\ call[c] = "spawn"
    /\ Goto(c, "returned")
    /\ UNCHANGED <<op, commandVars, events, pageVars>>

SpawnFails(c) ==
    /\ call[c] = "spawn"
    /\ Goto(c, "report")
    /\ UNCHANGED <<op, commandVars, events, pageVars>>

\* One round of forwardLines; the rest of a Long line stays in the pipe.
ForwardLine(c, s) ==
    /\ call[c] = "streaming" /\ scanner[s] = "reading" /\ pipe[s] # <<>>
    /\ IF Head(pipe[s]) = Short
       THEN /\ Emit(Ev("log", c, s))
            /\ pipe' = [pipe EXCEPT ![s] = Tail(@)]
            /\ UNCHANGED scanner
       ELSE /\ scanner' = [scanner EXCEPT ![s] = "gaveUp"]
            /\ UNCHANGED <<pipe, events>>
    /\ UNCHANGED <<serviceVars, command, child, written, printed, venv, pageVars>>

\* The end of a pipe: nobody holds its write end.
ForwardEnds(s) ==
    /\ scanner[s] = "reading" /\ pipe[s] = <<>> /\ command \in {"ok", "failed"} /\ ~child
    /\ scanner' = [scanner EXCEPT ![s] = "done"]
    /\ UNCHANGED <<serviceVars, command, child, pipe, written, printed, venv, events, pageVars>>

\* Mutation: cmd.Wait is called without the wait for both scanners.
NoWgWait(c) ==
    /\ call[c] = "streaming"
    /\ Goto(c, "waiting")
    /\ UNCHANGED <<op, commandVars, events, pageVars>>

WgWait(c) ==
    /\ call[c] = "streaming" /\ \A s \in Stream : scanner[s] # "reading"
    /\ Goto(c, "waiting")
    /\ UNCHANGED <<op, commandVars, events, pageVars>>

\* It closes the pipes.
CmdWait(c) ==
    /\ call[c] = "waiting" /\ command \in {"ok", "failed"}
    /\ pipe' = [s \in Stream |-> <<>>]
    /\ Goto(c, "report")
    /\ UNCHANGED <<op, command, child, scanner, written, printed, venv, events, pageVars>>

\* The outcome goes to the Reservoir before the deferred exit.
Report(c) ==
    /\ call[c] = "report"
    /\ Goto(c, "exit")
    /\ UNCHANGED <<op, commandVars, events, pageVars>>

ExitEmit(c) ==
    /\ call[c] = "exit"
    /\ Emit(Ev("end", c, "none"))
    /\ Goto(c, "leave")
    /\ UNCHANGED <<op, commandVars, pageVars>>

\* Nothing is left of the command that concerns the service.
ExitStore(c) ==
    /\ call[c] = "leave"
    /\ op' = Idle
    /\ Goto(c, "returned")
    /\ command' = "none" /\ child' = FALSE /\ written' = NoLines /\ scanner' = [s \in Stream |-> "done"]
    /\ UNCHANGED <<pipe, printed, venv, events, pageVars>>

-----------------------------------------------------------------------------
(* The command *)

CmdPrints(s) ==
    /\ command = "running" /\ printed < MaxLines
    /\ command' = s /\ printed' = printed + 1
    /\ UNCHANGED <<serviceVars, child, pipe, scanner, written, venv, events, pageVars>>

\* The write ends when there is room in the pipe.
CmdWrites(s) ==
    /\ command = s /\ Len(pipe[s]) < PipeSize
    /\ \E l \in {Short, Long} : pipe' = [pipe EXCEPT ![s] = Append(@, l)]
    /\ written' = [written EXCEPT ![s] = @ + 1]
    /\ command' = "running"
    /\ UNCHANGED <<serviceVars, child, scanner, printed, venv, events, pageVars>>

\* It changes the venv, or fails, and exits.
CmdExits ==
    /\ command = "running"
    /\ \/ command' = "ok" /\ venv' = venv + 1
       \/ command' = "failed" /\ venv' = venv
    /\ UNCHANGED <<serviceVars, child, pipe, scanner, written, printed, events, pageVars>>

\* A process it starts inherits the pipes, and may outlive it for as long as it likes.
CmdForks ==
    /\ command = "running" /\ ~child
    /\ child' = TRUE
    /\ UNCHANGED <<serviceVars, command, pipe, scanner, written, printed, venv, events, pageVars>>

ChildExits ==
    /\ child
    /\ child' = FALSE
    /\ UNCHANGED <<serviceVars, command, pipe, scanner, written, printed, venv, events, pageVars>>

-----------------------------------------------------------------------------
(* The pane *)

Mount ==
    /\ ~page.mounted /\ mounts < MaxMounts
    /\ page' = Mounted /\ mounts' = mounts + 1
    /\ UNCHANGED <<serviceVars, commandVars, events, fetch>>

Subscribe ==
    /\ page.mounted /\ ~page.listening
    /\ page' = [page EXCEPT !.listening = TRUE]
    /\ UNCHANGED <<serviceVars, commandVars, events, fetch, mounts>>

\* The answers to an unmounted pane change nothing.
Unmount ==
    /\ page.mounted
    /\ page' = [Mounted EXCEPT !.mounted = FALSE]
    /\ fetch' = [f \in Fetch |-> Free]
    /\ UNCHANGED <<serviceVars, commandVars, events, mounts>>

InFlight == {f \in Fetch : fetch[f] # Free}
NextFree == CHOOSE f \in Fetch : fetch[f] = Free

Ask ==
    /\ InFlight # Fetch
    /\ fetch' = [fetch EXCEPT ![NextFree] = Asked]

\* The loadPackages of the mount, after loadInfo; nothing calls the refresh of the hook.
LoadPackages ==
    /\ page.mounted /\ ~page.asked /\ Ask
    /\ page' = [page EXCEPT !.asked = TRUE, !.spoiled = @ \/ InFlight # {}]
    /\ UNCHANGED <<serviceVars, commandVars, events, mounts>>

ListReads(f) ==
    /\ fetch[f] = Asked
    /\ fetch' = [fetch EXCEPT ![f] = venv]
    /\ UNCHANGED <<serviceVars, commandVars, events, page, mounts>>

SetPackages(f) ==
    /\ fetch[f] >= 0
    /\ page' = [page EXCEPT !.packages = fetch[f]]
    /\ fetch' = [fetch EXCEPT ![f] = Free]
    /\ UNCHANGED <<serviceVars, commandVars, events, mounts>>

\* A ListPackages that fails leaves the list as it was.
ListFails(f) ==
    /\ fetch[f] = Asked
    /\ fetch' = [fetch EXCEPT ![f] = Free]
    /\ page' = [page EXCEPT !.spoiled = TRUE]
    /\ UNCHANGED <<serviceVars, commandVars, events, mounts>>

OnStart(e) == page' = [page EXCEPT !.busy = TRUE, !.lines = NoLines, !.heard = @ \cup {e.op}]
OnLog(e)   == page' = [page EXCEPT !.lines[e.stream] = @ + 1]

\* Mutation: the end of an operation does not refresh the list.
OnEndNoRefresh(e) ==
    /\ page' = [page EXCEPT !.busy = FALSE, !.heard = @ \ {e.op}]
    /\ UNCHANGED fetch

OnEnd(e) ==
    /\ page' = [page EXCEPT !.busy = FALSE, !.heard = @ \ {e.op}, !.spoiled = @ \/ InFlight # {}]
    /\ Ask

\* The window handles the next event; one that comes before the subscription is lost.
Deliver ==
    /\ events # <<>>
    /\ events' = Tail(events)
    /\ LET e == Head(events) IN
       \/ /\ ~page.listening
          /\ page' = [page EXCEPT !.spoiled = @ \/ (page.mounted /\ e.type = "end")]
          /\ UNCHANGED fetch
       \/ page.listening /\ e.type = "start" /\ OnStart(e) /\ UNCHANGED fetch
       \/ page.listening /\ e.type = "log" /\ OnLog(e) /\ UNCHANGED fetch
       \/ page.listening /\ e.type = "end" /\ OnEnd(e)
    /\ UNCHANGED <<serviceVars, commandVars, mounts>>

-----------------------------------------------------------------------------
Service(c) ==
    \/ Reject(c) \/ TryEnter(c) \/ Refuse(c) \/ EmitStart(c) \/ Spawn(c) \/ SpawnFails(c)
    \/ \E s \in Stream : ForwardLine(c, s)
    \/ WgWait(c) \/ CmdWait(c) \/ Report(c) \/ ExitEmit(c) \/ ExitStore(c)

Listing(f) == ListReads(f) \/ SetPackages(f) \/ ListFails(f)

\* Nothing is left to do, or the command waits for room in a pipe nobody reads.
Settled ==
    /\ \/ \A c \in Op : call[c] \in {"ready", "returned"}
       \/ command \in Stream /\ scanner[command] = "gaveUp"
    /\ events = <<>> /\ InFlight = {}
    /\ UNCHANGED vars

Next ==
    \/ \E c \in Op : Call(c) \/ Service(c)
    \/ \E s \in Stream : ForwardEnds(s) \/ CmdPrints(s) \/ CmdWrites(s)
    \/ CmdExits \/ CmdForks \/ ChildExits
    \/ Mount \/ Subscribe \/ Unmount \/ LoadPackages \/ Deliver
    \/ \E f \in Fetch : Listing(f)
    \/ Settled

Spec == Init /\ [][Next]_vars

\* Goroutines run, commands end, a write goes on when there is room, and the window
\* handles its events.  Nothing is owed by the user, or by a process the command left
\* behind.
FairSpec ==
    /\ Spec
    /\ \A c \in Op : WF_vars(Service(c))
    /\ \A s \in Stream : WF_vars(ForwardEnds(s)) /\ WF_vars(CmdWrites(s))
    /\ WF_vars(CmdExits) /\ WF_vars(Deliver)
    /\ \A f \in Fetch : WF_vars(ListReads(f) \/ SetPackages(f))

-----------------------------------------------------------------------------
(* Properties *)

GaveUp == \E s \in Stream : scanner[s] = "gaveUp"

\* The operations between the emission of their start and that of their end.
Started == {c \in Op : call[c] \in {"spawn", "streaming", "waiting", "report", "exit"}}

\* A pane that heard the start of an operation shows it as busy exactly as long as
\* it runs, once it has handled its events: the end of one operation never comes
\* after the start of the next (tryEnter and exit, onStart and onEnd of useEnv).
BusyFollowsService ==
    (page.listening /\ events = <<>>) => (page.busy <=> Started \cap page.heard # {})

\* When an operation reports its outcome, and until its end is handled, the pane shows
\* every line the command wrote, unless a scanner gave up or the pane was opened
\* later: wg.Wait comes before cmd.Wait, which closes the pipes (runStreamed).
LogComplete ==
    \A c \in page.heard :
        (page.listening /\ events = <<>> /\ ~GaveUp /\ op = c
           /\ call[c] \in {"report", "exit"}) => page.lines = written

\* A pane at rest lists what is installed, unless a list failed or overlapped
\* another or an end came before the subscription (loadPackages and onEnd of useEnv).
PackagesCurrent ==
    (page.listening /\ page.asked /\ ~page.spoiled /\ InFlight = {} /\ events = <<>> /\ ~EnvBusy)
        => page.packages = venv

\* The service becomes idle again after every operation, unless a scanner gave up or a
\* process that the command left behind keeps its pipes open, for which wg.Wait waits:
\* every way out of runInstall passes the deferred exit.
OperationEnds == EnvBusy ~> (~EnvBusy \/ GaveUp \/ (child /\ command \in {"ok", "failed"}))
=============================================================================
