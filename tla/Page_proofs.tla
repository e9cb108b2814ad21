----------------------------- MODULE Page_proofs -----------------------------
(***************************************************************************)
(* The page comes to rest with what the backend has: the theorems about the *)
(* three components that share the page, the environment pane, the          *)
(* notification channel and the view of the runs.                           *)
(*                                                                         *)
(* The module extends the first; the others are instances.  A name that two *)
(* components have in common, like events, stands for the variable of the   *)
(* one that a formula is about, and what an instance assumes of its         *)
(* constants is a hypothesis of its theorems.                               *)
(***************************************************************************)
EXTENDS EnvService, SequenceTheorems, FiniteSetTheorems, TLAPS

-----------------------------------------------------------------------------
(* Counting in what is on its way *)

\* How many of the elements behind the first i are in S.
Places(q, i, S) == {j \in (i + 1)..Len(q) : q[j] \in S}
After(q, i, S)  == Cardinality(Places(q, i, S))

LEMMA AfterType ==
    ASSUME NEW T, NEW q \in Seq(T), NEW i \in Nat, NEW S
    PROVE  /\ IsFiniteSet(Places(q, i, S)) /\ After(q, i, S) \in Nat
           /\ i >= Len(q) => After(q, i, S) = 0
<1>1. Len(q) \in Nat /\ i + 1 \in Int
  OBVIOUS
<1>2. IsFiniteSet((i + 1)..Len(q))
  BY <1>1, FS_Interval
<1>3. IsFiniteSet(Places(q, i, S))
  BY <1>2, FS_Subset DEF Places
<1>4. i >= Len(q) => Places(q, i, S) = {}
  BY <1>1 DEF Places
<1> QED
  BY <1>3, <1>4, FS_CardinalityType, FS_EmptySet DEF After

LEMMA AfterAppend ==
    ASSUME NEW T, NEW q \in Seq(T), NEW e \in T, NEW i \in 0..Len(q), NEW S
    PROVE  After(Append(q, e), i, S) = After(q, i, S) + (IF e \in S THEN 1 ELSE 0)
<1> DEFINE n == Len(q)
<1>1. /\ n \in Nat /\ i \in Nat /\ Len(Append(q, e)) = n + 1
      /\ \A j \in 1..n : Append(q, e)[j] = q[j]
      /\ Append(q, e)[n + 1] = e
  BY AppendProperties
<1>2. IsFiniteSet(Places(q, i, S)) /\ After(q, i, S) \in Nat
  BY <1>1, AfterType
<1>3. n + 1 \notin Places(q, i, S)
  BY <1>1 DEF Places
<1>4. Places(Append(q, e), i, S) = IF e \in S THEN Places(q, i, S) \cup {n + 1} ELSE Places(q, i, S)
  <2>1. \A j : j \in (i + 1)..(n + 1) <=> (j \in (i + 1)..n \/ j = n + 1)
    BY <1>1
  <2>2. \A j \in (i + 1)..n : Append(q, e)[j] = q[j]
    BY <1>1
  <2> HIDE DEF n
  <2> QED BY <1>1, <2>1, <2>2 DEF Places, n
<1>5. CASE e \in S
  <2>1. Cardinality(Places(q, i, S) \cup {n + 1}) = Cardinality(Places(q, i, S)) + 1
    BY <1>2, <1>3, FS_AddElement
  <2> QED BY <1>4, <1>5, <2>1 DEF After
<1>6. CASE e \notin S
  BY <1>2, <1>4, <1>6 DEF After
<1> QED
  BY <1>5, <1>6

LEMMA AfterTail ==
    ASSUME NEW T, NEW q \in Seq(T), q # <<>>, NEW i \in Nat, NEW S
    PROVE  After(Tail(q), i, S) = After(q, i + 1, S)
<1> DEFINE n == Len(q)
           A == Places(Tail(q), i, S)
           B == Places(q, i + 1, S)
           f == [j \in A |-> j + 1]
<1>1. /\ n \in Nat \ {0} /\ Tail(q) \in Seq(T) /\ Len(Tail(q)) = n - 1
      /\ \A j \in 1..(n - 1) : Tail(q)[j] = q[j + 1]
  BY EmptySeq, HeadTailProperties
<1> HIDE DEF n
<1>2. \A j \in A : j \in (i + 1)..(n - 1) /\ j \in 1..(n - 1) /\ Tail(q)[j] \in S
  BY <1>1 DEF Places
<1>3. \A j \in A : j + 1 \in B
  BY <1>1, <1>2 DEF Places, n
<1>4. \A m \in B : m - 1 \in A /\ (m - 1) + 1 = m
  <2> TAKE m \in B
  <2>1. m \in (i + 2)..n /\ q[m] \in S
    BY <1>1 DEF Places, n
  <2>2. m - 1 \in (i + 1)..(n - 1) /\ m - 1 \in 1..(n - 1) /\ (m - 1) + 1 = m
    BY <1>1, <2>1
  <2>3. Tail(q)[m - 1] = q[m]
    BY <1>1, <2>2
  <2> QED BY <1>1, <2>1, <2>2, <2>3 DEF Places
<1>5. f \in Bijection(A, B)
  <2>1. f \in [A -> B] /\ \A j, m \in A : f[j] = f[m] => j = m
    BY <1>2, <1>3
  <2>2. \A m \in B : \E j \in A : f[j] = m
    BY <1>4
  <2> HIDE DEF A, B, f
  <2> QED
    BY <2>1, <2>2 DEF Bijection, Injection, Surjection, IsInjective
<1>6. IsFiniteSet(A)
  BY <1>1, AfterType
<1> HIDE DEF A, B, f
<1>7. Cardinality(A) = Cardinality(B)
  BY <1>5, <1>6, FS_Bijection DEF ExistsBijection
<1> QED
  BY <1>7 DEF After, A, B

LEMMA AfterHead ==
    ASSUME NEW T, NEW q \in Seq(T), q # <<>>, NEW S
    PROVE  After(q, 0, S) = After(q, 1, S) + (IF Head(q) \in S THEN 1 ELSE 0)
<1> DEFINE n == Len(q)
<1>1. n \in Nat \ {0} /\ Head(q) = q[1]
  BY EmptySeq
<1>2. IsFiniteSet(Places(q, 1, S)) /\ After(q, 1, S) \in Nat
  BY AfterType
<1>3. 1 \notin Places(q, 1, S)
  BY <1>1 DEF Places
<1>4. Places(q, 0, S) = IF Head(q) \in S THEN Places(q, 1, S) \cup {1} ELSE Places(q, 1, S)
  <2>1. \A j : j \in (0 + 1)..n <=> (j \in (1 + 1)..n \/ j = 1)
    BY <1>1
  <2> HIDE DEF n
  <2> QED BY <1>1, <2>1 DEF Places, n
<1>5. CASE Head(q) \in S
  <2>1. Cardinality(Places(q, 1, S) \cup {1}) = Cardinality(Places(q, 1, S)) + 1
    BY <1>2, <1>3, FS_AddElement
  <2> QED BY <1>4, <1>5, <2>1 DEF After
<1>6. CASE Head(q) \notin S
  BY <1>2, <1>4, <1>6 DEF After
<1> QED
  BY <1>5, <1>6

-----------------------------------------------------------------------------
(* The environment pane: EnvService *)

\* The types that the arguments need.
EnvShapes ==
    /\ op \in Op \cup {Idle}
    /\ call \in [Op -> {"ready", "called", "entered", "spawn", "streaming", "waiting",
                        "report", "exit", "leave", "returned"}]
    /\ command \in {"none", "running", "ok", "failed"} \cup Stream /\ child \in BOOLEAN
    /\ pipe \in [Stream -> Seq({Short, Long})]
    /\ scanner \in [Stream -> {"done", "reading", "gaveUp"}]
    /\ written \in [Stream -> Nat] /\ venv \in Nat
    /\ events \in Seq(Event)
    /\ fetch \in [Fetch -> {Free, Asked} \cup Nat]
    /\ page \in [mounted : BOOLEAN, listening : BOOLEAN, asked : BOOLEAN, busy : BOOLEAN,
                 lines : [Stream -> Nat], packages : {-1} \cup Nat,
                 heard : SUBSET Op, spoiled : BOOLEAN]

\* One operation at a time, from the compare-and-swap to the store of exit.
Inside == {"entered", "spawn", "streaming", "waiting", "report", "exit", "leave"}
OneAtATime == \A c \in Op : call[c] \in Inside <=> op = c

\* The command of the operation lives while its output is read and until it is waited
\* for; before and after that nothing is in the pipes, unless a scanner gave up.
Lives ==
    /\ command \in {"running"} \cup Stream =>
         op # Idle /\ call[op] \in {"streaming", "waiting"}
    /\ (op = Idle \/ call[op] \in {"entered", "spawn"}) =>
         command = "none" /\ written = NoLines
           /\ \A s \in Stream : pipe[s] = <<>> /\ scanner[s] = "done"
    /\ (op # Idle /\ call[op] \in {"report", "exit", "leave"}) =>
         \A s \in Stream : pipe[s] = <<>>
    /\ (op # Idle /\ call[op] = "waiting") => \A s \in Stream : scanner[s] # "reading"
    /\ (op # Idle /\ call[op] \in {"streaming", "waiting"}) =>
         \A s \in Stream : scanner[s] = "done" => pipe[s] = <<>> /\ command \in {"ok", "failed"}

\* The events between which an operation is busy.
Mark(e) == e.type \in {"start", "end"}
LastMark(i) ==
    i \in 1..Len(events) /\ Mark(events[i]) /\ \A j \in (i + 1)..Len(events) : ~Mark(events[j])
NoMark == \A i \in 1..Len(events) : ~Mark(events[i])

\* The last mark on its way tells whether an operation is busy, and an event is one of
\* an operation that has begun.
MarksTell ==
    /\ \A i \in 1..Len(events) : LastMark(i) =>
         IF events[i].type = "end" THEN Started = {} ELSE events[i].op \in Started
    /\ \A i \in 1..Len(events) :
         events[i].type = "start" /\ events[i].op \in Started => LastMark(i)
    /\ \A i \in 1..Len(events) : call[events[i].op] \notin {"ready", "called", "entered"}

\* When no mark is on its way the pane knows.
PaneTells ==
    /\ NoMark /\ page.listening => (page.busy <=> Started \cap page.heard # {})
    /\ ~page.listening => ~page.busy /\ page.heard = {}
    /\ page.heard \cap Started # {} => NoMark
    /\ \A c \in page.heard : call[c] \notin {"ready", "called", "entered"}

Marked == MarksTell /\ PaneTells

\* The lines of a stream on their way behind the first i events.
Lines(s)     == {e \in Event : e.type = "log" /\ e.stream = s}
Behind(i, s) == After(events, i, Lines(s))

\* Every line the command wrote is in its pipe, on its way or shown.
Accounted ==
    ~GaveUp =>
      /\ \A i \in 1..Len(events) : events[i].type = "start" /\ events[i].op \in Started =>
           \A s \in Stream : Behind(i, s) + Len(pipe[s]) = written[s]
      /\ Started \cap page.heard # {} =>
           \A s \in Stream : page.lines[s] + Behind(0, s) + Len(pipe[s]) = written[s]

\* The list of packages will be asked for.
Due == \/ \E c \in Op : call[c] \in {"streaming", "waiting", "report", "exit"}
       \/ \E i \in 1..Len(events) : events[i].type = "end"

UpToDate ==
    \/ InFlight = {} /\ page.packages = venv
    \/ \E f \in Fetch : InFlight = {f} /\ fetch[f] \in {Asked, venv}

Listed ==
    /\ page.asked => page.mounted
    /\ page.asked /\ ~page.spoiled => Due \/ UpToDate

EnvInv == EnvShapes /\ OneAtATime /\ Lives /\ Marked /\ Accounted /\ Listed

LEMMA EvIs ==
    ASSUME NEW t \in {"start", "log", "end"}, NEW c \in Op, NEW s \in Stream \cup {"none"}
    PROVE  /\ Ev(t, c, s) \in Event /\ Ev(t, c, s).type = t /\ Ev(t, c, s).op = c
           /\ Ev(t, c, s).stream = s
  BY DEF Ev, Event

LEMMA EnvInitially == Init => EnvInv
<1> SUFFICES ASSUME Init PROVE EnvInv
  OBVIOUS
<1>1. /\ op = Idle /\ call = [c \in Op |-> "ready"] /\ command = "none"
      /\ child = FALSE /\ pipe = [s \in Stream |-> <<>>] /\ scanner = [s \in Stream |-> "done"]
      /\ written = NoLines /\ venv = 0 /\ events = <<>> /\ fetch = [f \in Fetch |-> Free]
      /\ page = [Mounted EXCEPT !.mounted = FALSE]
  BY DEF Init
<1>2. /\ Len(events) = 0 /\ events \in Seq(Event) /\ NoLines \in [Stream -> Nat]
      /\ NoLines = [s \in Stream |-> 0]
  BY <1>1, EmptySeq DEF NoLines
<1>3. /\ page.busy = FALSE /\ page.heard = {} /\ page.asked = FALSE /\ page.listening = FALSE
      /\ page \in [mounted : BOOLEAN, listening : BOOLEAN, asked : BOOLEAN, busy : BOOLEAN,
                   lines : [Stream -> Nat], packages : {-1} \cup Nat,
                   heard : SUBSET Op, spoiled : BOOLEAN]
  BY <1>1, <1>2 DEF Mounted
<1>4. pipe \in [Stream -> Seq({Short, Long})]
  BY <1>1, EmptySeq
<1>5. EnvShapes
  BY <1>1, <1>2, <1>3, <1>4 DEF EnvShapes
<1>6. OneAtATime /\ Started = {}
  BY <1>1, EnvAssumption DEF OneAtATime, Inside, Started, Idle, Op
<1>7. Lives
  BY <1>1 DEF Lives, Stream
<1>8. Marked
  BY <1>2, <1>3 DEF Marked, MarksTell, PaneTells
<1>9. Accounted
  BY <1>2, <1>6 DEF Accounted
<1>10. Listed
  BY <1>3 DEF Listed
<1> QED
  BY <1>5, <1>6, <1>7, <1>8, <1>9, <1>10 DEF EnvInv

\* What the pane does, the window's handling of events apart.
Pane == Mount \/ Subscribe \/ Unmount \/ LoadPackages \/ \E f \in Fetch : Listing(f)

LEMMA PaneShapes == EnvShapes /\ Pane => EnvShapes' /\ UNCHANGED <<serviceVars, commandVars, events>>
<1> SUFFICES ASSUME EnvShapes, Pane
             PROVE  EnvShapes' /\ UNCHANGED <<serviceVars, commandVars, events>>
  OBVIOUS
<1> DEFINE Page == [mounted : BOOLEAN, listening : BOOLEAN, asked : BOOLEAN, busy : BOOLEAN,
                    lines : [Stream -> Nat], packages : {-1} \cup Nat,
                    heard : SUBSET Op, spoiled : BOOLEAN]
<1>0. page \in Page /\ fetch \in [Fetch -> {Free, Asked} \cup Nat] /\ venv \in Nat
  BY DEF EnvShapes
<1>1. UNCHANGED <<serviceVars, commandVars, events>>
  BY DEF Pane, Mount, Subscribe, Unmount, LoadPackages, Listing, ListReads, SetPackages, ListFails
<1>2. Mounted \in Page
  BY DEF Mounted, NoLines
<1>3. fetch' \in [Fetch -> {Free, Asked} \cup Nat]
  BY <1>0 DEF Pane, Mount, Subscribe, Unmount, LoadPackages, Listing, ListReads, SetPackages,
              ListFails, Ask
<1>4. page' \in Page
  <2>1. CASE Mount
    BY <1>2, <2>1 DEF Mount
  <2>2. CASE Subscribe
    BY <1>0, <2>2 DEF Subscribe
  <2>3. CASE Unmount
    BY <1>2, <2>3 DEF Unmount
  <2>4. CASE LoadPackages
    BY <1>0, <2>4 DEF LoadPackages
  <2>5. ASSUME NEW f \in Fetch, ListReads(f) PROVE page' \in Page
    BY <1>0, <2>5 DEF ListReads
  <2>6. ASSUME NEW f \in Fetch, SetPackages(f) PROVE page' \in Page
    <3>1. fetch[f] \in Nat
      BY <1>0, <2>6 DEF SetPackages, Free, Asked
    <3> QED BY <1>0, <2>6, <3>1 DEF SetPackages
  <2>7. ASSUME NEW f \in Fetch, ListFails(f) PROVE page' \in Page
    BY <1>0, <2>7 DEF ListFails
  <2> QED BY <2>1, <2>2, <2>3, <2>4, <2>5, <2>6, <2>7 DEF Pane, Listing
<1> QED
  BY <1>1, <1>3, <1>4 DEF EnvShapes, serviceVars, commandVars

\* What handling an event makes of the pane.
LEMMA DeliverIs ==
    ASSUME EnvShapes, Deliver
    PROVE  LET e == Head(events) IN
           /\ UNCHANGED <<serviceVars, commandVars, mounts>>
           /\ events # <<>> /\ events' = Tail(events) /\ e \in Event
           /\ page'.listening = page.listening /\ page'.asked = page.asked
           /\ page'.packages = page.packages /\ page'.mounted = page.mounted
           /\ ~page.listening =>
                /\ page'.busy = page.busy /\ page'.heard = page.heard /\ page'.lines = page.lines
                /\ (page.mounted /\ e.type = "end" => page'.spoiled)
                /\ (page.spoiled => page'.spoiled)
                /\ UNCHANGED fetch
           /\ page.listening /\ e.type = "start" =>
                /\ page'.busy = TRUE /\ page'.heard = page.heard \cup {e.op}
                /\ page'.lines = NoLines /\ page'.spoiled = page.spoiled
                /\ UNCHANGED fetch
           /\ page.listening /\ e.type = "log" =>
                /\ page'.busy = page.busy /\ page'.heard = page.heard
                /\ page'.lines = [page.lines EXCEPT ![e.stream] = @ + 1]
                /\ page'.spoiled = page.spoiled /\ UNCHANGED fetch
           /\ page.listening /\ e.type = "end" =>
                /\ page'.busy = FALSE /\ page'.heard = page.heard \ {e.op}
                /\ page'.lines = page.lines
                /\ page'.spoiled = (page.spoiled \/ InFlight # {})
                /\ Ask
<1> DEFINE e == Head(events)
<1>1. events # <<>> /\ events' = Tail(events) /\ e \in Event
      /\ UNCHANGED <<serviceVars, commandVars, mounts>>
  BY HeadTailProperties DEF Deliver, EnvShapes
<1>2. page \in [mounted : BOOLEAN, listening : BOOLEAN, asked : BOOLEAN, busy : BOOLEAN,
                lines : [Stream -> Nat], packages : {-1} \cup Nat,
                heard : SUBSET Op, spoiled : BOOLEAN]
  BY DEF EnvShapes
<1>3. \/ /\ ~page.listening /\ UNCHANGED fetch
         /\ page' = [page EXCEPT !.spoiled = @ \/ (page.mounted /\ e.type = "end")]
      \/ page.listening /\ e.type = "start" /\ OnStart(e) /\ UNCHANGED fetch
      \/ page.listening /\ e.type = "log" /\ OnLog(e) /\ UNCHANGED fetch
      \/ page.listening /\ e.type = "end" /\ OnEnd(e)
  BY DEF Deliver
<1> HIDE DEF e
<1>4. CASE ~page.listening
  <2>1. page' = [page EXCEPT !.spoiled = @ \/ (page.mounted /\ e.type = "end")] /\ UNCHANGED fetch
    BY <1>3, <1>4
  <2> QED BY <1>1, <1>2, <1>4, <2>1 DEF e
<1>5. CASE page.listening /\ e.type = "start"
  <2>1. /\ page' = [page EXCEPT !.busy = TRUE, !.lines = NoLines, !.heard = @ \cup {e.op}]
        /\ UNCHANGED fetch
    BY <1>3, <1>5 DEF OnStart
  <2> QED BY <1>1, <1>2, <1>5, <2>1 DEF e
<1>6. CASE page.listening /\ e.type = "log"
  <2>1. page' = [page EXCEPT !.lines[e.stream] = @ + 1] /\ UNCHANGED fetch
    BY <1>3, <1>6 DEF OnLog
  <2>2. page' = [page EXCEPT !.lines = [page.lines EXCEPT ![e.stream] = @ + 1]]
    BY <1>2, <2>1
  <2> QED BY <1>1, <1>2, <1>6, <2>1, <2>2 DEF e
<1>7. CASE page.listening /\ e.type = "end"
  <2>1. /\ page' = [page EXCEPT !.busy = FALSE, !.heard = @ \ {e.op}, !.spoiled = @ \/ InFlight # {}]
        /\ Ask
    BY <1>3, <1>7 DEF OnEnd
  <2> QED BY <1>1, <1>2, <1>7, <2>1 DEF e
<1>8. e.type \in {"start", "log", "end"}
  BY <1>1 DEF Event, e
<1> QED
  BY <1>4, <1>5, <1>6, <1>7, <1>8 DEF e

LEMMA DeliverShapes == EnvShapes /\ Deliver => EnvShapes'
<1> SUFFICES ASSUME EnvShapes, Deliver PROVE EnvShapes'
  OBVIOUS
<1> DEFINE e == Head(events)
           Page == [mounted : BOOLEAN, listening : BOOLEAN, asked : BOOLEAN, busy : BOOLEAN,
                    lines : [Stream -> Nat], packages : {-1} \cup Nat,
                    heard : SUBSET Op, spoiled : BOOLEAN]
<1>1. /\ UNCHANGED <<serviceVars, commandVars>> /\ events # <<>> /\ events' = Tail(events)
      /\ e \in Event /\ events \in Seq(Event) /\ page \in Page
      /\ fetch \in [Fetch -> {Free, Asked} \cup Nat]
  BY DeliverIs DEF EnvShapes
<1>2. e.op \in Op /\ e.type \in {"start", "log", "end"}
  BY <1>1 DEF Event
<1>3. page' \in Page
  <2>1. \/ page' = [page EXCEPT !.spoiled = @ \/ (page.mounted /\ e.type = "end")]
        \/ page' = [page EXCEPT !.busy = TRUE, !.lines = NoLines, !.heard = @ \cup {e.op}]
        \/ page' = [page EXCEPT !.lines[e.stream] = @ + 1]
        \/ page' = [page EXCEPT !.busy = FALSE, !.heard = @ \ {e.op},
                                !.spoiled = @ \/ InFlight # {}]
    BY DEF Deliver, OnStart, OnLog, OnEnd
  <2>2. NoLines \in [Stream -> Nat]
    BY DEF NoLines
  <2> HIDE DEF e
  <2>3. CASE page' = [page EXCEPT !.spoiled = @ \/ (page.mounted /\ e.type = "end")]
    BY <1>1, <2>3
  <2>4. CASE page' = [page EXCEPT !.busy = TRUE, !.lines = NoLines, !.heard = @ \cup {e.op}]
    BY <1>1, <1>2, <2>2, <2>4
  <2>5. CASE page' = [page EXCEPT !.lines[e.stream] = @ + 1]
    <3>1. page.lines \in [Stream -> Nat]
      BY <1>1
    <3>2. [page.lines EXCEPT ![e.stream] = @ + 1] \in [Stream -> Nat]
      <4>1. ASSUME NEW s \in Stream PROVE [page.lines EXCEPT ![e.stream] = @ + 1][s] \in Nat
        <5>1. page.lines[s] \in Nat /\ page.lines[s] + 1 \in Nat
          BY <3>1
        <5>2. CASE s = e.stream
          BY <3>1, <5>1, <5>2
        <5>3. CASE s # e.stream
          BY <3>1, <5>1, <5>3
        <5> QED BY <5>2, <5>3
      <4> QED BY <3>1, <4>1
    <3>3. page' = [page EXCEPT !.lines = [page.lines EXCEPT ![e.stream] = @ + 1]]
      BY <1>1, <2>5
    <3> QED BY <1>1, <3>2, <3>3
  <2>6. CASE page' = [page EXCEPT !.busy = FALSE, !.heard = @ \ {e.op},
                                  !.spoiled = @ \/ InFlight # {}]
    BY <1>1, <2>6
  <2> QED BY <2>1, <2>3, <2>4, <2>5, <2>6
<1>4. fetch' \in [Fetch -> {Free, Asked} \cup Nat]
  BY <1>1 DEF Deliver, OnEnd, Ask
<1>5. events' \in Seq(Event)
  BY <1>1, HeadTailProperties
<1> QED
  BY <1>1, <1>3, <1>4, <1>5 DEF EnvShapes, serviceVars, commandVars

\* What the command and the goroutines of the service do.
Children == CmdForks \/ ChildExits
Command  == \/ CmdExits \/ Children
            \/ \E s \in Stream : ForwardEnds(s) \/ CmdPrints(s) \/ CmdWrites(s)

\* A process the command started changes nothing by coming and going.
LEMMA ChildrenAre ==
    ASSUME Children
    PROVE  /\ child' \in BOOLEAN
           /\ UNCHANGED <<serviceVars, command, pipe, scanner, written, printed, venv, events,
                         pageVars>>
  BY DEF Children, CmdForks, ChildExits

LEMMA CommandShapes ==
    EnvShapes /\ Command => EnvShapes' /\ UNCHANGED <<serviceVars, events, pageVars>>
<1> SUFFICES ASSUME EnvShapes, Command
             PROVE  EnvShapes' /\ UNCHANGED <<serviceVars, events, pageVars>>
  OBVIOUS
<1>0. /\ pipe \in [Stream -> Seq({Short, Long})] /\ written \in [Stream -> Nat] /\ venv \in Nat
      /\ scanner \in [Stream -> {"done", "reading", "gaveUp"}]
  BY DEF EnvShapes
<1>1. UNCHANGED <<serviceVars, events, pageVars>>
  BY ChildrenAre DEF Command, CmdExits, ForwardEnds, CmdPrints, CmdWrites
<1>2. /\ command' \in {"none", "running", "ok", "failed"} \cup Stream /\ venv' \in Nat
      /\ scanner' \in [Stream -> {"done", "reading", "gaveUp"}]
      /\ written' \in [Stream -> Nat] /\ pipe' \in [Stream -> Seq({Short, Long})]
      /\ child' \in BOOLEAN
  <2>1. CASE CmdExits
    BY <1>0, <2>1 DEF CmdExits, EnvShapes
  <2>4. CASE Children
    BY <1>0, <2>4, ChildrenAre DEF EnvShapes
  <2>2. ASSUME NEW s \in Stream, ForwardEnds(s) \/ CmdPrints(s)
        PROVE  <1>2!:
    BY <1>0, <2>2 DEF ForwardEnds, CmdPrints, EnvShapes
  <2>3. ASSUME NEW s \in Stream, CmdWrites(s) PROVE <1>2!:
    <3>1. PICK l \in {Short, Long} : pipe' = [pipe EXCEPT ![s] = Append(@, l)]
      BY <2>3 DEF CmdWrites
    <3>2. Append(pipe[s], l) \in Seq({Short, Long})
      BY <1>0, AppendProperties
    <3>3. pipe' \in [Stream -> Seq({Short, Long})]
      BY <1>0, <3>1, <3>2
    <3> QED BY <1>0, <2>3, <3>3 DEF CmdWrites, EnvShapes
  <2> QED BY <2>1, <2>2, <2>3, <2>4 DEF Command
<1> QED
  BY <1>1, <1>2 DEF EnvShapes, serviceVars, pageVars

LEMMA ServiceShapes ==
    ASSUME EnvShapes, NEW c \in Op, Call(c) \/ Service(c)
    PROVE  EnvShapes' /\ UNCHANGED <<page, fetch, mounts, venv>>
<1>0. /\ pipe \in [Stream -> Seq({Short, Long})] /\ written \in [Stream -> Nat]
      /\ scanner \in [Stream -> {"done", "reading", "gaveUp"}] /\ events \in Seq(Event)
      /\ call \in [Op -> {"ready", "called", "entered", "spawn", "streaming", "waiting",
                          "report", "exit", "leave", "returned"}]
  BY DEF EnvShapes
<1>1. UNCHANGED <<page, fetch, mounts, venv>>
  BY DEF Service, Call, Reject, TryEnter, Refuse, EmitStart, Spawn, SpawnFails, ForwardLine, WgWait,
         CmdWait, Report, ExitEmit, ExitStore, pageVars, commandVars
<1>2. /\ call' \in [Op -> {"ready", "called", "entered", "spawn", "streaming", "waiting",
                           "report", "exit", "leave", "returned"}]
      /\ op' \in Op \cup {Idle}
  BY <1>0 DEF Service, Call, Reject, TryEnter, Refuse, EmitStart, Spawn, SpawnFails, ForwardLine,
              WgWait, CmdWait, Report, ExitEmit, ExitStore, Goto, serviceVars, EnvShapes
<1>3. /\ command' \in {"none", "running", "ok", "failed"} \cup Stream
      /\ scanner' \in [Stream -> {"done", "reading", "gaveUp"}] /\ written' \in [Stream -> Nat]
  BY <1>0 DEF Service, Call, Reject, TryEnter, Refuse, EmitStart, Spawn, SpawnFails, ForwardLine,
              WgWait, CmdWait, Report, ExitEmit, ExitStore, commandVars, EnvShapes, NoLines
<1>6. child' \in BOOLEAN
  <2>1. child' = child \/ child' = FALSE
    BY DEF Service, Call, Reject, TryEnter, Refuse, EmitStart, Spawn, SpawnFails, ForwardLine, WgWait,
           CmdWait, Report, ExitEmit, ExitStore, commandVars
  <2> QED BY <2>1 DEF EnvShapes
<1>4. pipe' \in [Stream -> Seq({Short, Long})]
  <2>1. CASE \E s \in Stream : ForwardLine(c, s)
    <3>1. PICK s \in Stream : ForwardLine(c, s)
      BY <2>1
    <3>2. Tail(pipe[s]) \in Seq({Short, Long})
      BY <1>0, <3>1, HeadTailProperties DEF ForwardLine
    <3> QED BY <1>0, <3>1, <3>2 DEF ForwardLine
  <2>2. CASE CmdWait(c)
    BY <2>2, EmptySeq DEF CmdWait
  <2>3. CASE ~(\E s \in Stream : ForwardLine(c, s)) /\ ~CmdWait(c)
    BY <1>0, <2>3 DEF Service, Call, Reject, TryEnter, Refuse, EmitStart, Spawn, SpawnFails, WgWait,
                      Report, ExitEmit, ExitStore, commandVars
  <2> QED BY <2>1, <2>2, <2>3
<1>5. events' \in Seq(Event)
  <2>1. ASSUME NEW e \in Event PROVE Append(events, e) \in Seq(Event)
    BY <1>0, AppendProperties
  <2>2. \A t \in {"start", "log", "end"}, s \in Stream \cup {"none"} : Ev(t, c, s) \in Event
    BY EvIs
  <2>3. \/ events' = events
        \/ events' = Append(events, Ev("start", c, "none"))
        \/ events' = Append(events, Ev("end", c, "none"))
        \/ \E s \in Stream : events' = Append(events, Ev("log", c, s))
    BY DEF Service, Call, Reject, TryEnter, Refuse, EmitStart, Spawn, SpawnFails, ForwardLine, WgWait,
           CmdWait, Report, ExitEmit, ExitStore, Emit
  <2> QED BY <1>0, <2>1, <2>2, <2>3
<1> QED
  BY <1>1, <1>2, <1>3, <1>4, <1>5, <1>6 DEF EnvShapes

\* Every step is one of these.
LEMMA EnvSteps ==
    ASSUME [Next]_vars
    PROVE  \/ \E c \in Op : Call(c) \/ Service(c)
           \/ Command \/ Pane \/ Deliver
           \/ UNCHANGED vars
  BY DEF Next, Command, Children, Pane, Settled

LEMMA EnvShapesNext == EnvShapes /\ [Next]_vars => EnvShapes'
<1> SUFFICES ASSUME EnvShapes, [Next]_vars PROVE EnvShapes'
  OBVIOUS
<1>1. CASE UNCHANGED vars
  BY <1>1 DEF vars, serviceVars, commandVars, pageVars, EnvShapes
<1> QED
  BY <1>1, EnvSteps, ServiceShapes, CommandShapes, PaneShapes, DeliverShapes

LEMMA OneAtATimeNext == EnvShapes /\ OneAtATime /\ [Next]_vars => OneAtATime'
<1> SUFFICES ASSUME EnvShapes, OneAtATime, [Next]_vars PROVE OneAtATime'
  OBVIOUS
<1>1. UNCHANGED serviceVars => OneAtATime'
  BY DEF OneAtATime, serviceVars
<1>2. ASSUME NEW c \in Op, Call(c) \/ Service(c) PROVE OneAtATime'
  <2>0. call \in [Op -> {"ready", "called", "entered", "spawn", "streaming", "waiting",
                         "report", "exit", "leave", "returned"}]
    BY DEF EnvShapes
  <2>1. CASE Call(c) \/ Reject(c) \/ Refuse(c)
    BY <2>0, <2>1 DEF Call, Reject, Refuse, Goto, OneAtATime, Inside
  <2>2. CASE TryEnter(c)
    BY <2>0, <2>2 DEF TryEnter, Goto, OneAtATime, Inside, Idle, Op
  <2>3. CASE EmitStart(c) \/ Spawn(c) \/ SpawnFails(c) \/ WgWait(c) \/ CmdWait(c) \/ Report(c)
             \/ ExitEmit(c)
    BY <2>0, <2>3 DEF EmitStart, Spawn, SpawnFails, WgWait, CmdWait, Report, ExitEmit, Goto,
                      OneAtATime, Inside
  <2>4. CASE ExitStore(c)
    BY <2>0, <2>4 DEF ExitStore, Goto, OneAtATime, Inside, Idle, Op
  <2>5. CASE \E s \in Stream : ForwardLine(c, s)
    BY <1>1, <2>5 DEF ForwardLine
  <2> QED BY <1>2, <2>1, <2>2, <2>3, <2>4, <2>5 DEF Service
<1>3. CASE Command \/ Pane \/ Deliver \/ UNCHANGED vars
  BY <1>1, <1>3, CommandShapes, PaneShapes, DeliverIs DEF vars
<1> QED
  BY <1>2, <1>3, EnvSteps

\* The command of the operation, its pipes and its scanners.
LEMMA LivesNext == EnvShapes /\ OneAtATime /\ Lives /\ [Next]_vars => Lives'
<1> SUFFICES ASSUME EnvShapes, OneAtATime, Lives, [Next]_vars PROVE Lives'
  OBVIOUS
<1>0. /\ call \in [Op -> {"ready", "called", "entered", "spawn", "streaming", "waiting",
                          "report", "exit", "leave", "returned"}]
      /\ op \in Op \cup {Idle} /\ Idle \notin Op
      /\ command \in {"none", "running", "ok", "failed"} \cup Stream
      /\ pipe \in [Stream -> Seq({Short, Long})] /\ written \in [Stream -> Nat]
      /\ scanner \in [Stream -> {"done", "reading", "gaveUp"}]
      /\ \A c \in Op : call[c] \in Inside <=> op = c
  BY DEF EnvShapes, OneAtATime, Op, Idle
<1>1. UNCHANGED <<serviceVars, command, pipe, scanner, written>> => Lives'
  BY DEF Lives, serviceVars
<1>2. ASSUME NEW c \in Op, Call(c) \/ Service(c) PROVE Lives'
  <2>1. CASE Call(c) \/ Reject(c) \/ Refuse(c)
    <3>1. /\ op # c /\ UNCHANGED <<op, command, pipe, scanner, written>>
          /\ \A d \in Op : d # c => call'[d] = call[d]
      BY <1>0, <2>1 DEF Call, Reject, Refuse, Goto, commandVars, Inside
    <3>2. op # Idle => call'[op] = call[op]
      BY <1>0, <3>1
    <3> QED BY <3>1, <3>2 DEF Lives
  <2>2. CASE TryEnter(c)
    BY <1>0, <2>2 DEF TryEnter, Goto, commandVars, Lives, Stream
  <2>3. CASE EmitStart(c)
    <3>1. op = c /\ call'[c] = "spawn" /\ op' = c /\ UNCHANGED <<command, pipe, scanner, written>>
      BY <1>0, <2>3 DEF EmitStart, Goto, commandVars, Inside
    <3> QED BY <1>0, <2>3, <3>1 DEF EmitStart, Lives, Stream
  <2>4. CASE Spawn(c)
    <3>1. /\ op = c /\ call[c] = "spawn" /\ call'[c] = "streaming" /\ op' = c /\ command' = "running"
          /\ \A s \in Stream : scanner'[s] = "reading"
      BY <1>0, <2>4 DEF Spawn, Goto, Inside
    <3> QED BY <1>0, <3>1 DEF Lives, Stream
  <2>5. CASE SpawnFails(c)
    <3>1. /\ op = c /\ call[c] = "spawn" /\ call'[c] = "report" /\ op' = c
          /\ UNCHANGED <<command, pipe, scanner, written>>
      BY <1>0, <2>5 DEF SpawnFails, Goto, commandVars, Inside
    <3> QED BY <1>0, <3>1 DEF Lives, Stream
  <2>6. CASE \E s \in Stream : ForwardLine(c, s)
    <3>1. PICK s \in Stream : ForwardLine(c, s)
      BY <2>6
    <3>2. /\ op = c /\ call[c] = "streaming" /\ scanner[s] = "reading"
          /\ UNCHANGED <<serviceVars, command, written>>
          /\ \A u \in Stream : u # s => scanner'[u] = scanner[u] /\ pipe'[u] = pipe[u]
          /\ scanner'[s] \in {"reading", "gaveUp"}
      BY <1>0, <3>1 DEF ForwardLine, Inside
    <3>3. op' = c /\ call' = call
      BY <3>2 DEF serviceVars
    <3> QED BY <1>0, <3>2, <3>3 DEF Lives
  <2>7. CASE WgWait(c)
    <3>1. /\ op = c /\ call[c] = "streaming" /\ call'[c] = "waiting" /\ op' = c
          /\ \A s \in Stream : scanner[s] # "reading"
          /\ UNCHANGED <<command, pipe, scanner, written>>
      BY <1>0, <2>7 DEF WgWait, Goto, commandVars, Inside
    <3> QED BY <1>0, <3>1 DEF Lives, Stream
  <2>8. CASE CmdWait(c)
    <3>1. /\ op = c /\ call[c] = "waiting" /\ call'[c] = "report" /\ op' = c
          /\ command \in {"ok", "failed"} /\ command' = command
          /\ \A s \in Stream : pipe'[s] = <<>>
      BY <1>0, <2>8 DEF CmdWait, Goto, Inside
    <3> QED BY <1>0, <3>1 DEF Lives, Stream
  <2>9. CASE Report(c) \/ ExitEmit(c)
    <3>1. /\ op = c /\ call[c] \in {"report", "exit"} /\ call'[c] \in {"exit", "leave"} /\ op' = c
          /\ UNCHANGED <<command, pipe, scanner, written>>
      BY <1>0, <2>9 DEF Report, ExitEmit, Goto, commandVars, Inside
    <3> QED BY <1>0, <3>1 DEF Lives, Stream
  <2>10. CASE ExitStore(c)
    <3>1. /\ op = c /\ call[c] = "leave" /\ op' = Idle /\ command' = "none" /\ written' = NoLines
          /\ UNCHANGED pipe /\ \A s \in Stream : scanner'[s] = "done"
      BY <1>0, <2>10 DEF ExitStore, Inside
    <3> QED BY <1>0, <3>1 DEF Lives, Stream
  <2> QED BY <1>2, <2>1, <2>2, <2>3, <2>4, <2>5, <2>6, <2>7, <2>8, <2>9, <2>10 DEF Service
<1>3. CASE Command
  <2>1. op' = op /\ call' = call
    BY <1>3, CommandShapes DEF serviceVars
  <2>2. CASE CmdExits
    <3>1. command = "running" /\ command' \in {"ok", "failed"} /\ UNCHANGED <<pipe, scanner, written>>
      BY <2>2 DEF CmdExits
    <3> QED BY <1>0, <2>1, <3>1 DEF Lives, Stream
  <2>3. ASSUME NEW s \in Stream, ForwardEnds(s) PROVE Lives'
    <3>1. /\ pipe[s] = <<>> /\ command \in {"ok", "failed"} /\ UNCHANGED <<command, pipe, written>>
          /\ scanner[s] = "reading" /\ scanner'[s] = "done"
          /\ \A u \in Stream : u # s => scanner'[u] = scanner[u]
      BY <1>0, <2>3 DEF ForwardEnds
    <3> QED BY <1>0, <2>1, <3>1 DEF Lives
  <2>4. ASSUME NEW s \in Stream, CmdPrints(s) PROVE Lives'
    <3>1. command = "running" /\ command' = s /\ UNCHANGED <<pipe, scanner, written>>
      BY <2>4 DEF CmdPrints
    <3> QED BY <1>0, <2>1, <3>1 DEF Lives, Stream
  <2>5. ASSUME NEW s \in Stream, CmdWrites(s) PROVE Lives'
    <3>1. /\ command = s /\ command' = "running" /\ UNCHANGED scanner
      BY <2>5 DEF CmdWrites
    <3> QED BY <1>0, <2>1, <3>1 DEF Lives, Stream
  <2>6. CASE Children
    BY <2>1, <2>6, ChildrenAre DEF Lives
  <2> QED BY <1>3, <2>2, <2>3, <2>4, <2>5, <2>6 DEF Command
<1>4. CASE Pane \/ Deliver \/ UNCHANGED vars
  BY <1>1, <1>4, PaneShapes, DeliverIs DEF vars, commandVars
<1> QED
  BY <1>2, <1>3, <1>4, EnvSteps

\* How the last mark moves.
LEMMA MarkAppend ==
    ASSUME NEW e \in Event, events \in Seq(Event), events' = Append(events, e)
    PROVE  /\ Len(events) \in Nat /\ Len(events') = Len(events) + 1 /\ events'[Len(events) + 1] = e
           /\ \A i \in 1..Len(events) : i \in 1..Len(events') /\ events'[i] = events[i]
           /\ \A i \in 1..Len(events') : i \in 1..Len(events) \/ i = Len(events) + 1
           /\ Mark(e) => ~NoMark' /\ \A i \in 1..Len(events') : LastMark(i)' <=> i = Len(events) + 1
           /\ ~Mark(e) => /\ NoMark' <=> NoMark
                          /\ \A i \in 1..Len(events') : LastMark(i)' => LastMark(i)
                          /\ \A i \in 1..Len(events) : LastMark(i) => LastMark(i)'
<1> DEFINE n == Len(events)
<1>1. /\ n \in Nat /\ Len(events') = n + 1 /\ events'[n + 1] = e
      /\ \A i \in 1..n : events'[i] = events[i]
  BY AppendProperties
<1> HIDE DEF n
<1>2. /\ \A i \in 1..n : i \in 1..(n + 1)
      /\ \A i \in 1..(n + 1) : i \in 1..n \/ i = n + 1
      /\ n + 1 \in 1..(n + 1)
      /\ \A i \in 1..n : n + 1 \in (i + 1)..(n + 1)
      /\ \A i \in 1..(n + 1) : \A j \in (i + 1)..(n + 1) : j \in 1..(n + 1) /\ i # n + 1
      /\ \A i \in 1..n : \A j \in (i + 1)..n : j \in 1..n /\ j \in (i + 1)..(n + 1)
      /\ \A i \in 1..n : \A j \in (i + 1)..(n + 1) : j \in (i + 1)..n \/ j = n + 1
  BY <1>1
<1>3. NoMark' <=> \A i \in 1..(n + 1) : ~Mark(events'[i])
  BY <1>1 DEF NoMark, Mark
<1>4. NoMark <=> \A i \in 1..n : ~Mark(events[i])
  BY DEF NoMark, n
<1>5. \A i : LastMark(i)' <=> (i \in 1..(n + 1) /\ Mark(events'[i])
                                /\ \A j \in (i + 1)..(n + 1) : ~Mark(events'[j]))
  BY <1>1 DEF LastMark, Mark
<1>6. \A i : LastMark(i) <=> (i \in 1..n /\ Mark(events[i]) /\ \A j \in (i + 1)..n : ~Mark(events[j]))
  BY DEF LastMark, n
<1>7. CASE Mark(e)
  <2>1. ~NoMark'
    BY <1>1, <1>2, <1>3, <1>7
  <2>2. ASSUME NEW i \in 1..(n + 1) PROVE LastMark(i)' <=> i = n + 1
    BY <1>1, <1>2, <1>5, <1>7
  <2> QED BY <1>1, <1>2, <1>7, <2>1, <2>2 DEF n
<1>8. CASE ~Mark(e)
  <2>1. NoMark' <=> NoMark
    BY <1>1, <1>2, <1>3, <1>4, <1>8
  <2>2. ASSUME NEW i \in 1..(n + 1), LastMark(i)' PROVE LastMark(i)
    <3>1. i \in 1..n /\ Mark(events[i])
      BY <1>1, <1>2, <1>5, <1>8, <2>2
    <3>2. \A j \in (i + 1)..n : ~Mark(events[j])
      BY <1>1, <1>2, <1>5, <2>2, <3>1
    <3> QED BY <1>6, <3>1, <3>2
  <2>3. ASSUME NEW i \in 1..n, LastMark(i) PROVE LastMark(i)'
    <3>1. i \in 1..(n + 1) /\ Mark(events'[i])
      BY <1>1, <1>2, <1>6, <2>3
    <3>2. \A j \in (i + 1)..(n + 1) : ~Mark(events'[j])
      BY <1>1, <1>2, <1>6, <1>8, <2>3
    <3> QED BY <1>5, <3>1, <3>2
  <2> QED BY <1>1, <1>2, <1>8, <2>1, <2>2, <2>3 DEF n
<1> QED
  BY <1>7, <1>8

LEMMA MarkTail ==
    ASSUME events \in Seq(Event), events # <<>>, events' = Tail(events)
    PROVE  /\ Len(events) \in Nat \ {0} /\ Len(events') = Len(events) - 1
           /\ Head(events) = events[1] /\ 1 \in 1..Len(events)
           /\ \A i \in 1..Len(events') : i + 1 \in 1..Len(events) /\ events'[i] = events[i + 1]
           /\ \A i \in 1..Len(events') : LastMark(i)' <=> LastMark(i + 1)
           /\ NoMark' /\ Mark(Head(events)) => LastMark(1)
           /\ NoMark' /\ ~Mark(Head(events)) => NoMark
           /\ NoMark => NoMark'
           /\ LastMark(1) => NoMark'
<1> DEFINE n == Len(events)
<1>1. /\ n \in Nat \ {0} /\ Len(events') = n - 1 /\ Head(events) = events[1]
      /\ \A i \in 1..(n - 1) : events'[i] = events[i + 1]
  BY EmptySeq, HeadTailProperties
<1> HIDE DEF n
<1>2. /\ \A i \in 1..(n - 1) : i + 1 \in 1..n /\ i + 1 \in (1 + 1)..n
      /\ 1 \in 1..n
      /\ \A j \in (1 + 1)..n : j - 1 \in 1..(n - 1) /\ (j - 1) + 1 = j
      /\ \A i \in 1..(n - 1) : \A j \in (i + 1)..(n - 1) :
            j \in 1..(n - 1) /\ j + 1 \in ((i + 1) + 1)..n
      /\ \A i \in 1..(n - 1) : \A j \in ((i + 1) + 1)..n :
            j - 1 \in (i + 1)..(n - 1) /\ j - 1 \in 1..(n - 1) /\ (j - 1) + 1 = j
      /\ \A i \in 1..n : i = 1 \/ i \in (1 + 1)..n
  BY <1>1
<1>3. NoMark' <=> \A i \in 1..(n - 1) : ~Mark(events'[i])
  BY <1>1 DEF NoMark, Mark
<1>4. NoMark <=> \A i \in 1..n : ~Mark(events[i])
  BY DEF NoMark, n
<1>5. \A i : LastMark(i)' <=> (i \in 1..(n - 1) /\ Mark(events'[i])
                                /\ \A j \in (i + 1)..(n - 1) : ~Mark(events'[j]))
  BY <1>1 DEF LastMark, Mark
<1>6. \A i : LastMark(i) <=> (i \in 1..n /\ Mark(events[i]) /\ \A j \in (i + 1)..n : ~Mark(events[j]))
  BY DEF LastMark, n
<1>7. NoMark' <=> \A j \in (1 + 1)..n : ~Mark(events[j])
  BY <1>1, <1>2, <1>3
<1>8. ASSUME NEW i \in 1..(n - 1) PROVE LastMark(i)' <=> LastMark(i + 1)
  <2>1. Mark(events'[i]) <=> Mark(events[i + 1])
    BY <1>1
  <2>2. (\A j \in (i + 1)..(n - 1) : ~Mark(events'[j]))
          <=> \A j \in ((i + 1) + 1)..n : ~Mark(events[j])
    <3>1. ASSUME NEW j \in (i + 1)..(n - 1) PROVE events'[j] = events[j + 1]
      BY <1>1, <1>2
    <3>2. ASSUME NEW j \in ((i + 1) + 1)..n PROVE events'[j - 1] = events[j]
      BY <1>1, <1>2
    <3> QED BY <1>2, <3>1, <3>2
  <2> QED BY <1>2, <1>5, <1>6, <2>1, <2>2
<1>9. /\ NoMark' /\ Mark(Head(events)) => LastMark(1)
      /\ LastMark(1) => NoMark'
  BY <1>1, <1>2, <1>6, <1>7
<1>10. /\ NoMark' /\ ~Mark(Head(events)) => NoMark
       /\ NoMark => NoMark'
  <2>1. \A j \in (1 + 1)..n : j \in 1..n
    BY <1>1
  <2> QED BY <1>1, <1>2, <1>4, <1>7, <2>1
<1> QED
  BY <1>1, <1>2, <1>8, <1>9, <1>10 DEF n

\* Which operations are busy changes with the two events only.
LEMMA StartedIs ==
    ASSUME EnvShapes, OneAtATime, NEW c \in Op, Call(c) \/ Service(c)
    PROVE  /\ \A d \in Op : d # c => call'[d] = call[d]
           /\ call[c] # "ready" => call'[c] # "ready"
           /\ call[c] \notin {"ready", "called", "entered"} =>
                call'[c] \notin {"ready", "called", "entered"}
           /\ EmitStart(c) => op = c /\ Started = {} /\ Started' = {c}
           /\ ExitEmit(c) => Started = {c} /\ Started' = {}
           /\ ~EmitStart(c) /\ ~ExitEmit(c) => Started' = Started
<1>0. /\ call \in [Op -> {"ready", "called", "entered", "spawn", "streaming", "waiting",
                          "report", "exit", "leave", "returned"}]
      /\ \A d \in Op : call[d] \in Inside => op = d
  BY DEF EnvShapes, OneAtATime
<1>1. call' \in [Op -> {"ready", "called", "entered", "spawn", "streaming", "waiting",
                        "report", "exit", "leave", "returned"}]
  BY ServiceShapes DEF EnvShapes
<1>2. CASE Call(c) \/ Reject(c) \/ TryEnter(c) \/ Refuse(c)
  BY <1>0, <1>2 DEF Call, Reject, TryEnter, Refuse, EmitStart, ExitEmit, Goto, Started
<1>3. CASE EmitStart(c)
  <2>1. /\ call[c] = "entered" /\ call' = [call EXCEPT ![c] = "spawn"] /\ op = c
        /\ \A d \in Op : d # c => call[d] \notin Inside
    BY <1>0, <1>3 DEF EmitStart, Goto, Inside
  <2> QED BY <1>0, <1>3, <2>1 DEF Started, Inside, ExitEmit
<1>4. CASE ExitEmit(c)
  <2>1. /\ call[c] = "exit" /\ call' = [call EXCEPT ![c] = "leave"]
        /\ \A d \in Op : d # c => call[d] \notin Inside
    BY <1>0, <1>4 DEF ExitEmit, Goto, Inside
  <2> QED BY <1>0, <1>4, <2>1 DEF Started, Inside, EmitStart
<1>5. CASE Spawn(c) \/ SpawnFails(c) \/ WgWait(c) \/ CmdWait(c) \/ Report(c)
  BY <1>0, <1>5 DEF Spawn, SpawnFails, WgWait, CmdWait, Report, Goto, Started, EmitStart, ExitEmit
<1>6. CASE ExitStore(c)
  BY <1>0, <1>6 DEF ExitStore, Goto, Started, EmitStart, ExitEmit
<1>7. CASE \E s \in Stream : ForwardLine(c, s)
  BY <1>7 DEF ForwardLine, serviceVars, Started, EmitStart, ExitEmit
<1> QED
  BY <1>2, <1>3, <1>4, <1>5, <1>6, <1>7 DEF Service

\* What a step of the service appends.
LEMMA AppendedEvent ==
    ASSUME EnvShapes, NEW c \in Op, Call(c) \/ Service(c)
    PROVE  \/ EmitStart(c) /\ events' = Append(events, Ev("start", c, "none"))
           \/ ExitEmit(c) /\ events' = Append(events, Ev("end", c, "none"))
           \/ \E s \in Stream : /\ ForwardLine(c, s) /\ ~EmitStart(c) /\ ~ExitEmit(c)
                                /\ Head(pipe[s]) = Short
                                /\ events' = Append(events, Ev("log", c, s))
           \/ ~EmitStart(c) /\ ~ExitEmit(c) /\ UNCHANGED events
  BY DEF Service, Call, Reject, TryEnter, Refuse, EmitStart, Spawn, SpawnFails, ForwardLine, WgWait,
         CmdWait, Report, ExitEmit, ExitStore, Emit

LEMMA ServiceMarked ==
    ASSUME EnvShapes, OneAtATime, Marked, NEW c \in Op, Call(c) \/ Service(c)
    PROVE  Marked'
<1>0. /\ MarksTell /\ PaneTells /\ page' = page /\ events \in Seq(Event) /\ page.heard \subseteq Op
      /\ Len(events) \in Nat /\ \A i \in 1..Len(events) : events[i] \in Event /\ events[i].op \in Op
  <2>1. events \in Seq(Event) /\ page.heard \subseteq Op
    BY DEF EnvShapes
  <2>2. \A e \in Event : e.op \in Op
    BY DEF Event
  <2> QED BY <2>1, <2>2, ServiceShapes DEF Marked
<1>1. \A d \in Op : call[d] \notin {"ready", "called", "entered"} =>
                      call'[d] \notin {"ready", "called", "entered"}
  BY StartedIs
<1>2. /\ \A d \in page.heard : call'[d] \notin {"ready", "called", "entered"}
      /\ \A i \in 1..Len(events) : call'[events[i].op] \notin {"ready", "called", "entered"}
  BY <1>0, <1>1 DEF PaneTells, MarksTell
<1>3. CASE EmitStart(c) /\ events' = Append(events, Ev("start", c, "none"))
  <2> DEFINE e == Ev("start", c, "none")
  <2>1. e \in Event /\ e.type = "start" /\ e.op = c /\ Mark(e)
    BY EvIs DEF Mark
  <2>2. Started = {} /\ Started' = {c} /\ call[c] = "entered" /\ call'[c] = "spawn"
    BY <1>3, StartedIs DEF EmitStart, Goto, EnvShapes
  <2>3. events' = Append(events, e)
    BY <1>3
  <2> HIDE DEF e
  <2>4. /\ ~NoMark' /\ events'[Len(events) + 1] = e
        /\ \A i \in 1..Len(events') : LastMark(i)' <=> i = Len(events) + 1
        /\ \A i \in 1..Len(events) : events'[i] = events[i]
        /\ \A i \in 1..Len(events') : i \in 1..Len(events) \/ i = Len(events) + 1
    BY <1>0, <2>1, <2>3, MarkAppend
  <2>5. \A i \in 1..Len(events) : events[i].op # c
    BY <1>0, <2>2 DEF MarksTell
  <2>6. MarksTell'
    <3>1. ASSUME NEW i \in 1..Len(events')
          PROVE  /\ LastMark(i)' => events'[i].type # "end" /\ events'[i].op \in Started'
                 /\ events'[i].type = "start" /\ events'[i].op \in Started' => LastMark(i)'
                 /\ call'[events'[i].op] \notin {"ready", "called", "entered"}
      <4>1. CASE i = Len(events) + 1
        BY <2>1, <2>2, <2>4, <4>1
      <4>2. CASE i # Len(events) + 1
        BY <1>2, <2>2, <2>4, <2>5, <4>2
      <4> QED BY <4>1, <4>2
    <3> QED BY <3>1 DEF MarksTell
  <2>7. PaneTells'
    BY <1>0, <1>2, <2>2, <2>4 DEF PaneTells
  <2> QED BY <2>6, <2>7 DEF Marked
<1>4. CASE ExitEmit(c) /\ events' = Append(events, Ev("end", c, "none"))
  <2> DEFINE e == Ev("end", c, "none")
  <2>1. e \in Event /\ e.type = "end" /\ e.op = c /\ Mark(e)
    BY EvIs DEF Mark
  <2>2. Started' = {} /\ call'[c] = "leave"
    BY <1>4, StartedIs DEF ExitEmit, Goto, EnvShapes
  <2>3. events' = Append(events, e)
    BY <1>4
  <2> HIDE DEF e
  <2>4. /\ ~NoMark' /\ events'[Len(events) + 1] = e
        /\ \A i \in 1..Len(events') : LastMark(i)' <=> i = Len(events) + 1
        /\ \A i \in 1..Len(events) : events'[i] = events[i]
        /\ \A i \in 1..Len(events') : i \in 1..Len(events) \/ i = Len(events) + 1
    BY <1>0, <2>1, <2>3, MarkAppend
  <2>5. MarksTell'
    <3>1. ASSUME NEW i \in 1..Len(events')
          PROVE  /\ call'[events'[i].op] \notin {"ready", "called", "entered"}
                 /\ LastMark(i)' => events'[i].type = "end"
      <4>1. CASE i = Len(events) + 1
        BY <2>1, <2>2, <2>4, <4>1
      <4>2. CASE i # Len(events) + 1
        BY <1>2, <2>4, <4>2
      <4> QED BY <4>1, <4>2
    <3> QED BY <2>2, <3>1 DEF MarksTell
  <2>6. PaneTells'
    BY <1>0, <1>2, <2>2, <2>4 DEF PaneTells
  <2> QED BY <2>5, <2>6 DEF Marked
<1>5. ASSUME NEW s \in Stream, ForwardLine(c, s), ~EmitStart(c), ~ExitEmit(c),
             events' = Append(events, Ev("log", c, s))
      PROVE  Marked'
  <2> DEFINE e == Ev("log", c, s)
  <2>1. e \in Event /\ e.type = "log" /\ e.op = c /\ ~Mark(e)
    BY EvIs DEF Mark
  <2>2. Started' = Started /\ call' = call /\ call[c] = "streaming"
    BY <1>5, StartedIs DEF ForwardLine, serviceVars
  <2>3. events' = Append(events, e)
    BY <1>5
  <2> HIDE DEF e
  <2>4. /\ (NoMark' <=> NoMark) /\ events'[Len(events) + 1] = e
        /\ \A i \in 1..Len(events') : LastMark(i)' => LastMark(i)
        /\ \A i \in 1..Len(events) : LastMark(i) => LastMark(i)'
        /\ \A i \in 1..Len(events) : events'[i] = events[i]
        /\ \A i \in 1..Len(events') : i \in 1..Len(events) \/ i = Len(events) + 1
    BY <1>0, <2>1, <2>3, MarkAppend
  <2>5. \A i : LastMark(i) => i \in 1..Len(events)
    BY DEF LastMark
  <2>6. MarksTell'
    <3>1. ASSUME NEW i \in 1..Len(events')
          PROVE  /\ LastMark(i)' => IF events'[i].type = "end" THEN Started' = {}
                                                              ELSE events'[i].op \in Started'
                 /\ events'[i].type = "start" /\ events'[i].op \in Started' => LastMark(i)'
                 /\ call'[events'[i].op] \notin {"ready", "called", "entered"}
      <4>1. CASE i \in 1..Len(events)
        <5>1. events'[i] = events[i] /\ (LastMark(i)' => LastMark(i)) /\ (LastMark(i) => LastMark(i)')
          BY <2>4, <4>1
        <5> QED BY <1>0, <2>2, <4>1, <5>1 DEF MarksTell
      <4>2. CASE i \notin 1..Len(events)
        BY <2>1, <2>2, <2>4, <2>5, <4>2
      <4> QED BY <4>1, <4>2
    <3> QED BY <3>1 DEF MarksTell
  <2>7. PaneTells'
    BY <1>0, <1>2, <2>2, <2>4 DEF PaneTells
  <2> QED BY <2>6, <2>7 DEF Marked
<1>6. CASE ~EmitStart(c) /\ ~ExitEmit(c) /\ UNCHANGED events
  <2>1. Started' = Started
    BY <1>6, StartedIs
  <2> QED BY <1>0, <1>2, <1>6, <2>1 DEF Marked, MarksTell, PaneTells, LastMark, NoMark, Mark
<1> QED
  BY <1>3, <1>4, <1>5, <1>6, AppendedEvent

LEMMA MarkedNext == EnvShapes /\ OneAtATime /\ Marked /\ [Next]_vars => Marked'
<1> SUFFICES ASSUME EnvShapes, OneAtATime, Marked, [Next]_vars PROVE Marked'
  OBVIOUS
<1>0. page.heard \subseteq Op /\ events \in Seq(Event) /\ MarksTell /\ PaneTells
      /\ page \in [mounted : BOOLEAN, listening : BOOLEAN, asked : BOOLEAN, busy : BOOLEAN,
                   lines : [Stream -> Nat], packages : {-1} \cup Nat,
                   heard : SUBSET Op, spoiled : BOOLEAN]
  BY DEF EnvShapes, Marked
<1>1. ASSUME UNCHANGED <<serviceVars, events>> PROVE MarksTell' /\ (NoMark' <=> NoMark) /\ Started' = Started /\ call' = call
  BY <1>0, <1>1 DEF MarksTell, LastMark, NoMark, Mark, Started, serviceVars
<1>2. ASSUME UNCHANGED <<serviceVars, events>>, page'.busy = page.busy, page'.heard = page.heard,
             page'.listening = page.listening
      PROVE  Marked'
  BY <1>0, <1>1, <1>2 DEF Marked, PaneTells
<1>3. CASE Command \/ UNCHANGED vars
  BY <1>2, <1>3, CommandShapes DEF vars, pageVars
<1>4. CASE Pane
  <2>0. UNCHANGED <<serviceVars, events>>
    BY <1>4, PaneShapes
  <2>1. CASE Mount \/ Unmount
    <3>1. page'.listening = FALSE /\ page'.busy = FALSE /\ page'.heard = {}
      BY <2>1 DEF Mount, Unmount, Mounted
    <3> QED BY <1>1, <2>0, <3>1 DEF Marked, PaneTells
  <2>2. CASE Subscribe
    <3>1. ~page.listening /\ page'.busy = page.busy /\ page'.heard = page.heard
      BY <1>0, <2>2 DEF Subscribe
    <3>2. ~page'.busy /\ page'.heard = {}
      BY <1>0, <3>1 DEF PaneTells
    <3> QED BY <1>1, <2>0, <3>2 DEF Marked, PaneTells
  <2>3. CASE LoadPackages \/ \E f \in Fetch : Listing(f)
    <3>1. page'.busy = page.busy /\ page'.heard = page.heard /\ page'.listening = page.listening
      BY <1>0, <2>3 DEF LoadPackages, Listing, ListReads, SetPackages, ListFails
    <3> QED BY <1>2, <2>0, <3>1
  <2> QED BY <1>4, <2>1, <2>2, <2>3 DEF Pane
<1>5. CASE Deliver
  <2> DEFINE e == Head(events)
  <2>0. /\ UNCHANGED <<serviceVars, commandVars>> /\ events # <<>> /\ events' = Tail(events)
        /\ e \in Event /\ page'.listening = page.listening
    BY <1>5, DeliverIs
  <2>1. /\ Len(events) \in Nat \ {0} /\ Len(events') = Len(events) - 1
        /\ e = events[1] /\ 1 \in 1..Len(events)
        /\ \A i \in 1..Len(events') : i + 1 \in 1..Len(events) /\ events'[i] = events[i + 1]
        /\ \A i \in 1..Len(events') : LastMark(i)' <=> LastMark(i + 1)
        /\ NoMark' /\ Mark(e) => LastMark(1)
        /\ NoMark' /\ ~Mark(e) => NoMark
        /\ NoMark => NoMark'
        /\ LastMark(1) => NoMark'
    BY <1>0, <2>0, MarkTail
  <2>2. /\ call' = call /\ Started' = Started
        /\ e.op \in Op /\ e.type \in {"start", "log", "end"}
        /\ NoMark => ~Mark(e)
    BY <2>0, <2>1 DEF serviceVars, Started, Event, NoMark
  <2>3. /\ ~page.listening => page'.busy = page.busy /\ page'.heard = page.heard
        /\ page.listening /\ e.type = "start" =>
             page'.busy = TRUE /\ page'.heard = page.heard \cup {e.op}
        /\ page.listening /\ e.type = "log" => page'.busy = page.busy /\ page'.heard = page.heard
        /\ page.listening /\ e.type = "end" =>
             page'.busy = FALSE /\ page'.heard = page.heard \ {e.op}
    BY <1>5, DeliverIs
  <2> HIDE DEF e
  <2>4. MarksTell'
    <3>1. ASSUME NEW i \in 1..Len(events')
          PROVE  /\ LastMark(i)' => IF events'[i].type = "end" THEN Started' = {}
                                                              ELSE events'[i].op \in Started'
                 /\ events'[i].type = "start" /\ events'[i].op \in Started' => LastMark(i)'
                 /\ call'[events'[i].op] \notin {"ready", "called", "entered"}
      <4>1. /\ i + 1 \in 1..Len(events) /\ events'[i] = events[i + 1]
            /\ LastMark(i)' <=> LastMark(i + 1)
        BY <2>1
      <4> QED BY <1>0, <2>2, <4>1 DEF MarksTell
    <3> QED BY <3>1 DEF MarksTell
  <2>5. PaneTells'
    <3>1. CASE ~page.listening
      BY <1>0, <2>0, <2>2, <2>3, <3>1 DEF PaneTells
    <3>2. CASE page.listening /\ e.type = "start"
      <4>1. /\ LastMark(1) => e.op \in Started
            /\ e.op \in Started => LastMark(1)
            /\ call[e.op] \notin {"ready", "called", "entered"} /\ Mark(e)
        BY <1>0, <2>1, <3>2 DEF MarksTell, Mark
      <4> QED BY <1>0, <2>0, <2>1, <2>2, <2>3, <3>2, <4>1 DEF PaneTells
    <3>3. CASE page.listening /\ e.type = "log"
      <4>1. ~Mark(e)
        BY <3>3 DEF Mark
      <4> QED BY <1>0, <2>0, <2>1, <2>2, <2>3, <3>3, <4>1 DEF PaneTells
    <3>4. CASE page.listening /\ e.type = "end"
      <4>1. Mark(e) /\ (LastMark(1) => Started = {})
        BY <1>0, <2>1, <3>4 DEF MarksTell, Mark
      <4> QED BY <1>0, <2>0, <2>1, <2>2, <2>3, <3>4, <4>1 DEF PaneTells
    <3> QED BY <2>2, <3>1, <3>2, <3>3, <3>4
  <2> QED BY <2>4, <2>5 DEF Marked
<1> QED
  BY <1>3, <1>4, <1>5, EnvSteps, ServiceMarked

\* How the lines on their way are counted when an event is appended or handled.
LEMMA BehindAppend ==
    ASSUME events \in Seq(Event), NEW e \in Event, events' = Append(events, e), NEW s \in Stream
    PROVE  /\ \A i \in 0..Len(events) :
                /\ Behind(i, s) \in Nat
                /\ Behind(i, s)' = Behind(i, s) + (IF e.type = "log" /\ e.stream = s THEN 1 ELSE 0)
           /\ \A i \in Nat : i = Len(events) + 1 => Behind(i, s)' = 0
<1>1. e \in Lines(s) <=> e.type = "log" /\ e.stream = s
  BY DEF Lines
<1>2. Len(events) \in Nat /\ events' \in Seq(Event) /\ Len(events') = Len(events) + 1
  BY AppendProperties
<1>3. ASSUME NEW i \in 0..Len(events)
      PROVE  /\ After(events, i, Lines(s)) \in Nat
             /\ After(events', i, Lines(s)) = After(events, i, Lines(s)) + (IF e \in Lines(s) THEN 1 ELSE 0)
  <2>1. i \in Nat
    BY <1>2
  <2> QED BY <2>1, AfterType, AfterAppend
<1>4. ASSUME NEW i \in Nat, i = Len(events) + 1 PROVE After(events', i, Lines(s)) = 0
  <2>1. i >= Len(events')
    BY <1>2, <1>4
  <2> QED BY <1>2, <2>1, AfterType
<1> QED
  BY <1>1, <1>3, <1>4 DEF Behind

LEMMA BehindTail ==
    ASSUME events \in Seq(Event), events # <<>>, events' = Tail(events), NEW s \in Stream
    PROVE  /\ \A i \in Nat : Behind(i, s) \in Nat /\ Behind(i, s)' = Behind(i + 1, s)
           /\ Behind(0, s) = Behind(1, s) + (IF Head(events).type = "log" /\ Head(events).stream = s
                                             THEN 1 ELSE 0)
<1>1. Head(events) \in Lines(s) <=> Head(events).type = "log" /\ Head(events).stream = s
  BY HeadTailProperties DEF Lines
<1>2. ASSUME NEW i \in Nat
      PROVE  /\ After(events, i, Lines(s)) \in Nat
             /\ After(events', i, Lines(s)) = After(events, i + 1, Lines(s))
  BY AfterType, AfterTail
<1>3. After(events, 0, Lines(s)) = After(events, 1, Lines(s)) + (IF Head(events) \in Lines(s) THEN 1 ELSE 0)
  BY AfterHead
<1> QED
  BY <1>1, <1>2, <1>3 DEF Behind

\* No line is lost between the command and the pane.
LEMMA ServiceAccounted ==
    ASSUME EnvShapes, OneAtATime, Lives, Marked, Accounted, NEW c \in Op, Call(c) \/ Service(c)
    PROVE  Accounted'
<1>0. /\ call \in [Op -> {"ready", "called", "entered", "spawn", "streaming", "waiting",
                          "report", "exit", "leave", "returned"}]
      /\ pipe \in [Stream -> Seq({Short, Long})] /\ written \in [Stream -> Nat]
      /\ scanner \in [Stream -> {"done", "reading", "gaveUp"}] /\ events \in Seq(Event)
      /\ \A s \in Stream : page.lines[s] \in Nat
      /\ page' = page /\ Len(events) \in Nat /\ c # Idle
      /\ \A d \in Op : call[d] \in Inside <=> op = d
  BY ServiceShapes DEF EnvShapes, OneAtATime, Idle, Op
<1>1. ASSUME UNCHANGED <<events, pipe, written>>, Started' = Started, GaveUp => GaveUp'
      PROVE  Accounted'
  BY <1>0, <1>1 DEF Accounted, Behind
<1>2. CASE Call(c) \/ Reject(c) \/ TryEnter(c) \/ Refuse(c) \/ SpawnFails(c) \/ WgWait(c) \/ Report(c)
  <2>1. UNCHANGED <<events, pipe, written, scanner>> /\ ~EmitStart(c) /\ ~ExitEmit(c)
    BY <1>2 DEF Call, Reject, TryEnter, Refuse, SpawnFails, WgWait, Report, EmitStart, ExitEmit,
                commandVars
  <2> QED BY <1>1, <2>1, StartedIs DEF GaveUp
<1>3. CASE Spawn(c)
  <2>1. call[c] = "spawn" /\ op = c /\ UNCHANGED <<events, pipe, written>> /\ ~EmitStart(c) /\ ~ExitEmit(c)
    BY <1>0, <1>3 DEF Spawn, EmitStart, ExitEmit, Inside
  <2>2. ~GaveUp
    BY <2>1 DEF Lives, GaveUp
  <2> QED BY <1>1, <2>1, <2>2, StartedIs
<1>4. CASE CmdWait(c)
  <2>1. /\ call[c] = "waiting" /\ op = c /\ UNCHANGED <<events, scanner, written>>
        /\ pipe' = [s \in Stream |-> <<>>] /\ ~EmitStart(c) /\ ~ExitEmit(c)
    BY <1>0, <1>4 DEF CmdWait, EmitStart, ExitEmit, Inside
  <2>2. CASE GaveUp
    BY <2>1, <2>2 DEF GaveUp, Accounted
  <2>3. CASE ~GaveUp
    <3>1. \A s \in Stream : pipe[s] = <<>>
      BY <1>0, <2>1, <2>3 DEF Lives, GaveUp
    <3>2. pipe' = pipe
      BY <1>0, <2>1, <3>1
    <3> QED BY <1>1, <2>1, <2>3, <3>2, StartedIs
  <2> QED BY <2>2, <2>3
<1>5. CASE EmitStart(c)
  <2> DEFINE e == Ev("start", c, "none")
  <2>1. e \in Event /\ e.type = "start" /\ e.op = c
    BY EvIs
  <2>2. /\ events' = Append(events, e) /\ UNCHANGED <<pipe, written>> /\ call[c] = "entered"
        /\ op = c /\ Started' = {c}
    BY <1>0, <1>5, StartedIs DEF EmitStart, Emit, commandVars
  <2> HIDE DEF e
  <2>3. written = NoLines /\ \A s \in Stream : Len(pipe[s]) = 0
    BY <1>0, <2>2, EmptySeq DEF Lives
  <2>4. ASSUME NEW i \in 1..Len(events'), i = Len(events) + 1, NEW s \in Stream
        PROVE  Behind(i, s)' = 0 /\ written[s] = 0
    BY <1>0, <2>1, <2>2, <2>3, <2>4, BehindAppend DEF NoLines
  <2>5. /\ Len(events') = Len(events) + 1
        /\ \A i \in 1..Len(events) : events'[i] = events[i] /\ events[i].op # c
    BY <1>0, <2>1, <2>2, AppendProperties DEF Marked, MarksTell
  <2>6. \A i \in 1..Len(events') : events'[i].op \in Started' => i = Len(events) + 1
    <3> SUFFICES ASSUME NEW i \in 1..Len(events'), i # Len(events) + 1
                 PROVE  events'[i].op \notin Started'
      OBVIOUS
    <3>1. Len(events) \in Nat
      BY <1>0, LenProperties
    <3>2. i \in 1..Len(events)
      BY <2>5, <3>1
    <3>3. events'[i] = events[i] /\ events[i].op # c
      BY <2>5, <3>2
    <3>4. Started' = {c}
      BY <2>2
    <3> QED BY <3>3, <3>4
  <2>7. Started' \cap page'.heard = {}
    BY <1>0, <2>2 DEF Marked, PaneTells
  <2> QED BY <2>2, <2>3, <2>4, <2>6, <2>7 DEF Accounted
<1>6. ASSUME NEW s \in Stream, ForwardLine(c, s) PROVE Accounted'
  <2>1. CASE Head(pipe[s]) = Short
    <3> DEFINE e == Ev("log", c, s)
    <3>1. e \in Event /\ e.type = "log" /\ e.stream = s
      BY EvIs
    <3>2. /\ events' = Append(events, e) /\ pipe' = [pipe EXCEPT ![s] = Tail(@)] /\ pipe[s] # <<>>
          /\ UNCHANGED <<scanner, written>> /\ Started' = Started
      BY <1>6, <2>1 DEF ForwardLine, Emit, serviceVars, Started
    <3> HIDE DEF e
    <3>3. ASSUME NEW u \in Stream
          PROVE  /\ \A i \in 0..Len(events) :
                      Behind(i, u)' + Len(pipe'[u]) = Behind(i, u) + Len(pipe[u]) /\ Behind(i, u) \in Nat
                 /\ Len(pipe[u]) \in Nat /\ Len(pipe'[u]) \in Nat
                 /\ \A i \in 0..Len(events) : Behind(i, u)' \in Nat
      <4>1. \A i \in 0..Len(events) :
              /\ Behind(i, u) \in Nat
              /\ Behind(i, u)' = Behind(i, u) + (IF e.type = "log" /\ e.stream = u THEN 1 ELSE 0)
        BY <1>0, <3>1, <3>2, BehindAppend
      <4>2. Len(pipe'[u]) = Len(pipe[u]) - (IF u = s THEN 1 ELSE 0)
        <5>1. pipe[s] \in Seq({Short, Long}) /\ Len(Tail(pipe[s])) = Len(pipe[s]) - 1
          BY <1>0, <3>2, HeadTailProperties
        <5>2. pipe[u] \in Seq({Short, Long}) /\ Len(pipe[u]) \in Nat
          BY <1>0
        <5> QED BY <1>0, <3>2, <5>1, <5>2
      <4>3. Len(pipe[u]) \in Nat /\ (u = s => Len(pipe[u]) > 0)
        BY <1>0, <3>2, EmptySeq
      <4>4. ASSUME NEW i \in 0..Len(events)
            PROVE  Behind(i, u)' + Len(pipe'[u]) = Behind(i, u) + Len(pipe[u]) /\ Behind(i, u)' \in Nat
        <5>1. CASE u = s
          BY <3>1, <4>1, <4>2, <4>3, <5>1
        <5>2. CASE u # s
          BY <3>1, <4>1, <4>2, <4>3, <5>2
        <5> QED BY <5>1, <5>2
      <4>5. Len(pipe'[u]) \in Nat
        BY <4>2, <4>3
      <4> QED BY <4>1, <4>3, <4>4, <4>5
    <3>4. /\ Len(events') = Len(events) + 1 /\ events'[Len(events) + 1] = e
          /\ \A i \in 1..Len(events) : events'[i] = events[i]
      BY <1>0, <3>1, <3>2, AppendProperties
    <3>5. GaveUp' <=> GaveUp
      BY <3>2 DEF GaveUp
    <3>6. ASSUME ~GaveUp, NEW i \in 1..Len(events'), events'[i].type = "start",
                 events'[i].op \in Started, NEW u \in Stream
          PROVE  Behind(i, u)' + Len(pipe'[u]) = written[u]
      <4>1. i \in 1..Len(events) /\ i \in 0..Len(events) /\ events'[i] = events[i]
        BY <1>0, <3>1, <3>4, <3>6
      <4> QED BY <3>3, <3>6, <4>1 DEF Accounted
    <3>7. ASSUME ~GaveUp, Started \cap page.heard # {}, NEW u \in Stream
          PROVE  page.lines[u] + Behind(0, u)' + Len(pipe'[u]) = written[u]
      <4>1. page.lines[u] + Behind(0, u) + Len(pipe[u]) = written[u] /\ 0 \in 0..Len(events)
        BY <1>0, <3>7 DEF Accounted
      <4>2. /\ Behind(0, u)' + Len(pipe'[u]) = Behind(0, u) + Len(pipe[u]) /\ Behind(0, u) \in Nat
            /\ Len(pipe[u]) \in Nat /\ Len(pipe'[u]) \in Nat /\ Behind(0, u)' \in Nat
            /\ page.lines[u] \in Nat
        BY <1>0, <3>3, <4>1
      <4>3. PICK b \in Nat : b = Behind(0, u)'
        BY <4>2
      <4>4. PICK q \in Nat : q = Len(pipe'[u])
        BY <4>2
      <4>5. b + q = Behind(0, u) + Len(pipe[u])
        BY <4>2, <4>3, <4>4
      <4>6. page.lines[u] + b + q = page.lines[u] + Behind(0, u) + Len(pipe[u])
        <5>1. PICK a \in Nat : a = page.lines[u]
          BY <4>2
        <5>2. PICK b1 \in Nat : b1 = Behind(0, u)
          BY <4>2
        <5>3. PICK q1 \in Nat : q1 = Len(pipe[u])
          BY <4>2
        <5>4. b + q = b1 + q1
          BY <4>5, <5>2, <5>3
        <5>5. a + b + q = a + b1 + q1
          BY <5>4
        <5> QED BY <5>1, <5>2, <5>3, <5>5
      <4>7. page.lines[u] + b + q = written[u]
        BY <4>1, <4>6
      <4> QED BY <4>3, <4>4, <4>7
    <3> QED BY <1>0, <3>2, <3>5, <3>6, <3>7 DEF Accounted
  <2>2. CASE Head(pipe[s]) # Short
    BY <1>0, <1>6, <2>2 DEF ForwardLine, GaveUp, Accounted
  <2> QED BY <2>1, <2>2
<1>7. CASE ExitEmit(c)
  BY <1>7, StartedIs DEF Accounted
<1>8. CASE ExitStore(c)
  <2>1. call[c] = "leave" /\ call' = [call EXCEPT ![c] = "returned"] /\ op = c
    BY <1>0, <1>8 DEF ExitStore, Goto, Inside
  <2>2. Started' = {}
    BY <1>0, <2>1 DEF Started, Inside
  <2> QED BY <2>2 DEF Accounted
<1> QED
  BY <1>2, <1>3, <1>4, <1>5, <1>6, <1>7, <1>8 DEF Service

LEMMA AccountedNext == EnvShapes /\ OneAtATime /\ Lives /\ Marked /\ Accounted /\ [Next]_vars => Accounted'
<1> SUFFICES ASSUME EnvShapes, OneAtATime, Lives, Marked, Accounted, [Next]_vars PROVE Accounted'
  OBVIOUS
<1>0. /\ pipe \in [Stream -> Seq({Short, Long})] /\ written \in [Stream -> Nat]
      /\ scanner \in [Stream -> {"done", "reading", "gaveUp"}] /\ events \in Seq(Event)
      /\ \A s \in Stream : page.lines[s] \in Nat
      /\ page.heard \subseteq Op /\ Len(events) \in Nat
  BY DEF EnvShapes
<1>b. \A s \in Stream : \A i \in Nat : Behind(i, s) \in Nat
  BY <1>0, AfterType DEF Behind
<1>1. ASSUME UNCHANGED <<call, events, pipe, written>>, GaveUp => GaveUp',
             page'.heard = {} \/ (page'.heard = page.heard /\ page'.lines = page.lines)
      PROVE  Accounted'
  <2>1. Started' = Started
    BY <1>1 DEF Started
  <2> QED BY <1>1, <2>1 DEF Accounted, Behind
<1>2. CASE Command
  <2>0. UNCHANGED <<call, events, page>>
    BY <1>2, CommandShapes DEF serviceVars, pageVars
  <2>1. CASE CmdExits
    BY <1>1, <2>0, <2>1 DEF CmdExits, GaveUp
  <2>4. CASE Children
    BY <1>1, <2>0, <2>4, ChildrenAre DEF GaveUp
  <2>2. ASSUME NEW s \in Stream, ForwardEnds(s) \/ CmdPrints(s) PROVE Accounted'
    <3>1. UNCHANGED <<pipe, written>> /\ (GaveUp => GaveUp')
      BY <1>0, <2>2 DEF ForwardEnds, CmdPrints, GaveUp
    <3> QED BY <1>1, <2>0, <3>1
  <2>3. ASSUME NEW s \in Stream, CmdWrites(s) PROVE Accounted'
    <3>1. PICK l \in {Short, Long} : pipe' = [pipe EXCEPT ![s] = Append(pipe[s], l)]
      BY <2>3 DEF CmdWrites
    <3>2. scanner' = scanner /\ written' = [written EXCEPT ![s] = @ + 1]
      BY <2>3 DEF CmdWrites
    \* The line is in the pipe and counted as written.
    <3>3. ASSUME NEW u \in Stream, NEW n \in Nat, n + Len(pipe[u]) = written[u]
          PROVE  n + Len(pipe'[u]) = written'[u]
      <4>1. pipe[u] \in Seq({Short, Long}) /\ Len(pipe[u]) \in Nat /\ written[u] \in Nat
        BY <1>0
      <4>2. CASE u = s
        <5>1. Len(pipe'[u]) = Len(pipe[u]) + 1
          BY <1>0, <3>1, <4>1, <4>2, AppendProperties
        <5>2. written'[u] = written[u] + 1
          BY <1>0, <3>2, <4>2
        <5> QED BY <3>3, <4>1, <5>1, <5>2
      <4>3. CASE u # s
        BY <1>0, <3>1, <3>2, <3>3, <4>3
      <4> QED BY <4>2, <4>3
    <3>4. Started' = Started /\ events' = events /\ page' = page /\ (GaveUp' <=> GaveUp)
      BY <2>0, <3>2 DEF Started, GaveUp
    <3>5. ASSUME ~GaveUp, NEW i \in 1..Len(events), events[i].type = "start",
                 events[i].op \in Started, NEW u \in Stream
          PROVE  Behind(i, u) + Len(pipe'[u]) = written'[u]
      <4>1. PICK n \in Nat : n = Behind(i, u)
        BY <1>b
      <4>2. n + Len(pipe[u]) = written[u]
        BY <3>5, <4>1 DEF Accounted
      <4> QED BY <3>3, <4>1, <4>2
    <3>6. ASSUME ~GaveUp, Started \cap page.heard # {}, NEW u \in Stream
          PROVE  page.lines[u] + Behind(0, u) + Len(pipe'[u]) = written'[u]
      <4>0. page.lines[u] \in Nat /\ Behind(0, u) \in Nat
        BY <1>0, <1>b
      <4>1. PICK n \in Nat : n = page.lines[u] + Behind(0, u)
        BY <4>0
      <4>2. n + Len(pipe[u]) = written[u]
        BY <3>6, <4>1 DEF Accounted
      <4> QED BY <3>3, <4>1, <4>2
    <3>7. \A i, u : Behind(i, u)' = Behind(i, u)
      BY <3>4 DEF Behind, Lines
    <3> QED BY <3>4, <3>5, <3>6, <3>7 DEF Accounted
  <2> QED BY <1>2, <2>1, <2>2, <2>3, <2>4 DEF Command
<1>3. CASE Pane
  <2>0. UNCHANGED <<call, events, pipe, written, scanner>>
    BY <1>3, PaneShapes DEF serviceVars, commandVars
  <2>1. page'.heard = {} \/ (page'.heard = page.heard /\ page'.lines = page.lines)
    <3>1. CASE Mount \/ Unmount
      BY <3>1 DEF Mount, Unmount, Mounted
    <3>2. CASE Subscribe \/ LoadPackages \/ \E f \in Fetch : Listing(f)
      BY <3>2 DEF Subscribe, LoadPackages, Listing, ListReads, SetPackages, ListFails, EnvShapes
    <3> QED BY <1>3, <3>1, <3>2 DEF Pane
  <2> QED BY <1>1, <2>0, <2>1 DEF GaveUp
<1>4. CASE Deliver
  <2> DEFINE e == Head(events)
  <2>0. /\ UNCHANGED <<call, pipe, written, scanner>> /\ events # <<>> /\ events' = Tail(events)
        /\ e \in Event /\ page'.listening = page.listening
    BY <1>4, DeliverIs DEF serviceVars, commandVars
  <2>1. /\ e = events[1] /\ 1 \in 1..Len(events)
        /\ \A i \in 1..Len(events') : i + 1 \in 1..Len(events) /\ events'[i] = events[i + 1]
        /\ LastMark(1) => NoMark'
    BY <1>0, <2>0, MarkTail
  <2>2. /\ Started' = Started /\ (GaveUp' <=> GaveUp)
        /\ e.op \in Op /\ e.type \in {"start", "log", "end"}
        /\ NoMark => e.type = "log"
    BY <2>0, <2>1 DEF Started, GaveUp, Event, NoMark, Mark
  <2>3. /\ ~page.listening => page'.heard = page.heard
        /\ page.listening /\ e.type = "start" =>
             page'.heard = page.heard \cup {e.op} /\ page'.lines = NoLines
        /\ page.listening /\ e.type = "log" =>
             page'.heard = page.heard /\ page'.lines = [page.lines EXCEPT ![e.stream] = @ + 1]
        /\ page.listening /\ e.type = "end" => page'.heard = page.heard \ {e.op}
    BY <1>4, DeliverIs
  <2>4. \A s \in Stream :
           /\ \A i \in Nat : Behind(i, s)' = Behind(i + 1, s)
           /\ e.type = "log" /\ e.stream = s => Behind(0, s) = Behind(1, s) + 1
           /\ ~(e.type = "log" /\ e.stream = s) => Behind(0, s) = Behind(1, s)
    <3> TAKE s \in Stream
    <3>1. \A i \in Nat : Behind(i, s)' = Behind(i + 1, s)
      BY <1>0, <2>0, BehindTail
    <3>2. /\ Behind(0, s) = Behind(1, s) + (IF e.type = "log" /\ e.stream = s THEN 1 ELSE 0)
          /\ Behind(1, s) \in Nat
      BY <1>0, <1>b, <2>0, BehindTail
    <3> QED BY <3>1, <3>2
  <2> HIDE DEF e
  <2>5. ASSUME ~GaveUp, NEW i \in 1..Len(events'), events'[i].type = "start",
               events'[i].op \in Started, NEW s \in Stream
        PROVE  Behind(i, s)' + Len(pipe[s]) = written[s]
    <3>1. i \in Nat /\ i + 1 \in 1..Len(events) /\ events'[i] = events[i + 1]
      BY <2>1
    <3>2. Behind(i + 1, s) + Len(pipe[s]) = written[s]
      BY <2>5, <3>1 DEF Accounted
    <3> QED BY <2>4, <3>1, <3>2
  <2>6. ASSUME ~GaveUp, Started \cap page'.heard # {}, NEW s \in Stream
        PROVE  page'.lines[s] + Behind(0, s)' + Len(pipe[s]) = written[s]
    <3>0. /\ Behind(0, s)' = Behind(1, s) /\ Behind(0, s) \in Nat /\ Behind(1, s) \in Nat
          /\ Len(pipe[s]) \in Nat /\ page.lines[s] \in Nat /\ written[s] \in Nat
      BY <1>0, <1>b, <2>4
    \* A start that was handled when its operation is busy is the last mark.
    <3>1. CASE page.listening /\ e.type = "start"
      <4>1. page.heard \cap Started = {} /\ e.op \in Started
        BY <2>2, <2>3, <2>6, <3>1 DEF Marked, PaneTells
      <4>2. Behind(1, s) + Len(pipe[s]) = written[s]
        BY <2>1, <2>6, <3>1, <4>1 DEF Accounted
      <4>3. page'.lines[s] = 0
        BY <2>3, <3>1 DEF NoLines
      <4> QED BY <3>0, <4>2, <4>3
    <3>2. CASE page.listening /\ e.type = "log"
      <4>1. page.lines[s] + Behind(0, s) + Len(pipe[s]) = written[s]
        BY <2>3, <2>6, <3>2 DEF Accounted
      <4>2. page.lines \in [Stream -> Nat]
        BY DEF EnvShapes
      <4>3. PICK a \in Nat : a = page.lines[s]
        BY <3>0
      <4>4. PICK b \in Nat : b = Behind(1, s)
        BY <3>0
      <4>5. PICK q \in Nat : q = Len(pipe[s])
        BY <3>0
      <4>6. CASE e.stream = s
        <5>1. page'.lines[s] = a + 1
          BY <2>3, <3>2, <4>2, <4>3, <4>6
        <5>2. Behind(0, s) = b + 1
          BY <2>4, <3>2, <4>4, <4>6
        <5>3. a + (b + 1) + q = written[s]
          BY <4>1, <4>3, <4>5, <5>2
        <5>4. (a + 1) + b + q = written[s]
          BY <5>3
        <5> QED BY <3>0, <4>4, <4>5, <5>1, <5>4
      <4>7. CASE e.stream # s
        <5>1. page'.lines[s] = a
          BY <2>3, <3>2, <4>2, <4>3, <4>7
        <5>2. Behind(0, s) = b
          BY <2>4, <3>0, <3>2, <4>4, <4>7
        <5> QED BY <3>0, <4>1, <4>3, <4>4, <4>5, <5>1, <5>2
      <4> QED BY <4>6, <4>7
    <3>3. CASE ~page.listening \/ e.type = "end"
      <4>1. page.heard \cap Started # {} /\ page.listening
        BY <2>3, <2>6, <3>3 DEF Marked, PaneTells
      <4> QED BY <2>2, <3>3, <4>1 DEF Marked, PaneTells
    <3> QED BY <2>2, <3>1, <3>2, <3>3
  <2> QED BY <2>0, <2>2, <2>5, <2>6 DEF Accounted
<1>5. CASE UNCHANGED vars
  BY <1>1, <1>5 DEF vars, serviceVars, commandVars, pageVars, GaveUp
<1> QED
  BY <1>2, <1>3, <1>4, <1>5, EnvSteps, ServiceAccounted

\* The only call of ListPackages, just made.
LEMMA AskIs ==
    ASSUME EnvShapes, InFlight = {}, Ask
    PROVE  UpToDate'
<1>1. fetch \in [Fetch -> {Free, Asked} \cup Nat] /\ \A f \in Fetch : fetch[f] = Free
  BY DEF EnvShapes, InFlight
<1>2. NextFree \in Fetch
  BY <1>1, EnvAssumption DEF NextFree
<1>3. fetch' = [fetch EXCEPT ![NextFree] = Asked] /\ Asked # Free
  BY DEF Ask, Asked, Free
<1>4. PICK f \in Fetch : f = NextFree
  BY <1>2
<1>5. fetch'[f] = Asked /\ \A g \in Fetch : g # f => fetch'[g] = Free
  BY <1>1, <1>3, <1>4
<1>6. {g \in Fetch : fetch'[g] # Free} = {f}
  BY <1>3, <1>5
<1> QED
  BY <1>5, <1>6 DEF UpToDate, InFlight

\* A list that will be asked for stays so until the end of the operation is handled.
LEMMA DueStays ==
    /\ \A c \in Op : EnvShapes /\ (Call(c) \/ Service(c)) /\ Due => Due'
    /\ EnvShapes /\ Deliver /\ Head(events).type # "end" /\ Due => Due'
<1>1. ASSUME NEW c \in Op, EnvShapes, Call(c) \/ Service(c), Due PROVE Due'
  <2>0. /\ call \in [Op -> {"ready", "called", "entered", "spawn", "streaming", "waiting",
                            "report", "exit", "leave", "returned"}]
        /\ events \in Seq(Event) /\ Len(events) \in Nat
    BY <1>1 DEF EnvShapes
  <2>1. \A t \in {"start", "log", "end"}, s \in Stream \cup {"none"} :
           Ev(t, c, s) \in Event /\ Ev(t, c, s).type = t
    BY EvIs
  <2>2. events' = events \/ \E e \in Event : events' = Append(events, e)
    BY <1>1, <2>1, AppendedEvent
  <2>3. ASSUME NEW i \in 1..Len(events), events[i].type = "end" PROVE Due'
    <3>1. i \in 1..Len(events') /\ events'[i] = events[i]
      BY <2>0, <2>2, AppendProperties
    <3> QED BY <2>3, <3>1 DEF Due
  <2>4. ASSUME NEW d \in Op, call[d] \in {"streaming", "waiting", "report", "exit"} PROVE Due'
    <3>1. CASE ExitEmit(c)
      <4>1. events' = Append(events, Ev("end", c, "none")) /\ Ev("end", c, "none") \in Event
            /\ Ev("end", c, "none").type = "end"
        BY <2>1, <3>1 DEF ExitEmit, Emit
      <4>2. Len(events') \in 1..Len(events') /\ events'[Len(events')].type = "end"
        BY <2>0, <4>1, AppendProperties
      <4> QED BY <4>2 DEF Due
    <3>2. CASE ~ExitEmit(c)
      <4>1. call'[d] \in {"streaming", "waiting", "report", "exit"}
        BY <1>1, <2>0, <2>4, <3>2
           DEF Service, Call, Reject, TryEnter, Refuse, EmitStart, Spawn, SpawnFails, ForwardLine,
               WgWait, CmdWait, Report, ExitStore, Goto, serviceVars
      <4> QED BY <4>1 DEF Due
    <3> QED BY <3>1, <3>2
  <2> QED BY <1>1, <2>3, <2>4 DEF Due
<1>2. ASSUME EnvShapes, Deliver, Head(events).type # "end", Due PROVE Due'
  <2>0. call' = call /\ events \in Seq(Event) /\ events # <<>> /\ events' = Tail(events)
    BY <1>2, DeliverIs DEF serviceVars, EnvShapes
  <2>1. CASE \E c \in Op : call[c] \in {"streaming", "waiting", "report", "exit"}
    BY <2>0, <2>1 DEF Due
  <2>2. ASSUME NEW i \in 1..Len(events), events[i].type = "end" PROVE Due'
    <3>1. /\ Len(events) \in Nat \ {0} /\ Len(events') = Len(events) - 1 /\ Head(events) = events[1]
          /\ \A j \in 1..(Len(events) - 1) : events'[j] = events[j + 1]
      BY <2>0, EmptySeq, HeadTailProperties
    <3>2. i # 1
      BY <1>2, <2>2, <3>1
    <3>3. i - 1 \in 1..(Len(events) - 1) /\ (i - 1) + 1 = i
      BY <3>1, <3>2
    <3>4. i - 1 \in 1..Len(events') /\ events'[i - 1].type = "end"
      BY <2>2, <3>1, <3>3
    <3> QED BY <3>4 DEF Due
  <2> QED BY <1>2, <2>1, <2>2 DEF Due
<1> QED
  BY <1>1, <1>2

LEMMA ListedNext == EnvShapes /\ Lives /\ Listed /\ [Next]_vars => Listed'
<1> SUFFICES ASSUME EnvShapes, Lives, Listed, [Next]_vars PROVE Listed'
  OBVIOUS
<1>0. /\ fetch \in [Fetch -> {Free, Asked} \cup Nat] /\ venv \in Nat
      /\ page \in [mounted : BOOLEAN, listening : BOOLEAN, asked : BOOLEAN, busy : BOOLEAN,
                   lines : [Stream -> Nat], packages : {-1} \cup Nat,
                   heard : SUBSET Op, spoiled : BOOLEAN]
  BY DEF EnvShapes
<1>1. ASSUME UNCHANGED <<fetch, venv>>, page'.packages = page.packages PROVE UpToDate => UpToDate'
  BY <1>1 DEF UpToDate, InFlight
<1>2. UNCHANGED <<call, events>> => (Due => Due')
  BY DEF Due
<1>3. ASSUME NEW c \in Op, Call(c) \/ Service(c) PROVE Listed'
  BY <1>1, <1>3, ServiceShapes, DueStays DEF Listed
<1>4. CASE Command
  <2>0. UNCHANGED <<call, events, page, fetch>>
    BY <1>4, CommandShapes DEF serviceVars, pageVars
  <2>1. CASE venv' = venv
    BY <1>1, <1>2, <2>0, <2>1 DEF Listed
  \* The venv changes while an operation runs, and its end is to come.
  <2>2. CASE venv' # venv
    <3>1. command = "running"
      BY <1>4, <2>2, ChildrenAre DEF Command, CmdExits, ForwardEnds, CmdPrints, CmdWrites
    <3>2. op \in Op /\ call[op] \in {"streaming", "waiting"}
      BY <3>1 DEF Lives, EnvShapes
    <3> QED BY <1>2, <2>0, <3>2 DEF Listed, Due
  <2> QED BY <2>1, <2>2
<1>5. CASE Pane
  <2>0. UNCHANGED <<call, events, venv>>
    BY <1>5, PaneShapes DEF serviceVars, commandVars
  <2>1. CASE Mount \/ Unmount
    <3>1. page'.asked = FALSE
      BY <2>1 DEF Mount, Unmount, Mounted
    <3> QED BY <3>1 DEF Listed
  <2>2. CASE Subscribe
    <3>1. /\ fetch' = fetch /\ page'.packages = page.packages /\ page'.asked = page.asked
          /\ page'.mounted = page.mounted /\ page'.spoiled = page.spoiled
      BY <1>0, <2>2 DEF Subscribe
    <3> QED BY <1>1, <1>2, <2>0, <3>1 DEF Listed
  <2>3. CASE LoadPackages
    <3>1. page'.mounted /\ Ask /\ (~page'.spoiled => InFlight = {})
      BY <1>0, <2>3 DEF LoadPackages
    <3> QED BY <3>1, AskIs DEF Listed
  <2>4. ASSUME NEW f \in Fetch, ListReads(f) PROVE Listed'
    <3>1. fetch[f] = Asked /\ fetch' = [fetch EXCEPT ![f] = venv] /\ page' = page
      BY <2>4 DEF ListReads
    <3>2. f \in InFlight /\ fetch'[f] = venv /\ venv # Free
      BY <1>0, <3>1 DEF InFlight, Asked, Free
    <3>3. InFlight' = InFlight
      BY <1>0, <3>1, <3>2 DEF InFlight
    <3>4. UpToDate => UpToDate'
      BY <2>0, <3>2, <3>3 DEF UpToDate
    <3> QED BY <1>2, <2>0, <3>1, <3>4 DEF Listed
  <2>5. ASSUME NEW f \in Fetch, SetPackages(f) PROVE Listed'
    <3>1. /\ fetch[f] >= 0 /\ fetch' = [fetch EXCEPT ![f] = Free]
          /\ page'.packages = fetch[f] /\ page'.asked = page.asked
          /\ page'.mounted = page.mounted /\ page'.spoiled = page.spoiled
      BY <1>0, <2>5 DEF SetPackages
    <3>2. f \in InFlight /\ fetch[f] # Asked /\ fetch'[f] = Free
      BY <1>0, <3>1 DEF InFlight, Asked, Free
    <3>3. UpToDate => UpToDate'
      <4>1. UpToDate => InFlight = {f} /\ fetch[f] = venv
        BY <3>2 DEF UpToDate
      <4>2. InFlight = {f} => InFlight' = {}
        BY <1>0, <3>1, <3>2 DEF InFlight
      <4> QED BY <2>0, <3>1, <4>1, <4>2 DEF UpToDate
    <3> QED BY <1>2, <2>0, <3>1, <3>3 DEF Listed
  <2>6. ASSUME NEW f \in Fetch, ListFails(f) PROVE Listed'
    <3>1. page'.spoiled /\ page'.asked = page.asked /\ page'.mounted = page.mounted
      BY <1>0, <2>6 DEF ListFails
    <3> QED BY <3>1 DEF Listed
  <2> QED BY <1>5, <2>1, <2>2, <2>3, <2>4, <2>5, <2>6 DEF Pane, Listing
<1>6. CASE Deliver
  <2> DEFINE e == Head(events)
  <2>0. /\ UNCHANGED <<call, venv>> /\ page'.asked = page.asked /\ page'.mounted = page.mounted
        /\ page'.packages = page.packages /\ e.type \in {"start", "log", "end"}
    BY <1>6, DeliverIs DEF serviceVars, commandVars, Event
  <2>1. /\ page.spoiled => page'.spoiled
        /\ ~page.listening /\ page.mounted /\ e.type = "end" => page'.spoiled
        /\ e.type # "end" => fetch' = fetch
        /\ page.listening /\ e.type = "end" =>
             Ask /\ page'.spoiled = (page.spoiled \/ InFlight # {})
    BY <1>6, <2>0, DeliverIs
  <2>2. e.type # "end" /\ Due => Due'
    BY <1>6, DueStays
  <2> HIDE DEF e
  <2>3. CASE e.type # "end"
    BY <1>1, <2>0, <2>1, <2>2, <2>3 DEF Listed
  <2>4. CASE e.type = "end" /\ page.listening
    BY <2>0, <2>1, <2>4, AskIs DEF Listed
  <2>5. CASE e.type = "end" /\ ~page.listening
    BY <2>0, <2>1, <2>5 DEF Listed
  <2> QED BY <2>3, <2>4, <2>5
<1>7. CASE UNCHANGED vars
  BY <1>1, <1>2, <1>7 DEF vars, serviceVars, commandVars, pageVars, Listed
<1> QED
  BY <1>3, <1>4, <1>5, <1>6, <1>7, EnvSteps

\* What keeps the pane and the service together.
THEOREM EnvInvariant == Spec => []EnvInv
<1>1. EnvInv /\ [Next]_vars => EnvInv'
  BY EnvShapesNext, OneAtATimeNext, LivesNext, MarkedNext, AccountedNext, ListedNext DEF EnvInv
<1> QED
  BY <1>1, EnvInitially, PTL DEF Spec

\* The pane shows an operation it heard of as busy exactly as long as it runs: the end
\* of one operation never comes after the start of the next (tryEnter, exit, useEnv).
THEOREM BusyIsShown == Spec => []BusyFollowsService
<1>1. EnvInv => BusyFollowsService
  <2> SUFFICES ASSUME EnvInv, page.listening, events = <<>>
               PROVE  page.busy <=> Started \cap page.heard # {}
    BY DEF BusyFollowsService
  <2>1. NoMark
    BY EmptySeq DEF NoMark
  <2> QED BY <2>1 DEF EnvInv, Marked, PaneTells
<1> QED
  BY <1>1, EnvInvariant, PTL

\* When an operation reports its outcome the pane shows every line the command wrote,
\* unless a scanner gave up: the pipes are closed when nothing is left in them
\* (runStreamed waits for both scanners before cmd.Wait).
THEOREM EveryLineIsShown == Spec => []LogComplete
<1>1. EnvInv => LogComplete
  <2> SUFFICES ASSUME EnvInv, NEW c \in page.heard, events = <<>>, ~GaveUp, op = c,
                      call[c] \in {"report", "exit"}
               PROVE  page.lines = written
    BY DEF LogComplete
  <2>1. c \in Op /\ c # Idle /\ c \in Started \cap page.heard
    BY DEF EnvInv, EnvShapes, Op, Idle, Started
  <2>2. page.lines \in [Stream -> Nat] /\ written \in [Stream -> Nat]
    BY DEF EnvInv, EnvShapes
  <2>3. ASSUME NEW s \in Stream PROVE page.lines[s] = written[s]
    <3>1. page.lines[s] + Behind(0, s) + Len(pipe[s]) = written[s]
      BY <2>1 DEF EnvInv, Accounted
    <3>2. pipe[s] = <<>>
      BY <2>1 DEF EnvInv, Lives
    <3>3. Len(pipe[s]) = 0 /\ Behind(0, s) = 0
      <4>1. events \in Seq(Event) /\ 0 >= Len(events)
        BY EmptySeq DEF EnvInv, EnvShapes
      <4>2. After(events, 0, Lines(s)) = 0
        BY <4>1, AfterType
      <4> QED BY <3>2, <4>2, EmptySeq DEF Behind
    <3>4. page.lines[s] \in Nat
      BY <2>2
    <3>5. written[s] \in Nat
      BY <2>2
    <3> QED BY <3>1, <3>3, <3>4, <3>5
  <2> QED BY <2>2, <2>3
<1> QED
  BY <1>1, EnvInvariant, PTL

\* A pane at rest lists what is installed: whenever a command changed the venv, a list
\* is asked for after it (loadPackages and onEnd of useEnv, the deferred exit).
THEOREM PackagesAreListed == Spec => []PackagesCurrent
<1>1. EnvInv => PackagesCurrent
  <2> SUFFICES ASSUME EnvInv, page.asked, ~page.spoiled, InFlight = {}, events = <<>>, op = Idle
               PROVE  page.packages = venv
    BY DEF PackagesCurrent, EnvBusy
  <2>1. \A c \in Op : call[c] \notin Inside
    BY DEF EnvInv, OneAtATime, Op, Idle
  <2>2. ~Due
    BY <2>1, EmptySeq DEF Due, Inside
  <2>3. UpToDate
    BY <2>2 DEF EnvInv, Listed
  <2> QED BY <2>3 DEF UpToDate
<1> QED
  BY <1>1, EnvInvariant, PTL

\* Lines are printed before they are written, a pipe holds what fits, and no list of
\* packages is newer than the installed ones.
Writes(s) == IF command = s THEN 1 ELSE 0

EnvTyped ==
    /\ printed \in 0..MaxLines /\ mounts \in 0..MaxMounts
    /\ \A s \in Stream : written[s] + Writes(s) <= printed /\ Len(pipe[s]) <= PipeSize
    /\ \A f \in Fetch : fetch[f] <= venv
    /\ page.packages <= venv

LEMMA EnvTypedInitially == Init => EnvTyped
<1> SUFFICES ASSUME Init PROVE EnvTyped
  OBVIOUS
<1>1. /\ printed = 0 /\ mounts = 0 /\ venv = 0 /\ written = NoLines /\ command = "none"
      /\ \A s \in Stream : pipe[s] = <<>>
      /\ \A f \in Fetch : fetch[f] = Free
      /\ page.packages = -1
  BY DEF Init, Mounted
<1>2. \A s \in Stream : written[s] = 0 /\ Writes(s) = 0
  BY <1>1 DEF NoLines, Writes, Stream
<1>3. \A s \in Stream : Len(pipe[s]) = 0
  BY <1>1, EmptySeq
<1> QED
  BY <1>1, <1>2, <1>3, EnvAssumption DEF EnvTyped, Free

LEMMA ServiceTyped ==
    ASSUME EnvShapes, EnvTyped, NEW c \in Op, Call(c) \/ Service(c)
    PROVE  EnvTyped'
<1>0. /\ UNCHANGED <<page, fetch, mounts, venv>> /\ printed \in Nat
      /\ pipe \in [Stream -> Seq({Short, Long})] /\ written \in [Stream -> Nat]
      /\ PipeSize \in Nat
  BY ServiceShapes, EnvAssumption DEF EnvShapes, EnvTyped
<1>1. printed' = printed
  BY DEF Service, Call, Reject, TryEnter, Refuse, EmitStart, Spawn, SpawnFails, ForwardLine, WgWait,
         CmdWait, Report, ExitEmit, ExitStore, commandVars
<1>2. ASSUME NEW s \in Stream PROVE Len(pipe'[s]) <= PipeSize
  <2>1. Len(pipe[s]) <= PipeSize /\ Len(pipe[s]) \in Nat
    BY <1>0, LenProperties DEF EnvTyped
  <2>2. CASE \E t \in Stream : ForwardLine(c, t)
    <3>1. PICK t \in Stream : ForwardLine(c, t)
      BY <2>2
    <3>2. pipe' = pipe \/ (pipe[t] # <<>> /\ pipe' = [pipe EXCEPT ![t] = Tail(@)])
      BY <3>1 DEF ForwardLine
    <3>3. pipe[t] # <<>> => Len(Tail(pipe[t])) = Len(pipe[t]) - 1
      BY <1>0, HeadTailProperties
    <3> QED BY <1>0, <2>1, <3>2, <3>3
  <2>3. CASE CmdWait(c)
    <3>1. pipe'[s] = <<>>
      BY <2>3 DEF CmdWait
    <3>2. Len(<<>>) = 0
      BY EmptySeq
    <3> QED BY <1>0, <3>1, <3>2
  <2>4. CASE ~(\E t \in Stream : ForwardLine(c, t)) /\ ~CmdWait(c)
    <3>1. pipe' = pipe
      BY <2>4 DEF Service, Call, Reject, TryEnter, Refuse, EmitStart, Spawn, SpawnFails, WgWait,
                  Report, ExitEmit, ExitStore, commandVars
    <3> QED BY <2>1, <3>1
  <2> QED BY <2>2, <2>3, <2>4
<1>3. ASSUME NEW s \in Stream PROVE written'[s] + Writes(s)' <= printed'
  <2>1. \/ UNCHANGED <<written, command>>
        \/ written' = written /\ command' = "running"
        \/ written' = NoLines /\ command' = "none"
    BY DEF Service, Call, Reject, TryEnter, Refuse, EmitStart, Spawn, SpawnFails, ForwardLine, WgWait,
           CmdWait, Report, ExitEmit, ExitStore, commandVars
  <2>2. written[s] \in Nat /\ written[s] + Writes(s) <= printed /\ Writes(s) \in {0, 1}
    BY <1>0 DEF EnvTyped, Writes
  <2>3. CASE UNCHANGED <<written, command>>
    BY <1>1, <2>2, <2>3 DEF Writes
  <2>4. CASE command' \in {"running", "none"}
    <3>1. Writes(s)' = 0
      BY <2>4 DEF Writes, Stream
    <3>2. written'[s] = written[s] \/ written'[s] = 0
      BY <2>1 DEF NoLines
    <3> QED BY <1>0, <1>1, <2>2, <3>1, <3>2
  <2> QED BY <2>1, <2>3, <2>4
<1> QED
  BY <1>0, <1>1, <1>2, <1>3 DEF EnvTyped

LEMMA CommandTyped ==
    ASSUME EnvShapes, EnvTyped, Command
    PROVE  EnvTyped'
<1>0. /\ UNCHANGED <<page, fetch, mounts>> /\ printed \in Nat /\ venv \in Nat
      /\ pipe \in [Stream -> Seq({Short, Long})] /\ written \in [Stream -> Nat]
      /\ fetch \in [Fetch -> {Free, Asked} \cup Nat] /\ page.packages \in {-1} \cup Nat
  BY CommandShapes, EnvAssumption DEF EnvShapes, EnvTyped, pageVars
<1>w. \A s \in Stream : written[s] \in Nat /\ written[s] + Writes(s) <= printed
  BY <1>0 DEF EnvTyped
<1>1. CASE CmdExits
  <2>1. /\ command' \in {"ok", "failed"} /\ UNCHANGED <<pipe, written, printed>>
        /\ venv' \in {venv, venv + 1}
    BY <1>1 DEF CmdExits
  <2>2. \A s \in Stream : Writes(s)' = 0 /\ Writes(s) \in {0, 1}
    BY <2>1 DEF Writes, Stream
  <2>3. ASSUME NEW s \in Stream PROVE written'[s] + Writes(s)' <= printed'
    <3>1. written[s] \in Nat /\ written[s] + Writes(s) <= printed /\ written'[s] = written[s]
      BY <1>w, <2>1
    <3>2. Writes(s)' = 0 /\ Writes(s) \in {0, 1} /\ printed' = printed
      BY <2>1, <2>2
    <3> QED BY <1>0, <3>1, <3>2
  <2>4. (\A f \in Fetch : fetch[f] <= venv') /\ page.packages <= venv'
    BY <1>0, <2>1 DEF EnvTyped, Free, Asked
  <2> QED BY <1>0, <2>1, <2>3, <2>4 DEF EnvTyped
<1>2. ASSUME NEW s \in Stream, ForwardEnds(s) PROVE EnvTyped'
  <2>1. UNCHANGED <<command, pipe, written, printed, venv>>
    BY <1>2 DEF ForwardEnds
  <2> QED BY <1>0, <2>1 DEF EnvTyped, Writes
<1>3. ASSUME NEW s \in Stream, CmdPrints(s) PROVE EnvTyped'
  <2>1. /\ command = "running" /\ command' = s /\ printed < MaxLines /\ printed' = printed + 1
        /\ UNCHANGED <<pipe, written, venv>>
    BY <1>3 DEF CmdPrints
  <2>2. \A t \in Stream : Writes(t) = 0 /\ Writes(t)' \in {0, 1}
    BY <2>1 DEF Writes, Stream
  <2>3. ASSUME NEW t \in Stream PROVE written'[t] + Writes(t)' <= printed'
    <3>1. written[t] \in Nat /\ written[t] + Writes(t) <= printed /\ written'[t] = written[t]
      BY <1>w, <2>1
    <3>2. Writes(t) = 0 /\ Writes(t)' \in {0, 1} /\ printed' = printed + 1
      BY <2>1, <2>2
    <3> QED BY <1>0, <3>1, <3>2
  <2>4. printed' \in 0..MaxLines
    BY <1>0, <2>1, EnvAssumption
  <2> QED BY <1>0, <2>1, <2>3, <2>4 DEF EnvTyped
<1>4. ASSUME NEW s \in Stream, CmdWrites(s) PROVE EnvTyped'
  <2>1. PICK l \in {Short, Long} : pipe' = [pipe EXCEPT ![s] = Append(@, l)]
    BY <1>4 DEF CmdWrites
  <2>2. /\ command = s /\ command' = "running" /\ Len(pipe[s]) < PipeSize
        /\ written' = [written EXCEPT ![s] = @ + 1] /\ UNCHANGED <<printed, venv>>
    BY <1>4 DEF CmdWrites
  <2>3. \A t \in Stream : Writes(t) = (IF t = s THEN 1 ELSE 0) /\ Writes(t)' = 0
    BY <2>2 DEF Writes, Stream
  <2>4. \A t \in Stream : written'[t] + Writes(t)' <= printed'
    BY <1>0, <1>w, <2>2, <2>3
  <2>5. Len(Append(pipe[s], l)) = Len(pipe[s]) + 1 /\ Len(pipe[s]) \in Nat
    BY <1>0, AppendProperties, LenProperties
  <2>6. \A t \in Stream : Len(pipe'[t]) <= PipeSize
    BY <1>0, <2>1, <2>2, <2>5, EnvAssumption DEF EnvTyped
  <2> QED BY <1>0, <2>2, <2>4, <2>6 DEF EnvTyped
<1>5. CASE Children
  BY <1>0, <1>5, ChildrenAre DEF EnvTyped, Writes
<1> QED
  BY <1>1, <1>2, <1>3, <1>4, <1>5 DEF Command

LEMMA PageTyped ==
    ASSUME EnvShapes, EnvTyped, Pane \/ Deliver
    PROVE  EnvTyped'
<1>0. /\ fetch \in [Fetch -> {Free, Asked} \cup Nat] /\ page.packages \in {-1} \cup Nat
      /\ venv \in Nat
  BY DEF EnvShapes
<1>1. UNCHANGED <<serviceVars, commandVars>>
  BY PaneShapes, DeliverIs
<1>2. ASSUME NEW f \in Fetch PROVE fetch'[f] <= venv
  <2>1. \/ fetch' = fetch
        \/ Ask
        \/ fetch' = [g \in Fetch |-> Free]
        \/ \E g \in Fetch : fetch' = [fetch EXCEPT ![g] = venv] \/ fetch' = [fetch EXCEPT ![g] = Free]
    <3>1. CASE Deliver
      BY <3>1 DEF Deliver, OnEnd
    <3>2. CASE Pane
      BY <3>2 DEF Pane, Mount, Subscribe, Unmount, LoadPackages, Listing, ListReads, SetPackages,
                  ListFails
    <3> QED BY <3>1, <3>2
  <2>2. fetch'[f] \in {fetch[f], Asked, Free, venv}
    BY <1>0, <2>1 DEF Ask
  <2>3. fetch[f] <= venv
    BY DEF EnvTyped
  <2> QED BY <1>0, <2>2, <2>3 DEF Asked, Free
<1>3. page'.packages <= venv
  <2>1. \/ page'.packages \in {page.packages, -1}
        \/ \E f \in Fetch : page'.packages = fetch[f]
    <3>1. CASE Deliver
      BY <3>1, DeliverIs
    <3>2. CASE Mount \/ Unmount
      BY <3>2 DEF Mount, Unmount, Mounted
    <3>3. CASE Subscribe \/ LoadPackages
      BY <3>3 DEF Subscribe, LoadPackages, EnvShapes
    <3>4. ASSUME NEW f \in Fetch, Listing(f)
          PROVE  page'.packages = page.packages \/ page'.packages = fetch[f]
      BY <3>4 DEF Listing, ListReads, SetPackages, ListFails, EnvShapes
    <3> QED BY <3>1, <3>2, <3>3, <3>4 DEF Pane
  <2> QED BY <1>0, <2>1 DEF EnvTyped
<1>4. mounts' \in 0..MaxMounts
  <2>1. mounts' = mounts \/ (mounts < MaxMounts /\ mounts' = mounts + 1)
    <3>1. CASE Deliver
      BY <3>1 DEF Deliver
    <3>2. CASE Pane
      BY <3>2 DEF Pane, Mount, Subscribe, Unmount, LoadPackages, Listing, ListReads, SetPackages,
                  ListFails
    <3> QED BY <3>1, <3>2
  <2> QED BY <2>1, EnvAssumption DEF EnvTyped
<1> QED
  BY <1>1, <1>2, <1>3, <1>4 DEF EnvTyped, Writes, serviceVars, commandVars

\* A pipe never holds more than fits, no command has written more lines than all have
\* printed, and the pane never lists packages of a later venv (runStreamed, useEnv).
THEOREM TypeCorrect == Spec => []TypeOK
<1>1. EnvShapes /\ EnvTyped => TypeOK
  <2> SUFFICES ASSUME EnvShapes, EnvTyped PROVE TypeOK
    OBVIOUS
  <2>1. ASSUME NEW s \in Stream PROVE written[s] \in 0..printed /\ Len(pipe[s]) <= PipeSize
    <3>1. written[s] \in Nat /\ written[s] + Writes(s) <= printed /\ Writes(s) \in {0, 1}
      BY DEF EnvShapes, EnvTyped, Writes
    <3>2. Len(pipe[s]) <= PipeSize /\ printed \in Nat
      BY EnvAssumption DEF EnvTyped
    <3> QED BY <3>1, <3>2
  <2>2. written \in [Stream -> 0..printed]
    BY <2>1 DEF EnvShapes
  <2>3. ASSUME NEW f \in Fetch PROVE fetch[f] \in {Free, Asked} \cup 0..venv
    BY DEF EnvShapes, EnvTyped
  <2>4. fetch \in [Fetch -> {Free, Asked} \cup 0..venv]
    BY <2>3 DEF EnvShapes
  <2>5. page.packages \in {-1} \cup 0..venv
    BY DEF EnvShapes, EnvTyped
  <2>6. page \in [mounted : BOOLEAN, listening : BOOLEAN, asked : BOOLEAN, busy : BOOLEAN,
                  lines : [Stream -> Nat], packages : {-1} \cup 0..venv,
                  heard : SUBSET Op, spoiled : BOOLEAN]
    BY <2>5 DEF EnvShapes
  <2> QED BY <2>1, <2>2, <2>4, <2>6 DEF EnvShapes, EnvTyped, TypeOK
<1>2. EnvShapes /\ EnvTyped /\ [Next]_vars => EnvTyped'
  <2>1. ASSUME EnvTyped, UNCHANGED vars PROVE EnvTyped'
    BY <2>1 DEF vars, serviceVars, commandVars, pageVars, EnvTyped, Writes
  <2> QED BY <2>1, EnvSteps, ServiceTyped, CommandTyped, PageTyped
<1>3. Init => EnvShapes
  BY EnvInitially DEF EnvInv
<1> QED
  BY <1>1, <1>2, <1>3, EnvShapesNext, EnvTypedInitially, PTL DEF Spec

-----------------------------------------------------------------------------
(* The notification channel: Reservoir *)

CONSTANTS Caller, Key, IssueKey, None
VARIABLES pc, unsent, banners, count, listening, pane, shown, surfaced, crossed, lost,
          closed

Reservoir == INSTANCE Reservoir

\* KeyAssumption of Reservoir.
Keys == IssueKey \subseteq Key /\ None \notin Key

\* The types that the arguments need.
ReservoirShapes ==
    /\ pc \in [Caller -> {"ready", "changed", "done"}]
    /\ DOMAIN unsent = Caller
    /\ banners \in [Key -> Nat] /\ shown \in [Key -> Nat] /\ count \in Nat
    /\ events \in Seq(Reservoir!Event)
    /\ surfaced \in SUBSET Caller /\ closed \in SUBSET Key
    /\ lost \in BOOLEAN /\ crossed \in BOOLEAN

\* What an operation is going to emit: what is due to the user is due on the page.
Surface == {"toast", "run", "critical", "banner"}

Keyed(e) == e.key # None <=> e.to \in {"banner", "dismiss"}

Prepared(c) ==
    pc[c] # "ready" =>
        /\ unsent[c] \in Reservoir!Event /\ unsent[c].from = c /\ Keyed(unsent[c])
        /\ unsent[c].due => unsent[c].to \in Surface

\* A report that was emitted is on its way, or the user has seen it, or it was lost.
Seen(c) ==
    (pc[c] = "done" /\ unsent[c].due) =>
        \/ lost \/ c \in surfaced
        \/ \E i \in 1..Len(events) : events[i].from = c /\ events[i].to \in Surface

\* The banners that an event settles, and what it makes of them.
Concerns(e, k) == e.to = "list" \/ (e.to \in {"banner", "dismiss"} /\ e.key = k)
Says(e, k)     == IF e.to = "dismiss" THEN 0 ELSE e.list[k]
Right(e, k)    == Says(e, k) = banners[k]

Unsent(k)   == \E c \in Caller : pc[c] = "changed" /\ Concerns(unsent[c], k)
OnItsWay(k) == \E i \in 1..Len(events) : Concerns(events[i], k)

\* The last event about a banner, unsent, on its way or handled, says what it is now.
Tracked(k) ==
    /\ \A c \in Caller : pc[c] = "changed" /\ Concerns(unsent[c], k) => Right(unsent[c], k)
    /\ ~Unsent(k) =>
         \A i \in 1..Len(events) :
            Concerns(events[i], k) => \/ Right(events[i], k)
                                      \/ \E j \in (i + 1)..Len(events) : Concerns(events[j], k)
    /\ ~Unsent(k) /\ ~OnItsWay(k) => k \in closed \/ shown[k] = banners[k]

\* One operation on banners at a time.
Alone == \A c, d \in Caller : Reservoir!OnBanners(c) /\ Reservoir!OnBanners(d) => c = d

ReservoirInv ==
    /\ ReservoirShapes
    /\ \A c \in Caller : Prepared(c) /\ Seen(c)
    /\ \A i \in 1..Len(events) : Keyed(events[i])
    /\ ~lost /\ ~crossed => Alone /\ \A k \in Key : Tracked(k)

LEMMA ReservoirInitially == Reservoir!Init => ReservoirInv
<1> SUFFICES ASSUME Reservoir!Init PROVE ReservoirInv
  OBVIOUS
<1>1. /\ pc = [c \in Caller |-> "ready"] /\ unsent = [c \in Caller |-> None]
      /\ banners = [k \in Key |-> 0] /\ shown = [k \in Key |-> 0] /\ count = 0 /\ events = <<>>
      /\ surfaced = {} /\ closed = {} /\ lost = FALSE /\ crossed = FALSE
  BY DEF Reservoir!Init, Reservoir!Empty
<1>2. Len(events) = 0 /\ events \in Seq(Reservoir!Event)
  BY <1>1, EmptySeq
<1>3. ReservoirShapes
  BY <1>1, <1>2 DEF ReservoirShapes
<1>4. \A c \in Caller : pc[c] = "ready"
  BY <1>1
<1>5. \A c \in Caller : Prepared(c) /\ Seen(c)
  BY <1>4 DEF Prepared, Seen
<1>6. Alone
  BY <1>4 DEF Alone, Reservoir!OnBanners
<1>7. \A k \in Key : Tracked(k)
  BY <1>1, <1>2, <1>4 DEF Tracked
<1> QED
  BY <1>2, <1>3, <1>5, <1>6, <1>7 DEF ReservoirInv

\* What an operation makes of the banners, and the event that it leaves to Emit.
Operation(c, e, bs) ==
    /\ Reservoir!Change(c, e, bs) /\ e \in Reservoir!Event /\ bs \in [Key -> Nat]
    /\ e.from = c /\ Keyed(e)
    /\ e.due => e.to \in Surface
    /\ \A k \in Key : IF Concerns(e, k) THEN Says(e, k) = bs[k] ELSE bs[k] = banners[k]

LEMMA ReportIs ==
    ASSUME Keys, ReservoirShapes, NEW c \in Caller, Reservoir!Report(c)
    PROVE  \E e, bs : Operation(c, e, bs)
<1>1. PICK r \in Reservoir!Reports :
        Reservoir!Change(c, Reservoir!Ev(Reservoir!Route(r), c, None, Reservoir!Empty, r.severity # "info"), banners)
  BY DEF Reservoir!Report
<1> DEFINE due == r.severity # "info"
           e   == Reservoir!Ev(Reservoir!Route(r), c, None, Reservoir!Empty, due)
<1>2. /\ Reservoir!Route(r) \in {"log", "toast", "run", "critical"}
      /\ due => Reservoir!Route(r) \in Surface
  <2>1. /\ r.severity \in {"info", "warn", "error", "critical"}
        /\ r.persistence \in {"one-shot", "in-flight", "catastrophic"}
        /\ r.run \in BOOLEAN
        /\ r.persistence = "catastrophic" => r.severity = "critical"
    <3>1. CASE r \in {[severity |-> s, persistence |-> p, run |-> TRUE] :
                        s \in Reservoir!Severity, p \in {"one-shot", "in-flight"}}
      <4>1. PICK s \in Reservoir!Severity, p \in {"one-shot", "in-flight"} :
              r = [severity |-> s, persistence |-> p, run |-> TRUE]
        BY <3>1
      <4> QED BY <4>1 DEF Reservoir!Severity
    <3>2. CASE r \in {[severity |-> s, persistence |-> "one-shot", run |-> FALSE] :
                        s \in Reservoir!Severity}
      <4>1. PICK s \in Reservoir!Severity :
              r = [severity |-> s, persistence |-> "one-shot", run |-> FALSE]
        BY <3>2
      <4> QED BY <4>1 DEF Reservoir!Severity
    <3>3. CASE r = [severity |-> "critical", persistence |-> "catastrophic", run |-> FALSE]
      BY <3>3
    <3> QED BY <3>1, <3>2, <3>3 DEF Reservoir!Reports
  <2>2. CASE r.severity = "critical"
    <3>1. Reservoir!Route(r) = "critical"
      BY <2>1, <2>2 DEF Reservoir!Route
    <3> QED BY <3>1 DEF Surface
  <2>3. CASE r.severity # "critical" /\ r.persistence = "in-flight"
    <3>1. Reservoir!Route(r) \in {"run", "toast"}
      BY <2>1, <2>3 DEF Reservoir!Route
    <3> QED BY <3>1 DEF Surface
  <2>4. CASE r.severity # "critical" /\ r.persistence = "one-shot"
    <3>1. Reservoir!Route(r) = IF r.severity = "info" THEN "log" ELSE "toast"
      BY <2>1, <2>4 DEF Reservoir!Route
    <3> QED BY <3>1 DEF Surface
  <2> QED BY <2>1, <2>2, <2>3, <2>4
<1>3. Reservoir!Empty \in [Key -> Nat] /\ due \in BOOLEAN /\ None \in Key \cup {None}
  BY DEF Reservoir!Empty
<1>4. e \in Reservoir!Event /\ e.from = c /\ e.due = due /\ e.to = Reservoir!Route(r) /\ e.key = None
  <2> HIDE DEF due
  <2> QED BY <1>2, <1>3 DEF Reservoir!Ev, Reservoir!Event, Reservoir!Banners
<1> HIDE DEF due, e
<1>5. \A k \in Key : ~Concerns(e, k)
  BY <1>2, <1>4 DEF Concerns
<1>6. e.due => e.to \in Surface
  BY <1>2, <1>4
<1>7. Keyed(e)
  BY <1>2, <1>4 DEF Keyed
<1>8. banners \in [Key -> Nat] /\ Reservoir!Change(c, e, banners)
  BY <1>1 DEF ReservoirShapes, e, due
<1>9. Operation(c, e, banners)
  BY <1>4, <1>5, <1>6, <1>7, <1>8 DEF Operation
<1> QED
  BY <1>9

LEMMA ReportOngoingIs ==
    ASSUME Keys, ReservoirShapes, NEW c \in Caller, Reservoir!ReportOngoing(c)
    PROVE  \E e, bs : Operation(c, e, bs)
<1>1. PICK k \in Key :
        LET bs == [banners EXCEPT ![k] = count + 1]
        IN  Reservoir!Change(c, Reservoir!Ev("banner", c, k, bs, TRUE), bs)
  BY DEF Reservoir!ReportOngoing
<1> DEFINE bs == [banners EXCEPT ![k] = count + 1]
           e  == Reservoir!Ev("banner", c, k, bs, TRUE)
<1>2. /\ bs \in [Key -> Nat] /\ k # None
      /\ \A j \in Key : j # k => bs[j] = banners[j]
  BY DEF ReservoirShapes, Keys
<1>3. Reservoir!Change(c, e, bs)
  BY <1>1
<1>4. e \in Reservoir!Event /\ e.from = c /\ e.key = k /\ e.list = bs /\ e.to = "banner"
  <2> HIDE DEF bs
  <2>1. k \in Key \cup {None} /\ TRUE \in BOOLEAN
    OBVIOUS
  <2> QED BY <1>2, <2>1 DEF Reservoir!Ev, Reservoir!Event, Reservoir!Banners
<1> HIDE DEF bs, e
<1>5. \A j \in Key : IF Concerns(e, j) THEN Says(e, j) = bs[j] ELSE bs[j] = banners[j]
  BY <1>2, <1>4 DEF Concerns, Says
<1>6. Operation(c, e, bs)
  BY <1>2, <1>3, <1>4, <1>5 DEF Operation, Surface, Keyed
<1> QED
  BY <1>6

LEMMA DismissBannerIs ==
    ASSUME Keys, ReservoirShapes, NEW c \in Caller, Reservoir!DismissBanner(c)
    PROVE  \E e, bs : Operation(c, e, bs)
<1>1. PICK k \in Key :
        Reservoir!Change(c, Reservoir!Ev("dismiss", c, k, Reservoir!Empty, FALSE), [banners EXCEPT ![k] = 0])
  BY DEF Reservoir!DismissBanner
<1> DEFINE bs == [banners EXCEPT ![k] = 0]
           e  == Reservoir!Ev("dismiss", c, k, Reservoir!Empty, FALSE)
<1>2. /\ bs \in [Key -> Nat] /\ k # None /\ bs[k] = 0
      /\ \A j \in Key : j # k => bs[j] = banners[j]
  BY DEF ReservoirShapes, Keys
<1>3. Reservoir!Change(c, e, bs)
  BY <1>1
<1>4. e \in Reservoir!Event /\ e.from = c /\ e.key = k /\ e.due = FALSE /\ e.to = "dismiss"
  <2>1. Reservoir!Empty \in [Key -> Nat]
    BY DEF Reservoir!Empty
  <2>2. k \in Key \cup {None} /\ FALSE \in BOOLEAN
    OBVIOUS
  <2> QED BY <2>1, <2>2 DEF Reservoir!Ev, Reservoir!Event, Reservoir!Banners
<1> HIDE DEF bs, e
<1>5. \A j \in Key : IF Concerns(e, j) THEN Says(e, j) = bs[j] ELSE bs[j] = banners[j]
  BY <1>2, <1>4 DEF Concerns, Says
<1>6. Operation(c, e, bs)
  BY <1>2, <1>3, <1>4, <1>5 DEF Operation, Keyed
<1> QED
  BY <1>6

LEMMA ReplaceIs ==
    ASSUME Keys, ReservoirShapes, NEW c \in Caller, Reservoir!Replace(c)
    PROVE  \E e, bs : Operation(c, e, bs)
<1>1. PICK new \in SUBSET IssueKey :
        Reservoir!Change(c, Reservoir!Ev("list", c, None, Reservoir!Replaced(new), FALSE), Reservoir!Replaced(new))
  BY DEF Reservoir!Replace
<1> DEFINE bs == Reservoir!Replaced(new)
           e  == Reservoir!Ev("list", c, None, bs, FALSE)
<1>2. bs \in [Key -> Nat]
  BY DEF ReservoirShapes, Reservoir!Replaced
<1>3. Reservoir!Change(c, e, bs)
  BY <1>1
<1>4. e \in Reservoir!Event /\ e.from = c /\ e.list = bs /\ e.due = FALSE /\ e.to = "list"
      /\ e.key = None
  <2> HIDE DEF bs
  <2>1. None \in Key \cup {None} /\ FALSE \in BOOLEAN
    OBVIOUS
  <2> QED BY <1>2, <2>1 DEF Reservoir!Ev, Reservoir!Event, Reservoir!Banners
<1> HIDE DEF bs, e
<1>5. \A j \in Key : IF Concerns(e, j) THEN Says(e, j) = bs[j] ELSE bs[j] = banners[j]
  BY <1>4 DEF Concerns, Says
<1>6. Operation(c, e, bs)
  BY <1>2, <1>3, <1>4, <1>5 DEF Operation, Keyed
<1> QED
  BY <1>6

\* The first part of an operation leaves what is on its way alone, unless it says more.
LEMMA ChangeKeeps ==
    ASSUME ReservoirInv, NEW c \in Caller, NEW e, NEW bs, Operation(c, e, bs)
    PROVE  ReservoirInv'
<1>1. /\ ReservoirShapes
      /\ pc[c] = "ready" /\ pc' = [pc EXCEPT ![c] = "changed"]
      /\ unsent' = [unsent EXCEPT ![c] = e] /\ banners' = bs /\ count' = count + 1
      /\ UNCHANGED <<events, listening, pane, shown, surfaced, lost, closed>>
      /\ e \in Reservoir!Event /\ bs \in [Key -> Nat]
      /\ crossed' = (crossed \/ ((e.key # None \/ e.to = "list")
                                   /\ \E d \in Caller : Reservoir!OnBanners(d)))
  BY DEF ReservoirInv, Operation, Reservoir!Change
<1>2. /\ pc'[c] = "changed" /\ unsent'[c] = e
      /\ \A d \in Caller : d # c => pc'[d] = pc[d] /\ unsent'[d] = unsent[d]
  BY <1>1 DEF ReservoirShapes
<1>3. ReservoirShapes' /\ \A i \in 1..Len(events') : Keyed(events'[i])
  BY <1>1 DEF ReservoirShapes, ReservoirInv
<1>4. ASSUME NEW d \in Caller PROVE Prepared(d)' /\ Seen(d)'
  <2>1. CASE d = c
    BY <1>1, <1>2, <2>1 DEF Prepared, Seen, Operation
  <2>2. CASE d # c
    <3>1. Prepared(d) /\ Seen(d)
      BY DEF ReservoirInv
    <3> QED BY <1>1, <1>2, <2>2, <3>1 DEF Prepared, Seen
  <2> QED BY <2>1, <2>2
<1>5. ASSUME ~lost', ~crossed' PROVE Alone' /\ \A k \in Key : Tracked(k)'
  <2>1. ~lost /\ ~crossed /\ Alone /\ \A k \in Key : Tracked(k)
    BY <1>1, <1>5 DEF ReservoirInv, ReservoirShapes
  <2>2. CASE e.to \notin {"banner", "dismiss", "list"}
    <3>1. \A k \in Key : ~Concerns(e, k) /\ bs[k] = banners[k]
      BY <2>2 DEF Operation, Concerns
    <3>2. \A d \in Caller : Reservoir!OnBanners(d)' <=> Reservoir!OnBanners(d)
      BY <1>1, <1>2, <2>2 DEF Reservoir!OnBanners
    <3>3. ASSUME NEW k \in Key PROVE Tracked(k)'
      <4>1. Unsent(k)' <=> Unsent(k)
        BY <1>1, <1>2, <3>1 DEF Unsent
      <4>2. OnItsWay(k)' <=> OnItsWay(k)
        BY <1>1 DEF OnItsWay
      <4>3. \A x : Right(x, k)' <=> Right(x, k)
        BY <1>1, <3>1 DEF Right, Says
      <4> QED BY <1>1, <1>2, <2>1, <3>1, <4>1, <4>2, <4>3 DEF Tracked
    <3> QED BY <2>1, <3>2, <3>3 DEF Alone
  <2>3. CASE e.to \in {"banner", "dismiss", "list"}
    <3>1. \A d \in Caller : ~Reservoir!OnBanners(d)
      BY <1>1, <1>5, <2>3 DEF Operation, Keyed
    <3>2. \A d \in Caller : Reservoir!OnBanners(d)' => d = c
      BY <1>2, <3>1 DEF Reservoir!OnBanners
    <3>3. ASSUME NEW k \in Key PROVE Tracked(k)'
      <4>1. \A d \in Caller : d # c => ~(pc'[d] = "changed" /\ Concerns(unsent'[d], k))
        BY <1>2, <3>2 DEF Reservoir!OnBanners, Concerns
      <4>2. ~Unsent(k)
        BY <3>1 DEF Unsent, Reservoir!OnBanners, Concerns
      <4>3. CASE Concerns(e, k)
        <5>1. Unsent(k)'
          BY <1>2, <4>3 DEF Unsent
        <5>2. Right(e, k)'
          BY <1>1, <4>3 DEF Operation, Right, Says
        <5> QED BY <1>2, <4>1, <5>1, <5>2 DEF Tracked
      <4>4. CASE ~Concerns(e, k)
        <5>1. \A x : Right(x, k)' <=> Right(x, k)
          BY <1>1, <4>4 DEF Operation, Right, Says
        <5>2. banners'[k] = banners[k]
          BY <1>1, <4>4 DEF Operation
        <5>3. OnItsWay(k)' <=> OnItsWay(k)
          BY <1>1 DEF OnItsWay
        <5>4. \A d \in Caller : ~(pc'[d] = "changed" /\ Concerns(unsent'[d], k))
          BY <1>2, <4>1, <4>4
        <5> QED BY <1>1, <2>1, <4>2, <5>1, <5>2, <5>3, <5>4 DEF Tracked
      <4> QED BY <4>3, <4>4
    <3> QED BY <3>2, <3>3 DEF Alone
  <2> QED BY <2>2, <2>3
<1> QED
  BY <1>3, <1>4, <1>5 DEF ReservoirInv

\* The event that was unsent becomes the last on its way.
LEMMA EmitKeeps ==
    ASSUME ReservoirInv, NEW c \in Caller, Reservoir!Emit(c)
    PROVE  ReservoirInv'
<1> DEFINE e == unsent[c]
           n == Len(events)
<1>1. /\ ReservoirShapes /\ Prepared(c)
      /\ pc[c] = "changed" /\ pc' = [pc EXCEPT ![c] = "done"]
      /\ events' = IF e.to = "log" THEN events ELSE Append(events, e)
      /\ UNCHANGED <<unsent, banners, count, listening, pane, shown, surfaced, crossed, lost, closed>>
  BY DEF ReservoirInv, Reservoir!Emit
<1>2. /\ pc'[c] = "done" /\ \A d \in Caller : d # c => pc'[d] = pc[d]
      /\ e \in Reservoir!Event /\ e.from = c /\ (e.due => e.to \in Surface) /\ Keyed(e)
      /\ n \in Nat /\ events \in Seq(Reservoir!Event)
  BY <1>1, LenProperties DEF ReservoirShapes, Prepared
<1> HIDE DEF n
<1>3. \/ e.to = "log" /\ events' = events
      \/ /\ e.to # "log" /\ events' \in Seq(Reservoir!Event) /\ Len(events') = n + 1
         /\ \A i \in 1..n : events'[i] = events[i]
         /\ events'[n + 1] = e
  BY <1>1, <1>2, AppendProperties DEF n
<1>4. ReservoirShapes'
  BY <1>1, <1>3 DEF ReservoirShapes
<1>k. \A i \in 1..Len(events') : Keyed(events'[i])
  <2>1. \A i \in 1..n : Keyed(events[i])
    BY DEF ReservoirInv, n
  <2>2. ASSUME NEW i \in 1..(n + 1), i \notin 1..n PROVE i = n + 1
    BY <1>2, <2>2
  <2> QED BY <1>2, <1>3, <2>1, <2>2 DEF n
<1>5. ASSUME NEW d \in Caller PROVE Prepared(d)' /\ Seen(d)'
  <2>1. Prepared(d) /\ Seen(d)
    BY DEF ReservoirInv
  <2>2. Prepared(d)'
    BY <1>1, <1>2, <2>1 DEF Prepared
  <2>s. Seen(d)' <=> ((pc'[d] = "done" /\ unsent[d].due) =>
                        \/ lost \/ d \in surfaced
                        \/ \E i \in 1..Len(events') : events'[i].from = d /\ events'[i].to \in Surface)
    BY <1>1, Zenon DEF Seen
  <2>3. CASE d = c
    <3>1. CASE ~e.due
      BY <2>2, <2>s, <2>3, <3>1
    <3>2. CASE e.due
      <4>1. /\ e.to \in Surface /\ n + 1 \in 1..Len(events')
            /\ events'[n + 1] = e
        BY <1>2, <1>3, <3>2 DEF Surface
      <4>2. events'[n + 1].from = d /\ events'[n + 1].to \in Surface
        BY <1>2, <2>3, <4>1
      <4> QED BY <2>2, <2>s, <4>1, <4>2
    <3> QED BY <3>1, <3>2
  <2>4. CASE d # c
    <3>1. ASSUME NEW i \in 1..n
          PROVE  i \in 1..Len(events') /\ events'[i] = events[i]
      BY <1>2, <1>3 DEF n
    <3>2. pc'[d] = pc[d]
      BY <1>2, <2>4
    <3>3. ((pc[d] = "done" /\ unsent[d].due) =>
             \/ lost \/ d \in surfaced
             \/ \E i \in 1..n : events[i].from = d /\ events[i].to \in Surface)
      BY <2>1 DEF Seen, n
    <3> QED BY <2>2, <2>s, <3>1, <3>2, <3>3
  <2> QED BY <2>2, <2>3, <2>4
<1>6. ASSUME ~lost', ~crossed' PROVE Alone' /\ \A k \in Key : Tracked(k)'
  <2>1. Alone /\ \A k \in Key : Tracked(k)
    BY <1>1, <1>6 DEF ReservoirInv, ReservoirShapes
  <2>2. \A d \in Caller : Reservoir!OnBanners(d)' => Reservoir!OnBanners(d)
    BY <1>1, <1>2 DEF Reservoir!OnBanners
  <2>3. ASSUME NEW k \in Key PROVE Tracked(k)'
    <3>0. \A x : Right(x, k)' <=> Right(x, k)
      BY <1>1 DEF Right, Says
    <3>1. CASE Concerns(e, k)
      <4>1. /\ e.to # "log" /\ Reservoir!OnBanners(c)
        BY <1>1, <3>1 DEF Concerns, Reservoir!OnBanners
      <4>2. \A d \in Caller : ~(pc'[d] = "changed" /\ Concerns(unsent'[d], k))
        BY <1>1, <1>2, <2>1, <4>1 DEF Alone, Reservoir!OnBanners, Concerns
      <4>3. Right(e, k)
        BY <1>1, <2>1, <3>1 DEF Tracked
      <4>4. n + 1 \in 1..(n + 1) /\ \A i \in 1..n : n + 1 \in (i + 1)..(n + 1)
        BY <1>2
      <4>5. OnItsWay(k)'
        BY <1>3, <3>1, <4>1, <4>4 DEF OnItsWay
      <4>6. ASSUME NEW i \in 1..(n + 1)
            PROVE  \/ events'[i] = e
                   \/ \E j \in (i + 1)..(n + 1) : Concerns(events'[j], k)
        BY <1>2, <1>3, <3>1, <4>1, <4>4
      <4> QED BY <1>3, <3>0, <4>1, <4>2, <4>3, <4>5, <4>6 DEF Tracked
    <3>2. CASE ~Concerns(e, k)
      <4>1. Unsent(k)' <=> Unsent(k)
        BY <1>1, <1>2, <3>2 DEF Unsent
      <4>2. \A d \in Caller : pc'[d] = "changed" /\ Concerns(unsent'[d], k) => Right(unsent[d], k)
        <5>1. unsent' = unsent /\ \A d \in Caller : pc'[d] = "changed" => pc[d] = "changed"
          BY <1>1, <1>2
        <5>2. \A d \in Caller : pc[d] = "changed" /\ Concerns(unsent[d], k) => Right(unsent[d], k)
          BY <2>1 DEF Tracked
        <5> QED BY <5>1, <5>2
      <4>3. OnItsWay(k)' <=> OnItsWay(k)
        BY <1>2, <1>3, <3>2 DEF OnItsWay, n
      <4>4. ASSUME ~Unsent(k), NEW i \in 1..Len(events'), Concerns(events'[i], k)
            PROVE  \/ Right(events'[i], k)
                   \/ \E j \in (i + 1)..Len(events') : Concerns(events'[j], k)
        <5>1. i \in 1..n /\ events'[i] = events[i]
          BY <1>2, <1>3, <3>2, <4>4 DEF n
        <5>2. \/ Right(events[i], k)
              \/ \E j \in (i + 1)..n : Concerns(events[j], k)
          BY <2>1, <4>4, <5>1 DEF Tracked, n
        <5>3. ASSUME NEW j \in (i + 1)..n
              PROVE  j \in (i + 1)..Len(events') /\ events'[j] = events[j]
          BY <1>2, <1>3, <5>1 DEF n
        <5> QED BY <5>1, <5>2, <5>3
      <4>5. (~Unsent(k) /\ ~OnItsWay(k))' => (k \in closed \/ shown[k] = banners[k])'
        BY <1>1, <2>1, <4>1, <4>3 DEF Tracked
      <4>6. \A d \in Caller : (pc[d] = "changed" /\ Concerns(unsent[d], k) => Right(unsent[d], k))'
        <5>1. unsent' = unsent /\ \A x : Right(x, k)' <=> Right(x, k)
          BY <1>1, <3>0
        <5> QED BY <4>2, <5>1 DEF Right, Says
      <4>7. (~Unsent(k))' => \A i \in 1..Len(events') :
              Concerns(events'[i], k) => \/ Right(events[i], k)'
                                         \/ \E j \in (i + 1)..Len(events') : Concerns(events'[j], k)
        BY <3>0, <4>1, <4>4 DEF Right, Says
      <4> QED BY <4>5, <4>6, <4>7 DEF Tracked
    <3> QED BY <3>1, <3>2
  <2> QED BY <2>1, <2>2, <2>3 DEF Alone
<1> QED
  BY <1>k, <1>4, <1>5, <1>6 DEF ReservoirInv

\* Handling an event settles what it concerns and leaves the rest.
LEMMA HandledIs ==
    ASSUME Keys, ReservoirShapes, NEW e \in Reservoir!Event, Reservoir!Handle(e), NEW k \in Key,
           Keyed(e)
    PROVE  /\ shown' \in [Key -> Nat] /\ closed' \in SUBSET Key /\ surfaced' \in SUBSET Caller
           /\ Concerns(e, k) => shown'[k] = Says(e, k) /\ k \notin closed'
           /\ ~Concerns(e, k) => shown'[k] = shown[k] /\ (k \in closed => k \in closed')
<1>1. /\ e.from \in Caller /\ e.list \in [Key -> Nat] /\ e.key \in Key \cup {None}
      /\ e.to \in {"log", "toast", "run", "critical", "banner", "dismiss", "list"}
      /\ shown \in [Key -> Nat] /\ closed \in SUBSET Key /\ surfaced \in SUBSET Caller
      /\ e.key \in Key <=> e.to \in {"banner", "dismiss"}
  BY DEF Reservoir!Event, Reservoir!Banners, ReservoirShapes, Keyed, Keys
<1>2. surfaced' \in SUBSET Caller
  BY <1>1 DEF Reservoir!Handle
<1>3. CASE e.to = "list"
  <2>1. shown' = e.list /\ closed' = closed \ Key
    BY <1>3 DEF Reservoir!Handle, Reservoir!Shown, Reservoir!Settles
  <2> QED BY <1>1, <1>2, <1>3, <2>1 DEF Concerns, Says
<1>4. CASE e.to = "banner"
  <2>1. shown' = [shown EXCEPT ![e.key] = e.list[e.key]] /\ closed' = closed \ {e.key}
    BY <1>4 DEF Reservoir!Handle, Reservoir!Shown, Reservoir!Settles
  <2> QED BY <1>1, <1>2, <1>4, <2>1 DEF Concerns, Says
<1>5. CASE e.to = "dismiss"
  <2>1. shown' = [shown EXCEPT ![e.key] = 0] /\ closed' = closed \ {e.key}
    BY <1>5 DEF Reservoir!Handle, Reservoir!Shown, Reservoir!Settles
  <2> QED BY <1>1, <1>2, <1>5, <2>1 DEF Concerns, Says
<1>6. CASE e.to \notin {"banner", "dismiss", "list"}
  <2>1. shown' = shown /\ closed' = closed \ {e.key}
    BY <1>6 DEF Reservoir!Handle, Reservoir!Shown, Reservoir!Settles
  <2>2. ~Concerns(e, k)
    BY <1>6 DEF Concerns
  <2> QED BY <1>1, <1>2, <1>6, <2>1, <2>2 DEF Concerns
<1> QED
  BY <1>3, <1>4, <1>5, <1>6

\* The page handles the next event, or nobody hears it.
LEMMA DeliverKeeps ==
    ASSUME Keys, ReservoirInv, Reservoir!Deliver
    PROVE  ReservoirInv'
<1> DEFINE e == Head(events)
           n == Len(events)
<1>1. /\ ReservoirShapes /\ events # <<>> /\ events' = Tail(events)
      /\ UNCHANGED <<pc, unsent, banners, count, listening, pane, crossed>>
      /\ \/ Reservoir!Handle(e) /\ UNCHANGED lost
         \/ lost' = TRUE /\ UNCHANGED <<shown, closed, surfaced>>
  BY DEF ReservoirInv, Reservoir!Deliver
<1>2. /\ events \in Seq(Reservoir!Event) /\ n \in Nat \ {0} /\ e = events[1] /\ e \in Reservoir!Event
      /\ events' \in Seq(Reservoir!Event) /\ Len(events') = n - 1
      /\ \A i \in 1..(n - 1) : events'[i] = events[i + 1]
  BY <1>1, EmptySeq, HeadTailProperties DEF ReservoirShapes
<1> HIDE DEF e, n
<1>3. \A i \in 1..n : Keyed(events[i])
  BY DEF ReservoirInv, n
<1>4. Keyed(e) /\ \A i \in 1..Len(events') : Keyed(events'[i])
  <2>1. \A i \in 1..(n - 1) : i + 1 \in 1..n
    BY <1>2
  <2>2. 1 \in 1..n
    BY <1>2
  <2> QED BY <1>2, <1>3, <2>1, <2>2
<1>5. ReservoirShapes'
  <2>1. CASE Reservoir!Handle(e) /\ UNCHANGED lost
    <3>1. /\ shown' \in [Key -> Nat] /\ closed' \in SUBSET Key /\ surfaced' \in SUBSET Caller
      <4>1. /\ e.from \in Caller /\ e.list \in [Key -> Nat] /\ shown \in [Key -> Nat]
            /\ closed \in SUBSET Key /\ surfaced \in SUBSET Caller
            /\ e.to \in {"log", "toast", "run", "critical", "banner", "dismiss", "list"}
            /\ e.to \in {"banner", "dismiss"} => e.key \in Key
        BY <1>1, <1>2, <1>4 DEF ReservoirShapes, Reservoir!Event, Reservoir!Banners, Keyed
      <4>2. shown' \in [Key -> Nat]
        <5>1. CASE e.to = "list"
          BY <2>1, <4>1, <5>1 DEF Reservoir!Handle, Reservoir!Shown
        <5>2. CASE e.to = "banner"
          BY <2>1, <4>1, <5>2 DEF Reservoir!Handle, Reservoir!Shown
        <5>3. CASE e.to = "dismiss"
          BY <2>1, <4>1, <5>3 DEF Reservoir!Handle, Reservoir!Shown
        <5>4. CASE e.to \notin {"banner", "dismiss", "list"}
          BY <2>1, <4>1, <5>4 DEF Reservoir!Handle, Reservoir!Shown
        <5> QED BY <5>1, <5>2, <5>3, <5>4
      <4>3. closed' \in SUBSET Key /\ surfaced' \in SUBSET Caller
        BY <2>1, <4>1 DEF Reservoir!Handle
      <4> QED BY <4>2, <4>3
    <3> QED BY <1>1, <1>2, <2>1, <3>1 DEF ReservoirShapes
  <2>2. CASE lost' = TRUE /\ UNCHANGED <<shown, closed, surfaced>>
    BY <1>1, <1>2, <2>2 DEF ReservoirShapes
  <2> QED BY <1>1, <2>1, <2>2
<1>6. ASSUME NEW c \in Caller PROVE Prepared(c)' /\ Seen(c)'
  <2>1. Prepared(c) /\ Seen(c)
    BY DEF ReservoirInv
  <2>2. Prepared(c)'
    BY <1>1, <2>1 DEF Prepared, Keyed
  <2>3. ASSUME pc[c] = "done", unsent[c].due, ~lost'
        PROVE  \/ c \in surfaced'
               \/ \E i \in 1..Len(events') : events'[i].from = c /\ events'[i].to \in Surface
    <3>1. /\ ~lost /\ surfaced \subseteq surfaced'
          /\ e.to \in Surface => e.from \in surfaced'
      BY <1>1, <2>3 DEF Reservoir!Handle, Surface, ReservoirShapes
    <3>2. CASE c \in surfaced
      BY <3>1, <3>2
    <3>3. CASE \E i \in 1..n : events[i].from = c /\ events[i].to \in Surface
      <4>1. PICK i \in 1..n : events[i].from = c /\ events[i].to \in Surface
        BY <3>3
      <4>2. CASE i = 1
        BY <1>2, <3>1, <4>1, <4>2
      <4>3. CASE i # 1
        <5>1. i - 1 \in 1..(n - 1) /\ (i - 1) + 1 = i
          BY <1>2, <4>3
        <5>2. events'[i - 1] = events[i]
          BY <1>2, <5>1
        <5> QED BY <1>2, <4>1, <5>1, <5>2
      <4> QED BY <4>2, <4>3
    <3> QED BY <2>1, <2>3, <3>1, <3>2, <3>3 DEF Seen, n
  <2>4. pc' = pc /\ unsent' = unsent
    BY <1>1
  <2>5. Seen(c)'
    BY <2>3, <2>4 DEF Seen
  <2> QED BY <2>2, <2>5
<1>7. ASSUME ~lost', ~crossed' PROVE Alone' /\ \A k \in Key : Tracked(k)'
  <2>1. /\ ~lost /\ Reservoir!Handle(e)
        /\ Alone /\ \A k \in Key : Tracked(k)
    BY <1>1, <1>7 DEF ReservoirInv, ReservoirShapes
  <2>2. Alone'
    BY <1>1, <2>1 DEF Alone, Reservoir!OnBanners
  <2>3. ASSUME NEW k \in Key PROVE Tracked(k)'
    <3>1. /\ Concerns(e, k) => shown'[k] = Says(e, k) /\ k \notin closed'
          /\ ~Concerns(e, k) => shown'[k] = shown[k] /\ (k \in closed => k \in closed')
      BY <1>1, <1>2, <1>4, <2>1, HandledIs
    <3>2. /\ banners' = banners /\ pc' = pc /\ unsent' = unsent
          /\ \A x : Right(x, k)' <=> Right(x, k)
      BY <1>1 DEF Right, Says
    <3>3. Unsent(k)' <=> Unsent(k)
      BY <3>2 DEF Unsent
    <3>4. \A c \in Caller : pc'[c] = "changed" /\ Concerns(unsent'[c], k) => Right(unsent'[c], k)
      BY <2>1, <3>2 DEF Tracked
    <3>5. ASSUME ~Unsent(k), NEW i \in 1..(n - 1), Concerns(events'[i], k)
          PROVE  \/ Right(events'[i], k)
                 \/ \E j \in (i + 1)..(n - 1) : Concerns(events'[j], k)
      <4>1. i + 1 \in 1..n /\ events'[i] = events[i + 1]
        BY <1>2
      <4>2. \/ Right(events[i + 1], k)
            \/ \E j \in ((i + 1) + 1)..n : Concerns(events[j], k)
        BY <2>1, <3>5, <4>1 DEF Tracked, n
      <4>3. ASSUME NEW j \in ((i + 1) + 1)..n
            PROVE  j - 1 \in (i + 1)..(n - 1) /\ events'[j - 1] = events[j]
        <5>1. j - 1 \in 1..(n - 1) /\ (j - 1) + 1 = j /\ j - 1 \in (i + 1)..(n - 1)
          BY <1>2
        <5> QED BY <1>2, <5>1
      <4> QED BY <4>1, <4>2, <4>3
    <3>6. ASSUME ~Unsent(k), \A i \in 1..(n - 1) : ~Concerns(events'[i], k)
          PROVE  k \in closed' \/ shown'[k] = banners[k]
      <4>1. ASSUME NEW j \in 2..n PROVE ~Concerns(events[j], k)
        <5>1. j - 1 \in 1..(n - 1) /\ (j - 1) + 1 = j
          BY <1>2
        <5> QED BY <1>2, <3>6, <5>1
      <4>2. CASE Concerns(e, k)
        <5>1. Right(events[1], k) \/ \E j \in (1 + 1)..n : Concerns(events[j], k)
          BY <1>2, <2>1, <3>6, <4>2 DEF Tracked, n
        <5>2. Right(e, k)
          BY <1>2, <4>1, <5>1
        <5> QED BY <3>1, <4>2, <5>2 DEF Right
      <4>3. CASE ~Concerns(e, k)
        <5>1. \A i \in 1..n : i = 1 \/ i \in 2..n
          BY <1>2
        <5>2. ~OnItsWay(k)
          BY <1>2, <4>1, <4>3, <5>1 DEF OnItsWay, n
        <5> QED BY <2>1, <3>1, <3>6, <4>3, <5>2 DEF Tracked
      <4> QED BY <4>2, <4>3
    <3>7. (\A c \in Caller : pc[c] = "changed" /\ Concerns(unsent[c], k) => Right(unsent[c], k))'
      BY <3>2, <3>4 DEF Right, Says
    <3>8. (~Unsent(k) => \A i \in 1..Len(events) :
             Concerns(events[i], k) => \/ Right(events[i], k)
                                       \/ \E j \in (i + 1)..Len(events) : Concerns(events[j], k))'
      BY <1>2, <3>2, <3>3, <3>5 DEF Right, Says
    <3>9. (~Unsent(k) /\ ~OnItsWay(k) => k \in closed \/ shown[k] = banners[k])'
      BY <1>2, <3>2, <3>3, <3>6 DEF OnItsWay
    <3> QED BY <3>7, <3>8, <3>9 DEF Tracked
  <2> QED BY <2>2, <2>3
<1> QED
  BY <1>4, <1>5, <1>6, <1>7 DEF ReservoirInv

LEMMA ReservoirNext == Keys /\ ReservoirInv /\ [Reservoir!Next]_Reservoir!vars => ReservoirInv'
<1> SUFFICES ASSUME Keys, ReservoirInv, [Reservoir!Next]_Reservoir!vars PROVE ReservoirInv'
  OBVIOUS
<1>1. ReservoirShapes
  BY DEF ReservoirInv
<1>2. ASSUME NEW c \in Caller,
             Reservoir!Report(c) \/ Reservoir!ReportOngoing(c) \/ Reservoir!DismissBanner(c) \/ Reservoir!Replace(c)
      PROVE  ReservoirInv'
  <2>1. \E e, bs : Operation(c, e, bs)
    BY <1>1, <1>2, ReportIs, ReportOngoingIs, DismissBannerIs, ReplaceIs
  <2> QED BY <2>1, ChangeKeeps
<1>3. ASSUME NEW c \in Caller, Reservoir!Emit(c) PROVE ReservoirInv'
  BY <1>3, EmitKeeps
<1>4. CASE Reservoir!Deliver
  BY <1>4, DeliverKeeps
<1>5. CASE Reservoir!Subscribe \/ Reservoir!SwitchTab \/ UNCHANGED Reservoir!vars
  <2>1. UNCHANGED <<pc, unsent, banners, count, events, shown, surfaced, crossed, lost, closed>>
    BY <1>5 DEF Reservoir!Subscribe, Reservoir!SwitchTab, Reservoir!vars
  <2> QED BY <2>1 DEF ReservoirInv, ReservoirShapes, Prepared, Seen, Keyed, Alone, Tracked, Unsent,
                      OnItsWay, Right, Says, Reservoir!OnBanners
<1>6. ASSUME NEW k \in Key, Reservoir!UserCloses(k) PROVE ReservoirInv'
  <2>1. /\ shown' = [shown EXCEPT ![k] = 0] /\ closed' = closed \cup {k}
        /\ UNCHANGED <<pc, unsent, banners, count, events, surfaced, crossed, lost>>
    BY <1>6 DEF Reservoir!UserCloses
  <2>2. ReservoirShapes'
    BY <1>1, <2>1 DEF ReservoirShapes
  <2>3. /\ \A c \in Caller : (Prepared(c) /\ Seen(c))'
        /\ (\A i \in 1..Len(events) : Keyed(events[i]))'
    BY <2>1 DEF ReservoirInv, Prepared, Seen, Keyed
  <2>4. Alone' <=> Alone
    BY <2>1 DEF Alone, Reservoir!OnBanners
  <2>5. ASSUME NEW j \in Key, Tracked(j) PROVE Tracked(j)'
    <3>1. j \in closed' \/ (shown'[j] = shown[j] /\ (j \in closed' <=> j \in closed))
      BY <1>1, <2>1 DEF ReservoirShapes
    <3> QED BY <2>1, <2>5, <3>1 DEF Tracked, Unsent, OnItsWay, Right, Says
  <2>6. ~lost' /\ ~crossed' => Alone' /\ \A j \in Key : Tracked(j)'
    BY <2>1, <2>4, <2>5 DEF ReservoirInv
  <2> QED BY <2>2, <2>3, <2>6 DEF ReservoirInv
<1> QED
  BY <1>2, <1>3, <1>4, <1>5, <1>6 DEF Reservoir!Next

\* What is due to the user is shown, once no event is on its way: from the severity warn
\* on routeWails sends every report to the page (Report, useNotifyChannel, onError).
THEOREM DueReportsAreSeen == ASSUME Keys PROVE Reservoir!Spec => []Reservoir!ReportsAreSeen
<1>1. ReservoirInv => Reservoir!ReportsAreSeen
  <2> SUFFICES ASSUME ReservoirInv, events = <<>>, ~lost,
                      NEW c \in Caller, pc[c] = "done", unsent[c].due
               PROVE  c \in surfaced
    BY DEF Reservoir!ReportsAreSeen, Reservoir!Quiet
  <2>1. Len(events) = 0
    BY EmptySeq
  <2> QED BY <2>1 DEF ReservoirInv, Seen
<1> QED
  BY <1>1, ReservoirInitially, ReservoirNext, PTL DEF Reservoir!Spec

\* The page at rest shows the banners of the Reservoir but those the user closed, as long
\* as no two operations overlapped and no event was lost: what an event carries is what
\* the page needs (upsertBanner, DismissBanner, ReplaceBannersByPrefix).
THEOREM PageShowsBanners == ASSUME Keys PROVE Reservoir!Spec => []Reservoir!PageFollows
<1>1. ReservoirInv => Reservoir!PageFollows
  <2> SUFFICES ASSUME ReservoirInv, \A c \in Caller : pc[c] # "changed", events = <<>>,
                      ~lost, ~crossed, NEW k \in Key, k \notin closed
               PROVE  shown[k] = banners[k]
    BY DEF Reservoir!PageFollows, Reservoir!Quiet
  <2>1. Len(events) = 0 /\ Tracked(k)
    BY EmptySeq DEF ReservoirInv
  <2>2. ~Unsent(k) /\ ~OnItsWay(k)
    BY <2>1 DEF Unsent, OnItsWay
  <2> QED BY <2>1, <2>2 DEF Tracked
<1> QED
  BY <1>1, ReservoirInitially, ReservoirNext, PTL DEF Reservoir!Spec

\* The operations whose event is still to be emitted.
Changed == {c \in Caller : pc[c] = "changed"}

\* No banner is newer than the operations so far, and there are no more events than
\* operations.
Numbers == [Key -> 0..count]

ReservoirTyped ==
    /\ banners \in Numbers /\ shown \in Numbers
    /\ \A c \in Caller : pc[c] # "ready" => unsent[c].list \in Numbers
    /\ \A i \in 1..Len(events) : events[i].list \in Numbers
    /\ IsFiniteSet(Changed) /\ Len(events) + Cardinality(Changed) <= count
    /\ listening \in BOOLEAN /\ pane \in BOOLEAN
    /\ \A k \in closed : shown[k] = 0

LEMMA ReservoirTypedInitially == Reservoir!Init => ReservoirTyped
<1> SUFFICES ASSUME Reservoir!Init PROVE ReservoirTyped
  OBVIOUS
<1>1. /\ pc = [c \in Caller |-> "ready"] /\ events = <<>> /\ count = 0 /\ closed = {}
      /\ banners = [k \in Key |-> 0] /\ shown = [k \in Key |-> 0]
      /\ listening = FALSE /\ pane = FALSE
  BY DEF Reservoir!Init, Reservoir!Empty
<1>2. Changed = {} /\ Len(events) = 0 /\ \A c \in Caller : pc[c] = "ready"
  BY <1>1, EmptySeq DEF Changed
<1>3. IsFiniteSet(Changed) /\ Cardinality(Changed) = 0
  BY <1>2, FS_EmptySet
<1>4. banners \in Numbers /\ shown \in Numbers /\ Len(events) + Cardinality(Changed) <= count
  BY <1>1, <1>2, <1>3 DEF Numbers
<1>5. /\ \A i \in 1..Len(events) : events[i].list \in Numbers
      /\ \A k \in closed : shown[k] = 0
      /\ listening \in BOOLEAN /\ pane \in BOOLEAN
  <2>1. \A i \in 1..Len(events) : FALSE
    BY <1>2
  <2>2. \A k \in closed : FALSE
    BY <1>1
  <2>3. listening \in BOOLEAN /\ pane \in BOOLEAN
    BY <1>1
  <2> QED BY <2>1, <2>2, <2>3, Zenon
<1> QED
  BY <1>2, <1>3, <1>4, <1>5 DEF ReservoirTyped

\* An operation numbers what it sets after the operations before it.
LEMMA ChangeIs ==
    ASSUME ReservoirShapes, ReservoirTyped, NEW c \in Caller,
           \/ Reservoir!Report(c) \/ Reservoir!ReportOngoing(c)
           \/ Reservoir!DismissBanner(c) \/ Reservoir!Replace(c)
    PROVE  \E e, bs : Reservoir!Change(c, e, bs)
                      /\ e.list \in [Key -> 0..(count + 1)] /\ bs \in [Key -> 0..(count + 1)]
<1>1. /\ count \in Nat /\ Reservoir!Empty \in [Key -> 0..(count + 1)]
      /\ banners \in [Key -> 0..(count + 1)] /\ count + 1 \in 0..(count + 1) /\ 0 \in 0..(count + 1)
  BY DEF ReservoirShapes, ReservoirTyped, Numbers, Reservoir!Empty
<1>2. CASE Reservoir!Report(c)
  <2>1. PICK r \in Reservoir!Reports :
          Reservoir!Change(c, Reservoir!Ev(Reservoir!Route(r), c, None, Reservoir!Empty, r.severity # "info"), banners)
    BY <1>2 DEF Reservoir!Report
  <2> DEFINE e == Reservoir!Ev(Reservoir!Route(r), c, None, Reservoir!Empty, r.severity # "info")
  <2>2. e.list = Reservoir!Empty
    BY DEF Reservoir!Ev
  <2> HIDE DEF e
  <2> QED BY <1>1, <2>1, <2>2 DEF e
<1>3. CASE Reservoir!ReportOngoing(c)
  <2>1. PICK k \in Key :
          LET bs == [banners EXCEPT ![k] = count + 1]
          IN  Reservoir!Change(c, Reservoir!Ev("banner", c, k, bs, TRUE), bs)
    BY <1>3 DEF Reservoir!ReportOngoing
  <2> DEFINE bs == [banners EXCEPT ![k] = count + 1]
             e  == Reservoir!Ev("banner", c, k, bs, TRUE)
  <2>2. bs \in [Key -> 0..(count + 1)] /\ Reservoir!Change(c, e, bs)
    BY <1>1, <2>1
  <2>3. e.list = bs
    <3> HIDE DEF bs
    <3> QED BY DEF Reservoir!Ev
  <2> HIDE DEF e, bs
  <2> QED BY <2>2, <2>3
<1>4. CASE Reservoir!DismissBanner(c)
  <2>1. PICK k \in Key :
          Reservoir!Change(c, Reservoir!Ev("dismiss", c, k, Reservoir!Empty, FALSE), [banners EXCEPT ![k] = 0])
    BY <1>4 DEF Reservoir!DismissBanner
  <2> DEFINE bs == [banners EXCEPT ![k] = 0]
             e  == Reservoir!Ev("dismiss", c, k, Reservoir!Empty, FALSE)
  <2>2. bs \in [Key -> 0..(count + 1)] /\ Reservoir!Change(c, e, bs)
    BY <1>1, <2>1
  <2>3. e.list = Reservoir!Empty
    <3> HIDE DEF bs
    <3> QED BY DEF Reservoir!Ev
  <2> HIDE DEF e, bs
  <2> QED BY <1>1, <2>2, <2>3
<1>5. CASE Reservoir!Replace(c)
  <2>1. PICK new \in SUBSET IssueKey :
          Reservoir!Change(c, Reservoir!Ev("list", c, None, Reservoir!Replaced(new), FALSE), Reservoir!Replaced(new))
    BY <1>5 DEF Reservoir!Replace
  <2> DEFINE bs == Reservoir!Replaced(new)
             e  == Reservoir!Ev("list", c, None, bs, FALSE)
  <2>2. bs \in [Key -> 0..(count + 1)] /\ Reservoir!Change(c, e, bs)
    BY <1>1, <2>1 DEF Reservoir!Replaced
  <2>3. e.list = bs
    <3> HIDE DEF bs
    <3> QED BY DEF Reservoir!Ev
  <2> HIDE DEF e, bs
  <2> QED BY <2>2, <2>3
<1> QED
  BY <1>2, <1>3, <1>4, <1>5

LEMMA ReservoirTypedNext ==
    ASSUME Keys, ReservoirInv, ReservoirTyped, [Reservoir!Next]_Reservoir!vars
    PROVE  ReservoirTyped'
<1>0. /\ ReservoirShapes /\ count \in Nat /\ IsFiniteSet(Changed)
      /\ Cardinality(Changed) \in Nat /\ Len(events) \in Nat
      /\ Len(events) + Cardinality(Changed) <= count
      /\ pc \in [Caller -> {"ready", "changed", "done"}] /\ DOMAIN unsent = Caller
  BY FS_CardinalityType, LenProperties DEF ReservoirInv, ReservoirShapes, ReservoirTyped
<1>n. count' = count => Numbers' = Numbers
  BY DEF Numbers
<1>1. ASSUME NEW c \in Caller,
             \/ Reservoir!Report(c) \/ Reservoir!ReportOngoing(c)
             \/ Reservoir!DismissBanner(c) \/ Reservoir!Replace(c)
      PROVE  ReservoirTyped'
  <2>1. PICK e, bs : /\ Reservoir!Change(c, e, bs)
                     /\ e.list \in [Key -> 0..(count + 1)] /\ bs \in [Key -> 0..(count + 1)]
    BY <1>0, <1>1, ChangeIs
  <2>2. /\ pc[c] = "ready" /\ pc' = [pc EXCEPT ![c] = "changed"]
        /\ unsent' = [unsent EXCEPT ![c] = e] /\ banners' = bs /\ count' = count + 1
        /\ UNCHANGED <<events, listening, pane, shown, closed>>
    BY <2>1 DEF Reservoir!Change
  <2>3. Numbers' = [Key -> 0..(count + 1)] /\ Numbers \subseteq Numbers'
    BY <1>0, <2>2 DEF Numbers
  <2>4. Changed' = Changed \cup {c} /\ c \notin Changed
    BY <1>0, <2>2 DEF Changed
  <2>5. IsFiniteSet(Changed') /\ Cardinality(Changed') = Cardinality(Changed) + 1
    BY <1>0, <2>4, FS_AddElement
  <2>6. Len(events') + Cardinality(Changed') <= count'
    BY <1>0, <2>2, <2>5
  <2>7. ASSUME NEW d \in Caller, pc'[d] # "ready" PROVE unsent'[d].list \in Numbers'
    BY <1>0, <2>1, <2>2, <2>3, <2>7 DEF ReservoirTyped
  <2> QED BY <2>1, <2>2, <2>3, <2>5, <2>6, <2>7 DEF ReservoirTyped
<1>2. ASSUME NEW c \in Caller, Reservoir!Emit(c) PROVE ReservoirTyped'
  <2>1. /\ pc[c] = "changed" /\ pc' = [pc EXCEPT ![c] = "done"]
        /\ events' = IF unsent[c].to = "log" THEN events ELSE Append(events, unsent[c])
        /\ UNCHANGED <<unsent, banners, count, listening, pane, shown, closed>>
    BY <1>2 DEF Reservoir!Emit
  <2>2. Changed' = Changed \ {c} /\ c \in Changed
    BY <1>0, <2>1 DEF Changed
  <2>3. IsFiniteSet(Changed') /\ Cardinality(Changed') = Cardinality(Changed) - 1
    BY <1>0, <2>2, FS_RemoveElement
  <2>4. \A d \in Caller : pc'[d] # "ready" => pc[d] # "ready"
    BY <1>0, <2>1
  <2>5. unsent[c].list \in Numbers /\ unsent[c] \in Reservoir!Event /\ events \in Seq(Reservoir!Event)
    BY <1>0, <2>1 DEF ReservoirTyped, ReservoirInv, ReservoirShapes, Prepared
  <2>6. \/ events' = events
        \/ /\ Len(events') = Len(events) + 1 /\ events'[Len(events) + 1] = unsent[c]
           /\ \A i \in 1..Len(events) : events'[i] = events[i]
    BY <2>1, <2>5, AppendProperties
  <2>7. Len(events') + Cardinality(Changed') <= count'
    BY <1>0, <2>1, <2>3, <2>6
  <2>8. ASSUME NEW i \in 1..Len(events') PROVE events'[i].list \in Numbers
    <3>1. i \in 1..Len(events) \/ (i = Len(events) + 1 /\ events'[i] = unsent[c])
      BY <1>0, <2>6
    <3>2. i \in 1..Len(events) => events'[i] = events[i] /\ events[i].list \in Numbers
      BY <2>6 DEF ReservoirTyped
    <3> QED BY <2>5, <3>1, <3>2
  <2> QED BY <1>n, <2>1, <2>3, <2>4, <2>7, <2>8 DEF ReservoirTyped
<1>3. CASE Reservoir!Deliver
  <2> DEFINE e == Head(events)
  <2>1. /\ events # <<>> /\ events' = Tail(events)
        /\ UNCHANGED <<pc, unsent, banners, count, listening, pane>>
        /\ \/ Reservoir!Handle(e)
           \/ UNCHANGED <<shown, closed>>
    BY <1>3 DEF Reservoir!Deliver
  <2>2. /\ e \in Reservoir!Event /\ e = events[1] /\ Len(events) > 0
        /\ Len(events') = Len(events) - 1
        /\ \A i \in 1..(Len(events) - 1) : events'[i] = events[i + 1]
    BY <1>0, <2>1, EmptySeq, HeadTailProperties DEF ReservoirShapes
  <2> HIDE DEF e
  <2>3. 1 \in 1..Len(events) /\ \A i \in 1..(Len(events) - 1) : i + 1 \in 1..Len(events)
    BY <1>0, <2>2
  <2>4. e.list \in Numbers /\ Keyed(e) /\ \A i \in 1..Len(events') : events'[i].list \in Numbers
    BY <2>2, <2>3 DEF ReservoirTyped, ReservoirInv
  <2>5. Changed' = Changed /\ Len(events') + Cardinality(Changed') <= count'
    <3>1. Changed' = Changed
      BY <2>1 DEF Changed
    <3> QED BY <1>0, <2>1, <2>2, <3>1
  <2>6. shown' \in Numbers /\ \A k \in closed' : shown'[k] = 0
    <3>1. CASE UNCHANGED <<shown, closed>>
      BY <3>1 DEF ReservoirTyped
    <3>2. CASE Reservoir!Handle(e)
      <4>1. closed' \subseteq closed /\ closed \subseteq Key
        BY <1>0, <3>2 DEF Reservoir!Handle, ReservoirShapes
      <4>2. ASSUME NEW k \in Key
            PROVE  /\ Concerns(e, k) => shown'[k] = Says(e, k) /\ k \notin closed'
                   /\ ~Concerns(e, k) => shown'[k] = shown[k]
        BY <1>0, <2>2, <2>4, <3>2, HandledIs
      <4>3. \A k \in closed' : shown'[k] = 0
        BY <4>1, <4>2 DEF ReservoirTyped
      <4>4. shown' \in Numbers
        <5>1. \A k \in Key : shown[k] \in 0..count /\ Says(e, k) \in 0..count
          BY <1>0, <2>4 DEF ReservoirTyped, Numbers, Says
        <5>2. \A k \in Key : shown'[k] \in 0..count
          BY <4>2, <5>1
        <5>3. shown' = [k \in Key |-> shown'[k]]
          <6>1. CASE e.to = "list"
            BY <2>4, <3>2, <6>1 DEF Reservoir!Handle, Reservoir!Shown, Numbers
          <6>2. CASE e.to = "banner"
            BY <1>0, <3>2, <6>2 DEF Reservoir!Handle, Reservoir!Shown, ReservoirShapes
          <6>3. CASE e.to = "dismiss"
            BY <1>0, <3>2, <6>3 DEF Reservoir!Handle, Reservoir!Shown, ReservoirShapes
          <6>4. CASE e.to \notin {"banner", "dismiss", "list"}
            BY <1>0, <3>2, <6>4 DEF Reservoir!Handle, Reservoir!Shown, ReservoirShapes
          <6> QED BY <6>1, <6>2, <6>3, <6>4
        <5> QED BY <5>2, <5>3 DEF Numbers
      <4> QED BY <4>3, <4>4
    <3> QED BY <2>1, <3>1, <3>2
  <2> QED BY <1>n, <1>0, <2>1, <2>4, <2>5, <2>6 DEF ReservoirTyped
<1>4. CASE Reservoir!Subscribe \/ Reservoir!SwitchTab \/ UNCHANGED Reservoir!vars
  <2>1. /\ UNCHANGED <<pc, unsent, banners, count, events, shown, closed>>
        /\ listening' \in BOOLEAN /\ pane' \in BOOLEAN
    BY <1>4 DEF ReservoirTyped, Reservoir!Subscribe, Reservoir!SwitchTab, Reservoir!vars
  <2> QED BY <1>n, <2>1 DEF ReservoirTyped, Changed
<1>5. ASSUME NEW k \in Key, Reservoir!UserCloses(k) PROVE ReservoirTyped'
  <2>1. /\ shown' = [shown EXCEPT ![k] = 0] /\ closed' = closed \cup {k}
        /\ UNCHANGED <<pc, unsent, banners, count, events, listening, pane>>
    BY <1>5 DEF Reservoir!UserCloses
  <2>2. shown' \in Numbers /\ \A j \in closed' : shown'[j] = 0
    BY <1>0, <2>1 DEF ReservoirTyped, Numbers, ReservoirShapes
  <2> QED BY <1>n, <2>1, <2>2 DEF ReservoirTyped, Changed
<1> QED
  BY <1>1, <1>2, <1>3, <1>4, <1>5 DEF Reservoir!Next

\* No event carries, and no page shows, a banner that no operation has set, and a banner
\* the user closed stays away until an event sets it again (dismissNotification).
THEOREM ReservoirTypeCorrect == ASSUME Keys PROVE Reservoir!Spec => []Reservoir!TypeOK
<1>1. ReservoirInv /\ ReservoirTyped => Reservoir!TypeOK
  <2> SUFFICES ASSUME ReservoirInv, ReservoirTyped PROVE Reservoir!TypeOK
    OBVIOUS
  <2>1. Len(events) <= count
    BY FS_CardinalityType, LenProperties DEF ReservoirInv, ReservoirShapes, ReservoirTyped
  <2> QED BY <2>1 DEF ReservoirInv, ReservoirShapes, ReservoirTyped, Prepared, Numbers,
                      Reservoir!TypeOK
<1>2. Keys /\ ReservoirInv /\ ReservoirTyped /\ [Reservoir!Next]_Reservoir!vars => ReservoirTyped'
  BY ReservoirTypedNext
<1> QED
  BY <1>1, <1>2, ReservoirInitially, ReservoirTypedInitially, ReservoirNext, PTL DEF Reservoir!Spec

-----------------------------------------------------------------------------
(* The view of the runs: RunsView *)

CONSTANTS Run, Batches, MaxOutputs
VARIABLES caller, run, emitted, mount, runs, groups, effect, missed

RunsView == INSTANCE RunsView

\* Of ViewAssumption of RunsView the proof needs this.
BatchesOfRuns == Batches \subseteq SUBSET Run

RunEvent == [run : Run, type : {"run:output", "run:status"}]

\* The types that the arguments need.
ViewShapes ==
    /\ call \in [Batches -> {"none", "called", "answered", "failed", "received"}]
    /\ caller \in [Batches -> Nat] /\ mount \in Nat /\ mounts \in Nat
    /\ run \in [Run -> {"none", "running", "ended"}]
    /\ emitted \in [Run -> Nat]
    /\ events \in Seq(RunEvent)
    /\ runs \in [Run -> [status : {"absent", "running", "ended"}, output : Nat]]
    /\ effect \in BOOLEAN /\ listening \in BOOLEAN /\ missed \in BOOLEAN

\* A run is started by a call, all its runs are there when a call is answered, and a run
\* that is not there has written nothing.
Begun ==
    /\ \A r \in Run : run[r] # "none" => \E b \in Batches : r \in b /\ call[b] # "none"
    /\ \A b \in Batches : call[b] \in {"answered", "received"} => \A r \in b : run[r] # "none"
    /\ \A r \in Run : run[r] = "none" => emitted[r] = 0

\* The events of a run on their way.
OfRun(t, r) == {e \in RunEvent : e.run = r /\ e.type = t}
Coming(t, r) == After(events, 0, OfRun(t, r))

\* Its entry has what was handled, what is on its way has the rest.
EntryFollows(r) ==
    /\ runs[r].output + Coming("run:output", r) = emitted[r]
    /\ Coming("run:status", r) = IF run[r] = "ended" /\ runs[r].status # "ended" THEN 1 ELSE 0
    /\ runs[r].status = "ended" => run[r] = "ended"
    /\ runs[r].status = "absent" => runs[r].output = 0

\* A group is there from the response until its runs are known to have ended.
GroupFollows(g) ==
    /\ g \in groups => call[g] = "received" /\ (RunsView!Over(g) => effect)
    /\ call[g] = "received" => g \in groups \/ RunsView!Over(g)

ViewInv ==
    /\ ViewShapes /\ Begun
    /\ ~missed =>
         /\ \A r \in Run : EntryFollows(r)
         /\ \A b \in Batches : call[b] # "none" => mount # 0 /\ caller[b] = mount
         /\ \A b \in Batches : call[b] = "received" => \A r \in b : runs[r].status # "absent"
         /\ groups \subseteq RunsView!Group /\ \A g \in RunsView!Group : GroupFollows(g)

LEMMA ComingIs ==
    ASSUME events \in Seq(RunEvent), NEW t, NEW r
    PROVE  /\ Coming(t, r) \in Nat
           /\ events = <<>> => Coming(t, r) = 0
           /\ \A e \in RunEvent : events' = Append(events, e) =>
                Coming(t, r)' = Coming(t, r) + (IF e.run = r /\ e.type = t THEN 1 ELSE 0)
           /\ events # <<>> /\ events' = Tail(events) =>
                /\ Coming(t, r)' \in Nat
                /\ Coming(t, r) = Coming(t, r)'
                                  + (IF Head(events).run = r /\ Head(events).type = t THEN 1 ELSE 0)
<1>1. After(events, 0, OfRun(t, r)) \in Nat /\ (events = <<>> => After(events, 0, OfRun(t, r)) = 0)
  <2>1. events = <<>> => 0 >= Len(events)
    BY EmptySeq
  <2> QED BY <2>1, AfterType
<1>2. ASSUME NEW e \in RunEvent, events' = Append(events, e)
      PROVE  After(events', 0, OfRun(t, r)) = After(events, 0, OfRun(t, r))
                                              + (IF e.run = r /\ e.type = t THEN 1 ELSE 0)
  <2>1. e \in OfRun(t, r) <=> e.run = r /\ e.type = t
    BY DEF OfRun
  <2>2. 0 \in 0..Len(events)
    BY LenProperties
  <2>3. After(Append(events, e), 0, OfRun(t, r))
          = After(events, 0, OfRun(t, r)) + (IF e \in OfRun(t, r) THEN 1 ELSE 0)
    BY <2>2, AfterAppend
  <2> QED BY <1>2, <2>1, <2>3
<1>3. ASSUME events # <<>>, events' = Tail(events)
      PROVE  /\ After(events', 0, OfRun(t, r)) \in Nat
             /\ After(events, 0, OfRun(t, r)) = After(events', 0, OfRun(t, r))
                   + (IF Head(events).run = r /\ Head(events).type = t THEN 1 ELSE 0)
  <2>1. Head(events) \in OfRun(t, r) <=> Head(events).run = r /\ Head(events).type = t
    BY <1>3, HeadTailProperties DEF OfRun
  <2>2. After(Tail(events), 0, OfRun(t, r)) = After(events, 1, OfRun(t, r))
    BY <1>3, AfterTail
  <2>3. After(events, 0, OfRun(t, r)) = After(events, 1, OfRun(t, r))
                                        + (IF Head(events) \in OfRun(t, r) THEN 1 ELSE 0)
    BY <1>3, AfterHead
  <2>4. After(events, 1, OfRun(t, r)) \in Nat
    BY AfterType
  <2> QED BY <1>3, <2>1, <2>2, <2>3, <2>4
<1> QED
  BY <1>1, <1>2, <1>3 DEF Coming

LEMMA ViewInitially == RunsView!Init => ViewInv
<1> SUFFICES ASSUME RunsView!Init PROVE ViewInv
  OBVIOUS
<1>1. /\ call = [b \in Batches |-> "none"] /\ caller = [b \in Batches |-> 0]
      /\ run = [r \in Run |-> "none"] /\ emitted = [r \in Run |-> 0] /\ events = <<>>
      /\ mount = 0 /\ mounts = 0 /\ listening = FALSE
      /\ groups = {} /\ effect = FALSE /\ missed = FALSE
      /\ runs = [r \in Run |-> [status |-> "absent", output |-> 0]]
  BY DEF RunsView!Init, RunsView!NoRuns, RunsView!Absent
<1>2. events \in Seq(RunEvent)
  BY <1>1, EmptySeq
<1>3. ViewShapes /\ Begun
  BY <1>1, <1>2 DEF ViewShapes, Begun, RunEvent
<1>4. ASSUME NEW r \in Run PROVE EntryFollows(r)
  <2>1. Coming("run:output", r) = 0 /\ Coming("run:status", r) = 0
    BY <1>1, <1>2, ComingIs
  <2> QED BY <1>1, <2>1 DEF EntryFollows
<1>5. \A g \in RunsView!Group : g \in Batches
  BY DEF RunsView!Group
<1> QED
  BY <1>1, <1>3, <1>4, <1>5 DEF ViewInv, GroupFollows

\* The backend: a run is started, writes and ends, and its call returns.
LEMMA BackendKeepsView ==
    ASSUME BatchesOfRuns, ViewInv,
           \/ \E b \in Batches : RunsView!Return(b) \/ \E r \in b : RunsView!StartWorker(b, r)
           \/ \E r \in Run : RunsView!Output(r) \/ RunsView!End(r)
    PROVE  ViewInv'
<1>0. /\ call \in [Batches -> {"none", "called", "answered", "failed", "received"}]
      /\ run \in [Run -> {"none", "running", "ended"}] /\ emitted \in [Run -> Nat]
      /\ runs \in [Run -> [status : {"absent", "running", "ended"}, output : Nat]]
      /\ events \in Seq(RunEvent) /\ mounts' = mounts
      /\ UNCHANGED <<caller, mount, runs, groups, effect, missed, listening>>
  BY DEF ViewInv, ViewShapes, RunEvent, RunsView!Return, RunsView!StartWorker, RunsView!Output,
         RunsView!End, RunsView!pageVars
<1>g. /\ RunsView!Group' = RunsView!Group /\ \A g \in RunsView!Group : g \in Batches
      /\ \A g : RunsView!Over(g)' <=> RunsView!Over(g)
  BY <1>0 DEF RunsView!Group, RunsView!Over
<1>1. ASSUME NEW b \in Batches, RunsView!Return(b) PROVE ViewInv'
  <2>1. /\ UNCHANGED <<run, emitted, events>> /\ call[b] = "called"
        /\ \/ (\A r \in b : run[r] # "none") /\ call' = [call EXCEPT ![b] = "answered"]
           \/ call' = [call EXCEPT ![b] = "failed"]
    BY <1>1 DEF RunsView!Return
  <2>2. ViewShapes'
    BY <1>0, <2>1 DEF ViewInv, ViewShapes
  <2>3. Begun'
    BY <1>0, <2>1 DEF ViewInv, Begun
  <2>4. \A d \in Batches : /\ (call'[d] = "none" <=> call[d] = "none")
                           /\ (call'[d] = "received" <=> call[d] = "received")
    BY <1>0, <2>1
  <2>5. \A r \in Run : EntryFollows(r)' <=> EntryFollows(r)
    BY <1>0, <2>1 DEF EntryFollows, Coming, OfRun
  <2>6. \A g \in RunsView!Group : GroupFollows(g)' <=> GroupFollows(g)
    BY <1>0, <1>g, <2>4 DEF GroupFollows
  <2> QED BY <1>0, <1>g, <2>2, <2>3, <2>4, <2>5, <2>6 DEF ViewInv
<1>2. ASSUME NEW b \in Batches, NEW r \in b, RunsView!StartWorker(b, r) PROVE ViewInv'
  <2>0. r \in Run
    BY DEF BatchesOfRuns
  <2>1. /\ UNCHANGED <<call, emitted, events>> /\ call[b] = "called" /\ run[r] = "none"
        /\ run' = [run EXCEPT ![r] = "running"]
    BY <1>2 DEF RunsView!StartWorker
  <2>2. ViewShapes'
    BY <1>0, <2>0, <2>1 DEF ViewInv, ViewShapes
  <2>3. Begun'
    <3>1. \A d \in Batches : \A x \in d : x \in Run
      BY DEF BatchesOfRuns
    <3> QED BY <1>0, <2>0, <2>1, <3>1 DEF ViewInv, Begun
  <2>4. ASSUME NEW x \in Run, EntryFollows(x) PROVE EntryFollows(x)'
    <3>1. (run'[x] = "ended") <=> (run[x] = "ended")
      BY <1>0, <2>0, <2>1
    <3>2. \A t : Coming(t, x)' = Coming(t, x)
      BY <2>1 DEF Coming, OfRun
    <3> QED BY <1>0, <2>1, <2>4, <3>1, <3>2 DEF EntryFollows
  <2>5. \A g \in RunsView!Group : GroupFollows(g)' <=> GroupFollows(g)
    BY <1>0, <1>g, <2>1 DEF GroupFollows
  <2> QED BY <1>0, <1>g, <2>1, <2>2, <2>3, <2>4, <2>5 DEF ViewInv
<1>3. ASSUME NEW r \in Run, RunsView!Output(r) PROVE ViewInv'
  <2> DEFINE e == [run |-> r, type |-> "run:output"]
  <2>1. /\ UNCHANGED <<call, run>> /\ run[r] # "none" /\ emitted' = [emitted EXCEPT ![r] = @ + 1]
        /\ events' = Append(events, e) /\ e \in RunEvent /\ e.run = r /\ e.type = "run:output"
    BY <1>3 DEF RunsView!Output, RunEvent
  <2> HIDE DEF e
  <2>2. events' \in Seq(RunEvent)
    BY <1>0, <2>1, AppendProperties
  <2>3. ViewShapes' /\ Begun'
    BY <1>0, <2>1, <2>2 DEF ViewInv, ViewShapes, Begun, RunEvent
  <2>4. ASSUME NEW x \in Run, EntryFollows(x) PROVE EntryFollows(x)'
    <3>1. /\ Coming("run:output", x)' = Coming("run:output", x) + (IF r = x THEN 1 ELSE 0)
          /\ Coming("run:status", x)' = Coming("run:status", x)
          /\ Coming("run:output", x) \in Nat
      <4>1. /\ Coming("run:output", x) \in Nat /\ Coming("run:status", x) \in Nat
            /\ Coming("run:output", x)' = Coming("run:output", x)
                 + (IF e.run = x /\ e.type = "run:output" THEN 1 ELSE 0)
            /\ Coming("run:status", x)' = Coming("run:status", x)
                 + (IF e.run = x /\ e.type = "run:status" THEN 1 ELSE 0)
        BY <1>0, <2>1, ComingIs
      <4> QED BY <2>1, <4>1
    <3>2. emitted'[x] = emitted[x] + (IF r = x THEN 1 ELSE 0)
      BY <1>0, <2>1
    <3>3. runs[x].output \in Nat /\ runs[x].output + Coming("run:output", x) = emitted[x]
      BY <1>0, <2>4 DEF EntryFollows
    <3>4. runs[x].output + Coming("run:output", x)' = emitted'[x]
      <4>1. CASE r = x
        BY <3>1, <3>2, <3>3, <4>1
      <4>2. CASE r # x
        BY <3>1, <3>2, <3>3, <4>2
      <4> QED BY <4>1, <4>2
    <3> QED BY <1>0, <2>1, <2>4, <3>1, <3>4 DEF EntryFollows
  <2>5. \A g \in RunsView!Group : GroupFollows(g)' <=> GroupFollows(g)
    BY <1>0, <1>g, <2>1 DEF GroupFollows
  <2> QED BY <1>0, <1>g, <2>1, <2>3, <2>4, <2>5 DEF ViewInv
<1>4. ASSUME NEW r \in Run, RunsView!End(r) PROVE ViewInv'
  <2> DEFINE e == [run |-> r, type |-> "run:status"]
  <2>1. /\ UNCHANGED <<call, emitted>> /\ run[r] = "running" /\ run' = [run EXCEPT ![r] = "ended"]
        /\ events' = Append(events, e) /\ e \in RunEvent /\ e.run = r /\ e.type = "run:status"
    BY <1>4 DEF RunsView!End, RunEvent
  <2> HIDE DEF e
  <2>2. events' \in Seq(RunEvent)
    BY <1>0, <2>1, AppendProperties
  <2>3. ViewShapes'
    BY <1>0, <2>1, <2>2 DEF ViewInv, ViewShapes, RunEvent
  <2>4. Begun'
    <3>1. \A x \in Run : run'[x] = "none" <=> run[x] = "none"
      BY <1>0, <2>1
    <3>2. \A d \in Batches : \A x \in d : x \in Run
      BY DEF BatchesOfRuns
    <3> QED BY <1>0, <2>1, <3>1, <3>2 DEF ViewInv, Begun
  <2>5. ASSUME NEW x \in Run, EntryFollows(x) PROVE EntryFollows(x)'
    <3>1. /\ Coming("run:output", x)' = Coming("run:output", x)
          /\ Coming("run:status", x)' = Coming("run:status", x) + (IF r = x THEN 1 ELSE 0)
          /\ Coming("run:status", x) \in Nat
      <4>1. /\ Coming("run:status", x) \in Nat /\ Coming("run:output", x) \in Nat
            /\ Coming("run:status", x)' = Coming("run:status", x)
                 + (IF e.run = x /\ e.type = "run:status" THEN 1 ELSE 0)
            /\ Coming("run:output", x)' = Coming("run:output", x)
                 + (IF e.run = x /\ e.type = "run:output" THEN 1 ELSE 0)
        BY <1>0, <2>1, ComingIs
      <4> QED BY <2>1, <4>1
    <3>2. run'[x] = IF r = x THEN "ended" ELSE run[x]
      BY <1>0, <2>1
    <3> QED BY <1>0, <2>1, <2>5, <3>1, <3>2 DEF EntryFollows
  <2>6. \A g \in RunsView!Group : GroupFollows(g)' <=> GroupFollows(g)
    BY <1>0, <1>g, <2>1 DEF GroupFollows
  <2> QED BY <1>0, <1>g, <2>1, <2>3, <2>4, <2>5, <2>6 DEF ViewInv
<1> QED
  BY <1>1, <1>2, <1>3, <1>4

\* The page: the tab is opened and closed, and its hook calls and gets the response.
LEMMA PageKeepsView ==
    ASSUME BatchesOfRuns, ViewInv,
           \/ RunsView!Mount \/ RunsView!Subscribe \/ RunsView!Unmount \/ RunsView!DropGroups
           \/ \E b \in Batches : RunsView!Call(b) \/ RunsView!Respond(b)
    PROVE  ViewInv'
<1>0. /\ call \in [Batches -> {"none", "called", "answered", "failed", "received"}]
      /\ caller \in [Batches -> Nat] /\ mount \in Nat /\ mounts \in Nat
      /\ run \in [Run -> {"none", "running", "ended"}] /\ emitted \in [Run -> Nat]
      /\ runs \in [Run -> [status : {"absent", "running", "ended"}, output : Nat]]
      /\ events \in Seq(RunEvent) /\ UNCHANGED <<run, emitted, events>>
  BY DEF ViewInv, ViewShapes, RunsView!Mount, RunsView!Subscribe, RunsView!Unmount, RunsView!Call,
         RunsView!Respond, RunsView!DropGroups, RunsView!backendVars
<1>g. /\ RunsView!Group' = RunsView!Group /\ \A g \in RunsView!Group : g \in Batches
      /\ runs' = runs => \A g : RunsView!Over(g)' <=> RunsView!Over(g)
  BY DEF RunsView!Group, RunsView!Over
<1>c. \A t, x : Coming(t, x)' = Coming(t, x)
  BY <1>0 DEF Coming, OfRun
<1>e. ASSUME runs' = runs PROVE \A x \in Run : EntryFollows(x)' <=> EntryFollows(x)
  BY <1>0, <1>c, <1>e DEF EntryFollows
<1>1. CASE RunsView!Mount
  <2>1. /\ UNCHANGED <<call, caller, listening, runs, groups, effect, missed>>
        /\ mount = 0 /\ mount' = mounts + 1 /\ mounts' = mounts + 1
    BY <1>1 DEF RunsView!Mount, RunsView!backendVars
  <2>2. ViewShapes' /\ Begun'
    BY <1>0, <2>1 DEF ViewInv, ViewShapes, Begun
  <2>3. \A g \in RunsView!Group : GroupFollows(g)' <=> GroupFollows(g)
    BY <1>g, <2>1 DEF GroupFollows
  <2> QED BY <1>e, <1>g, <2>1, <2>2, <2>3 DEF ViewInv
<1>2. CASE RunsView!Subscribe
  <2>1. UNCHANGED <<call, caller, mount, mounts, runs, groups, effect, missed>> /\ listening' = TRUE
    BY <1>2 DEF RunsView!Subscribe, RunsView!backendVars
  <2>2. ViewShapes' /\ Begun'
    BY <1>0, <2>1 DEF ViewInv, ViewShapes, Begun
  <2>3. \A g \in RunsView!Group : GroupFollows(g)' <=> GroupFollows(g)
    BY <1>g, <2>1 DEF GroupFollows
  <2> QED BY <1>e, <1>g, <2>1, <2>2, <2>3 DEF ViewInv
<1>3. CASE RunsView!Unmount
  <2>1. /\ UNCHANGED <<call, caller, mounts>> /\ mount' = 0 /\ listening' = FALSE
        /\ runs' = [r \in Run |-> [status |-> "absent", output |-> 0]]
        /\ groups' = {} /\ effect' = FALSE
        /\ missed' = (missed \/ \E b \in Batches : call[b] # "none")
    BY <1>3 DEF RunsView!Unmount, RunsView!NoRuns, RunsView!Absent, RunsView!backendVars
  <2>2. ViewShapes' /\ Begun'
    BY <1>0, <2>1 DEF ViewInv, ViewShapes, Begun
  \* When nothing has been called no run has begun, and nothing is lost.
  <2>3. ASSUME ~missed', NEW x \in Run PROVE EntryFollows(x)'
    <3>1. ~missed /\ run[x] = "none" /\ emitted[x] = 0
      BY <1>0, <2>1, <2>3 DEF ViewInv, Begun
    <3>2. /\ runs[x].output + Coming("run:output", x) = emitted[x] /\ runs[x].output \in Nat
          /\ Coming("run:output", x) \in Nat /\ Coming("run:status", x) = 0
      BY <1>0, <3>1, ComingIs DEF ViewInv, EntryFollows
    <3>3. Coming("run:output", x) = 0
      BY <3>1, <3>2
    <3> QED BY <1>0, <1>c, <2>1, <3>1, <3>2, <3>3 DEF EntryFollows
  <2>4. ASSUME ~missed' PROVE \A b \in Batches : call'[b] = "none"
    BY <1>0, <2>1, <2>4
  <2> QED BY <1>g, <2>1, <2>2, <2>3, <2>4 DEF ViewInv, GroupFollows
<1>4. CASE RunsView!DropGroups
  <2>1. /\ UNCHANGED <<call, caller, mount, mounts, listening, runs, missed>> /\ effect' = FALSE
        /\ groups' = {g \in groups : ~RunsView!Over(g)}
    BY <1>4 DEF RunsView!DropGroups, RunsView!backendVars
  <2>2. ViewShapes' /\ Begun'
    BY <1>0, <2>1 DEF ViewInv, ViewShapes, Begun
  <2>3. \A g \in RunsView!Group : GroupFollows(g) => GroupFollows(g)'
    BY <1>g, <2>1 DEF GroupFollows
  <2> QED BY <1>e, <1>g, <2>1, <2>2, <2>3 DEF ViewInv
<1>5. ASSUME NEW b \in Batches, RunsView!Call(b) PROVE ViewInv'
  <2>1. /\ UNCHANGED <<mount, mounts, listening, runs, groups, effect, missed>>
        /\ mount # 0 /\ call[b] = "none" /\ call' = [call EXCEPT ![b] = "called"]
        /\ caller' = [caller EXCEPT ![b] = mount]
    BY <1>5 DEF RunsView!Call, RunsView!pageVars
  <2>2. ViewShapes'
    BY <1>0, <2>1 DEF ViewInv, ViewShapes
  <2>3. Begun'
    BY <1>0, <2>1 DEF ViewInv, Begun
  <2>4. \A d \in Batches : call'[d] = "received" <=> call[d] = "received"
    BY <1>0, <2>1
  <2>5. \A g \in RunsView!Group : GroupFollows(g)' <=> GroupFollows(g)
    BY <1>g, <2>1, <2>4 DEF GroupFollows
  <2>6. ASSUME ~missed, NEW d \in Batches, call'[d] # "none" PROVE caller'[d] = mount
    BY <1>0, <2>1, <2>6 DEF ViewInv
  <2> QED BY <1>e, <1>g, <2>1, <2>2, <2>3, <2>4, <2>5, <2>6 DEF ViewInv
<1>6. ASSUME NEW b \in Batches, RunsView!Respond(b) PROVE ViewInv'
  <2>1. /\ UNCHANGED <<caller, mount, mounts, listening, missed>>
        /\ call[b] = "answered" /\ call' = [call EXCEPT ![b] = "received"]
        /\ IF mount = caller[b]
           THEN /\ runs' = RunsView!Responded(b) /\ effect' = TRUE
                /\ groups' = IF b \in RunsView!Group THEN groups \cup {b} ELSE groups
           ELSE UNCHANGED <<runs, groups, effect>>
    BY <1>6 DEF RunsView!Respond
  <2>2. RunsView!Responded(b) = [r \in Run |-> IF r \in b /\ runs[r] = [status |-> "absent", output |-> 0]
                                               THEN [status |-> "running", output |-> 0] ELSE runs[r]]
    BY DEF RunsView!Responded, RunsView!Absent, RunsView!Fresh
  <2>3. runs' \in [Run -> [status : {"absent", "running", "ended"}, output : Nat]] /\ effect' \in BOOLEAN
    <3>1. effect \in BOOLEAN
      BY DEF ViewInv, ViewShapes
    <3>2. \A r \in Run : runs[r] \in [status : {"absent", "running", "ended"}, output : Nat]
      BY <1>0
    <3>3. RunsView!Responded(b) \in [Run -> [status : {"absent", "running", "ended"}, output : Nat]]
      BY <2>2, <3>2
    <3> QED BY <1>0, <2>1, <3>1, <3>3
  <2>4. ViewShapes'
    BY <1>0, <2>1, <2>3 DEF ViewInv, ViewShapes
  <2>5. Begun'
    BY <1>0, <2>1 DEF ViewInv, Begun
  <2>6. ASSUME ~missed'
        PROVE  /\ \A r \in Run : EntryFollows(r)'
               /\ \A d \in Batches : call'[d] # "none" => mount' # 0 /\ caller'[d] = mount'
               /\ \A d \in Batches : call'[d] = "received" => \A r \in d : runs'[r].status # "absent"
               /\ groups' \subseteq RunsView!Group /\ \A g \in RunsView!Group : GroupFollows(g)'
    <3>0. ~missed
      BY <2>1, <2>6
    <3>1. mount = caller[b]
      BY <2>1, <3>0 DEF ViewInv
    <3>2. /\ effect' = TRUE /\ runs' = RunsView!Responded(b)
          /\ groups' = IF b \in RunsView!Group THEN groups \cup {b} ELSE groups
      BY <2>1, <3>1
    <3>3. ASSUME NEW r \in Run
          PROVE  /\ EntryFollows(r) /\ runs'[r].output = runs[r].output
                 /\ runs'[r].status # runs[r].status =>
                      runs[r].status = "absent" /\ runs'[r].status = "running"
                 /\ r \in b => runs'[r].status # "absent"
      <4>1. EntryFollows(r)
        BY <3>0 DEF ViewInv
      <4>2. /\ runs[r] \in [status : {"absent", "running", "ended"}, output : Nat]
            /\ runs[r].status = "absent" => runs[r] = [status |-> "absent", output |-> 0]
        <5>1. runs[r] \in [status : {"absent", "running", "ended"}, output : Nat]
          BY <1>0
        <5> QED BY <4>1, <5>1 DEF EntryFollows
      <4>3. runs'[r] = IF r \in b /\ runs[r] = [status |-> "absent", output |-> 0]
                       THEN [status |-> "running", output |-> 0] ELSE runs[r]
        BY <2>2, <3>2
      <4> QED BY <4>1, <4>2, <4>3
    <3>4. \A r \in Run : EntryFollows(r)'
      BY <1>0, <1>c, <3>3 DEF EntryFollows
    <3>5. \A d \in Batches : \A r \in d : r \in Run
      BY DEF BatchesOfRuns
    <3>6. \A d \in Batches : call'[d] = "received" => \A r \in d : runs'[r].status # "absent"
      BY <1>0, <2>1, <3>0, <3>3, <3>5 DEF ViewInv
    <3>7. ASSUME NEW g \in RunsView!Group PROVE GroupFollows(g)'
      <4>1. RunsView!Over(g) <=> RunsView!Over(g)'
        BY <1>g, <3>3, <3>5 DEF RunsView!Over
      <4> QED BY <1>0, <1>g, <2>1, <3>0, <3>2, <4>1 DEF ViewInv, GroupFollows
    <3>8. groups' \subseteq RunsView!Group
      BY <3>0, <3>2 DEF ViewInv
    <3>9. \A d \in Batches : call'[d] # "none" => mount' # 0 /\ caller'[d] = mount'
      BY <1>0, <2>1, <3>0 DEF ViewInv
    <3> QED BY <3>4, <3>6, <3>7, <3>8, <3>9
  <2> QED BY <1>g, <2>4, <2>5, <2>6 DEF ViewInv
<1> QED
  BY <1>1, <1>2, <1>3, <1>4, <1>5, <1>6

\* The window handles an event.
LEMMA DeliverKeepsView ==
    ASSUME BatchesOfRuns, ViewInv, RunsView!Deliver
    PROVE  ViewInv'
<1> DEFINE e == Head(events)
<1>0. /\ call \in [Batches -> {"none", "called", "answered", "failed", "received"}]
      /\ runs \in [Run -> [status : {"absent", "running", "ended"}, output : Nat]]
      /\ run \in [Run -> {"none", "running", "ended"}] /\ emitted \in [Run -> Nat]
      /\ events \in Seq(RunEvent) /\ events # <<>> /\ events' = Tail(events)
      /\ UNCHANGED <<call, caller, run, emitted, mount, mounts, listening, groups>>
  BY DEF ViewInv, ViewShapes, RunsView!Deliver, RunsView!backendVars
<1>1. e \in RunEvent /\ e.run \in Run /\ e.type \in {"run:output", "run:status"}
      /\ events' \in Seq(RunEvent)
  <2>1. e \in RunEvent /\ events' \in Seq(RunEvent)
    BY <1>0, HeadTailProperties
  <2> QED BY <2>1 DEF RunEvent
<1>2. \/ listening /\ runs' = [runs EXCEPT ![e.run] = RunsView!Updated(e)] /\ effect' = TRUE
         /\ UNCHANGED missed
      \/ missed' = TRUE /\ UNCHANGED <<runs, effect>>
  BY DEF RunsView!Deliver
<1>3. ASSUME NEW t, NEW x
      PROVE  /\ Coming(t, x)' \in Nat
             /\ Coming(t, x) = Coming(t, x)' + (IF e.run = x /\ e.type = t THEN 1 ELSE 0)
  BY <1>0, ComingIs
<1> HIDE DEF e
<1>4. /\ RunsView!Updated(e) \in [status : {"absent", "running", "ended"}, output : Nat]
      /\ RunsView!Updated(e).output = (IF runs[e.run] = RunsView!Absent THEN 0 ELSE runs[e.run].output)
                                      + (IF e.type = "run:output" THEN 1 ELSE 0)
      /\ RunsView!Updated(e).status # "absent" \/ (runs[e.run].status = "absent" /\ runs[e.run].output # 0)
      /\ e.type = "run:status" => RunsView!Updated(e).status = "ended"
      /\ e.type # "run:status" =>
           (RunsView!Updated(e).status = "ended" <=> runs[e.run].status = "ended")
  <2> DEFINE old == IF runs[e.run] = RunsView!Absent THEN RunsView!Fresh ELSE runs[e.run]
  <2>1. runs[e.run] \in [status : {"absent", "running", "ended"}, output : Nat]
    BY <1>0, <1>1
  <2>2. /\ RunsView!Absent = [status |-> "absent", output |-> 0]
        /\ RunsView!Fresh = [status |-> "running", output |-> 0]
    BY DEF RunsView!Absent, RunsView!Fresh
  <2>3. /\ old \in [status : {"absent", "running", "ended"}, output : Nat]
        /\ old.output = IF runs[e.run] = RunsView!Absent THEN 0 ELSE runs[e.run].output
        /\ old.status = IF runs[e.run] = RunsView!Absent THEN "running" ELSE runs[e.run].status
        /\ runs[e.run].status = "absent" /\ runs[e.run].output = 0 => runs[e.run] = RunsView!Absent
    BY <2>1, <2>2
  <2>4. RunsView!Updated(e) = IF e.type = "run:output" THEN [old EXCEPT !.output = @ + 1]
                              ELSE [old EXCEPT !.status = "ended"]
    BY DEF RunsView!Updated
  <2>5. runs[e.run] = RunsView!Absent => runs[e.run].status = "absent"
    BY <2>2
  <2> HIDE DEF old
  <2>6. CASE e.type = "run:output"
    <3>1. RunsView!Updated(e) = [old EXCEPT !.output = old.output + 1]
      BY <2>4, <2>6
    <3>2. /\ RunsView!Updated(e) \in [status : {"absent", "running", "ended"}, output : Nat]
          /\ RunsView!Updated(e).status = old.status /\ RunsView!Updated(e).output = old.output + 1
      BY <2>3, <3>1
    <3> QED BY <2>1, <2>3, <2>5, <2>6, <3>2
  <2>7. CASE e.type = "run:status"
    <3>1. /\ RunsView!Updated(e) \in [status : {"absent", "running", "ended"}, output : Nat]
          /\ RunsView!Updated(e).status = "ended" /\ RunsView!Updated(e).output = old.output
      BY <2>3, <2>4, <2>7
    <3>2. old.output + 0 = old.output
      BY <2>3
    <3> QED BY <2>3, <2>7, <3>1, <3>2
  <2> QED BY <1>1, <2>6, <2>7
<1>5. ViewShapes' /\ Begun'
  <2>1. runs' \in [Run -> [status : {"absent", "running", "ended"}, output : Nat]]
    BY <1>0, <1>1, <1>2, <1>4
  <2> QED BY <1>0, <1>1, <1>2, <2>1 DEF ViewInv, ViewShapes, Begun
<1>6. ASSUME ~missed'
      PROVE  /\ \A r \in Run : EntryFollows(r)'
             /\ \A b \in Batches : call[b] = "received" => \A r \in b : runs'[r].status # "absent"
             /\ \A g \in RunsView!Group : GroupFollows(g)'
  <2>0. /\ ~missed /\ runs' = [runs EXCEPT ![e.run] = RunsView!Updated(e)] /\ effect' = TRUE
        /\ \A r \in Run : EntryFollows(r)
    BY <1>2, <1>6 DEF ViewInv
  <2>1. /\ runs'[e.run] = RunsView!Updated(e)
        /\ \A r \in Run : r # e.run => runs'[r] = runs[r]
    BY <1>0, <1>1, <2>0
  <2>2. /\ runs'[e.run].output = runs[e.run].output + (IF e.type = "run:output" THEN 1 ELSE 0)
        /\ runs'[e.run].status # "absent" /\ runs[e.run].output \in Nat
        /\ e.type = "run:status" => runs'[e.run].status = "ended"
        /\ e.type # "run:status" => (runs'[e.run].status = "ended" <=> runs[e.run].status = "ended")
    <3>1. runs[e.run] \in [status : {"absent", "running", "ended"}, output : Nat]
      BY <1>0, <1>1
    <3>2. runs[e.run].status = "absent" => runs[e.run].output = 0
      BY <1>1, <2>0 DEF EntryFollows
    <3>3. runs[e.run] = RunsView!Absent => runs[e.run].output = 0
      BY DEF RunsView!Absent
    <3> QED BY <1>4, <2>1, <3>1, <3>2, <3>3
  <2>3. ASSUME NEW r \in Run PROVE EntryFollows(r)' /\ (runs[r].status = "ended" => runs'[r].status = "ended")
    <3>1. /\ Coming("run:output", r)' \in Nat /\ Coming("run:status", r)' \in Nat
          /\ runs[r].output + Coming("run:output", r) = emitted[r]
          /\ Coming("run:status", r) = IF run[r] = "ended" /\ runs[r].status # "ended" THEN 1 ELSE 0
          /\ runs[r].status = "ended" => run[r] = "ended"
          /\ runs[r].status = "absent" => runs[r].output = 0
          /\ runs[r].output \in Nat
      BY <1>0, <1>3, <2>0 DEF EntryFollows
    <3>2. CASE r # e.run
      <4>1. runs'[r] = runs[r] /\ Coming("run:output", r)' = Coming("run:output", r)
            /\ Coming("run:status", r)' = Coming("run:status", r)
        BY <1>3, <2>1, <3>2
      <4> QED BY <1>0, <3>1, <4>1 DEF EntryFollows
    <3>3. CASE r = e.run /\ e.type = "run:output"
      <4>1. /\ Coming("run:output", r) = Coming("run:output", r)' + 1
            /\ Coming("run:status", r)' = Coming("run:status", r)
        BY <1>3, <3>3
      <4>2. runs'[r].output = runs[r].output + 1
        BY <2>2, <3>3
      <4>3. runs'[r].output + Coming("run:output", r)' = emitted[r]
        <5>1. PICK a \in Nat : a = runs[r].output
          BY <3>1
        <5>2. PICK n \in Nat : n = Coming("run:output", r)'
          BY <3>1
        <5>3. a + (n + 1) = emitted[r]
          BY <3>1, <4>1, <5>1, <5>2
        <5> QED BY <4>2, <5>1, <5>2, <5>3
      <4>4. runs'[r].status # "absent" /\ (runs'[r].status = "ended" <=> runs[r].status = "ended")
        BY <2>2, <3>3
      <4> QED BY <1>0, <3>1, <4>1, <4>3, <4>4 DEF EntryFollows
    \* The one status of a run is the end of its entry.
    <3>4. CASE r = e.run /\ e.type = "run:status"
      <4>1. /\ Coming("run:output", r)' = Coming("run:output", r)
            /\ Coming("run:status", r) = Coming("run:status", r)' + 1
        BY <1>3, <3>4
      <4>2. runs'[r].output = runs[r].output /\ runs'[r].status = "ended"
        BY <2>2, <3>4
      <4>3. run[r] = "ended" /\ Coming("run:status", r)' = 0
        BY <3>1, <4>1
      <4> QED BY <1>0, <3>1, <4>1, <4>2, <4>3 DEF EntryFollows
    <3> QED BY <1>1, <3>2, <3>3, <3>4
  <2>4. \A b \in Batches : \A r \in b : r \in Run
    BY DEF BatchesOfRuns
  <2>5. \A b \in Batches : call[b] = "received" => \A r \in b : runs'[r].status # "absent"
    BY <2>0, <2>1, <2>2, <2>4 DEF ViewInv
  <2>6. ASSUME NEW g \in RunsView!Group PROVE GroupFollows(g)'
    <3>1. g \in Batches
      BY DEF RunsView!Group
    <3>2. RunsView!Over(g) => RunsView!Over(g)'
      BY <2>3, <2>4, <3>1 DEF RunsView!Over
    <3> QED BY <1>0, <2>0, <3>2 DEF ViewInv, GroupFollows
  <2> QED BY <2>3, <2>5, <2>6
<1>7. RunsView!Group' = RunsView!Group
  BY DEF RunsView!Group
<1>8. ~missed' => ~missed
  BY <1>2 DEF ViewInv, ViewShapes
<1> QED
  BY <1>0, <1>5, <1>6, <1>7, <1>8 DEF ViewInv

LEMMA ViewNext ==
    ASSUME BatchesOfRuns, ViewInv, [RunsView!Next]_RunsView!vars
    PROVE  ViewInv'
<1>1. CASE UNCHANGED RunsView!vars
  <2>1. UNCHANGED <<call, caller, run, emitted, events, mount, mounts, listening, runs, groups,
                    effect, missed>>
    BY <1>1 DEF RunsView!vars, RunsView!backendVars, RunsView!pageVars
  <2>2. ViewShapes' /\ Begun' /\ RunsView!Group' = RunsView!Group
    BY <2>1 DEF ViewInv, ViewShapes, Begun, RunsView!Group
  <2>3. \A r : EntryFollows(r)' <=> EntryFollows(r)
    BY <2>1 DEF EntryFollows, Coming, OfRun
  <2>4. \A g : GroupFollows(g)' <=> GroupFollows(g)
    BY <2>1 DEF GroupFollows, RunsView!Over
  <2> QED BY <2>1, <2>2, <2>3, <2>4 DEF ViewInv
<1> QED BY <1>1, BackendKeepsView, PageKeepsView, DeliverKeepsView
        DEF RunsView!Next, RunsView!Settled

\* The page at rest shows every run as it is, with all its output, and a group exactly as
\* long as one of its runs is running, in whatever order events and responses came
\* (onRunEvent, startRun, startParallelRuns and the effect of useScripts).
THEOREM RunsAreShown == ASSUME BatchesOfRuns PROVE RunsView!Spec => []RunsView!PageShowsRuns
<1>1. ViewInv => RunsView!PageShowsRuns
  <2> SUFFICES ASSUME ViewInv, RunsView!Quiet, ~missed
               PROVE  /\ \A b \in Batches : call[b] = "received" => \A r \in b :
                           runs[r] = [status |-> run[r], output |-> emitted[r]]
                      /\ groups = {g \in RunsView!Group :
                                     call[g] = "received" /\ \E r \in g : run[r] = "running"}
    BY DEF RunsView!PageShowsRuns
  <2>0. /\ events = <<>> /\ ~effect /\ events \in Seq(RunEvent)
        /\ run \in [Run -> {"none", "running", "ended"}]
        /\ runs \in [Run -> [status : {"absent", "running", "ended"}, output : Nat]]
    BY DEF RunsView!Quiet, ViewInv, ViewShapes
  <2>1. ASSUME NEW b \in Batches, call[b] = "received", NEW r \in b
        PROVE  /\ r \in Run /\ run[r] \in {"running", "ended"}
               /\ runs[r].status = run[r] /\ runs[r].output = emitted[r]
    <3>1. r \in Run /\ run[r] # "none" /\ runs[r].status # "absent" /\ EntryFollows(r)
      BY <2>1 DEF BatchesOfRuns, ViewInv, Begun
    <3>2. Coming("run:output", r) = 0 /\ Coming("run:status", r) = 0
      BY <2>0, ComingIs
    <3>3. runs[r].status \in {"running", "ended"} /\ runs[r].output \in Nat /\ run[r] \in {"running", "ended"}
      BY <2>0, <3>1
    <3> QED BY <3>1, <3>2, <3>3 DEF EntryFollows
  <2>2. ASSUME NEW b \in Batches, call[b] = "received", NEW r \in b
        PROVE  runs[r] = [status |-> run[r], output |-> emitted[r]]
    <3>1. runs[r] \in [status : {"absent", "running", "ended"}, output : Nat]
      BY <2>0, <2>1, <2>2
    <3>2. runs[r].status = run[r] /\ runs[r].output = emitted[r]
      BY <2>1, <2>2
    <3> QED BY <3>1, <3>2
  <2>3. ASSUME NEW g \in RunsView!Group
        PROVE  g \in groups <=> call[g] = "received" /\ \E r \in g : run[r] = "running"
    <3>1. g \in Batches /\ GroupFollows(g)
      BY DEF RunsView!Group, ViewInv
    <3> QED BY <2>0, <2>1, <3>1 DEF GroupFollows, RunsView!Over
  <2>4. groups \subseteq RunsView!Group
    BY DEF ViewInv
  <2> QED BY <2>2, <2>3, <2>4
<1> QED
  BY <1>1, ViewInitially, ViewNext, PTL DEF RunsView!Spec
\* What is shown of a run and what is on its way of it is not more than it has written, also
\* when events were missed, and a tab counts its mounts.
ViewTyped ==
    /\ caller \in [Batches -> 0..MaxMounts] /\ mounts \in 0..MaxMounts /\ mount \in 0..mounts
    /\ listening => mount # 0
    /\ groups \subseteq RunsView!Group
    /\ \A r \in Run : /\ emitted[r] <= MaxOutputs
                      /\ runs[r].output + Coming("run:output", r) <= emitted[r]

LEMMA ViewTypedInitially ==
    ASSUME RunsView!Init, MaxOutputs \in Nat
    PROVE  ViewTyped
<1>1. /\ caller = [b \in Batches |-> 0] /\ emitted = [r \in Run |-> 0] /\ events = <<>>
      /\ mount = 0 /\ mounts = 0 /\ listening = FALSE /\ groups = {}
      /\ \A r \in Run : runs[r].output = 0
  BY DEF RunsView!Init, RunsView!NoRuns, RunsView!Absent
<1>2. events \in Seq(RunEvent) /\ MaxMounts \in Nat
  BY <1>1, EmptySeq, EnvAssumption
<1>3. \A r : Coming("run:output", r) = 0
  BY <1>1, <1>2, ComingIs
<1> QED
  BY <1>1, <1>2, <1>3 DEF ViewTyped

LEMMA ViewTypedNext ==
    ASSUME BatchesOfRuns, MaxOutputs \in Nat, ViewInv, ViewTyped, [RunsView!Next]_RunsView!vars
    PROVE  ViewTyped'
<1>0. /\ caller \in [Batches -> 0..MaxMounts] /\ mounts \in 0..MaxMounts /\ mount \in 0..mounts
      /\ MaxMounts \in Nat /\ emitted \in [Run -> Nat] /\ events \in Seq(RunEvent)
      /\ runs \in [Run -> [status : {"absent", "running", "ended"}, output : Nat]]
      /\ \A r \in Run : Coming("run:output", r) \in Nat
  BY EnvAssumption, ComingIs DEF ViewTyped, ViewInv, ViewShapes
<1>g. RunsView!Group' = RunsView!Group
  BY DEF RunsView!Group
<1>c. events' = events => \A r : Coming("run:output", r)' = Coming("run:output", r)
  BY DEF Coming, OfRun
<1>1. ASSUME NEW b \in Batches, RunsView!Return(b) \/ \E r \in b : RunsView!StartWorker(b, r)
      PROVE  ViewTyped'
  <2>1. UNCHANGED <<caller, emitted, events, mount, mounts, listening, runs, groups>>
    BY <1>1 DEF RunsView!Return, RunsView!StartWorker, RunsView!pageVars
  <2> QED BY <1>g, <1>c, <2>1 DEF ViewTyped
<1>2. ASSUME NEW r \in Run, RunsView!Output(r) PROVE ViewTyped'
  <2> DEFINE e == [run |-> r, type |-> "run:output"]
  <2>1. /\ UNCHANGED <<caller, mount, mounts, listening, runs, groups>>
        /\ emitted' = [emitted EXCEPT ![r] = @ + 1] /\ emitted[r] < MaxOutputs
        /\ events' = Append(events, e) /\ e \in RunEvent /\ e.run = r /\ e.type = "run:output"
    BY <1>2 DEF RunsView!Output, RunsView!pageVars, RunEvent
  <2> HIDE DEF e
  <2>2. ASSUME NEW x \in Run
        PROVE  emitted'[x] <= MaxOutputs /\ runs[x].output + Coming("run:output", x)' <= emitted'[x]
    <3>1. \/ Coming("run:output", x)' = Coming("run:output", x)
          \/ Coming("run:output", x)' = Coming("run:output", x) + 1 /\ r = x
      <4>1. /\ Coming("run:output", x) \in Nat
            /\ Coming("run:output", x)' = Coming("run:output", x)
                 + (IF e.run = x /\ e.type = "run:output" THEN 1 ELSE 0)
        BY <1>0, <2>1, ComingIs
      <4> QED BY <2>1, <4>1
    <3>2. /\ emitted'[x] = emitted[x] + (IF r = x THEN 1 ELSE 0) /\ emitted[x] \in Nat
          /\ runs[x].output \in Nat /\ Coming("run:output", x) \in Nat
          /\ runs[x].output + Coming("run:output", x) <= emitted[x] /\ emitted[x] <= MaxOutputs
      BY <1>0, <2>1 DEF ViewTyped
    <3>3. emitted'[x] <= MaxOutputs
      BY <2>1, <3>2
    <3> QED BY <3>1, <3>2, <3>3
  <2> QED BY <1>g, <2>1, <2>2 DEF ViewTyped
<1>3. ASSUME NEW r \in Run, RunsView!End(r) PROVE ViewTyped'
  <2> DEFINE e == [run |-> r, type |-> "run:status"]
  <2>1. /\ UNCHANGED <<caller, emitted, mount, mounts, listening, runs, groups>>
        /\ events' = Append(events, e) /\ e \in RunEvent /\ e.type = "run:status"
    BY <1>3 DEF RunsView!End, RunsView!pageVars, RunEvent
  <2> HIDE DEF e
  <2>2. ASSUME NEW x \in Run PROVE Coming("run:output", x)' = Coming("run:output", x)
    <3>1. /\ Coming("run:output", x) \in Nat
          /\ Coming("run:output", x)' = Coming("run:output", x)
               + (IF e.run = x /\ e.type = "run:output" THEN 1 ELSE 0)
      BY <1>0, <2>1, ComingIs
    <3> QED BY <2>1, <3>1
  <2> QED BY <1>g, <2>1, <2>2 DEF ViewTyped
<1>4. CASE RunsView!Mount \/ RunsView!Subscribe
  <2>1. /\ UNCHANGED <<caller, emitted, events, runs, groups>>
        /\ mounts' \in 0..MaxMounts /\ mount' \in 0..mounts' /\ (listening' => mount' # 0)
    BY <1>0, <1>4 DEF ViewTyped, RunsView!Mount, RunsView!Subscribe, RunsView!backendVars
  <2> QED BY <1>g, <1>c, <2>1 DEF ViewTyped
<1>5. CASE RunsView!Unmount
  <2>1. /\ UNCHANGED <<caller, emitted, events, mounts>> /\ mount' = 0 /\ listening' = FALSE
        /\ groups' = {} /\ \A r \in Run : runs'[r].output = 0
    BY <1>5 DEF RunsView!Unmount, RunsView!backendVars, RunsView!NoRuns, RunsView!Absent
  <2>2. \A r \in Run : Coming("run:output", r)' <= emitted'[r]
    BY <1>0, <1>c, <2>1 DEF ViewTyped
  <2>3. \A r \in Run : runs'[r].output + Coming("run:output", r)' <= emitted'[r]
    BY <1>0, <1>c, <2>1, <2>2
  <2> QED BY <1>0, <1>g, <2>1, <2>3 DEF ViewTyped
<1>6. ASSUME NEW b \in Batches, RunsView!Call(b) PROVE ViewTyped'
  <2>1. /\ UNCHANGED <<emitted, events, mount, mounts, listening, runs, groups>>
        /\ caller' = [caller EXCEPT ![b] = mount]
    BY <1>6 DEF RunsView!Call, RunsView!pageVars
  <2>2. caller' \in [Batches -> 0..MaxMounts]
    BY <1>0, <2>1
  <2> QED BY <1>g, <1>c, <2>1, <2>2 DEF ViewTyped
<1>7. ASSUME NEW b \in Batches, RunsView!Respond(b) PROVE ViewTyped'
  <2>1. /\ UNCHANGED <<caller, emitted, events, mount, mounts, listening>>
        /\ groups' \subseteq RunsView!Group
    BY <1>7 DEF RunsView!Respond, ViewTyped
  <2>2. \A r \in Run : runs'[r].output = runs[r].output
    <3>1. \A r \in Run : RunsView!Responded(b)[r].output = runs[r].output
      BY DEF RunsView!Responded, RunsView!Absent, RunsView!Fresh
    <3> QED BY <1>7, <3>1 DEF RunsView!Respond
  <2> QED BY <1>g, <1>c, <2>1, <2>2 DEF ViewTyped
<1>8. CASE RunsView!Deliver
  <2> DEFINE e == Head(events)
  <2>0. events # <<>> /\ e \in RunEvent /\ e.run \in Run
    <3>1. events # <<>> /\ e \in RunEvent
      BY <1>0, <1>8, HeadTailProperties DEF RunsView!Deliver
    <3> QED BY <3>1 DEF RunEvent
  <2>1. /\ events # <<>> /\ events' = Tail(events) /\ e \in RunEvent /\ e.run \in Run
        /\ UNCHANGED <<caller, emitted, mount, mounts, listening, groups>>
        /\ (runs' = runs \/ runs' = [runs EXCEPT ![e.run] = RunsView!Updated(e)])
    BY <1>8, <2>0 DEF RunsView!Deliver, RunsView!backendVars
  <2>2. \A r \in Run : /\ Coming("run:output", r)' \in Nat
                       /\ Coming("run:output", r) = Coming("run:output", r)'
                            + (IF e.run = r /\ e.type = "run:output" THEN 1 ELSE 0)
    BY <1>0, <2>1, ComingIs
  <2>3. RunsView!Updated(e).output
          = runs[e.run].output + (IF e.type = "run:output" THEN 1 ELSE 0)
    <3>1. runs[e.run] \in [status : {"absent", "running", "ended"}, output : Nat]
      BY <1>0, <2>1
    <3> HIDE DEF e
    <3> QED BY <3>1 DEF RunsView!Updated, RunsView!Absent, RunsView!Fresh
  <2> HIDE DEF e
  <2>4. ASSUME NEW r \in Run PROVE runs'[r].output + Coming("run:output", r)' <= emitted'[r]
    <3>1. /\ runs[r].output \in Nat /\ emitted'[r] = emitted[r] /\ emitted[r] \in Nat
          /\ runs[r].output + Coming("run:output", r) <= emitted[r]
      BY <1>0, <2>1 DEF ViewTyped
    <3>2. \/ runs'[r].output = runs[r].output
          \/ /\ e.run = r
             /\ runs'[r].output = runs[r].output + (IF e.type = "run:output" THEN 1 ELSE 0)
      BY <1>0, <2>1, <2>3
    <3> QED BY <2>2, <3>1, <3>2
  <2> QED BY <1>g, <2>1, <2>4 DEF ViewTyped
<1>9. CASE RunsView!DropGroups
  <2>1. /\ UNCHANGED <<caller, emitted, events, mount, mounts, listening, runs>>
        /\ groups' \subseteq groups
    BY <1>9 DEF RunsView!DropGroups, RunsView!backendVars
  <2> QED BY <1>g, <1>c, <2>1 DEF ViewTyped
<1>10. CASE UNCHANGED RunsView!vars
  <2>1. UNCHANGED <<caller, emitted, events, mount, mounts, listening, runs, groups>>
    BY <1>10 DEF RunsView!vars, RunsView!backendVars, RunsView!pageVars
  <2> QED BY <1>g, <1>c, <2>1 DEF ViewTyped
<1> QED
  BY <1>1, <1>2, <1>3, <1>4, <1>5, <1>6, <1>7, <1>8, <1>9, <1>10
     DEF RunsView!Next, RunsView!Settled

\* The page never shows more output of a run than it has written, whatever it missed, and
\* listens only while the tab is open (useScripts).
THEOREM ViewTypeCorrect ==
    ASSUME BatchesOfRuns, MaxOutputs \in Nat
    PROVE  RunsView!Spec => []RunsView!TypeOK
<1>1. ViewInv /\ ViewTyped => RunsView!TypeOK
  <2> SUFFICES ASSUME ViewInv, ViewTyped PROVE RunsView!TypeOK
    OBVIOUS
  <2>1. \A r \in Run : /\ emitted[r] \in Nat /\ emitted[r] <= MaxOutputs
                       /\ runs[r].output \in Nat /\ Coming("run:output", r) \in Nat
                       /\ runs[r].output + Coming("run:output", r) <= emitted[r]
    BY ComingIs DEF ViewInv, ViewShapes, ViewTyped
  <2>2. \A r \in Run : runs[r].output <= emitted[r] /\ runs[r].output <= MaxOutputs
    BY <2>1
  <2>3. emitted \in [Run -> 0..MaxOutputs]
    BY <2>1 DEF ViewInv, ViewShapes
  <2>4. runs \in [Run -> [status : {"absent", "running", "ended"}, output : 0..MaxOutputs]]
    BY <2>1, <2>2 DEF ViewInv, ViewShapes
  <2> QED BY <2>2, <2>3, <2>4 DEF ViewInv, ViewShapes, ViewTyped, RunEvent, RunsView!TypeOK
<1>2. ViewTyped /\ ViewInv /\ [RunsView!Next]_RunsView!vars => ViewTyped' /\ ViewInv'
  BY ViewTypedNext, ViewNext
<1> QED
  BY <1>1, <1>2, ViewInitially, ViewTypedInitially, PTL DEF RunsView!Spec
=============================================================================
