----------------------------- MODULE Reservoir ------------------------------
(***************************************************************************)
(* The notification channel: the Reservoir (internal/notify/notify.go), the *)
(* channel hook and the stack of the page (useNotifyChannel.ts,             *)
(* useNotifications.tsx).                                                   *)
(*                                                                         *)
(* Every operation changes the list of banners under bannersMu and emits an *)
(* event after the lock is released, so events can come in another order    *)
(* than the changes.  A banner is its key and the number of the operation   *)
(* that set it, 0 where there is none.                                      *)
(***************************************************************************)
EXTENDS Integers, Sequences

CONSTANTS
    Caller,       \* goroutines; each performs one operation
    Key,          \* keys of ongoing banners
    IssueKey,     \* those with the prefix that is replaced
    None

ASSUME KeyAssumption == IssueKey \subseteq Key /\ None \notin Key

VARIABLES
    pc,           \* ready, changed (its event is still to be emitted) or done
    unsent,       \* the event of each caller
    banners,      \* Reservoir.banners by key
    count,        \* operations so far
    events,       \* events emitted and not yet handled by the page
    listening,    \* useNotifyChannel has subscribed
    pane,         \* the tab with the runs is open and has subscribed to run:error
    shown,        \* the banners on the page, by key
    surfaced,     \* callers whose report the user was shown (history variable)
    crossed,      \* two operations on banners have overlapped (history variable)
    lost,         \* an event came and nobody had subscribed to it (history variable)
    closed        \* keys of banners the user closed (history variable)

vars == <<pc, unsent, banners, count, events, listening, pane, shown, surfaced, crossed, lost, closed>>

\* Severities in their order, and the reports the program makes.
Severity == {"info", "warn", "error", "critical"}
Serious  == {"error", "critical"}
Reports ==
    {[severity |-> s, persistence |-> p, run |-> TRUE] : s \in Severity, p \in {"one-shot", "in-flight"}}
    \cup {[severity |-> s, persistence |-> "one-shot", run |-> FALSE] : s \in Severity}
    \cup {[severity |-> "critical", persistence |-> "catastrophic", run |-> FALSE]}

\* Mutation: a one-shot report is shown from the severity error on.
RouteErrorsOnly(r) ==
    CASE r.severity = "critical" \/ r.persistence = "catastrophic" -> "critical"
      [] r.severity # "critical" /\ r.persistence = "in-flight" ->
             IF r.severity \in Serious /\ r.run THEN "run" ELSE "toast"
      [] r.severity # "critical" /\ r.persistence = "one-shot" ->
             IF r.severity \in Serious THEN "toast" ELSE "log"

\* routeWails for what is not a banner: the surface it chooses.
Route(r) ==
    CASE r.severity = "critical" \/ r.persistence = "catastrophic" -> "critical"
      [] r.severity # "critical" /\ r.persistence = "in-flight" ->
             IF r.severity \in Serious /\ r.run THEN "run" ELSE "toast"
      [] r.severity # "critical" /\ r.persistence = "one-shot" ->
             IF r.severity = "info" THEN "log" ELSE "toast"

Banners == [Key -> Nat]
Empty   == [k \in Key |-> 0]
Ev(to, c, k, list, due) == [to |-> to, from |-> c, key |-> k, list |-> list, due |-> due]
Event == [to : {"log", "toast", "run", "critical", "banner", "dismiss", "list"}, from : Caller,
          key : Key \cup {None}, list : Banners, due : BOOLEAN]

TypeOK ==
    /\ pc \in [Caller -> {"ready", "changed", "done"}]
    /\ \A c \in Caller : pc[c] # "ready" => unsent[c] \in Event
    /\ count \in Nat
    /\ banners \in [Key -> 0..count] /\ shown \in [Key -> 0..count]
    /\ events \in Seq(Event) /\ Len(events) <= count
    /\ listening \in BOOLEAN /\ pane \in BOOLEAN /\ crossed \in BOOLEAN /\ lost \in BOOLEAN
    /\ surfaced \in SUBSET Caller /\ closed \in SUBSET Key
    /\ \A k \in closed : shown[k] = 0

Init ==
    /\ pc = [c \in Caller |-> "ready"]
    /\ unsent = [c \in Caller |-> None]
    /\ banners = Empty /\ count = 0
    /\ events = <<>> /\ listening = FALSE /\ pane = FALSE /\ shown = Empty
    /\ surfaced = {} /\ crossed = FALSE /\ lost = FALSE /\ closed = {}

-----------------------------------------------------------------------------
(* The Reservoir *)

OnBanners(c) == pc[c] = "changed" /\ unsent[c].to \in {"banner", "dismiss", "list"}

\* The first part of an operation, under the lock.
Change(c, e, bs) ==
    /\ pc[c] = "ready" /\ pc' = [pc EXCEPT ![c] = "changed"]
    /\ unsent' = [unsent EXCEPT ![c] = e]
    /\ banners' = bs /\ count' = count + 1
    /\ crossed' = (crossed \/ ((e.key # None \/ e.to = "list") /\ \E d \in Caller : OnBanners(d)))
    /\ UNCHANGED <<events, listening, pane, shown, surfaced, lost, closed>>

\* Report of what is not ongoing.
Report(c) ==
    \E r \in Reports : Change(c, Ev(Route(r), c, None, Empty, r.severity # "info"), banners)

\* Report of an ongoing condition: upsertBanner, and the event.  None is reported as
\* critical, which would go to the critical surface instead.
ReportOngoing(c) ==
    \E k \in Key : LET bs == [banners EXCEPT ![k] = count + 1]
                   IN  Change(c, Ev("banner", c, k, bs, TRUE), bs)

DismissBanner(c) ==
    \E k \in Key : Change(c, Ev("dismiss", c, k, Empty, FALSE), [banners EXCEPT ![k] = 0])

Replaced(new) ==
    [k \in Key |-> IF k \in new THEN count + 1 ELSE IF k \in IssueKey THEN 0 ELSE banners[k]]

\* Mutation: the event carries the replacements only.
ReplaceSendsNew(c) ==
    \E new \in SUBSET IssueKey :
        Change(c, Ev("list", c, None, [k \in Key |-> IF k \in new THEN count + 1 ELSE 0], FALSE),
               Replaced(new))

\* ReplaceBannersByPrefix: the event carries all banners as they are now.
Replace(c) ==
    \E new \in SUBSET IssueKey : Change(c, Ev("list", c, None, Replaced(new), FALSE), Replaced(new))

Emit(c) ==
    /\ pc[c] = "changed" /\ pc' = [pc EXCEPT ![c] = "done"]
    /\ events' = IF unsent[c].to = "log" THEN events ELSE Append(events, unsent[c])
    /\ UNCHANGED <<unsent, banners, count, listening, pane, shown, surfaced, crossed, lost, closed>>

-----------------------------------------------------------------------------
(* The page *)

Subscribe ==
    /\ ~listening /\ listening' = TRUE
    /\ UNCHANGED <<pc, unsent, banners, count, events, pane, shown, surfaced, crossed, lost, closed>>

\* The tab is opened and subscribes, or is left.
SwitchTab ==
    /\ pane' = ~pane
    /\ UNCHANGED <<pc, unsent, banners, count, events, listening, shown, surfaced, crossed, lost, closed>>

\* addNotification, dismissByKey and replaceOngoingBanners.  The page's own banner, of
\* useScripts, has a key of its own and is left out; a list takes it away as well.
Shown(e) ==
    CASE e.to = "banner"  -> [shown EXCEPT ![e.key] = e.list[e.key]]
      [] e.to = "dismiss" -> [shown EXCEPT ![e.key] = 0]
      [] e.to = "list"    -> e.list
      [] e.to \notin {"banner", "dismiss", "list"} -> shown

Settles(e) == CASE e.to = "list" -> Key [] e.to # "list" -> {e.key}

Handle(e) ==
    /\ shown' = Shown(e)
    /\ closed' = closed \ Settles(e)
    /\ surfaced' = IF e.to \in {"dismiss", "list"} THEN surfaced ELSE surfaced \cup {e.from}

\* run:error goes to useScripts, everything else to useNotifyChannel.
Heard(e) == IF e.to = "run" THEN pane ELSE listening

Deliver ==
    /\ events # <<>> /\ events' = Tail(events)
    /\ \/ Heard(Head(events)) /\ Handle(Head(events)) /\ UNCHANGED lost
       \/ ~Heard(Head(events)) /\ lost' = TRUE /\ UNCHANGED <<shown, closed, surfaced>>
    /\ UNCHANGED <<pc, unsent, banners, count, listening, pane, crossed>>

\* dismissNotification: the user closes a banner; the Reservoir is not told.
UserCloses(k) ==
    /\ shown[k] # 0
    /\ shown' = [shown EXCEPT ![k] = 0] /\ closed' = closed \cup {k}
    /\ UNCHANGED <<pc, unsent, banners, count, events, listening, pane, surfaced, crossed, lost>>

-----------------------------------------------------------------------------
Quiet == (\A c \in Caller : pc[c] # "changed") /\ events = <<>>

Next ==
    \/ \E c \in Caller : Report(c) \/ ReportOngoing(c) \/ DismissBanner(c) \/ Replace(c) \/ Emit(c)
    \/ Subscribe \/ SwitchTab \/ Deliver
    \/ \E k \in Key : UserCloses(k)

Spec == Init /\ [][Next]_vars

-----------------------------------------------------------------------------
(* Properties *)

\* Every report from the severity warn on is shown on some surface of the page, unless
\* it came before the subscription, or was an error of a run while the tab with the
\* runs was closed (Report, routeWails, useNotifyChannel, onError of useScripts).
ReportsAreSeen ==
    (Quiet /\ ~lost) =>
        \A c \in Caller : (pc[c] = "done" /\ unsent[c].due) => c \in surfaced

\* The page at rest shows the banners of the Reservoir but those the user closed,
\* if no two operations overlapped and no event was lost: an event carries as much of
\* the list as the page replaces.
PageFollows ==
    (Quiet /\ ~lost /\ ~crossed) => \A k \in Key \ closed : shown[k] = banners[k]
=============================================================================
