--------------------------- MODULE ScriptCatalog ---------------------------
(***************************************************************************)
(* The catalog of scripts: Registry and Watcher (internal/registry), and    *)
(* the load-issue banners they publish through the Reservoir                *)
(* (internal/notify/notify.go) to the frontend, and the page's own copy of  *)
(* the catalog: NotifyChanged and ListScripts (services/script_service.go)  *)
(* and loadCatalog (frontend/src/hooks/useScripts.ts).                      *)
(*                                                                         *)
(* Script directories are numbered in the order in which they are scanned:  *)
(* the builtin ones, then the plugin directories, each by name.  What is in *)
(* one is the id of a script that loads, or Bad.  A missing plugin folder   *)
(* is one without directories.  Each expiry of the debounce timer runs      *)
(* Reload on a goroutine of its own; nothing keeps two apart.               *)
(***************************************************************************)
EXTENDS Integers, Sequences, SequencesExt

CONSTANTS
    Id,           \* script ids
    Builtins,     \* number of builtin script directories
    Plugins,      \* number of plugin directories
    MaxIssues,    \* maxLoadIssues
    Reloader,     \* bound: goroutines in Reload at a time
    MaxChanges,   \* bound: changes on disk
    Fetch,        \* bound: fetches of the page at a time
    Bad, Absent, None, Failed

ASSUME SizeAssumption ==
    /\ Builtins \in Nat /\ Plugins \in Nat /\ MaxChanges \in Nat
    /\ MaxIssues \in Nat \ {0}
    /\ Bad \notin Id /\ Absent \notin Id /\ Bad # Absent /\ None \notin Reloader
    /\ Fetch # {}

VARIABLES
    disk,         \* what each directory holds
    changes,      \* changes so far (bounded by MaxChanges)
    boot,         \* how far main has come
    registry,     \* Registry.scripts and Registry.issues
    fingerprint,  \* Registry.fingerprint
    watched,      \* directories with a watch of their own; the two roots have one
    created,      \* Create events nobody has read
    touched,      \* some other event nobody has read
    watcher,      \* pc of Watcher.Run
    timer,        \* the debounce timer is armed
    reload,       \* pc of each Reload
    todo,         \* directories listed and not yet read by it
    found,        \* the scripts and issues it has found
    banners,      \* the loadIssue: banners of the Reservoir
    page,         \* the frontend listens
    uiBanners,    \* the banners on the page
    listening,    \* the page has subscribed to scripts:changed
    changed,      \* scripts:changed events the window has not handled
    fetch,        \* each fetch: Free, Asked, or Answered with the scripts
    scripts,      \* the scripts on the page; Failed for the error pane
    newest,       \* the Reload started last (history variable)
    newestLast,   \* it was the last to compare fingerprints (history variable)
    overlapped,   \* two Reloads have run at a time (history variable)
    raced         \* a fetch began while another was on its way, or an event came before
                  \* the subscription (history variable)

diskVars     == <<disk, changes>>
registryVars == <<registry, fingerprint>>
watchVars    == <<watched, created, touched, watcher, timer>>
reloadVars   == <<reload, todo, found>>
bannerVars   == <<banners, page, uiBanners>>
pageVars     == <<listening, changed, fetch, scripts, raced>>
historyVars  == <<newest, newestLast, overlapped>>

vars == <<diskVars, boot, registryVars, watchVars, reloadVars, bannerVars, pageVars, historyVars>>

BuiltinDir == 1..Builtins
PluginDir  == (Builtins + 1)..(Builtins + Plugins)
Dir        == BuiltinDir \cup PluginDir
Content    == Id \cup {Bad, Absent}

\* A LoadIssue: a directory that does not load, or whose id the directory first,
\* of the same source, has already taken.
Issue == [dir : Dir, first : Dir \cup {0}]

\* The directory each script was loaded from (0: no such script), and the issues.
State   == [scripts : [Id -> Dir \cup {0}], issues : Seq(Issue)]
Nothing == [scripts |-> [i \in Id |-> 0], issues |-> <<>>]

\* A fetch that is not there, one that has read nothing yet, and one that has.
Free        == [at |-> "free", scripts |-> Nothing.scripts]
Asked       == [at |-> "asked", scripts |-> Nothing.scripts]
Answered(s) == [at |-> "answered", scripts |-> s]

SourceOf(d) == IF d = 0 THEN "none" ELSE IF d \in BuiltinDir THEN "builtin" ELSE "plugin"

\* computeFingerprint: a script counts with its metadata and its source; Dir is
\* not encoded.
Fingerprint(s) == <<[i \in Id |-> SourceOf(s.scripts[i])], Range(s.issues)>>

\* The issues of a state one by one; banners are keyed by directory.
Banners(s) == Range(s.issues)

TypeOK ==
    /\ disk \in [Dir -> Content]
    /\ changes \in 0..MaxChanges
    /\ boot \in {"builtin", "plugins", "app", "running"}
    /\ registry \in State /\ Len(registry.issues) <= MaxIssues
    /\ fingerprint = Fingerprint(registry)
    /\ watched \subseteq Dir /\ created \subseteq Dir
    /\ touched \in BOOLEAN /\ timer \in BOOLEAN
    /\ watcher \in {"off", "select", "schedule"}
    /\ reload \in [Reloader -> {"idle", "builtin", "read builtin", "plugins", "read plugins",
                                "compare", "publish", "emit", "notify"}]
    /\ todo \in [Reloader -> SUBSET Dir]
    /\ found \in [Reloader -> State]
    /\ banners \subseteq Issue /\ uiBanners \subseteq Issue
    /\ page \in BOOLEAN
    /\ newest \in Reloader \cup {None}
    /\ newestLast \in BOOLEAN /\ overlapped \in BOOLEAN
    /\ listening \in BOOLEAN /\ raced \in BOOLEAN /\ ((listening \/ changed > 0) => page)
    /\ changed \in 0..changes
    /\ fetch \in [Fetch -> [at : {"free", "asked", "answered"}, scripts : [Id -> Dir \cup {0}]]]
    /\ scripts \in {Failed} \cup [Id -> Dir \cup {0}]

Init ==
    /\ disk \in [Dir -> Content]
    /\ changes = 0
    /\ boot = "builtin"
    /\ registry = Nothing
    /\ fingerprint = Fingerprint(Nothing)
    /\ watched = {} /\ created = {} /\ touched = FALSE
    /\ watcher = "off"
    /\ timer = FALSE
    /\ reload = [p \in Reloader |-> "idle"]
    /\ todo = [p \in Reloader |-> {}]
    /\ found = [p \in Reloader |-> Nothing]
    /\ banners = {} /\ page = FALSE /\ uiBanners = {}
    /\ newest = None /\ newestLast = FALSE /\ overlapped = FALSE
    /\ listening = FALSE /\ changed = 0 /\ raced = FALSE
    /\ fetch = [f \in Fetch |-> Free] /\ scripts = Nothing.scripts

-----------------------------------------------------------------------------
(* The disk *)

\* A directory appears, is changed or goes away.  The roots are watched, so its
\* appearance and its end are seen; what changes inside it only if it is watched
\* itself.  The watch of a directory goes with it.
Change(d, c) ==
    /\ changes < MaxChanges /\ c # disk[d]
    /\ changes' = changes + 1
    /\ disk' = [disk EXCEPT ![d] = c]
    /\ IF watcher = "off" THEN UNCHANGED <<watched, created, touched>>
       ELSE /\ created' = IF disk[d] = Absent THEN created \cup {d} ELSE created
            /\ touched' = (touched \/ (disk[d] # Absent /\ (c = Absent \/ d \in watched)))
            /\ watched' = IF c = Absent THEN watched \ {d} ELSE watched
    /\ UNCHANGED <<boot, registryVars, watcher, timer, reloadVars, bannerVars, historyVars, pageVars>>

-----------------------------------------------------------------------------
(* Scanning a directory *)

\* Only the last maxLoadIssues are kept.
Capped(issues) ==
    IF Len(issues) <= MaxIssues THEN issues
    ELSE SubSeq(issues, Len(issues) - MaxIssues + 1, Len(issues))

\* Another directory of the same source has the id.
Duplicate(s, d, id) == s.scripts[id] # 0 /\ SourceOf(s.scripts[id]) = SourceOf(d)

\* loadScript on d, and what buildFromDir and its caller make of the result; a
\* plugin replaces a builtin script.
Load(s, d, content) ==
    IF content \in {Bad, Absent}
      THEN [s EXCEPT !.issues = Append(@, [dir |-> d, first |-> 0])]
    ELSE IF Duplicate(s, d, content)
      THEN [s EXCEPT !.issues = Append(@, [dir |-> d, first |-> s.scripts[content]])]
    ELSE [s EXCEPT !.scripts[content] = d]

\* os.ReadDir
Listed(dirs) == {d \in dirs : disk[d] # Absent}

-----------------------------------------------------------------------------
(* main: nothing else runs yet *)

\* buildFromDir reads one directory after the other.
LoadAll(dirs) ==
    LET upTo[d \in 0..(Builtins + Plugins)] ==
          IF d = 0 THEN registry
          ELSE IF d \in Listed(dirs) THEN Load(upTo[d - 1], d, disk[d])
          ELSE upTo[d - 1]
    IN  [upTo[Builtins + Plugins] EXCEPT !.issues = Capped(@)]

\* LoadBuiltin or LoadPlugins.  The Reservoir has no app yet: nothing is emitted.
Boot(now, next, dirs) ==
    /\ boot = now /\ boot' = next
    /\ registry' = LoadAll(dirs)
    /\ fingerprint' = Fingerprint(registry')
    /\ banners' = Banners(registry')
    /\ UNCHANGED <<diskVars, watchVars, reloadVars, page, uiBanners, historyVars, pageVars>>

LoadBuiltin == Boot("builtin", "plugins", BuiltinDir)
LoadPlugins == Boot("plugins", "app", PluginDir)

\* The directory cannot be read: a warning, and main goes on.
LoadFails ==
    /\ \/ boot = "builtin" /\ boot' = "plugins"
       \/ boot = "plugins" /\ boot' = "app"
    /\ UNCHANGED <<diskVars, registryVars, watchVars, reloadVars, bannerVars, historyVars, pageVars>>

\* SetApp, and addRecursive on both roots.
StartWatcher ==
    /\ boot = "app" /\ boot' = "running"
    /\ watcher' = "select"
    /\ watched' = Listed(Dir)
    /\ UNCHANGED <<diskVars, registryVars, created, touched, timer, reloadVars, bannerVars, historyVars, pageVars>>

OnTheWay == {f \in Fetch : fetch[f] # Free}

\* loadCatalog begins.
Ask ==
    /\ \E f \in Fetch : fetch[f] = Free /\ fetch' = [fetch EXCEPT ![f] = Asked]
    /\ raced' = (raced \/ OnTheWay # {})

\* The page subscribes to the notify: events; it does not ask for the banners.  It asks
\* for the catalog.
MountPage ==
    /\ boot \in {"app", "running"} /\ ~page
    /\ page' = TRUE /\ Ask
    /\ UNCHANGED <<diskVars, boot, registryVars, watchVars, reloadVars, banners, uiBanners,
                   historyVars, listening, changed, scripts>>

-----------------------------------------------------------------------------
(* Watcher.Run *)

\* Mutation: a directory that appears is not watched itself.
WatchNothing(d) == watched' = watched

\* fsw.Add for a new directory, if it is still there.
WatchNew(d) == watched' = IF disk[d] = Absent THEN watched ELSE watched \cup {d}

\* A Create event; schedule() comes after the new watch.
SeeCreated(d) ==
    /\ watcher = "select" /\ d \in created
    /\ created' = created \ {d}
    /\ WatchNew(d)
    /\ watcher' = "schedule"
    /\ UNCHANGED <<diskVars, boot, registryVars, touched, timer, reloadVars, bannerVars, historyVars, pageVars>>

\* Any other event.
SeeTouched ==
    /\ watcher = "select" /\ touched
    /\ touched' = FALSE
    /\ watcher' = "schedule"
    /\ UNCHANGED <<diskVars, boot, registryVars, watched, created, timer, reloadVars, bannerVars, historyVars, pageVars>>

\* The pending timer is stopped and a new one started.  One that has fired has
\* its goroutine already.
Schedule ==
    /\ watcher = "schedule"
    /\ timer' = TRUE
    /\ watcher' = "select"
    /\ UNCHANGED <<diskVars, boot, registryVars, watched, created, touched, reloadVars, bannerVars, historyVars, pageVars>>

-----------------------------------------------------------------------------
(* Registry.Reload, and what fire does around it *)

Running(p) == reload[p] # "idle"

\* The timer expires and its goroutine enters Reload.
Fire(p) ==
    /\ timer /\ ~Running(p)
    /\ timer' = FALSE
    /\ reload' = [reload EXCEPT ![p] = "builtin"]
    /\ found' = [found EXCEPT ![p] = Nothing]
    /\ newest' = p /\ newestLast' = FALSE
    /\ overlapped' = (overlapped \/ \E q \in Reloader : Running(q))
    /\ UNCHANGED <<diskVars, boot, registryVars, watched, created, touched, watcher, todo, bannerVars, pageVars>>

\* buildFromDir lists a root.
List(p, now, next, dirs) ==
    /\ reload[p] = now
    /\ reload' = [reload EXCEPT ![p] = next]
    /\ todo' = [todo EXCEPT ![p] = Listed(dirs)]
    /\ UNCHANGED <<diskVars, boot, registryVars, watchVars, found, bannerVars, historyVars, pageVars>>

ListBuiltins(p) == List(p, "builtin", "read builtin", BuiltinDir)
ListPlugins(p)  == List(p, "plugins", "read plugins", PluginDir)

\* The next directory is read.  One that has gone since it was listed is an issue.
ReadScript(p) ==
    /\ reload[p] \in {"read builtin", "read plugins"} /\ todo[p] # {}
    /\ LET d == CHOOSE d \in todo[p] : \A e \in todo[p] : d <= e
       IN  /\ found' = [found EXCEPT ![p] = Load(@, d, disk[d])]
           /\ todo' = [todo EXCEPT ![p] = @ \ {d}]
    /\ UNCHANGED <<diskVars, boot, registryVars, watchVars, reload, bannerVars, historyVars, pageVars>>

ReadDone(p) ==
    /\ todo[p] = {}
    /\ \/ reload[p] = "read builtin" /\ reload' = [reload EXCEPT ![p] = "plugins"]
       \/ reload[p] = "read plugins" /\ reload' = [reload EXCEPT ![p] = "compare"]
    /\ UNCHANGED <<diskVars, boot, registryVars, watchVars, todo, found, bannerVars, historyVars, pageVars>>

\* A root cannot be read: the registry stays as it is, and nothing tries again.
ReloadFails(p) ==
    /\ reload[p] \in {"builtin", "plugins"}
    /\ reload' = [reload EXCEPT ![p] = "idle"]
    /\ UNCHANGED <<diskVars, boot, registryVars, watchVars, todo, found, bannerVars, historyVars, pageVars>>

\* Under Registry.mu: a new fingerprint is installed with what it stands for.
Compare(p) ==
    /\ reload[p] = "compare"
    /\ LET new == [found[p] EXCEPT !.issues = Capped(@)]
       IN  /\ found' = [found EXCEPT ![p] = new]
           /\ IF Fingerprint(new) = fingerprint
                THEN /\ reload' = [reload EXCEPT ![p] = "idle"]
                     /\ UNCHANGED registryVars
                ELSE /\ reload' = [reload EXCEPT ![p] = "publish"]
                     /\ registry' = new
                     /\ fingerprint' = Fingerprint(new)
    /\ newestLast' = (newest = p)
    /\ UNCHANGED <<diskVars, boot, watchVars, todo, bannerVars, pageVars, newest, overlapped>>

\* Mutation: nothing is published when no issue is left.
ReplacedUnlessEmpty(issues) == IF issues = {} THEN banners ELSE issues

\* ReplaceBannersByPrefix: the old loadIssue: banners go.
Replaced(issues) == issues

\* Under bannersMu, after Registry.mu was released.
Publish(p) ==
    /\ reload[p] = "publish"
    /\ banners' = Replaced(Banners(found[p]))
    /\ reload' = [reload EXCEPT ![p] = "emit"]
    /\ UNCHANGED <<diskVars, boot, registryVars, watchVars, todo, found, page, uiBanners, historyVars, pageVars>>

\* The snapshot is emitted, after bannersMu was released; the page puts it in the
\* place of what it shows.  A page that is not there yet misses it.
Emit(p) ==
    /\ reload[p] = "emit"
    /\ uiBanners' = IF page THEN Banners(found[p]) ELSE uiBanners
    /\ reload' = [reload EXCEPT ![p] = "notify"]
    /\ UNCHANGED <<diskVars, boot, registryVars, watchVars, todo, found, banners, page, historyVars, pageVars>>

\* fire calls onChange, which is NotifyChanged.
NotifyChanged(p) ==
    /\ reload[p] = "notify"
    /\ changed' = IF page THEN changed + 1 ELSE changed
    /\ reload' = [reload EXCEPT ![p] = "idle"]
    /\ UNCHANGED <<diskVars, boot, registryVars, watchVars, todo, found, bannerVars, historyVars,
                   listening, fetch, scripts, raced>>

-----------------------------------------------------------------------------
(* useScripts: the page's copy of the catalog *)

otherVars == <<diskVars, boot, registryVars, watchVars, reloadVars, bannerVars, historyVars>>

\* The subscription of useScripts comes after an await.
Listen ==
    /\ page /\ ~listening /\ listening' = TRUE
    /\ UNCHANGED <<otherVars, changed, fetch, scripts, raced>>

\* Mutation: a fetch that is on its way will do.
FetchUnlessLoading == IF OnTheWay = {} THEN Ask ELSE UNCHANGED <<fetch, raced>>

\* What the handler of scripts:changed does.
Refetch == Ask

\* The window handles one scripts:changed.
OnChanged ==
    /\ changed > 0 /\ changed' = changed - 1
    /\ \/ listening /\ Refetch
       \/ ~listening /\ raced' = TRUE /\ UNCHANGED fetch
    /\ UNCHANGED <<otherVars, listening, scripts>>

ListScripts(f) ==
    /\ fetch[f] = Asked /\ fetch' = [fetch EXCEPT ![f] = Answered(registry.scripts)]
    /\ UNCHANGED <<otherVars, listening, changed, scripts, raced>>

SetScripts(f) ==
    /\ fetch[f].at = "answered"
    /\ scripts' = fetch[f].scripts /\ fetch' = [fetch EXCEPT ![f] = Free]
    /\ UNCHANGED <<otherVars, listening, changed, raced>>

\* The error pane takes the place of the catalog.
ListFails(f) ==
    /\ fetch[f] = Asked
    /\ scripts' = Failed /\ fetch' = [fetch EXCEPT ![f] = Free]
    /\ UNCHANGED <<otherVars, listening, changed, raced>>

-----------------------------------------------------------------------------
\* No event, timer or Reload is under way.
Quiet ==
    /\ boot = "running" /\ watcher = "select"
    /\ created = {} /\ ~touched /\ ~timer
    /\ \A p \in Reloader : ~Running(p)

Settled == Quiet /\ page /\ listening /\ changed = 0 /\ OnTheWay = {} /\ UNCHANGED vars

Reload(p) ==
    \/ ListBuiltins(p) \/ ListPlugins(p) \/ ReadScript(p) \/ ReadDone(p)
    \/ ReloadFails(p) \/ Compare(p) \/ Publish(p) \/ Emit(p)
    \/ NotifyChanged(p)

Next ==
    \/ \E d \in Dir : SeeCreated(d) \/ \E c \in Content : Change(d, c)
    \/ LoadBuiltin \/ LoadPlugins \/ LoadFails \/ StartWatcher \/ MountPage
    \/ SeeTouched \/ Schedule
    \/ Listen \/ OnChanged \/ \E f \in Fetch : ListScripts(f) \/ SetScripts(f) \/ ListFails(f)
    \/ \E p \in Reloader : Fire(p) \/ Reload(p)
    \/ Settled

Spec == Init /\ [][Next]_vars

-----------------------------------------------------------------------------
(* Properties *)

\* The directory a script should come from: the first plugin directory that has
\* it, else the first builtin one.
Winner(id) ==
    LET Has(dirs) == {d \in dirs : disk[d] = id}
        First(dirs) == CHOOSE d \in dirs : \A e \in dirs : d <= e
    IN  IF Has(PluginDir) # {} THEN First(Has(PluginDir))
        ELSE IF Has(BuiltinDir) # {} THEN First(Has(BuiltinDir)) ELSE 0

\* The directories the user should be told of: broken ones and losers of an id.
Faulty ==
    {d \in Dir : \/ disk[d] = Bad
                 \/ \E e \in Dir : e < d /\ SourceOf(e) = SourceOf(d)
                                   /\ disk[e] = disk[d] /\ disk[d] \in Id}

\* No change is lost between the disk, the watches, the debounce and a scan that
\* reads one directory after the other: when all is quiet and the Reload started
\* last was also the last to install what it found, the registry has the scripts
\* of the disk, each from the right source, and the last maxLoadIssues issues.
CatalogIsCurrent ==
    Quiet /\ newestLast =>
        /\ \A id \in Id : SourceOf(registry.scripts[id]) = SourceOf(Winner(id))
        /\ {i.dir : i \in Range(registry.issues)} =
             {d \in Faulty : Cardinality({e \in Faulty : e > d}) < MaxIssues}

\* The banners follow the issues although they are published after the registry's
\* lock is released, and the page follows the banners once one list has reached
\* it, as long as no two Reloads overlapped.
BannersFollowIssues ==
    Quiet /\ ~overlapped =>
        /\ banners = Banners(registry)
        /\ uiBanners # {} => uiBanners = banners

\* The page comes to rest with the catalog of the Registry, or with its error: Reload
\* installs the catalog before NotifyChanged is called, and every scripts:changed makes
\* a fetch of its own (loadCatalog).  Where two fetches cross the older may be answered
\* last, and before the subscription an event is lost: raced.
PageShowsCatalog ==
    (Quiet /\ listening /\ changed = 0 /\ OnTheWay = {} /\ ~raced) =>
        scripts \in {registry.scripts, Failed}
=============================================================================
