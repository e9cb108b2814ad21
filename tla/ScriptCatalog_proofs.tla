------------------------- MODULE ScriptCatalog_proofs -------------------------
(***************************************************************************)
(* Theorems about ScriptCatalog, for any numbers of directories, ids,       *)
(* Reloads at a time and fetches, and any number of changes on disk: the    *)
(* Registry comes to rest with what is on disk, the banners with the issues *)
(* of the Registry, and the page with its catalog.                          *)
(***************************************************************************)
EXTENDS ScriptCatalog, SequenceTheorems, FiniteSetTheorems, WellFoundedInduction, TLAPS

-----------------------------------------------------------------------------
(* The banners and the page *)

\* The types that the arguments need.
CatalogShapes ==
    /\ boot \in {"builtin", "plugins", "app", "running"}
    /\ reload \in [Reloader -> {"idle", "builtin", "read builtin", "plugins", "read plugins",
                                "compare", "publish", "emit", "notify"}]
    /\ DOMAIN found = Reloader /\ DOMAIN fetch = Fetch
    /\ \A f \in Fetch : fetch[f] \in {Free, Asked} \/ fetch[f].at = "answered"
    /\ changed \in Nat /\ page \in BOOLEAN /\ listening \in BOOLEAN
    /\ overlapped \in BOOLEAN /\ raced \in BOOLEAN

\* What runs before main is done, and before the page is there.
Early ==
    /\ boot # "running" => watcher = "off" /\ \A p \in Reloader : reload[p] = "idle"
    /\ watcher = "off" => ~timer
    /\ boot \in {"builtin", "plugins"} => ~page
    /\ ~page => uiBanners = {} /\ \A f \in Fetch : fetch[f] = Free
    /\ listening \/ changed > 0 => page

\* A Reload that installed its catalog.
Installed(p) == reload[p] \in {"publish", "emit", "notify"}

\* As long as Reloads do not overlap, the one that has installed a catalog holds what the
\* registry holds, and only it keeps the banners from following.
BannersBehind ==
    /\ \A p, q \in Reloader : reload[p] # "idle" /\ reload[q] # "idle" => p = q
    /\ \A p \in Reloader : Installed(p) => found[p] = registry
    /\ (\A p \in Reloader : reload[p] # "publish") => banners = Banners(registry)
    /\ (\A p \in Reloader : reload[p] \notin {"publish", "emit"}) => uiBanners = {} \/ uiBanners = banners

\* The page has the catalog, fetches it, or will be told.
Told == changed > 0 \/ \E p \in Reloader : Installed(p)

PageBehind ==
    /\ \A f, g \in OnTheWay : f = g
    /\ page =>
         \/ Told
         \/ OnTheWay = {} /\ scripts \in {registry.scripts, Failed}
         \/ \E f \in Fetch :
               /\ fetch[f] \in {Asked, Answered(registry.scripts)}
               /\ OnTheWay = {f}

CatalogInv ==
    /\ CatalogShapes /\ Early
    /\ ~overlapped => BannersBehind
    /\ ~raced => PageBehind

catalogShown == <<boot, registry, reload, found, banners, page, uiBanners, listening, changed, fetch,
                  scripts, overlapped, raced>>

LEMMA FetchKinds ==
    /\ Free.at = "free" /\ Asked.at = "asked"
    /\ Free # Asked
    /\ \A s : /\ Answered(s).at = "answered" /\ Answered(s).scripts = s
              /\ Answered(s) # Free
BY DEF Free, Asked, Answered

LEMMA CatalogInitially == Init => CatalogInv
<1> SUFFICES ASSUME Init PROVE CatalogInv
  OBVIOUS
<1>1. /\ boot = "builtin" /\ registry = Nothing /\ watcher = "off" /\ timer = FALSE
      /\ reload = [p \in Reloader |-> "idle"] /\ found = [p \in Reloader |-> Nothing]
      /\ banners = {} /\ page = FALSE /\ uiBanners = {} /\ overlapped = FALSE
      /\ listening = FALSE /\ changed = 0 /\ raced = FALSE
      /\ fetch = [f \in Fetch |-> Free]
  BY DEF Init
<1>2. CatalogShapes /\ Early
  <2>1. \A p \in Reloader : reload[p] = "idle"
    BY <1>1
  <2>2. \A f \in Fetch : fetch[f] = Free
    BY <1>1
  <2>3. DOMAIN found = Reloader /\ DOMAIN fetch = Fetch /\ DOMAIN reload = Reloader
    BY <1>1
  <2>4. ~(changed > 0)
    BY <1>1
  <2>5. Early
    BY <1>1, <2>1, <2>2, <2>4 DEF Early
  <2>6. CatalogShapes
    BY <1>1, <2>2, <2>3 DEF CatalogShapes
  <2> QED BY <2>5, <2>6
<1>3. Banners(registry) = {}
  BY <1>1 DEF Banners, Nothing, Range
<1>4. OnTheWay = {}
  BY <1>1 DEF OnTheWay
<1> QED
  BY <1>1, <1>2, <1>3, <1>4 DEF CatalogInv, BannersBehind, PageBehind, Installed

\* A step that changes nothing of this but what the watcher is doing.
LEMMA CatalogFrame ==
    ASSUME CatalogInv, UNCHANGED catalogShown, Early'
    PROVE  CatalogInv'
<1>1. UNCHANGED <<boot, registry, reload, found, banners, page, uiBanners, listening, changed, fetch,
                  scripts, overlapped, raced>>
  BY DEF catalogShown
<1>2. CatalogShapes'
  BY <1>1 DEF CatalogInv, CatalogShapes
<1>3. BannersBehind => BannersBehind'
  BY <1>1 DEF BannersBehind, Installed, Banners
<1>4. PageBehind => PageBehind'
  BY <1>1 DEF PageBehind, Told, Installed, OnTheWay
<1> QED
  BY <1>1, <1>2, <1>3, <1>4 DEF CatalogInv

\* Start-up and the watcher.
LEMMA WatcherKeepsCatalog ==
    ASSUME CatalogInv,
           \/ \E d \in Dir :
                 \/ SeeCreated(d)
                 \/ \E c \in Content : Change(d, c)
           \/ LoadBuiltin \/ LoadPlugins \/ LoadFails
           \/ StartWatcher \/ SeeTouched \/ Schedule
    PROVE  CatalogInv'
<1> USE DEF diskVars, registryVars, watchVars,
            reloadVars, bannerVars, pageVars,
            historyVars
<1>0. CatalogShapes /\ Early
  BY DEF CatalogInv
<1>1. ASSUME NEW d, SeeCreated(d) PROVE CatalogInv'
  <2>1. UNCHANGED catalogShown /\ UNCHANGED timer /\ watcher = "select"
    BY <1>1 DEF SeeCreated, catalogShown
  <2>2. Early'
    BY <1>0, <2>1, <1>1 DEF Early, catalogShown, SeeCreated
  <2> QED BY <2>1, <2>2, CatalogFrame
<1>2. ASSUME NEW d, NEW c, Change(d, c) PROVE CatalogInv'
  <2>1. UNCHANGED catalogShown /\ UNCHANGED <<timer, watcher>>
    BY <1>2 DEF Change, catalogShown
  <2>2. Early'
    BY <1>0, <2>1 DEF Early, catalogShown
  <2> QED BY <2>1, <2>2, CatalogFrame
<1>3. ASSUME SeeTouched \/ Schedule PROVE CatalogInv'
  <2>1. UNCHANGED catalogShown /\ watcher # "off" /\ watcher' # "off"
    BY <1>3 DEF SeeTouched, Schedule, catalogShown
  <2>2. Early'
    BY <1>0, <2>1 DEF Early, catalogShown
  <2> QED BY <2>1, <2>2, CatalogFrame
\* No Reload runs and the page is not there yet: the banners are published with the catalog.
<1>4. ASSUME LoadBuiltin \/ LoadPlugins PROVE CatalogInv'
  <2>1. /\ boot \in {"builtin", "plugins"} /\ boot' \in {"plugins", "app"}
        /\ banners' = Banners(registry')
        /\ UNCHANGED <<watcher, timer, reload, found, page, uiBanners, listening, changed, fetch,
                       scripts, overlapped, raced>>
    BY <1>4 DEF LoadBuiltin, LoadPlugins, Boot
  <2>2. ~page /\ uiBanners = {} /\ \A p \in Reloader : reload[p] = "idle"
    BY <1>0, <2>1 DEF Early
  <2>3. CatalogShapes' /\ Early'
    BY <1>0, <2>1, <2>2 DEF CatalogShapes, Early
  <2>4. BannersBehind => BannersBehind'
    BY <2>1, <2>2 DEF BannersBehind, Installed, Banners
  <2>5. PageBehind => PageBehind'
    BY <2>1, <2>2 DEF PageBehind, OnTheWay
  <2> QED BY <2>1, <2>3, <2>4, <2>5 DEF CatalogInv
<1>5. ASSUME LoadFails \/ StartWatcher PROVE CatalogInv'
  <2>1. /\ boot \in {"builtin", "plugins", "app"}
        /\ boot' \in {"plugins", "app", "running"}
        /\ boot' \in {"builtin", "plugins"} => boot \in {"builtin", "plugins"}
        /\ boot' # "running" => watcher' = watcher
        /\ UNCHANGED <<registry, timer, reload, found, banners, page, uiBanners, listening, changed,
                       fetch, scripts, overlapped, raced>>
        /\ watcher' = "off" => watcher = "off"
    BY <1>5 DEF LoadFails, StartWatcher
  <2>2. CatalogShapes' /\ Early'
    BY <1>0, <2>1 DEF CatalogShapes, Early
  <2>3. BannersBehind => BannersBehind'
    BY <2>1 DEF BannersBehind, Installed, Banners
  <2>4. PageBehind => PageBehind'
    BY <2>1 DEF PageBehind, Told, Installed, OnTheWay
  <2> QED BY <2>1, <2>2, <2>3, <2>4 DEF CatalogInv
<1> QED
  BY <1>1, <1>2, <1>3, <1>4, <1>5

\* A Reload, and the timer that starts it.
LEMMA ReloadKeepsCatalog ==
    ASSUME CatalogInv, NEW p \in Reloader, Fire(p) \/ Reload(p)
    PROVE  CatalogInv'
<1> USE DEF diskVars, registryVars, watchVars,
            reloadVars, bannerVars, pageVars,
            historyVars
<1>0. CatalogShapes /\ Early
  BY DEF CatalogInv
\* None begins while another runs, or they have overlapped.
<1>1. ASSUME Fire(p) PROVE CatalogInv'
  <2>1. /\ timer /\ reload[p] = "idle" /\ timer' = FALSE
        /\ reload' = [reload EXCEPT ![p] = "builtin"]
        /\ found' = [found EXCEPT ![p] = Nothing]
        /\ overlapped' = (overlapped \/ \E q \in Reloader : reload[q] # "idle")
        /\ UNCHANGED <<boot, registry, watcher, banners, page, uiBanners, listening, changed, fetch,
                       scripts, raced>>
    BY <1>1 DEF Fire, Running
  <2>2. /\ reload'[p] = "builtin"
        /\ \A q \in Reloader : q # p => reload'[q] = reload[q] /\ found'[q] = found[q]
    BY <1>0, <2>1 DEF CatalogShapes
  <2>3. boot = "running"
    BY <1>0, <2>1 DEF Early
  <2>4. CatalogShapes' /\ Early'
    BY <1>0, <2>1, <2>3 DEF CatalogShapes, Early
  <2>5. ~overlapped' => ~overlapped /\ \A q \in Reloader : reload[q] = "idle"
    BY <2>1
  <2>6. ~overlapped' => BannersBehind'
    BY <2>1, <2>2, <2>5 DEF CatalogInv, BannersBehind, Installed, Banners
  <2>7. Told' <=> Told
    BY <2>1, <2>2 DEF Told, Installed
  <2>8. PageBehind => PageBehind'
    BY <2>1, <2>7 DEF PageBehind, OnTheWay
  <2> QED BY <2>1, <2>4, <2>6, <2>8 DEF CatalogInv
\* Before it compares, and when it gives up, it has changed nothing that is shown.
<1>2. ASSUME \/ ListBuiltins(p) \/ ListPlugins(p)
             \/ ReadScript(p) \/ ReadDone(p) \/ ReloadFails(p)
      PROVE  CatalogInv'
  <2> DEFINE Scanning == {"builtin", "read builtin", "plugins", "read plugins"}
  <2>1. /\ reload[p] \in Scanning
        /\ reload' = [reload EXCEPT ![p] = reload'[p]] /\ reload'[p] \in Scanning \cup {"compare", "idle"}
        /\ DOMAIN found' = Reloader /\ \A q \in Reloader : q # p => found'[q] = found[q]
        /\ UNCHANGED <<boot, registry, watcher, timer, banners, page, uiBanners, listening, changed,
                       fetch, scripts, overlapped, raced>>
    <3>1. reload \in [Reloader -> {"idle", "builtin", "read builtin", "plugins", "read plugins",
                                   "compare", "publish", "emit", "notify"}] /\ DOMAIN found = Reloader
      BY <1>0 DEF CatalogShapes
    <3>2. CASE ListBuiltins(p) \/ ListPlugins(p)
      BY <3>1, <3>2 DEF ListBuiltins, ListPlugins, List
    <3>3. CASE ReadScript(p)
      <4>1. /\ reload[p] \in {"read builtin", "read plugins"} /\ UNCHANGED reload
            /\ UNCHANGED <<boot, registry, watcher, timer, banners, page, uiBanners, listening, changed,
                           fetch, scripts, overlapped, raced>>
            /\ \E new : found' = [found EXCEPT ![p] = new]
        BY <3>3 DEF ReadScript
      <4> QED BY <3>1, <4>1
    <3>4. CASE ReadDone(p) \/ ReloadFails(p)
      BY <3>1, <3>4 DEF ReadDone, ReloadFails
    <3> QED BY <1>2, <3>2, <3>3, <3>4
  <2>2. /\ reload[p] # "idle" /\ ~Installed(p) /\ reload[p] # "publish" /\ reload[p] # "emit"
        /\ ~Installed(p)' /\ reload'[p] # "publish" /\ reload'[p] # "emit"
        /\ \A q \in Reloader : q # p => reload'[q] = reload[q]
    BY <1>0, <2>1 DEF CatalogShapes, Installed
  <2>3. CatalogShapes' /\ Early'
    <3>1. boot = "running"
      BY <1>0, <2>2 DEF Early
    <3>2. reload' \in [Reloader -> {"idle", "builtin", "read builtin", "plugins", "read plugins",
                                    "compare", "publish", "emit", "notify"}]
      BY <1>0, <2>1 DEF CatalogShapes
    <3> QED BY <1>0, <2>1, <3>1, <3>2 DEF CatalogShapes, Early
  <2>4. BannersBehind => BannersBehind'
    BY <2>1, <2>2 DEF BannersBehind, Installed, Banners
  <2>5. Told' <=> Told
    BY <2>1, <2>2 DEF Told, Installed
  <2>6. PageBehind => PageBehind'
    BY <2>1, <2>5 DEF PageBehind, OnTheWay
  <2> QED BY <2>1, <2>3, <2>4, <2>6 DEF CatalogInv
\* What it installs it also holds, until it has told the page.
<1>3. ASSUME Compare(p) PROVE CatalogInv'
  <2> DEFINE new == [found[p] EXCEPT !.issues = Capped(@)]
  <2>1. /\ reload[p] = "compare" /\ found' = [found EXCEPT ![p] = new]
        /\ \/ reload' = [reload EXCEPT ![p] = "idle"] /\ registry' = registry
           \/ reload' = [reload EXCEPT ![p] = "publish"] /\ registry' = new
        /\ UNCHANGED <<boot, watcher, timer, banners, page, uiBanners, listening, changed,
                       fetch, scripts, overlapped, raced>>
    BY <1>3 DEF Compare
  <2> HIDE DEF new
  <2>2. /\ \A q \in Reloader : q # p => reload'[q] = reload[q] /\ found'[q] = found[q]
        /\ found'[p] = new
        /\ \/ reload'[p] = "idle" /\ registry' = registry
           \/ reload'[p] = "publish" /\ registry' = new
    BY <1>0, <2>1 DEF CatalogShapes
  <2>3. boot = "running"
    BY <1>0, <2>1 DEF Early
  <2>4. CatalogShapes' /\ Early'
    BY <1>0, <2>1, <2>3 DEF CatalogShapes, Early
  <2>5. ASSUME BannersBehind PROVE BannersBehind'
    <3>1. \A q \in Reloader : q # p => reload[q] = "idle" /\ reload'[q] = "idle"
      BY <2>1, <2>2, <2>5 DEF BannersBehind
    <3>2. banners = Banners(registry) /\ (uiBanners = {} \/ uiBanners = banners)
      BY <2>1, <2>5, <3>1 DEF BannersBehind
    <3> QED BY <2>1, <2>2, <3>1, <3>2 DEF BannersBehind, Installed, Banners
  <2>6. CASE registry' = registry /\ reload'[p] = "idle"
    <3>1. Told' <=> Told
      BY <2>1, <2>2, <2>6 DEF Told, Installed
    <3>2. PageBehind => PageBehind'
      BY <2>1, <2>6, <3>1 DEF PageBehind, OnTheWay
    <3> QED BY <2>1, <2>4, <2>5, <3>2 DEF CatalogInv
  <2>7. CASE reload'[p] = "publish"
    <3>1. Told'
      BY <2>7 DEF Told, Installed
    <3>2. PageBehind => PageBehind'
      BY <2>1, <3>1 DEF PageBehind, OnTheWay
    <3> QED BY <2>1, <2>4, <2>5, <3>2 DEF CatalogInv
  <2> QED BY <2>2, <2>6, <2>7
<1>4. ASSUME Publish(p) \/ Emit(p) PROVE CatalogInv'
  <2>1. /\ \/ /\ reload[p] = "publish" /\ reload' = [reload EXCEPT ![p] = "emit"]
              /\ banners' = Banners(found[p]) /\ uiBanners' = uiBanners
           \/ /\ reload[p] = "emit" /\ reload' = [reload EXCEPT ![p] = "notify"]
              /\ banners' = banners
              /\ uiBanners' = IF page THEN Banners(found[p]) ELSE uiBanners
        /\ UNCHANGED <<boot, registry, watcher, timer, found, page, listening, changed,
                       fetch, scripts, overlapped, raced>>
    BY <1>4 DEF Publish, Emit, Replaced
  <2>2. /\ \A q \in Reloader : q # p => reload'[q] = reload[q]
        /\ (reload[p] = "publish" /\ reload'[p] = "emit") \/ (reload[p] = "emit" /\ reload'[p] = "notify")
    BY <1>0, <2>1 DEF CatalogShapes
  <2>3. boot = "running"
    BY <1>0, <2>1 DEF Early
  <2>4. CatalogShapes' /\ Early'
    BY <1>0, <2>1, <2>3 DEF CatalogShapes, Early
  <2>5. ASSUME BannersBehind PROVE BannersBehind'
    <3>1. /\ \A q \in Reloader : q # p => reload[q] = "idle" /\ reload'[q] = "idle"
          /\ found[p] = registry
      BY <2>2, <2>5 DEF BannersBehind, Installed
    <3>2. CASE reload[p] = "publish"
      BY <2>1, <2>2, <3>1, <3>2 DEF BannersBehind, Installed, Banners
    <3>3. CASE reload[p] = "emit"
      <4>1. banners = Banners(registry) /\ banners' = banners
        BY <2>1, <2>5, <3>1, <3>3 DEF BannersBehind
      <4>2. uiBanners' = {} \/ uiBanners' = banners'
        BY <1>0, <2>1, <3>1, <3>3, <4>1 DEF Early
      <4> QED BY <2>1, <2>2, <3>1, <3>3, <4>1, <4>2 DEF BannersBehind, Installed, Banners
    <3> QED BY <2>2, <3>2, <3>3
  <2>6. Told' <=> Told
    BY <2>1, <2>2 DEF Told, Installed
  <2>7. PageBehind => PageBehind'
    BY <2>1, <2>6 DEF PageBehind, OnTheWay
  <2> QED BY <2>1, <2>4, <2>5, <2>7 DEF CatalogInv
<1>5. ASSUME NotifyChanged(p) PROVE CatalogInv'
  <2>1. /\ reload[p] = "notify" /\ reload' = [reload EXCEPT ![p] = "idle"]
        /\ changed' = IF page THEN changed + 1 ELSE changed
        /\ UNCHANGED <<boot, registry, watcher, timer, found, banners, page, uiBanners, listening,
                       fetch, scripts, overlapped, raced>>
    BY <1>5 DEF NotifyChanged
  <2>2. reload'[p] = "idle" /\ \A q \in Reloader : q # p => reload'[q] = reload[q]
    BY <1>0, <2>1 DEF CatalogShapes
  <2>3. boot = "running"
    BY <1>0, <2>1 DEF Early
  <2>4. changed' \in Nat /\ (page => changed' > 0) /\ (~page => changed' = changed)
    <3>1. PICK n \in Nat : n = changed
      BY <1>0 DEF CatalogShapes
    <3> QED BY <2>1, <3>1
  <2>5. CatalogShapes' /\ Early'
    BY <1>0, <2>1, <2>3, <2>4 DEF CatalogShapes, Early
  <2>6. BannersBehind => BannersBehind'
    BY <2>1, <2>2 DEF BannersBehind, Installed, Banners
  <2>7. page => Told'
    BY <2>4 DEF Told
  <2>8. PageBehind => PageBehind'
    BY <2>1, <2>7 DEF PageBehind, OnTheWay
  <2> QED BY <2>1, <2>5, <2>6, <2>8 DEF CatalogInv
<1> QED
  BY <1>1, <1>2, <1>3, <1>4, <1>5 DEF Reload

\* The page's subscription and its fetches.
LEMMA FetchKeepsCatalog ==
    ASSUME CatalogInv,
           \/ MountPage \/ Listen \/ OnChanged
           \/ \E f \in Fetch : \/ ListScripts(f) \/ SetScripts(f)
                               \/ ListFails(f)
    PROVE  CatalogInv'
<1> USE DEF diskVars, registryVars, watchVars,
            reloadVars, bannerVars, pageVars,
            historyVars, otherVars
<1>0. CatalogShapes /\ Early
  BY DEF CatalogInv
<1>1. ASSUME Ask
      PROVE  \E f \in Fetch :
               /\ fetch[f] = Free /\ fetch' = [fetch EXCEPT ![f] = Asked]
               /\ DOMAIN fetch' = Fetch /\ raced' \in BOOLEAN
               /\ \A g \in Fetch : \/ fetch'[g] \in {Free, Asked}
                                   \/ fetch'[g].at = "answered"
               /\ ~raced' => ~raced /\ OnTheWay = {} /\ OnTheWay' = {f}
               /\ fetch'[f] = Asked
  <2>1. PICK f \in Fetch : fetch[f] = Free /\ fetch' = [fetch EXCEPT ![f] = Asked]
    BY <1>1 DEF Ask
  <2>2. raced' = (raced \/ OnTheWay # {})
    BY <1>1 DEF Ask
  <2>3. /\ DOMAIN fetch' = Fetch /\ fetch'[f] = Asked
        /\ \A g \in Fetch : g # f => fetch'[g] = fetch[g]
    BY <1>0, <2>1 DEF CatalogShapes
  <2>4. \A g \in Fetch : fetch'[g] \in {Free, Asked} \/ fetch'[g].at = "answered"
    BY <1>0, <2>3 DEF CatalogShapes
  <2>5. OnTheWay = {} => OnTheWay' = {f}
    <3>1. Free' = Free
      BY DEF Free, Nothing
    <3> QED BY <2>3, <3>1, FetchKinds DEF OnTheWay
  <2> QED BY <2>1, <2>2, <2>3, <2>4, <2>5
<1>2. ASSUME UNCHANGED <<boot, registry, reload, found, banners, overlapped, watcher, timer, uiBanners>>
      PROVE  /\ BannersBehind => BannersBehind'
             /\ \A q \in Reloader : Installed(q)' <=> Installed(q)
  BY <1>2 DEF BannersBehind, Installed, Banners
\* The page asks for the catalog when it comes up, and before that nothing is on its way.
<1>3. ASSUME MountPage PROVE CatalogInv'
  <2>1. /\ boot \in {"app", "running"} /\ page' = TRUE /\ Ask
        /\ UNCHANGED <<boot, registry, reload, found, banners, overlapped, watcher, timer, uiBanners,
                       listening, changed, scripts>>
    BY <1>3 DEF MountPage
  <2>2. CatalogShapes' /\ Early'
    <3>1. /\ DOMAIN fetch' = Fetch /\ raced' \in BOOLEAN
          /\ \A g \in Fetch : fetch'[g] \in {Free, Asked} \/ fetch'[g].at = "answered"
      BY <1>1, <2>1
    <3> QED BY <1>0, <2>1, <3>1 DEF CatalogShapes, Early, Free, Asked, Nothing
  <2>3. ~raced' => PageBehind'
    BY <1>1, <2>1 DEF PageBehind, Asked, Nothing
  <2> QED BY <1>2, <2>1, <2>2, <2>3 DEF CatalogInv
<1>4. ASSUME Listen PROVE CatalogInv'
  <2>1. /\ page /\ listening' = TRUE
        /\ UNCHANGED <<boot, registry, reload, found, banners, overlapped, watcher, timer, uiBanners,
                       page, changed, fetch, scripts, raced>>
    BY <1>4 DEF Listen
  <2>2. CatalogShapes' /\ Early'
    BY <1>0, <2>1 DEF CatalogShapes, Early
  <2>3. PageBehind => PageBehind'
    BY <2>1 DEF PageBehind, Told, Installed, OnTheWay
  <2> QED BY <1>2, <2>1, <2>2, <2>3 DEF CatalogInv
\* The event's own fetch takes its place.
<1>5. ASSUME OnChanged PROVE CatalogInv'
  <2>1. /\ changed > 0 /\ changed' = changed - 1
        /\ Ask \/ (raced' = TRUE /\ fetch' = fetch)
        /\ UNCHANGED <<boot, registry, reload, found, banners, overlapped, watcher, timer, uiBanners,
                       page, listening, scripts>>
    BY <1>5 DEF OnChanged, Refetch
  <2>2. /\ DOMAIN fetch' = Fetch /\ raced' \in BOOLEAN
        /\ \A g \in Fetch : fetch'[g] \in {Free, Asked} \/ fetch'[g].at = "answered"
    BY <1>0, <1>1, <2>1 DEF CatalogShapes
  <2>3. changed' \in Nat
    <3>1. PICK n \in Nat : n = changed
      BY <1>0 DEF CatalogShapes
    <3> QED BY <2>1, <3>1
  <2>4. CatalogShapes'
    BY <1>0, <2>1, <2>2, <2>3 DEF CatalogShapes, Free, Asked, Nothing
  <2>5. page
    BY <1>0, <2>1 DEF Early
  <2>6. Early'
    BY <1>0, <2>1, <2>5 DEF Early
  <2>7. ~raced' => PageBehind'
    BY <1>1, <2>1 DEF PageBehind, Asked, Nothing
  <2> QED BY <1>2, <2>1, <2>4, <2>6, <2>7 DEF CatalogInv
<1>6. ASSUME NEW f \in Fetch, ListScripts(f) PROVE CatalogInv'
  <2>1. /\ fetch[f] = Asked
        /\ fetch' = [fetch EXCEPT ![f] = Answered(registry.scripts)]
        /\ UNCHANGED <<boot, registry, reload, found, banners, overlapped, watcher, timer, uiBanners,
                       page, listening, changed, scripts, raced>>
    BY <1>6 DEF ListScripts
  <2>2. /\ DOMAIN fetch' = Fetch /\ fetch'[f] = Answered(registry.scripts)
        /\ \A g \in Fetch : g # f => fetch'[g] = fetch[g]
    BY <1>0, <2>1 DEF CatalogShapes
  <2>3. OnTheWay' = OnTheWay /\ f \in OnTheWay
    <3>1. Free' = Free
      BY DEF Free, Nothing
    <3> QED BY <2>1, <2>2, <3>1, FetchKinds DEF OnTheWay
  <2>4. CatalogShapes' /\ Early'
    <3>0. fetch'[f].at = "answered"
      BY <2>2 DEF Answered
    <3>1. \A g \in Fetch : fetch'[g] \in {Free, Asked} \/ fetch'[g].at = "answered"
      BY <1>0, <2>2, <3>0 DEF CatalogShapes
    <3>2. page
      BY <1>0, <2>1, FetchKinds DEF Early
    <3> QED BY <1>0, <2>1, <2>2, <3>1, <3>2 DEF CatalogShapes, Early, Free, Asked, Nothing
  <2>5. PageBehind => PageBehind'
    <3> SUFFICES ASSUME PageBehind PROVE PageBehind'
      OBVIOUS
    <3>1. Told' <=> Told
      BY <2>1 DEF Told, Installed
    <3>2. OnTheWay # {} /\ \A g \in OnTheWay : g = f
      BY <2>3 DEF PageBehind
    <3>3. OnTheWay' = {f}
      BY <2>3, <3>2
    <3>4. fetch'[f] \in {Asked, Answered(registry.scripts)}'
      BY <2>1, <2>2 DEF Answered
    <3> QED BY <2>1, <2>2, <3>3, <3>4 DEF PageBehind
  <2> QED BY <1>2, <2>1, <2>4, <2>5 DEF CatalogInv
\* Alone on its way, it has what the Registry has.
<1>7. ASSUME NEW f \in Fetch, SetScripts(f) \/ ListFails(f) PROVE CatalogInv'
  <2>1. /\ \/ fetch[f].at = "answered" /\ scripts' = fetch[f].scripts
           \/ fetch[f] = Asked /\ scripts' = Failed
        /\ fetch' = [fetch EXCEPT ![f] = Free]
        /\ UNCHANGED <<boot, registry, reload, found, banners, overlapped, watcher, timer, uiBanners,
                       page, listening, changed, raced>>
    BY <1>7 DEF SetScripts, ListFails
  <2>2. /\ DOMAIN fetch' = Fetch /\ fetch'[f] = Free /\ fetch[f] # Free
        /\ \A g \in Fetch : g # f => fetch'[g] = fetch[g]
    BY <1>0, <2>1, FetchKinds DEF CatalogShapes
  <2>3. f \in OnTheWay /\ OnTheWay' = OnTheWay \ {f}
    <3>1. Free' = Free
      BY DEF Free, Nothing
    <3> QED BY <2>2, <3>1 DEF OnTheWay
  <2>4. CatalogShapes' /\ Early'
    <3>1. \A g \in Fetch : fetch'[g] \in {Free, Asked} \/ fetch'[g].at = "answered"
      BY <1>0, <2>2 DEF CatalogShapes
    <3>2. page
      BY <1>0, <2>2 DEF Early
    <3> QED BY <1>0, <2>1, <2>2, <3>1, <3>2 DEF CatalogShapes, Early, Free, Asked, Nothing
  <2>5. PageBehind => PageBehind'
    <3> SUFFICES ASSUME PageBehind PROVE PageBehind'
      OBVIOUS
    <3>1. Told' <=> Told
      BY <2>1 DEF Told, Installed
    <3>2. \A g \in OnTheWay : g = f
      BY <2>3 DEF PageBehind
    <3>3. OnTheWay' = {}
      BY <2>3, <3>2
    <3>4. page => Told \/ fetch[f] \in {Asked, Answered(registry.scripts)}
      BY <2>3 DEF PageBehind
    <3>5. page => Told \/ scripts' \in {registry.scripts, Failed}
      BY <2>1, <3>4, FetchKinds
    <3> QED BY <2>1, <3>1, <3>3, <3>5 DEF PageBehind
  <2> QED BY <1>2, <2>1, <2>4, <2>5 DEF CatalogInv
<1> QED
  BY <1>3, <1>4, <1>5, <1>6, <1>7

LEMMA CatalogInvariant == Spec => []CatalogInv
<1>1. CatalogInv /\ [Next]_vars => CatalogInv'
  <2> SUFFICES ASSUME CatalogInv, [Next]_vars PROVE CatalogInv'
    OBVIOUS
  <2>1. CASE UNCHANGED vars
    <3>1. UNCHANGED catalogShown /\ UNCHANGED <<watcher, timer>>
      BY <2>1 DEF vars, registryVars, watchVars,
                  reloadVars, bannerVars, pageVars,
                  historyVars, catalogShown
    <3>2. Early'
      BY <3>1 DEF CatalogInv, Early, catalogShown
    <3> QED BY <3>1, <3>2, CatalogFrame
  <2> QED BY <2>1, WatcherKeepsCatalog, ReloadKeepsCatalog, FetchKeepsCatalog
          DEF Next, Settled
<1> QED
  BY <1>1, CatalogInitially, PTL DEF Spec

\* When nothing is under way and no two Reloads have overlapped, the banners are the issues
\* of the Registry, and the page shows them if it shows any, although Reload publishes them
\* after it has let go of the Registry's lock and emits them after that of the banners.
THEOREM BannersAreCurrent == Spec => []BannersFollowIssues
<1>1. CatalogInv => BannersFollowIssues
  BY DEF CatalogInv, BannersBehind, BannersFollowIssues, Quiet,
         Running
<1> QED
  BY <1>1, CatalogInvariant, PTL

\* When nothing is under way the page has the Registry's catalog or its error pane, unless
\* two fetches have crossed or an event came before the subscription (NotifyChanged,
\* ListScripts and loadCatalog).
THEOREM CatalogIsShown == Spec => []PageShowsCatalog
<1>1. CatalogInv => PageShowsCatalog
  <2> SUFFICES ASSUME CatalogInv, Quiet, listening, changed = 0,
                      OnTheWay = {}, ~raced
               PROVE  scripts \in {registry.scripts, Failed}
    BY DEF PageShowsCatalog
  <2>1. page /\ PageBehind
    BY DEF CatalogInv, Early
  <2>2. ~Told
    BY DEF Told, Installed, Quiet, Running
  <2> QED BY <2>1, <2>2 DEF PageBehind
<1> QED
  BY <1>1, CatalogInvariant, PTL

-----------------------------------------------------------------------------
(* The Registry and the disk *)

\* A change that no Reload has been started for yet.
Unscanned == created # {} \/ touched \/ timer \/ watcher = "schedule"

\* A directory that is there is watched, or its Create event has not been read.
Watching ==
    /\ disk \in [Dir -> Content]
    /\ boot = "running" <=> watcher # "off"
    /\ boot # "running" => newest = None /\ ~newestLast
    /\ boot = "running" =>
         \A d \in Dir : disk[d] # Absent => d \in watched \/ d \in created
    /\ fingerprint = Fingerprint(registry)
    /\ newest \in Reloader \cup {None} /\ DOMAIN todo = Reloader

\* The source a script has when the directories R are what there is.
SourceIn(R, id) ==
    IF \E d \in R \cap PluginDir : disk[d] = id THEN "plugin"
    ELSE IF \E d \in R \cap BuiltinDir : disk[d] = id THEN "builtin"
    ELSE "none"

\* Issues in the order of their directories, one for each directory of S.
IssuesOf(issues, S) ==
    /\ \A i, j \in 1..Len(issues) : i < j => issues[i].dir < issues[j].dir
    /\ \A d \in Dir : d \in S <=> \E i \in 1..Len(issues) : issues[i].dir = d

\* s has the scripts of the directories R, and the issues of S.
Holds(s, R, S) ==
    /\ s \in State
    /\ \A id \in Id : SourceOf(s.scripts[id]) = SourceIn(R, id)
    /\ IssuesOf(s.issues, S)

\* s is what reading R, in order, finds.
ScanOf(s, R) == Holds(s, R, R \cap Faulty)

\* The last of the directories S: the issues of the others are dropped.
Latest(S) == {d \in S : Cardinality({e \in S : e > d}) < MaxIssues}

\* What a Reload has read, and what it has listed and not read yet.
Scanned(p) ==
    LET Builtin == Listed(BuiltinDir)
        Plugin  == Listed(PluginDir)
        Halfway(listed, before) ==
            /\ todo[p] \subseteq listed
            /\ \A d \in listed \ todo[p] : \A e \in todo[p] : d < e
            /\ ScanOf(found[p], before \cup (listed \ todo[p]))
    IN  /\ reload[p] = "builtin" => ScanOf(found[p], {})
        /\ reload[p] = "read builtin" => Halfway(Builtin, {})
        /\ reload[p] = "plugins" => ScanOf(found[p], Builtin)
        /\ reload[p] = "read plugins" => Halfway(Plugin, Builtin)
        /\ reload[p] = "compare" => ScanOf(found[p], Builtin \cup Plugin)

\* The scripts of a state, and its issues, are those of the disk.
Current(s) ==
    /\ \A id \in Id : SourceOf(s.scripts[id]) = SourceOf(Winner(id))
    /\ {i.dir : i \in Range(s.issues)} =
         {d \in Faulty :
            Cardinality({e \in Faulty : e > d}) < MaxIssues}

CurrentInv ==
    /\ Watching
    /\ boot = "running" /\ ~Unscanned =>
         /\ newest # None => Scanned(newest)
         /\ newestLast => Current(registry)

\* Directories are numbered, the builtin ones first.
LEMMA DirIs ==
    /\ Dir = BuiltinDir \cup PluginDir
    /\ \A d \in Dir : d \in Nat /\ d # 0
    /\ \A b \in BuiltinDir : \A p \in PluginDir : b < p
    /\ \A d \in BuiltinDir :
         d \notin PluginDir /\ SourceOf(d) = "builtin"
    /\ \A d \in PluginDir :
         d \notin BuiltinDir /\ SourceOf(d) = "plugin"
    /\ SourceOf(0) = "none"
BY SizeAssumption DEF Dir, BuiltinDir, PluginDir, SourceOf

\* A set of numbers has a least one.
LEMMA LeastNumber ==
    ASSUME NEW S, S \subseteq Nat, S # {}
    PROVE  \E n \in S : \A m \in S : n <= m
<1>1. PICK n \in S : \A m \in S : <<m, n>> \notin OpToRel(<, Nat)
  BY NatLessThanWellFounded, WFMin
<1>2. \A m \in S : ~(m < n)
  BY <1>1 DEF OpToRel
<1>3. \A m \in S : n <= m
  BY <1>2
<1> QED
  BY <1>3

\* A set of directories has a first one.
LEMMA FirstOf ==
    ASSUME NEW S, S \subseteq Dir, S # {}
    PROVE  LET first == CHOOSE d \in S : \A e \in S : d <= e
           IN  first \in S /\ \A e \in S : first <= e
<1>1. \E d \in S : \A e \in S : d <= e
  BY DirIs, LeastNumber
<1> QED
  BY <1>1

\* The issue of one more directory comes behind the others.
LEMMA IssueAppended ==
    ASSUME NEW issues \in Seq(Issue), NEW R \in SUBSET Dir,
           IssuesOf(issues, R),
           NEW issue \in Issue, \A e \in R : e < issue.dir
    PROVE  IssuesOf(Append(issues, issue), R \cup {issue.dir})
<1> DEFINE d == issue.dir
           more == Append(issues, issue)
           n == Len(issues)
<1>1. /\ n \in Nat /\ more \in Seq(Issue) /\ Len(more) = n + 1
      /\ \A i \in 1..n : more[i] = issues[i]
      /\ more[n + 1] = issue
  BY AppendProperties
<1>2. \A i \in 1..n : issues[i].dir \in Dir
  <2>1. \A i \in 1..n : issues[i] \in Issue
    BY ElementOfSeq
  <2> QED BY <2>1 DEF Issue
<1>3. \A i \in 1..n : issues[i].dir \in R /\ issues[i].dir < issue.dir
  BY <1>2 DEF IssuesOf
<1> HIDE DEF n, more
<1>4. \A i : i \in 1..(n + 1) <=> i \in 1..n \/ i = n + 1
  BY <1>1
<1>5. \A i, j \in 1..(n + 1) : i < j => i \in 1..n
  BY <1>1
<1>6. ASSUME NEW i \in 1..(n + 1), NEW j \in 1..(n + 1), i < j PROVE more[i].dir < more[j].dir
  <2>1. i \in 1..n /\ more[i] = issues[i]
    BY <1>1, <1>5, <1>6
  <2>2. CASE j \in 1..n
    BY <1>1, <1>6, <2>1, <2>2 DEF n, IssuesOf
  <2>3. CASE j = n + 1
    BY <1>1, <1>3, <2>1, <2>3
  <2> QED BY <1>4, <2>2, <2>3
<1>7. ASSUME NEW e \in Dir
      PROVE  e \in R \cup {d} <=> \E i \in 1..(n + 1) : more[i].dir = e
  <2>1. e \in R <=> \E i \in 1..n : more[i].dir = e
    BY <1>1 DEF n, IssuesOf
  <2> QED BY <1>1, <1>4, <2>1
<1> QED
  BY <1>1, <1>6, <1>7 DEF IssuesOf, more

\* Reading the next directory: whether its id has been taken is what Faulty says of it.
LEMMA ReadStep ==
    ASSUME disk \in [Dir -> Content],
           NEW R \in SUBSET Dir, NEW S \in SUBSET R, NEW s, Holds(s, R, S),
           NEW d \in Dir, disk[d] # Absent, \A e \in R : e < d,
           \A e \in Dir : disk[e] # Absent /\ e < d /\ SourceOf(e) = SourceOf(d) => e \in R
    PROVE  Holds(Load(s, d, disk[d]), R \cup {d}, S \cup ({d} \cap Faulty))
<1> DEFINE c == disk[d]
           new == Load(s, d, c)
           taken == \E e \in Dir :
                      /\ e < d /\ SourceOf(e) = SourceOf(d)
                      /\ disk[e] = c
           issue(f) == [dir |-> d, first |-> f]
<1>1. /\ c \in Id \cup {Bad} /\ s \in State
      /\ s = [scripts |-> s.scripts, issues |-> s.issues]
      /\ s.scripts \in [Id -> Dir \cup {0}] /\ s.issues \in Seq(Issue)
  BY DEF Holds, State, Content
<1>2. \A id \in Id : s.scripts[id] \in Dir \cup {0}
  BY <1>1
<1>3. /\ SourceOf(d) \in {"builtin", "plugin"} /\ d \notin R
      /\ d \in BuiltinDir \/ d \in PluginDir
      /\ d \in BuiltinDir =>
           /\ SourceOf(d) = "builtin"
           /\ \A e \in R : e \in BuiltinDir /\ e \notin PluginDir
      /\ d \in PluginDir => SourceOf(d) = "plugin"
  <2>1. d \in Nat /\ \A e \in R : e \in Nat /\ e < d
    BY DirIs
  <2>2. \A e \in R : d # e /\ ~(d < e)
    BY <2>1
  <2> QED BY DirIs, <2>2
<1>4. d \in Faulty <=> c = Bad \/ (c \in Id /\ taken)
  BY DEF Faulty
<1>5. c \in Id => /\ taken <=> SourceIn(R, c) = SourceOf(d)
                  /\ taken <=> Duplicate(s, d, c)
  <2> SUFFICES ASSUME c \in Id
               PROVE  /\ taken <=> SourceIn(R, c) = SourceOf(d)
                      /\ taken <=> Duplicate(s, d, c)
    OBVIOUS
  <2>1. taken <=> \E e \in R : SourceOf(e) = SourceOf(d) /\ disk[e] = c
    BY SizeAssumption
  <2>2. taken <=> SourceIn(R, c) = SourceOf(d)
    <3>1. CASE d \in BuiltinDir
      BY <1>3, <2>1, <3>1, DirIs DEF SourceIn
    <3>2. CASE d \in PluginDir
      BY <1>3, <2>1, <3>2, DirIs DEF SourceIn
    <3> QED BY <1>3, <3>1, <3>2
  <2>3. SourceOf(s.scripts[c]) = SourceIn(R, c)
    BY DEF Holds
  <2>4. SourceOf(s.scripts[c]) = SourceOf(d) => s.scripts[c] # 0
    BY <1>3, DirIs
  <2> QED BY <2>2, <2>3, <2>4 DEF Duplicate
\* An issue, or the script.
<1>6. \/ /\ d \in Faulty
         /\ \E f \in Dir \cup {0} : new = [s EXCEPT !.issues = Append(@, issue(f))]
         /\ c \in Id => SourceIn(R, c) = SourceOf(d)
      \/ /\ d \notin Faulty /\ c \in Id
         /\ new = [s EXCEPT !.scripts[c] = d]
  <2>1. CASE c = Bad
    BY <1>1, <1>4, <2>1, SizeAssumption DEF Load
  <2>2. CASE c \in Id
    BY <1>1, <1>2, <1>4, <1>5, <2>2, SizeAssumption DEF Load
  <2> QED BY <1>1, <2>1, <2>2
<1>7. CASE /\ d \in Faulty
           /\ \E f \in Dir \cup {0} : new = [s EXCEPT !.issues = Append(@, issue(f))]
           /\ c \in Id => SourceIn(R, c) = SourceOf(d)
  <2>1. PICK f \in Dir \cup {0} : new = [s EXCEPT !.issues = Append(@, issue(f))]
    BY <1>7
  <2>2. issue(f) \in Issue /\ issue(f).dir = d
    BY DEF Issue
  <2> HIDE DEF new, issue
  <2>3. new.scripts = s.scripts /\ new.issues = Append(s.issues, issue(f)) /\ new \in State
    <3>1. new = [scripts |-> s.scripts, issues |-> Append(s.issues, issue(f))]
      BY <1>1, <2>1
    <3> QED BY <1>1, <2>2, <3>1, AppendProperties DEF State
  <2>4. IssuesOf(new.issues, S \cup {d})
    <3>1. S \in SUBSET Dir /\ \A e \in S : e < d
      OBVIOUS
    <3>2. IssuesOf(s.issues, S)
      BY DEF Holds
    <3> QED BY <1>1, <2>2, <2>3, <3>1, <3>2, IssueAppended
  <2>5. ASSUME NEW id \in Id PROVE SourceIn(R \cup {d}, id) = SourceIn(R, id)
    <3>1. CASE id # c
      BY <3>1 DEF SourceIn
    <3>2. CASE id = c /\ d \in BuiltinDir
      BY <1>3, <1>7, <3>2, DirIs DEF SourceIn
    <3>3. CASE id = c /\ d \in PluginDir
      BY <1>3, <1>7, <3>3, DirIs DEF SourceIn
    <3> QED BY <1>3, <3>1, <3>2, <3>3
  <2>6. S \cup ({d} \cap Faulty) = S \cup {d}
    BY <1>7
  <2> QED BY <2>3, <2>4, <2>5, <2>6 DEF Holds, new
<1>8. CASE d \notin Faulty /\ c \in Id /\ new = [s EXCEPT !.scripts[c] = d]
  <2>1. new = [scripts |-> [s.scripts EXCEPT ![c] = d], issues |-> s.issues]
    BY <1>1, <1>8
  <2> HIDE DEF new
  <2>2. new.scripts = [s.scripts EXCEPT ![c] = d] /\ new.issues = s.issues /\ new \in State
    BY <1>1, <1>8, <2>1 DEF State
  <2>3. ASSUME NEW id \in Id
        PROVE  SourceOf(new.scripts[id]) = SourceIn(R \cup {d}, id)
    <3>1. CASE id # c
      <4>1. new.scripts[id] = s.scripts[id]
        BY <1>1, <2>2, <3>1
      <4>2. SourceIn(R \cup {d}, id) = SourceIn(R, id)
        BY <3>1 DEF SourceIn
      <4> QED BY <4>1, <4>2 DEF Holds
    <3>2. CASE id = c
      <4>1. new.scripts[id] = d
        BY <1>1, <1>8, <2>2, <3>2
      <4>2. SourceIn(R \cup {d}, id) = SourceOf(d)
        BY <1>3, <3>2, DirIs DEF SourceIn
      <4> QED BY <4>1, <4>2
    <3> QED BY <3>1, <3>2
  <2>4. S \cup ({d} \cap Faulty) = S
    BY <1>8
  <2> QED BY <2>2, <2>3, <2>4 DEF Holds, new
<1> QED
  BY <1>6, <1>7, <1>8

LEMMA ScanStep ==
    ASSUME disk \in [Dir -> Content],
           NEW R \in SUBSET Dir, NEW s, ScanOf(s, R),
           NEW d \in Dir, disk[d] # Absent, \A e \in R : e < d,
           \A e \in Dir : disk[e] # Absent /\ e < d => e \in R
    PROVE  ScanOf(Load(s, d, disk[d]), R \cup {d})
<1>1. (R \cup {d}) \cap Faulty = (R \cap Faulty) \cup ({d} \cap Faulty) /\ R \cap Faulty \in SUBSET R
  OBVIOUS
<1> QED
  BY <1>1, ReadStep DEF ScanOf

\* How many of the faulty directories come behind one of them.
LEMMA IssuesBehind ==
    ASSUME NEW issues \in Seq(Issue), NEW S \in SUBSET Dir,
           IssuesOf(issues, S), NEW i \in 1..Len(issues)
    PROVE  Cardinality({e \in S : e > issues[i].dir}) = Len(issues) - i
<1> DEFINE n == Len(issues)
           Behind == {e \in S : e > issues[i].dir}
           f == [j \in (i + 1)..n |-> issues[j].dir]
<1>1. n \in Nat /\ i \in Nat /\ i <= n /\ i >= 1
  OBVIOUS
<1>2. \A j \in 1..n : issues[j].dir \in Dir
  <2>1. \A j \in 1..n : issues[j] \in Issue
    BY ElementOfSeq
  <2> QED BY <2>1 DEF Issue
<1>3. \A j \in 1..n : issues[j].dir \in Nat
  BY <1>2, DirIs
<1>4. \A j, k \in 1..n : j < k => issues[j].dir < issues[k].dir
  BY DEF IssuesOf
<1>5. \A j \in 1..n : issues[j].dir \in S
  BY <1>2 DEF IssuesOf
<1>6. \A e \in S : \E j \in 1..n : issues[j].dir = e
  BY DEF IssuesOf
<1> HIDE DEF n
<1>7. \A j \in (i + 1)..n : j \in 1..n /\ issues[j].dir \in Behind
  <2> TAKE j \in (i + 1)..n
  <2>1. j \in 1..n /\ i \in 1..n /\ i < j
    BY <1>1
  <2> QED BY <1>3, <1>4, <1>5, <2>1
<1>8. f \in [(i + 1)..n -> Behind]
  BY <1>7
<1>9. f \in Injection((i + 1)..n, Behind)
  <2>1. ASSUME NEW j \in (i + 1)..n, NEW k \in (i + 1)..n, f[j] = f[k] PROVE j = k
    <3>1. j \in 1..n /\ k \in 1..n /\ issues[j].dir = issues[k].dir
      BY <1>7, <2>1
    <3>2. ~(j < k) /\ ~(k < j)
      BY <1>3, <1>4, <3>1
    <3> QED BY <3>1, <3>2
  <2> QED BY <1>8, <2>1 DEF Injection, IsInjective
<1>10. f \in Surjection((i + 1)..n, Behind)
  <2>1. ASSUME NEW e \in Behind PROVE \E j \in (i + 1)..n : f[j] = e
    <3>1. PICK j \in 1..n : issues[j].dir = e
      BY <1>6
    <3>2. ~(j < i) /\ j # i
      BY <1>1, <1>3, <1>4, <3>1
    <3>3. j \in (i + 1)..n
      BY <1>1, <3>2
    <3> QED BY <3>1, <3>3
  <2> QED BY <1>8, <2>1 DEF Surjection
<1>11. ExistsBijection((i + 1)..n, Behind)
  BY <1>9, <1>10 DEF ExistsBijection, Bijection
<1>12. IsFiniteSet((i + 1)..n) /\ Cardinality((i + 1)..n) = n - i
  BY <1>1, FS_Interval
<1> QED
  BY <1>11, <1>12, FS_Bijection DEF n

\* No more than maxLoadIssues are left.
LEMMA CappedIs ==
    ASSUME NEW s \in State
    PROVE  LET new == [s EXCEPT !.issues = Capped(@)]
           IN  new \in State /\ Len(new.issues) <= MaxIssues
<1> DEFINE new == [s EXCEPT !.issues = Capped(@)]
           n == Len(s.issues)
<1>1. /\ s = [scripts |-> s.scripts, issues |-> s.issues]
      /\ s.scripts \in [Id -> Dir \cup {0}] /\ s.issues \in Seq(Issue)
  BY DEF State
<1>2. new = [scripts |-> s.scripts, issues |-> Capped(s.issues)]
  BY <1>1
<1>3. n \in Nat /\ MaxIssues \in Nat \ {0}
  BY <1>1, SizeAssumption
<1>4. Capped(s.issues) \in Seq(Issue) /\ Len(Capped(s.issues)) <= MaxIssues
  <2>1. CASE n <= MaxIssues
    BY <1>1, <2>1 DEF Capped
  <2>2. CASE ~(n <= MaxIssues)
    <3>1. Capped(s.issues) = SubSeq(s.issues, n - MaxIssues + 1, n)
      BY <2>2 DEF Capped
    <3>2. n - MaxIssues + 1 \in 1..(n + 1)
      BY <1>3, <2>2
    <3>3. /\ SubSeq(s.issues, n - MaxIssues + 1, n) \in Seq(Issue)
          /\ Len(SubSeq(s.issues, n - MaxIssues + 1, n)) = n - (n - MaxIssues + 1) + 1
      BY <1>1, <1>3, <3>2, SubSeqProperties
    <3> QED BY <1>3, <3>1, <3>3
  <2> QED BY <2>1, <2>2
<1> QED
  BY <1>1, <1>2, <1>4 DEF State

\* The issues that are left are those of the last directories.
LEMMA CapStep ==
    ASSUME NEW R \in SUBSET Dir, NEW S \in SUBSET Dir, NEW s, Holds(s, R, S)
    PROVE  Holds([s EXCEPT !.issues = Capped(@)], R, Latest(S))
<1> DEFINE new == [s EXCEPT !.issues = Capped(@)]
           n == Len(s.issues)
           kept == IF n <= MaxIssues THEN 0 ELSE n - MaxIssues
<1>1. /\ s.scripts \in [Id -> Dir \cup {0}] /\ s.issues \in Seq(Issue)
      /\ new.scripts = s.scripts /\ new.issues = Capped(s.issues)
      /\ new \in State
  BY CappedIs DEF Holds, State
<1> HIDE DEF new
<1>2. IssuesOf(s.issues, S)
  BY DEF Holds
<1>3. n \in Nat /\ MaxIssues \in Nat \ {0}
  BY <1>1, SizeAssumption
<1>4. \A i \in 1..n : Cardinality({e \in S : e > s.issues[i].dir}) = n - i
  BY <1>1, <1>2, IssuesBehind
<1>5. \A i \in 1..n : s.issues[i].dir \in S
  <2>1. \A i \in 1..n : s.issues[i] \in Issue
    BY <1>1, ElementOfSeq
  <2> QED BY <1>2, <2>1 DEF IssuesOf, Issue
<1>6. \A d \in S : \E i \in 1..n : s.issues[i].dir = d
  BY <1>2 DEF IssuesOf
<1>7. \A i, j \in 1..n : i < j => s.issues[i].dir < s.issues[j].dir
  BY <1>2 DEF IssuesOf
<1> HIDE DEF n
<1>8. \A i \in 1..n : i \in (kept + 1)..n <=> s.issues[i].dir \in Latest(S)
  <2>1. \A i \in 1..n : i \in (kept + 1)..n <=> n - i < MaxIssues
    BY <1>3
  <2> HIDE DEF kept
  <2> QED BY <1>4, <1>5, <2>1 DEF Latest
<1>9. /\ Len(new.issues) = n - kept
       /\ \A k \in 1..(n - kept) : new.issues[k] = s.issues[kept + k]
  <2>1. CASE n <= MaxIssues
    BY <1>1, <1>3, <2>1 DEF Capped, n
  <2>2. CASE n > MaxIssues
    <3> DEFINE a == n - MaxIssues + 1
    <3>1. new.issues = SubSeq(s.issues, a, n) /\ kept = n - MaxIssues
      BY <1>1, <1>3, <2>2 DEF Capped, n
    <3>2. a \in 1..(n + 1) /\ n = Len(s.issues)
      BY <1>3, <2>2 DEF n
    <3>3. /\ SubSeq(s.issues, a, n) \in Seq(Issue) /\ Len(SubSeq(s.issues, a, n)) = n - a + 1
          /\ \A k \in 1..(n - a + 1) : SubSeq(s.issues, a, n)[k] = s.issues[a + k - 1]
      BY <1>1, <1>3, <3>2, SubSeqProperties
    <3>4. n - a + 1 = n - kept /\ \A k \in 1..(n - kept) : a + k - 1 = kept + k
      BY <1>3, <3>1
    <3> HIDE DEF a, kept
    <3> QED BY <3>1, <3>3, <3>4, LenProperties
  <2>3. n <= MaxIssues \/ n > MaxIssues
    BY <1>3
  <2> QED BY <2>1, <2>2, <2>3
<1>10. kept \in Nat /\ \A k \in 1..(n - kept) : kept + k \in (kept + 1)..n /\ kept + k \in 1..n
  BY <1>3
<1>11. \A i \in (kept + 1)..n : i - kept \in 1..(n - kept) /\ kept + (i - kept) = i /\ i \in 1..n
  BY <1>3
<1> HIDE DEF kept
<1>12. ASSUME NEW i \in 1..(n - kept), NEW j \in 1..(n - kept), i < j
       PROVE  new.issues[i].dir < new.issues[j].dir
  <2>1. kept + i < kept + j
    BY <1>3, <1>10, <1>12
  <2> QED BY <1>7, <1>9, <1>10, <2>1
<1>13. ASSUME NEW d \in Dir
       PROVE  d \in Latest(S) <=> \E k \in 1..(n - kept) : new.issues[k].dir = d
  <2>1. ASSUME d \in Latest(S) PROVE \E k \in 1..(n - kept) : new.issues[k].dir = d
    <3>1. PICK i \in 1..n : s.issues[i].dir = d
      BY <1>6, <2>1 DEF Latest
    <3>2. i \in (kept + 1)..n
      BY <1>8, <2>1, <3>1
    <3> QED BY <1>9, <1>11, <3>1, <3>2
  <2>2. ASSUME NEW k \in 1..(n - kept), new.issues[k].dir = d PROVE d \in Latest(S)
    BY <1>8, <1>9, <1>10, <2>2
  <2> QED BY <2>1, <2>2
<1>14. IssuesOf(new.issues, Latest(S))
  BY <1>9, <1>12, <1>13 DEF IssuesOf
<1> QED
  BY <1>1, <1>14 DEF Holds, new

\* The directories of the issues.
LEMMA IssueDirs ==
    ASSUME NEW issues \in Seq(Issue), NEW S \in SUBSET Dir, IssuesOf(issues, S)
    PROVE  {i.dir : i \in Range(issues)} = S
<1>1. \A k \in 1..Len(issues) : issues[k].dir \in Dir
  <2>1. \A k \in 1..Len(issues) : issues[k] \in Issue
    BY ElementOfSeq
  <2> QED BY <2>1 DEF Issue
<1>2. Range(issues) = {issues[k] : k \in 1..Len(issues)}
  BY LenProperties DEF Range
<1> QED
  BY <1>1, <1>2 DEF IssuesOf

\* All that is there has been read: the scripts and the issues are those of the disk.
LEMMA ScanIsCurrent ==
    ASSUME disk \in [Dir -> Content], NEW s,
           ScanOf(s, Listed(Dir))
    PROVE  Current([s EXCEPT !.issues = Capped(@)])
<1> DEFINE new == [s EXCEPT !.issues = Capped(@)]
<1>1. /\ s \in State /\ new.scripts = s.scripts
      /\ Listed(Dir) \cap Faulty = Faulty /\ Faulty \in SUBSET Dir
      /\ Listed(Dir) \in SUBSET Dir
  BY SizeAssumption DEF ScanOf, Holds, State, Faulty, Listed
<1> HIDE DEF new
<1>2. ASSUME NEW id \in Id
      PROVE  SourceOf(new.scripts[id]) = SourceOf(Winner(id))
  <2> DEFINE Has(dirs) == {d \in dirs : disk[d] = id}
             First(S) == CHOOSE d \in S : \A e \in S : d <= e
             P == Has(PluginDir)
             B == Has(BuiltinDir)
  <2>1. Winner(id) = IF P # {} THEN First(P) ELSE IF B # {} THEN First(B) ELSE 0
    BY DEF Winner
  <2>2. P \subseteq Dir /\ B \subseteq Dir
    BY DirIs
  <2>3. P # {} => First(P) \in P
    BY <2>2, FirstOf
  <2>4. B # {} => First(B) \in B
    BY <2>2, FirstOf
  <2>5. SourceOf(s.scripts[id]) = SourceIn(Listed(Dir), id)
    BY DEF ScanOf, Holds
  <2>6. SourceIn(Listed(Dir), id)
          = IF P # {} THEN "plugin" ELSE IF B # {} THEN "builtin" ELSE "none"
    BY <2>2, DirIs, SizeAssumption DEF SourceIn, Listed
  <2> HIDE DEF P, B, First
  <2>7. SourceOf(Winner(id))
          = IF P # {} THEN "plugin" ELSE IF B # {} THEN "builtin" ELSE "none"
    <3>1. P # {} => First(P) \in PluginDir
      BY <2>3 DEF P
    <3>2. B # {} => First(B) \in BuiltinDir
      BY <2>4 DEF B
    <3> QED BY <2>1, <3>1, <3>2, DirIs
  <2> QED BY <1>1, <2>5, <2>6, <2>7
<1>3. new \in State /\ IssuesOf(new.issues, Latest(Faulty))
  BY <1>1, CapStep DEF ScanOf, Holds, new
<1>4. {i.dir : i \in Range(new.issues)} = Latest(Faulty)
  <2>1. new.issues \in Seq(Issue) /\ Latest(Faulty) \in SUBSET Dir
    BY <1>1, <1>3 DEF State, Latest
  <2> QED BY <1>3, <2>1, IssueDirs
<1> QED
  BY <1>2, <1>4 DEF Current, Latest, new

LEMMA FingerprintTells ==
    ASSUME NEW s, NEW t, Fingerprint(s) = Fingerprint(t), Current(s)
    PROVE  Current(t)
<1>1. [i \in Id |-> SourceOf(s.scripts[i])] = [i \in Id |-> SourceOf(t.scripts[i])]
      /\ Range(s.issues) = Range(t.issues)
  BY DEF Fingerprint
<1>2. ASSUME NEW id \in Id PROVE SourceOf(s.scripts[id]) = SourceOf(t.scripts[id])
  <2>1. [i \in Id |-> SourceOf(s.scripts[i])][id] = [i \in Id |-> SourceOf(t.scripts[i])][id]
    BY <1>1
  <2> QED BY <2>1
<1> QED
  BY <1>1, <1>2 DEF Current

\* All of this is about the disk.
LEMMA SameDisk ==
    ASSUME UNCHANGED disk
    PROVE  /\ \A s : Current(s)' <=> Current(s)
           /\ \A s, R : ScanOf(s, R)' <=> ScanOf(s, R)
           /\ \A S : Listed(S)' = Listed(S)
BY DEF Current, ScanOf, Holds, SourceIn, IssuesOf, Listed, Faulty, Winner

LEMMA SameScan ==
    ASSUME UNCHANGED disk, NEW p, reload'[p] = reload[p], todo'[p] = todo[p], found'[p] = found[p]
    PROVE  Scanned(p)' <=> Scanned(p)
BY SameDisk DEF Scanned

\* A step that leaves the disk, and the Reload that was started last, as they are.
LEMMA CurrentFrame ==
    ASSUME CurrentInv, Watching', UNCHANGED <<disk, newest, boot>>,
           newest # None =>
             reload'[newest] = reload[newest] /\ todo'[newest] = todo[newest] /\ found'[newest] = found[newest],
           newestLast' => newestLast /\ registry' = registry,
           Unscanned => Unscanned'
    PROVE  CurrentInv'
<1>1. newest # None /\ Scanned(newest) => Scanned(newest)'
  BY SameScan
<1>2. newestLast' /\ Current(registry) => Current(registry)'
  BY SameDisk
<1> QED
  BY <1>1, <1>2 DEF CurrentInv

LEMMA CurrentInitially == Init => CurrentInv
<1> SUFFICES ASSUME Init PROVE CurrentInv
  OBVIOUS
<1>1. /\ disk \in [Dir -> Content] /\ boot = "builtin" /\ watcher = "off"
      /\ registry = Nothing /\ fingerprint = Fingerprint(Nothing)
      /\ newest = None /\ newestLast = FALSE /\ todo = [p \in Reloader |-> {}]
  BY DEF Init
<1> QED
  BY <1>1 DEF CurrentInv, Watching

\* The disk, start-up and the watcher.
LEMMA WatcherKeepsCurrent ==
    ASSUME CurrentInv, CatalogInv,
           \/ \E d \in Dir :
                 \/ SeeCreated(d)
                 \/ \E c \in Content : Change(d, c)
           \/ LoadBuiltin \/ LoadPlugins \/ LoadFails
           \/ StartWatcher \/ SeeTouched \/ Schedule
    PROVE  CurrentInv'
<1> USE DEF diskVars, registryVars, watchVars,
            reloadVars, bannerVars, pageVars,
            historyVars
<1>0. Watching
  BY DEF CurrentInv
<1>1. ASSUME NEW d \in Dir, SeeCreated(d) PROVE CurrentInv'
  <2>1. /\ watcher = "select" /\ watcher' = "schedule" /\ created' = created \ {d}
        /\ watched' = IF disk[d] = Absent THEN watched ELSE watched \cup {d}
        /\ UNCHANGED <<disk, boot, registry, fingerprint, newest, newestLast, todo>>
    BY <1>1 DEF SeeCreated, WatchNew
  <2>2. Watching' /\ Unscanned'
    <3>1. \A e \in Dir : disk'[e] # Absent /\ boot = "running" => e \in watched' \/ e \in created'
      BY <1>0, <2>1 DEF Watching
    <3>2. fingerprint' = Fingerprint(registry)'
      BY <1>0, <2>1 DEF Watching, Fingerprint
    <3> QED BY <1>0, <2>1, <3>1, <3>2 DEF Watching, Unscanned
  <2> QED BY <2>2 DEF CurrentInv
\* What the watcher cannot see lies in a directory whose Create event it has not read.
<1>2. ASSUME NEW d \in Dir, NEW c \in Content, Change(d, c)
      PROVE  CurrentInv'
  <2>1. /\ c # disk[d] /\ disk' = [disk EXCEPT ![d] = c]
        /\ IF watcher = "off" THEN UNCHANGED <<watched, created, touched>>
           ELSE /\ created' = IF disk[d] = Absent THEN created \cup {d} ELSE created
                /\ touched' = (touched \/ (disk[d] # Absent /\ (c = Absent \/ d \in watched)))
                /\ watched' = IF c = Absent THEN watched \ {d} ELSE watched
        /\ UNCHANGED <<boot, registry, fingerprint, watcher, timer, newest, newestLast, todo>>
    BY <1>2 DEF Change
  <2>2. disk' \in [Dir -> Content] /\ disk'[d] = c
        /\ \A e \in Dir : e # d => disk'[e] = disk[e]
    BY <1>0, <2>1 DEF Watching
  <2>3. boot = "running" => Unscanned'
    BY <1>0, <2>1 DEF Watching, Unscanned
  <2>4. Watching'
    <3>1. \A e \in Dir : disk'[e] # Absent /\ boot = "running" => e \in watched' \/ e \in created'
      BY <1>0, <2>1, <2>2 DEF Watching
    <3>2. fingerprint' = Fingerprint(registry)'
      BY <1>0, <2>1 DEF Watching, Fingerprint
    <3> QED BY <1>0, <2>1, <2>2, <3>1, <3>2 DEF Watching
  <2> QED BY <2>1, <2>3, <2>4 DEF CurrentInv
<1>3. ASSUME SeeTouched \/ Schedule PROVE CurrentInv'
  <2>1. /\ watcher \in {"select", "schedule"} /\ watcher' \in {"select", "schedule"} /\ Unscanned'
        /\ UNCHANGED <<disk, boot, registry, fingerprint, watched, created, newest, newestLast, todo>>
    BY <1>3 DEF SeeTouched, Schedule, Unscanned
  <2>2. fingerprint' = Fingerprint(registry)'
    BY <1>0, <2>1 DEF Watching, Fingerprint
  <2>3. Watching'
    BY <1>0, <2>1, <2>2 DEF Watching
  <2> QED BY <2>1, <2>3 DEF CurrentInv
\* No Reload has been started yet.
<1>4. ASSUME \/ LoadBuiltin \/ LoadPlugins \/ LoadFails
             \/ StartWatcher
      PROVE  CurrentInv'
  <2>1. /\ boot # "running" /\ fingerprint' = Fingerprint(registry)'
        /\ UNCHANGED <<disk, newest, newestLast, todo, created>>
        /\ \/ boot' # "running" /\ watcher' = watcher
           \/ /\ boot' = "running" /\ watcher' # "off"
              /\ watched' = Listed(Dir)
    <3>1. CASE LoadBuiltin \/ LoadPlugins
      BY <3>1 DEF LoadBuiltin, LoadPlugins, Boot, Fingerprint
    <3>2. CASE LoadFails \/ StartWatcher
      BY <1>0, <3>2 DEF LoadFails, StartWatcher, Fingerprint, Watching
    <3> QED BY <1>4, <3>1, <3>2
  <2>2. newest = None /\ ~newestLast /\ watcher = "off"
    BY <1>0, <2>1 DEF Watching
  <2>3. Watching'
    BY <1>0, <2>1, <2>2 DEF Watching, Listed
  <2> QED BY <2>1, <2>2, <2>3 DEF CurrentInv
<1> QED
  BY <1>1, <1>2, <1>3, <1>4

\* The timer starts the Reload that counts, with nothing read yet.
LEMMA FireKeepsCurrent ==
    ASSUME CurrentInv, CatalogInv, NEW p \in Reloader, Fire(p)
    PROVE  CurrentInv'
<1>1. /\ timer /\ reload' = [reload EXCEPT ![p] = "builtin"]
      /\ found' = [found EXCEPT ![p] = Nothing]
      /\ newest' = p /\ newestLast' = FALSE
      /\ UNCHANGED <<disk, boot, registry, fingerprint, watched, created, watcher, todo>>
  BY DEF Fire, diskVars, registryVars
<1>2. reload'[p] = "builtin" /\ found'[p] = Nothing /\ boot = "running"
  BY <1>1 DEF CatalogInv, CatalogShapes, Early
<1>3. ScanOf(Nothing, {})
  <2>1. Nothing.scripts = [i \in Id |-> 0] /\ Nothing.issues = <<>>
        /\ Nothing \in State
    BY DEF Nothing, State
  <2>2. \A id \in Id : SourceOf(Nothing.scripts[id]) = SourceIn({}, id)
    BY <2>1 DEF SourceIn, SourceOf
  <2>3. Len(Nothing.issues) = 0 /\ 1..0 = {}
    BY <2>1
  <2> QED BY <2>1, <2>2, <2>3 DEF ScanOf, Holds, IssuesOf
<1>4. ScanOf(Nothing, {})'
  BY <1>1, <1>3, SameDisk DEF Nothing
<1>5. Scanned(p)'
  BY <1>2, <1>4 DEF Scanned, Nothing
<1>6. Watching'
  BY <1>1, <1>2 DEF CurrentInv, Watching, Fingerprint
<1> QED
  BY <1>1, <1>5, <1>6 DEF CurrentInv

\* One directory after the other: the Reload started last goes on reading what is there, as
\* long as no event tells of a change.
LEMMA ReloadKeepsCurrent ==
    ASSUME CurrentInv, CatalogInv, NEW p \in Reloader, Reload(p)
    PROVE  CurrentInv'
<1> USE DEF diskVars, registryVars, watchVars,
            reloadVars, bannerVars, pageVars,
            historyVars
<1> DEFINE Builtin == Listed(BuiltinDir)
           Plugin == Listed(PluginDir)
<1>0. /\ Watching /\ DOMAIN todo = Reloader /\ DOMAIN found = Reloader
      /\ reload \in [Reloader -> {"idle", "builtin", "read builtin", "plugins", "read plugins",
                                  "compare", "publish", "emit", "notify"}]
      /\ boot # "running" => reload[p] = "idle"
  BY DEF CurrentInv, Watching, CatalogInv, CatalogShapes, Early
\* It is enough to look at a Reload that was started last, and not to forget the registry.
<1>1. ASSUME UNCHANGED <<disk, boot, registry, fingerprint, watchVars, newest, newestLast>>,
             DOMAIN todo' = Reloader,
             \A q \in Reloader : q # p => reload'[q] = reload[q] /\ todo'[q] = todo[q] /\ found'[q] = found[q],
             Scanned(p) /\ ~Unscanned /\ boot = "running" => Scanned(p)'
      PROVE  CurrentInv'
  <2>1. UNCHANGED <<watched, created, touched, watcher, timer>>
    BY <1>1
  <2>2. Watching' /\ (Unscanned' <=> Unscanned)
    <3>1. fingerprint' = Fingerprint(registry)'
      BY <1>0, <1>1 DEF Watching, Fingerprint
    <3>2. Unscanned' <=> Unscanned
      BY <2>1 DEF Unscanned
    <3> QED BY <1>0, <1>1, <2>1, <3>1, <3>2 DEF Watching
  <2>3. CASE newest = p
    <3>1. Current(registry) /\ newestLast => Current(registry)'
      BY <1>1, SameDisk
    <3> QED BY <1>1, <2>2, <2>3, <3>1 DEF CurrentInv
  <2>4. CASE newest # p
    <3>1. newest # None => newest \in Reloader
      BY <1>0 DEF Watching
    <3> QED BY <1>1, <2>2, <2>4, <3>1, CurrentFrame
  <2> QED BY <2>3, <2>4
<1>2. ASSUME ListBuiltins(p) \/ ListPlugins(p) PROVE CurrentInv'
  <2>1. /\ UNCHANGED <<disk, boot, registry, fingerprint, watchVars, newest, newestLast, found>>
        /\ DOMAIN todo' = Reloader
        /\ \A q \in Reloader : q # p => reload'[q] = reload[q] /\ todo'[q] = todo[q]
        /\ \/ reload[p] = "builtin" /\ reload'[p] = "read builtin" /\ todo'[p] = Builtin
           \/ reload[p] = "plugins" /\ reload'[p] = "read plugins" /\ todo'[p] = Plugin
    BY <1>0, <1>2 DEF ListBuiltins, ListPlugins, List
  <2>2. Builtin' = Builtin /\ Plugin' = Plugin
    BY <2>1, SameDisk
  <2>3. Scanned(p) => Scanned(p)'
    <3>1. Builtin \ Builtin = {} /\ Plugin \ Plugin = {} /\ {} \cup {} = {} /\ Builtin \cup {} = Builtin
      OBVIOUS
    <3>2. CASE reload[p] = "builtin" /\ reload'[p] = "read builtin" /\ todo'[p] = Builtin
      <4>1. Scanned(p) => ScanOf(found[p], {})'
        BY <2>1, <3>2, SameDisk DEF Scanned
      <4> QED BY <2>1, <2>2, <3>1, <3>2, <4>1 DEF Scanned
    <3>3. CASE reload[p] = "plugins" /\ reload'[p] = "read plugins" /\ todo'[p] = Plugin
      <4>1. Scanned(p) => ScanOf(found[p], Builtin)'
        BY <2>1, <3>3, SameDisk DEF Scanned
      <4> QED BY <2>1, <2>2, <3>1, <3>3, <4>1 DEF Scanned
    <3> QED BY <2>1, <3>2, <3>3
  <2> QED BY <1>1, <2>1, <2>3
\* What is left to read is behind what has been read.
<1>3. ASSUME ReadScript(p) PROVE CurrentInv'
  <2> DEFINE d == CHOOSE x \in todo[p] : \A e \in todo[p] : x <= e
             s == Load(found[p], d, disk[d])
  <2>1. /\ UNCHANGED <<disk, boot, registry, fingerprint, watchVars, newest, newestLast, reload>>
        /\ reload[p] \in {"read builtin", "read plugins"} /\ todo[p] # {}
        /\ DOMAIN todo' = Reloader
        /\ \A q \in Reloader : q # p => todo'[q] = todo[q] /\ found'[q] = found[q]
        /\ todo'[p] = todo[p] \ {d} /\ found'[p] = s
    BY <1>0, <1>3 DEF ReadScript
  <2> HIDE DEF s
  <2>2. disk \in [Dir -> Content]
    BY <1>0 DEF Watching
  <2>3. ASSUME NEW listed \in SUBSET Dir, NEW before \in SUBSET Dir,
               listed \subseteq Listed(Dir),
               \A b \in before : \A e \in listed : b < e,
               \A e \in Dir : \A l \in listed :
                 disk[e] # Absent /\ e < l => e \in before \cup listed,
               todo[p] \subseteq listed,
               \A r \in listed \ todo[p] : \A e \in todo[p] : r < e,
               ScanOf(found[p], before \cup (listed \ todo[p]))
        PROVE  /\ todo'[p] \subseteq listed
               /\ \A r \in listed \ todo'[p] : \A e \in todo'[p] : r < e
               /\ ScanOf(s, before \cup (listed \ todo'[p]))
    <3>1. d \in todo[p] /\ \A e \in todo[p] : d <= e
      BY <2>1, <2>3, FirstOf
    <3>2. \A e \in Dir : e \in Nat
      BY DirIs
    <3>3. d \in listed /\ d \in Dir /\ disk[d] # Absent
      BY <2>3, <3>1 DEF Listed
    <3> HIDE DEF d
    <3>4. \A e \in todo[p] : e # d => d < e
      BY <2>3, <3>1, <3>2, <3>3
    <3>5. listed \ todo'[p] = (listed \ todo[p]) \cup {d}
      BY <2>1, <3>3
    <3> DEFINE R == before \cup (listed \ todo[p])
    <3>6. R \in SUBSET Dir /\ \A e \in R : e < d
      BY <2>3, <3>1, <3>3
    <3>7. \A e \in Dir : disk[e] # Absent /\ e < d => e \in R
      <4> TAKE e \in Dir
      <4> HAVE disk[e] # Absent /\ e < d
      <4>1. e \in before \cup listed
        BY <2>3, <3>3
      <4>2. e \notin todo[p]
        BY <3>1, <3>2, <3>3
      <4> QED BY <4>1, <4>2
    <3>8. ScanOf(s, R \cup {d})
      <4> HIDE DEF R
      <4> QED BY <2>2, <2>3, <3>3, <3>6, <3>7, ScanStep DEF s, R
    <3>9. before \cup (listed \ todo'[p]) = R \cup {d}
      BY <3>5
    <3> QED BY <2>1, <2>3, <3>1, <3>4, <3>5, <3>8, <3>9
  <2>4. /\ Builtin \in SUBSET Dir /\ Plugin \in SUBSET Dir
        /\ Builtin \subseteq Listed(Dir)
        /\ Plugin \subseteq Listed(Dir)
        /\ \A b \in Builtin : \A e \in Plugin : b < e
        /\ \A e \in Dir : \A l \in Builtin : disk[e] # Absent /\ e < l => e \in Builtin
        /\ \A e \in Dir : disk[e] # Absent => e \in Builtin \cup Plugin
    <3>1. \A e \in Dir : \A l \in BuiltinDir : e < l => e \in BuiltinDir
      BY SizeAssumption DEF Dir, BuiltinDir, PluginDir
    <3> QED BY <3>1, DirIs DEF Listed
  <2>5. Builtin' = Builtin /\ Plugin' = Plugin
    BY <2>1, SameDisk
  <2> HIDE DEF d, Builtin, Plugin
  <2>6. CASE reload[p] = "read builtin"
    <3>1. Scanned(p) => /\ todo[p] \subseteq Builtin
                        /\ \A r \in Builtin \ todo[p] : \A e \in todo[p] : r < e
                        /\ ScanOf(found[p], {} \cup (Builtin \ todo[p]))
      BY <2>6 DEF Scanned, Builtin
    <3>2. Scanned(p) => /\ todo'[p] \subseteq Builtin
                        /\ \A r \in Builtin \ todo'[p] : \A e \in todo'[p] : r < e
                        /\ ScanOf(s, {} \cup (Builtin \ todo'[p]))
      BY <2>3, <2>4, <3>1
    <3>3. Scanned(p) => ScanOf(found[p], {} \cup (Builtin \ todo[p]))'
      BY <2>1, <2>5, <3>2, SameDisk
    <3>4. Scanned(p) => Scanned(p)'
      BY <2>1, <2>5, <2>6, <3>2, <3>3 DEF Scanned, Builtin
    <3> QED BY <1>1, <2>1, <3>4
  <2>7. CASE reload[p] = "read plugins"
    <3>1. Scanned(p) => /\ todo[p] \subseteq Plugin
                        /\ \A r \in Plugin \ todo[p] : \A e \in todo[p] : r < e
                        /\ ScanOf(found[p], Builtin \cup (Plugin \ todo[p]))
      BY <2>7 DEF Scanned, Builtin, Plugin
    <3>2. Scanned(p) => /\ todo'[p] \subseteq Plugin
                        /\ \A r \in Plugin \ todo'[p] : \A e \in todo'[p] : r < e
                        /\ ScanOf(s, Builtin \cup (Plugin \ todo'[p]))
      BY <2>3, <2>4, <3>1
    <3>3. Scanned(p) => ScanOf(found[p], Builtin \cup (Plugin \ todo[p]))'
      BY <2>1, <2>5, <3>2, SameDisk
    <3>4. Scanned(p) => Scanned(p)'
      BY <2>1, <2>5, <2>7, <3>2, <3>3 DEF Scanned, Builtin, Plugin
    <3> QED BY <1>1, <2>1, <3>4
  <2> QED BY <2>1, <2>6, <2>7
<1>4. ASSUME ReadDone(p) PROVE CurrentInv'
  <2>1. /\ UNCHANGED <<disk, boot, registry, fingerprint, watchVars, newest, newestLast, found, todo>>
        /\ todo[p] = {}
        /\ \A q \in Reloader : q # p => reload'[q] = reload[q]
        /\ \/ reload[p] = "read builtin" /\ reload'[p] = "plugins"
           \/ reload[p] = "read plugins" /\ reload'[p] = "compare"
    BY <1>0, <1>4 DEF ReadDone
  <2>2. Builtin' = Builtin /\ Plugin' = Plugin
    BY <2>1, SameDisk
  <2>3. Builtin \ {} = Builtin /\ Plugin \ {} = Plugin /\ {} \cup Builtin = Builtin
    OBVIOUS
  <2>4. CASE reload[p] = "read builtin" /\ reload'[p] = "plugins"
    <3>1. Scanned(p) => ScanOf(found[p], Builtin)'
      BY <2>1, <2>3, <2>4, SameDisk DEF Scanned
    <3>2. Scanned(p) => Scanned(p)'
      BY <2>1, <2>2, <2>4, <3>1 DEF Scanned
    <3> QED BY <1>0, <1>1, <2>1, <3>2
  <2>5. CASE reload[p] = "read plugins" /\ reload'[p] = "compare"
    <3>1. Scanned(p) => ScanOf(found[p], Builtin \cup Plugin)'
      BY <2>1, <2>2, <2>3, <2>5, SameDisk DEF Scanned
    <3>2. Scanned(p) => Scanned(p)'
      BY <2>1, <2>2, <2>5, <3>1 DEF Scanned
    <3> QED BY <1>0, <1>1, <2>1, <3>2
  <2> QED BY <2>1, <2>4, <2>5
\* One that gives up or has compared has nothing more to find.
<1>5. ASSUME \/ ReloadFails(p) \/ Publish(p) \/ Emit(p)
             \/ NotifyChanged(p)
      PROVE  CurrentInv'
  <2>1. /\ UNCHANGED <<disk, boot, registry, fingerprint, watchVars, newest, newestLast, found, todo>>
        /\ \A q \in Reloader : q # p => reload'[q] = reload[q]
        /\ reload'[p] \in {"idle", "emit", "notify"}
    BY <1>0, <1>5 DEF ReloadFails, Publish, Emit,
                     NotifyChanged
  <2>2. Scanned(p)'
    BY <2>1 DEF Scanned
  <2> QED BY <1>0, <1>1, <2>1, <2>2
\* What the Reload started last has found is the disk, and the registry has it now, or had it.
<1>6. ASSUME Compare(p) PROVE CurrentInv'
  <2> DEFINE new == [found[p] EXCEPT !.issues = Capped(@)]
  <2>1. /\ UNCHANGED <<disk, boot, watchVars, newest, todo>>
        /\ reload[p] = "compare" /\ newestLast' = (newest = p)
        /\ \A q \in Reloader : q # p => reload'[q] = reload[q] /\ found'[q] = found[q]
        /\ \/ /\ reload'[p] = "idle" /\ registry' = registry /\ fingerprint' = fingerprint
              /\ Fingerprint(new) = fingerprint
           \/ /\ reload'[p] = "publish" /\ registry' = new
              /\ fingerprint' = Fingerprint(new)
    BY <1>0, <1>6 DEF Compare
  <2>2. UNCHANGED <<watched, created, touched, watcher, timer>>
    BY <2>1
  <2> HIDE DEF new
  <2>3. fingerprint' = Fingerprint(registry') /\ Fingerprint(registry') = Fingerprint(new)
    BY <1>0, <2>1 DEF Watching
  <2>4. boot = "running"
    BY <1>0, <2>1
  <2>5. Watching' /\ (Unscanned' <=> Unscanned)
    <3>1. fingerprint' = Fingerprint(registry)'
      BY <2>3 DEF Fingerprint
    <3>2. Unscanned' <=> Unscanned
      BY <2>2 DEF Unscanned
    <3> QED BY <1>0, <2>1, <2>2, <2>4, <3>1, <3>2 DEF Watching
  <2>6. CASE newest = p
    <3>1. Scanned(p)'
      BY <2>1 DEF Scanned
    <3>2. ASSUME ~Unscanned PROVE Current(registry)'
      <4>1. ScanOf(found[p], Builtin \cup Plugin)
        BY <2>1, <2>4, <2>6, <3>2, SizeAssumption DEF CurrentInv, Scanned
      <4>2. Builtin \cup Plugin = Listed(Dir)
        BY DirIs DEF Listed
      <4>3. Current(new)
        BY <1>0, <4>1, <4>2, ScanIsCurrent DEF Watching, new
      <4>4. Current(registry')
        BY <2>3, <4>3, FingerprintTells
      <4> QED BY <2>1, <4>4, SameDisk
    <3> QED BY <2>1, <2>5, <2>6, <3>1, <3>2 DEF CurrentInv
  <2>7. CASE newest # p
    <3>1. newest # None => newest \in Reloader
      BY <1>0 DEF Watching
    <3> QED BY <2>1, <2>5, <2>7, <3>1, CurrentFrame
  <2> QED BY <2>6, <2>7
<1> QED
  BY <1>2, <1>3, <1>4, <1>5, <1>6 DEF Reload

LEMMA CurrentInvariant == Spec => []CurrentInv
<1>1. CatalogInv /\ CurrentInv /\ [Next]_vars => CurrentInv'
  <2> SUFFICES ASSUME CatalogInv, CurrentInv, [Next]_vars PROVE CurrentInv'
    OBVIOUS
  <2> USE DEF diskVars, registryVars, watchVars,
              reloadVars, bannerVars, pageVars,
              historyVars, otherVars
  <2>1. ASSUME UNCHANGED <<disk, boot, registry, fingerprint, watched, created, touched, watcher, timer,
                           reload, todo, found, newest, newestLast>>
        PROVE  CurrentInv'
    <3>1. fingerprint' = Fingerprint(registry)'
      BY <2>1 DEF CurrentInv, Watching, Fingerprint
    <3>2. Watching' /\ (Unscanned' <=> Unscanned)
      BY <2>1, <3>1 DEF CurrentInv, Watching, Unscanned
    <3> QED BY <2>1, <3>2, CurrentFrame
  <2>2. CASE UNCHANGED vars \/ Settled
    BY <2>1, <2>2 DEF vars, Settled
  <2>3. CASE \/ MountPage \/ Listen \/ OnChanged
             \/ \E f \in Fetch : \/ ListScripts(f) \/ SetScripts(f)
                                 \/ ListFails(f)
    BY <2>1, <2>3 DEF MountPage, Listen, OnChanged,
                      ListScripts, SetScripts, ListFails
  <2> QED BY <2>2, <2>3, WatcherKeepsCurrent, FireKeepsCurrent, ReloadKeepsCurrent DEF Next
<1> QED
  BY <1>1, CurrentInitially, CatalogInvariant, PTL DEF Spec

\* When nothing is under way and the Reload started last was the last to compare, the
\* Registry has the scripts of the disk, each from the right source, and the last
\* maxLoadIssues issues: no change is lost between the disk, the watches, the debounce
\* timer and a scan that reads one directory after the other (Watcher.Run and Reload).
THEOREM CatalogFollowsDisk == Spec => []CatalogIsCurrent
<1>1. CatalogInv /\ CurrentInv => CatalogIsCurrent
  <2> SUFFICES ASSUME CatalogInv, CurrentInv, Quiet, newestLast
               PROVE  Current(registry)
    BY DEF CatalogIsCurrent, Current
  <2> QED BY DEF CurrentInv, Unscanned, Quiet
<1> QED
  BY <1>1, CatalogInvariant, CurrentInvariant, PTL

-----------------------------------------------------------------------------
(* Reading a folder at start-up *)

\* What buildFromDir makes of directory d.
ReadDir(s, d, dirs) ==
    IF d \in Listed(dirs) THEN Load(s, d, disk[d]) ELSE s

\* f is what buildFromDir has found after each of the first n directories.
Reads(f, n, dirs) ==
    f = [d \in 0..n |-> IF d = 0 THEN registry ELSE ReadDir(f[d - 1], d, dirs)]

\* The recursion of LoadAll has a solution: a least number of directories without one
\* would come behind a number with one.
LEMMA ReadsExists ==
    ASSUME NEW dirs, NEW n \in Nat
    PROVE  \E f : Reads(f, n, dirs)
<1> DEFINE Missing == {m \in Nat : ~\E f : Reads(f, m, dirs)}
<1> SUFFICES ASSUME Missing # {} PROVE FALSE
  OBVIOUS
<1>1. PICK m \in Missing : \A k \in Missing : m <= k
  <2>1. Missing \subseteq Nat
    OBVIOUS
  <2> HIDE DEF Missing
  <2> QED BY <2>1, LeastNumber
<1>2. m # 0
  <2> DEFINE f == [d \in 0..0 |-> registry]
  <2>1. f[0] = registry /\ \A d \in 0..0 : d = 0
    OBVIOUS
  <2>2. Reads(f, 0, dirs)
    BY <2>1 DEF Reads
  <2> QED BY <2>2
<1>3. m - 1 \in Nat /\ m - 1 \notin Missing
  BY <1>1, <1>2
<1>4. PICK f : Reads(f, m - 1, dirs)
  BY <1>3
<1> DEFINE g == [d \in 0..m |-> IF d = m THEN ReadDir(f[m - 1], m, dirs) ELSE f[d]]
<1>5. \A d \in 0..m : g[d] = IF d = 0 THEN registry ELSE ReadDir(g[d - 1], d, dirs)
  <2> TAKE d \in 0..m
  <2>1. CASE d = m
    <3>1. m - 1 \in 0..m /\ m - 1 # m
      BY <1>2, <1>3
    <3>2. g[m - 1] = f[m - 1]
      BY <3>1
    <3>3. g[d] = ReadDir(f[m - 1], m, dirs)
      BY <2>1
    <3> QED BY <1>2, <2>1, <3>2, <3>3
  <2>2. CASE d # m
    <3>1. d \in 0..(m - 1) /\ g[d] = f[d]
      BY <1>3, <2>2
    <3>2. f[d] = IF d = 0 THEN registry ELSE ReadDir(f[d - 1], d, dirs)
      BY <1>4, <3>1 DEF Reads
    <3>3. d # 0 => d - 1 \in 0..m /\ d - 1 # m
      BY <1>3, <2>2
    <3>4. d # 0 => g[d - 1] = f[d - 1]
      BY <3>3
    <3> QED BY <3>1, <3>2, <3>4
  <2> QED BY <2>1, <2>2
<1>6. Reads(g, m, dirs)
  <2>1. g = [d \in 0..m |-> g[d]]
    OBVIOUS
  <2> HIDE DEF g
  <2>2. g = [d \in 0..m |-> IF d = 0 THEN registry ELSE ReadDir(g[d - 1], d, dirs)]
    BY <1>5, <2>1
  <2> QED BY <2>2 DEF Reads
<1> QED
  BY <1>1, <1>6

\* What is true of the registry, and goes on being true as one directory after the other is
\* read, is true in the end: Good[d] is what may have been found after directory d.
LEMMA LoadAllGives ==
    ASSUME NEW dirs, NEW Good,
           registry \in Good[0],
           \A d \in 1..(Builtins + Plugins) : \A s \in Good[d - 1] : ReadDir(s, d, dirs) \in Good[d]
    PROVE  \E s \in Good[Builtins + Plugins] : LoadAll(dirs) = [s EXCEPT !.issues = Capped(@)]
<1> DEFINE last == Builtins + Plugins
           f == CHOOSE upTo : Reads(upTo, last, dirs)
<1>1. last \in Nat
  BY SizeAssumption
<1>2. Reads(f, last, dirs)
  BY <1>1, ReadsExists
<1>3. LoadAll(dirs) = [f[last] EXCEPT !.issues = Capped(@)]
  BY Zenon DEF LoadAll, Reads, ReadDir
<1> HIDE DEF f, last
<1>4. \A d \in 0..last : f[d] = IF d = 0 THEN registry ELSE ReadDir(f[d - 1], d, dirs)
  BY <1>2 DEF Reads
<1> DEFINE Wrong == {d \in 0..last : f[d] \notin Good[d]}
<1>5. ASSUME Wrong # {} PROVE FALSE
  <2>1. PICK d \in Wrong : \A e \in Wrong : d <= e
    <3>1. Wrong \subseteq Nat
      BY <1>1
    <3> HIDE DEF Wrong
    <3> QED BY <1>5, <3>1, LeastNumber
  <2>2. d # 0
    BY <1>1, <1>4
  <2>3. d \in 1..last /\ d - 1 \in 0..last /\ d - 1 \notin Wrong
    BY <1>1, <2>1, <2>2
  <2>4. f[d - 1] \in Good[d - 1]
    BY <2>3
  <2>5. f[d] = ReadDir(f[d - 1], d, dirs)
    BY <1>4, <2>2
  <2> QED BY <2>3, <2>4, <2>5 DEF last
<1>6. f[last] \in Good[last]
  BY <1>1, <1>5
<1> QED
  BY <1>3, <1>6 DEF last

-----------------------------------------------------------------------------
(* The types *)

DiskTypes ==
    /\ changes \in 0..MaxChanges
    /\ watched \subseteq Dir /\ created \subseteq Dir
    /\ touched \in BOOLEAN /\ timer \in BOOLEAN
    /\ watcher \in {"off", "select", "schedule"}

RegistryTypes ==
    /\ registry \in State /\ Len(registry.issues) <= MaxIssues
    /\ todo \in [Reloader -> SUBSET Dir] /\ found \in [Reloader -> State]
    /\ banners \subseteq Issue /\ uiBanners \subseteq Issue
    /\ newestLast \in BOOLEAN

PageTypes ==
    /\ fetch \in [Fetch -> [at : {"free", "asked", "answered"}, scripts : [Id -> Dir \cup {0}]]]
    /\ scripts \in {Failed} \cup [Id -> Dir \cup {0}]

LEMMA NothingIsState == Nothing \in State /\ Nothing.scripts \in [Id -> Dir \cup {0}]
BY DEF Nothing, State

LEMMA LoadIs ==
    ASSUME NEW s \in State, NEW d \in Dir, NEW c \in Content
    PROVE  Load(s, d, c) \in State
<1>1. /\ s = [scripts |-> s.scripts, issues |-> s.issues]
      /\ s.scripts \in [Id -> Dir \cup {0}] /\ s.issues \in Seq(Issue)
  BY DEF State
<1>2. \A f \in Dir \cup {0} : [s EXCEPT !.issues = Append(@, [dir |-> d, first |-> f])] \in State
  <2> TAKE f \in Dir \cup {0}
  <2> DEFINE more == Append(s.issues, [dir |-> d, first |-> f])
  <2>1. [s EXCEPT !.issues = Append(@, [dir |-> d, first |-> f])]
          = [scripts |-> s.scripts, issues |-> more]
    <3>1. [s EXCEPT !.issues = Append(@, [dir |-> d, first |-> f])] = [s EXCEPT !.issues = more]
      OBVIOUS
    <3> HIDE DEF more
    <3> QED BY <1>1, <3>1
  <2>2. [dir |-> d, first |-> f] \in Issue
    BY DEF Issue
  <2> QED BY <1>1, <2>1, <2>2, AppendProperties DEF State
<1>3. CASE c \in {Bad, Absent}
  BY <1>2, <1>3 DEF Load
<1>4. CASE c \in Id /\ c \notin {Bad, Absent}
  <2>1. s.scripts[c] \in Dir \cup {0}
    BY <1>1, <1>4
  <2>2. [s EXCEPT !.scripts[c] = d] = [scripts |-> [s.scripts EXCEPT ![c] = d], issues |-> s.issues]
    BY <1>1
  <2>3. [s EXCEPT !.scripts[c] = d] \in State
    BY <1>1, <2>2 DEF State
  <2> QED BY <1>2, <1>4, <2>1, <2>3 DEF Load
<1> QED
  BY <1>3, <1>4 DEF Content

LEMMA BannersAreIssues == ASSUME NEW s \in State PROVE Banners(s) \subseteq Issue
<1>1. s.issues \in Seq(Issue)
  BY DEF State
<1> QED
  BY <1>1, ElementOfSeq, LenProperties DEF Banners, Range

\* What a folder holds at start-up.
LEMMA LoadAllIs ==
    ASSUME disk \in [Dir -> Content], registry \in State, NEW dirs \in SUBSET Dir
    PROVE  LoadAll(dirs) \in State /\ Len(LoadAll(dirs).issues) <= MaxIssues
<1> DEFINE last == Builtins + Plugins
           Good == [d \in 0..last |-> State]
<1>1. last \in Nat
  BY SizeAssumption
<1>2. Good[0] = State /\ Good[last] = State
  BY <1>1
<1>3. ASSUME NEW d \in 1..last, NEW s \in Good[d - 1] PROVE ReadDir(s, d, dirs) \in Good[d]
  <2>1. Good[d - 1] = State /\ Good[d] = State
    BY <1>1
  <2>2. d \in Listed(dirs) => d \in Dir /\ disk[d] \in Content
    BY DEF Listed
  <2> QED BY <2>1, <2>2, LoadIs DEF ReadDir
<1> HIDE DEF Good
<1>4. PICK s \in State : LoadAll(dirs) = [s EXCEPT !.issues = Capped(@)]
  BY <1>2, <1>3, LoadAllGives
<1> QED
  BY <1>4, CappedIs

LEMMA TypesInitially == Init => DiskTypes /\ RegistryTypes /\ PageTypes
<1> SUFFICES ASSUME Init PROVE DiskTypes /\ RegistryTypes /\ PageTypes
  OBVIOUS
<1>1. DiskTypes
  <2>1. /\ changes = 0 /\ watched = {} /\ created = {} /\ touched = FALSE /\ timer = FALSE
        /\ watcher = "off"
    BY DEF Init
  <2>2. 0 \in 0..MaxChanges
    BY SizeAssumption
  <2> QED BY <2>1, <2>2 DEF DiskTypes
<1>2. RegistryTypes
  <2>1. /\ registry = Nothing /\ todo = [p \in Reloader |-> {}] /\ found = [p \in Reloader |-> Nothing]
        /\ banners = {} /\ uiBanners = {} /\ newestLast = FALSE
    BY DEF Init
  <2>2. Len(Nothing.issues) <= MaxIssues
    BY SizeAssumption DEF Nothing
  <2> QED BY <2>1, <2>2, NothingIsState DEF RegistryTypes
<1>3. PageTypes
  <2>1. fetch = [f \in Fetch |-> Free] /\ scripts = Nothing.scripts
    BY DEF Init
  <2> QED BY <2>1, NothingIsState DEF PageTypes, Free
<1> QED
  BY <1>1, <1>2, <1>3

LEMMA DiskTypesStep == CatalogInv /\ DiskTypes /\ [Next]_vars => DiskTypes'
<1> SUFFICES ASSUME CatalogInv, DiskTypes, [Next]_vars PROVE DiskTypes'
  OBVIOUS
<1> USE DEF diskVars, watchVars
<1>1. CASE UNCHANGED <<changes, watchVars>>
  BY <1>1 DEF DiskTypes
<1>2. ASSUME NEW d \in Dir, SeeCreated(d) PROVE DiskTypes'
  BY <1>2 DEF SeeCreated, WatchNew, DiskTypes
<1>3. ASSUME NEW d \in Dir, NEW c \in Content, Change(d, c) PROVE DiskTypes'
  <2>1. changes' \in 0..MaxChanges
    BY <1>3, SizeAssumption DEF Change, DiskTypes
  <2>2. /\ watched' \subseteq watched /\ created' \subseteq created \cup {d}
        /\ touched' \in BOOLEAN /\ UNCHANGED <<watcher, timer>>
    BY <1>3 DEF Change, DiskTypes
  <2> QED BY <2>1, <2>2 DEF DiskTypes
<1>4. CASE SeeTouched \/ Schedule
  BY <1>4 DEF SeeTouched, Schedule, DiskTypes
<1>5. CASE StartWatcher
  BY <1>5, DirIs DEF StartWatcher, DiskTypes, Listed
<1>6. ASSUME NEW p \in Reloader, Fire(p) PROVE DiskTypes'
  BY <1>6 DEF Fire, DiskTypes
<1>7. ASSUME NEW p \in Reloader, Reload(p) PROVE DiskTypes'
  BY <1>1, <1>7 DEF Reload, ListBuiltins, ListPlugins, List, ReadScript, ReadDone, ReloadFails, Compare,
                    Publish, Emit, NotifyChanged
<1>8. CASE LoadBuiltin \/ LoadPlugins \/ LoadFails \/ MountPage
  BY <1>1, <1>8 DEF LoadBuiltin, LoadPlugins, Boot, LoadFails, MountPage
<1>9. CASE \/ Listen \/ OnChanged
           \/ \E f \in Fetch : ListScripts(f) \/ SetScripts(f) \/ ListFails(f)
  BY <1>1, <1>9 DEF Listen, OnChanged, ListScripts, SetScripts, ListFails, otherVars
<1>10. CASE UNCHANGED vars \/ Settled
  BY <1>1, <1>10 DEF vars, Settled
<1> QED
  BY <1>2, <1>3, <1>4, <1>5, <1>6, <1>7, <1>8, <1>9, <1>10 DEF Next

LEMMA RegistryTypesStep ==
    CatalogInv /\ CurrentInv /\ RegistryTypes /\ [Next]_vars => RegistryTypes'
<1> SUFFICES ASSUME CatalogInv, CurrentInv, RegistryTypes, [Next]_vars PROVE RegistryTypes'
  OBVIOUS
<1> USE DEF registryVars, reloadVars, bannerVars, historyVars
<1>0. /\ disk \in [Dir -> Content]
      /\ \A S \in SUBSET Dir : Listed(S) \in SUBSET Dir
      /\ \A p \in Reloader : found[p] \in State /\ Banners(found[p]) \subseteq Issue
  BY BannersAreIssues DEF CurrentInv, Watching, Listed, RegistryTypes
<1>1. CASE UNCHANGED <<registryVars, reloadVars, bannerVars, newestLast>>
  BY <1>1 DEF RegistryTypes
<1>2. CASE LoadBuiltin \/ LoadPlugins
  <2>1. PICK dirs \in {BuiltinDir, PluginDir} :
          /\ registry' = LoadAll(dirs) /\ banners' = Banners(registry')
          /\ UNCHANGED <<todo, found, uiBanners, newestLast>>
    BY <1>2 DEF LoadBuiltin, LoadPlugins, Boot
  <2>2. registry' \in State /\ Len(registry'.issues) <= MaxIssues
    BY <1>0, <2>1, LoadAllIs, DirIs DEF RegistryTypes
  <2>3. banners' \subseteq Issue
    BY <2>1, <2>2, BannersAreIssues
  <2> QED BY <2>1, <2>2, <2>3 DEF RegistryTypes
<1>3. ASSUME NEW p \in Reloader, Fire(p) PROVE RegistryTypes'
  BY <1>3, NothingIsState DEF Fire, RegistryTypes
<1>4. ASSUME NEW p \in Reloader, ListBuiltins(p) \/ ListPlugins(p) PROVE RegistryTypes'
  <2>1. PICK dirs \in {BuiltinDir, PluginDir} :
          /\ todo' = [todo EXCEPT ![p] = Listed(dirs)]
          /\ UNCHANGED <<registryVars, found, bannerVars, newestLast>>
    BY <1>4 DEF ListBuiltins, ListPlugins, List
  <2>2. Listed(dirs) \in SUBSET Dir
    BY <1>0, DirIs
  <2> QED BY <2>1, <2>2 DEF RegistryTypes
<1>5. ASSUME NEW p \in Reloader, ReadScript(p) PROVE RegistryTypes'
  <2> DEFINE d == CHOOSE x \in todo[p] : \A e \in todo[p] : x <= e
  <2>1. /\ todo[p] # {} /\ todo[p] \in SUBSET Dir
        /\ found' = [found EXCEPT ![p] = Load(@, d, disk[d])]
        /\ todo' = [todo EXCEPT ![p] = @ \ {d}]
        /\ UNCHANGED <<registryVars, bannerVars, newestLast>>
    BY <1>5 DEF ReadScript, RegistryTypes
  <2>2. d \in Dir
    BY <2>1, FirstOf
  <2> HIDE DEF d
  <2>3. Load(found[p], d, disk[d]) \in State
    BY <1>0, <2>2, LoadIs
  <2>4. found' \in [Reloader -> State] /\ todo' \in [Reloader -> SUBSET Dir]
    BY <2>1, <2>3 DEF RegistryTypes
  <2> QED BY <2>1, <2>4 DEF RegistryTypes
<1>6. ASSUME NEW p \in Reloader, Compare(p) PROVE RegistryTypes'
  <2> DEFINE new == [found[p] EXCEPT !.issues = Capped(@)]
  <2>1. /\ found' = [found EXCEPT ![p] = new] /\ (registry' = registry \/ registry' = new)
        /\ newestLast' \in BOOLEAN /\ UNCHANGED <<todo, banners, uiBanners>>
    BY <1>6 DEF Compare
  <2>2. new \in State /\ Len(new.issues) <= MaxIssues
    BY <1>0, CappedIs
  <2> HIDE DEF new
  <2> QED BY <2>1, <2>2 DEF RegistryTypes
<1>7. ASSUME NEW p \in Reloader, Publish(p) \/ Emit(p) PROVE RegistryTypes'
  BY <1>0, <1>7 DEF Publish, Emit, Replaced, RegistryTypes
<1>8. ASSUME NEW p \in Reloader, ReadDone(p) \/ ReloadFails(p) \/ NotifyChanged(p)
      PROVE  RegistryTypes'
  BY <1>8 DEF ReadDone, ReloadFails, NotifyChanged, RegistryTypes
<1>9. CASE \/ \E d \in Dir : SeeCreated(d) \/ \E c \in Content : Change(d, c)
           \/ LoadFails \/ StartWatcher \/ SeeTouched \/ Schedule
  BY <1>1, <1>9 DEF SeeCreated, Change, LoadFails, StartWatcher, SeeTouched, Schedule
<1>10. CASE MountPage
  BY <1>10 DEF MountPage, RegistryTypes
<1>11. CASE \/ Listen \/ OnChanged
            \/ \E f \in Fetch : ListScripts(f) \/ SetScripts(f) \/ ListFails(f)
  BY <1>1, <1>11 DEF Listen, OnChanged, ListScripts, SetScripts, ListFails, otherVars
<1>12. CASE UNCHANGED vars \/ Settled
  BY <1>1, <1>12 DEF vars, Settled
<1> QED
  BY <1>2, <1>3, <1>4, <1>5, <1>6, <1>7, <1>8, <1>9, <1>10, <1>11, <1>12 DEF Next, Reload

LEMMA PageTypesStep == RegistryTypes /\ PageTypes /\ [Next]_vars => PageTypes'
<1> SUFFICES ASSUME RegistryTypes, PageTypes, [Next]_vars PROVE PageTypes'
  OBVIOUS
<1> USE DEF pageVars
<1> DEFINE Catalog == [Id -> Dir \cup {0}]
           Fetched == [at : {"free", "asked", "answered"}, scripts : Catalog]
<1>0. registry.scripts \in Catalog
  BY DEF RegistryTypes, State
<1>1. Free \in Fetched /\ Asked \in Fetched /\ \A s \in Catalog : Answered(s) \in Fetched
  BY NothingIsState DEF Free, Asked, Answered
<1>2. \A f \in Fetch : fetch[f].scripts \in Catalog
  BY DEF PageTypes
<1>3. CASE UNCHANGED <<fetch, scripts>>
  BY <1>3 DEF PageTypes
<1>4. ASSUME Ask, UNCHANGED scripts PROVE PageTypes'
  BY <1>1, <1>4 DEF Ask, PageTypes
<1>5. CASE MountPage
  BY <1>4, <1>5 DEF MountPage
<1>6. CASE OnChanged
  BY <1>3, <1>4, <1>6 DEF OnChanged, Refetch
<1>7. ASSUME NEW f \in Fetch, ListScripts(f) \/ SetScripts(f) \/ ListFails(f) PROVE PageTypes'
  BY <1>0, <1>1, <1>2, <1>7 DEF ListScripts, SetScripts, ListFails, PageTypes
<1>8. CASE \/ \E d \in Dir : SeeCreated(d) \/ \E c \in Content : Change(d, c)
           \/ LoadBuiltin \/ LoadPlugins \/ LoadFails \/ StartWatcher \/ SeeTouched \/ Schedule \/ Listen
  BY <1>3, <1>8 DEF SeeCreated, Change, LoadBuiltin, LoadPlugins, Boot, LoadFails, StartWatcher,
                    SeeTouched, Schedule, Listen
<1>9. ASSUME NEW p \in Reloader, Fire(p) \/ Reload(p) PROVE PageTypes'
  BY <1>3, <1>9 DEF Fire, Reload, ListBuiltins, ListPlugins, List, ReadScript, ReadDone, ReloadFails,
                    Compare, Publish, Emit, NotifyChanged
<1>10. CASE UNCHANGED vars \/ Settled
  BY <1>3, <1>10 DEF vars, Settled
<1> QED
  BY <1>5, <1>6, <1>7, <1>8, <1>9, <1>10 DEF Next

\* The changes on disk that the page has not been told of, wherever they have got to: an
\* event, the debounce timer, a Reload, a scripts:changed.
Seen == IF touched THEN 1 ELSE 0
Scheduling == IF watcher = "schedule" THEN 1 ELSE 0
Armed == IF timer THEN 1 ELSE 0
Active == {p \in Reloader : Running(p)}

PendingInv ==
    /\ IsFiniteSet(Active)
    /\ Cardinality(created) + Seen + Scheduling + Armed + Cardinality(Active) + changed <= changes

LEMMA DirsAreFinite ==
    ASSUME NEW S \in SUBSET Dir
    PROVE  IsFiniteSet(S) /\ Cardinality(S) \in Nat
<1>1. Dir = 1..(Builtins + Plugins)
  BY SizeAssumption DEF Dir, BuiltinDir, PluginDir
<1>2. IsFiniteSet(Dir)
  <2>1. Builtins + Plugins \in Int /\ 1 \in Int
    BY SizeAssumption
  <2> QED BY <1>1, <2>1, FS_Interval
<1> QED
  BY <1>2, FS_Subset, FS_CardinalityType

LEMMA PendingInitially == Init => PendingInv
<1> SUFFICES ASSUME Init PROVE PendingInv
  OBVIOUS
<1>1. /\ created = {} /\ touched = FALSE /\ watcher = "off" /\ timer = FALSE
      /\ changed = 0 /\ changes = 0 /\ \A p \in Reloader : reload[p] = "idle"
  BY DEF Init
<1>2. Active = {}
  BY <1>1 DEF Active, Running
<1> QED
  BY <1>1, <1>2, FS_EmptySet DEF PendingInv, Seen, Scheduling, Armed

LEMMA PendingStep == CatalogInv /\ DiskTypes /\ PendingInv /\ [Next]_vars => PendingInv'
<1> SUFFICES ASSUME CatalogInv, DiskTypes, PendingInv, [Next]_vars PROVE PendingInv'
  OBVIOUS
<1> USE DEF diskVars, watchVars, pageVars, reloadVars
<1>0. /\ changed \in Nat /\ changes \in Nat
      /\ Cardinality(created) \in Nat /\ Cardinality(Active) \in Nat
      /\ Seen \in 0..1 /\ Scheduling \in 0..1 /\ Armed \in 0..1
  <2>1. changes \in 0..MaxChanges /\ created \in SUBSET Dir
    BY DEF DiskTypes
  <2>2. changes \in Nat
    BY <2>1, SizeAssumption
  <2>3. changed \in Nat
    BY DEF CatalogInv, CatalogShapes
  <2>4. Cardinality(created) \in Nat /\ Cardinality(Active) \in Nat
    BY <2>1, DirsAreFinite, FS_CardinalityType DEF PendingInv
  <2>5. Seen \in 0..1 /\ Scheduling \in 0..1 /\ Armed \in 0..1
    BY DEF Seen, Scheduling, Armed
  <2> QED BY <2>2, <2>3, <2>4, <2>5
<1>12. /\ created \in SUBSET Dir /\ IsFiniteSet(created) /\ IsFiniteSet(Active)
      /\ touched \in BOOLEAN /\ timer \in BOOLEAN
      /\ reload \in [Reloader -> {"idle", "builtin", "read builtin", "plugins", "read plugins",
                                  "compare", "publish", "emit", "notify"}]
  BY DirsAreFinite DEF CatalogInv, CatalogShapes, DiskTypes, PendingInv
<1>1. CASE UNCHANGED <<created, touched, watcher, timer, reload, changed, changes>>
  BY <1>1 DEF PendingInv, Active, Running, Seen, Scheduling, Armed
\* A change is seen as one event, at most.
<1>2. ASSUME NEW d \in Dir, NEW c \in Content, Change(d, c) PROVE PendingInv'
  <2>1. changes' = changes + 1 /\ Active' = Active /\ Scheduling' = Scheduling /\ Armed' = Armed /\ changed' = changed
    BY <1>2 DEF Change, Seen, Scheduling, Armed, Active, Running
  <2>2. \/ created' = created /\ Seen' \in {0, 1}
        \/ created' = created \cup {d} /\ Seen' = Seen
    BY <1>2 DEF Change, DiskTypes, Seen
  <2>3. IsFiniteSet(created) /\ Cardinality(created \cup {d}) <= Cardinality(created) + 1
        /\ Cardinality(created \cup {d}) \in Nat
    <3>1. IsFiniteSet(created)
      BY <1>12
    <3>2. Cardinality(created \cup {d}) = IF d \in created THEN Cardinality(created) ELSE Cardinality(created) + 1
      BY <3>1, FS_AddElement
    <3> QED BY <1>0, <3>1, <3>2
  <2> QED BY <1>0, <2>1, <2>2, <2>3 DEF PendingInv
\* The watcher goes on with an event it takes.
<1>3. ASSUME NEW d \in Dir, SeeCreated(d) PROVE PendingInv'
  <2>1. /\ d \in created /\ created' = created \ {d} /\ Scheduling = 0 /\ Scheduling' = 1
        /\ Active' = Active /\ Seen' = Seen /\ Armed' = Armed /\ changed' = changed /\ changes' = changes
    BY <1>3 DEF SeeCreated, Seen, Scheduling, Armed, Active, Running
  <2>2. Cardinality(created') = Cardinality(created) - 1
    BY <1>12, <2>1, FS_RemoveElement
  <2> QED BY <1>0, <2>1, <2>2 DEF PendingInv
<1>4. CASE SeeTouched
  <2>1. /\ Seen = 1 /\ Seen' = 0 /\ Scheduling = 0 /\ Scheduling' = 1
        /\ Active' = Active /\ created' = created /\ Armed' = Armed /\ changed' = changed /\ changes' = changes
    BY <1>4 DEF SeeTouched, Seen, Scheduling, Armed, Active, Running, DiskTypes
  <2> QED BY <1>0, <2>1 DEF PendingInv
<1>5. CASE Schedule
  <2>1. /\ Scheduling = 1 /\ Scheduling' = 0 /\ Armed' = 1
        /\ Active' = Active /\ created' = created /\ Seen' = Seen /\ changed' = changed /\ changes' = changes
    BY <1>5 DEF Schedule, Seen, Scheduling, Armed, Active, Running
  <2> QED BY <1>0, <2>1 DEF PendingInv
\* The timer goes on as a Reload.
<1>6. ASSUME NEW p \in Reloader, Fire(p) PROVE PendingInv'
  <2>1. /\ Armed = 1 /\ Armed' = 0 /\ reload[p] = "idle"
        /\ reload' = [reload EXCEPT ![p] = "builtin"]
        /\ created' = created /\ Seen' = Seen /\ Scheduling' = Scheduling /\ changed' = changed /\ changes' = changes
    BY <1>6 DEF Fire, Seen, Scheduling, Armed, Running, DiskTypes
  <2>2. Active' = Active \cup {p} /\ p \notin Active
    BY <1>12, <2>1 DEF Active, Running
  <2>3. IsFiniteSet(Active') /\ Cardinality(Active') = Cardinality(Active) + 1
    BY <1>12, <2>2, FS_AddElement
  <2> QED BY <1>0, <2>1, <2>3 DEF PendingInv
\* A Reload tells the page once, when it ends, or not at all.
<1>7. ASSUME NEW p \in Reloader, Reload(p) PROVE PendingInv'
  <2>1. /\ reload[p] # "idle" /\ reload' = [reload EXCEPT ![p] = reload'[p]]
        /\ created' = created /\ Seen' = Seen /\ Scheduling' = Scheduling
        /\ Armed' = Armed /\ changes' = changes
        /\ changed' = changed \/ (changed' = changed + 1 /\ reload'[p] = "idle")
    <3>1. CASE ListBuiltins(p) \/ ListPlugins(p) \/ Publish(p) \/ Emit(p)
      <4>1. UNCHANGED <<created, touched, watcher, timer, changes, changed>>
        BY <3>1 DEF ListBuiltins, ListPlugins, List, Publish, Emit
      <4>2. reload[p] # "idle" /\ \E pc : reload' = [reload EXCEPT ![p] = pc]
        BY <3>1 DEF ListBuiltins, ListPlugins, List, Publish, Emit
      <4> QED BY <1>12, <4>1, <4>2 DEF Seen, Scheduling, Armed
    <3>2. CASE ReadScript(p)
      <4>1. UNCHANGED <<reload, created, Seen, Scheduling, Armed, changes, changed>> /\ reload[p] # "idle"
        BY <3>2 DEF ReadScript, Seen, Scheduling, Armed
      <4> QED BY <1>12, <4>1
    <3>3. CASE ReadDone(p) \/ ReloadFails(p) \/ NotifyChanged(p)
      <4>1. UNCHANGED <<created, touched, watcher, timer, changes>>
        BY <3>3 DEF ReadDone, ReloadFails, NotifyChanged
      <4>2. /\ reload[p] # "idle" /\ \E pc : reload' = [reload EXCEPT ![p] = pc]
            /\ changed' = changed \/ (changed' = changed + 1 /\ reload' = [reload EXCEPT ![p] = "idle"])
        BY <3>3 DEF ReadDone, ReloadFails, NotifyChanged
      <4> QED BY <1>12, <4>1, <4>2 DEF Seen, Scheduling, Armed
    <3>4. CASE Compare(p)
      <4>1. /\ reload[p] = "compare" /\ created' = created /\ Seen' = Seen
            /\ Scheduling' = Scheduling /\ Armed' = Armed
            /\ changes' = changes /\ changed' = changed
            /\ \/ reload' = [reload EXCEPT ![p] = "idle"]
               \/ reload' = [reload EXCEPT ![p] = "publish"]
        BY <3>4 DEF Compare, Seen, Scheduling, Armed
      <4> QED BY <1>12, <4>1
    <3> QED BY <1>7, <3>1, <3>2, <3>3, <3>4 DEF Reload
  <2>2. p \in Active /\ Active' \subseteq Active /\ (reload'[p] = "idle" => Active' = Active \ {p})
    BY <1>12, <2>1 DEF Active, Running
  <2>3. /\ IsFiniteSet(Active') /\ Cardinality(Active') \in Nat
        /\ Cardinality(Active') <= Cardinality(Active)
        /\ reload'[p] = "idle" => Cardinality(Active') = Cardinality(Active) - 1
    BY <1>12, <2>2, FS_Subset, FS_RemoveElement, FS_CardinalityType
  <2> QED BY <1>0, <2>1, <2>3 DEF PendingInv
<1>8. CASE OnChanged
  <2>1. changed' = changed - 1 /\ Active' = Active /\ created' = created /\ Seen' = Seen /\ Scheduling' = Scheduling /\ Armed' = Armed /\ changes' = changes
    BY <1>8 DEF OnChanged, otherVars, Seen, Scheduling, Armed, Active, Running
  <2> QED BY <1>0, <2>1 DEF PendingInv
<1>9. CASE StartWatcher
  <2>1. Scheduling' = 0 /\ Active' = Active /\ created' = created /\ Seen' = Seen /\ Armed' = Armed /\ changed' = changed /\ changes' = changes
    BY <1>9 DEF StartWatcher, Seen, Scheduling, Armed, Active, Running
  <2> QED BY <1>0, <2>1 DEF PendingInv
<1>10. CASE \/ LoadBuiltin \/ LoadPlugins \/ LoadFails \/ MountPage \/ Listen
            \/ \E f \in Fetch : ListScripts(f) \/ SetScripts(f) \/ ListFails(f)
  BY <1>1, <1>10 DEF LoadBuiltin, LoadPlugins, Boot, LoadFails, MountPage, Listen, ListScripts,
                     SetScripts, ListFails, otherVars
<1>11. CASE UNCHANGED vars \/ Settled
  BY <1>1, <1>11 DEF vars, Settled
<1> QED
  BY <1>2, <1>3, <1>4, <1>5, <1>6, <1>7, <1>8, <1>9, <1>10, <1>11 DEF Next

LEMMA TypesInvariant ==
    Spec => [](DiskTypes /\ RegistryTypes /\ PageTypes /\ PendingInv)
BY CatalogInvariant, CurrentInvariant, TypesInitially, PendingInitially,
   DiskTypesStep, RegistryTypesStep, PageTypesStep, PendingStep, PTL DEF Spec

\* The types of the catalog, its two bounds among them: no more than maxLoadIssues issues are
\* kept, however many directories are faulty (appendIssuesCapped, Reload), and the page is
\* not told of more changes than there were (NotifyChanged).
THEOREM TypeCorrect == Spec => []TypeOK
<1>1. CatalogInv /\ CurrentInv /\ DiskTypes /\ RegistryTypes /\ PageTypes /\ PendingInv => TypeOK
  <2> SUFFICES ASSUME CatalogInv, CurrentInv, DiskTypes, RegistryTypes, PageTypes, PendingInv
               PROVE  TypeOK
    OBVIOUS
  <2>1. CatalogShapes /\ Early /\ Watching
    BY DEF CatalogInv, CurrentInv
  <2>2. changed \in 0..changes
    <3>1. changed \in Nat /\ changes \in Nat /\ created \in SUBSET Dir /\ IsFiniteSet(Active)
      <4>1. changes \in 0..MaxChanges /\ created \in SUBSET Dir
        BY DEF DiskTypes
      <4>2. changes \in Nat
        BY <4>1, SizeAssumption
      <4>3. changed \in Nat /\ IsFiniteSet(Active)
        BY <2>1 DEF CatalogShapes, PendingInv
      <4> QED BY <4>1, <4>2, <4>3
    <3>2. Cardinality(created) \in Nat /\ Cardinality(Active) \in Nat
      BY <3>1, DirsAreFinite, FS_CardinalityType
    <3>3. Seen \in Nat /\ Scheduling \in Nat /\ Armed \in Nat
      BY DEF Seen, Scheduling, Armed
    <3> QED BY <3>1, <3>2, <3>3 DEF PendingInv
  <2> QED
    BY <2>1, <2>2 DEF CatalogShapes, Early, Watching, DiskTypes, RegistryTypes, PageTypes, TypeOK
<1> QED
  BY <1>1, CatalogInvariant, CurrentInvariant, TypesInvariant, PTL

-----------------------------------------------------------------------------
(* What main has loaded *)

\* The directories that main can have read so far: a folder that could not be read is left out.
Readings ==
    IF boot = "builtin" THEN {{}}
    ELSE IF boot = "plugins" THEN {{}, Listed(BuiltinDir)}
    ELSE {R \cup P : R \in {{}, Listed(BuiltinDir)}, P \in {{}, Listed(PluginDir)}}

BootInv ==
    changes = 0 => \E R \in Readings : Holds(registry, R, Latest(R \cap Faulty))

\* Two cuts to the last maxLoadIssues are as good as one behind the other.
LEMMA LatestTwice ==
    ASSUME NEW A \in SUBSET Dir, NEW B \in SUBSET Dir, \A a \in A : \A b \in B : a < b
    PROVE  Latest(Latest(A) \cup B) = Latest(A \cup B)
<1> DEFINE Behind(S, d) == {e \in S : e > d}
           L == Latest(A)
<1>1. /\ \A d \in Dir : d \in Nat
      /\ \A S \in SUBSET Dir : IsFiniteSet(S) /\ Cardinality(S) \in Nat
      /\ MaxIssues \in Nat
  BY DirIs, DirsAreFinite, SizeAssumption
<1>2. /\ L \in SUBSET A
      /\ \A d \in A : d \in L <=> Cardinality(Behind(A, d)) < MaxIssues
      /\ \A S : \A d : d \in Latest(S) <=> d \in S /\ Cardinality(Behind(S, d)) < MaxIssues
  BY DEF Latest
<1> HIDE DEF L, Behind
<1>3. \A S, T \in SUBSET Dir : S \subseteq T => Cardinality(S) <= Cardinality(T)
  BY <1>1, FS_Subset
\* Behind a directory that is kept, all are kept.
<1>4. ASSUME NEW d \in L PROVE Behind(L, d) = Behind(A, d)
  <2>1. ASSUME NEW e \in A, e > d PROVE e \in L
    <3>1. Behind(A, e) \subseteq Behind(A, d)
      BY <1>1, <1>2, <2>1 DEF Behind
    <3>2. Behind(A, e) \in SUBSET Dir /\ Behind(A, d) \in SUBSET Dir
      BY DEF Behind
    <3>3. Cardinality(Behind(A, e)) <= Cardinality(Behind(A, d))
      BY <1>3, <3>1, <3>2
    <3>4. /\ Cardinality(Behind(A, d)) < MaxIssues
          /\ Cardinality(Behind(A, e)) \in Nat /\ Cardinality(Behind(A, d)) \in Nat
      BY <1>1, <1>2, <3>2
    <3>5. Cardinality(Behind(A, e)) < MaxIssues
      BY <1>1, <3>3, <3>4
    <3> QED BY <1>2, <3>5
  <2> QED BY <1>2, <2>1 DEF Behind
<1>5. ASSUME NEW d \in B
      PROVE  d \in Latest(L \cup B) <=> d \in Latest(A \cup B)
  <2>1. Behind(L \cup B, d) = Behind(A \cup B, d)
    BY <1>1, <1>2 DEF Behind
  <2> QED BY <1>2, <2>1
<1>6. ASSUME NEW d \in A, d \notin B
      PROVE  d \in Latest(L \cup B) <=> d \in Latest(A \cup B)
  <2>1. CASE d \in L
    <3>1. Behind(L \cup B, d) = Behind(A \cup B, d)
      BY <1>4, <2>1 DEF Behind
    <3> QED BY <1>2, <2>1, <3>1
  <2>2. CASE d \notin L
    <3>1. d \notin Latest(L \cup B)
      BY <1>2, <1>6, <2>2
    <3>2. /\ Behind(A, d) \in SUBSET Dir /\ Behind(A \cup B, d) \in SUBSET Dir
          /\ Behind(A, d) \subseteq Behind(A \cup B, d)
      BY DEF Behind
    <3>3. Cardinality(Behind(A, d)) <= Cardinality(Behind(A \cup B, d))
      BY <1>3, <3>2
    <3>4. /\ Cardinality(Behind(A, d)) \in Nat /\ Cardinality(Behind(A \cup B, d)) \in Nat
          /\ ~(Cardinality(Behind(A, d)) < MaxIssues)
      BY <1>1, <1>2, <2>2, <3>2
    <3>5. ~(Cardinality(Behind(A \cup B, d)) < MaxIssues)
      BY <1>1, <3>3, <3>4
    <3> QED BY <1>2, <3>1, <3>5
  <2> QED BY <2>1, <2>2
<1>7. Latest(L \cup B) \subseteq A \cup B /\ Latest(A \cup B) \subseteq A \cup B
  BY <1>2
<1>8. \A d \in A \cup B : d \in Latest(L \cup B) <=> d \in Latest(A \cup B)
  BY <1>5, <1>6
<1> QED
  BY <1>7, <1>8 DEF L

\* A folder is read behind those of the registry.
LEMMA BootStep ==
    ASSUME disk \in [Dir -> Content],
           NEW dirs, dirs = BuiltinDir \/ dirs = PluginDir,
           NEW R \in SUBSET Dir, \A e \in R : \A d \in dirs : e < d,
           Holds(registry, R, Latest(R \cap Faulty))
    PROVE  Holds(LoadAll(dirs), R \cup Listed(dirs), Latest((R \cup Listed(dirs)) \cap Faulty))
<1> DEFINE last == Builtins + Plugins
           Read(d) == {e \in Listed(dirs) : e <= d}
           S == Latest(R \cap Faulty)
           Good == [d \in 0..last |->
                      {s \in State : Holds(s, R \cup Read(d), S \cup (Read(d) \cap Faulty))}]
<1>1. /\ last \in Nat /\ Dir = 1..last
      /\ Listed(dirs) \in SUBSET Dir /\ dirs \in SUBSET Dir
  BY DirIs, SizeAssumption DEF Dir, BuiltinDir, PluginDir, Listed
<1>2. S \in SUBSET R
  BY DEF Latest
<1>3. \A e, d \in Dir : SourceOf(e) = SourceOf(d) /\ d \in dirs => e \in dirs
  BY DirIs
<1>4. registry \in Good[0]
  <2>1. Read(0) = {}
    BY <1>1
  <2>2. Holds(registry, R \cup Read(0), S \cup (Read(0) \cap Faulty))
    BY <2>1
  <2>3. registry \in State
    BY DEF Holds
  <2> QED BY <1>1, <2>2, <2>3
<1>5. ASSUME NEW d \in 1..last, NEW s \in Good[d - 1] PROVE ReadDir(s, d, dirs) \in Good[d]
  <2>1. d \in 0..last /\ d - 1 \in 0..last /\ d \in Dir
    BY <1>1
  <2>2. Holds(s, R \cup Read(d - 1), S \cup (Read(d - 1) \cap Faulty)) /\ s \in State
    BY <2>1
  <2> SUFFICES Holds(ReadDir(s, d, dirs), R \cup Read(d), S \cup (Read(d) \cap Faulty))
    BY <2>1 DEF Holds
  <2>3. CASE d \in Listed(dirs)
    <3>1. d \in dirs /\ disk[d] # Absent /\ ReadDir(s, d, dirs) = Load(s, d, disk[d])
      BY <2>3 DEF Listed, ReadDir
    <3>2. Read(d) = Read(d - 1) \cup {d}
      BY <1>1, <2>1, <2>3
    <3> DEFINE Before == R \cup Read(d - 1)
               Had == S \cup (Read(d - 1) \cap Faulty)
    <3>3. Before \in SUBSET Dir /\ Had \in SUBSET Before /\ \A e \in Before : e < d
      <4>1. \A e \in R : e < d
        BY <3>1
      <4>2. \A e \in Read(d - 1) : e \in Dir /\ e < d
        BY <1>1, <2>1
      <4>3. S \cup (Read(d - 1) \cap Faulty) \in SUBSET (R \cup Read(d - 1))
        BY <1>2
      <4> QED BY <4>1, <4>2, <4>3
    <3>4. ASSUME NEW e \in Dir, disk[e] # Absent, e < d, SourceOf(e) = SourceOf(d) PROVE e \in Before
      <4>1. e \in Listed(dirs)
        BY <1>3, <2>1, <3>1, <3>4 DEF Listed
      <4>2. e <= d - 1
        BY <1>1, <2>1, <3>4
      <4> QED BY <4>1, <4>2
    <3>5. Holds(s, Before, Had)
      BY <2>2
    <3>6. R \cup Read(d) = Before \cup {d} /\ S \cup (Read(d) \cap Faulty) = Had \cup ({d} \cap Faulty)
      BY <3>2
    <3> HIDE DEF Before, Had
    <3>7. Holds(Load(s, d, disk[d]), Before \cup {d}, Had \cup ({d} \cap Faulty))
      BY <2>1, <3>1, <3>3, <3>4, <3>5, ReadStep
    <3> QED BY <3>1, <3>6, <3>7
  <2>4. CASE d \notin Listed(dirs)
    <3>1. Read(d) = Read(d - 1)
      BY <1>1, <2>1, <2>4
    <3> QED BY <2>2, <2>4, <3>1 DEF ReadDir
  <2> QED BY <2>3, <2>4
<1>6. Good[last] = {s \in State : Holds(s, R \cup Listed(dirs), S \cup (Listed(dirs) \cap Faulty))}
  <2>1. Read(last) = Listed(dirs)
    BY <1>1
  <2>2. last \in 0..last
    BY <1>1
  <2>3. Good[last] = {s \in State : Holds(s, R \cup Read(last), S \cup (Read(last) \cap Faulty))}
    BY <2>2
  <2> QED BY <2>1, <2>3
<1> HIDE DEF Good
<1>7. PICK s \in Good[last] : LoadAll(dirs) = [s EXCEPT !.issues = Capped(@)]
  BY <1>4, <1>5, LoadAllGives
<1>8. Holds(s, R \cup Listed(dirs), S \cup (Listed(dirs) \cap Faulty))
  BY <1>6
<1>9. Latest(S \cup (Listed(dirs) \cap Faulty)) = Latest((R \cup Listed(dirs)) \cap Faulty)
  <2>1. (R \cup Listed(dirs)) \cap Faulty = (R \cap Faulty) \cup (Listed(dirs) \cap Faulty)
    OBVIOUS
  <2>2. \A e \in R \cap Faulty : \A d \in Listed(dirs) \cap Faulty : e < d
    BY DEF Listed
  <2>3. R \cap Faulty \in SUBSET Dir /\ Listed(dirs) \cap Faulty \in SUBSET Dir
    BY <1>1
  <2>4. Latest(Latest(R \cap Faulty) \cup (Listed(dirs) \cap Faulty))
          = Latest((R \cap Faulty) \cup (Listed(dirs) \cap Faulty))
    BY <2>2, <2>3, LatestTwice
  <2> QED BY <2>1, <2>4
<1>10. R \cup Listed(dirs) \in SUBSET Dir /\ S \cup (Listed(dirs) \cap Faulty) \in SUBSET Dir
  BY <1>1, <1>2
<1> HIDE DEF S, last
<1>11. Holds(LoadAll(dirs), R \cup Listed(dirs), Latest(S \cup (Listed(dirs) \cap Faulty)))
  BY <1>7, <1>8, <1>10, CapStep
<1> QED
  BY <1>9, <1>11

LEMMA BootStepInv ==
    CatalogInv /\ CurrentInv /\ DiskTypes /\ PendingInv /\ BootInv /\ [Next]_vars => BootInv'
<1> SUFFICES ASSUME CatalogInv, CurrentInv, DiskTypes, PendingInv, BootInv, [Next]_vars, changes' = 0
             PROVE  (\E R \in Readings : Holds(registry, R, Latest(R \cap Faulty)))'
  BY DEF BootInv
<1> USE DEF diskVars, registryVars
<1>1. changes = 0 /\ UNCHANGED disk
  <2>1. ASSUME NEW d \in Dir, NEW c \in Content, Change(d, c) PROVE FALSE
    <3>1. changes \in 0..MaxChanges /\ changes' = changes + 1
      BY <2>1 DEF Change, DiskTypes
    <3> QED BY <3>1, SizeAssumption
  <2>2. CASE UNCHANGED diskVars
    BY <2>2
  <2>3. CASE \/ LoadBuiltin \/ LoadPlugins \/ LoadFails \/ StartWatcher \/ MountPage
             \/ SeeTouched \/ Schedule \/ \E d \in Dir : SeeCreated(d)
    BY <2>2, <2>3 DEF LoadBuiltin, LoadPlugins, Boot, LoadFails, StartWatcher, MountPage, SeeTouched,
                      Schedule, SeeCreated
  <2>4. CASE \E p \in Reloader : Fire(p) \/ Reload(p)
    BY <2>2, <2>4 DEF Fire, Reload, ListBuiltins, ListPlugins, List, ReadScript, ReadDone, ReloadFails,
                      Compare, Publish, Emit, NotifyChanged
  <2>5. CASE \/ Listen \/ OnChanged \/ UNCHANGED vars \/ Settled
             \/ \E f \in Fetch : ListScripts(f) \/ SetScripts(f) \/ ListFails(f)
    BY <2>2, <2>5 DEF Listen, OnChanged, ListScripts, SetScripts, ListFails, otherVars, vars, Settled
  <2>6. ~ \E d \in Dir : \E c \in Content : Change(d, c)
    BY <2>1
  <2> HIDE DEF diskVars, registryVars
  <2> QED BY <2>3, <2>4, <2>5, <2>6 DEF Next
\* Nothing has changed: no Reload runs.
<1>2. \A p \in Reloader : reload[p] = "idle"
  <2>1. created \in SUBSET Dir /\ IsFiniteSet(Active)
    BY DEF DiskTypes, PendingInv
  <2>2. Cardinality(created) \in Nat /\ Cardinality(Active) \in Nat
    BY <2>1, DirsAreFinite, FS_CardinalityType
  <2>3. Seen \in Nat /\ Scheduling \in Nat /\ Armed \in Nat
    BY DEF Seen, Scheduling, Armed
  <2>4. Cardinality(created) + Seen + Scheduling + Armed + Cardinality(Active) + changed <= 0
    BY <1>1 DEF PendingInv
  <2>5. changed \in Nat
    BY DEF CatalogInv, CatalogShapes
  <2>6. Cardinality(Active) = 0
    BY <2>2, <2>3, <2>4, <2>5
  <2>7. Active = {}
    BY <2>1, <2>6, FS_EmptySet
  <2> QED BY <2>7 DEF Active, Running
<1>3. PICK R \in Readings : Holds(registry, R, Latest(R \cap Faulty))
  BY <1>1 DEF BootInv
<1>4. /\ \A s, S, T : Holds(s, S, T)' <=> Holds(s, S, T)
      /\ \A S : Listed(S)' = Listed(S)
      /\ Faulty' = Faulty
  BY <1>1 DEF Holds, SourceIn, IssuesOf, Listed, Faulty
<1> SUFFICES \E T \in Readings' : Holds(registry', T, Latest(T \cap Faulty))
  <2>1. ASSUME NEW T, Holds(registry', T, Latest(T \cap Faulty))
        PROVE  Holds(registry, T, Latest(T \cap Faulty))'
    <3>1. Latest(T \cap Faulty)' = Latest(T \cap Faulty)
      BY <1>4 DEF Latest
    <3> QED BY <1>4, <2>1, <3>1
  <2> QED BY <2>1
<1>5. disk \in [Dir -> Content] /\ boot \in {"builtin", "plugins", "app", "running"}
  BY DEF CurrentInv, Watching, CatalogInv, CatalogShapes
<1>6. CASE registry' = registry /\ boot' = boot
  <2>1. Listed(BuiltinDir)' = Listed(BuiltinDir) /\ Listed(PluginDir)' = Listed(PluginDir)
    BY <1>1 DEF Listed
  <2>2. Readings' = Readings
    <3> HIDE DEF diskVars, registryVars
    <3> QED BY ONLY <2>1, <1>6 DEF Readings
  <2> QED BY <1>3, <1>6, <2>2
<1>7. CASE LoadBuiltin
  <2>1. boot = "builtin" /\ boot' = "plugins" /\ registry' = LoadAll(BuiltinDir)
    BY <1>7 DEF LoadBuiltin, Boot
  <2>2. R = {} /\ {} \cup Listed(BuiltinDir) = Listed(BuiltinDir)
    BY <1>3, <2>1 DEF Readings
  <2>3. Holds(registry', Listed(BuiltinDir), Latest(Listed(BuiltinDir) \cap Faulty))
    BY <1>3, <1>5, <2>1, <2>2, BootStep
  <2>4. Listed(BuiltinDir) \in Readings'
    BY <1>4, <2>1 DEF Readings
  <2> QED BY <2>3, <2>4
<1>8. CASE LoadPlugins
  <2>1. boot = "plugins" /\ boot' = "app" /\ registry' = LoadAll(PluginDir)
    BY <1>8 DEF LoadPlugins, Boot
  <2>2. R \in {{}, Listed(BuiltinDir)}
    BY <1>3, <2>1 DEF Readings
  <2>3. R \in SUBSET Dir /\ \A e \in R : \A d \in PluginDir : e < d
    BY <2>2, DirIs DEF Listed
  <2>4. Holds(registry', R \cup Listed(PluginDir), Latest((R \cup Listed(PluginDir)) \cap Faulty))
    BY <1>3, <1>5, <2>1, <2>3, BootStep
  <2>5. R \cup Listed(PluginDir) \in Readings'
    BY <1>4, <2>1, <2>2 DEF Readings
  <2> QED BY <2>4, <2>5
<1>9. CASE LoadFails \/ StartWatcher
  <2>1. /\ registry' = registry
        /\ \/ boot = "builtin" /\ boot' = "plugins"
           \/ boot = "plugins" /\ boot' = "app"
           \/ boot = "app" /\ boot' = "running"
    BY <1>9 DEF LoadFails, StartWatcher
  <2>2. R \in Readings'
    <3>1. R \cup {} = R
      OBVIOUS
    <3> QED BY <1>3, <1>4, <2>1, <3>1 DEF Readings
  <2> QED BY <1>3, <2>1, <2>2
<1>10. ASSUME NEW p \in Reloader, Compare(p) PROVE FALSE
  BY <1>2, <1>10 DEF Compare
<1>11. CASE \/ \E d \in Dir : SeeCreated(d) \/ \E c \in Content : Change(d, c)
            \/ MountPage \/ SeeTouched \/ Schedule
  BY <1>6, <1>11 DEF SeeCreated, Change, MountPage, SeeTouched, Schedule
<1>12. CASE \E p \in Reloader : Fire(p) \/ Reload(p)
  BY <1>6, <1>10, <1>12 DEF Fire, Reload, ListBuiltins, ListPlugins, List, ReadScript, ReadDone,
                            ReloadFails, Publish, Emit, NotifyChanged
<1>13. CASE \/ Listen \/ OnChanged \/ UNCHANGED vars \/ Settled
            \/ \E f \in Fetch : ListScripts(f) \/ SetScripts(f) \/ ListFails(f)
  BY <1>6, <1>13 DEF Listen, OnChanged, ListScripts, SetScripts, ListFails, otherVars, vars, Settled
<1> QED
  BY <1>7, <1>8, <1>9, <1>11, <1>12, <1>13 DEF Next

\* As long as nothing has changed on disk, the Registry has what main could read of it: each
\* script of the plugin folder or else of the builtin one, and the last maxLoadIssues issues
\* of both, although LoadBuiltin and LoadPlugins cut the list one after the other.
LoadedAtBoot ==
    changes = 0 /\ boot \in {"app", "running"} =>
        \E B \in {{}, Listed(BuiltinDir)}, P \in {{}, Listed(PluginDir)} :
            /\ \A id \in Id : SourceOf(registry.scripts[id]) = SourceIn(B \cup P, id)
            /\ {i.dir : i \in Range(registry.issues)} = Latest((B \cup P) \cap Faulty)

\* What LoadBuiltin and LoadPlugins leave behind at start-up is what a Reload of the same
\* directories would, for any number of faulty ones.
THEOREM BootIsCurrent == Spec => []LoadedAtBoot
<1>1. Init => BootInv
  <2> SUFFICES ASSUME Init PROVE BootInv
    OBVIOUS
  <2>1. Latest({} \cap Faulty) = {}
    BY DEF Latest
  <2>2. registry = Nothing /\ boot = "builtin"
    BY DEF Init
  <2>3. Holds(Nothing, {}, {})
    <3>1. Nothing.scripts = [i \in Id |-> 0] /\ Nothing.issues = <<>>
      BY DEF Nothing
    <3>2. \A id \in Id : SourceOf(Nothing.scripts[id]) = SourceIn({}, id)
      BY <3>1 DEF SourceIn, SourceOf
    <3>3. Len(Nothing.issues) = 0 /\ 1..0 = {}
      BY <3>1
    <3> QED BY <3>2, <3>3, NothingIsState DEF Holds, IssuesOf
  <2> QED BY <2>1, <2>2, <2>3 DEF BootInv, Readings
<1>2. BootInv => LoadedAtBoot
  <2> SUFFICES ASSUME BootInv, changes = 0, boot \in {"app", "running"} PROVE LoadedAtBoot
    BY DEF LoadedAtBoot
  <2>1. PICK R \in Readings : Holds(registry, R, Latest(R \cap Faulty))
    BY DEF BootInv
  <2>2. PICK B \in {{}, Listed(BuiltinDir)}, P \in {{}, Listed(PluginDir)} : R = B \cup P
    BY <2>1 DEF Readings
  <2>3. R \in SUBSET Dir
    BY <2>2, DirIs DEF Listed
  <2>4. {i.dir : i \in Range(registry.issues)} = Latest(R \cap Faulty)
    <3>1. registry.issues \in Seq(Issue) /\ IssuesOf(registry.issues, Latest(R \cap Faulty))
      BY <2>1 DEF Holds, State
    <3>2. Latest(R \cap Faulty) \in SUBSET Dir
      BY <2>3 DEF Latest
    <3> QED BY <3>1, <3>2, IssueDirs
  <2>5. \A id \in Id : SourceOf(registry.scripts[id]) = SourceIn(R, id)
    BY <2>1 DEF Holds
  <2> QED BY <2>2, <2>4, <2>5 DEF LoadedAtBoot
<1> QED
  BY <1>1, <1>2, BootStepInv, CatalogInvariant, CurrentInvariant, TypesInvariant, PTL DEF Spec

=============================================================================
