----------------------------- MODULE Crosswatch -----------------------------
(***************************************************************************)
(* What the browser makes of the Trakt account: the Crosswatch widget of   *)
(* the home page (useCrosswatch.ts, CrosswatchWidget.tsx) and the Trakt    *)
(* section of the settings page (SettingsPage.tsx, useTraktConfig.ts).     *)
(* Three calls of useTraktAuth.ts keep a state each: the widget's own, the *)
(* one inside useCrosswatch, and the page's.  A film is a TMDB id, 0 for a *)
(* film without one.  Both pages are unmounted, with their state, by a     *)
(* change of tab; what an unmounted component still receives changes       *)
(* nothing, but its batch of requests to TMDB runs until it sees the flag. *)
(***************************************************************************)
EXTENDS Naturals, Sequences, FiniteSets, Lists

CONSTANTS
  Films,      \* TMDB ids, positive
  watchlist, watched, \* what /api/trakt/watchlist and /watched answer
  Brokens,    \* the sets of films TMDB may fail for, every time
  MaxLate,    \* bound: cancelled batches still waiting for an answer
  BatchSize,  \* films asked for in one batch (10)
  MaxFaults   \* bound: requests that fail, of any kind

VARIABLES
  session,   \* the server holds a Trakt session
  configured,\* the server has [id, secret] of the Trakt app
  broken,    \* films TMDB fails for, every time
  hasTmdb,   \* the settings have a TMDB key
  tab,       \* "home", "settings" or "other"
  seen,      \* history: a session was there at some time since the tab opened
  auth,      \* per call of useTraktAuth: [phase, answer, connected]
  logout,    \* calls of logout() under way, "closed" of a closed page
  loading, error, loaded, fetching, \* useCrosswatch: the request for the lists
  cache,     \* tmdbCache: films with a detail
  busy,      \* tmdbEnriching.current
  batches,   \* runs of enrich(): [left, got, cancelled]
  form,      \* the settings page: [typedId, typedSecret, saving, config]
  saveLost,  \* history: the save under way got no answer at all
  faults

account == <<broken, hasTmdb>>
server == <<session, configured>>
widget == <<loading, error, loaded, fetching, cache, busy, batches>>
page == <<form, saveLost>>
vars == <<account, server, tab, seen, auth, logout, widget, page, faults>>

Calls == {"widget", "hook", "page"}
On(t) == IF t = "home" THEN {"widget", "hook"} ELSE IF t = "settings" THEN {"page"} ELSE {}
Unmounted == [phase |-> "off", answer |-> FALSE, connected |-> FALSE]
Asked == [Unmounted EXCEPT !.phase = "asked"]
BlankForm == [typedId |-> FALSE, typedSecret |-> FALSE, saving |-> "no",
              config |-> [id |-> FALSE, secret |-> FALSE]]

\* Where an id comes first; films without an id are left out.
Firsts(films) ==
  {i \in DOMAIN films : films[i] # 0 /\ \A j \in 1 .. i - 1 : films[j] # films[i]}

\* allTraktMovies, both lists with each id once, without those in cache c.
Uncached(c) ==
  LET films == watchlist \o watched IN At(films, {i \in Firsts(films) : films[i] \notin c})

\* The films under a tab of the widget.
Movies(view) ==
  LET films == IF view = "watchlist" THEN watchlist ELSE watched IN
  {[id |-> films[i], watched |-> \E k \in DOMAIN watched : watched[k] = films[i],
    detailed |-> films[i] \in cache] : i \in Firsts(films)}

\* The enrichment effect with lists in, loading over and cache c: the next batch.
NextBatch(c) ==
  LET n == IF Len(Uncached(c)) < BatchSize THEN Len(Uncached(c)) ELSE BatchSize
  IN IF hasTmdb /\ n > 0
     THEN {[left |-> SubSeq(Uncached(c), 1, n), got |-> {}, cancelled |-> FALSE]}
     ELSE {}

Init ==
  /\ session \in BOOLEAN /\ configured = [id |-> session, secret |-> session]
  /\ broken \in Brokens /\ hasTmdb \in BOOLEAN
  /\ tab = "home" /\ seen = session
  /\ auth = [i \in Calls |-> IF i \in On("home") THEN Asked ELSE Unmounted]
  /\ logout = {} /\ loading = FALSE /\ error = FALSE /\ loaded = FALSE
  /\ fetching = "no" /\ cache = {} /\ busy = FALSE /\ batches = {}
  /\ form = BlankForm /\ saveLost = FALSE /\ faults = 0

-----------------------------------------------------------------------------
\* Mutant: the clean-up forgets to cancel.
AbandonedNot(bs) == bs

\* The clean-up of the enrichment effect.
Abandoned(bs) == {[b EXCEPT !.cancelled = TRUE] : b \in bs}

\* Another tab, in the step of the click; or, with the same tab and a login
\* that leaves the page and comes back, a new page.
Open(t, reload) ==
  /\ tab' = t /\ seen' = session'
  /\ auth' = [i \in Calls |-> IF i \in On(t) THEN Asked ELSE Unmounted]
  /\ loading' = FALSE /\ error' = FALSE /\ loaded' = FALSE /\ fetching' = "no"
  /\ cache' = {} /\ busy' = FALSE
  /\ batches' = IF reload THEN {} ELSE Abandoned(batches)
  /\ form' = BlankForm /\ saveLost' = FALSE

ClickTab(t) ==
  /\ t # tab /\ (busy => Cardinality(batches) <= MaxLate)
  /\ session' = session /\ Open(t, FALSE)
  /\ logout' = IF logout = {} THEN {} ELSE {"closed"}
  /\ UNCHANGED <<configured, account, faults>>

\* The buttons "Connect Trakt": that of the widget needs nothing, that of the
\* settings page a complete configuration.
WidgetConnects == tab = "home" /\ ~auth["hook"].connected
PageConnects ==
  /\ tab = "settings" /\ ~auth["page"].connected
  /\ form.config = [id |-> TRUE, secret |-> TRUE]

\* login(): the user comes back with a session or without.
Login ==
  /\ WidgetConnects \/ PageConnects
  /\ session' \in {session, configured = [id |-> TRUE, secret |-> TRUE]}
  /\ Open("home", TRUE) /\ logout' = {}
  /\ UNCHANGED <<configured, account, faults>>

\* The refresh token is refused, or another window logs out.
SessionEnds ==
  /\ session /\ session' = FALSE
  /\ UNCHANGED <<configured, account, tab, seen, auth, logout, widget, page, faults>>

-----------------------------------------------------------------------------
(* useTraktAuth                                                            *)

\* /api/auth/trakt/me is answered.
MeHandled(i) ==
  /\ auth[i].phase = "asked"
  /\ auth' = [auth EXCEPT ![i].phase = "answered", ![i].answer = session]
  /\ UNCHANGED <<account, server, tab, seen, logout, widget, page, faults>>

\* checkAuth goes on; in useCrosswatch a first hasTrakt starts fetchTraktData.
Knows(i, c) ==
  /\ auth' = [auth EXCEPT ![i].phase = "known", ![i].connected = c]
  /\ IF i = "hook" /\ c
     THEN loading' = TRUE /\ error' = FALSE /\ fetching' = "asked"
     ELSE UNCHANGED <<loading, error, fetching>>
  /\ UNCHANGED <<account, server, tab, seen, logout, loaded, cache, busy, batches, page>>

MeResolves(i) ==
  /\ auth[i].phase = "answered"
  /\ Knows(i, auth[i].answer) /\ UNCHANGED faults

\* A reply that is not ok leaves what there was, a rejection says disconnected:
\* the same, since the only call of checkAuth is the first.
MeFails(i) ==
  /\ auth[i].phase \in {"asked", "answered"}
  /\ faults < MaxFaults /\ faults' = faults + 1
  /\ Knows(i, auth[i].connected)

\* The buttons "Disconnect": the widget shows its own by what the hook knows,
\* and logs out by its own state.
WidgetDisconnects == auth["hook"].connected
PageDisconnects == auth["page"].connected

\* logout()
ClickLogout(i) ==
  /\ \/ i = "widget" /\ WidgetDisconnects
     \/ i = "page" /\ PageDisconnects
  /\ i \notin logout /\ logout' = logout \cup {i}
  /\ UNCHANGED <<account, server, tab, seen, auth, widget, page, faults>>

\* Any reply, ok or not, disconnects the state of the call that asked.
LogoutDone(i) ==
  /\ i \in logout /\ logout' = logout \ {i}
  /\ \/ session' = FALSE /\ UNCHANGED faults
     \/ session' = session /\ faults < MaxFaults /\ faults' = faults + 1
  /\ auth' = [c \in Calls |-> IF c = i THEN [auth[c] EXCEPT !.connected = FALSE] ELSE auth[c]]
  /\ UNCHANGED <<configured, account, tab, seen, widget, page>>

-----------------------------------------------------------------------------
(* useCrosswatch                                                           *)

\* Both lists are answered: with a session they arrive, in one render with the
\* end of loading; without one, or when a request fails, an error does.
ListsResolve ==
  /\ fetching = "asked" /\ fetching' = "no" /\ loading' = FALSE
  /\ \/ /\ session /\ loaded' = TRUE /\ UNCHANGED <<error, faults>>
        /\ batches' = batches \cup NextBatch(cache) /\ busy' = (NextBatch(cache) # {})
     \/ /\ ~session /\ error' = TRUE /\ UNCHANGED <<loaded, busy, batches, faults>>
     \/ /\ faults < MaxFaults /\ faults' = faults + 1 /\ error' = TRUE
        /\ UNCHANGED <<loaded, busy, batches>>
  /\ UNCHANGED <<account, server, tab, seen, auth, logout, cache, page>>

\* Mutant: the loop does not look at the flag.
StopsNever(b) == FALSE

Stops(b) == b.cancelled

\* One film of a batch is answered or skipped.  A cancelled batch stops there;
\* one at its end stores its results in a new cache object, were there none,
\* and the effect starts the next batch.
EnrichStep(b) ==
  LET film == Head(b.left) IN
  \E ok \in BOOLEAN :
    LET got == IF ok THEN b.got \cup {film} ELSE b.got
        rest == [b EXCEPT !.left = Tail(@), !.got = got]
    IN /\ ok => film \notin broken
       /\ \/ (ok \/ film \in broken) /\ UNCHANGED faults
          \/ ~ok /\ film \notin broken /\ faults < MaxFaults /\ faults' = faults + 1
       /\ \/ /\ Stops(b)
             /\ batches' = batches \ {b} /\ UNCHANGED <<cache, busy>>
          \/ /\ ~Stops(b) /\ rest.left # <<>>
             /\ batches' = (batches \ {b}) \cup {rest} /\ UNCHANGED <<cache, busy>>
          \/ /\ ~Stops(b) /\ rest.left = <<>>
             /\ cache' = cache \cup got
             /\ batches' = (batches \ {b}) \cup NextBatch(cache')
             /\ busy' = (NextBatch(cache') # {})
       /\ UNCHANGED <<account, server, tab, seen, auth, logout, loading, error,
                      loaded, fetching, page>>

-----------------------------------------------------------------------------
(* The settings page                                                       *)

ConfigLoaded ==
  /\ tab = "settings" /\ form.config # configured
  /\ form' = [form EXCEPT !.config = configured]
  /\ UNCHANGED <<account, server, tab, seen, auth, logout, widget, saveLost, faults>>

TypeIn ==
  /\ tab = "settings" /\ ~auth["page"].connected
  /\ form' \in {[form EXCEPT !.typedId = TRUE], [form EXCEPT !.typedSecret = TRUE]}
  /\ UNCHANGED <<account, server, tab, seen, auth, logout, widget, saveLost, faults>>

\* handleSaveTrakt: the button is disabled while one save is under way, and
\* without an id typed or known.
ClickSave ==
  /\ tab = "settings" /\ ~auth["page"].connected
  /\ form.saving = "no" /\ (form.typedId \/ form.config.id)
  /\ form' = [form EXCEPT !.saving = "asked"] /\ saveLost' = FALSE
  /\ UNCHANGED <<account, server, tab, seen, auth, logout, widget, faults>>

\* The server stores a blank secret as the one it has, and its reply becomes
\* the config; a refusal only ends saving; no reply at all leaves handleSaveTrakt
\* in the middle.
SaveReplies ==
  /\ form.saving = "asked" /\ ~saveLost
  /\ \/ /\ configured' = [id |-> TRUE, secret |-> configured.secret \/ form.typedSecret]
        /\ form' = [form EXCEPT !.saving = "no", !.typedSecret = FALSE, !.config = configured']
        /\ UNCHANGED <<faults, saveLost>>
     \/ /\ faults < MaxFaults /\ faults' = faults + 1
        /\ form' = [form EXCEPT !.saving = "no"]
        /\ UNCHANGED <<configured, saveLost>>
     \/ /\ faults < MaxFaults /\ faults' = faults + 1 /\ saveLost' = TRUE
        /\ UNCHANGED <<configured, form>>
  /\ UNCHANGED <<account, session, tab, seen, auth, logout, widget>>

Next ==
  \/ Login \/ SessionEnds \/ ListsResolve \/ ConfigLoaded \/ TypeIn \/ ClickSave \/ SaveReplies
  \/ \E t \in {"home", "settings", "other"} : ClickTab(t)
  \/ \E i \in Calls : MeHandled(i) \/ MeResolves(i) \/ MeFails(i) \/ ClickLogout(i)
  \/ \E i \in Calls \cup {"closed"} : LogoutDone(i)
  \/ \E b \in batches : EnrichStep(b)

\* Requests are answered or fail, and the page runs what they resolve.
Fairness ==
  /\ WF_vars(ListsResolve) /\ WF_vars(SaveReplies)
  /\ WF_vars(\E b \in batches : ~b.cancelled /\ EnrichStep(b))
  /\ WF_vars(\E i \in Calls : MeHandled(i) \/ MeResolves(i))

Spec == Init /\ [][Next]_vars /\ Fairness

-----------------------------------------------------------------------------
Config == [id : BOOLEAN, secret : BOOLEAN]

TypeOK ==
  /\ session \in BOOLEAN /\ seen \in BOOLEAN /\ hasTmdb \in BOOLEAN
  /\ configured \in Config /\ tab \in {"home", "settings", "other"}
  /\ auth \in [Calls -> [phase : {"off", "asked", "answered", "known"},
                         answer : BOOLEAN, connected : BOOLEAN]]
  /\ logout \subseteq Calls \cup {"closed"} /\ fetching \in {"no", "asked"}
  /\ loading \in BOOLEAN /\ error \in BOOLEAN /\ loaded \in BOOLEAN /\ busy \in BOOLEAN
  /\ cache \subseteq Films /\ broken \subseteq Films
  /\ batches \subseteq [left : Seq(Films), got : SUBSET Films, cancelled : BOOLEAN]
  /\ form \in [typedId : BOOLEAN, typedSecret : BOOLEAN, saving : {"no", "asked"},
               config : Config]
  /\ saveLost \in BOOLEAN /\ faults \in 0 .. MaxFaults

\* At most one batch works for the widget, and busy says so: no second run of
\* the effect joins a batch, and none leaves busy set behind, which would stop
\* the enrichment for good.
OneBatch ==
  LET at_work == {b \in batches : ~b.cancelled} IN
  /\ Cardinality(at_work) <= 1
  /\ busy <=> at_work # {}

\* A widget that was closed asks TMDB for nothing more than the film it was
\* waiting for, whatever was opened since.
CancelledQuiet ==
  [][\A b \in batches' : b.cancelled =>
       b \in batches \/ [b EXCEPT !.cancelled = FALSE] \in batches]_vars

\* An account is shown as connected only if a session existed while the page
\* was open, although a logout that was clicked may be answered, or fail, after
\* another tab was opened and asked anew.
NoGhost == \A i \in On(tab) : auth[i].connected => seen

\* Films TMDB fails for do not keep the others from their details, as long as
\* they do not fill a batch; those are asked for again for ever.
OthersEnriched ==
  []<>(hasTmdb /\ Cardinality(broken) < BatchSize /\ tab = "home" /\ loaded =>
         \A view \in {"watchlist", "watched"} :
           \A m \in Movies(view) : m.id \in broken \/ m.detailed)

\* Neither page waits for ever on a reply: loading ends, and saving does unless
\* the request for it got no reply at all.
WaitingEnds ==
  /\ []<>(~loading)
  /\ []<>(form.saving = "no" \/ saveLost)
=============================================================================
