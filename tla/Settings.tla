------------------------------ MODULE Settings ------------------------------
(***************************************************************************)
(* The settings of the dashboard (context/SettingsContext.tsx) with the    *)
(* pages that change them: the widgets of the home page with their drag    *)
(* and drop (HomePage.tsx), the settings page (SettingsPage.tsx) and the   *)
(* pins of the list of containers (ContainerList.tsx).  Several windows    *)
(* of one browser share one localStorage and no events.                    *)
(*                                                                         *)
(* A click is handled with what the last render shows, for React renders   *)
(* before the next one.  The dragover events need not wait for a render:   *)
(* they work on what their closures captured, seen.  While something is    *)
(* dragged the browser sends no clicks and no keys.                        *)
(***************************************************************************)
EXTENDS Naturals, Sequences, FiniteSets, SequencesExt, Lists

CONSTANTS
  Windows,     \* windows showing the dashboard
  None,        \* null, or nothing stored
  WIDGETS,     \* ids of WIDGET_DEFS, in order
  defaultSpan, \* the width of each, 1 or 2
  Presets,     \* [theme -> [key -> colour]]: the colours of each theme
  FirstTheme,  \* the default theme, also that of an unknown name
  Colours,     \* colours a user picks
  Options,     \* values of a plain option: the poll interval, the TMDB key
  Containers,  \* ids to pin
  Legacy,      \* what an older version stored: sets of enabled widgets
  MaxChanges   \* bound: changes of the settings

VARIABLES
  store,   \* localStorage: the settings last saved, or None
  win,     \* [Windows -> ...]: what each window holds
  before,  \* history: the layout when the drag began, and what was picked
  fresh,   \* history: the windows nobody saved after
  changes

vars == <<store, win, before, fresh, changes>>

Tabs == {"home", "containers", "settings"}
Keys == DOMAIN Presets[FirstTheme]
Ids == ToSet(WIDGETS)

DEFAULT_HOME_LAYOUT ==
  [i \in DOMAIN WIDGETS |-> [id |-> WIDGETS[i], span |-> defaultSpan[WIDGETS[i]]]]
layoutFromWidgetIds(ids) == Filter(DEFAULT_HOME_LAYOUT, LAMBDA x : x.id \in ids)

DEFAULT_SETTINGS ==
  [theme |-> FirstTheme, custom |-> None, option |-> None, homeWidgets |-> Ids,
   homeLayout |-> DEFAULT_HOME_LAYOUT, pinned |-> <<>>]

\* A version that knew only which widgets are on.
LegacyStore(ids) ==
  [DEFAULT_SETTINGS EXCEPT !.homeWidgets = ids, !.homeLayout = None]

\* Mutant: every stored layout is migrated.
LoadMigrates(raw) ==
  IF raw = None THEN DEFAULT_SETTINGS
  ELSE [raw EXCEPT !.homeLayout = layoutFromWidgetIds(raw.homeWidgets)]

\* loadSettings; an empty layout is rebuilt like a missing one.
Load(raw) ==
  IF raw = None THEN DEFAULT_SETTINGS
  ELSE IF raw.homeLayout = None \/ raw.homeLayout = <<>>
       THEN [raw EXCEPT !.homeLayout = layoutFromWidgetIds(raw.homeWidgets)]
       ELSE raw

\* resolveColors
Active(s) == IF s.custom # None THEN s.custom ELSE Presets[s.theme]

\* A page just loaded.
Fresh(raw) ==
  [settings |-> Load(raw), tab |-> "home", editing |-> FALSE, drag |-> None,
   seen |-> [layout |-> Load(raw).homeLayout, drag |-> None]]
NotDragged == [layout |-> <<>>, id |-> None]

Init ==
  /\ store \in {None} \cup {LegacyStore(ids) : ids \in Legacy}
  /\ win = [w \in Windows |-> Fresh(store)]
  /\ before = [w \in Windows |-> NotDragged]
  /\ fresh = Windows /\ changes = 0

\* The page t of w can be clicked.
Shows(w, t) == win[w].tab = t /\ win[w].drag = None

\* updateSettings, from a click: everything is saved, the page rendered.
Update(w, s) ==
  /\ changes < MaxChanges
  /\ store' = s /\ fresh' = {w} /\ changes' = changes + 1
  /\ win' = [win EXCEPT ![w].settings = s, ![w].seen.layout = s.homeLayout]
  /\ UNCHANGED before

setLayout(w, layout) == Update(w, [win[w].settings EXCEPT !.homeLayout = layout])

-----------------------------------------------------------------------------
(* The window.                                                             *)

\* NavTabs; the state of the page that is left is gone.
ClickTab(w, t) ==
  /\ win[w].tab # t /\ win[w].drag = None
  /\ win' = [win EXCEPT ![w].tab = t, ![w].editing = FALSE]
  /\ UNCHANGED <<store, before, fresh, changes>>

Reload(w) ==
  /\ win' = [win EXCEPT ![w] = Fresh(store)]
  /\ before' = [before EXCEPT ![w] = NotDragged]
  /\ fresh' = fresh \cup {w}
  /\ UNCHANGED <<store, changes>>

-----------------------------------------------------------------------------
(* The home page.                                                          *)

ToggleEditing(w) ==
  /\ Shows(w, "home")
  /\ win' = [win EXCEPT ![w].editing = ~@]
  /\ UNCHANGED <<store, before, fresh, changes>>

\* Mutant: the two items change places.
MovedSwapped(layout, from, to) == [layout EXCEPT ![from] = layout[to], ![to] = layout[from]]

\* The item at from taken out and put back at to.
Moved(layout, from, to) == InsertAt(RemoveAt(layout, from), to, layout[from])

\* onDragStart; a link in a widget can be dragged without editing too.
DragStart(w, i) ==
  /\ Shows(w, "home") /\ i \in DOMAIN win[w].settings.homeLayout
  /\ win' = [win EXCEPT ![w].drag = i, ![w].seen.drag = i]
  /\ before' = [before EXCEPT ![w] =
       [layout |-> win[w].settings.homeLayout,
        id |-> win[w].settings.homeLayout[i].id]]
  /\ UNCHANGED <<store, fresh, changes>>

\* onDragOver of the i-th widget rendered: the closure's layout and index.
DragOver(w, i) ==
  LET seen == win[w].seen
      s == [win[w].settings EXCEPT !.homeLayout = Moved(seen.layout, seen.drag, i)] IN
  /\ win[w].editing /\ seen.drag # None /\ i \in DOMAIN seen.layout
  /\ seen.drag # i /\ changes < MaxChanges
  /\ store' = s /\ fresh' = {w} /\ changes' = changes + 1
  /\ win' = [win EXCEPT ![w].settings = s, ![w].drag = i]
  /\ UNCHANGED before

Rendered(v) == [v EXCEPT !.seen = [layout |-> v.settings.homeLayout, drag |-> v.drag]]

Render(w) ==
  /\ win[w] # Rendered(win[w])
  /\ win' = [win EXCEPT ![w] = Rendered(@)]
  /\ UNCHANGED <<store, before, fresh, changes>>

DragEnd(w) ==
  /\ win[w].drag # None
  /\ win' = [win EXCEPT ![w] = Rendered([@ EXCEPT !.drag = None])]
  /\ before' = [before EXCEPT ![w] = NotDragged]
  /\ UNCHANGED <<store, fresh, changes>>

\* The buttons of the toolbar of the i-th widget, and the palette.
Toolbar(w) ==
  LET layout == win[w].settings.homeLayout IN
  /\ Shows(w, "home") /\ win[w].editing
  /\ \/ \E i, j \in DOMAIN layout :
          (i = j + 1 \/ j = i + 1) /\ setLayout(w, Moved(layout, i, j))
     \/ \E i \in DOMAIN layout :
          \/ setLayout(w, [layout EXCEPT ![i].span = 3 - @])
          \/ setLayout(w, RemoveAt(layout, i))
     \/ \E id \in Ids \ {layout[i].id : i \in DOMAIN layout} :
          setLayout(w, Append(layout, [id |-> id, span |-> defaultSpan[id]]))

-----------------------------------------------------------------------------
(* The settings page and the pins.                                         *)

\* A checkbox of "Home Widgets".
ToggleWidget(w, id) ==
  LET layout == win[w].settings.homeLayout IN
  /\ Shows(w, "settings")
  /\ setLayout(w, IF \E i \in DOMAIN layout : layout[i].id = id
                  THEN Filter(layout, LAMBDA x : x.id # id)
                  ELSE Append(layout, [id |-> id, span |-> defaultSpan[id]]))

PickTheme(w, theme) ==
  /\ Shows(w, "settings")
  /\ Update(w, [win[w].settings EXCEPT !.theme = theme, !.custom = None])

\* The colour picker, or a whole hex value pasted.
PickColour(w, key, colour) ==
  /\ Shows(w, "settings")
  /\ Update(w, [win[w].settings EXCEPT
                  !.custom = [Active(win[w].settings) EXCEPT ![key] = colour]])

\* A digit deleted from a hex field: the colours shown become custom ones, the
\* field keeps its value.  A field that is cleared is ignored.
EditHex(w) ==
  /\ Shows(w, "settings")
  /\ Update(w, [win[w].settings EXCEPT !.custom = Active(win[w].settings)])

ResetCustomColours(w) ==
  /\ Shows(w, "settings") /\ win[w].settings.custom # None
  /\ Update(w, [win[w].settings EXCEPT !.custom = None])

SetOption(w, value) ==
  /\ Shows(w, "settings")
  /\ Update(w, [win[w].settings EXCEPT !.option = value])

TogglePin(w, id) ==
  LET pinned == win[w].settings.pinned IN
  /\ Shows(w, "containers")
  /\ Update(w, [win[w].settings EXCEPT
                  !.pinned = IF id \in ToSet(pinned)
                             THEN Filter(pinned, LAMBDA x : x # id)
                             ELSE Append(pinned, id)])

\* "Reset All Settings": the item is removed and the page loaded again.
ResetAll(w) ==
  /\ Shows(w, "settings") /\ changes < MaxChanges
  /\ store' = None /\ fresh' = {w} /\ changes' = changes + 1
  /\ win' = [win EXCEPT ![w] = Fresh(None)]
  /\ UNCHANGED before

Next ==
  \E w \in Windows :
    \/ Reload(w) \/ ToggleEditing(w) \/ Render(w) \/ DragEnd(w) \/ Toolbar(w)
    \/ EditHex(w) \/ ResetCustomColours(w) \/ ResetAll(w)
    \/ \E t \in Tabs : ClickTab(w, t)
    \/ \E i \in DOMAIN WIDGETS : DragStart(w, i) \/ DragOver(w, i)
    \/ \E id \in Ids : ToggleWidget(w, id)
    \/ \E theme \in DOMAIN Presets : PickTheme(w, theme)
    \/ \E key \in Keys, colour \in Colours : PickColour(w, key, colour)
    \/ \E value \in Options : SetOption(w, value)
    \/ \E id \in Containers : TogglePin(w, id)

Spec == Init /\ [][Next]_vars

-----------------------------------------------------------------------------
Layouts == Seq([id : Ids, span : {1, 2}])
Palettes == [Keys -> Colours \cup {Presets[theme][key] : theme \in DOMAIN Presets, key \in Keys}]
Stored(layouts) ==
  [theme : DOMAIN Presets, custom : {None} \cup Palettes, option : {None} \cup Options,
   homeWidgets : SUBSET Ids, homeLayout : layouts, pinned : Seq(Containers)]

TypeOK ==
  /\ win \in [Windows -> [settings : Stored(Layouts), tab : Tabs, editing : BOOLEAN,
                          drag : {None} \cup DOMAIN WIDGETS,
                          seen : [layout : Layouts, drag : {None} \cup DOMAIN WIDGETS]]]
  /\ \A w \in Windows :
       win[w].drag # None => win[w].drag \in DOMAIN win[w].settings.homeLayout
  /\ store \in {None} \cup Stored(Layouts) \cup Stored({None})
  /\ before \in [Windows -> [layout : Layouts, id : {None} \cup Ids]]
  /\ fresh \subseteq Windows /\ changes \in 0 .. MaxChanges

\* No widget is on the home page twice, in no window and not in what is stored:
\* the page tells its widgets apart by id only.  The toolbar, the palette, the
\* checkboxes of the settings page and a drag all rewrite the whole layout.
LayoutDistinct ==
  \A layout \in {win[w].settings.homeLayout : w \in Windows}
                  \cup ({store.homeLayout : s \in {store} \ {None}} \ {None}) :
    \A i, j \in DOMAIN layout : layout[i].id = layout[j].id => i = j

\* During a drag the marked widget is the one the user picked, and the others
\* keep their order, although dragover events that follow each other faster
\* than the page is rendered compute the layout from an old one.
DragFollows ==
  \A w \in Windows :
    LET Others(layout) == Filter(layout, LAMBDA x : x.id # before[w].id)
        layout == win[w].settings.homeLayout
    IN win[w].drag # None =>
         /\ layout[win[w].drag].id = before[w].id
         /\ Others(layout) = Others(before[w].layout)

\* A window nobody saved after shows, once loaded again, what it shows now: no
\* change is lost, also when the store was reset or held an older version's
\* settings.  Not so for a home page without widgets (see MigratesLegacyOnly).
ReloadKeeps ==
  \A w \in fresh :
    win[w].settings.homeLayout # <<>> => Load(store) = win[w].settings

\* "Migrate legacy installs that only stored the on/off widget list."
\* (SettingsContext.tsx:122): other installs get the layout they stored.
MigratesLegacyOnly ==
  store # None /\ store.homeLayout # None =>
    Load(store).homeLayout = store.homeLayout
=============================================================================
