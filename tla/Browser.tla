------------------------------ MODULE Browser ------------------------------
(***************************************************************************)
(* Four modules about the page: its socket, its charts, the Crosswatch     *)
(* widget and the settings.  They share no state: in a behaviour only the  *)
(* one named by part moves, and the others rest in an initial state.       *)
(***************************************************************************)
EXTENDS Integers, Sequences, FiniteSets

CONSTANTS
  None,                                                        \* null
  Sockets, MaxFrames, MaxDowns, MaxSilent, MaxRemounts,        \* MetricsSocket
  Ranges, FirstRange, RANGE_MS, MaxPoints, MinGap, Skews,      \* MetricsChart
  Jumps, Retain, MaxLen, MaxTime, MaxLoads, MaxLoadFaults,
  Films, watchlist, watched, Brokens, MaxLate, BatchSize, MaxFaults, \* Crosswatch
  Windows, WIDGETS, defaultSpan, Presets, FirstTheme,          \* Settings
  Colours, Options, Containers, Legacy, MaxChanges

VARIABLES
  part,
  sock, pipe, lost, wsRef, timers, lastTimer, connection, frame, made, up, downs, remounts,
  now, server, samples, mounted, range, points, connected, loads, shown, chartFaults,
  session, configured, broken, hasTmdb, tab, seen, auth, logout, loading, error, loaded,
  fetching, cache, busy, batches, form, saveLost, faults,
  store, win, before, fresh, changes

socketVars == <<sock, pipe, lost, wsRef, timers, lastTimer, connection, frame, made,
                up, downs, remounts>>
chartVars == <<now, server, samples, mounted, range, points, connected, loads,
               shown, chartFaults>>
widgetVars == <<session, configured, broken, hasTmdb, tab, seen, auth, logout, loading,
                error, loaded, fetching, cache, busy, batches, form, saveLost, faults>>
settingsVars == <<store, win, before, fresh, changes>>
vars == <<part, socketVars, chartVars, widgetVars, settingsVars>>

Socket == INSTANCE MetricsSocket
Chart == INSTANCE MetricsChart WITH faults <- chartFaults, MaxFaults <- MaxLoadFaults
Widget == INSTANCE Crosswatch
Saved == INSTANCE Settings

\* A film is an id, or 0; no widget is defined twice; a theme has every colour;
\* and null is nothing else.
ASSUME BrowserAssumption ==
  /\ Sockets # {}
  /\ MaxFrames \in Nat /\ MaxDowns \in Nat /\ MaxSilent \in Nat /\ MaxRemounts \in Nat
  /\ FirstRange \in Ranges /\ RANGE_MS \in [Ranges -> Nat] /\ MinGap \in Nat \ {0}
  /\ MaxPoints \in [Ranges -> Nat \ {0}] /\ Skews \subseteq Int /\ Jumps \subseteq Int
  /\ Retain \in Nat /\ MaxLen \in Nat \ {0} /\ MaxTime \in Nat /\ MaxLoadFaults \in Nat
  /\ watchlist \in Seq(Films \cup {0}) /\ watched \in Seq(Films \cup {0})
  /\ Brokens \subseteq SUBSET Films /\ BatchSize \in Nat \ {0} /\ MaxFaults \in Nat
  /\ WIDGETS \in Seq(Saved!Ids)
  /\ \A i, j \in DOMAIN WIDGETS : WIDGETS[i] = WIDGETS[j] => i = j
  /\ defaultSpan \in [Saved!Ids -> {1, 2}] /\ Legacy \subseteq SUBSET Saved!Ids
  /\ FirstTheme \in DOMAIN Presets
  /\ \A theme \in DOMAIN Presets : DOMAIN Presets[theme] = Saved!Keys /\ Presets[theme] \in Saved!Palettes
  /\ MaxChanges \in Nat
  /\ None \notin Sockets /\ None \notin Nat /\ None \notin Saved!Layouts
  /\ None \notin Saved!Palettes /\ None \notin Saved!Stored(Saved!Layouts)
  /\ None \notin Saved!Stored({None})

Init ==
  /\ part \in {"socket", "chart", "widget", "settings"}
  /\ Socket!Init /\ Chart!Init /\ Widget!Init /\ Saved!Init
  /\ part # "chart" => server = 0
  /\ part # "widget" => session /\ ~hasTmdb /\ broken = {}
  /\ part # "settings" => store = None

Next ==
  /\ UNCHANGED part
  /\ \/ part = "socket" /\ Socket!Next /\ UNCHANGED <<chartVars, widgetVars, settingsVars>>
     \/ part = "chart" /\ Chart!Next /\ UNCHANGED <<socketVars, widgetVars, settingsVars>>
     \/ part = "widget" /\ Widget!Next /\ UNCHANGED <<socketVars, chartVars, settingsVars>>
     \/ part = "settings" /\ Saved!Next /\ UNCHANGED <<socketVars, chartVars, widgetVars>>

\* The fairness of the three components that have one, while they move.
SocketFairness ==
  WF_socketVars(part = "socket" /\ \E s \in Sockets :
                  Socket!Message(s) \/ Socket!Reconnect(s) \/ Socket!Opened(s) \/ Socket!Closed(s))

ChartFairness ==
  /\ WF_chartVars(part = "chart" /\ Chart!Tick)
  /\ WF_chartVars(part = "chart" /\ Chart!Poll)
  /\ WF_chartVars(part = "chart" /\ \E l \in loads : Chart!Answer(l))
  /\ WF_loads(part = "chart" /\ \E l \in loads : Chart!Arrives(l))

WidgetFairness ==
  /\ WF_widgetVars(part = "widget" /\ Widget!ListsResolve)
  /\ WF_widgetVars(part = "widget" /\ Widget!SaveReplies)
  /\ WF_widgetVars(part = "widget" /\ \E b \in batches : ~b.cancelled /\ Widget!EnrichStep(b))
  /\ WF_widgetVars(part = "widget" /\ \E i \in Widget!Calls :
                     Widget!MeHandled(i) \/ Widget!MeResolves(i))

Spec == Init /\ [][Next]_vars /\ SocketFairness /\ ChartFairness /\ WidgetFairness

-----------------------------------------------------------------------------
\* One socket or one timer feeds the page, and LIVE means an open socket.
FeedHonest == Socket!TypeOK /\ Socket!OneFeed /\ Socket!StatusHonest

\* The points of a chart are in order, if those of the server are, and without a hole.
ChartFaithful == Chart!TypeOK /\ Chart!Ordered /\ Chart!ChartComplete

\* One batch enriches the films at a time, and no account is a ghost.
BatchesSound == Widget!TypeOK /\ Widget!OneBatch /\ Widget!NoGhost

\* A drag moves the picked widget only, and no widget is there twice.
DragFollows == Saved!TypeOK /\ Saved!LayoutDistinct /\ Saved!DragFollows

\* Loading the page again shows the settings saved last.
ReloadKeeps == Saved!ReloadKeeps

\* Frames and points only get newer but for overlapping requests or remounts,
\* and a closed widget asks for nothing more.
NeverBack == Socket!FramesInOrder /\ Chart!NoRegress /\ Widget!CancelledQuiet

\* The page recovers from what failed: the socket, the charts, the films and
\* the waiting for replies.
Recovers ==
  /\ []<>(part = "socket") => Socket!ReconnectsForGood
  /\ []<>(part = "chart") => Chart!CatchesUp
  /\ []<>(part = "widget") => Widget!OthersEnriched /\ Widget!WaitingEnds
=============================================================================
