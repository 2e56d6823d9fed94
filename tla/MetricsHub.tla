----------------------------- MODULE MetricsHub -----------------------------
(***************************************************************************)
(* The websocket side of the backend, internal/server/websocket.go: the    *)
(* broadcaster goroutine, the hub goroutine (Hub.Run) and, for each        *)
(* websocket client, the handler goroutine that turns into readPump, the   *)
(* writePump goroutine, and the goroutines Hub.Run spawns to evict a       *)
(* client whose send channel is full.                                      *)
(*                                                                         *)
(* A frame is the number of the tick that produced it.  An element of      *)
(* Clients is one connection: a browser that reconnects is another one.    *)
(* Channel operations keep Go's semantics: register and unregister are     *)
(* unbuffered (sender and receiver step together), a receive on a closed   *)
(* channel first drains what was buffered, and a send on, or a close of, a *)
(* closed channel panics and takes the whole process down.                 *)
(***************************************************************************)
EXTENDS Naturals, Sequences, FiniteSets

CONSTANTS
  Clients,       \* the websocket connections of one run of the process
  SendCap,       \* capacity of Client.send (8 in the code)
  BroadcastCap,  \* capacity of Hub.broadcast (16 in the code)
  MaxFrames      \* bound: ticks of the broadcaster in one behaviour

ASSUME HubAssumption ==
  /\ SendCap \in Nat \ {0}
  /\ BroadcastCap \in Nat \ {0}
  /\ MaxFrames \in Nat

VARIABLES
  produced,    \* ticks so far: the number of the newest frame
  broadcast,   \* buffered frames of Hub.broadcast
  clients,     \* Hub.clients
  message,     \* the frame Hub.Run is handing out (0: none yet)
  todo,        \* clients the range loop over Hub.clients has still to visit
  send,        \* per client: buffered frames of Client.send
  closed,      \* per client: Client.send has been closed
  reader,      \* per client: where ServeWS, then readPump, stands
  writer,      \* per client: where writePump stands
  hand,        \* per client: the frame writePump is writing, if any
  conn,        \* per client: the server's end of the connection
  gone,        \* per client: the browser's end has disappeared
  evictors,    \* per client: goroutines blocked on h.unregister <- c
  panicked,    \* the process died of a channel panic
  dispatched,  \* history: frames Hub.Run has taken from broadcast
  joined,      \* history, per client: Len(dispatched) when it was registered
  written      \* history, per client: frames written to the connection

hubVars   == <<clients, message, todo, dispatched, joined>>
pumpVars  == <<reader, writer, hand, conn, gone, written>>
chanVars  == <<send, closed, panicked, evictors>>
vars == <<produced, broadcast, hubVars, pumpVars, chanVars>>

ReaderStates == {"absent", "registering", "reading", "unregistering", "closing", "done"}
WriterStates == {"absent", "select", "writing", "done"}
ConnStates   == {"none", "open", "closed"}

TypeOK ==
  /\ produced \in 0..MaxFrames
  /\ broadcast \in Seq(Nat) /\ Len(broadcast) <= BroadcastCap
  /\ clients \subseteq Clients
  /\ message \in Nat
  /\ todo \subseteq clients
  /\ send \in [Clients -> Seq(Nat)]
  /\ \A c \in Clients : Len(send[c]) <= SendCap
  /\ closed \in [Clients -> BOOLEAN]
  /\ reader \in [Clients -> ReaderStates]
  /\ writer \in [Clients -> WriterStates]
  /\ hand \in [Clients -> Seq(Nat)]
  /\ conn \in [Clients -> ConnStates]
  /\ gone \in [Clients -> BOOLEAN]
  /\ evictors \in [Clients -> Nat]
  /\ panicked \in BOOLEAN
  /\ dispatched \in Seq(Nat)
  /\ joined \in [Clients -> Nat]
  /\ written \in [Clients -> Seq(Nat)]

Init ==
  /\ produced = 0 /\ broadcast = <<>>
  /\ clients = {} /\ message = 0 /\ todo = {}
  /\ send = [c \in Clients |-> <<>>]
  /\ closed = [c \in Clients |-> FALSE]
  /\ reader = [c \in Clients |-> "absent"]
  /\ writer = [c \in Clients |-> "absent"]
  /\ hand = [c \in Clients |-> <<>>]
  /\ conn = [c \in Clients |-> "none"]
  /\ gone = [c \in Clients |-> FALSE]
  /\ evictors = [c \in Clients |-> 0]
  /\ panicked = FALSE
  /\ dispatched = <<>>
  /\ joined = [c \in Clients |-> 0]
  /\ written = [c \in Clients |-> <<>>]

-----------------------------------------------------------------------------
(* The broadcaster goroutine *)

\* Mutant: a plain send, as if the channel could never be full.
BroadcastUnbounded ==
  /\ produced < MaxFrames
  /\ produced' = produced + 1
  /\ broadcast' = Append(broadcast, produced + 1)
  /\ UNCHANGED <<hubVars, pumpVars, chanVars>>

\* One tick of MetricsBroadcaster.Run: broadcastOnce ends in Hub.Broadcast,
\* whose select drops the frame when the channel is full.  A tick whose host
\* collection fails produces no frame and changes nothing here.  Run returns when
\* main cancels its context: nothing obliges this action to happen again.
Broadcast ==
  /\ produced < MaxFrames
  /\ produced' = produced + 1
  /\ broadcast' = IF Len(broadcast) < BroadcastCap
                  THEN Append(broadcast, produced + 1)
                  ELSE broadcast
  /\ UNCHANGED <<hubVars, pumpVars, chanVars>>

-----------------------------------------------------------------------------
(* The hub goroutine: Hub.Run *)

InSelect == todo = {}

\* case client := <-h.register.  The handler unblocks and starts both pumps.
HubRegister(c) ==
  /\ InSelect
  /\ reader[c] = "registering"
  /\ clients' = clients \cup {c}
  /\ reader' = [reader EXCEPT ![c] = "reading"]
  /\ writer' = [writer EXCEPT ![c] = "select"]
  /\ joined' = [joined EXCEPT ![c] = Len(dispatched)]
  /\ UNCHANGED <<produced, broadcast, message, todo, dispatched,
                 hand, conn, gone, written, chanVars>>

\* Mutant: no membership test before delete and close.
UnregisterUnguarded(c) ==
  /\ clients' = clients \ {c}
  /\ closed' = [closed EXCEPT ![c] = TRUE]
  /\ panicked' = closed[c]

\* Mutant: the client is deleted, its channel left open.
UnregisterKeepsOpen(c) ==
  /\ clients' = clients \ {c}
  /\ UNCHANGED <<closed, panicked>>

\* The body of case client := <-h.unregister; close panics on a closed channel.
Unregister(c) ==
  \/ /\ c \in clients
     /\ clients' = clients \ {c}
     /\ closed' = [closed EXCEPT ![c] = TRUE]
     /\ panicked' = closed[c]
  \/ /\ c \notin clients
     /\ UNCHANGED <<clients, closed, panicked>>

HubUnregistersReader(c) ==
  /\ InSelect
  /\ reader[c] = "unregistering"
  /\ Unregister(c)
  /\ reader' = [reader EXCEPT ![c] = "closing"]
  /\ UNCHANGED <<produced, broadcast, message, todo, dispatched, joined,
                 writer, hand, conn, gone, written, send, evictors>>

HubUnregistersEvictor(c) ==
  /\ InSelect
  /\ evictors[c] > 0
  /\ Unregister(c)
  /\ evictors' = [evictors EXCEPT ![c] = @ - 1]
  /\ UNCHANGED <<produced, broadcast, message, todo, dispatched, joined,
                 pumpVars, send>>

\* case message := <-h.broadcast: the range loop begins, holding the read lock.
HubTakesFrame ==
  /\ InSelect
  /\ broadcast # <<>>
  /\ message' = Head(broadcast)
  /\ broadcast' = Tail(broadcast)
  /\ dispatched' = Append(dispatched, Head(broadcast))
  /\ todo' = clients
  /\ UNCHANGED <<produced, clients, joined, pumpVars, chanVars>>

\* Mutant: the default branch only drops the frame.
HubSendsOrSkips(c) ==
  /\ c \in todo
  /\ todo' = todo \ {c}
  /\ send' = [send EXCEPT ![c] = IF Len(@) < SendCap THEN Append(@, message) ELSE @]
  /\ UNCHANGED <<produced, broadcast, clients, message, dispatched, joined, pumpVars,
                 closed, panicked, evictors>>

\* Mutant: no default branch; Hub.Run waits for room in a full channel.
HubSendsBlocking(c) ==
  /\ c \in todo
  /\ Len(send[c]) < SendCap
  /\ todo' = todo \ {c}
  /\ send' = [send EXCEPT ![c] = Append(@, message)]
  /\ UNCHANGED <<produced, broadcast, clients, message, dispatched, joined, pumpVars,
                 closed, panicked, evictors>>

\* One iteration of the range loop, in map order: any order.  The default
\* branch spawns a goroutine that will ask Hub.Run itself to drop the client.
HubSends(c) ==
  /\ c \in todo
  /\ todo' = todo \ {c}
  /\ \/ /\ closed[c]
        /\ panicked' = TRUE
        /\ UNCHANGED <<send, evictors>>
     \/ /\ ~closed[c]
        /\ Len(send[c]) < SendCap
        /\ send' = [send EXCEPT ![c] = Append(@, message)]
        /\ UNCHANGED <<panicked, evictors>>
     \/ /\ ~closed[c]
        /\ Len(send[c]) = SendCap
        /\ evictors' = [evictors EXCEPT ![c] = @ + 1]
        /\ UNCHANGED <<panicked, send>>
  /\ UNCHANGED <<produced, broadcast, clients, message, dispatched, joined,
                 pumpVars, closed>>

-----------------------------------------------------------------------------
(* ServeWS and readPump: one goroutine after another for a client *)

\* ServeWS: a successful upgrade, then a blocking send on h.register.  A failed
\* upgrade creates no client.
ServeWS(c) ==
  /\ reader[c] = "absent"
  /\ reader' = [reader EXCEPT ![c] = "registering"]
  /\ conn' = [conn EXCEPT ![c] = "open"]
  /\ UNCHANGED <<produced, broadcast, hubVars, writer, hand, gone, written,
                 chanVars>>

\* ReadMessage fails: the connection is closed or lost, the 60s deadline passed
\* without a pong, or the browser sent more than 512 bytes.  Blocks on
\* h.unregister <- c.
ReadFails(c) ==
  /\ reader[c] = "reading"
  /\ reader' = [reader EXCEPT ![c] = "unregistering"]
  /\ UNCHANGED <<produced, broadcast, hubVars, writer, hand, conn, gone,
                 written, chanVars>>

\* The second statement of readPump's deferred function.
ReaderCloses(c) ==
  /\ reader[c] = "closing"
  /\ reader' = [reader EXCEPT ![c] = "done"]
  /\ conn' = [conn EXCEPT ![c] = "closed"]
  /\ UNCHANGED <<produced, broadcast, hubVars, writer, hand, gone, written,
                 chanVars>>

-----------------------------------------------------------------------------
(* writePump *)

\* Mutant: the deferred function does not close the connection.
WriterExitsKeepsConn(c) ==
  /\ writer' = [writer EXCEPT ![c] = "done"]
  /\ hand' = [hand EXCEPT ![c] = <<>>]
  /\ UNCHANGED <<produced, broadcast, hubVars, reader, conn, gone, written, chanVars>>

\* writePump returns: its deferred function stops the ticker, closes conn.
WriterExits(c) ==
  /\ writer' = [writer EXCEPT ![c] = "done"]
  /\ hand' = [hand EXCEPT ![c] = <<>>]
  /\ conn' = [conn EXCEPT ![c] = "closed"]
  /\ UNCHANGED <<produced, broadcast, hubVars, reader, gone, written,
                 chanVars>>

\* message, ok := <-c.send with a frame buffered, closed or not.
WriterTakesFrame(c) ==
  /\ writer[c] = "select"
  /\ send[c] # <<>>
  /\ writer' = [writer EXCEPT ![c] = "writing"]
  /\ hand' = [hand EXCEPT ![c] = <<Head(send[c])>>]
  /\ send' = [send EXCEPT ![c] = Tail(@)]
  /\ UNCHANGED <<produced, broadcast, hubVars, reader, conn, gone, written,
                 closed, panicked, evictors>>

\* The receive reports !ok: writes the close message, its error ignored.
WriterSeesClose(c) ==
  /\ writer[c] = "select"
  /\ send[c] = <<>>
  /\ closed[c]
  /\ WriterExits(c)

\* WriteMessage returns nil; the bytes may still be lost if the peer is gone.
WriteSucceeds(c) ==
  /\ writer[c] = "writing"
  /\ conn[c] = "open"
  /\ writer' = [writer EXCEPT ![c] = "select"]
  /\ written' = [written EXCEPT ![c] = @ \o hand[c]]
  /\ hand' = [hand EXCEPT ![c] = <<>>]
  /\ UNCHANGED <<produced, broadcast, hubVars, reader, conn, gone, chanVars>>

\* Mutant: a frame that could not be written is queued again for a retry.
WriteFailsRequeues(c) ==
  /\ writer[c] = "writing"
  /\ writer' = [writer EXCEPT ![c] = "select"]
  /\ hand' = [hand EXCEPT ![c] = <<>>]
  /\ send' = [send EXCEPT ![c] = @ \o hand[c]]
  /\ UNCHANGED <<produced, broadcast, hubVars, reader, conn, gone, written,
                 closed, panicked, evictors>>

\* WriteMessage fails: connection closed or lost, or the 10s deadline passed.
WriteFails(c) ==
  /\ writer[c] = "writing"
  /\ WriterExits(c)

\* The 30s ticker fires and the ping cannot be written.  A ping that is written
\* changes nothing here.
PingFails(c) ==
  /\ writer[c] = "select"
  /\ WriterExits(c)

\* The browser closes the page, or the network loses it.
PeerVanishes(c) ==
  /\ conn[c] = "open"
  /\ ~gone[c]
  /\ gone' = [gone EXCEPT ![c] = TRUE]
  /\ UNCHANGED <<produced, broadcast, hubVars, reader, writer, hand, conn,
                 written, chanVars>>

-----------------------------------------------------------------------------

Next ==
  /\ ~panicked
  /\ \/ Broadcast
     \/ HubTakesFrame
     \/ \E c \in Clients :
          \/ HubRegister(c) \/ HubUnregistersReader(c) \/ HubUnregistersEvictor(c)
          \/ HubSends(c)
          \/ ServeWS(c) \/ ReadFails(c) \/ ReaderCloses(c)
          \/ WriterTakesFrame(c) \/ WriterSeesClose(c)
          \/ WriteSucceeds(c) \/ WriteFails(c) \/ PingFails(c)
          \/ PeerVanishes(c)

Spec == Init /\ [][Next]_vars

\* Every goroutine that can run is eventually scheduled.  Hub.Run's select picks
\* uniformly among its ready cases and the senders on one channel queue up in
\* order, so a case that is ready again and again is eventually taken (SF).  A
\* write ends within its deadline; a read ends once its connection is closed or
\* its peer is gone (deadline), and need not end before.  Nothing obliges the
\* broadcaster to tick, a browser to connect or vanish, or a ping to fail.
ReadMustFail(c) == ReadFails(c) /\ (conn[c] = "closed" \/ gone[c])

Fairness ==
  /\ SF_vars(~panicked /\ HubTakesFrame)
  /\ \A c \in Clients :
       /\ SF_vars(~panicked /\ HubRegister(c))
       /\ SF_vars(~panicked /\ HubUnregistersReader(c))
       /\ SF_vars(~panicked /\ HubUnregistersEvictor(c))
       /\ WF_vars(~panicked /\ HubSends(c))
       /\ WF_vars(~panicked /\ ReadMustFail(c))
       /\ WF_vars(~panicked /\ ReaderCloses(c))
       /\ WF_vars(~panicked /\ (WriterTakesFrame(c) \/ WriterSeesClose(c)))
       /\ WF_vars(~panicked /\ (WriteSucceeds(c) \/ WriteFails(c)))

FairSpec == Spec /\ Fairness

-----------------------------------------------------------------------------
(* Safety *)

\* No goroutine ever sends on, or closes, a client channel that is already
\* closed, although two or more goroutines may ask Hub.Run to drop one client
\* (its own readPump and any number of evictors).  Hub.Run, websocket.go:62-79.
NoChannelPanic == ~panicked

\* Everything Hub.Run handed out to client c since c was registered.
Owed(c) == SubSeq(dispatched, joined[c] + 1,
                  Len(dispatched) - (IF c \in todo THEN 1 ELSE 0))

\* The frames c's send channel accepted, whether still buffered or written.
Accepted(c) == written[c] \o hand[c] \o send[c]

\* A client misses no frame silently: as long as it is registered, its
\* connection is open and no goroutine is on its way to evict it, what its
\* channel accepted is exactly what the hub handed out since it joined: no gap,
\* no duplicate, no reordering.  websocket.go:70-81 and 145-153.
NoSilentGap ==
  \A c \in clients :
    (evictors[c] = 0 /\ conn[c] = "open") => Accepted(c) = Owed(c)

\* A client that Hub.Run no longer serves is on its way out: its channel is
\* closed, so that writePump will end and close the connection, and it never
\* comes back to the map.  Conversely a registered client's channel is open.
ServedIffOpen ==
  \A c \in Clients :
    (c \in clients) <=> (~closed[c] /\ reader[c] \notin {"absent", "registering"})

-----------------------------------------------------------------------------
(* Liveness, under Fairness *)

\* ServeWS is not stuck on h.register behind broadcasts and evictions.
RegistrationCompletes ==
  \A c \in Clients : reader[c] = "registering" ~> c \in clients

\* No goroutine leaks: once the browser is gone or either pump has given up,
\* both pumps end, the client leaves the map, its channel is closed and no
\* evictor stays blocked on h.unregister, for ever.
Retired(c) ==
  /\ reader[c] = "done" /\ writer[c] = "done"
  /\ c \notin clients /\ closed[c] /\ evictors[c] = 0

NoGoroutineLeak ==
  \A c \in Clients :
    (gone[c] \/ writer[c] = "done" \/ reader[c] = "unregistering" \/ evictors[c] > 0)
       ~> []Retired(c)

\* Abstract specification: a lossy, ordered feed (module FrameFeed).  A frame is
\* pending for c when it is newer than everything written to c's connection.
HandedOut(c) ==
  IF reader[c] \in {"absent", "registering"} THEN {}
  ELSE {dispatched[i] : i \in joined[c] + 1 .. Len(dispatched)}

Newer(c, f) == \A i \in DOMAIN written[c] : written[c][i] < f

FeedStatus(c) ==
  IF reader[c] \in {"absent", "registering"} THEN "off"
  ELSE IF conn[c] = "closed" THEN "cut" ELSE "on"

Feed == INSTANCE FrameFeed WITH
  Subscribers <- Clients,
  Frames      <- 1..MaxFrames,
  published   <- {dispatched[i] : i \in DOMAIN dispatched},
  status      <- [c \in Clients |-> FeedStatus(c)],
  pending     <- [c \in Clients |->
                    IF FeedStatus(c) = "on"
                    THEN {f \in HandedOut(c) : Newer(c, f)} ELSE {}],
  got         <- written

\* The hub implements the feed: each subscriber receives, in order and without
\* duplicates, frames published after it subscribed and before it was cut off.
ImplementsFeed == Feed!Spec

\* ... and every frame published to a subscriber is delivered to it or the
\* subscriber is cut off: a slow browser is disconnected, not starved.
ServesOrCuts == Feed!ServesOrCuts
=============================================================================
