# TLA+ for the VPS dashboard

Models, model checks and proofs about the dashboard in `src/`: a Go backend
that collects host and container metrics, pushes them to browsers over
websockets, keeps a history for charts, streams container logs and holds a
Trakt OAuth session; and a React frontend that reconnects, polls, streams and
keeps its settings in `localStorage`.

Each module starts with a comment that says which files it is about;
`PROJECT.json` maps every definition to the lines it translates.

    tlc -workers 2 -config MCMetricsHub.cfg MCMetricsHub
    tlapm MetricsHubProofs.tla

## 1. The system

| Component | Code | State | Operations | Module |
|---|---|---|---|---|
| Websocket hub | `internal/server/websocket.go` | `Hub.clients`, three channels, a send channel and two pump goroutines per client | tick, register, unregister, hand out a frame, write, read, ping, evict | MetricsHub, FrameFeed |
| Metrics history | `internal/host/history.go` | ring of samples | `Record` (one writer), `Range` (requests) | MetricsHistory, Samples |
| Host collector | `internal/host/metrics.go` | previous counters, latest snapshot | `Collect`, called by the history's goroutine, the broadcaster and `GET /api/metrics` | Collector |
| Trakt credential store | `internal/trakt/credentials.go` | credentials, JSON file | `Update`, `SetRedirectURI`, `load`, `save` | CredentialStore |
| Trakt token store and session | `internal/trakt/store.go`, `oauth.go`, `client.go`, `internal/server/trakt_routes.go` | tokens, JSON file, a lock; the state Trakt keeps | login callback, refresh, API calls, `me`, logout | TraktTokens |
| Login redirect | `trakt_routes.go`, `oauth.go` | the configured redirect URI | derived at login, at the callback and at each refresh | TraktLogin |
| Docker monitor | `internal/docker/monitor.go` | none that lasts; a list and its inspections, two samples per container | `ListContainers`, `CollectStats` | ContainerPolls, ContainerStats |
| Log streaming | `internal/server/router.go` | a read buffer per request | read a chunk, cut and strip it, send events | LogStream, LogFrames |
| Metrics socket | `frontend/src/hooks/useMetricsSocket.ts` | a socket, a timer, the last frame | connect, open, message, close, reconnect, clean-up | MetricsSocket |
| Charts | `useMetricsHistory.ts`, `MetricsChart.tsx`, `HostMetrics.tsx` | points of a range, requests under way | poll, answer, extend by live readings, change of range | MetricsChart |
| List of containers | `useContainers.ts`, `ContainerList.tsx` | rows, flags, requests under way | poll, resolve, fail, pin | ContainerPolls |
| Log viewer | `useLogStream.ts`, `App.tsx`, `NavTabs.tsx` | lines, flags, the request under way | select, start, chunk, end, abort | LogStream |
| Trakt in the browser | `useCrosswatch.ts`, `useTraktAuth.ts`, `useTraktConfig.ts`, `CrosswatchWidget.tsx`, `SettingsPage.tsx` | account, lists, cache of films, a batch, a form | ask, log in and out, enrich in batches, save | Crosswatch |
| Settings | `SettingsContext.tsx`, `widgets.ts`, `HomePage.tsx`, `SettingsPage.tsx`, `ContainerList.tsx` | settings per window, one `localStorage` | load and migrate, update, edit, drag and drop, themes, pins, reset | Settings |
| Docker client, label parser, auth, config, static files, router | `internal/docker`, `internal/auth`, `internal/config`, `internal/server` | none that lasts | per request or at start | see section 5 |

Interaction. `main` starts three goroutines that live as long as the process:
`Collector.Run` (feeds the history), `Hub.Run` (owns the client map) and
`MetricsBroadcaster.Run` (collects and hands frames to the hub). HTTP handlers
run concurrently with them and with each other. They meet in the hub's channels,
in `Collector.mu`, `History.mu`, `CredentialStore.mu` and `Store.mu`, and in the
two files. The browser meets the server in the socket, in polls, in the body of a
log stream; its hooks share one page whose components are mounted and unmounted
by the tab. Trakt, TMDB, Docker, the network and the clocks are outside.

What makes it hard:

- *Hub*: a client is dropped by its own reader and by any number of eviction
  goroutines, while the hub goroutine is the only one that may close its
  channel; the hub must not wait for itself; four goroutines have to end one
  another when a browser disappears. Correct: no panic on a channel, no silent
  gap in what a client is sent, every goroutine ends.
- *History*: trimmed only from the front, by a clock that may be set back;
  bucketing by integer division. Correct: nothing recent is lost, nothing old
  kept, averages conserve what they average, their number is bounded.
- *Collector*: readings are taken outside the lock. Correct: a rate is one the
  interfaces could have carried, and no byte is counted twice.
- *Credential store*: memory is changed under the lock, the file is written
  after it is released, in place. Correct: what a request stored is in the file.
- *Token store*: each handler reads the store several times with HTTP calls in
  between; Trakt honours a refresh token once. Correct: file and memory agree
  whenever the lock is free, the user name belongs to the tokens, tokens are not
  given up without a reason.
- *Docker*: containers come and go between a list and what is asked about its
  members; counters are unsigned. Correct: a list is what ran at one moment, a
  percentage is one, what was skipped comes back.
- *Log stream*: reads end anywhere; the router cancels after 60 s; the user
  selects another container while a read is pending. Correct: no line of another
  container, no gap, the text is kept, the badge is true.
- *Browser*: polls overtake one another, sockets close late, a clean-up runs
  while requests are pending, drag events come faster than renders, two windows
  share a store. Correct: data only gets newer, one feed, one batch, no change
  lost, and recovery from what failed.

`PROJECT.json` lists every hazard at its line with the properties that are about
it.

## 2. The modules

### Backend

**FrameFeed** is what the hub promises, without channels: frames are published,
a subscriber is off, on or cut off, and gets each frame at most once, in order,
only those published while it is on. **MetricsHub** is the code. Its actions are
the cases of `Hub.Run`'s `select` (`HubRegister`, `HubUnregistersReader`,
`HubUnregistersEvictor`, `HubTakesFrame`), one iteration of its range loop
(`HubSends`), the tick of the broadcaster (`Broadcast`) and the steps of the two
pumps. `todo` is what is left of the range loop: while it is not empty the hub
takes no other case. `evictors[c]` counts goroutines blocked on
`h.unregister <- c`. A frame is the number of its tick. A send on, or a close
of, a closed channel sets `panicked`, after which the process does nothing.
`dispatched`, `joined` and `written` are history variables; the refinement
mapping to FrameFeed is built from them (`HandedOut`, `FeedStatus`).

**MetricsHistory**: `Collect` stamps a sample, `Record` appends and trims it;
`RangeBegins` reads the clock, `RangeReads` copies the window under the lock and
buckets the copy. The clock advances and, at most `MaxBack` times, is set back.
One value stands for the five averaged fields, which the code treats alike; a
bucket keeps the sum and the count, so that an average is exact where the code's
is a float. What the code does with a list of samples (trimming, the window, the
averages) is in **Samples**, which MetricsChart uses as well.

**Collector**: a call of `Collect` reads the byte counters (`ReadCounters`), then
the clock (`ReadClock`), then runs its part under the lock (`Locked`). A caller
is any goroutine; a caller that has finished may call again. `Tick` lets time
pass and the interfaces carry up to `Peak` bytes, `Shrink` takes away from the
sum what an interface that disappears had counted. A rate is kept as the bytes
and the time that the code divides. `read`, `carried`, `credited` and
`overlapped` are history.

**CredentialStore**: `Update` and `SetRedirectURI` up to the release of the lock,
then the steps of `save`: `Snapshot`, `Truncate`, `Write`. A string is its
length, because that decides what a write from offset 0 over a longer file
leaves: the longer one's tail, hence no JSON. `Restart` loses the requests and
loads the file over the environment's values.

**TraktTokens**: each handler is a sequence of steps per request, one for each
access to the store or call to Trakt. `lock` is `Store.mu` held for writing, over
the change of the tokens and of the file. A token is the generation Trakt
issued, its expiry and a user name; `owner` and `redeemed` are what Trakt knows.
Trakt answers, refuses, or redeems a refresh token whose answer is lost. A
refused or lost call may be followed by another request: the browser has no more
retry than that.

**TraktLogin** composes the credential store (`CS == INSTANCE CredentialStore`)
with the three places that use the redirect URI. A request of the store is here
a browser that logs in, whose callback ends in `CS!SetRedirectURI`, or one that
has the settings page open, which ends in `CS!Update` with the URI the page was
given (or, posted by another client, with any URI: `ConfigPosted`). `Login`,
`Callback` and `PageLoads` each read the URI in effect at their own moment. Trakt
accepts a code only with the URI it was issued for; what else may go wrong there
is `ExchangeFails`. `session` is the URI of the login whose tokens are stored;
`moved`, `edited` and `contended` are history variables.

**ContainerStats** is `CollectStats` as the broadcaster calls it: `List` takes
the running containers, `Ask` and `Answer` frame the two samples Docker takes of
one of them, `Skip` and `StatsFail` are the `continue`s, `Send` is the frame.
Containers stop, start again with counters at zero and disappear in between
(`Change`). `CPUDelta` subtracts modulo `Word`, as `uint64` does.

**LogFrames** is the byte level of `handleContainerLogs`: `Read` reads any number
of bytes up to the buffer, splits them at newlines and strips what looks like a
header. A byte is a member of a small set of kinds (low, size, newline, text),
because that is all the rules look at; a byte of the text has its place in the
log, so that one that is lost, repeated or moved is noticed. The length of a line
is written into its header digit by digit, so that any of its bytes may be low or a
newline. The text is UTF-8: `octet` says which byte of its character each is, in
any way a text of that length can be encoded, and a read may end within a
character. `jsonEscapeSSE` is what `json.Marshal` makes of a piece of bytes: each
byte that is not of a whole character in it becomes U+FFFD. The batch handler is the
operator `Stripped`: it writes the lines as bytes and converts nothing. The events
are compared to it.

### Server and browser together

**LogStream** is the line level: the tabs and the selection of `App`, the stream of
`useLogStream` and the handler that feeds it. A stream is one call of `start`
with its request; it has a client side (waiting for the response, reading, over)
and a server side. `Chunk` cuts the body anywhere, also within a line;
`HandlerReturns` is the end of the log, an aborted request, or the 60 s timeout of
the router; `ConnectionLost` and `Refused` are the faults. Selecting another
container or leaving the tab aborts the stream in the same step, as the browser
does before it runs another task.

**ContainerPolls**: `Poll` sends a request, also while others are under way (the
interval is changed, or an answer is slow); `List` and `Inspect` are what
`ListContainers` asks of Docker, with the containers changing in between;
`Resolve` and `Fails` are the two ends of `fetchContainers`; `TogglePin` and
`visible` are the list and the summary of the home page. `shown` is a history
variable: what ran when the rows on the page were listed.

### Browser

**MetricsSocket**: one action per task of the page: `Opened`, `Message`, `Closed`
(which schedules `Reconnect` whoever closed the socket), and `Remount`, the
clean-up and second run of the effect which StrictMode and module reloading cause
in development. The server goes and comes back; a connection may die without a
sign to either end (`DiesSilently`).

**MetricsChart**: `Poll`, `Answer`, `LoadFails` and `Resolve` are a load with its
cancellation by a change of range (`SetRange`) or of tab; `PropsChange` is a live
reading of the socket, which extends the points by the clock of the browser. The
server records a sample per tick by a clock of its own, which differs from the
browser's from the start and may be set, back too (`ServerClockSet`);
`ServerRestarts` empties the history. An answer is what `Range` makes of the ring,
in the ring's order and averaged when there are more samples than points
(`Mapped`, with the operators of Samples). The clock of the browser only advances
and is taken for the true time. The server reads its clock and its ring at one
moment; what may happen between the two is in MetricsHistory.

**Crosswatch**: three calls of `useTraktAuth` with a state each (`auth`), the lists
and their failure, `NextBatch` and `EnrichStep` for the enrichment by TMDB with its
`busy` flag and its cancellation, and the form of the settings page. `ClickTab`
unmounts both pages; a batch that waits for TMDB then runs until it sees its flag.

**Settings**: `Load` is `loadSettings` with its migration; `Update` saves the whole
of one window's settings; `ToggleEditing`, `DragStart`, `DragOver`, `DragEnd` and
`Toolbar` are the home page, where `DragOver` works on `seen`, what the last render
captured, until `Render`; `ToggleWidget`, `PickTheme`, `PickColour`, `EditHex`,
`ResetCustomColours`, `SetOption` and `ResetAll` are the settings page.

### Compositions, instances and proofs

**Host**, **Trakt**, **Containers** and **Browser** each hold several components
that share no state, as INSTANCEs over variables of their own: a variable `part`,
chosen initially, names the one that moves, and the others rest in an initial state.
The state space is the sum of theirs, not the product, and what a run or a theorem
says of the sum it says of each part; fairness is restated for the part that moves,
and a liveness property is asked of the behaviours of its part
(`[]<>(part = "socket") => ...`). Properties of the parts that answer one question
are conjoined under one name there. These modules also state the assumptions on the
constants (`HostAssumption`, ...): what kind of values they are, never how many.
Host has the history twice over the same variables: as the ring that is recorded
into, and as a window, a ring of any length that is already filled.

**Lists** has what the code does with lists: `Filter` keeps the items that pass a
test, in their order, and `SumList` is the accumulator of a loop. Both are explicit
(the k-th smallest of the places that are kept; the partial sums as a recursive
function), so that ListProofs can prove what they do.

`MC*` modules extend these and give constants; `*Proofs` only hold theorems.

## 3. The runs

| Run | Instance | Shows |
|---|---|---|
| `hub` | 2 clients, channels of 1, 3 frames | `TypeOK`, `NoChannelPanic`, `NoSilentGap`, `ServedIffOpen`; `ImplementsFeed`: every behaviour is one of FrameFeed |
| `hub_register` | 2 clients, 2 frames, fair | `RegistrationCompletes` |
| `hub_leak` | 1 client, 4 frames, fair | `NoGoroutineLeak`, `ServesOrCuts` |
| `host` | collector: 2 callers, clock to 3, 1 byte per tick, 1 reset; ring: retention 3, cap 3, 4 samples, clock to 4, set back once; window: every ordered ring of up to 6 samples over 9 instants, 1 to 4 points | `TypeOK`, `CreditedOnce`, `RateHonest`; `RingKept`, `ForgetsOld`; `ReplyConserves`, `ReplyIsReference`, `ReplyBounded` |
| `history_points` | ordered rings of up to 5 samples over 7 instants | the comment's bound on the number of buckets does not hold |
| `trakt` | store: 3 requests, lengths 0 to 2; login: 2 browsers on 2 hosts, 1 settings page, 3 URIs; 1 restart | `TraktTypeOK`, `DurableWhenSerial`, `SecretKept`; `RedirectKept`, `ExchangeMatchesLogin` |
| `credentials_disk` | 2 requests, no restart | two overlapping saves lose an update or leave no JSON |
| `login_refresh` | 2 browsers, no page, no restart | overlapping logins leave tokens of one and the URI of the other |
| `tokens` | 3 requests, 2 accounts, 3 generations, 1 restart | `TypeOK`, `Durable`, `UserMatchesGrant`, `ReplayHasCause`, `MeFindsTokens`, `SessionSound` (`SessionKept` and `SessionReturns`), `NobodyStuck` |
| `containers` | 2 containers; list: 2 polls, 2 changes, 1 fault; figures: counters of 8 values, 2 ticks, 2 changes, 1 fault; viewer: 2 streams, logs of 3 lines and 1, 2 lines kept, 2 events on the wire, 1 fault; framing: logs of 1 or 2 lines of lengths 1 to 3, or of one line of 4, 5 or 6, in characters of 1 to 3 bytes; headers of 3 bytes, 2 of them the length in base 3 with 2 for a newline; reads of up to 7 | `RowsHonest`, `NoRegress`, `LinesFaithful`, `TextKept`, and under fairness `Settles` |
| `browser` | socket: 4 objects, 3 frames, 2 outages, 1 silent death, 1 remount; charts: 2 ranges, of 2 and 4 ticks with 4 and 2 points, 2 ticks, 2 clocks of the server, set back by 2, a ring of 5, 2 requests, 1 fault; Trakt: 2 lists of 3 films, batches of 2, 4 sets of films TMDB fails for, 1 late batch, 1 fault; settings: 2 windows, 3 widgets, 2 themes, 2 changes | `FeedHonest`, `ChartFaithful`, `BatchesSound`, `DragFollows`, `ReloadKeeps`, `NeverBack`, and under fairness `Recovers` |
| `layout_reload` | 1 window, 2 widgets, 3 changes | a home page emptied by the user is filled again by the next load |

Why the bounds are enough to be of interest.

- *Hub.* Capacity 1 makes both channels full after one frame, so drops, evictions
  and several evictors of one client (3 frames) all happen, next to a second
  client that is served, registered or leaving at the same time. `hub_leak` has 4
  frames because what happens to one client does not depend on another, and a
  longer tail of frames after the loss tries every step of its goroutines.
- *Host.* Two callers of `Collect` are enough for one to be overtaken between each
  two of its three steps, and three ticks for the overtaken call to be followed
  by another. The history's clock runs beyond the retention, so samples are
  dropped by age, by cap and by both, including all at once after a gap. The
  window is the bounded-exhaustive test of `Range`: every spacing of six samples.
- *Trakt.* Two saves already reach every order of the three steps of `save`, three
  let one overwrite the damage of the others. Three requests for the tokens let
  a login, a refresh and a logout interleave, and let a refresh token be presented
  twice while a third request reads. Two hosts derive two URIs, so that any two of
  login, callback and settings page can disagree; the third URI is one that only
  another client of the API gives.
- *Containers.* Two polls overtake each other with a change before, between and
  after them. Two containers let one disappear while the other is inspected or
  sampled, or be selected while the stream of the other is pending. Three lines
  and room for two make the viewer forget one. Headers, buffer and lines keep the
  proportions that matter: a buffer shorter than two entries, lines whose headers end
  in a newline (2 and 5) or have one before a low byte (6), one that is empty (1), and
  ones that are neither (3, 4). A character of three bytes can be cut at two places.
- *Browser.* Four sockets are one more than an outage after a remount can leave
  alive. Two requests under way with three instants give every overtaking with a
  change of range. The server starts with three samples and records two more: the
  longer range with its two points is averaged, also when the clock was set back
  between the samples, and the shorter one is not. Three films in batches of two give a batch that is followed by
  another, and broken films that fill a batch or not; a list has a film without an
  id and a film twice. Three widgets are the fewest for which a wrong move changes
  the order of the others; two windows the fewest that overwrite each other.

Deadlock is not checked: in every run the bounded resource (frames, samples,
requests, changes) runs out and the system rightly stops.

### Fairness

`FairSpec` of **MetricsHub** asks weak fairness of goroutines that, once
runnable, stay so, and strong fairness of the cases of `Hub.Run`'s `select`: Go
picks among ready cases at random and serves the senders on a channel in order.
A write ends because it has a deadline of 10 s; a read is only obliged to end
once the connection is closed or the peer is gone, because the read deadline of
60 s is renewed by pongs only. Nothing obliges the broadcaster to tick, a browser
to come or go, or a ping to fail.

In the browser the fairness is that of the event loop: a task that is due runs.
**MetricsSocket** asks it of all socket events and timers together, and nothing of
the server. **MetricsChart** asks that the interval fires, that some request is
answered and some answer read as long as there is one, never that a particular one
is. The last is asked of `Arrives`, which is `Resolve` without the points: one can
happen whenever the other can, and each step that is an `Arrives` is a `Resolve`.
**Crosswatch** asks that requests are answered or fail and that a batch that
was not cancelled goes on. **ContainerPolls** and **ContainerStats** ask that polls
and the broadcaster's ticker go on and that Docker answers or fails, which the 60 s
timeout of the router bounds. **LogStream** asks that a handler that can write
does, that a stream ends by that timeout, and that the browser delivers what it
has received. No fault, click or change is ever obliged to happen or to stop other
than by its bound.

The remaining modules assume no fairness. That requests for the token store end
is stated without it, as `NobodyStuck`: one of those under way can always take a
step, and each takes finitely many.

### Where code and text disagree

- `history.go:74-75` promises at most `maxPoints` buckets. The width of a bucket
  is `span / maxPoints` rounded down, so the last sample has an index of at least
  `maxPoints`: `Range` returns one bucket more than asked for, several for short
  spans. `ReplyBounded` is what does hold.
- `credentials.go:24` says the store persists credentials to disk. `save` runs
  outside the lock, so of two overlapping changes the older may be written last,
  or the file may end up unreadable, and the next start falls back to the
  environment. `DurableWhenSerial` is what does hold.
- `credentials.go:14-16` says that after a login the redirect URI is persisted so
  that refreshes use the exact same value. `ExchangeCode` records the URI first
  and stores the tokens later, with a call to Trakt in between; two overlapping
  logins from two hosts can leave the tokens of one and the URI of the other.
  The settings page, too, sends back whatever URI it was given, or a blank one
  when it was given none. `RedirectKept` is what does hold.
- `SettingsContext.tsx:122` says the layout is rebuilt for legacy installs that
  only stored the on/off widget list. It is rebuilt whenever the stored layout is
  empty, so a home page whose last widget was removed is filled again by the next
  load. `ReloadKeeps` is what does hold.

### What the properties do not say

Two requests that overlap may end a session the user did not end: the loser of
two refreshes is refused and clears the winner's tokens, and a 401 for an old
token clears a newer login; the page does fetch watchlist and watched films in
parallel. A refresh under way may also store its tokens after a logout:
`SessionReturns` says that nothing else but a login brings a session back, short of a
kill before the file is removed, and that it is that of the account the refresh had
read. No text in the repository promises otherwise, so `SessionKept`, `ReplayHasCause` and
`MeFindsTokens` are stated for what the code does guarantee: requests that do
not overlap. `Durable` and `UserMatchesGrant` hold whatever overlaps.

In the same way the exceptions the properties of the browser name are behaviours
the code has: an answer that was overtaken does take list or chart back
(`NoRegress`); a container that restarts between the two samples of its own
answer shows a wrapped percentage (`RowsHonest`); a read that ends inside a header
loses text, and so does a header that reads as a newline and another header, as those
of lines of 2560 to 2562 bytes do (`TextKept`); a character of several bytes that a
read cuts is lost with the rest of the log unharmed, because each read is converted
to JSON by itself (`TextKept`); once the clock was set back a reply
need not have its slices in order, nor as few as promised (`ReplyIsReference`,
`ReplyBounded`), but loses no sample (`ReplyConserves`); the charts draw such a reply
as it comes, out of order, and where it is averaged a point may be far from the
samples it stands for (`ChartFaithful`); two sockets stay open after a remount, in development
only (`FeedHonest`); two windows overwrite each other's settings (`ReloadKeeps`);
films TMDB always fails for are asked for again for ever once they fill a batch,
and a save that gets no reply at all leaves its button waiting (`Recovers`). A
connection that dies without a sign is never noticed by the page.

`TextKept` is about logs with a header for each line, those of containers without a
terminal, whose text is UTF-8 without control characters. What the events hold of a
header that was not stripped is junk, before the conversion and after, and nothing is
said of it. Chunks of the answer may cut a character too (LogStream); there nothing is
lost, because the page decodes them as a stream.

The models take writing and removing files to succeed (`store.go:45`, `store.go:52`,
`credentials.go:74`), and `localStorage.setItem` (`SettingsContext.tsx:134-138`). The
code drops these errors: memory then has what the file or the browser does not, and
the next start or load shows what was there before. `Durable`, `DurableWhenSerial`,
`SecretKept`, `SessionSound` and `ReloadKeeps` hold of writes that do not fail.

## 4. The proofs

The theorems hold for every value of the constants that satisfies the named
assumptions of the module; TLC evaluates these on every run. Where a component is
proved about before it is put into its composition, its proof takes a premise
(`RingSensible`, `ChartSensible`, ...) that the composition's assumption implies: what
kind of values the constants are (numbers, films, layouts), that null is none of them,
and in one case that something finite is. Each `*Proofs` module states the inductive
invariants of its components, proves that they hold at the start and that every step
keeps them, and then what they mean; a composition's invariant is the conjunction of
its components', because a step of the whole is a step of one of them and leaves the
others alone.

**MetricsHubProofs**, for any set of clients, any capacities above zero and any
number of frames, from `HubAssumption` alone:

- `TypeCorrect`: `Spec => []TypeOK`. Inductive as it stands; the capacities come
  from the guards of `Broadcast` and `HubSends`.
- `ServedExactlyWhileOpen` and `NoPanic`: a registered client's channel is open
  and a closed one belongs to a client that is not registered. `NoChannelPanic`
  alone is not inductive: that the hub closes only channels of registered
  clients, and that the range loop visits only registered clients
  (`todo \subseteq clients`), is what excludes the panic.
- `NoGap`: what the client's channel accepted is what the hub handed out since it
  joined. The strengthening relates `todo`, `message` and the last frame of
  `dispatched` inside the range loop.

- `HubImplementsFeed`: `Spec => ImplementsFeed`. The invariant `OrderInv` adds that
  frames are numbered in the order of production (`Numbered`), that for each client
  what is buffered is newer than what is being written and that newer than what was
  written, all of it handed out to that client (`InOrder`), and that only a
  registered client's pumps close a connection (`Upgraded`). Taking a frame is then
  a `Publish`, registration a `Subscribe`, a successful write a `Deliver`, closing
  a connection a `Cut`, and every other step a stutter.

**TraktTokensProofs**, for any number of requests, accounts, tokens and restarts:

- `TokensDurable`: the invariant adds mutual exclusion (`Mutex`: whoever is between
  the change of the tokens and the release of the lock holds it) and what the
  holder is about to write (`Pending`).
- `UserMatches`: every token in the store, in the file or in a request's hands is
  one that Trakt issued, with no name or its owner's (`Held`, `Grants`).
- `MeSafeAlone`, `NoReplayAlone`, `SessionKeptAlone`: while requests have not
  overlapped, what the one under way has read is still what is stored (`Relies`,
  `Alone`), and the refresh token that is stored has not been used unless its answer
  was lost (`Unused`, `Cause`).
- `TokensTyped`: a request that is about to call the API holds a token (`Failed`), and
  what is stored was issued.
- `SessionReturnsByLogin`: an action property. The tokens a request is about to store
  are of the account whose tokens it read, and a refresh that goes on after somebody
  else gave the tokens up was overlapped (`RenewInv`, `Relies`); the file has tokens
  where memory has none only between a `Clear` and its `Remove` (`Mutex`).
  `SessionIsSound` is this and `SessionKeptAlone`.
- `SomebodyGoesOn`: what can be said of `NobodyStuck` without `ENABLED`. The lock is
  held over the change of memory and file and nothing else, never while Trakt is
  asked; so of the requests under way one waits for nobody.

**HostProofs**. The collector, for any callers, any traffic and any number of resets:

- `TypeCorrect`: a rate is never computed from a negative number of bytes; the
  guard `total >= prev.total` of the code is what the type of `rate` rests on.
- `EachByteOnce`: `CreditedOnce` says nothing of readings under way, so the
  invariant is an account (`Account`): what is credited, plus what a reading under
  way is due, plus what the counters have grown by since, is at most what was
  carried; and, until calls overlap, only one reading is under way.
- `RatesHonest`: each reading is bounded by what the interfaces can carry until the
  clock was read for it, across any number of overlapping callers.
- `HostCollects` says that the composition keeps to the collector's specification.

The history, for any retention, capacity, values and requests:

- `RingIsKept`: the ring is a suffix of what was recorded, and each sample that is
  missing was too old for the newest clock reading or has `MaxLen` newer ones behind it
  (`Kept`); until the clock is set back, stamps grow and none is from the future
  (`Timely`).
- `RingForgets`: an action property, from `Timely`: until the clock is set back the ring is in
  order of time, so that cutting the stale samples at its front leaves none.
- `AveragesConserve`: after i rounds of the loop of `Range`, the buckets and the
  accumulator together hold the first i samples, in number and in sum (`Holds`), also
  when the clock was set back and the samples are out of order.
- `RepliesAreReference`: the reference definition groups the samples by slice, the loop
  sees them one at a time. The invariant of the loop (`Sliced`) is exact: the buckets are
  the averages of the slices below the current one that have samples, in order
  (`BucketsOf`), and the accumulator has what was seen of the current one (`AccOf`). It
  needs the order of time, which holds until the clock is set back: a slice that was
  left is not returned to. `Answered` is this for the reply the history last gave.
- `ReplySize`: in an ordered window the buckets of slice k are at most k + 1 (`Few`), and
  there are at most `span \div dur + 1` slices: two for each point, and no more than
  points + 1 where the window is long.

**CredentialStoreProofs**: `SerialSavesDurable` and `SecretNeverBlanked`. While saves
neither overlap nor are cut short (`Serial`), one request saves at a time, its copy
is still what memory holds, it writes to an empty file, and between saves the file
brings every value back.

**TraktProofs**: the login and the store side by side.

- `CodeMatchesLogin` from `Sent` (whoever is at Trakt was sent there with the URI in
  effect now, unless the stored one has changed since).
- `RefreshUsesLoginURI`, whose invariant also needs of the store what
  CredentialStoreProofs proves, cited through an instance of it: every step of the login
  is a step of the store or leaves it alone.
- `TraktTypes`: URIs come from nowhere but requests, environment and hosts (`Uris`).
- `TraktDurable` and `SecretStays` carry the two theorems about the store over to the
  composition, for all of its behaviours.

**ContainersProofs**, for any containers, polls, streams, logs, capacities and widths of
counters:

- `RowsAreHonest`: each poll knows which containers it still has to inspect
  (`Gathered`), what is shown was complete when it was listed (`AllShown`); a container
  that was not restarted between its samples used no more time than passed, so that the
  modular difference is the real one (`SampleInv`).
- `OnlyOvertakenRegress`: a listing older than the one shown is known to be overtaken
  (`Newer`).
- `ViewerIsFaithful`: the invariant says where the bytes are. `abortRef` is the stream of
  the container in the viewer and the only open one (`RefInv`); for some m, the viewer
  shows the last of the first m lines, and buffer and wire hold, in order and without a
  gap, exactly the cells that were sent after them, at most one of them in the buffer
  (`InFlight`). A chunk that ends p more lines takes m to m + p, wherever it was cut.

- `TextIsKept`: what a read gives is described by stretches of the log (`Stretch`). A piece
  between newlines is one stretch, stripping only moves where it begins, and stripped
  stretches of consecutive reads follow one another (`ReadStretches`, `JoinStretches`):
  so what was written comes in order and once (`Kept`). Where no read ends inside a
  header and no header deceives, what stripping takes off is a header and no more
  (`StripsHeaders`), so that all text is covered. The conversion to JSON keeps the
  places of what it keeps, and keeps a byte exactly where its whole character is in the
  piece; a character that no read cuts lies within one piece, because a text has no
  newline in it. Where reads end with lines, stripping
  read by read gives what stripping the whole gives (`StrippedJoins`), which for headers
  without newlines is the text of the lines (`LinesAre`).

**BrowserProofs**, for any sockets, outages, ranges, clocks, requests, films, widgets,
windows and themes:

- `FeedIsHonest`: without a remount what lives is the socket of `wsRef`, and then no
  timer is pending (`SingleFeed`); sockets not yet closed and timers together are at
  most one more than the remounts (`SocketsCounted`): a socket that closes leaves one
  timer, and a timer that fires leaves one socket.
- `ChartIsFaithful`: requests of another range are cancelled (`LoadsHonest`), and the
  points begin with those of the answer they came from (`AnswerCovered`): live readings
  only ever extend them, and by points later than the last. What an answer is worth is
  `DownsampleThins`, about the loop of `Range`: of samples in order of time, the
  accumulator holds those of the current slice, whose average lies in the slice, and
  each slice before it has its bucket (`Thinned`); so the buckets rise, and one of them
  is less than the length of a slice away from each sample.
- `BatchesAreSound`: one batch at most is not cancelled, exactly while `busy` is set
  (`AtWork`); a session, an answer and an account shown all mean that a session was seen
  (`AccountSeen`).
- `DragsFollow`: the last render, too, satisfies what the property asks of the layout,
  with the index it captured (`WindowSound`): that is why a `dragover` that works on an
  old layout still moves the widget that was picked.
- `ReloadsKeep`: what is stored is a layout with no widget twice, or a legacy install
  (`SoundStore`), and the windows nobody saved after are those whose settings `Load` gives.
- `NothingGoesBack`: three action properties, from `FramesComing`, from `NewestShown` (an
  answer that could still replace the one shown was given no earlier, unless it was
  overtaken; by the true time, whatever the server's clock says) and from the types of
  the batches.

**ListProofs** has the lemmas all of these cite: what a list of the items at some places
holds, in which order and how many (`NthLists`, `AtProperties`); induction and recursion
over the natural numbers (`Induction`, `Recursion`), stated about a set and a function
rather than about an operator, which no prover here can instantiate; and from them what
the sum of a list is and how it grows (`SumsRecur`, `SumListProperties`), and what a list
selected by places becomes when it is extended (`AppendIs`, `AppendAt`); and what
integer division rounds to (`Division`, `DivisionBetween`).

Only model-checked: the liveness properties (`RegistrationCompletes`, `NoGoroutineLeak`,
`ServesOrCuts`, `Settles`, `Recovers`) and `NobodyStuck`, which is `ENABLED`: out of the
prover's reach. Every other property of a passing run is a theorem. The four
disagreements between code and text are counterexamples, which TLC finds.

## 5. Not modelled

- *Docker HTTP client, static files, configuration, build*: plain I/O, or read
  once at start. Docker's answers and failures are actions of the modules that use
  them.
- *Authentication middleware*: a stateless decision on the headers of one request.
- *Traefik label parser*: a pure function of the labels of one container. Its
  choice among several routers depends on the order of a Go map and on regular
  expressions over strings: wording rather than protocol.
- *Router*: routes that reach modelled handlers, and its timeout, are actions;
  middleware for CORS and the graceful shutdown are not. A kill at any moment is
  (`Restart`).
- *Components and styles*: what they do to state is modelled with the hooks.
  Formatting, SVG paths, markup and colours as CSS variables are not: no state
  depends on them.
- JSON is left out but for the conversion of logs; logging and HTTP headers are left
  out everywhere; a film is its TMDB id,
  a container its id, a colour a number.
