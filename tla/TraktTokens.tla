----------------------------- MODULE TraktTokens -----------------------------
(***************************************************************************)
(* The Trakt session of the backend: the token store with its file         *)
(* (internal/trakt/store.go), the OAuth handler that obtains and refreshes *)
(* tokens (oauth.go), the API client (client.go), and the HTTP handlers    *)
(* that drive them concurrently (internal/server/trakt_routes.go).         *)
(*                                                                         *)
(* Store.mu is held over a change of the tokens in memory and the write of *)
(* the file, and over nothing else: a handler reads the store several      *)
(* times, with HTTP calls to Trakt in between.  A token is the generation  *)
(* number Trakt gave it, its expiry and the user name kept with it.  Trakt *)
(* itself is external: it may answer, refuse, or process a request whose   *)
(* answer is lost, and it honours each refresh token once.                 *)
(***************************************************************************)
EXTENDS Naturals, Sequences, FiniteSets

CONSTANTS
  Requests,    \* HTTP requests in one behaviour
  Users,       \* Trakt accounts
  Life,        \* lifetime of an access token
  Margin,      \* a token this close to its expiry is refreshed (5 minutes)
  MaxTime,     \* bound: the latest clock reading
  MaxGens,     \* bound: tokens issued
  MaxCrashes   \* bound: restarts of the process

NoName == "no name"

ASSUME TokenAssumption ==
  /\ Life \in Nat /\ Margin \in Nat /\ MaxTime \in Nat
  /\ MaxGens \in Nat \ {0} /\ MaxCrashes \in Nat
  /\ NoName \notin Users

VARIABLES
  now,         \* the clock
  tokens,      \* Store.tokens: at most one token
  file,        \* what load would find in the file: at most one token
  lock,        \* the request that holds Store.mu for writing, if any
  pc,          \* per request: what it does next
  kind,        \* per request: the handler that serves it
  snap,        \* per request: the token RefreshTokens or do read
  fresh,       \* per request: the token it is about to store
  answer,      \* per request: how it was answered
  owner,       \* Trakt: the account each generation was issued for
  redeemed,    \* Trakt: generations whose refresh token has been used
  crashes,     \* history: restarts so far
  overlapped,  \* history: two requests were active at the same time
  refused,     \* history: generations the program saw fail at Trakt
  lostAnswer,  \* history: Trakt redeemed a refresh token, its answer was lost
  replayed     \* history: a refresh token was presented after it was redeemed

storeVars == <<tokens, file, lock>>
traktVars == <<owner, redeemed, refused, lostAnswer, replayed>>
reqVars   == <<pc, kind, snap, fresh, answer, overlapped>>
vars == <<now, storeVars, traktVars, reqVars, crashes>>

Token == [gen : Nat, exp : Nat, user : Users \cup {NoName}]
Opt(S) == {s \in Seq(S) : Len(s) <= 1}

Kinds == {"me", "list", "logout", "callback"}
Steps == {"me", "meAgain", "listAuth", "listUser", "needsRefresh", "accessToken",
          "fetch", "refresh", "exchange", "code", "name", "set", "truncate",
          "write", "clear", "remove"}
Answers == {"none", "connected", "disconnected", "ok", "denied", "failed", "panic"}

Active == {r \in Requests : pc[r] \in Steps}

TypeOK ==
  /\ now \in 0..MaxTime
  /\ tokens \in Opt(Token) /\ file \in Opt(Token)
  /\ lock \subseteq Requests /\ Cardinality(lock) <= 1
  /\ pc \in [Requests -> Steps \cup {"idle", "done"}]
  /\ kind \in [Requests -> Kinds]
  /\ snap \in [Requests -> Opt(Token)] /\ fresh \in [Requests -> Opt(Token)]
  /\ answer \in [Requests -> Answers]
  /\ owner \in Seq(Users) /\ Len(owner) <= MaxGens
  /\ redeemed \subseteq DOMAIN owner /\ refused \subseteq DOMAIN owner
  /\ crashes \in 0..MaxCrashes
  /\ {overlapped, lostAnswer, replayed} \subseteq BOOLEAN

\* The file may hold the tokens of an earlier run; NewStore loads it.
Init ==
  /\ now = 0
  /\ \E u \in Users : owner \in {<<>>, <<u>>}
  /\ file = IF owner = <<>> THEN <<>> ELSE <<[gen |-> 1, exp |-> Life, user |-> owner[1]]>>
  /\ tokens = file /\ lock = {}
  /\ pc = [r \in Requests |-> "idle"]
  /\ kind = [r \in Requests |-> "me"]
  /\ snap = [r \in Requests |-> <<>>] /\ fresh = [r \in Requests |-> <<>>]
  /\ answer = [r \in Requests |-> "none"]
  /\ redeemed = {} /\ refused = {}
  /\ crashes = 0 /\ overlapped = FALSE /\ lostAnswer = FALSE /\ replayed = FALSE

-----------------------------------------------------------------------------

Expired(t)      == now > t.exp
NeedsRefresh(t) == now + Margin > t.exp

\* Store.Get waits for a writer.
CanRead == lock = {}

Goto(r, p) == pc' = [pc EXCEPT ![r] = p] /\ UNCHANGED <<kind, answer, overlapped>>

Reply(r, a) ==
  /\ pc' = [pc EXCEPT ![r] = "done"]
  /\ answer' = [answer EXCEPT ![r] = a]
  /\ UNCHANGED <<kind, overlapped>>

FirstStep(k) == CASE k = "me" -> "me" [] k = "list" -> "listAuth"
                  [] k = "logout" -> "clear" [] k = "callback" -> "code"

\* A request arrives.  The callback is one whose state cookie matched.
Arrive(r, k) ==
  /\ pc[r] = "idle"
  /\ pc' = [pc EXCEPT ![r] = FirstStep(k)]
  /\ kind' = [kind EXCEPT ![r] = k]
  /\ overlapped' = (overlapped \/ Active # {})
  /\ UNCHANGED <<now, storeVars, traktVars, snap, fresh, answer, crashes>>

Tick ==
  /\ now < MaxTime
  /\ now' = now + 1
  /\ UNCHANGED <<storeVars, traktVars, reqVars, crashes>>

-----------------------------------------------------------------------------
(* handleTraktMe *)

\* Mutant: nil tokens are not tested for.
MeUnchecked(r) ==
  /\ pc[r] = "me" /\ CanRead
  /\ IF tokens = <<>> THEN Reply(r, "panic")
     ELSE IF Expired(tokens[1]) THEN Goto(r, "refresh") ELSE Reply(r, "connected")
  /\ UNCHANGED <<now, storeVars, traktVars, snap, fresh, crashes>>

Me(r) ==
  /\ pc[r] = "me" /\ CanRead
  /\ \/ tokens = <<>> /\ Reply(r, "disconnected")
     \/ tokens # <<>> /\ Expired(tokens[1]) /\ Goto(r, "refresh")
     \/ tokens # <<>> /\ ~Expired(tokens[1]) /\ Reply(r, "connected")
  /\ UNCHANGED <<now, storeVars, traktVars, snap, fresh, crashes>>

\* After a refresh the store is read again and the result dereferenced.
MeAgain(r) ==
  /\ pc[r] = "meAgain" /\ CanRead
  /\ Reply(r, IF tokens = <<>> THEN "panic" ELSE "connected")
  /\ UNCHANGED <<now, storeVars, traktVars, snap, fresh, crashes>>

-----------------------------------------------------------------------------
(* handleTraktWatchlist and handleTraktWatched, Client.get and Client.do *)

\* IsAuthenticated.
ListAuth(r) ==
  /\ pc[r] = "listAuth" /\ CanRead
  /\ IF tokens = <<>> \/ Expired(tokens[1]) THEN Reply(r, "denied")
                                            ELSE Goto(r, "listUser")
  /\ UNCHANGED <<now, storeVars, traktVars, snap, fresh, crashes>>

ListUser(r) ==
  /\ pc[r] = "listUser" /\ CanRead
  /\ IF tokens = <<>> \/ tokens[1].user = NoName THEN Reply(r, "failed")
                                                 ELSE Goto(r, "needsRefresh")
  /\ UNCHANGED <<now, storeVars, traktVars, snap, fresh, crashes>>

\* RefreshIfNeeded up to the decision.
CheckRefresh(r) ==
  /\ pc[r] = "needsRefresh" /\ CanRead
  /\ Goto(r, IF tokens # <<>> /\ NeedsRefresh(tokens[1]) THEN "refresh"
                                                         ELSE "accessToken")
  /\ UNCHANGED <<now, storeVars, traktVars, snap, fresh, crashes>>

\* GetAccessToken.
AccessToken(r) ==
  /\ pc[r] = "accessToken" /\ CanRead
  /\ IF tokens = <<>> \/ Expired(tokens[1])
     THEN Reply(r, "failed") /\ UNCHANGED snap
     ELSE Goto(r, "fetch") /\ snap' = [snap EXCEPT ![r] = tokens]
  /\ UNCHANGED <<now, storeVars, traktVars, fresh, crashes>>

\* Mutant: any error status clears the tokens.
FetchClearsOnError(r) ==
  /\ pc[r] = "fetch"
  /\ Reply(r, "ok") \/ Goto(r, "clear")
  /\ UNCHANGED <<now, storeVars, traktVars, snap, fresh, crashes>>

\* The API call: an answer, an error, or 401, on which get clears the tokens.
Fetch(r) ==
  /\ pc[r] = "fetch"
  /\ \/ /\ \E a \in {"ok", "failed"} : Reply(r, a)
        /\ UNCHANGED traktVars
     \/ /\ Goto(r, "clear")
        /\ refused' = refused \cup {snap[r][1].gen}
        /\ UNCHANGED <<owner, redeemed, lostAnswer, replayed>>
  /\ UNCHANGED <<now, storeVars, snap, fresh, crashes>>

-----------------------------------------------------------------------------
(* RefreshTokens *)

\* A refresh gives up: handleTraktMe keeps the tokens, RefreshIfNeeded clears them.
RefreshFails(r) ==
  IF kind[r] = "me" THEN Reply(r, "disconnected") ELSE Goto(r, "clear")

Refresh(r) ==
  /\ pc[r] = "refresh" /\ CanRead
  /\ snap' = [snap EXCEPT ![r] = tokens]
  /\ IF tokens = <<>> THEN RefreshFails(r) ELSE Goto(r, "exchange")
  /\ UNCHANGED <<now, storeVars, traktVars, fresh, crashes>>

\* Trakt issues the next generation for account u.
Issue(u) == Len(owner) < MaxGens /\ owner' = Append(owner, u)

\* Mutant: the user name is read again when the answer is there.
RefreshedReadingName(r) ==
  [gen |-> Len(owner) + 1, exp |-> now + Life,
   user |-> IF tokens = <<>> THEN NoName ELSE tokens[1].user]

\* Mutant: the refresh token that was just used is stored again.
RefreshedNotRotated(r) ==
  [gen |-> snap[r][1].gen, exp |-> now + Life, user |-> snap[r][1].user]

\* The tokens RefreshTokens stores: new ones, under the user name it read.
Refreshed(r) ==
  [gen |-> Len(owner) + 1, exp |-> now + Life, user |-> snap[r][1].user]

\* doTokenRequest with the refresh token.
Exchange(r) ==
  /\ pc[r] = "exchange"
  /\ LET g == snap[r][1].gen
     IN  \/ /\ g \notin redeemed                       \* new tokens
            /\ Issue(owner[g])
            /\ fresh' = [fresh EXCEPT ![r] = <<Refreshed(r)>>]
            /\ Goto(r, "set")
            /\ redeemed' = redeemed \cup {g}
            /\ UNCHANGED <<refused, lostAnswer, replayed>>
         \/ /\ g \notin redeemed                       \* the answer is lost
            /\ RefreshFails(r)
            /\ redeemed' = redeemed \cup {g}
            /\ refused' = refused \cup {g}
            /\ lostAnswer' = TRUE
            /\ UNCHANGED <<owner, fresh, replayed>>
         \/ /\ RefreshFails(r)                         \* refused or unreachable
            /\ refused' = refused \cup {g}
            /\ replayed' = (replayed \/ g \in redeemed)
            /\ UNCHANGED <<owner, fresh, redeemed, lostAnswer>>
  /\ UNCHANGED <<now, storeVars, snap, crashes>>

-----------------------------------------------------------------------------
(* handleTraktCallback and ExchangeCode *)

\* doTokenRequest with the code; an account logs in.
ExchangeCode(r) ==
  /\ pc[r] = "code"
  /\ \/ /\ Reply(r, "failed")
        /\ UNCHANGED <<owner, fresh>>
     \/ /\ \E u \in Users : Issue(u)
        /\ fresh' = [fresh EXCEPT ![r] =
             <<[gen |-> Len(owner) + 1, exp |-> now + Life, user |-> NoName]>>]
        /\ Goto(r, "name")
  /\ UNCHANGED <<now, storeVars, snap, redeemed, refused, lostAnswer, replayed, crashes>>

\* fetchUsername with the new access token; its error is ignored.
FetchUsername(r) ==
  /\ pc[r] = "name"
  /\ \E u \in {NoName, owner[fresh[r][1].gen]} :
       fresh' = [fresh EXCEPT ![r] = <<[@[1] EXCEPT !.user = u]>>]
  /\ Goto(r, "set")
  /\ UNCHANGED <<now, storeVars, traktVars, snap, crashes>>

-----------------------------------------------------------------------------
(* Store.Set and Store.Clear, under Store.mu *)

\* Mutant: the lock is released before the file is written.
SetUnlocked(r) ==
  /\ pc[r] = "set" /\ lock = {}
  /\ tokens' = fresh[r]
  /\ Goto(r, "truncate")
  /\ UNCHANGED <<now, file, lock, traktVars, snap, fresh, crashes>>

\* Mutant: Store.mu is taken for reading only.
SetShared(r) ==
  /\ pc[r] = "set"
  /\ lock' = lock \cup {r}
  /\ tokens' = fresh[r]
  /\ Goto(r, "truncate")
  /\ UNCHANGED <<now, file, traktVars, snap, fresh, crashes>>

Set(r) ==
  /\ pc[r] = "set" /\ lock = {}
  /\ lock' = {r}
  /\ tokens' = fresh[r]
  /\ Goto(r, "truncate")
  /\ UNCHANGED <<now, file, traktVars, snap, fresh, crashes>>

Truncate(r) ==
  /\ pc[r] = "truncate"
  /\ file' = <<>>
  /\ Goto(r, "write")
  /\ UNCHANGED <<now, tokens, lock, traktVars, snap, fresh, crashes>>

Write(r) ==
  /\ pc[r] = "write"
  /\ file' = fresh[r]
  /\ lock' = {}
  /\ \/ kind[r] = "me" /\ Goto(r, "meAgain")
     \/ kind[r] = "list" /\ Goto(r, "accessToken")
     \/ kind[r] = "callback" /\ Reply(r, "ok")
  /\ UNCHANGED <<now, tokens, traktVars, snap, fresh, crashes>>

Clear(r) ==
  /\ pc[r] = "clear" /\ lock = {}
  /\ lock' = {r}
  /\ tokens' = <<>>
  /\ Goto(r, "remove")
  /\ UNCHANGED <<now, file, traktVars, snap, fresh, crashes>>

\* Mutant: an early return between lock and unlock.
RemoveKeepsLock(r) ==
  /\ pc[r] = "remove"
  /\ file' = <<>>
  /\ Reply(r, IF kind[r] = "logout" THEN "ok" ELSE "failed")
  /\ UNCHANGED <<now, tokens, lock, traktVars, snap, fresh, crashes>>

\* Mutant: save has nothing to do where there are no tokens.
RemoveLeavesFile(r) ==
  /\ pc[r] = "remove"
  /\ lock' = {}
  /\ Reply(r, IF kind[r] = "logout" THEN "ok" ELSE "failed")
  /\ UNCHANGED <<now, tokens, file, traktVars, snap, fresh, crashes>>

Remove(r) ==
  /\ pc[r] = "remove"
  /\ file' = <<>>
  /\ lock' = {}
  /\ Reply(r, IF kind[r] = "logout" THEN "ok" ELSE "failed")
  /\ UNCHANGED <<now, tokens, traktVars, snap, fresh, crashes>>

\* The process is killed and starts again; its requests are lost.
Restart ==
  /\ crashes < MaxCrashes
  /\ crashes' = crashes + 1
  /\ tokens' = file /\ lock' = {}
  /\ pc' = [r \in Requests |-> IF pc[r] = "idle" THEN "idle" ELSE "done"]
  /\ UNCHANGED <<now, file, traktVars, kind, snap, fresh, answer, overlapped>>

-----------------------------------------------------------------------------

Step(r) ==
  \/ Me(r) \/ MeAgain(r)
  \/ ListAuth(r) \/ ListUser(r) \/ CheckRefresh(r) \/ AccessToken(r) \/ Fetch(r)
  \/ Refresh(r) \/ Exchange(r)
  \/ ExchangeCode(r) \/ FetchUsername(r)
  \/ Set(r) \/ Truncate(r) \/ Write(r) \/ Clear(r) \/ Remove(r)

Next ==
  \/ Tick
  \/ \E r \in Requests : (\E k \in Kinds : Arrive(r, k)) \/ Step(r)
  \/ Restart

Spec == Init /\ [][Next]_vars

-----------------------------------------------------------------------------

\* Whenever no request holds the lock, a restart would find exactly the tokens in
\* memory: a completed logout stays a logout, a completed login a login, whatever
\* refreshes and clears ran at the same time.  store.go:43-77.
Durable == lock = {} => file = tokens

\* The user name shown belongs to the account the tokens were issued for, or is
\* missing, however logins of two accounts and refreshes interleave.
UserMatchesGrant ==
  tokens # <<>> => tokens[1].user \in {NoName, owner[tokens[1].gen]}

\* Trakt honours a refresh token once.  It is presented again only after two
\* requests overlapped, an answer was lost or the process was restarted.
ReplayHasCause == replayed => (overlapped \/ lostAnswer \/ crashes > 0)

\* While requests do not overlap, tokens are only given up by a logout, or after
\* Trakt failed those very tokens.
SessionKept ==
  [][\A r \in Requests :
       (Clear(r) /\ tokens # <<>> /\ ~overlapped) =>
         (kind[r] = "logout" \/ tokens[1].gen \in refused)]_vars

\* Where there is no session one begins only by a login; by a refresh that was
\* under way when another request gave the session up, and then as that of the
\* account it had read; or by a restart before the file of what was given up is
\* removed.  A logout that was answered, and no refresh overlapped, stays one.
\* oauth.go:112-139, store.go:65-77.
SessionReturns ==
  [][(tokens = <<>> /\ tokens' # <<>>) =>
       \/ \E r \in Requests : kind[r] = "callback" /\ Set(r)
       \/ /\ overlapped
          /\ \E r \in Requests : /\ Set(r) /\ snap[r] # <<>>
                                 /\ owner[fresh[r][1].gen] = owner[snap[r][1].gen]
       \/ Restart /\ \E r \in Requests : pc[r] = "remove"]_vars

\* A session neither ends nor begins without its cause.  oauth.go:112-149.
SessionSound == SessionKept /\ SessionReturns

\* handleTraktMe dereferences tokens it did not check (trakt_routes.go:110-115);
\* as long as requests do not overlap they are there.
MeFindsTokens == (\E r \in Requests : answer[r] = "panic") => overlapped

\* Requests never wait for one another in a circle: of those under way one can
\* always take its next step, so that each of them, having only finitely many to
\* take, is answered.  The lock is released on every path.  store.go:43-77.
NobodyStuck == Active # {} => \E r \in Active : ENABLED Step(r)
=============================================================================
