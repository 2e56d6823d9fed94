----------------------------- MODULE TraktLogin -----------------------------
(***************************************************************************)
(* The redirect URI of the Trakt login, composed of the credential store   *)
(* (module CredentialStore) and the three places that use it: handleTrakt- *)
(* Login sends the browser to Trakt with it, handleTraktCallback exchanges *)
(* the code with it, RefreshTokens refreshes with it.  Each of them reads  *)
(* it anew: it is the stored one or, when that is blank, derived from the  *)
(* host the browser used.  The settings page reads it and sends it back.   *)
(*                                                                         *)
(* A request of the store belongs to a browser here: one that logs in, or  *)
(* one that has the settings page open.  Both outlive a restart.           *)
(***************************************************************************)
EXTENDS Naturals, FiniteSets

CONSTANTS
  Browsers,    \* browsers that log in
  Pages,       \* browsers with the settings page open
  URIs,        \* redirect URIs, each represented by its length
  Hosts,       \* host names the dashboard is reached under
  HostOf,      \* the host of each URI
  Derived,     \* the URI derived from a request to each host
  Env,         \* the credentials the environment gives
  MaxCrashes   \* bound: restarts of the process

ASSUME LoginAssumption ==
  /\ URIs \subseteq Nat \ {0}
  /\ HostOf \in [URIs -> Hosts]
  /\ Derived \in [Hosts -> URIs]
  /\ \A h \in Hosts : HostOf[Derived[h]] = h
  /\ Browsers \cap Pages = {}

Requests == Browsers \cup Pages

VARIABLES
  creds, file, pc, snap, crashes, overlapped, interrupted,  \* CredentialStore
  flow,       \* per browser: where its login, or its editing, stands
  host,       \* per browser: the host it uses
  seen,       \* per browser: the redirect URI it was sent to Trakt with, or
              \* that the settings page shows (0: it could not be read)
  used,       \* per browser: the redirect URI its callback exchanges with
  session,    \* the redirect URI of the stored tokens' login (0: no tokens)
  moved,      \* history: browsers at Trakt while the effective URI changed
  edited,     \* history: the settings page changed the redirect URI
  contended   \* history: two callbacks were under way at the same time

storeVars == <<creds, file, pc, snap, crashes, overlapped, interrupted>>
flowVars  == <<flow, host, seen, used, session>>
vars == <<storeVars, flowVars, moved, edited, contended>>

CS == INSTANCE CredentialStore WITH Strings <- URIs \cup {0}

Flows == {"idle", "authorizing", "exchanging", "saving", "editing", "done"}

TypeOK ==
  /\ CS!TypeOK
  /\ flow \in [Requests -> Flows]
  /\ host \in [Requests -> Hosts]
  /\ {seen, used} \subseteq [Requests -> URIs \cup {0}]
  /\ \A r \in Requests : flow[r] = "authorizing" => seen[r] # 0
  /\ session \in URIs \cup {0}
  /\ moved \subseteq Browsers
  /\ edited \in BOOLEAN /\ contended \in BOOLEAN

Init ==
  /\ CS!Init
  /\ flow = [r \in Requests |-> "idle"]
  /\ host \in [Requests -> Hosts]
  /\ seen = [r \in Requests |-> 0] /\ used = [r \in Requests |-> 0]
  /\ session = 0
  /\ moved = {} /\ edited = FALSE /\ contended = FALSE

\* Mutant: a blank URI is not derived from the request.
EffectiveStored(h) == creds.redirect

\* effectiveRedirect for a request to host h.
Effective(h) == IF creds.redirect # 0 THEN creds.redirect ELSE Derived[h]

Configured == creds.id # 0 /\ creds.secret # 0

\* History only: whom a change of the stored URI finds at Trakt.
Moved ==
  moved' = IF creds'.redirect # creds.redirect
           THEN moved \cup {r \in Browsers : flow[r] = "authorizing"} ELSE moved

Enter(r, f) ==
  /\ flow' = [flow EXCEPT ![r] = f]
  /\ contended' = (contended \/
       Cardinality({b \in Browsers : flow'[b] \in {"exchanging", "saving"}}) > 1)

-----------------------------------------------------------------------------
(* A login *)

\* handleTraktLogin.
Login(r) ==
  /\ r \in Browsers /\ flow[r] = "idle" /\ Configured
  /\ Enter(r, "authorizing")
  /\ seen' = [seen EXCEPT ![r] = Effective(host[r])]
  /\ UNCHANGED <<storeVars, host, used, session, moved, edited>>

\* The browser comes back to another host than it logged in at: no state cookie.
CallbackWithoutCookie(r) ==
  /\ flow[r] = "authorizing" /\ HostOf[seen[r]] # host[r]
  /\ Enter(r, "done")
  /\ UNCHANGED <<storeVars, host, seen, used, session, moved, edited>>

\* Mutant: the callback only looks at its own request.
CallbackDerives(r) ==
  /\ flow[r] = "authorizing" /\ HostOf[seen[r]] = host[r]
  /\ Enter(r, "exchanging")
  /\ used' = [used EXCEPT ![r] = Derived[host[r]]]
  /\ UNCHANGED <<storeVars, host, seen, session, moved, edited>>

\* handleTraktCallback up to the exchange.
Callback(r) ==
  /\ flow[r] = "authorizing" /\ HostOf[seen[r]] = host[r]
  /\ Enter(r, "exchanging")
  /\ used' = [used EXCEPT ![r] = Effective(host[r])]
  /\ UNCHANGED <<storeVars, host, seen, session, moved, edited>>

\* Mutant: the URI is not recorded.
ExchangeAcceptedUnrecorded(r) ==
  /\ flow[r] = "exchanging" /\ used[r] = seen[r]
  /\ pc' = [pc EXCEPT ![r] = "done"]
  /\ Enter(r, "saving")
  /\ UNCHANGED <<creds, file, snap, crashes, overlapped, interrupted,
                 host, seen, used, session, moved, edited>>

\* Trakt accepts the code with the URI it was issued for, and no other one.
\* ExchangeCode then records the URI.
ExchangeAccepted(r) ==
  /\ flow[r] = "exchanging" /\ used[r] = seen[r]
  /\ CS!SetRedirectURI(r, used[r])
  /\ Enter(r, "saving")
  /\ Moved
  /\ UNCHANGED <<host, seen, used, session, edited>>

ExchangeFails(r) ==
  /\ flow[r] = "exchanging"
  /\ Enter(r, "done")
  /\ UNCHANGED <<storeVars, host, seen, used, session, moved, edited>>

\* SetRedirectURI has returned: ExchangeCode stores the tokens.
StoreTokens(r) ==
  /\ flow[r] = "saving" /\ pc[r] = "done"
  /\ session' = used[r]
  /\ Enter(r, "done")
  /\ UNCHANGED <<storeVars, host, seen, used, moved, edited>>

-----------------------------------------------------------------------------
(* The settings page *)

\* GET /api/trakt/config, answered or not.
PageLoads(r) ==
  /\ r \in Pages /\ flow[r] = "idle"
  /\ \E uri \in {0, Effective(host[r])} : seen' = [seen EXCEPT ![r] = uri]
  /\ Enter(r, "editing")
  /\ UNCHANGED <<storeVars, host, used, session, moved, edited>>

\* POST /api/trakt/config: the page sends back the URI it was given.
PageSaves(r) ==
  /\ flow[r] = "editing"
  /\ CS!Update(r, [id |-> creds.id, secret |-> 0, redirect |-> seen[r]])
  /\ Enter(r, "done")
  /\ Moved
  /\ edited' = (edited \/ creds'.redirect # creds.redirect)
  /\ UNCHANGED <<host, seen, used, session>>

\* POST /api/trakt/config from another client than the page, with any URI.
ConfigPosted(r) ==
  /\ r \in Pages /\ flow[r] = "idle"
  /\ \E uri \in URIs \cup {0} :
       CS!Update(r, [id |-> creds.id, secret |-> 0, redirect |-> uri])
  /\ Enter(r, "done")
  /\ Moved
  /\ edited' = (edited \/ creds'.redirect # creds.redirect)
  /\ UNCHANGED <<host, seen, used, session>>

-----------------------------------------------------------------------------

SaveStep(r) == CS!Save(r) /\ UNCHANGED <<flowVars, moved, edited, contended>>

\* Callbacks under way are lost; browsers at Trakt, open pages and the stored
\* tokens are not.
Restart ==
  /\ CS!Restart
  /\ flow' = [r \in Requests |->
                IF flow[r] \in {"exchanging", "saving"} THEN "done" ELSE flow[r]]
  /\ Moved
  /\ UNCHANGED <<host, seen, used, session, edited, contended>>

Next ==
  \/ \E r \in Requests :
       \/ Login(r) \/ CallbackWithoutCookie(r) \/ Callback(r)
       \/ ExchangeAccepted(r) \/ ExchangeFails(r) \/ StoreTokens(r)
       \/ PageLoads(r) \/ PageSaves(r) \/ ConfigPosted(r)
       \/ SaveStep(r)
  \/ Restart

Spec == Init /\ [][Next]_vars

-----------------------------------------------------------------------------

\* The code is exchanged with the URI Trakt issued it for, although login
\* and callback determine it separately and a restart may lie between them;
\* unless the stored URI changed while the user was at Trakt.
\* trakt_routes.go:17-30, 55, 74.
ExchangeMatchesLogin ==
  \A r \in Browsers : flow[r] = "exchanging" => used[r] = seen[r] \/ r \in moved

\* Refreshes use the URI of the login that gave the tokens, across any number of
\* further logins and restarts, unless the settings page changed it, two
\* callbacks overlapped, or a restart hit a save or found two saves' leavings.
RedirectKept ==
  (session # 0 /\ ~edited /\ ~contended /\ ~interrupted /\ (overlapped => crashes = 0))
    => creds.redirect = session

\* What credentials.go:14-16 says of the redirect URI: "Once a login succeeds it
\* is persisted so token refreshes use the exact same value".
RefreshMatchesLogin ==
  (session # 0 /\ \A r \in Browsers : flow[r] # "saving") => creds.redirect = session
=============================================================================
