----------------------------- MODULE TraktProofs -----------------------------
(* Theorems about the Trakt login and, with it, the composed module Trakt: for *)
(* any finite number of browsers, open pages and other requests, any hosts and *)
(* redirect URIs and any number of restarts.  What they need of the store      *)
(* comes from CredentialStoreProofs, instantiated once for each of its users.  *)
EXTENDS Trakt, FiniteSetTheorems, TLAPS

\* The requests of the login are requests the store may get: the page sends back
\* the client id it was given, whatever it is.
CSP == INSTANCE CredentialStoreProofs WITH Strings <- Nat

\* What the login needs of the constants.
Sensible == IsFiniteSet(Requests) /\ Env \in CSP!Creds

\* The assumptions give it.
LEMMA LoginSensible == Sensible
<1>1. IsFiniteSet(Requests)
  BY TraktAssumption, FS_Union DEF Requests
<1>2. Env \in CSP!Creds
  <2>1. URIs \cup {0} \subseteq Nat
    BY LoginAssumption
  <2>2. Env \in [id : Nat, secret : Nat, redirect : Nat]
    BY <2>1, TraktAssumption
  <2>. QED
    BY <2>2 DEF CSP!Creds
<1>. QED
  BY <1>1, <1>2 DEF Sensible

-----------------------------------------------------------------------------
(* The code is exchanged with the URI it was issued for.                   *)

\* A browser at Trakt was sent there with the URI that is in effect now, and so
\* the callback takes the same one; unless the stored one has changed.
Sent ==
  \A r \in Browsers :
    /\ flow[r] = "authorizing" => seen[r] = Effective(host[r]) \/ r \in moved
    /\ flow[r] = "exchanging" => used[r] = seen[r] \/ r \in moved

SentInv == DOMAIN flow = Requests /\ DOMAIN seen = Requests /\ DOMAIN used = Requests /\ Sent

\* At the start nothing was sent to Trakt.
LEMMA SentInit == Init => SentInv
BY DEF Init, SentInv, Sent, Requests

\* The store may have changed; who was at Trakt is then in moved.
LEMMA SentMoved ==
  ASSUME SentInv, NEW r \in Requests, NEW f \in Flows \ {"authorizing", "exchanging"},
         flow' = [flow EXCEPT ![r] = f], Moved, UNCHANGED <<host, seen, used>>
  PROVE  SentInv'
<1>1. moved \subseteq moved'
  BY DEF Moved
<1>2. ASSUME NEW b \in Browsers, flow'[b] = "authorizing"
      PROVE  seen'[b] = Effective(host[b])' \/ b \in moved'
  <2>1. flow[b] = "authorizing"
    BY <1>2 DEF SentInv, Requests
  <2>2. CASE creds'.redirect = creds.redirect
    BY <1>1, <2>1, <2>2 DEF SentInv, Sent, Effective
  <2>3. CASE creds'.redirect # creds.redirect
    BY <2>1, <2>3 DEF Moved
  <2>. QED
    BY <2>2, <2>3
<1>3. ASSUME NEW b \in Browsers, flow'[b] = "exchanging"
      PROVE  used'[b] = seen'[b] \/ b \in moved'
  BY <1>1, <1>3 DEF SentInv, Sent, Requests
<1>. QED
  BY <1>2, <1>3 DEF SentInv, Sent

\* Every step keeps the redirects that were sent.
LEMMA SentStep == SentInv /\ [Next]_vars => SentInv'
<1> SUFFICES ASSUME SentInv, [Next]_vars PROVE SentInv'
  OBVIOUS
<1>1. ASSUME NEW r \in Requests, Login(r) PROVE SentInv'
  BY <1>1 DEF Login, Enter, storeVars, SentInv, Sent, Effective, Requests
<1>2. ASSUME NEW r \in Requests, CallbackWithoutCookie(r) \/ ExchangeFails(r) \/ StoreTokens(r)
      PROVE  SentInv'
  BY <1>2 DEF CallbackWithoutCookie, ExchangeFails, StoreTokens, Enter, storeVars,
     SentInv, Sent, Effective, Requests
<1>3. ASSUME NEW r \in Requests, Callback(r) PROVE SentInv'
  <2>1. flow[r] = "authorizing" /\ flow'[r] = "exchanging" /\ used'[r] = Effective(host[r])
    BY <1>3 DEF Callback, Enter, SentInv
  <2>2. UNCHANGED <<creds, host, seen, moved>>
        /\ \A q \in Requests \ {r} : flow'[q] = flow[q] /\ used'[q] = used[q]
    BY <1>3 DEF Callback, Enter, storeVars, SentInv
  <2>3. DOMAIN flow' = Requests /\ DOMAIN seen' = Requests /\ DOMAIN used' = Requests
    BY <1>3 DEF Callback, Enter, SentInv
  <2>4. Sent'
    BY <2>1, <2>2 DEF SentInv, Sent, Effective, Requests
  <2>. QED
    BY <2>3, <2>4 DEF SentInv
<1>4. ASSUME NEW r \in Requests, ExchangeAccepted(r) \/ PageSaves(r) \/ ConfigPosted(r)
      PROVE  SentInv'
  <2>1. /\ \E f \in {"saving", "done"} : flow' = [flow EXCEPT ![r] = f]
        /\ Moved /\ UNCHANGED <<host, seen, used>>
    BY <1>4 DEF ExchangeAccepted, PageSaves, ConfigPosted, Enter
  <2>. QED
    BY <2>1, SentMoved DEF Flows
<1>5. ASSUME NEW r \in Requests, PageLoads(r) PROVE SentInv'
  <2>1. r \notin Browsers
    BY <1>5, LoginAssumption DEF PageLoads
  <2>2. /\ UNCHANGED <<creds, host, used, moved>>
        /\ \A q \in Requests \ {r} : flow'[q] = flow[q] /\ seen'[q] = seen[q]
        /\ DOMAIN flow' = Requests /\ DOMAIN seen' = Requests
    BY <1>5 DEF PageLoads, Enter, storeVars, SentInv
  <2>. QED
    BY <2>1, <2>2 DEF SentInv, Sent, Effective, Requests
<1>6. ASSUME NEW r \in Requests, SaveStep(r) PROVE SentInv'
  <2>1. UNCHANGED <<creds, flow, host, seen, used, moved>>
    BY <1>6 DEF SaveStep, CS!Save, CS!Snapshot, CS!Truncate, CS!Write, flowVars
  <2>. QED
    BY <2>1 DEF SentInv, Sent, Effective
<1>7. CASE Restart
  <2>1. /\ DOMAIN flow' = Requests /\ UNCHANGED <<host, seen, used>> /\ Moved
        /\ \A q \in Requests : flow'[q] \in {flow[q], "done"} /\ flow'[q] # "exchanging"
    BY <1>7 DEF Restart
  <2>2. moved \subseteq moved'
    BY <2>1 DEF Moved
  <2>3. ASSUME NEW b \in Browsers, flow'[b] = "authorizing"
        PROVE  seen'[b] = Effective(host[b])' \/ b \in moved'
    <3>1. flow[b] = "authorizing"
      BY <2>1, <2>3 DEF Requests
    <3>2. CASE creds'.redirect = creds.redirect
      BY <2>1, <2>2, <3>1, <3>2 DEF SentInv, Sent, Effective
    <3>3. CASE creds'.redirect # creds.redirect
      BY <2>1, <3>1, <3>3 DEF Moved
    <3>. QED
      BY <3>2, <3>3
  <2>. QED
    BY <2>1, <2>3 DEF SentInv, Sent, Requests
<1>8. CASE UNCHANGED vars
  BY <1>8 DEF vars, storeVars, flowVars, SentInv, Sent, Effective
<1>. QED
  BY <1>1, <1>2, <1>3, <1>4, <1>5, <1>6, <1>7, <1>8 DEF Next

\* The login and the callback determine the redirect URI each for itself, and
\* agree, also with a restart between them, unless the stored URI changed
\* meanwhile; for any number of logins, of pages and of other clients.
THEOREM CodeMatchesLogin == Spec => []ExchangeMatchesLogin
<1>1. SentInv => ExchangeMatchesLogin
  BY DEF SentInv, Sent, ExchangeMatchesLogin
<1>. QED
  BY SentInit, SentStep, <1>1, PTL DEF Spec
-----------------------------------------------------------------------------
(* Refreshes use the URI of the login that gave the tokens.                *)

\* The callbacks under way.
Inside(b) == flow[b] \in {"exchanging", "saving"}

\* The state of the browsers; what is exchanged is no blank URI.
Shape ==
  /\ flow \in [Requests -> Flows] /\ host \in [Requests -> Hosts]
  /\ seen \in [Requests -> Nat] /\ used \in [Requests -> Nat]
  /\ crashes \in Nat
  /\ \A r \in Requests : /\ flow[r] = "authorizing" \/ Inside(r) => r \in Browsers
                         /\ Inside(r) => used[r] # 0

LoginInv == Shape /\ CSP!SerialInv

\* Without an edit of the page, with one callback at a time and saves that are
\* not cut short, and with no restart after saves that overlapped.
Premise == ~edited /\ ~contended /\ ~interrupted /\ (overlapped => crashes = 0)

\* The stored URI is the one of the tokens, and a login that is under way uses
\* it too; one that finds none gives its own to both.
Agrees ==
  /\ session # 0 => creds.redirect = session
  /\ \A b \in Browsers :
       /\ flow[b] = "exchanging" => creds.redirect \in {0, used[b]}
       /\ flow[b] = "saving" => creds.redirect = used[b]
  /\ \A b, c \in Browsers : Inside(b) /\ Inside(c) => b = c

KeptInv == LoginInv /\ (Premise => Agrees)

\* Both instances of the store count alike.
LEMMA SameGoto ==
  ASSUME NEW r, NEW p, CS!Goto(r, p) PROVE CSP!Goto(r, p)
BY DEF CS!Goto, CSP!Goto, CS!Saving, CSP!Saving, CS!Cardinality, CSP!Cardinality

\* Every step is one of the store, or leaves it alone.
LEMMA StoreStep ==
  ASSUME Sensible, Shape, CSP!Shape, [Next]_vars PROVE [CSP!Next]_(CSP!vars)
<1>1. ASSUME NEW r \in Requests, Login(r) \/ CallbackWithoutCookie(r) \/ Callback(r)
             \/ ExchangeFails(r) \/ StoreTokens(r) \/ PageLoads(r)
      PROVE  UNCHANGED CSP!vars
  BY <1>1 DEF Login, CallbackWithoutCookie, Callback, ExchangeFails, StoreTokens, PageLoads,
     storeVars, CSP!vars
<1>2. ASSUME NEW r \in Requests, ExchangeAccepted(r) PROVE CSP!Next
  <2>1. used[r] \in Nat \ {0} /\ CSP!SetRedirectURI(r, used[r])
    BY <1>2, SameGoto DEF ExchangeAccepted, Shape, Inside, CS!SetRedirectURI, CSP!SetRedirectURI
  <2>. QED
    BY <2>1 DEF CSP!Next
<1>3. ASSUME NEW r \in Requests, NEW uri \in Nat,
             CS!Update(r, [id |-> creds.id, secret |-> 0, redirect |-> uri])
      PROVE  CSP!Next
  <2>1. [id |-> creds.id, secret |-> 0, redirect |-> uri] \in
          [id : Nat, secret : Nat, redirect : Nat]
    BY DEF CSP!Shape, CSP!Creds
  <2>2. CSP!Update(r, [id |-> creds.id, secret |-> 0, redirect |-> uri])
    BY <1>3, SameGoto DEF CS!Update, CSP!Update, CS!Merged, CSP!Merged
  <2>. QED
    BY <2>1, <2>2 DEF CSP!Next
<1>4. ASSUME NEW r \in Requests, PageSaves(r) \/ ConfigPosted(r) PROVE CSP!Next
  <2>1. seen[r] \in Nat /\ URIs \cup {0} \subseteq Nat
    BY LoginAssumption DEF Shape
  <2>. QED
    BY <1>3, <1>4, <2>1 DEF PageSaves, ConfigPosted
<1>5. ASSUME NEW r \in Requests, SaveStep(r) PROVE CSP!Next
  <2>1. CSP!Save(r)
    BY <1>5, SameGoto DEF SaveStep, CS!Save, CS!Snapshot, CS!Truncate, CS!Write,
       CS!Written, CS!Size, CSP!Save, CSP!Snapshot, CSP!Truncate, CSP!Write,
       CSP!Written, CSP!Size
  <2>. QED
    BY <2>1 DEF CSP!Next
<1>6. CASE Restart
  BY <1>6 DEF Restart, CS!Restart, CSP!Restart, CS!Load, CSP!Load, CS!Saving, CSP!Saving,
     CSP!Next
<1>7. CASE UNCHANGED vars
  BY <1>7 DEF vars, storeVars, CSP!vars
<1>. QED
  BY <1>1, <1>2, <1>4, <1>5, <1>6, <1>7 DEF Next

\* What the credential store proves of its saves holds of the composed system.
LEMMA StoreInv ==
  ASSUME Sensible, LoginInv, [Next]_vars PROVE CSP!SerialInv' /\ CSP!Shape
<1>1. CSP!Sensible
  BY DEF Sensible, CSP!Sensible, IsFiniteSet, CSP!IsFiniteSet
<1>2. CSP!Shape
  BY DEF LoginInv, CSP!SerialInv
<1>3. [CSP!Next]_(CSP!vars)
  BY <1>2, StoreStep DEF LoginInv
<1>. QED
  BY <1>1, <1>2, <1>3, CSP!SerialStep DEF LoginInv

\* The URI that is in effect is never blank.
LEMMA EffectiveType ==
  ASSUME CSP!Shape, NEW h \in Hosts PROVE Effective(h) \in Nat \ {0}
<1>1. creds.redirect \in Nat
  BY DEF CSP!Shape, CSP!Creds
<1>. QED
  BY <1>1, LoginAssumption DEF Effective

\* The inductive invariant of the login holds at the start.
LEMMA LoginInit == Sensible /\ Init => LoginInv
<1> SUFFICES ASSUME Sensible, Init PROVE LoginInv
  OBVIOUS
<1>1. CSP!Sensible
  BY DEF Sensible, CSP!Sensible, IsFiniteSet, CSP!IsFiniteSet
<1>2. CSP!Init
  BY DEF Init, CS!Init, CSP!Init, CS!Missing, CSP!Missing, CS!Load, CSP!Load
<1>3. CSP!SerialInv
  BY <1>1, <1>2, CSP!SerialInit
<1>4. Shape
  BY <1>2 DEF Init, Shape, Flows, Inside, CSP!Init
<1>. QED
  BY <1>3, <1>4 DEF LoginInv

\* Every step keeps the types.
LEMMA ShapeStep ==
  ASSUME Sensible, LoginInv, [Next]_vars PROVE Shape'
<1>t. Shape /\ CSP!Shape
  BY StoreInv DEF LoginInv
<1>e. \A r \in Requests : Effective(host[r]) \in Nat \ {0}
  BY <1>t, EffectiveType DEF Shape
<1>1. ASSUME NEW r \in Requests, Login(r) PROVE Shape'
  BY <1>1, <1>t, <1>e DEF Login, Enter, storeVars, Shape, Flows, Inside
<1>2. ASSUME NEW r \in Requests, CallbackWithoutCookie(r) \/ ExchangeFails(r) \/ StoreTokens(r)
      PROVE  Shape'
  BY <1>2, <1>t DEF CallbackWithoutCookie, ExchangeFails, StoreTokens, Enter, storeVars,
     Shape, Flows, Inside
<1>3. ASSUME NEW r \in Requests, Callback(r) PROVE Shape'
  BY <1>3, <1>t, <1>e DEF Callback, Enter, storeVars, Shape, Flows, Inside
<1>4. ASSUME NEW r \in Requests, ExchangeAccepted(r) \/ PageSaves(r) \/ ConfigPosted(r)
      PROVE  Shape'
  <2>1. UNCHANGED <<host, seen, used, crashes>>
    BY <1>4 DEF ExchangeAccepted, PageSaves, ConfigPosted, CS!SetRedirectURI, CS!Update
  <2>2. \/ flow[r] = "exchanging" /\ flow' = [flow EXCEPT ![r] = "saving"]
        \/ flow' = [flow EXCEPT ![r] = "done"]
    BY <1>4 DEF ExchangeAccepted, PageSaves, ConfigPosted, Enter
  <2>. QED
    BY <1>t, <2>1, <2>2 DEF Shape, Flows, Inside
<1>5. ASSUME NEW r \in Requests, PageLoads(r) PROVE Shape'
  BY <1>5, <1>t, <1>e DEF PageLoads, Enter, storeVars, Shape, Flows, Inside
<1>6. ASSUME NEW r \in Requests, SaveStep(r) PROVE Shape'
  <2>1. UNCHANGED <<flow, host, seen, used, crashes>>
    BY <1>6 DEF SaveStep, CS!Save, CS!Snapshot, CS!Truncate, CS!Write, flowVars
  <2>. QED
    BY <1>t, <2>1 DEF Shape, Inside
<1>7. CASE Restart
  <2>1. crashes' \in Nat /\ UNCHANGED <<host, seen, used>>
    BY <1>7, <1>t DEF Restart, CS!Restart, Shape
  <2>2. flow' = [r \in Requests |-> IF flow[r] \in {"exchanging", "saving"} THEN "done" ELSE flow[r]]
    BY <1>7 DEF Restart
  <2>. QED
    BY <1>t, <2>1, <2>2 DEF Shape, Flows, Inside
<1>8. CASE UNCHANGED vars
  BY <1>8, <1>t DEF vars, storeVars, flowVars, Shape, Inside
<1>. QED
  BY <1>1, <1>2, <1>3, <1>4, <1>5, <1>6, <1>7, <1>8 DEF Next

\* Two callbacks under way are seen by contended.
LEMMA TwoCallbacks ==
  ASSUME Sensible, NEW r, NEW f, Enter(r, f), ~contended',
         NEW b \in Browsers, NEW c \in Browsers, Inside(b)', Inside(c)'
  PROVE  b = c /\ ~contended
<1> DEFINE B == {x \in Browsers : flow'[x] \in {"exchanging", "saving"}}
<1>1. ~contended /\ ~(Cardinality(B) > 1)
  BY DEF Enter
<1>2. b \in B /\ c \in B /\ B \in SUBSET Requests
  BY DEF Inside, Requests
<1> HIDE DEF B
<1>3. IsFiniteSet(B) /\ Cardinality(B) \in Nat
  BY <1>2, FS_Subset, FS_CardinalityType DEF Sensible
<1>4. Cardinality(B) = 0 \/ Cardinality(B) = 1
  BY <1>1, <1>3
<1>5. B = {} \/ \E x : B = {x}
  BY <1>3, <1>4, FS_EmptySet, FS_Singleton
<1>. QED
  BY <1>1, <1>2, <1>5
\* The premise has held ever since if it holds.
LEMMA PremiseBefore ==
  ASSUME Sensible, LoginInv, [Next]_vars, Premise' PROVE Premise
<1>1. crashes \in Nat
  BY DEF LoginInv, Shape
<1>2. ASSUME NEW r \in Requests, Login(r) \/ CallbackWithoutCookie(r) \/ Callback(r)
             \/ ExchangeFails(r) \/ StoreTokens(r) \/ PageLoads(r)
      PROVE  Premise
  <2>1. /\ UNCHANGED <<interrupted, crashes, overlapped, edited>>
        /\ (contended => contended')
    BY <1>2, Zenon DEF Login, CallbackWithoutCookie, Callback, ExchangeFails, StoreTokens,
       PageLoads, Enter, storeVars
  <2>. QED
    BY <2>1 DEF Premise
<1>3. ASSUME NEW r \in Requests, ExchangeAccepted(r) \/ PageSaves(r) \/ ConfigPosted(r)
      PROVE  Premise
  <2>1. /\ UNCHANGED <<interrupted, crashes>> /\ (overlapped => overlapped')
        /\ (contended => contended') /\ (edited => edited')
    <3>1. /\ UNCHANGED <<interrupted, crashes>> /\ \E p : CS!Goto(r, p)
          /\ \E f : Enter(r, f)
      BY <1>3 DEF ExchangeAccepted, PageSaves, ConfigPosted, CS!SetRedirectURI, CS!Update
    <3>2. edited => edited'
      BY <1>3, Zenon DEF ExchangeAccepted, PageSaves, ConfigPosted
    <3>3. (overlapped => overlapped') /\ (contended => contended')
      BY <3>1, Zenon DEF CS!Goto, Enter
    <3>. QED
      BY <3>1, <3>2, <3>3
  <2>. QED
    BY <2>1 DEF Premise
<1>4. ASSUME NEW r \in Requests, SaveStep(r) PROVE Premise
  <2>1. UNCHANGED <<interrupted, crashes, contended, edited>> /\ (overlapped => overlapped')
    BY <1>4 DEF SaveStep, CS!Save, CS!Snapshot, CS!Truncate, CS!Write, CS!Goto
  <2>. QED
    BY <2>1 DEF Premise
<1>5. CASE Restart
  <2>1. /\ UNCHANGED <<overlapped, edited, contended>> /\ crashes' = crashes + 1
        /\ (interrupted => interrupted')
    BY <1>5, Zenon DEF Restart, CS!Restart
  <2>. QED
    BY <1>1, <2>1 DEF Premise
<1>6. CASE UNCHANGED vars
  BY <1>6 DEF vars, storeVars, Premise
<1>. QED
  BY <1>2, <1>3, <1>4, <1>5, <1>6 DEF Next

\* Every step keeps the redirects of the tokens and of the logins under way.
LEMMA KeptStep == Sensible /\ KeptInv /\ [Next]_vars => KeptInv'
<1> SUFFICES ASSUME Sensible, KeptInv, [Next]_vars, Premise' PROVE Agrees'
  BY ShapeStep, StoreInv DEF KeptInv, LoginInv
<1>i. LoginInv
  BY DEF KeptInv
<1>t. Shape /\ CSP!Shape
  BY <1>i, StoreInv DEF LoginInv
<1>a. Premise /\ Agrees
  BY <1>i, PremiseBefore DEF KeptInv
<1>c. /\ ~contended'
      /\ \A r, f : Enter(r, f) => \A b, c \in Browsers : Inside(b)' /\ Inside(c)' => b = c
  BY TwoCallbacks DEF Premise
<1>f. \A r : \A f : Enter(r, f) => flow' = [flow EXCEPT ![r] = f]
  BY DEF Enter
<1>1. ASSUME NEW r \in Requests, NEW f \in {"authorizing", "done", "editing"}, Enter(r, f),
             UNCHANGED <<creds, used, session>>
      PROVE  Agrees'
  <2>1. \A b \in Browsers : flow'[b] \in {"exchanging", "saving"} => flow'[b] = flow[b]
    BY <1>1, <1>t, <1>f DEF Shape, Requests
  <2>. QED
    BY <1>1, <1>a, <1>c, <2>1 DEF Agrees
<1>2. ASSUME NEW r \in Requests,
             Login(r) \/ CallbackWithoutCookie(r) \/ ExchangeFails(r) \/ PageLoads(r)
      PROVE  Agrees'
  <2>1. UNCHANGED <<creds, used, session>>
    BY <1>2 DEF Login, CallbackWithoutCookie, ExchangeFails, PageLoads, storeVars
  <2>2. \E f \in {"authorizing", "done", "editing"} : Enter(r, f)
    BY <1>2 DEF Login, CallbackWithoutCookie, ExchangeFails, PageLoads
  <2>. QED
    BY <1>1, <2>1, <2>2
<1>3. ASSUME NEW r \in Requests, Callback(r) PROVE Agrees'
  <2>1. /\ flow'[r] = "exchanging" /\ used'[r] = Effective(host[r])
        /\ \A b \in Browsers \ {r} : flow'[b] = flow[b] /\ used'[b] = used[b]
        /\ UNCHANGED <<creds, session>> /\ Enter(r, "exchanging")
    BY <1>3, <1>t, <1>f DEF Callback, Shape, storeVars, Requests
  <2>2. creds.redirect \in {0, used'[r]}
    BY <2>1 DEF Effective
  <2>. QED
    BY <1>a, <1>c, <2>1, <2>2 DEF Agrees
<1>4. ASSUME NEW r \in Requests, ExchangeAccepted(r) PROVE Agrees'
  <2>1. /\ flow[r] = "exchanging" /\ flow'[r] = "saving" /\ r \in Browsers
        /\ UNCHANGED <<used, session>> /\ Enter(r, "saving")
    BY <1>4, <1>t, <1>f DEF ExchangeAccepted, Shape, Inside
  <2>2. creds'.redirect = used[r]
    BY <1>4, <1>t DEF ExchangeAccepted, CS!SetRedirectURI, CSP!Shape, CSP!Creds
  <2>3. session # 0 => used[r] = session
    BY <1>a, <2>1 DEF Agrees
  <2>4. \A b \in Browsers : Inside(b)' => b = r
    BY <1>c, <2>1 DEF Inside
  <2>. QED
    BY <1>c, <2>1, <2>2, <2>3, <2>4 DEF Agrees, Inside
<1>5. ASSUME NEW r \in Requests, StoreTokens(r) PROVE Agrees'
  <2>1. /\ flow[r] = "saving" /\ flow'[r] = "done" /\ r \in Browsers /\ session' = used[r]
        /\ UNCHANGED <<creds, used>> /\ Enter(r, "done")
        /\ \A b \in Browsers \ {r} : flow'[b] = flow[b]
    BY <1>5, <1>t, <1>f DEF StoreTokens, Shape, Inside, storeVars, Requests
  <2>2. creds.redirect = used[r]
    BY <1>a, <2>1 DEF Agrees
  <2>. QED
    BY <1>a, <1>c, <2>1, <2>2 DEF Agrees
<1>6. ASSUME NEW r \in Requests, PageSaves(r) \/ ConfigPosted(r) PROVE Agrees'
  <2>1. /\ creds'.redirect = creds.redirect /\ UNCHANGED <<used, session>> /\ Enter(r, "done")
    BY <1>6 DEF PageSaves, ConfigPosted, Premise
  <2>2. \A b \in Browsers : flow'[b] \in {"exchanging", "saving"} => flow'[b] = flow[b]
    BY <2>1, <1>t, <1>f DEF Shape, Requests
  <2>. QED
    BY <1>a, <1>c, <2>1, <2>2 DEF Agrees
<1>7. ASSUME NEW r \in Requests, SaveStep(r) PROVE Agrees'
  <2>1. UNCHANGED <<creds, flow, used, session>>
    BY <1>7 DEF SaveStep, CS!Save, CS!Snapshot, CS!Truncate, CS!Write, flowVars
  <2>. QED
    BY <1>a, <2>1 DEF Agrees, Inside
<1>8. CASE Restart
  <2>1. /\ creds' = CSP!Load(file) /\ ~interrupted /\ ~overlapped /\ UNCHANGED session
        /\ CS!Saving(pc) = {}
    <3>1. /\ creds' = CS!Load(file) /\ UNCHANGED <<overlapped, session>> /\ crashes' = crashes + 1
          /\ (interrupted \/ CS!Saving(pc) # {} => interrupted')
      BY <1>8, Zenon DEF Restart, CS!Restart
    <3>2. crashes + 1 # 0
      BY <1>t DEF Shape
    <3>3. CS!Load(file) = CSP!Load(file)
      BY DEF CS!Load, CSP!Load
    <3>. QED
      BY <3>1, <3>2, <3>3 DEF Premise
  <2>2. CSP!Durable
    BY <1>i, <2>1 DEF LoginInv, CSP!SerialInv, CSP!Serial, CSP!Busy, CS!Saving
  <2>3. creds.redirect # 0 => creds'.redirect = creds.redirect
    BY <1>t, <2>1, <2>2 DEF CSP!Durable, CSP!Shape, CSP!Creds
  <2>4. \A b \in Browsers : ~(Inside(b)') /\ flow'[b] \notin {"exchanging", "saving"}
    BY <1>8 DEF Restart, Inside, Requests
  <2>. QED
    BY <1>a, <2>1, <2>3, <2>4 DEF Agrees
<1>9. CASE UNCHANGED vars
  BY <1>9, <1>a DEF vars, storeVars, flowVars, Agrees, Inside
<1>. QED
  BY <1>2, <1>3, <1>4, <1>5, <1>6, <1>7, <1>8, <1>9 DEF Next

\* A refresh uses the redirect URI of the login that gave the tokens, across any
\* number of further logins and restarts; what the settings page, overlapping
\* callbacks, interrupted saves, or a restart after overlapping ones can do to
\* it is excepted.
THEOREM RefreshUsesLoginURI == Spec => []RedirectKept
<1>1. KeptInv => RedirectKept
  BY DEF KeptInv, Premise, Agrees, RedirectKept
<1>2. Init => KeptInv
  <2>1. Init => Agrees
    BY DEF Init, Agrees, Inside, Requests
  <2>. QED
    BY <2>1, LoginInit, LoginSensible DEF KeptInv
<1>3. KeptInv /\ [Next]_vars => KeptInv'
  BY KeptStep, LoginSensible
<1>. QED
  BY <1>1, <1>2, <1>3, PTL DEF Spec
-----------------------------------------------------------------------------
(* The login and the store keep their types.                               *)

\* Redirect URIs, blank or not, come from nowhere but the requests, the
\* environment and the requests' hosts.
Redirects == URIs \cup {0}

Uris ==
  /\ creds.redirect \in Redirects /\ file.creds.redirect \in Redirects
  /\ \A r \in Requests : snap[r].redirect \in Redirects
  /\ seen \in [Requests -> Redirects] /\ used \in [Requests -> Redirects]
  /\ session \in Redirects
  /\ \A r \in Requests : flow[r] = "authorizing" => seen[r] # 0

\* The histories.
Histories == moved \subseteq Browsers /\ edited \in BOOLEAN /\ contended \in BOOLEAN

\* The URI that is in effect is one that is not blank.
LEMMA EffectiveUri ==
  ASSUME Uris, NEW h \in Hosts PROVE Effective(h) \in Redirects /\ Effective(h) # 0
BY LoginAssumption DEF Uris, Redirects, Effective

\* What the file brings back was stored, or is the environment's.
LEMMA LoadUri ==
  ASSUME CSP!Shape, Uris PROVE CSP!Load(file).redirect \in Redirects
<1>1. DOMAIN file.creds = {"id", "secret", "redirect"}
  BY DEF CSP!Shape, CSP!Creds
<1>2. Env.redirect \in Redirects
  BY TraktAssumption DEF Redirects
<1>. QED
  BY <1>1, <1>2 DEF CSP!Load, Uris

\* At the start every redirect is one of those there are.
LEMMA UrisInit == Init => Uris
<1> SUFFICES ASSUME Init PROVE Uris
  OBVIOUS
<1>1. creds = Env /\ file.creds = Env /\ snap = [r \in Requests |-> Env]
  BY DEF Init, CS!Init, CS!Missing, CS!Load
<1>2. Env.redirect \in Redirects /\ 0 \in Redirects
  BY TraktAssumption DEF Redirects
<1>. QED
  BY <1>1, <1>2 DEF Init, Uris

\* Every step keeps the redirects to those there are.
LEMMA UrisStep ==
  ASSUME LoginInv, Uris, [Next]_vars PROVE Uris'
<1>t. Shape /\ CSP!Shape
  BY DEF LoginInv, CSP!SerialInv
<1>e. \A r \in Requests : Effective(host[r]) \in Redirects /\ Effective(host[r]) # 0
  BY <1>t, EffectiveUri DEF Shape
<1>z. 0 \in Redirects
  BY DEF Redirects
<1>s. ASSUME UNCHANGED storeVars
      PROVE  /\ creds'.redirect \in Redirects /\ file'.creds.redirect \in Redirects
             /\ \A r \in Requests : snap'[r].redirect \in Redirects
  BY <1>s DEF storeVars, Uris
<1>1. ASSUME NEW r \in Requests, Login(r) PROVE Uris'
  <2>1. UNCHANGED <<used, session>> /\ seen' = [seen EXCEPT ![r] = Effective(host[r])]
        /\ flow' = [flow EXCEPT ![r] = "authorizing"] /\ UNCHANGED storeVars
    BY <1>1 DEF Login, Enter
  <2>. QED
    BY <1>t, <1>e, <1>s, <2>1 DEF Uris, Shape
<1>2. ASSUME NEW r \in Requests, CallbackWithoutCookie(r) \/ ExchangeFails(r) PROVE Uris'
  <2>1. UNCHANGED <<seen, used, session>> /\ flow' = [flow EXCEPT ![r] = "done"]
        /\ UNCHANGED storeVars
    BY <1>2 DEF CallbackWithoutCookie, ExchangeFails, Enter
  <2>. QED
    BY <1>t, <1>s, <2>1 DEF Uris, Shape
<1>3. ASSUME NEW r \in Requests, StoreTokens(r) PROVE Uris'
  <2>1. UNCHANGED <<seen, used>> /\ session' = used[r] /\ flow' = [flow EXCEPT ![r] = "done"]
        /\ UNCHANGED storeVars
    BY <1>3 DEF StoreTokens, Enter
  <2>. QED
    BY <1>t, <1>s, <2>1 DEF Uris, Shape
<1>4. ASSUME NEW r \in Requests, Callback(r) PROVE Uris'
  <2>1. UNCHANGED <<seen, session>> /\ used' = [used EXCEPT ![r] = Effective(host[r])]
        /\ flow' = [flow EXCEPT ![r] = "exchanging"] /\ UNCHANGED storeVars
    BY <1>4 DEF Callback, Enter
  <2>. QED
    BY <1>t, <1>e, <1>s, <2>1 DEF Uris, Shape
<1>5. ASSUME NEW r \in Requests, PageLoads(r) PROVE Uris'
  <2>1. UNCHANGED <<used, session>> /\ flow' = [flow EXCEPT ![r] = "editing"]
        /\ UNCHANGED storeVars
        /\ \E uri \in {0, Effective(host[r])} : seen' = [seen EXCEPT ![r] = uri]
    BY <1>5 DEF PageLoads, Enter
  <2>. QED
    BY <1>t, <1>e, <1>s, <1>z, <2>1 DEF Uris, Shape
<1>6. ASSUME NEW r \in Requests, ExchangeAccepted(r) PROVE Uris'
  <2>1. UNCHANGED <<seen, used, session, file, snap>> /\ flow' = [flow EXCEPT ![r] = "saving"]
        /\ creds' = [creds EXCEPT !.redirect = used[r]]
    BY <1>6 DEF ExchangeAccepted, Enter, CS!SetRedirectURI
  <2>2. creds'.redirect \in Redirects
    BY <1>t, <2>1 DEF Uris, CSP!Shape, CSP!Creds
  <2>. QED
    BY <1>t, <2>1, <2>2 DEF Uris, Shape
<1>7. ASSUME NEW r \in Requests, PageSaves(r) \/ ConfigPosted(r) PROVE Uris'
  <2>1. UNCHANGED <<seen, used, session, file, snap>> /\ flow' = [flow EXCEPT ![r] = "done"]
        /\ \E uri \in Redirects :
             creds' = CS!Merged(creds, [id |-> creds.id, secret |-> 0, redirect |-> uri])
    BY <1>7 DEF PageSaves, ConfigPosted, Enter, CS!Update, Uris, Redirects
  <2>2. creds'.redirect \in Redirects
    BY <2>1 DEF CS!Merged
  <2>. QED
    BY <1>t, <2>1, <2>2 DEF Uris, Shape
<1>8. ASSUME NEW r \in Requests, SaveStep(r) PROVE Uris'
  <2>1. UNCHANGED <<creds, flow, seen, used, session>>
    BY <1>8 DEF SaveStep, CS!Save, CS!Snapshot, CS!Truncate, CS!Write, flowVars
  <2>2. \/ snap' = [snap EXCEPT ![r] = creds] /\ UNCHANGED file
        \/ UNCHANGED snap /\ file'.creds \in {file.creds, snap[r]}
    <3>1. CASE CS!Snapshot(r)
      BY <3>1 DEF CS!Snapshot
    <3>2. CASE CS!Truncate(r)
      BY <3>2, <1>t DEF CS!Truncate, CSP!Shape
    <3>3. CASE CS!Write(r)
      BY <3>3, <1>t DEF CS!Write, CS!Written, CSP!Shape
    <3>. QED
      BY <1>8, <3>1, <3>2, <3>3 DEF SaveStep, CS!Save
  <2>3. /\ file'.creds.redirect \in Redirects
        /\ \A q \in Requests : snap'[q].redirect \in Redirects
    BY <1>t, <2>2 DEF Uris, CSP!Shape
  <2>. QED
    BY <2>1, <2>3 DEF Uris
<1>9. CASE Restart
  <2>1. UNCHANGED <<seen, used, session, file, snap>> /\ creds' = CSP!Load(file)
        /\ \A r \in Requests : flow'[r] = "authorizing" => flow[r] = "authorizing"
    BY <1>9 DEF Restart, CS!Restart, CS!Load, CSP!Load
  <2>. QED
    BY <1>t, <2>1, LoadUri DEF Uris
<1>10. CASE UNCHANGED vars
  BY <1>10, <1>s DEF vars, flowVars, Uris
<1>. QED
  BY <1>1, <1>2, <1>3, <1>4, <1>5, <1>6, <1>7, <1>8, <1>9, <1>10 DEF Next

\* Every step keeps the types of the histories.
LEMMA HistoriesStep ==
  ASSUME Histories, [Next]_vars PROVE Histories'
<1>m. Moved => moved' \subseteq Browsers
  BY DEF Moved, Histories
<1>c. \A r, f : Enter(r, f) => contended' \in BOOLEAN
  BY DEF Enter
<1>1. ASSUME NEW r \in Requests, Login(r) \/ CallbackWithoutCookie(r) \/ Callback(r)
             \/ ExchangeFails(r) \/ StoreTokens(r) \/ PageLoads(r)
      PROVE  Histories'
  <2>1. UNCHANGED <<moved, edited>> /\ contended' \in BOOLEAN
    BY <1>1, <1>c DEF Login, CallbackWithoutCookie, Callback, ExchangeFails, StoreTokens, PageLoads
  <2>. QED
    BY <2>1 DEF Histories
<1>2. ASSUME NEW r \in Requests, ExchangeAccepted(r) PROVE Histories'
  <2>1. UNCHANGED edited /\ contended' \in BOOLEAN /\ Moved
    BY <1>2, <1>c DEF ExchangeAccepted
  <2>. QED
    BY <1>m, <2>1 DEF Histories
<1>3. ASSUME NEW r \in Requests, PageSaves(r) \/ ConfigPosted(r) PROVE Histories'
  <2>1. contended' \in BOOLEAN /\ Moved
    BY <1>3, <1>c DEF PageSaves, ConfigPosted
  <2>2. edited' \in BOOLEAN
    BY <1>3, Zenon DEF PageSaves, ConfigPosted
  <2>. QED
    BY <1>m, <2>1, <2>2 DEF Histories
<1>4. ASSUME NEW r \in Requests, SaveStep(r) PROVE Histories'
  BY <1>4 DEF SaveStep, Histories
<1>5. CASE Restart
  BY <1>5, <1>m DEF Restart, Histories
<1>6. CASE UNCHANGED vars
  BY <1>6 DEF vars, Histories
<1>. QED
  BY <1>1, <1>2, <1>3, <1>4, <1>5, <1>6 DEF Next

\* All that the login keeps.
LoginAll == KeptInv /\ SentInv /\ CSP!TypeOK /\ Uris /\ Histories

\* All of that holds at the start,
LEMMA LoginAllInit == Init => LoginAll
<1> SUFFICES ASSUME Init PROVE LoginAll
  OBVIOUS
<1>1. LoginInv /\ SentInv /\ Uris
  BY LoginSensible, LoginInit, SentInit, UrisInit
<1>2. Agrees
  BY DEF Init, Agrees, Inside, Requests
<1>3. CSP!Sensible
  BY LoginSensible DEF Sensible, CSP!Sensible, IsFiniteSet, CSP!IsFiniteSet
<1>4. CSP!Init
  BY DEF Init, CS!Init, CSP!Init, CS!Missing, CSP!Missing, CS!Load, CSP!Load
<1>5. CSP!TypeOK
  BY <1>3, <1>4, TraktAssumption, CSP!TypeInit
<1>6. Histories
  BY DEF Init, Histories
<1>. QED
  BY <1>1, <1>2, <1>5, <1>6 DEF LoginAll, KeptInv

\* and after every step.
LEMMA LoginAllStep == LoginAll /\ [Next]_vars => LoginAll'
<1> SUFFICES ASSUME LoginAll, [Next]_vars PROVE LoginAll'
  OBVIOUS
<1>1. LoginInv /\ CSP!Shape /\ CSP!TypeOK
  BY DEF LoginAll, KeptInv, LoginInv, CSP!SerialInv
<1>2. KeptInv' /\ SentInv' /\ Uris' /\ Histories'
  BY <1>1, LoginSensible, KeptStep, SentStep, UrisStep, HistoriesStep DEF LoginAll
<1>3. CSP!Sensible
  BY LoginSensible DEF Sensible, CSP!Sensible, IsFiniteSet, CSP!IsFiniteSet
<1>4. CSP!TypeOK'
  BY <1>1, <1>3, LoginSensible, StoreStep, CSP!TypeStep, TraktAssumption DEF LoginInv
<1>. QED
  BY <1>2, <1>4 DEF LoginAll

\* The login keeps its type: redirect URIs of which there are any are never
\* blank where one is needed, whatever restarts and other clients do.
LEMMA LoginTypes == LoginAll => TypeOK
<1> SUFFICES ASSUME LoginAll PROVE TypeOK
  OBVIOUS
<1>1. Shape /\ Uris /\ Histories /\ CSP!TypeOK
  BY DEF LoginAll, KeptInv, LoginInv
<1>2. CS!TypeOK
  BY <1>1 DEF CS!TypeOK, CSP!TypeOK, CS!Creds, CSP!Creds, CS!PCs, CSP!PCs
<1>. QED
  BY <1>1, <1>2 DEF TypeOK, Shape, Uris, Redirects, Histories

-----------------------------------------------------------------------------
(* Both users of the store.                                                *)

\* The proofs about the store, for the one on its own.
SP == INSTANCE CredentialStoreProofs WITH
  Requests <- StoreRequests, Strings <- StoreStrings, Env <- StoreEnv

\* Both instances are the same store.
LEMMA SameStore ==
  /\ Store!Init => SP!Init
  /\ [Store!Next]_(Store!vars) => [SP!Next]_(SP!vars)
  /\ Store!TypeOK <=> SP!TypeOK
  /\ SP!DurableWhenSerial => Store!DurableWhenSerial
<1>1. Store!Init => SP!Init
  BY DEF Store!Init, SP!Init, Store!Missing, SP!Missing, Store!Load, SP!Load
<1>2. Store!TypeOK <=> SP!TypeOK
  BY DEF Store!TypeOK, SP!TypeOK, Store!Creds, SP!Creds, Store!PCs, SP!PCs
<1>3. SP!DurableWhenSerial => Store!DurableWhenSerial
  BY DEF Store!DurableWhenSerial, SP!DurableWhenSerial, Store!Quiet, SP!Quiet,
     Store!Saving, SP!Saving, Store!Durable, SP!Durable, Store!Load, SP!Load
<1>4. ASSUME NEW r, NEW p, Store!Goto(r, p) PROVE SP!Goto(r, p)
  BY <1>4 DEF Store!Goto, SP!Goto, Store!Saving, SP!Saving, Store!Cardinality, SP!Cardinality
<1>5. ASSUME NEW r \in StoreRequests,
             NEW new \in [id : StoreStrings, secret : StoreStrings, redirect : StoreStrings],
             Store!Update(r, new)
      PROVE  SP!Next
  <2>1. SP!Update(r, new)
    BY <1>4, <1>5 DEF Store!Update, SP!Update, Store!Merged, SP!Merged
  <2>. QED
    BY <2>1 DEF SP!Next
<1>6. ASSUME NEW r \in StoreRequests, NEW uri \in StoreStrings \ {0}, Store!SetRedirectURI(r, uri)
      PROVE  SP!Next
  <2>1. SP!SetRedirectURI(r, uri)
    BY <1>4, <1>6 DEF Store!SetRedirectURI, SP!SetRedirectURI
  <2>. QED
    BY <2>1 DEF SP!Next
<1>7. ASSUME NEW r \in StoreRequests, Store!Save(r) PROVE SP!Next
  <2>1. SP!Save(r)
    BY <1>4, <1>7 DEF Store!Save, Store!Snapshot, Store!Truncate, Store!Write,
       Store!Written, Store!Size, SP!Save, SP!Snapshot, SP!Truncate, SP!Write,
       SP!Written, SP!Size
  <2>. QED
    BY <2>1 DEF SP!Next
<1>8. Store!Restart => SP!Next
  BY DEF Store!Restart, SP!Restart, Store!Load, SP!Load, Store!Saving, SP!Saving, SP!Next
<1>9. UNCHANGED Store!vars => UNCHANGED SP!vars
  BY DEF Store!vars, SP!vars
<1>10. Store!Next => SP!Next
  BY <1>5, <1>6, <1>7, <1>8 DEF Store!Next
<1>11. [Store!Next]_(Store!vars) => [SP!Next]_(SP!vars)
  BY <1>9, <1>10
<1>. QED
  BY <1>1, <1>2, <1>3, <1>11

\* The assumptions are those of the proofs about the store.
LEMMA StoreSensible == SP!Sensible
BY TraktAssumption DEF SP!Sensible, SP!Creds, IsFiniteSet, SP!IsFiniteSet

\* What holds of the part that moves; the login's is at rest while the store moves.
TraktInv ==
  IF part = "login" THEN LoginAll ELSE SP!SerialInv /\ SP!TypeOK

\* The inductive invariant of the whole holds at the start.
LEMMA TraktInvInit == TraktInit => TraktInv
<1>1. ASSUME part = "login", Init PROVE TraktInv
  BY <1>1, LoginAllInit DEF TraktInv
<1>2. ASSUME part = "store", Store!Init PROVE TraktInv
  BY <1>2, SameStore, StoreSensible, SP!SerialInit, SP!TypeInit, TraktAssumption DEF TraktInv
<1>. QED
  BY <1>1, <1>2 DEF TraktInit

\* A step is one of the part that moves.
LEMMA TraktMoves ==
  ASSUME [TraktNext]_<<part, vars>>
  PROVE  /\ part' = part
         /\ part = "login" => [Next]_vars
         /\ part # "login" => [SP!Next]_(SP!vars)
<1>1. CASE TraktNext
  BY <1>1, SameStore DEF TraktNext
<1>2. CASE UNCHANGED <<part, vars>>
  BY <1>2 DEF vars, storeVars, SP!vars
<1>. QED
  BY <1>1, <1>2

\* Every step keeps the inductive invariant of the whole.
LEMMA TraktInvStep == TraktInv /\ [TraktNext]_<<part, vars>> => TraktInv'
<1> SUFFICES ASSUME TraktInv, [TraktNext]_<<part, vars>> PROVE TraktInv'
  OBVIOUS
<1>1. CASE part = "login"
  BY <1>1, TraktMoves, LoginAllStep DEF TraktInv
<1>2. CASE part # "login"
  <2>1. SP!SerialInv' /\ SP!TypeOK'
    BY <1>2, TraktMoves, StoreSensible, SP!SerialStep, SP!TypeStep, TraktAssumption DEF TraktInv
  <2>. QED
    BY <1>2, <2>1, TraktMoves DEF TraktInv
<1>. QED
  BY <1>1, <1>2

\* The login and the store keep their types: no URI but one the requests, the
\* environment or the hosts gave is ever shown, used or kept.
THEOREM TraktTypes == TraktSpec => []TraktTypeOK
<1>1. TraktInv => TraktTypeOK
  BY LoginTypes, SameStore DEF TraktInv, TraktTypeOK
<1>. QED
  BY <1>1, TraktInvInit, TraktInvStep, PTL DEF TraktSpec

\* After saves of the store that neither overlapped nor were cut short, whatever
\* requests and restarts there were, a restart loses no value that is set.
THEOREM TraktDurable == TraktSpec => []DurableWhenSerial
<1>1. SP!SerialInv => SP!DurableWhenSerial
  BY DEF SP!SerialInv, SP!Serial, SP!Busy, SP!DurableWhenSerial, SP!Quiet, SP!Saving
<1>2. TraktInv => DurableWhenSerial
  BY <1>1, SameStore DEF TraktInv, DurableWhenSerial
<1>. QED
  BY <1>2, TraktInvInit, TraktInvStep, PTL DEF TraktSpec

\* No request, of the login's or of any other client, blanks a client secret
\* that is set; a restart does only after saves overlapped or one was cut short.
THEOREM SecretStays == TraktSpec => SecretKept
<1>1. TraktInv /\ [TraktNext]_<<part, vars>> =>
        [creds.secret # 0 => creds'.secret # 0 \/ overlapped \/ interrupted']_(Store!vars)
  <2> SUFFICES ASSUME TraktInv, [TraktNext]_<<part, vars>>
               PROVE  creds.secret # 0 => creds'.secret # 0 \/ overlapped \/ interrupted'
    OBVIOUS
  <2>1. CASE part = "login"
    <3>1. LoginInv /\ CSP!SerialInv /\ CSP!Shape
      BY <2>1 DEF TraktInv, LoginAll, KeptInv, LoginInv, CSP!SerialInv
    <3>2. [CSP!Next]_(CSP!vars)
      BY <2>1, <3>1, LoginSensible, StoreStep, TraktMoves DEF LoginInv
    <3>. QED
      BY <3>1, <3>2, CSP!SecretStep
  <2>2. CASE part # "login"
    BY <2>2, TraktMoves, SP!SecretStep DEF TraktInv
  <2>. QED
    BY <2>1, <2>2
<1>2. Store!SecretKept <=>
        [][creds.secret # 0 => creds'.secret # 0 \/ overlapped \/ interrupted']_(Store!vars)
  BY DEF Store!SecretKept
<1>. QED
  BY <1>1, <1>2, TraktInvInit, TraktInvStep, PTL DEF TraktSpec, SecretKept
=============================================================================
