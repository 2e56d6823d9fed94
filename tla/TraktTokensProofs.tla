-------------------------- MODULE TraktTokensProofs --------------------------
(***************************************************************************)
(* Theorems about TraktTokens, for any number of requests, accounts,       *)
(* tokens and restarts and any lifetime.                                   *)
(***************************************************************************)
EXTENDS TraktTokens, SequenceTheorems, FiniteSetTheorems, TLAPS

Inside == {"truncate", "write", "remove"}

\* Store.mu: at most one request is between its lock and its unlock.
Mutex ==
  /\ pc \in [Requests -> Steps \cup {"idle", "done"}]
  /\ DOMAIN fresh = Requests
  /\ lock \subseteq Requests
  /\ \A r \in Requests : pc[r] \in Inside <=> r \in lock
  /\ \A r, s \in lock : r = s

\* The request inside has changed the tokens in memory to what it will have
\* written when it unlocks.
Pending ==
  \A r \in lock :
    /\ pc[r] \in {"truncate", "write"} => tokens = fresh[r]
    /\ pc[r] = "remove" => tokens = <<>>

DurableInv == Mutex /\ Pending /\ Durable

-----------------------------------------------------------------------------
\* At the start memory and file agree.
LEMMA DurableInit == Init => DurableInv
BY DEF Init, DurableInv, Mutex, Pending, Durable, Inside

\* A step of r that neither enters nor leaves the critical section.
LEMMA OutsideStep ==
  ASSUME DurableInv, NEW r \in Requests, pc[r] \notin Inside,
         NEW p \in Steps \cup {"done"}, p \notin Inside,
         pc' = [pc EXCEPT ![r] = p], UNCHANGED storeVars,
         DOMAIN fresh' = Requests, \A s \in Requests \ {r} : fresh'[s] = fresh[s]
  PROVE  DurableInv'
<1> USE DEF DurableInv, Inside, storeVars
<1>1. Mutex'
  BY DEF Mutex
<1>2. r \notin lock
  BY DEF Mutex
<1>3. Pending'
  BY <1>2 DEF Mutex, Pending
<1>4. Durable'
  BY DEF Durable
<1> QED
  BY <1>1, <1>3, <1>4

\* Every step keeps memory and file together under the lock.
LEMMA DurableStep == DurableInv /\ [Next]_vars => DurableInv'
<1> SUFFICES ASSUME DurableInv, [Next]_vars PROVE DurableInv'
  OBVIOUS
<1> DEFINE Same == UNCHANGED <<pc, lock, tokens, file, fresh>>
<1>s. Same => DurableInv'
  BY DEF DurableInv, Mutex, Pending, Durable
<1>o. \A r \in Requests : \A p \in Steps \cup {"done"} :
        /\ pc[r] \notin Inside /\ p \notin Inside
        /\ pc' = [pc EXCEPT ![r] = p] /\ UNCHANGED storeVars
        /\ DOMAIN fresh' = Requests /\ \A s \in Requests \ {r} : fresh'[s] = fresh[s]
        => DurableInv'
  BY OutsideStep
<1>d. DOMAIN fresh = Requests
  BY DEF DurableInv, Mutex
<1>1. CASE Tick
  BY <1>1, <1>s DEF Tick, storeVars, reqVars
<1>2. ASSUME NEW r \in Requests, NEW k \in Kinds, Arrive(r, k) PROVE DurableInv'
  BY <1>2, <1>o, <1>d DEF Arrive, FirstStep, Kinds, Steps, Inside
<1>3. ASSUME NEW r \in Requests, Me(r) PROVE DurableInv'
  BY <1>3, <1>o, <1>d DEF Me, Reply, Goto, Steps, Inside
<1>4. ASSUME NEW r \in Requests, MeAgain(r) PROVE DurableInv'
  BY <1>4, <1>o, <1>d DEF MeAgain, Reply, Steps, Inside
<1>5. ASSUME NEW r \in Requests, ListAuth(r) PROVE DurableInv'
  BY <1>5, <1>o, <1>d DEF ListAuth, Reply, Goto, Steps, Inside
<1>6. ASSUME NEW r \in Requests, ListUser(r) PROVE DurableInv'
  BY <1>6, <1>o, <1>d DEF ListUser, Reply, Goto, Steps, Inside
<1>7. ASSUME NEW r \in Requests, CheckRefresh(r) PROVE DurableInv'
  BY <1>7, <1>o, <1>d DEF CheckRefresh, Goto, Steps, Inside
<1>8. ASSUME NEW r \in Requests, AccessToken(r) PROVE DurableInv'
  BY <1>8, <1>o, <1>d DEF AccessToken, Reply, Goto, Steps, Inside
<1>9. ASSUME NEW r \in Requests, Fetch(r) PROVE DurableInv'
  BY <1>9, <1>o, <1>d DEF Fetch, Reply, Goto, Steps, Inside
<1>10. ASSUME NEW r \in Requests, Refresh(r) PROVE DurableInv'
  BY <1>10, <1>o, <1>d DEF Refresh, RefreshFails, Reply, Goto, Steps, Inside
<1>11. ASSUME NEW r \in Requests, Exchange(r) PROVE DurableInv'
  <2>1. /\ pc[r] = "exchange" /\ UNCHANGED storeVars
        /\ fresh' = fresh \/ \E f : fresh' = [fresh EXCEPT ![r] = f]
        /\ \E p \in {"set", "done", "clear"} : pc' = [pc EXCEPT ![r] = p]
    BY <1>11 DEF Exchange, RefreshFails, Reply, Goto
  <2>. QED
    BY <2>1, <1>o, <1>d DEF Steps, Inside
<1>12. ASSUME NEW r \in Requests, ExchangeCode(r) PROVE DurableInv'
  BY <1>12, <1>o, <1>d DEF ExchangeCode, Reply, Goto, Steps, Inside
<1>13. ASSUME NEW r \in Requests, FetchUsername(r) PROVE DurableInv'
  BY <1>13, <1>o, <1>d DEF FetchUsername, Goto, Steps, Inside
<1>14. ASSUME NEW r \in Requests, Set(r) PROVE DurableInv'
  BY <1>14 DEF Set, Goto, DurableInv, Mutex, Pending, Durable, Steps, Inside
<1>15. ASSUME NEW r \in Requests, Truncate(r) PROVE DurableInv'
  BY <1>15 DEF Truncate, Goto, DurableInv, Mutex, Pending, Durable, Steps, Inside
<1>16. ASSUME NEW r \in Requests, Write(r) PROVE DurableInv'
  BY <1>16 DEF Write, Goto, Reply, DurableInv, Mutex, Pending, Durable, Steps, Inside
<1>17. ASSUME NEW r \in Requests, Clear(r) PROVE DurableInv'
  BY <1>17 DEF Clear, Goto, DurableInv, Mutex, Pending, Durable, Steps, Inside
<1>18. ASSUME NEW r \in Requests, Remove(r) PROVE DurableInv'
  BY <1>18 DEF Remove, Reply, DurableInv, Mutex, Pending, Durable, Steps, Inside
<1>19. CASE Restart
  BY <1>19 DEF Restart, DurableInv, Mutex, Pending, Durable, Steps, Inside
<1>20. CASE UNCHANGED vars
  BY <1>20, <1>s DEF vars, storeVars, reqVars
<1> QED
  BY <1>1, <1>2, <1>3, <1>4, <1>5, <1>6, <1>7, <1>8, <1>9, <1>10, <1>11, <1>12,
     <1>13, <1>14, <1>15, <1>16, <1>17, <1>18, <1>19, <1>20
  DEF Next, Step

\* Whenever Store.mu is free, the file holds exactly the tokens in memory, so a
\* restart then changes nothing: logins, refreshes and logouts that have been
\* completed survive, for any number of concurrent requests.
THEOREM TokensDurable == Spec => []Durable
BY DurableInit, DurableStep, PTL DEF Spec, DurableInv
-----------------------------------------------------------------------------
(* What the requests hold.                                                 *)

\* The tokens issued so far, under the name of their account or none.
Grants == {t \in [gen : 1 .. Len(owner), exp : Nat, user : Users \cup {NoName}] :
             t.user \in {NoName, owner[t.gen]}}
Held == {<<>>} \cup {<<t>> : t \in Grants}

\* Memory, file and requests hold tokens Trakt issued; a request has read the one
\* it exchanges, and has the one whose user it asks for.
GrantInv ==
  /\ owner \in Seq(Users) /\ now \in Nat
  /\ redeemed \subseteq 1 .. Len(owner)
  /\ tokens \in Held /\ file \in Held
  /\ snap \in [Requests -> Held] /\ fresh \in [Requests -> Held]
  /\ pc \in [Requests -> Steps \cup {"idle", "done"}]
  /\ \A r \in Requests : /\ pc[r] = "exchange" => snap[r] # <<>>
                         /\ pc[r] = "name" => fresh[r] # <<>>

\* At the start no token was issued.
LEMMA GrantInit == Init => GrantInv
<1> SUFFICES ASSUME Init PROVE GrantInv
  OBVIOUS
<1>1. PICK u \in Users : owner = <<>> \/ owner = <<u>>
  BY DEF Init
<1>2. owner \in Seq(Users) /\ now \in Nat /\ <<>> \in Held
  <2>1. owner \in Seq(Users)
    <3>1. <<u>> = Append(<<>>, u)
      OBVIOUS
    <3>2. <<>> \in Seq(Users)
      BY EmptySeq
    <3>3. Append(<<>>, u) \in Seq(Users)
      BY <3>2, AppendProperties
    <3>. QED
      BY <1>1, <3>1, <3>2, <3>3
  <2>. QED
    BY <2>1 DEF Init, Held
<1>3. file \in Held
  <2>1. CASE owner = <<>>
    BY <1>2, <2>1 DEF Init
  <2>2. CASE owner = <<u>>
    <3> DEFINE t == [gen |-> 1, exp |-> Life, user |-> u]
    <3>1. file = <<t>> /\ Len(owner) = 1 /\ owner[1] = u
      BY <2>2 DEF Init
    <3>2. t \in Grants
      BY <3>1, TokenAssumption DEF Grants
    <3>. QED
      BY <3>1, <3>2 DEF Held
  <2>. QED
    BY <1>1, <2>1, <2>2
<1>. QED
  BY <1>2, <1>3 DEF Init, GrantInv

\* What was granted stays so when Trakt issues another token.
LEMMA HeldGrows ==
  ASSUME GrantInv, NEW u \in Users, owner' = Append(owner, u)
  PROVE  /\ Held \subseteq Held' /\ owner' \in Seq(Users) /\ Len(owner') = Len(owner) + 1
         /\ owner'[Len(owner) + 1] = u /\ \A g \in 1 .. Len(owner) : owner'[g] = owner[g]
<1>1. /\ owner' \in Seq(Users) /\ Len(owner') = Len(owner) + 1 /\ Len(owner) \in Nat
      /\ owner'[Len(owner) + 1] = u /\ \A g \in 1 .. Len(owner) : owner'[g] = owner[g]
  BY DEF GrantInv
<1>2. Grants \subseteq Grants'
  BY <1>1 DEF Grants
<1>. QED
  BY <1>1, <1>2 DEF Held

\* The tokens Trakt issued stay issued.
LEMMA HeldSame ==
  ASSUME UNCHANGED owner PROVE Held' = Held
BY DEF Held, Grants

\* The new token of a refresh, or of a login, is granted.
LEMMA Granted ==
  ASSUME GrantInv, NEW u \in Users, owner' = Append(owner, u), NEW name \in {NoName, u}
  PROVE  <<[gen |-> Len(owner) + 1, exp |-> now + Life, user |-> name]>> \in Held'
<1> DEFINE t == [gen |-> Len(owner) + 1, exp |-> now + Life, user |-> name]
<1>1. now + Life \in Nat /\ Len(owner) \in Nat
  BY TokenAssumption DEF GrantInv
<1>2. Len(owner') = Len(owner) + 1 /\ owner'[Len(owner) + 1] = u
  BY HeldGrows
<1>3. t \in Grants'
  BY <1>1, <1>2 DEF Grants
<1>. QED
  BY <1>3 DEF Held

\* A step that only moves tokens about.
LEMMA CopyStep ==
  ASSUME GrantInv, UNCHANGED <<owner, now, redeemed>>,
         tokens' \in Held, file' \in Held,
         snap' \in [Requests -> Held], fresh' \in [Requests -> Held],
         pc' \in [Requests -> Steps \cup {"idle", "done"}],
         \A r \in Requests : /\ pc'[r] = "exchange" => snap'[r] # <<>>
                             /\ pc'[r] = "name" => fresh'[r] # <<>>
  PROVE  GrantInv'
BY HeldSame DEF GrantInv

\* ... and no more than the control of one request.
LEMMA GotoStep ==
  ASSUME GrantInv, NEW r \in Requests,
         NEW p \in (Steps \ {"exchange", "name"}) \cup {"done"},
         pc' = [pc EXCEPT ![r] = p], UNCHANGED <<now, storeVars, owner, redeemed, snap, fresh>>
  PROVE  GrantInv'
BY CopyStep DEF GrantInv, storeVars

\* A step on which Trakt issues a token, and r has it.
LEMMA IssueStep ==
  ASSUME GrantInv, NEW r \in Requests, NEW u \in Users, NEW t \in Held', t # <<>>,
         owner' = Append(owner, u), redeemed' \subseteq 1 .. Len(owner),
         fresh' = [fresh EXCEPT ![r] = t],
         NEW p \in Steps \ {"exchange"}, pc' = [pc EXCEPT ![r] = p],
         UNCHANGED <<now, storeVars, snap>>
  PROVE  GrantInv'
<1>1. Held \subseteq Held' /\ owner' \in Seq(Users) /\ Len(owner') = Len(owner) + 1
  BY HeldGrows
<1>2. /\ tokens' \in Held' /\ file' \in Held' /\ now' \in Nat
      /\ snap' \in [Requests -> Held'] /\ fresh' \in [Requests -> Held']
  BY <1>1 DEF GrantInv, storeVars
<1>3. redeemed' \subseteq 1 .. Len(owner')
  <2>1. Len(owner) \in Nat
    BY LenProperties DEF GrantInv
  <2>. QED
    BY <1>1, <2>1
<1>4. pc' \in [Requests -> Steps \cup {"idle", "done"}]
  BY DEF GrantInv
<1>5. \A q \in Requests : /\ pc'[q] = "exchange" => snap'[q] # <<>>
                         /\ pc'[q] = "name" => fresh'[q] # <<>>
  BY DEF GrantInv
<1>. QED
  BY <1>1, <1>2, <1>3, <1>4, <1>5 DEF GrantInv

\* A refresh stores a token that was issued for the same user.
LEMMA GrantExchange ==
  ASSUME GrantInv, NEW r \in Requests, Exchange(r) PROVE GrantInv'
<1> DEFINE g == snap[r][1].gen
<1>1. /\ snap[r] # <<>> /\ pc[r] = "exchange" /\ snap[r] \in Held
  BY DEF Exchange, GrantInv
<1>2. PICK t \in Grants : snap[r] = <<t>>
  BY <1>1 DEF Held
<1>3. g = t.gen /\ g \in 1 .. Len(owner) /\ owner[g] \in Users
      /\ snap[r][1].user \in {NoName, owner[g]}
  BY <1>2 DEF Grants, GrantInv
<1> HIDE DEF g
<1>4. ASSUME redeemed' \in {redeemed, redeemed \cup {g}}, owner' = owner, fresh' = fresh,
             NEW p \in {"done", "clear"}, pc' = [pc EXCEPT ![r] = p],
             UNCHANGED <<now, storeVars, snap>>
      PROVE  GrantInv'
  <2>1. redeemed' \subseteq 1 .. Len(owner')
    BY <1>3, <1>4 DEF GrantInv
  <2>. QED
    BY <1>4, <2>1, HeldSame DEF GrantInv, storeVars, Steps
<1>5. RefreshFails(r) => \E p \in {"done", "clear"} : pc' = [pc EXCEPT ![r] = p]
  BY DEF RefreshFails, Reply, Goto
<1>6. ASSUME Issue(owner[g]), fresh' = [fresh EXCEPT ![r] = <<Refreshed(r)>>],
             Goto(r, "set"), redeemed' = redeemed \cup {g}, UNCHANGED <<now, storeVars, snap>>
      PROVE  GrantInv'
  <2>1. /\ owner' = Append(owner, owner[g]) /\ pc' = [pc EXCEPT ![r] = "set"]
    BY <1>6 DEF Issue, Goto
  <2>2. <<Refreshed(r)>> \in Held'
    BY <1>3, <2>1, Granted DEF Refreshed
  <2>3. redeemed' \subseteq 1 .. Len(owner)
    BY <1>3, <1>6 DEF GrantInv
  <2>. QED
    BY <1>3, <1>6, <2>1, <2>2, <2>3, IssueStep DEF Steps
<1>. QED
  BY <1>4, <1>5, <1>6, Zenon DEF Exchange, g

\* So does a login.
LEMMA GrantCode ==
  ASSUME GrantInv, NEW r \in Requests, ExchangeCode(r) PROVE GrantInv'
<1> DEFINE t == <<[gen |-> Len(owner) + 1, exp |-> now + Life, user |-> NoName]>>
<1>1. CASE Reply(r, "failed") /\ UNCHANGED <<owner, fresh>>
  BY <1>1, GotoStep DEF ExchangeCode, Reply, storeVars
<1>2. ASSUME NEW u \in Users, Issue(u), fresh' = [fresh EXCEPT ![r] = t], Goto(r, "name")
      PROVE  GrantInv'
  <2>1. /\ owner' = Append(owner, u) /\ pc' = [pc EXCEPT ![r] = "name"]
        /\ UNCHANGED <<now, storeVars, snap, redeemed>>
    BY <1>2 DEF Issue, Goto, ExchangeCode
  <2>2. t \in Held' /\ t # <<>>
    BY <2>1, Granted
  <2> HIDE DEF t
  <2>3. redeemed' \subseteq 1 .. Len(owner)
    BY <2>1 DEF GrantInv
  <2>. QED
    BY <1>2, <2>1, <2>2, <2>3, IssueStep DEF Steps
<1>. QED
  BY <1>1, <1>2 DEF ExchangeCode

\* The name asked for with a token is that of its user.
LEMMA GrantName ==
  ASSUME GrantInv, NEW r \in Requests, FetchUsername(r) PROVE GrantInv'
<1>1. /\ pc[r] = "name" /\ pc' = [pc EXCEPT ![r] = "set"] /\ fresh[r] # <<>>
      /\ UNCHANGED <<now, storeVars, owner, redeemed, snap>>
  BY DEF FetchUsername, Goto, GrantInv, traktVars
<1>2. PICK t \in Grants : fresh[r] = <<t>>
  BY <1>1 DEF GrantInv, Held
<1>3. PICK u \in {NoName, owner[t.gen]} :
        fresh' = [fresh EXCEPT ![r] = <<[t EXCEPT !.user = u]>>]
  <2>1. fresh[r][1] = t
    BY <1>2
  <2>2. PICK u \in {NoName, owner[t.gen]} :
          fresh' = [fresh EXCEPT ![r] = <<[@[1] EXCEPT !.user = u]>>]
    BY <2>1 DEF FetchUsername
  <2>. QED
    BY <2>1, <2>2
<1>4. [t EXCEPT !.user = u] \in Grants
  BY <1>3 DEF Grants, GrantInv
<1>5. fresh' \in [Requests -> Held]
  BY <1>3, <1>4 DEF GrantInv, Held
<1>6. pc' \in [Requests -> Steps \cup {"idle", "done"}]
  BY <1>1 DEF GrantInv, Steps
<1>7. \A q \in Requests : pc'[q] \in {"exchange", "name"} => q # r /\ pc'[q] = pc[q]
  BY <1>1 DEF GrantInv
<1>8. \A q \in Requests : /\ pc'[q] = "exchange" => snap'[q] # <<>>
                         /\ pc'[q] = "name" => fresh'[q] # <<>>
  BY <1>1, <1>3, <1>7 DEF GrantInv
<1>. QED
  BY <1>1, <1>5, <1>6, <1>8, CopyStep DEF GrantInv, storeVars

\* Every step keeps to the tokens that were issued.
LEMMA GrantStep == GrantInv /\ [Next]_vars => GrantInv'
<1> SUFFICES ASSUME GrantInv, [Next]_vars PROVE GrantInv'
  OBVIOUS
<1>g. \A r \in Requests : \A p \in (Steps \ {"exchange", "name"}) \cup {"done"} :
        pc' = [pc EXCEPT ![r] = p] /\ UNCHANGED <<now, storeVars, owner, redeemed, snap, fresh>>
        => GrantInv'
  BY GotoStep
<1>1. CASE Tick
  BY <1>1, HeldSame DEF Tick, GrantInv, storeVars, reqVars, traktVars
<1>2. ASSUME NEW r \in Requests, NEW k \in Kinds, Arrive(r, k) PROVE GrantInv'
  BY <1>2, <1>g DEF Arrive, FirstStep, Kinds, Steps, traktVars
<1>3. ASSUME NEW r \in Requests, Me(r) PROVE GrantInv'
  BY <1>3, <1>g DEF Me, Reply, Goto, Steps, traktVars
<1>4. ASSUME NEW r \in Requests, MeAgain(r) PROVE GrantInv'
  BY <1>4, <1>g DEF MeAgain, Reply, Steps, traktVars
<1>5. ASSUME NEW r \in Requests, ListAuth(r) PROVE GrantInv'
  BY <1>5, <1>g DEF ListAuth, Reply, Goto, Steps, traktVars
<1>6. ASSUME NEW r \in Requests, ListUser(r) PROVE GrantInv'
  BY <1>6, <1>g DEF ListUser, Reply, Goto, Steps, traktVars
<1>7. ASSUME NEW r \in Requests, CheckRefresh(r) PROVE GrantInv'
  BY <1>7, <1>g DEF CheckRefresh, Goto, Steps, traktVars
<1>8. ASSUME NEW r \in Requests, AccessToken(r) PROVE GrantInv'
  <2>1. CASE UNCHANGED snap
    BY <1>8, <2>1, <1>g DEF AccessToken, Reply, Goto, Steps, traktVars
  <2>2. CASE Goto(r, "fetch") /\ snap' = [snap EXCEPT ![r] = tokens]
    BY <1>8, <2>2, CopyStep DEF AccessToken, Goto, Steps, traktVars, storeVars, GrantInv
  <2>. QED
    BY <1>8, <2>1, <2>2 DEF AccessToken
<1>9. ASSUME NEW r \in Requests, Fetch(r) PROVE GrantInv'
  BY <1>9, <1>g DEF Fetch, Reply, Goto, Steps, traktVars
<1>10. ASSUME NEW r \in Requests, Refresh(r) PROVE GrantInv'
  <2>1. /\ snap' = [snap EXCEPT ![r] = tokens]
        /\ \E p \in Steps \cup {"done"} :
             pc' = [pc EXCEPT ![r] = p] /\ p # "name" /\ (p = "exchange" => tokens # <<>>)
        /\ UNCHANGED <<now, storeVars, owner, redeemed, fresh>>
    BY <1>10 DEF Refresh, RefreshFails, Reply, Goto, Steps, traktVars
  <2>. QED
    BY <2>1, CopyStep DEF storeVars, GrantInv
<1>11. ASSUME NEW r \in Requests, Set(r) PROVE GrantInv'
  BY <1>11, CopyStep DEF Set, Goto, Steps, traktVars, GrantInv
<1>12. ASSUME NEW r \in Requests, Truncate(r) PROVE GrantInv'
  BY <1>12, CopyStep DEF Truncate, Goto, Steps, traktVars, GrantInv, Held
<1>13. ASSUME NEW r \in Requests, Write(r) PROVE GrantInv'
  BY <1>13, CopyStep DEF Write, Goto, Reply, Steps, traktVars, GrantInv
<1>14. ASSUME NEW r \in Requests, Clear(r) PROVE GrantInv'
  BY <1>14, CopyStep DEF Clear, Goto, Steps, traktVars, GrantInv, Held
<1>15. ASSUME NEW r \in Requests, Remove(r) PROVE GrantInv'
  BY <1>15, CopyStep DEF Remove, Reply, Steps, traktVars, GrantInv, Held
<1>16. CASE Restart
  BY <1>16, CopyStep DEF Restart, Steps, traktVars, GrantInv
<1>17. CASE UNCHANGED vars
  BY <1>17, CopyStep DEF vars, storeVars, reqVars, traktVars, GrantInv
<1>. QED
  BY <1>1, <1>2, <1>3, <1>4, <1>5, <1>6, <1>7, <1>8, <1>9, <1>10, <1>11, <1>12,
     <1>13, <1>14, <1>15, <1>16, <1>17, GrantExchange, GrantCode, GrantName
  DEF Next, Step

\* The user name kept with the tokens is missing or the one of the account they
\* were issued for, for any number of logins, refreshes and restarts.
THEOREM UserMatches == Spec => []UserMatchesGrant
<1>1. GrantInv => UserMatchesGrant
  <2> SUFFICES ASSUME GrantInv, tokens # <<>> PROVE tokens[1].user \in {NoName, owner[tokens[1].gen]}
    BY DEF UserMatchesGrant
  <2>1. PICK t \in Grants : tokens = <<t>>
    BY DEF GrantInv, Held
  <2>. QED
    BY <2>1 DEF Grants
<1>. QED
  BY GrantInit, GrantStep, <1>1, PTL DEF Spec
-----------------------------------------------------------------------------
(* What a request that is served alone may rely on.                        *)

\* What r knows of the store where it is: nobody has changed it meanwhile.
Relies(r) ==
  /\ pc[r] \in {"exchange", "fetch"} => tokens # <<>> /\ snap[r] = tokens
  /\ pc[r] = "clear" /\ kind[r] # "logout" => tokens = <<>> \/ tokens[1].gen \in refused
  /\ pc[r] = "meAgain" => tokens # <<>>
  /\ pc[r] \in {"name", "set"} => fresh[r] # <<>>
  /\ pc[r] \in {"code", "name"} => kind[r] = "callback"
  /\ pc[r] = "set" /\ kind[r] # "callback" => tokens # <<>>
  /\ pc[r] \in {"truncate", "write"} => fresh[r] # <<>> /\ tokens = fresh[r]
  /\ answer[r] # "panic"

Alone ==
  /\ \A r, s \in Active : r = s
  /\ \A r \in Requests : Relies(r)

\* The store never holds a refresh token that has been used, but for the moment
\* between the answer of Trakt and Set; what is about to be stored is unused.
Unused ==
  /\ replayed = FALSE
  /\ (\A r \in Requests : pc[r] # "set") => tokens = <<>> \/ tokens[1].gen \notin redeemed
  /\ \A r \in Requests : pc[r] \in {"name", "set"} => fresh[r][1].gen \notin redeemed

Cause == overlapped \/ lostAnswer \/ crashes > 0

SerialInv ==
  /\ GrantInv /\ DOMAIN kind = Requests /\ DOMAIN answer = Requests /\ crashes \in Nat
  /\ ~overlapped => Alone
  /\ ~Cause => Unused

\* At the start no request is under way.
LEMMA SerialInit == Init => SerialInv
<1> SUFFICES ASSUME Init PROVE SerialInv
  OBVIOUS
<1>1. GrantInv /\ DOMAIN kind = Requests /\ DOMAIN answer = Requests /\ crashes \in Nat
  BY GrantInit DEF Init
<1>2. \A r \in Requests : pc[r] = "idle"
  BY DEF Init
<1>3. Active = {}
  BY <1>2 DEF Active, Steps
<1>4. \A r \in Requests : Relies(r)
  BY <1>2 DEF Init, Relies
<1>5. Alone
  BY <1>3, <1>4 DEF Alone
<1>6. Unused
  BY <1>2 DEF Init, Unused
<1>. QED
  BY <1>1, <1>5, <1>6 DEF SerialInv

\* A step of r: the other requests, if r is alone, are at rest.
LEMMA AloneStep ==
  ASSUME GrantInv, Alone, NEW r \in Requests, pc[r] \in Steps,
         NEW p \in Steps \cup {"done"}, pc' = [pc EXCEPT ![r] = p],
         \A s \in Requests \ {r} : answer'[s] = answer[s],
         Relies(r)'
  PROVE  Alone'
<1>1. \A s \in Requests \ {r} : pc[s] \in {"idle", "done"} /\ pc'[s] = pc[s]
  BY DEF Alone, Active, GrantInv
<1>2. \A s, t \in Active' : s = t
  BY <1>1 DEF Active, Steps
<1>3. ASSUME NEW s \in Requests \ {r} PROVE Relies(s)'
  BY <1>1, <1>3 DEF Alone, Relies
<1>. QED
  BY <1>2, <1>3 DEF Alone

\* Tokens in the store have a generation, and what a request reads does too.
LEMMA HeldGen ==
  ASSUME GrantInv, NEW x \in Held, x # <<>>
  PROVE  x[1].gen \in 1 .. Len(owner) /\ Len(owner) \in Nat
<1>1. PICK t \in Grants : x = <<t>>
  BY DEF Held
<1>2. Len(owner) \in Nat
  BY LenProperties DEF GrantInv
<1>. QED
  BY <1>1, <1>2 DEF Grants

\* While no two requests overlapped, at most one is under way.
LEMMA SerialAlone ==
  ASSUME SerialInv, [Next]_vars, ~overlapped' PROVE Alone'
<1>a. ~overlapped /\ Alone
  <2>1. overlapped => overlapped'
    <3>1. ASSUME NEW r \in Requests, NEW k \in Kinds, Arrive(r, k) PROVE overlapped => overlapped'
      BY <3>1 DEF Arrive
    <3>2. ASSUME NEW r \in Requests, Step(r) PROVE overlapped' = overlapped
      BY <3>2, Zenon DEF Step, Me, MeAgain, ListAuth, ListUser, CheckRefresh, AccessToken, Fetch,
         Refresh, Exchange, ExchangeCode, FetchUsername, Set, Truncate, Write, Clear, Remove,
         RefreshFails, Goto, Reply
    <3>3. CASE Tick \/ Restart \/ UNCHANGED vars
      BY <3>3 DEF Tick, Restart, vars, reqVars
    <3>. QED
      BY <3>1, <3>2, <3>3 DEF Next
  <2>. QED
    BY <2>1 DEF SerialInv
<1>t. GrantInv /\ DOMAIN kind = Requests /\ DOMAIN answer = Requests /\ DOMAIN pc = Requests
      /\ DOMAIN snap = Requests /\ DOMAIN fresh = Requests
  BY DEF SerialInv, GrantInv
<1>s. \A r \in Requests : \A p \in Steps \cup {"done"} :
        /\ pc[r] \in Steps /\ pc' = [pc EXCEPT ![r] = p]
        /\ \A s \in Requests \ {r} : answer'[s] = answer[s]
        /\ Relies(r)'
        => Alone'
  BY <1>a, <1>t, AloneStep
<1>r. \A r \in Requests : Relies(r)
  BY <1>a DEF Alone
<1>1. CASE Tick \/ UNCHANGED vars
  BY <1>1, <1>a DEF Tick, vars, storeVars, traktVars, reqVars, Alone, Active, Relies
<1>2. ASSUME NEW r \in Requests, NEW k \in Kinds, Arrive(r, k) PROVE Alone'
  <2>1. Active = {}
    BY <1>2 DEF Arrive
  <2>2. /\ pc'[r] = FirstStep(k) /\ kind'[r] = k
        /\ \A s \in Requests \ {r} : pc'[s] = pc[s] /\ kind'[s] = kind[s]
        /\ UNCHANGED <<storeVars, refused, snap, fresh, answer>>
    BY <1>2, <1>t DEF Arrive, traktVars
  <2>3. \A s \in Requests \ {r} : pc'[s] \notin Steps
    BY <2>1, <2>2 DEF Active
  <2>4. \A s, t \in Active' : s = t
    BY <2>3 DEF Active
  <2>5. Relies(r)'
    BY <1>r, <2>2 DEF Relies, FirstStep, Kinds
  <2>6. ASSUME NEW s \in Requests \ {r} PROVE Relies(s)'
    BY <1>r, <2>2, <2>3, <2>6 DEF Relies, Steps
  <2>. QED
    BY <2>4, <2>5, <2>6 DEF Alone
<1>3. ASSUME NEW r \in Requests, Me(r) PROVE Alone'
  BY <1>3, <1>s, <1>r, <1>t DEF Me, Reply, Goto, Steps, Relies, storeVars, traktVars
<1>4. ASSUME NEW r \in Requests, MeAgain(r) PROVE Alone'
  BY <1>4, <1>s, <1>r, <1>t DEF MeAgain, Reply, Steps, Relies, storeVars, traktVars
<1>5. ASSUME NEW r \in Requests, ListAuth(r) PROVE Alone'
  BY <1>5, <1>s, <1>r, <1>t DEF ListAuth, Reply, Goto, Steps, Relies, storeVars, traktVars
<1>6. ASSUME NEW r \in Requests, ListUser(r) PROVE Alone'
  BY <1>6, <1>s, <1>r, <1>t DEF ListUser, Reply, Goto, Steps, Relies, storeVars, traktVars
<1>7. ASSUME NEW r \in Requests, CheckRefresh(r) PROVE Alone'
  BY <1>7, <1>s, <1>r, <1>t DEF CheckRefresh, Goto, Steps, Relies, storeVars, traktVars
<1>8. ASSUME NEW r \in Requests, AccessToken(r) PROVE Alone'
  BY <1>8, <1>s, <1>r, <1>t DEF AccessToken, Goto, Reply, Steps, Relies, storeVars, traktVars
<1>9. ASSUME NEW r \in Requests, Fetch(r) PROVE Alone'
  BY <1>9, <1>s, <1>r, <1>t DEF Fetch, Goto, Reply, Steps, Relies, storeVars, traktVars
<1>10. ASSUME NEW r \in Requests, Refresh(r) PROVE Alone'
  BY <1>10, <1>s, <1>r, <1>t DEF Refresh, RefreshFails, Goto, Reply, Steps, Relies, storeVars, traktVars
<1>11. ASSUME NEW r \in Requests, Exchange(r) PROVE Alone'
  <2>1. /\ pc[r] = "exchange" /\ tokens # <<>> /\ snap[r] = tokens /\ UNCHANGED tokens
    BY <1>11, <1>r DEF Exchange, Relies, storeVars
  <2>2. CASE fresh' = [fresh EXCEPT ![r] = <<Refreshed(r)>>] /\ Goto(r, "set")
    <3>1. fresh'[r] # <<>>
      BY <1>t, <2>2
    <3>. QED
      BY <1>s, <1>r, <1>t, <2>1, <2>2, <3>1 DEF Goto, Steps, Relies
  <2>3. CASE RefreshFails(r) /\ refused' = refused \cup {snap[r][1].gen}
    BY <1>s, <1>r, <1>t, <2>1, <2>3 DEF RefreshFails, Goto, Reply, Steps, Relies
  <2>. QED
    BY <1>11, <2>2, <2>3, Zenon DEF Exchange
<1>12. ASSUME NEW r \in Requests, ExchangeCode(r) PROVE Alone'
  BY <1>12, <1>s, <1>r, <1>t DEF ExchangeCode, Goto, Reply, Steps, Relies, storeVars
<1>13. ASSUME NEW r \in Requests, FetchUsername(r) PROVE Alone'
  <2>1. pc[r] = "name" /\ fresh'[r] # <<>> /\ Goto(r, "set")
    BY <1>13, <1>t DEF FetchUsername
  <2>. QED
    BY <1>s, <1>r, <1>t, <2>1 DEF Goto, Steps, Relies
<1>14. ASSUME NEW r \in Requests, Set(r) PROVE Alone'
  BY <1>14, <1>s, <1>r, <1>t DEF Set, Goto, Steps, Relies, traktVars
<1>15. ASSUME NEW r \in Requests, Truncate(r) PROVE Alone'
  BY <1>15, <1>s, <1>r, <1>t DEF Truncate, Goto, Steps, Relies, traktVars
<1>16. ASSUME NEW r \in Requests, Write(r) PROVE Alone'
  BY <1>16, <1>s, <1>r, <1>t DEF Write, Goto, Reply, Steps, Relies, traktVars
<1>17. ASSUME NEW r \in Requests, Clear(r) PROVE Alone'
  BY <1>17, <1>s, <1>r, <1>t DEF Clear, Goto, Steps, Relies, traktVars
<1>18. ASSUME NEW r \in Requests, Remove(r) PROVE Alone'
  BY <1>18, <1>s, <1>r, <1>t DEF Remove, Reply, Steps, Relies, traktVars
<1>19. CASE Restart
  <2>1. \A r \in Requests : pc'[r] \in {"idle", "done"} /\ answer'[r] = answer[r]
    BY <1>19 DEF Restart
  <2>2. Active' = {}
    BY <2>1 DEF Active, Steps
  <2>. QED
    BY <1>r, <2>1, <2>2 DEF Alone, Relies
<1>. QED
  BY <1>1, <1>2, <1>3, <1>4, <1>5, <1>6, <1>7, <1>8, <1>9, <1>10, <1>11, <1>12,
     <1>13, <1>14, <1>15, <1>16, <1>17, <1>18, <1>19
  DEF Next, Step
\* A step that only moves the control of a request keeps tokens as unused.
LEMMA UnusedGoto ==
  ASSUME Unused, DOMAIN pc = Requests, NEW r \in Requests, pc[r] # "set",
         NEW p \in (Steps \ {"name", "set"}) \cup {"done"}, pc' = [pc EXCEPT ![r] = p],
         tokens' \in {tokens, <<>>}, UNCHANGED <<fresh, redeemed, replayed>>
  PROVE  Unused'
<1>1. (\A q \in Requests : pc'[q] # "set") => \A q \in Requests : pc[q] # "set"
  OBVIOUS
<1>2. (\A q \in Requests : pc'[q] # "set") => tokens' = <<>> \/ tokens'[1].gen \notin redeemed'
  BY <1>1 DEF Unused
<1>3. \A q \in Requests : pc'[q] \in {"name", "set"} => pc'[q] = pc[q]
  BY DEF Steps
<1>. QED
  BY <1>2, <1>3 DEF Unused

\* Without an overlap, a lost answer or a crash, the stored token was never exchanged.
LEMMA SerialUnused ==
  ASSUME SerialInv, [Next]_vars, ~Cause' PROVE Unused'
<1>t. /\ GrantInv /\ DOMAIN pc = Requests /\ DOMAIN fresh = Requests /\ crashes \in Nat
  BY DEF SerialInv, GrantInv
<1>c. ~Cause /\ ~overlapped'
  <2>1. /\ overlapped => overlapped'
        /\ lostAnswer => lostAnswer'
        /\ crashes' = crashes \/ crashes' = crashes + 1
    <3>1. ASSUME NEW r \in Requests, NEW k \in Kinds, Arrive(r, k)
          PROVE  (overlapped => overlapped') /\ UNCHANGED <<lostAnswer, crashes>>
      BY <3>1 DEF Arrive, traktVars
    <3>2. ASSUME NEW r \in Requests, Step(r)
          PROVE  (lostAnswer => lostAnswer') /\ UNCHANGED <<overlapped, crashes>>
      <4>1. UNCHANGED <<overlapped, crashes>>
        BY <3>2, Zenon DEF Step, Me, MeAgain, ListAuth, ListUser, CheckRefresh, AccessToken, Fetch,
           Refresh, Exchange, ExchangeCode, FetchUsername, Set, Truncate, Write, Clear, Remove,
           RefreshFails, Goto, Reply
      <4>2. CASE Exchange(r) \/ Fetch(r)
        BY <4>1, <4>2 DEF Exchange, Fetch, traktVars
      <4>3. CASE ~(Exchange(r) \/ Fetch(r))
        <5>1. UNCHANGED lostAnswer
          BY <3>2, <4>3 DEF Step, Me, MeAgain, ListAuth, ListUser, CheckRefresh,
             AccessToken, Refresh, ExchangeCode, FetchUsername, Set, Truncate, Write, Clear,
             Remove, traktVars
        <5>. QED
          BY <4>1, <5>1
      <4>. QED
        BY <4>2, <4>3
    <3>3. CASE Tick \/ Restart \/ UNCHANGED vars
      BY <3>3 DEF Tick, Restart, vars, reqVars, traktVars
    <3>. QED
      BY <3>1, <3>2, <3>3 DEF Next
  <2>. QED
    BY <2>1, <1>t DEF Cause
<1>a. Alone /\ Unused /\ \A r \in Requests : Relies(r)
  BY <1>c DEF SerialInv, Cause, Alone
<1>g. \A r \in Requests : \A p \in (Steps \ {"name", "set"}) \cup {"done"} :
        /\ pc[r] # "set" /\ pc' = [pc EXCEPT ![r] = p]
        /\ tokens' \in {tokens, <<>>} /\ UNCHANGED <<fresh, redeemed, replayed>>
        => Unused'
  BY <1>a, <1>t, UnusedGoto
<1>n. \A x \in Held : x # <<>> => x[1].gen \in 1 .. Len(owner)
  BY <1>t, HeldGen
<1>l. Len(owner) \in Nat /\ redeemed \subseteq 1 .. Len(owner)
  BY <1>t, LenProperties DEF GrantInv
<1>1. CASE Tick \/ UNCHANGED vars
  BY <1>1, <1>a DEF Tick, vars, storeVars, traktVars, reqVars, Unused
<1>2. ASSUME NEW r \in Requests, NEW k \in Kinds, Arrive(r, k) PROVE Unused'
  BY <1>2, <1>g DEF Arrive, FirstStep, Kinds, Steps, storeVars, traktVars
<1>3. ASSUME NEW r \in Requests,
             \/ Me(r) \/ MeAgain(r) \/ ListAuth(r) \/ ListUser(r) \/ CheckRefresh(r)
             \/ AccessToken(r) \/ Fetch(r) \/ Refresh(r)
      PROVE  Unused'
  <2>1. /\ pc[r] # "set" /\ UNCHANGED <<tokens, fresh, redeemed, replayed>>
    BY <1>3 DEF Me, MeAgain, ListAuth, ListUser, CheckRefresh, AccessToken, Fetch, Refresh,
       storeVars, traktVars
  <2>2. \E p \in (Steps \ {"name", "set"}) \cup {"done"} : pc' = [pc EXCEPT ![r] = p]
    BY <1>3 DEF Me, MeAgain, ListAuth, ListUser, CheckRefresh, AccessToken, Fetch, Refresh,
       RefreshFails, Goto, Reply, Steps
  <2>. QED
    BY <1>g, <2>1, <2>2
<1>4. ASSUME NEW r \in Requests, Exchange(r) PROVE Unused'
  <2> DEFINE g == snap[r][1].gen
  <2>1. /\ pc[r] = "exchange" /\ tokens # <<>> /\ snap[r] = tokens /\ tokens \in Held
        /\ \A q \in Requests \ {r} : pc[q] \notin Steps
    BY <1>4, <1>a, <1>t DEF Exchange, Relies, GrantInv, Alone, Active, Steps
  <2>2. g \notin redeemed
    <3>1. \A q \in Requests : pc[q] # "set"
      BY <2>1 DEF Steps
    <3>. QED
      BY <1>a, <2>1, <3>1 DEF Unused
  <2>3. CASE fresh' = [fresh EXCEPT ![r] = <<Refreshed(r)>>] /\ Goto(r, "set")
             /\ redeemed' = redeemed \cup {g} /\ UNCHANGED replayed
    <3>1. fresh'[r][1].gen = Len(owner) + 1
      BY <1>t, <2>3 DEF Refreshed
    <3>2. g \in 1 .. Len(owner)
      BY <1>n, <2>1
    <3>3. fresh'[r][1].gen \notin redeemed'
      BY <1>l, <2>3, <3>1, <3>2
    <3>4. pc'[r] = "set" /\ \A q \in Requests \ {r} : pc'[q] \notin {"name", "set"}
      BY <1>t, <2>1, <2>3 DEF Goto, Steps
    <3>. QED
      BY <1>a, <2>3, <3>3, <3>4 DEF Unused
  <2>4. CASE RefreshFails(r) /\ UNCHANGED <<fresh, redeemed>>
             /\ replayed' = (replayed \/ g \in redeemed)
    <3>1. \E p \in {"done", "clear"} : pc' = [pc EXCEPT ![r] = p]
      BY <2>4 DEF RefreshFails, Goto, Reply
    <3>2. replayed' = FALSE /\ replayed = FALSE /\ tokens' = tokens
      BY <1>4, <1>a, <2>2, <2>4 DEF Unused, Exchange, storeVars
    <3>. QED
      BY <1>g, <2>1, <2>4, <3>1, <3>2 DEF Steps
  <2>5. ~lostAnswer'
    BY DEF Cause
  <2>. QED
    BY <1>4, <2>3, <2>4, <2>5, Zenon DEF Exchange
<1>5. ASSUME NEW r \in Requests, ExchangeCode(r) PROVE Unused'
  <2>1. CASE Reply(r, "failed") /\ UNCHANGED fresh
    BY <1>5, <1>g, <2>1 DEF ExchangeCode, Reply, storeVars, Steps
  <2>2. CASE /\ Goto(r, "name")
             /\ fresh' = [fresh EXCEPT ![r] =
                  <<[gen |-> Len(owner) + 1, exp |-> now + Life, user |-> NoName]>>]
    <3>1. fresh'[r][1].gen = Len(owner) + 1
      BY <1>t, <2>2
    <3>2. pc[r] = "code" /\ UNCHANGED <<tokens, redeemed, replayed>>
      BY <1>5 DEF ExchangeCode, storeVars
    <3>3. fresh'[r][1].gen \notin redeemed'
      BY <1>l, <3>1, <3>2
    <3>4. (\A q \in Requests : pc'[q] # "set") => \A q \in Requests : pc[q] # "set"
      BY <1>t, <2>2, <3>2 DEF Goto
    <3>5. \A q \in Requests \ {r} : pc'[q] = pc[q] /\ fresh'[q] = fresh[q]
      BY <1>t, <2>2 DEF Goto
    <3>. QED
      BY <1>a, <3>2, <3>3, <3>4, <3>5 DEF Unused
  <2>. QED
    BY <1>5, <2>1, <2>2 DEF ExchangeCode
<1>6. ASSUME NEW r \in Requests, FetchUsername(r) PROVE Unused'
  <2>1. /\ pc[r] = "name" /\ pc'[r] = "set" /\ UNCHANGED <<tokens, redeemed, replayed>>
        /\ \A q \in Requests \ {r} : pc'[q] = pc[q] /\ fresh'[q] = fresh[q]
    BY <1>6, <1>t DEF FetchUsername, Goto, storeVars, traktVars
  <2>2. PICK t \in Grants : fresh[r] = <<t>>
    BY <1>a, <1>t, <2>1 DEF Relies, GrantInv, Held
  <2>3. fresh'[r][1].gen = fresh[r][1].gen
    <3>1. PICK u \in {NoName, owner[fresh[r][1].gen]} :
            fresh' = [fresh EXCEPT ![r] = <<[@[1] EXCEPT !.user = u]>>]
      BY <1>6 DEF FetchUsername
    <3>2. fresh'[r] = <<[fresh[r][1] EXCEPT !.user = u]>>
      BY <1>t, <3>1
    <3>3. [t EXCEPT !.user = u].gen = t.gen
      BY DEF Grants
    <3>4. fresh[r][1] = t
      BY <2>2
    <3>5. fresh'[r][1] = [t EXCEPT !.user = u]
      BY <3>2, <3>4
    <3>. QED
      BY <3>3, <3>4, <3>5
  <2>. QED
    BY <1>a, <2>1, <2>3 DEF Unused
<1>7. ASSUME NEW r \in Requests, Set(r) PROVE Unused'
  <2>1. /\ pc[r] = "set" /\ tokens' = fresh[r] /\ UNCHANGED <<fresh, redeemed, replayed>>
        /\ \A q \in Requests : pc'[q] \in {"name", "set"} => pc'[q] = pc[q]
    BY <1>7, <1>t DEF Set, Goto, traktVars
  <2>. QED
    BY <1>a, <2>1 DEF Unused
<1>8. ASSUME NEW r \in Requests, Truncate(r) \/ Write(r) \/ Clear(r) \/ Remove(r) PROVE Unused'
  <2>1. /\ pc[r] # "set" /\ tokens' \in {tokens, <<>>} /\ UNCHANGED <<fresh, redeemed, replayed>>
    BY <1>8 DEF Truncate, Write, Clear, Remove, traktVars
  <2>2. \E p \in (Steps \ {"name", "set"}) \cup {"done"} : pc' = [pc EXCEPT ![r] = p]
    BY <1>8 DEF Truncate, Write, Clear, Remove, Goto, Reply, Steps
  <2>. QED
    BY <1>g, <2>1, <2>2
<1>9. CASE Restart
  BY <1>9, <1>t DEF Restart, Cause
<1>. QED
  BY <1>1, <1>2, <1>3, <1>4, <1>5, <1>6, <1>7, <1>8, <1>9 DEF Next, Step

\* Every step keeps both.
LEMMA SerialStep == SerialInv /\ [Next]_vars => SerialInv'
<1> SUFFICES ASSUME SerialInv, [Next]_vars PROVE SerialInv'
  OBVIOUS
<1>1. GrantInv'
  BY GrantStep DEF SerialInv
<1>2. DOMAIN kind' = Requests /\ DOMAIN answer' = Requests /\ crashes' \in Nat
  <2>1. ASSUME NEW r \in Requests, NEW k \in Kinds, Arrive(r, k)
        PROVE  DOMAIN kind' = DOMAIN kind /\ UNCHANGED <<answer, crashes>>
    BY <2>1 DEF Arrive
  <2>2. ASSUME NEW r \in Requests, Step(r)
        PROVE  DOMAIN answer' = DOMAIN answer /\ UNCHANGED <<kind, crashes>>
    <3>1. UNCHANGED <<kind, crashes>>
      BY <2>2, Zenon DEF Step, Me, MeAgain, ListAuth, ListUser, CheckRefresh, AccessToken, Fetch,
         Refresh, Exchange, ExchangeCode, FetchUsername, Set, Truncate, Write, Clear, Remove,
         RefreshFails, Goto, Reply
    <3>2. answer' = answer \/ \E a : answer' = [answer EXCEPT ![r] = a]
      BY <2>2, Zenon DEF Step, Me, MeAgain, ListAuth, ListUser, CheckRefresh, AccessToken, Fetch,
         Refresh, Exchange, ExchangeCode, FetchUsername, Set, Truncate, Write, Clear, Remove,
         RefreshFails, Goto, Reply
    <3>. QED
      BY <3>1, <3>2
  <2>3. CASE Tick \/ Restart \/ UNCHANGED vars
    BY <2>3 DEF Tick, Restart, vars, reqVars, SerialInv
  <2>. QED
    BY <2>1, <2>2, <2>3 DEF Next, SerialInv
<1>. QED
  BY <1>1, <1>2, SerialAlone, SerialUnused DEF SerialInv

\* GET /api/trakt/me dereferences the tokens it reads again after a refresh
\* without a test; a request that is served alone always finds them there.
THEOREM MeSafeAlone == Spec => []MeFindsTokens
<1>1. SerialInv => MeFindsTokens
  BY DEF SerialInv, Alone, Relies, MeFindsTokens
<1>. QED
  BY SerialInit, SerialStep, <1>1, PTL DEF Spec

\* As long as requests do not overlap, no answer is lost and the process is not
\* restarted, no refresh token is presented twice, whatever the length of the
\* session and however often it is refreshed.
THEOREM NoReplayAlone == Spec => []ReplayHasCause
<1>1. SerialInv => ReplayHasCause
  BY DEF SerialInv, Cause, Unused, ReplayHasCause
<1>. QED
  BY SerialInit, SerialStep, <1>1, PTL DEF Spec

\* As long as requests do not overlap, the user stays logged in until a logout,
\* or until Trakt has failed the very tokens that are given up.
THEOREM SessionKeptAlone == Spec => SessionKept
<1>1. ASSUME SerialInv, NEW r \in Requests, Clear(r), tokens # <<>>, ~overlapped
      PROVE  kind[r] = "logout" \/ tokens[1].gen \in refused
  BY <1>1 DEF SerialInv, Alone, Relies, Clear
<1>2. SerialInv => [\A r \in Requests :
                     (Clear(r) /\ tokens # <<>> /\ ~overlapped) =>
                       (kind[r] = "logout" \/ tokens[1].gen \in refused)]_vars
  BY <1>1
<1>. QED
  BY SerialInit, SerialStep, <1>2, PTL DEF Spec, SessionKept
-----------------------------------------------------------------------------
(* How a session that was given up comes back.                             *)

\* What r knows of itself, whatever others do: only a callback has tokens of a login,
\* and any other that is about to store some has them for the account whose tokens
\* it read.
Renews(r) ==
  /\ pc[r] \in {"code", "name"} => kind[r] = "callback"
  /\ pc[r] \in {"name", "set", "truncate", "write"} => fresh[r] # <<>>
  /\ pc[r] = "set" /\ kind[r] # "callback" =>
       snap[r] # <<>> /\ owner[fresh[r][1].gen] = owner[snap[r][1].gen]
RenewInv == \A r \in Requests : Renews(r)

\* At the start no request has a token.
LEMMA RenewInit == Init => RenewInv
BY DEF Init, RenewInv, Renews

\* What the others know of themselves outlasts a step of r.
LEMMA OthersRenew ==
  ASSUME GrantInv, RenewInv, NEW r \in Requests, Renews(r)',
         owner' = owner \/ \E u \in Users : owner' = Append(owner, u),
         \A q \in Requests \ {r} : /\ pc'[q] = pc[q] /\ kind'[q] = kind[q]
                                  /\ fresh'[q] = fresh[q] /\ snap'[q] = snap[q]
  PROVE  RenewInv'
<1>1. \A g \in 1 .. Len(owner) : owner'[g] = owner[g]
  BY HeldGrows
<1>2. \A x \in Held : x # <<>> => x[1].gen \in 1 .. Len(owner)
  BY HeldGen
<1>3. ASSUME NEW q \in Requests \ {r} PROVE Renews(q)'
  <2>1. fresh[q] \in Held /\ snap[q] \in Held
    BY DEF GrantInv
  <2>2. Renews(q)
    BY DEF RenewInv
  <2>3. /\ fresh[q] # <<>> => owner'[fresh[q][1].gen] = owner[fresh[q][1].gen]
        /\ snap[q] # <<>> => owner'[snap[q][1].gen] = owner[snap[q][1].gen]
    BY <1>1, <1>2, <2>1
  <2>4. pc'[q] = pc[q] /\ kind'[q] = kind[q] /\ fresh'[q] = fresh[q] /\ snap'[q] = snap[q]
    OBVIOUS
  <2>5. pc[q] = "set" /\ kind[q] # "callback" =>
          snap[q] # <<>> /\ owner'[fresh[q][1].gen] = owner'[snap[q][1].gen]
    BY <2>2, <2>3 DEF Renews
  <2>6. /\ pc[q] \in {"code", "name"} => kind[q] = "callback"
        /\ pc[q] \in {"name", "set", "truncate", "write"} => fresh[q] # <<>>
    BY <2>2 DEF Renews
  <2>. QED
    BY <2>4, <2>5, <2>6 DEF Renews
<1>. QED
  BY <1>3 DEF RenewInv

\* Every step keeps it.
LEMMA RenewStep ==
  ASSUME GrantInv, DOMAIN kind = Requests, RenewInv, [Next]_vars PROVE RenewInv'
<1>t. DOMAIN pc = Requests /\ DOMAIN fresh = Requests /\ DOMAIN snap = Requests
  BY DEF GrantInv
<1>r. \A r \in Requests : Renews(r)
  BY DEF RenewInv
<1>o. \A r \in Requests :
        /\ Renews(r)' /\ (owner' = owner \/ \E u \in Users : owner' = Append(owner, u))
        /\ \A q \in Requests \ {r} : /\ pc'[q] = pc[q] /\ kind'[q] = kind[q]
                                     /\ fresh'[q] = fresh[q] /\ snap'[q] = snap[q]
        => RenewInv'
  BY OthersRenew
<1>1. ASSUME NEW r \in Requests, NEW k \in Kinds, Arrive(r, k) PROVE RenewInv'
  <2>1. Renews(r)'
    BY <1>1, <1>t DEF Arrive, FirstStep, Kinds, Renews
  <2>. QED
    BY <1>1, <1>o, <1>t, <2>1 DEF Arrive, traktVars
<1>2. ASSUME NEW r \in Requests,
             \/ Me(r) \/ MeAgain(r) \/ ListAuth(r) \/ ListUser(r) \/ CheckRefresh(r)
             \/ AccessToken(r) \/ Fetch(r) \/ Refresh(r) \/ Clear(r) \/ Remove(r)
      PROVE  RenewInv'
  <2>1. /\ UNCHANGED <<kind, fresh, owner>>
        /\ \A q \in Requests \ {r} : snap'[q] = snap[q]
    BY <1>2, <1>t DEF Me, MeAgain, ListAuth, ListUser, CheckRefresh, AccessToken, Fetch, Refresh,
       Clear, Remove, RefreshFails, Goto, Reply, traktVars
  <2>2. \E p \in (Steps \ {"code", "name", "set", "truncate", "write"}) \cup {"done"} :
          pc' = [pc EXCEPT ![r] = p]
    BY <1>2 DEF Me, MeAgain, ListAuth, ListUser, CheckRefresh, AccessToken, Fetch, Refresh,
       Clear, Remove, RefreshFails, Goto, Reply, Steps
  <2>3. Renews(r)'
    BY <1>t, <2>2 DEF Renews
  <2>. QED
    BY <1>o, <1>t, <2>1, <2>2, <2>3
<1>3. ASSUME NEW r \in Requests, Exchange(r) PROVE RenewInv'
  <2> DEFINE g == snap[r][1].gen
  <2>1. /\ pc[r] = "exchange" /\ UNCHANGED <<kind, snap>> /\ snap[r] # <<>> /\ snap[r] \in Held
    BY <1>3 DEF Exchange, GrantInv, Goto, RefreshFails, Reply
  <2>2. g \in 1 .. Len(owner) /\ owner[g] \in Users
    BY <2>1, HeldGen DEF GrantInv
  <2> HIDE DEF g
  <2>3. CASE RefreshFails(r) /\ UNCHANGED <<owner, fresh>>
    <3>1. \E p \in {"done", "clear"} : pc' = [pc EXCEPT ![r] = p]
      BY <2>3 DEF RefreshFails, Goto, Reply
    <3>2. Renews(r)'
      BY <1>t, <3>1 DEF Renews
    <3>. QED
      BY <1>o, <1>t, <2>1, <2>3, <3>1, <3>2
  <2>4. CASE /\ Issue(owner[g]) /\ fresh' = [fresh EXCEPT ![r] = <<Refreshed(r)>>]
             /\ Goto(r, "set")
    <3>1. /\ owner' = Append(owner, owner[g]) /\ pc' = [pc EXCEPT ![r] = "set"]
          /\ fresh'[r] = <<Refreshed(r)>>
      BY <1>t, <2>4 DEF Issue, Goto
    <3>2. owner'[Len(owner) + 1] = owner[g] /\ owner'[g] = owner[g]
      BY <2>2, <3>1, HeldGrows
    <3>3. fresh'[r] # <<>> /\ fresh'[r][1].gen = Len(owner) + 1
      BY <3>1 DEF Refreshed
    <3>4. Renews(r)'
      BY <1>t, <2>1, <3>1, <3>2, <3>3 DEF Renews, g
    <3>. QED
      BY <1>o, <1>t, <2>1, <2>2, <2>4, <3>1, <3>4
  <2>. QED
    BY <1>3, <2>3, <2>4, Zenon DEF Exchange, g
<1>4. ASSUME NEW r \in Requests, ExchangeCode(r) PROVE RenewInv'
  <2>1. UNCHANGED <<kind, snap>> /\ pc[r] = "code"
    BY <1>4 DEF ExchangeCode, Goto, Reply
  <2>2. CASE Reply(r, "failed") /\ UNCHANGED <<owner, fresh>>
    <3>1. Renews(r)'
      BY <1>t, <2>2 DEF Renews, Reply
    <3>. QED
      BY <1>o, <1>t, <2>1, <2>2, <3>1 DEF Reply
  <2>3. CASE /\ \E u \in Users : Issue(u)
             /\ fresh' = [fresh EXCEPT ![r] =
                  <<[gen |-> Len(owner) + 1, exp |-> now + Life, user |-> NoName]>>]
             /\ Goto(r, "name")
    <3>1. Renews(r)'
      BY <1>r, <1>t, <2>1, <2>3 DEF Renews, Goto
    <3>. QED
      BY <1>o, <1>t, <2>1, <2>3, <3>1 DEF Goto, Issue
  <2>. QED
    BY <1>4, <2>2, <2>3 DEF ExchangeCode
<1>5. ASSUME NEW r \in Requests, FetchUsername(r) PROVE RenewInv'
  <2>1. /\ pc[r] = "name" /\ fresh'[r] # <<>> /\ UNCHANGED <<kind, snap, owner>>
        /\ pc' = [pc EXCEPT ![r] = "set"]
        /\ \A q \in Requests \ {r} : fresh'[q] = fresh[q]
    BY <1>5, <1>t DEF FetchUsername, Goto, traktVars
  <2>2. Renews(r)'
    BY <1>r, <1>t, <2>1 DEF Renews
  <2>. QED
    BY <1>o, <1>t, <2>1, <2>2
<1>6. ASSUME NEW r \in Requests, Set(r) \/ Truncate(r) \/ Write(r) PROVE RenewInv'
  <2>1. /\ pc[r] \in {"set", "truncate", "write"} /\ UNCHANGED <<kind, snap, owner, fresh>>
        /\ \E p \in Steps \cup {"done"} : /\ p \notin {"code", "name", "set"}
                                        /\ pc' = [pc EXCEPT ![r] = p]
    BY <1>6 DEF Set, Truncate, Write, Goto, Reply, Steps, traktVars
  <2>2. Renews(r)'
    BY <1>r, <1>t, <2>1 DEF Renews
  <2>. QED
    BY <1>o, <1>t, <2>1, <2>2
<1>7. CASE Restart
  <2>1. \A r \in Requests : pc'[r] \in {"idle", "done"}
    BY <1>7 DEF Restart
  <2>. QED
    BY <2>1 DEF RenewInv, Renews
<1>8. CASE Tick \/ UNCHANGED vars
  BY <1>8 DEF Tick, vars, traktVars, reqVars, RenewInv, Renews
<1>. QED
  BY <1>1, <1>2, <1>3, <1>4, <1>5, <1>6, <1>7, <1>8 DEF Next, Step

\* Where there is no session, Set or a restart begins one.
LEMMA SessionBegins ==
  ASSUME [Next]_vars, tokens = <<>>, tokens' # <<>>
  PROVE  (\E r \in Requests : Set(r)) \/ Restart
<1>1. ASSUME NEW r \in Requests, NEW k \in Kinds, Arrive(r, k) PROVE UNCHANGED tokens
  BY <1>1 DEF Arrive, storeVars
<1>2. ASSUME NEW r \in Requests, Step(r), ~Set(r) PROVE tokens' \in {tokens, <<>>}
  BY <1>2 DEF Step, Me, MeAgain, ListAuth, ListUser, CheckRefresh, AccessToken, Fetch,
     Refresh, Exchange, ExchangeCode, FetchUsername, Truncate, Write, Clear, Remove, storeVars
<1>3. CASE Tick \/ UNCHANGED vars
  BY <1>3 DEF Tick, vars, storeVars
<1>. QED
  BY <1>1, <1>2, <1>3 DEF Next

\* A logout that was answered, and that no refresh overlapped, is never undone; a
\* refresh that undoes one restores the account it had read: for any number of
\* requests, accounts and restarts.  oauth.go:112-139, store.go:65-77.
THEOREM SessionReturnsByLogin == Spec => SessionReturns
<1> DEFINE Inv == DurableInv /\ SerialInv /\ RenewInv
           Login == \E r \in Requests : kind[r] = "callback" /\ Set(r)
           Late == /\ overlapped
                   /\ \E r \in Requests : /\ Set(r) /\ snap[r] # <<>>
                                          /\ owner[fresh[r][1].gen] = owner[snap[r][1].gen]
           Undone == Restart /\ \E r \in Requests : pc[r] = "remove"
<1>1. Init => Inv
  BY DurableInit, SerialInit, RenewInit
<1>2. Inv /\ [Next]_vars => Inv'
  <2> SUFFICES ASSUME Inv, [Next]_vars PROVE Inv'
    OBVIOUS
  <2>1. RenewInv'
    BY RenewStep DEF SerialInv
  <2>. QED
    BY <2>1, DurableStep, SerialStep
<1>3. Inv /\ [Next]_vars => [(tokens = <<>> /\ tokens' # <<>>) => Login \/ Late \/ Undone]_vars
  <2> SUFFICES ASSUME Inv, [Next]_vars, tokens = <<>>, tokens' # <<>> PROVE Login \/ Late \/ Undone
    OBVIOUS
  <2>1. ASSUME NEW r \in Requests, Set(r) PROVE Login \/ Late
    <3>1. CASE kind[r] = "callback"
      BY <2>1, <3>1
    <3>2. CASE kind[r] # "callback"
      <4>1. pc[r] = "set" /\ Renews(r)
        BY <2>1 DEF Set, RenewInv
      <4>2. overlapped
        BY <3>2, <4>1 DEF SerialInv, Alone, Relies
      <4>. QED
        BY <2>1, <3>2, <4>1, <4>2 DEF Renews
    <3>. QED
      BY <3>1, <3>2
  <2>2. ASSUME Restart PROVE Undone
    <3>1. lock # {}
      BY <2>2 DEF Restart, DurableInv, Durable
    <3>2. PICK r \in Requests : r \in lock /\ pc[r] \in Inside
      BY <3>1 DEF DurableInv, Mutex
    <3>3. Renews(r) /\ (pc[r] \in {"truncate", "write"} => tokens = fresh[r])
      BY <3>2 DEF RenewInv, DurableInv, Pending
    <3>4. pc[r] = "remove"
      BY <3>2, <3>3 DEF Renews, Inside
    <3>. QED
      BY <2>2, <3>4
  <2>. QED
    BY <2>1, <2>2, SessionBegins
<1>. QED
  BY <1>1, <1>2, <1>3, PTL DEF Spec, SessionReturns

\* Both together: what ends a session, and what begins one.  oauth.go:112-149.
THEOREM SessionIsSound == Spec => SessionSound
BY SessionKeptAlone, SessionReturnsByLogin DEF SessionSound

\* Where a request waits for Store.mu, to read or to write.
Waiting == {"me", "meAgain", "listAuth", "listUser", "needsRefresh", "accessToken",
            "refresh", "set", "clear"}

\* Store.mu is held over the change of memory and file and over nothing else: no
\* request asks Trakt, or waits for another, while it has the lock; so of those
\* under way there is always one that waits for nobody.  store.go:43-77.
THEOREM SomebodyGoesOn ==
  Spec => []/\ \A r \in lock : pc[r] \in {"truncate", "write", "remove"}
            /\ Active # {} => \E r \in Active : pc[r] \in Waiting => lock = {}
<1> DEFINE GoesOn == /\ \A r \in lock : pc[r] \in {"truncate", "write", "remove"}
                     /\ Active # {} => \E r \in Active : pc[r] \in Waiting => lock = {}
<1>1. ASSUME DurableInv PROVE GoesOn
  <2>1. \A r \in lock : r \in Requests /\ pc[r] \in Inside
    BY <1>1 DEF DurableInv, Mutex
  <2>2. Active # {} => \E r \in Active : pc[r] \in Waiting => lock = {}
    BY <2>1 DEF Active, Steps, Inside, Waiting
  <2>. QED
    BY <2>1, <2>2 DEF Inside
<1>2. DurableInv => GoesOn
  BY <1>1
<1>. QED
  BY <1>2, DurableInit, DurableStep, PTL DEF Spec
-----------------------------------------------------------------------------
(* The types.                                                              *)

\* The clock and the counters stay within their bounds.
Bounds == now \in 0 .. MaxTime /\ crashes \in 0 .. MaxCrashes /\ Len(owner) <= MaxGens

\* Handlers and answers are those there are.
Words == kind \in [Requests -> Kinds] /\ answer \in [Requests -> Answers]

\* What the program saw fail had been issued: a request that has called the API
\* holds the token it called it with.
Failed ==
  /\ refused \subseteq 1 .. Len(owner)
  /\ \A r \in Requests : pc[r] = "fetch" => snap[r] # <<>>

Flags == overlapped \in BOOLEAN /\ lostAnswer \in BOOLEAN /\ replayed \in BOOLEAN

TypeInv == DurableInv /\ GrantInv /\ Bounds /\ Words /\ Failed /\ Flags

\* The clock, the handlers and the flags have their types at the start.
LEMMA TypeInit == Init => Bounds /\ Words /\ Failed /\ Flags
<1> SUFFICES ASSUME Init PROVE Bounds /\ Words /\ Failed /\ Flags
  OBVIOUS
<1>1. Bounds
  <2>1. PICK u \in Users : owner = <<>> \/ owner = <<u>>
    BY DEF Init
  <2>2. Len(owner) \in {0, 1}
    BY <2>1
  <2>3. MaxGens \in Nat \ {0} /\ MaxTime \in Nat /\ MaxCrashes \in Nat
    BY TokenAssumption
  <2>4. Len(owner) <= MaxGens
    BY <2>2, <2>3
  <2>5. 0 \in 0 .. MaxTime /\ 0 \in 0 .. MaxCrashes
    BY <2>3
  <2>. QED
    BY <2>4, <2>5 DEF Init, Bounds
<1>2. Words /\ Failed
  BY DEF Init, Words, Failed, Kinds, Answers
<1>3. Flags
  BY DEF Init, Flags
<1>. QED
  BY <1>1, <1>2, <1>3

\* What a step of a request does to the control and the answers.
LEMMA StepControl ==
  ASSUME NEW r \in Requests, Step(r)
  PROVE  /\ UNCHANGED <<now, kind, crashes, overlapped>>
         /\ \/ UNCHANGED answer
            \/ \E a \in Answers : answer' = [answer EXCEPT ![r] = a]
<1>1. UNCHANGED <<now, kind, crashes, overlapped>>
  BY Zenon DEF Step, Me, MeAgain, ListAuth, ListUser, CheckRefresh, AccessToken, Fetch,
     Refresh, Exchange, ExchangeCode, FetchUsername, Set, Truncate, Write, Clear, Remove,
     RefreshFails, Goto, Reply
<1> DEFINE Answered == \/ UNCHANGED answer
                       \/ \E a \in Answers : answer' = [answer EXCEPT ![r] = a]
<1>2. \A a \in Answers : Reply(r, a) => Answered
  BY DEF Reply
<1>3. \A p : Goto(r, p) => Answered
  BY DEF Goto
<1> HIDE DEF Answered
<1>4. RefreshFails(r) => Answered
  BY <1>2, <1>3 DEF RefreshFails, Answers
<1>5. Answered
  BY <1>2, <1>3, <1>4 DEF Step, Me, MeAgain, ListAuth, ListUser, CheckRefresh,
     AccessToken, Fetch, Refresh, Exchange, ExchangeCode, FetchUsername, Set, Truncate,
     Write, Clear, Remove, Answers
<1>. QED
  BY <1>1, <1>5 DEF Answered

\* Every step keeps handlers and answers to those there are.
LEMMA WordsStep == ASSUME Words, [Next]_vars PROVE Words'
<1>1. ASSUME NEW r \in Requests, NEW k \in Kinds, Arrive(r, k) PROVE Words'
  BY <1>1 DEF Arrive, Words
<1>2. ASSUME NEW r \in Requests, Step(r) PROVE Words'
  BY <1>2, StepControl DEF Words
<1>3. CASE Tick \/ Restart \/ UNCHANGED vars
  BY <1>3 DEF Tick, Restart, vars, reqVars, Words
<1>. QED
  BY <1>1, <1>2, <1>3 DEF Next

\* Every step keeps the clock and the counters within their bounds.
LEMMA BoundsStep == ASSUME GrantInv, Bounds, [Next]_vars PROVE Bounds'
<1>l. \A u \in Users : Issue(u) => Len(owner') <= MaxGens
  <2> SUFFICES ASSUME NEW u \in Users, Issue(u) PROVE Len(owner') <= MaxGens
    OBVIOUS
  <2>1. Len(owner') = Len(owner) + 1 /\ Len(owner) \in Nat /\ Len(owner) < MaxGens
    BY HeldGrows, LenProperties DEF Issue, GrantInv
  <2>. QED
    BY <2>1, TokenAssumption
<1>1. ASSUME NEW r \in Requests, NEW k \in Kinds, Arrive(r, k) PROVE Bounds'
  BY <1>1 DEF Arrive, traktVars, Bounds
<1>2. ASSUME NEW r \in Requests, Exchange(r) PROVE Len(owner') <= MaxGens
  <2>1. snap[r] # <<>> /\ snap[r] \in Held
    BY <1>2 DEF Exchange, GrantInv
  <2>2. owner[snap[r][1].gen] \in Users
    <3>1. PICK t \in Grants : snap[r] = <<t>>
      BY <2>1 DEF Held
    <3>. QED
      BY <3>1 DEF Grants, GrantInv
  <2>3. UNCHANGED owner \/ Issue(owner[snap[r][1].gen])
    BY <1>2 DEF Exchange
  <2>. QED
    BY <1>l, <2>2, <2>3 DEF Bounds
<1>3. ASSUME NEW r \in Requests, Step(r) PROVE Len(owner') <= MaxGens
  <2>1. CASE ExchangeCode(r)
    BY <1>l, <2>1 DEF ExchangeCode, Bounds
  <2>2. CASE ~(Exchange(r) \/ ExchangeCode(r))
    <3>1. UNCHANGED owner
      BY <1>3, <2>2 DEF Step, Me, MeAgain, ListAuth, ListUser, CheckRefresh, AccessToken, Fetch,
         Refresh, FetchUsername, Set, Truncate, Write, Clear, Remove, traktVars
    <3>. QED
      BY <3>1 DEF Bounds
  <2>. QED
    BY <1>2, <2>1, <2>2
<1>4. ASSUME NEW r \in Requests, Step(r) PROVE Bounds'
  BY <1>3, <1>4, StepControl DEF Bounds
<1>5. CASE Tick
  BY <1>5, TokenAssumption DEF Tick, traktVars, reqVars, Bounds
<1>6. CASE Restart
  BY <1>6, TokenAssumption DEF Restart, traktVars, Bounds
<1>7. CASE UNCHANGED vars
  BY <1>7 DEF vars, traktVars, Bounds
<1>. QED
  BY <1>1, <1>4, <1>5, <1>6, <1>7 DEF Next

\* The control leaves the API call alone but on the step that begins it.
LEMMA FailedGoto ==
  ASSUME GrantInv, Failed, NEW r \in Requests, NEW p \in (Steps \ {"fetch"}) \cup {"done"},
         pc' = [pc EXCEPT ![r] = p], \A q \in Requests \ {r} : snap'[q] = snap[q],
         Len(owner') \in Nat, Len(owner) <= Len(owner'),
         \A g \in refused' \ refused : g \in 1 .. Len(owner)
  PROVE  Failed'
<1>1. Len(owner) \in Nat
  BY LenProperties DEF GrantInv
<1>2. refused' \subseteq 1 .. Len(owner')
  <2>1. \A g \in refused' : g \in 1 .. Len(owner)
    BY DEF Failed
  <2>. QED
    BY <1>1, <2>1
<1>3. \A q \in Requests : pc'[q] = "fetch" => q # r /\ pc[q] = "fetch"
  BY DEF GrantInv
<1>. QED
  BY <1>2, <1>3 DEF Failed

\* Every step refuses only tokens that were issued.
LEMMA FailedStep == ASSUME GrantInv, Failed, [Next]_vars PROVE Failed'
<1>l. Len(owner) \in Nat
  BY LenProperties DEF GrantInv
<1>g. \A r \in Requests : \A p \in (Steps \ {"fetch"}) \cup {"done"} :
        /\ pc' = [pc EXCEPT ![r] = p] /\ UNCHANGED <<owner, refused>>
        /\ \A q \in Requests \ {r} : snap'[q] = snap[q]
        => Failed'
  <2>1. UNCHANGED <<owner, refused>> =>
          /\ Len(owner') \in Nat /\ Len(owner) <= Len(owner')
          /\ \A g \in refused' \ refused : g \in 1 .. Len(owner)
    BY <1>l
  <2>. QED
    BY <2>1, FailedGoto
<1>n. \A r \in Requests : snap[r] # <<>> => snap[r][1].gen \in 1 .. Len(owner)
  BY HeldGen DEF GrantInv
<1>1. ASSUME NEW r \in Requests, NEW k \in Kinds, Arrive(r, k) PROVE Failed'
  BY <1>1, <1>g DEF Arrive, FirstStep, Kinds, Steps, traktVars
<1>2. ASSUME NEW r \in Requests,
             Me(r) \/ MeAgain(r) \/ ListAuth(r) \/ ListUser(r) \/ CheckRefresh(r) \/ Refresh(r)
      PROVE  Failed'
  <2>1. /\ UNCHANGED <<owner, refused>> /\ \A q \in Requests \ {r} : snap'[q] = snap[q]
    BY <1>2 DEF Me, MeAgain, ListAuth, ListUser, CheckRefresh, Refresh, traktVars, GrantInv
  <2>2. \E p \in (Steps \ {"fetch"}) \cup {"done"} : pc' = [pc EXCEPT ![r] = p]
    BY <1>2 DEF Me, MeAgain, ListAuth, ListUser, CheckRefresh, Refresh,
       RefreshFails, Goto, Reply, Steps
  <2>. QED
    BY <1>g, <2>1, <2>2
<1>3. ASSUME NEW r \in Requests, AccessToken(r) PROVE Failed'
  <2>1. CASE tokens = <<>> \/ Expired(tokens[1])
    BY <1>3, <1>g, <2>1 DEF AccessToken, Reply, traktVars, Steps
  <2>2. CASE ~(tokens = <<>> \/ Expired(tokens[1]))
    <3>1. /\ UNCHANGED <<owner, refused>> /\ snap' = [snap EXCEPT ![r] = tokens] /\ tokens # <<>>
          /\ pc' = [pc EXCEPT ![r] = "fetch"]
      BY <1>3, <2>2 DEF AccessToken, Goto, traktVars
    <3>. QED
      BY <3>1 DEF Failed, GrantInv
  <2>. QED
    BY <2>1, <2>2
<1>4. ASSUME NEW r \in Requests, Fetch(r) PROVE Failed'
  <2>1. /\ UNCHANGED <<owner, snap>> /\ refused' \subseteq refused \cup {snap[r][1].gen}
        /\ snap[r] # <<>>
    BY <1>4 DEF Fetch, traktVars, Failed
  <2>2. \E p \in (Steps \ {"fetch"}) \cup {"done"} : pc' = [pc EXCEPT ![r] = p]
    BY <1>4 DEF Fetch, Goto, Reply, Steps
  <2>3. Len(owner') \in Nat /\ Len(owner) <= Len(owner')
    BY <1>l, <2>1
  <2>. QED
    BY <1>n, <2>1, <2>2, <2>3, FailedGoto
<1>5. ASSUME NEW r \in Requests, Exchange(r) PROVE Failed'
  <2>1. /\ UNCHANGED snap /\ refused' \subseteq refused \cup {snap[r][1].gen}
        /\ snap[r] # <<>>
    BY <1>5 DEF Exchange, GrantInv
  <2>2. \E p \in (Steps \ {"fetch"}) \cup {"done"} : pc' = [pc EXCEPT ![r] = p]
    BY <1>5 DEF Exchange, RefreshFails, Goto, Reply, Steps
  <2>3. Len(owner') \in Nat /\ Len(owner) <= Len(owner')
    <3>1. UNCHANGED owner \/ owner' = Append(owner, owner[snap[r][1].gen])
      BY <1>5 DEF Exchange, Issue
    <3>2. owner[snap[r][1].gen] \in Users
      BY <1>n, <2>1 DEF GrantInv
    <3>. QED
      BY <1>l, <3>1, <3>2, HeldGrows
  <2>. QED
    BY <1>n, <2>1, <2>2, <2>3, FailedGoto
<1>6. ASSUME NEW r \in Requests, ExchangeCode(r) PROVE Failed'
  <2>1. UNCHANGED <<snap, refused>>
    BY <1>6 DEF ExchangeCode
  <2>2. \E p \in (Steps \ {"fetch"}) \cup {"done"} : pc' = [pc EXCEPT ![r] = p]
    BY <1>6 DEF ExchangeCode, Goto, Reply, Steps
  <2>3. Len(owner') \in Nat /\ Len(owner) <= Len(owner')
    <3>1. UNCHANGED owner \/ \E u \in Users : owner' = Append(owner, u)
      BY <1>6 DEF ExchangeCode, Issue
    <3>. QED
      BY <1>l, <3>1, HeldGrows
  <2>. QED
    BY <2>1, <2>2, <2>3, FailedGoto
<1>7. ASSUME NEW r \in Requests,
             FetchUsername(r) \/ Set(r) \/ Truncate(r) \/ Write(r) \/ Clear(r) \/ Remove(r)
      PROVE  Failed'
  <2>1. UNCHANGED <<owner, refused, snap>>
    BY <1>7 DEF FetchUsername, Set, Truncate, Write, Clear, Remove, traktVars
  <2>2. \E p \in (Steps \ {"fetch"}) \cup {"done"} : pc' = [pc EXCEPT ![r] = p]
    BY <1>7 DEF FetchUsername, Set, Truncate, Write, Clear, Remove, Goto, Reply, Steps
  <2>. QED
    BY <1>g, <2>1, <2>2
<1>8. CASE Restart
  <2>1. UNCHANGED <<owner, refused, snap>> /\ \A r \in Requests : pc'[r] # "fetch"
    BY <1>8 DEF Restart, traktVars
  <2>. QED
    BY <2>1 DEF Failed
<1>9. CASE Tick \/ UNCHANGED vars
  BY <1>9 DEF Tick, vars, storeVars, traktVars, reqVars, Failed
<1>. QED
  BY <1>1, <1>2, <1>3, <1>4, <1>5, <1>6, <1>7, <1>8, <1>9 DEF Next, Step

\* Every step keeps the histories Boolean.
LEMMA FlagsStep == ASSUME Flags, [Next]_vars PROVE Flags'
<1>1. ASSUME NEW r \in Requests, NEW k \in Kinds, Arrive(r, k) PROVE Flags'
  <2>1. overlapped' \in BOOLEAN
    BY <1>1, Zenon DEF Arrive
  <2>2. UNCHANGED <<lostAnswer, replayed>>
    BY <1>1 DEF Arrive, traktVars
  <2>. QED
    BY <2>1, <2>2 DEF Flags
<1>2. ASSUME NEW r \in Requests, Exchange(r) PROVE Flags'
  <2>1. lostAnswer' \in {lostAnswer, TRUE} /\ UNCHANGED overlapped
    BY <1>2, StepControl DEF Exchange, Step
  <2>2. UNCHANGED replayed \/ replayed' = (replayed \/ snap[r][1].gen \in redeemed)
    BY <1>2, Zenon DEF Exchange
  <2>3. replayed' \in BOOLEAN
    BY <2>2 DEF Flags
  <2>. QED
    BY <2>1, <2>3 DEF Flags
<1>3. ASSUME NEW r \in Requests, Step(r), ~Exchange(r) PROVE Flags'
  <2>1. UNCHANGED <<lostAnswer, replayed>>
    BY <1>3 DEF Step, Me, MeAgain, ListAuth, ListUser, CheckRefresh, AccessToken, Fetch,
       Refresh, ExchangeCode, FetchUsername, Set, Truncate, Write, Clear, Remove, traktVars
  <2>2. UNCHANGED overlapped
    BY <1>3, StepControl
  <2>. QED
    BY <2>1, <2>2 DEF Flags
<1>4. CASE Tick \/ Restart \/ UNCHANGED vars
  BY <1>4 DEF Tick, Restart, vars, traktVars, reqVars, Flags
<1>. QED
  BY <1>1, <1>2, <1>3, <1>4 DEF Next

\* A token that was granted is a token; Store.mu has at most one holder.
LEMMA TypeFollows == TypeInv => TypeOK
<1> SUFFICES ASSUME TypeInv PROVE TypeOK
  OBVIOUS
<1>1. Held \subseteq Opt(Token)
  <2>1. <<>> \in Opt(Token)
    BY DEF Opt
  <2>2. ASSUME NEW t \in Grants PROVE <<t>> \in Opt(Token)
    <3>1. t \in Token
      BY <2>2 DEF Grants, Token
    <3>. QED
      BY <3>1 DEF Opt
  <2>. QED
    BY <2>1, <2>2 DEF Held
<1>2. Cardinality(lock) <= 1
  <2>1. CASE lock = {}
    BY <2>1, FS_EmptySet
  <2>2. CASE lock # {}
    <3>1. PICK r : lock = {r}
      BY <2>2 DEF TypeInv, DurableInv, Mutex
    <3>2. Cardinality({r}) = 1
      BY FS_Singleton
    <3>. QED
      BY <3>1, <3>2
  <2>. QED
    BY <2>1, <2>2
<1>3. DOMAIN owner = 1 .. Len(owner)
  BY DEF TypeInv, GrantInv
<1>4. {overlapped, lostAnswer, replayed} \subseteq BOOLEAN
  BY DEF TypeInv, Flags
<1>5. /\ tokens \in Opt(Token) /\ file \in Opt(Token)
      /\ snap \in [Requests -> Opt(Token)] /\ fresh \in [Requests -> Opt(Token)]
  BY <1>1 DEF TypeInv, GrantInv
<1>. QED
  BY <1>2, <1>3, <1>4, <1>5 DEF TypeOK, TypeInv, DurableInv, Mutex, GrantInv, Bounds, Words, Failed

\* The types, and with them that Store.mu never has two holders, that what the
\* program saw fail had been issued, and that every handler answers with an
\* answer there is.
THEOREM TokensTyped == Spec => []TypeOK
<1>1. Init => TypeInv
  BY DurableInit, GrantInit, TypeInit DEF TypeInv
<1>2. TypeInv /\ [Next]_vars => TypeInv'
  BY DurableStep, GrantStep, BoundsStep, WordsStep, FailedStep, FlagsStep DEF TypeInv
<1>. QED
  BY <1>1, <1>2, TypeFollows, PTL DEF Spec
=============================================================================
