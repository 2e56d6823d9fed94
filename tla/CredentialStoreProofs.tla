------------------------ MODULE CredentialStoreProofs ------------------------
(* Theorems about CredentialStore, for any finite number of requests, any     *)
(* strings, any environment and any number of restarts.                       *)
EXTENDS CredentialStore, FiniteSetTheorems, TLAPS

\* What the constants are.
Sensible == IsFiniteSet(Requests) /\ Strings \subseteq Nat /\ Env \in Creds

\* The state, but for the bound on restarts.
Shape ==
  /\ creds \in Creds /\ snap \in [Requests -> Creds]
  /\ file \in [state : {"missing", "junk", "whole"}, creds : Creds, len : Nat]
  /\ pc \in [Requests -> PCs]

\* Requests that save; a set that is as large as overlapped looks for.
Busy(r) == pc[r] \in {"save", "open", "write"}

\* While saves neither overlap nor are cut short: one request saves at a time,
\* what it has copied is what memory still holds, the file is empty when it
\* writes, and between saves the file brings back every value.
Serial ==
  /\ \A r, s \in Requests : Busy(r) /\ Busy(s) => r = s
  /\ \A r \in Requests : pc[r] \in {"open", "write"} => snap[r] = creds
  /\ \A r \in Requests : pc[r] = "write" => file.len = 0
  /\ (\A r \in Requests : ~Busy(r)) => Durable

SerialInv == Shape /\ (~overlapped /\ ~interrupted => Serial)

-----------------------------------------------------------------------------
\* Two requests that save are seen by overlapped.
LEMMA TwoSaves ==
  ASSUME Sensible, NEW p, NEW r \in Requests, NEW s \in Requests, r # s,
         p[r] \in {"save", "open", "write"}, p[s] \in {"save", "open", "write"}
  PROVE  Cardinality(Saving(p)) > 1
<1>1. Saving(p) \in SUBSET Requests /\ {r, s} \in SUBSET Saving(p)
  BY DEF Saving
<1>2. IsFiniteSet(Saving(p)) /\ Cardinality(Saving(p)) \in Nat
  BY <1>1, FS_Subset, FS_CardinalityType DEF Sensible
<1>3. Cardinality({r, s}) = 2 /\ IsFiniteSet({r, s})
  <2>1. IsFiniteSet({r}) /\ Cardinality({r}) = 1 /\ s \notin {r}
    BY FS_Singleton
  <2>2. {r, s} = {r} \cup {s}
    OBVIOUS
  <2>. QED
    BY <2>1, <2>2, FS_AddElement
<1>4. Cardinality({r, s}) <= Cardinality(Saving(p))
  BY <1>1, <1>2, FS_Subset
<1>. QED
  BY <1>2, <1>3, <1>4

\* What load makes of a file has the shape of credentials.
LEMMA LoadType ==
  ASSUME Sensible, Shape PROVE Load(file) \in Creds
<1>1. /\ Env.id \in Nat /\ Env.secret \in Nat /\ Env.redirect \in Nat
      /\ file.creds \in Creds /\ DOMAIN file.creds = {"id", "secret", "redirect"}
  BY DEF Sensible, Shape, Creds
<1>2. file.creds.id \in Nat /\ file.creds.secret \in Nat /\ file.creds.redirect \in Nat
  BY <1>1 DEF Creds
<1>3. CASE file.state = "whole"
  <2> DEFINE loaded == [k \in DOMAIN file.creds |->
                          IF file.creds[k] # 0 THEN file.creds[k] ELSE Env[k]]
  <2>1. Load(file) = loaded
    BY <1>3 DEF Load
  <2>2. /\ DOMAIN loaded = {"id", "secret", "redirect"}
        /\ loaded.id \in Nat /\ loaded.secret \in Nat /\ loaded.redirect \in Nat
    BY <1>1, <1>2
  <2>. QED
    BY <2>1, <2>2 DEF Creds
<1>4. CASE file.state # "whole"
  BY <1>4 DEF Load, Sensible
<1>. QED
  BY <1>3, <1>4

\* The initial state is one of Serial's.
LEMMA SerialInit == Sensible /\ Init => SerialInv
<1> SUFFICES ASSUME Sensible, Init PROVE SerialInv
  OBVIOUS
<1>1. file = Missing /\ creds = Env /\ Load(file) = Env
  BY DEF Init, Missing, Load
<1>2. Shape
  BY <1>1 DEF Init, Shape, Sensible, Missing, PCs
<1>3. Serial
  BY <1>1 DEF Init, Serial, Busy, Durable
<1>. QED
  BY <1>2, <1>3 DEF SerialInv

\* No step leaves Shape.
LEMMA ShapeStep == Sensible /\ Shape /\ [Next]_vars => Shape'
<1> SUFFICES ASSUME Sensible, Shape, [Next]_vars PROVE Shape'
  OBVIOUS
<1>1. ASSUME NEW r \in Requests, NEW new \in [id : Strings, secret : Strings, redirect : Strings],
             Update(r, new)
      PROVE  Shape'
  <2>1. new \in Creds /\ creds \in Creds
    BY DEF Sensible, Creds, Shape
  <2>2. Merged(creds, new) \in Creds
    BY <2>1 DEF Merged, Creds
  <2>. QED
    BY <1>1, <2>2 DEF Update, Goto, Shape, PCs
<1>2. ASSUME NEW r \in Requests, NEW uri \in Strings \ {0}, SetRedirectURI(r, uri) PROVE Shape'
  <2>1. [creds EXCEPT !.redirect = uri] \in Creds
    BY DEF Sensible, Creds, Shape
  <2>. QED
    BY <1>2, <2>1 DEF SetRedirectURI, Goto, Shape, PCs
<1>3. ASSUME NEW r \in Requests, Snapshot(r) PROVE Shape'
  BY <1>3 DEF Snapshot, Goto, Shape, PCs
<1>4. ASSUME NEW r \in Requests, Truncate(r) PROVE Shape'
  BY <1>4 DEF Truncate, Goto, Shape, PCs
<1>5. ASSUME NEW r \in Requests, Write(r) PROVE Shape'
  <2>1. snap[r] \in Creds /\ Size(snap[r]) \in Nat
    BY DEF Shape, Creds, Size
  <2>. QED
    BY <1>5, <2>1 DEF Write, Written, Goto, Shape, PCs
<1>6. CASE Restart
  BY <1>6, LoadType DEF Restart, Shape, PCs
<1>7. CASE UNCHANGED vars
  BY <1>7 DEF vars, Shape
<1>. QED
  BY <1>1, <1>2, <1>3, <1>4, <1>5, <1>6, <1>7 DEF Next, Save

\* After Goto without an overlap, r is alone if it saves.
LEMMA GotoAlone ==
  ASSUME Sensible, Shape, NEW r \in Requests, NEW p \in PCs, Goto(r, p), ~overlapped'
  PROVE  /\ ~overlapped /\ pc'[r] = p
         /\ \A s \in Requests \ {r} : pc'[s] = pc[s]
         /\ \A q, s \in Requests : Busy(q)' /\ Busy(s)' => q = s
<1>1. ~overlapped /\ ~(Cardinality(Saving(pc')) > 1)
  BY DEF Goto
<1>2. \A q, s \in Requests : Busy(q)' /\ Busy(s)' => q = s
  BY <1>1, TwoSaves DEF Busy
<1>. QED
  BY <1>1, <1>2 DEF Goto, Shape

\* Serial is kept as long as no saves overlap and none is cut short.
LEMMA SerialStep == Sensible /\ SerialInv /\ [Next]_vars => SerialInv'
<1> SUFFICES ASSUME Sensible, SerialInv, [Next]_vars, ~overlapped', ~interrupted'
             PROVE  Serial'
  BY ShapeStep DEF SerialInv
<1>t. Shape
  BY DEF SerialInv
<1>g. \A r \in Requests : \A p \in PCs : Goto(r, p) =>
        /\ ~overlapped /\ pc'[r] = p
        /\ \A s \in Requests \ {r} : pc'[s] = pc[s]
        /\ \A q, s \in Requests : Busy(q)' /\ Busy(s)' => q = s
  BY <1>t, GotoAlone
<1>1. ASSUME NEW r \in Requests, NEW new \in [id : Strings, secret : Strings, redirect : Strings],
             Update(r, new)
      PROVE  Serial'
  <2>1. pc'[r] = "save" /\ \A q, s \in Requests : Busy(q)' /\ Busy(s)' => q = s
    BY <1>1, <1>g DEF Update, PCs
  <2>2. \A s \in Requests \ {r} : ~(Busy(s)')
    BY <2>1 DEF Busy
  <2>. QED
    BY <2>1, <2>2 DEF Serial, Busy
<1>2. ASSUME NEW r \in Requests, NEW uri \in Strings \ {0}, SetRedirectURI(r, uri) PROVE Serial'
  <2>1. CASE creds.redirect # uri
    <3>1. pc'[r] = "save" /\ \A q, s \in Requests : Busy(q)' /\ Busy(s)' => q = s
      BY <1>2, <1>g, <2>1 DEF SetRedirectURI, PCs
    <3>2. \A s \in Requests \ {r} : ~(Busy(s)')
      BY <3>1 DEF Busy
    <3>. QED
      BY <3>1, <3>2 DEF Serial, Busy
  <2>2. CASE creds.redirect = uri
    <3>1. /\ ~overlapped /\ pc[r] = "idle" /\ pc'[r] = "done"
          /\ \A s \in Requests \ {r} : pc'[s] = pc[s]
      BY <1>2, <1>g, <2>2 DEF SetRedirectURI, PCs
    <3>2. creds' = creds /\ UNCHANGED <<file, snap>> /\ ~interrupted
      BY <1>2, <1>t, <2>2 DEF SetRedirectURI, Shape, Creds
    <3>3. Serial
      BY <3>1, <3>2 DEF SerialInv
    <3>. QED
      BY <3>1, <3>2, <3>3 DEF Serial, Busy, Durable, Load
  <2>. QED
    BY <2>1, <2>2
<1>3. ASSUME NEW r \in Requests, Snapshot(r) PROVE Serial'
  <2>1. /\ ~overlapped /\ pc'[r] = "open" /\ \A s \in Requests \ {r} : pc'[s] = pc[s]
        /\ \A q, s \in Requests : Busy(q)' /\ Busy(s)' => q = s
    BY <1>3, <1>g DEF Snapshot, PCs
  <2>2. snap'[r] = creds /\ creds' = creds /\ ~interrupted
    BY <1>3, <1>t DEF Snapshot, Shape
  <2>. QED
    BY <2>1, <2>2 DEF Serial, Busy
<1>4. ASSUME NEW r \in Requests, Truncate(r) PROVE Serial'
  <2>1. /\ ~overlapped /\ pc[r] = "open" /\ pc'[r] = "write"
        /\ \A s \in Requests \ {r} : pc'[s] = pc[s]
        /\ \A q, s \in Requests : Busy(q)' /\ Busy(s)' => q = s
    BY <1>4, <1>g DEF Truncate, PCs
  <2>2. UNCHANGED <<snap, creds>> /\ ~interrupted /\ file'.len = 0
    BY <1>4, <1>t DEF Truncate, Shape
  <2>3. snap[r] = creds
    BY <2>1, <2>2 DEF SerialInv, Serial
  <2>. QED
    BY <2>1, <2>2, <2>3 DEF Serial, Busy
<1>5. ASSUME NEW r \in Requests, Write(r) PROVE Serial'
  <2>1. /\ ~overlapped /\ pc[r] = "write" /\ pc'[r] = "done"
        /\ \A s \in Requests \ {r} : pc'[s] = pc[s]
    BY <1>5, <1>g DEF Write, PCs
  <2>2. creds' = creds /\ ~interrupted /\ file' = Written(snap[r])
    BY <1>5 DEF Write
  <2>3. snap[r] = creds /\ file.len = 0 /\ \A s \in Requests \ {r} : ~Busy(s)
    BY <2>1, <2>2 DEF SerialInv, Serial, Busy
  <2>4. creds \in Creds /\ Size(creds) \in Nat
    BY <1>t DEF Shape, Creds, Size
  <2>5. file' = [state |-> "whole", creds |-> creds, len |-> Size(creds)]
    BY <2>2, <2>3, <2>4 DEF Written
  <2>6. \A k \in DOMAIN creds : creds[k] # 0 => Load(file')[k] = creds[k]
    BY <2>5 DEF Load
  <2>7. Durable'
    BY <2>2, <2>6 DEF Durable, Load
  <2>. QED
    BY <2>1, <2>3, <2>7 DEF Serial, Busy
<1>6. CASE Restart
  <2>1. \A r \in Requests : ~(Busy(r)') /\ pc'[r] \notin {"open", "write"}
    BY <1>6 DEF Restart, Busy
  <2>2. creds' = Load(file) /\ Load(file') = Load(file)
    BY <1>6 DEF Restart, Load
  <2>3. Durable'
    BY <2>2 DEF Durable, Load
  <2>. QED
    BY <2>1, <2>3 DEF Serial
<1>7. CASE UNCHANGED vars
  BY <1>7 DEF vars, SerialInv, Serial, Busy, Durable, Load
<1>. QED
  BY <1>1, <1>2, <1>3, <1>4, <1>5, <1>6, <1>7 DEF Next, Save

\* After saves that neither overlapped nor were cut short, whatever requests and
\* restarts there were, a restart loses no value that is set.
THEOREM SerialSavesDurable ==
  ASSUME Sensible PROVE Spec => []DurableWhenSerial
<1>1. SerialInv => DurableWhenSerial
  BY DEF SerialInv, Serial, Busy, DurableWhenSerial, Quiet, Saving
<1>2. Init => SerialInv
  BY SerialInit
<1>3. SerialInv /\ [Next]_vars => SerialInv'
  BY SerialStep
<1>. QED
  BY <1>1, <1>2, <1>3, PTL DEF Spec

\* No step but a restart after overlapping or interrupted saves blanks the secret.
LEMMA SecretStep ==
  SerialInv /\ [Next]_vars => (creds.secret # 0 => creds'.secret # 0 \/ overlapped \/ interrupted')
<1>1. ASSUME SerialInv, [Next]_vars, creds.secret # 0, creds'.secret = 0,
             ~overlapped, ~interrupted'
      PROVE  FALSE
  <2>1. creds \in Creds
    BY <1>1 DEF SerialInv, Shape
  <2>2. CASE Restart
    <3>1. ~interrupted /\ \A r \in Requests : ~Busy(r)
      BY <1>1, <2>2 DEF Restart, Busy, Saving
    <3>2. Durable
      BY <1>1, <3>1 DEF SerialInv, Serial
    <3>3. Load(file).secret = creds.secret
      BY <1>1, <2>1, <3>2 DEF Durable, Creds
    <3>. QED
      BY <1>1, <2>2, <3>3 DEF Restart
  <2>3. ASSUME NEW r \in Requests,
               NEW new \in [id : Strings, secret : Strings, redirect : Strings], Update(r, new)
        PROVE  FALSE
    BY <1>1, <2>1, <2>3 DEF Update, Merged, Creds
  <2>4. ASSUME NEW r \in Requests, NEW uri \in Strings \ {0}, SetRedirectURI(r, uri) PROVE FALSE
    BY <1>1, <2>1, <2>4 DEF SetRedirectURI, Creds
  <2>5. ASSUME NEW r \in Requests, Save(r) PROVE FALSE
    BY <1>1, <2>5 DEF Save, Snapshot, Truncate, Write
  <2>6. CASE UNCHANGED vars
    BY <1>1, <2>6 DEF vars
  <2>. QED
    BY <1>1, <2>2, <2>3, <2>4, <2>5, <2>6 DEF Next
<1>. QED
  BY <1>1

\* A client secret that is set is never blanked but by a restart that finds what
\* overlapping or interrupted saves have left.
THEOREM SecretNeverBlanked ==
  ASSUME Sensible PROVE Spec => SecretKept
<1>1. SerialInv /\ [Next]_vars =>
        [creds.secret # 0 => creds'.secret # 0 \/ overlapped \/ interrupted']_vars
  BY SecretStep
<1>2. Init => SerialInv
  BY SerialInit
<1>3. SerialInv /\ [Next]_vars => SerialInv'
  BY SerialStep
<1>. QED
  BY <1>1, <1>2, <1>3, PTL DEF Spec, SecretKept

-----------------------------------------------------------------------------
\* The counters and flags keep their types in every step.
LEMMA FlagsStep ==
  ASSUME MaxCrashes \in Nat, [Next]_vars,
         crashes \in 0 .. MaxCrashes, overlapped \in BOOLEAN, interrupted \in BOOLEAN
  PROVE  crashes' \in 0 .. MaxCrashes /\ overlapped' \in BOOLEAN /\ interrupted' \in BOOLEAN
<1>g. \A r, p : Goto(r, p) => overlapped' \in BOOLEAN
  BY DEF Goto
<1>1. ASSUME NEW r \in Requests, NEW new, Update(r, new) \/ SetRedirectURI(r, new) \/ Save(r)
      PROVE  overlapped' \in BOOLEAN /\ UNCHANGED <<crashes, interrupted>>
  BY <1>1, <1>g DEF Update, SetRedirectURI, Save, Snapshot, Truncate, Write
<1>2. CASE Restart
  <2>1. crashes' \in 0 .. MaxCrashes
    BY <1>2 DEF Restart
  <2>2. overlapped' = overlapped /\ interrupted' \in BOOLEAN
    BY <1>2, Zenon DEF Restart
  <2>. QED
    BY <2>1, <2>2
<1>3. CASE UNCHANGED vars
  BY <1>3 DEF vars
<1>. QED
  BY <1>1, <1>2, <1>3 DEF Next

\* The state keeps its type: for TypeOK of a module that is built on this one too.
LEMMA TypeStep ==
  ASSUME Sensible, MaxCrashes \in Nat, TypeOK, [Next]_vars PROVE TypeOK'
<1>1. Shape'
  BY ShapeStep DEF TypeOK, Shape
<1>2. crashes' \in 0 .. MaxCrashes /\ overlapped' \in BOOLEAN /\ interrupted' \in BOOLEAN
  BY FlagsStep DEF TypeOK
<1>. QED
  BY <1>1, <1>2 DEF TypeOK, Shape

\* The initial state has the type.
LEMMA TypeInit ==
  ASSUME Sensible, MaxCrashes \in Nat, Init PROVE TypeOK
<1>1. Shape
  BY SerialInit DEF SerialInv
<1>2. crashes \in 0 .. MaxCrashes
  BY DEF Init
<1>3. overlapped \in BOOLEAN /\ interrupted \in BOOLEAN
  BY DEF Init
<1>. QED
  BY <1>1, <1>2, <1>3 DEF TypeOK, Shape
=============================================================================
