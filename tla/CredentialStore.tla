--------------------------- MODULE CredentialStore ---------------------------
(***************************************************************************)
(* internal/trakt/credentials.go: the Trakt application's credentials,     *)
(* changed by concurrent requests (the settings page, the OAuth callback)  *)
(* and kept in a JSON file.  Memory changes under the store's lock; save   *)
(* runs after it is released, so that several saves can be under way.      *)
(*                                                                         *)
(* A string is represented by its length: 0 is the blank string.  What     *)
(* os.WriteFile leaves behind depends on lengths: it truncates the file,   *)
(* then writes from its own offset 0, so that a shorter text over a longer *)
(* one leaves the longer one's tail, which is no JSON text.                *)
(***************************************************************************)
EXTENDS Naturals, FiniteSets

CONSTANTS
  Requests,    \* requests that change the credentials, in one behaviour
  Strings,     \* lengths of the strings requests send, 0 among them (Nat)
  Env,         \* the credentials the environment gives
  MaxCrashes   \* bound: restarts of the process

Creds == [id : Nat, secret : Nat, redirect : Nat]

VARIABLES
  creds,       \* CredentialStore.creds
  file,        \* the file: [state, creds, len], creds meaningful when "whole"
  pc,          \* per request: what it does next
  snap,        \* per request: the copy of creds that save took
  crashes,     \* history: restarts so far
  overlapped,  \* history: two saves were under way at the same time
  interrupted  \* history: a restart hit a save under way

vars == <<creds, file, pc, snap, crashes, overlapped, interrupted>>

PCs == {"idle", "save", "open", "write", "done"}

Saving(p) == {r \in Requests : p[r] \in {"save", "open", "write"}}

Size(c) == c.id + c.secret + c.redirect

Missing == [state |-> "missing", creds |-> Env, len |-> 0]

TypeOK ==
  /\ creds \in Creds
  /\ file \in [state : {"missing", "junk", "whole"}, creds : Creds, len : Nat]
  /\ pc \in [Requests -> PCs]
  /\ snap \in [Requests -> Creds]
  /\ crashes \in 0..MaxCrashes
  /\ overlapped \in BOOLEAN /\ interrupted \in BOOLEAN

\* load: fields the file leaves blank, or all if it cannot be read or parsed,
\* keep the environment's value.
Load(f) ==
  IF f.state = "whole"
  THEN [k \in DOMAIN f.creds |-> IF f.creds[k] # 0 THEN f.creds[k] ELSE Env[k]]
  ELSE Env

Init ==
  /\ file = Missing /\ creds = Load(file)
  /\ pc = [r \in Requests |-> "idle"]
  /\ snap = [r \in Requests |-> creds]
  /\ crashes = 0 /\ overlapped = FALSE /\ interrupted = FALSE

Goto(r, p) ==
  /\ pc' = [pc EXCEPT ![r] = p]
  /\ overlapped' = (overlapped \/ Cardinality(Saving(pc')) > 1)

\* Mutant: a blank secret replaces the one there is.
MergedBlank(old, new) == new

\* Update's assignments: a blank secret leaves the existing one.
Merged(old, new) == IF new.secret = 0 THEN [new EXCEPT !.secret = old.secret] ELSE new

\* Update, up to the release of the lock.
Update(r, new) ==
  /\ pc[r] = "idle"
  /\ creds' = Merged(creds, new)
  /\ Goto(r, "save")
  /\ UNCHANGED <<file, snap, crashes, interrupted>>

\* Mutant: changed is computed after the assignment.
SetRedirectURIUnsaved(r, uri) ==
  /\ pc[r] = "idle"
  /\ creds' = [creds EXCEPT !.redirect = uri]
  /\ Goto(r, "done")
  /\ UNCHANGED <<file, snap, crashes, interrupted>>

\* SetRedirectURI, up to the release of the lock.  A blank URI changes nothing,
\* and no caller has one.
SetRedirectURI(r, uri) ==
  /\ pc[r] = "idle"
  /\ creds' = [creds EXCEPT !.redirect = uri]
  /\ Goto(r, IF creds.redirect # uri THEN "save" ELSE "done")
  /\ UNCHANGED <<file, snap, crashes, interrupted>>

\* save: a copy of the credentials under the read lock.
Snapshot(r) ==
  /\ pc[r] = "save"
  /\ snap' = [snap EXCEPT ![r] = creds]
  /\ Goto(r, "open")
  /\ UNCHANGED <<creds, file, crashes, interrupted>>

\* os.WriteFile opens the file with O_TRUNC.
Truncate(r) ==
  /\ pc[r] = "open"
  /\ file' = [file EXCEPT !.state = "junk", !.len = 0]
  /\ Goto(r, "write")
  /\ UNCHANGED <<creds, snap, crashes, interrupted>>

\* What the file holds once c has been written from offset 0.
Written(c) ==
  IF Size(c) >= file.len THEN [state |-> "whole", creds |-> c, len |-> Size(c)]
                         ELSE [file EXCEPT !.state = "junk"]

Write(r) ==
  /\ pc[r] = "write"
  /\ file' = Written(snap[r])
  /\ Goto(r, "done")
  /\ UNCHANGED <<creds, snap, crashes, interrupted>>

\* The process is killed and starts again: requests are lost, the store loads.
Restart ==
  /\ crashes < MaxCrashes
  /\ crashes' = crashes + 1
  /\ creds' = Load(file)
  /\ pc' = [r \in Requests |-> IF pc[r] = "idle" THEN "idle" ELSE "done"]
  /\ interrupted' = (interrupted \/ Saving(pc) # {})
  /\ UNCHANGED <<file, snap, overlapped>>

Save(r) == Snapshot(r) \/ Truncate(r) \/ Write(r)

Next ==
  \/ \E r \in Requests :
       \/ \E new \in [id : Strings, secret : Strings, redirect : Strings] : Update(r, new)
       \/ \E uri \in Strings \ {0} : SetRedirectURI(r, uri)
       \/ Save(r)
  \/ Restart

Spec == Init /\ [][Next]_vars

-----------------------------------------------------------------------------

Quiet == Saving(pc) = {}

\* A restart would bring back every value that is set.
Durable == \A k \in DOMAIN creds : creds[k] # 0 => Load(file)[k] = creds[k]

\* As long as saves did not overlap and were not cut short, whatever sequence of
\* requests and restarts came before, a restart between requests loses nothing.
DurableWhenSerial == (Quiet /\ ~overlapped /\ ~interrupted) => Durable

\* A configured client secret is never blanked by a request, and a restart loses
\* it only after saves overlapped or one was cut short.  credentials.go:83-90.
SecretKept ==
  [][creds.secret # 0 =>
       creds'.secret # 0 \/ overlapped \/ interrupted']_vars

\* What credentials.go:24 promises: "CredentialStore persists Trakt credentials
\* to disk", here once all requests are done and no restart hit a save.
PersistsToDisk == (Quiet /\ ~interrupted) => Durable
=============================================================================
