-------------------------------- MODULE Trakt --------------------------------
(***************************************************************************)
(* The two users of the credential store side by side: the login, whose    *)
(* requests are those of its browsers and pages (module TraktLogin), and   *)
(* the store on its own, with requests of any content (CredentialStore).   *)
(* In a behaviour only the one that part names moves.                      *)
(***************************************************************************)
EXTENDS TraktLogin

CONSTANTS
  StoreRequests,  \* requests to the store on its own
  StoreStrings,   \* lengths of the strings they send
  StoreEnv        \* the credentials the environment gives it

ASSUME TraktAssumption ==
  /\ IsFiniteSet(Browsers) /\ IsFiniteSet(Pages) /\ IsFiniteSet(StoreRequests)
  /\ StoreStrings \subseteq Nat
  /\ StoreEnv \in [id : Nat, secret : Nat, redirect : Nat]
  /\ Env \in [id : Nat, secret : Nat, redirect : URIs \cup {0}]
  /\ Hosts # {}
  /\ MaxCrashes \in Nat

VARIABLE part   \* "login" or "store"

Store == INSTANCE CredentialStore WITH
  Requests <- StoreRequests, Strings <- StoreStrings, Env <- StoreEnv

loginVars == <<flowVars, moved, edited, contended>>

NobodyLogsIn ==
  /\ flow = [r \in Requests |-> "idle"]
  /\ host = [r \in Requests |-> CHOOSE h \in Hosts : TRUE]
  /\ seen = [r \in Requests |-> 0] /\ used = [r \in Requests |-> 0]
  /\ session = 0 /\ moved = {} /\ edited = FALSE /\ contended = FALSE

TraktInit ==
  \/ part = "login" /\ Init
  \/ part = "store" /\ Store!Init /\ NobodyLogsIn

TraktNext ==
  /\ UNCHANGED part
  /\ \/ part = "login" /\ Next
     \/ part = "store" /\ Store!Next /\ UNCHANGED loginVars

TraktSpec == TraktInit /\ [][TraktNext]_<<part, vars>>

-----------------------------------------------------------------------------
\* The login and the store keep their types.
TraktTypeOK == IF part = "login" THEN TypeOK ELSE Store!TypeOK

\* After saves one at a time a restart between requests loses nothing.
\* credentials.go:24, 83-90.
DurableWhenSerial == part = "store" => Store!DurableWhenSerial

\* No request blanks the client secret.  credentials.go:83-90.
SecretKept == Store!SecretKept
=============================================================================
