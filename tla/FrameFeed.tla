----------------------------- MODULE FrameFeed -----------------------------
(***************************************************************************)
(* What the websocket hub promises its browsers, without channels or       *)
(* goroutines: a feed that publishes frames with growing numbers to the    *)
(* subscribers that are on.  A subscriber may skip frames, but never sees  *)
(* one twice, out of order, from before it joined or after it was cut off. *)
(* Cutting a subscriber off is always allowed (the browser reconnects); a  *)
(* frame left neither delivered nor skipped for ever is not.               *)
(***************************************************************************)
EXTENDS Naturals, Sequences

CONSTANTS Subscribers, Frames

VARIABLES
  published,  \* the frames published so far
  status,     \* per subscriber: "off", "on" or "cut"
  pending,    \* per subscriber: frames it may still be given
  got         \* per subscriber: frames it was given, in order

feedVars == <<published, status, pending, got>>

Init ==
  /\ published = {}
  /\ status = [c \in Subscribers |-> "off"]
  /\ pending = [c \in Subscribers |-> {}]
  /\ got = [c \in Subscribers |-> <<>>]

Publish(f) ==
  /\ \A g \in published : g < f
  /\ published' = published \cup {f}
  /\ pending' = [c \in Subscribers |->
                   IF status[c] = "on" THEN pending[c] \cup {f} ELSE pending[c]]
  /\ UNCHANGED <<status, got>>

Subscribe(c) ==
  /\ status[c] = "off"
  /\ status' = [status EXCEPT ![c] = "on"]
  /\ UNCHANGED <<published, pending, got>>

\* Frames older than the delivered one are skipped for good.
Deliver(c, f) ==
  /\ f \in pending[c]
  /\ got' = [got EXCEPT ![c] = Append(@, f)]
  /\ pending' = [pending EXCEPT ![c] = {g \in @ : f < g}]
  /\ UNCHANGED <<published, status>>

Cut(c) ==
  /\ status[c] = "on"
  /\ status' = [status EXCEPT ![c] = "cut"]
  /\ pending' = [pending EXCEPT ![c] = {}]
  /\ UNCHANGED <<published, got>>

Next ==
  \/ \E f \in Frames : Publish(f)
  \/ \E c \in Subscribers : Subscribe(c) \/ Cut(c)
  \/ \E c \in Subscribers, f \in Frames : Deliver(c, f)

Spec == Init /\ [][Next]_feedVars

Received(c, f) == \E i \in DOMAIN got[c] : got[c][i] = f

\* A frame published to a subscriber reaches it, or the subscriber is cut off.
ServesOrCuts ==
  \A c \in Subscribers, f \in Frames :
    f \in pending[c] ~> (Received(c, f) \/ status[c] = "cut")
=============================================================================
