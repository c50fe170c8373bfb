---------------------------- MODULE RateLimiter ----------------------------
(***************************************************************************)
(* What one access category of the DCC promises the channel: a packet goes *)
(* on the air at most once, each one costs a send-permit, and no more than *)
(* Burst permits are ever outstanding.  Permits come from the token timer; *)
(* packets that wait too long expire, free of charge or at the price of a  *)
(* permit.                                                                 *)
(***************************************************************************)
EXTENDS Integers

CONSTANTS Message,  \* the packets handed to the DCC
          Burst     \* permits that can be outstanding at a time

VARIABLES permits,  \* send-permits not yet spent
          waiting,  \* packets accepted and not yet disposed of
          aired     \* packets transmitted

vars == <<permits, waiting, aired>>

Init ==
  /\ permits = 0
  /\ waiting = {}
  /\ aired = {}

Grant ==
  /\ permits < Burst
  /\ permits' = permits + 1
  /\ UNCHANGED <<waiting, aired>>

Accept(m) ==
  /\ m \notin waiting \cup aired
  /\ waiting' = waiting \cup {m}
  /\ UNCHANGED <<permits, aired>>

Transmit(m) ==
  /\ m \in waiting
  /\ permits > 0
  /\ permits' = permits - 1
  /\ waiting' = waiting \ {m}
  /\ aired' = aired \cup {m}

Expire(m) ==
  /\ m \in waiting
  /\ waiting' = waiting \ {m}
  /\ permits' \in {permits, permits - 1}
  /\ permits' >= 0
  /\ UNCHANGED aired

Next ==
  \/ Grant
  \/ \E m \in Message : Accept(m) \/ Transmit(m) \/ Expire(m)

Spec == Init /\ [][Next]_vars

=============================================================================
