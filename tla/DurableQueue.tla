----------------------------- MODULE DurableQueue -----------------------------
(***************************************************************************)
(* What the incident monitor promises while one instance at a time leads:  *)
(* events are taken one by one in cursor order, an event is offered to the *)
(* conversation only while it is recorded as in flight, and the cursor     *)
(* moves only onto the event in flight, once it was posted or moved to the *)
(* dead letters.                                                           *)
(***************************************************************************)
EXTENDS Integers

CONSTANT NumEvents

VARIABLES
  cursor,     \* the last settled event, 0 before the first
  inFlight,   \* the event taken and not yet settled, as a set
  posted,     \* events posted at least once
  dead        \* dead letters

queueVars == <<cursor, inFlight, posted, dead>>

Init == cursor = 0 /\ inFlight = {} /\ posted = {} /\ dead = {}

Take(e) ==
  /\ inFlight = {} /\ e > cursor
  /\ inFlight' = {e}
  /\ UNCHANGED <<cursor, posted, dead>>

Post(e) ==
  /\ e \in inFlight
  /\ posted' = posted \cup {e}
  /\ UNCHANGED <<cursor, inFlight, dead>>

Acknowledge(e) ==
  /\ e \in inFlight \cap posted
  /\ cursor' = e /\ inFlight' = {}
  /\ UNCHANGED <<posted, dead>>

GiveUp(e) ==
  /\ e \in inFlight
  /\ cursor' = e /\ inFlight' = {} /\ dead' = dead \cup {e}
  /\ UNCHANGED posted

Next ==
  \E e \in 1 .. NumEvents : Take(e) \/ Post(e) \/ Acknowledge(e) \/ GiveUp(e)

Spec == Init /\ [][Next]_queueVars
=============================================================================
