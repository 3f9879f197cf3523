------------------------------ MODULE VoiceMap -------------------------------
(***************************************************************************)
(* What the audio engine promises to who plays voices: every voice has an  *)
(* identifier of its own and one bus, the default one until it is routed;  *)
(* a call with the identifier of a voice that is gone changes nothing; and *)
(* starting and stopping the engine ends all voices.                       *)
(***************************************************************************)
CONSTANTS Ids, Buses, Sfx

VARIABLES
  bus,    \* the bus of every voice that plays
  given   \* identifiers given out so far

vars == <<bus, given>>

Init == bus = [v \in {} |-> Sfx] /\ given = {}

Play(v) ==
  /\ v \notin given
  /\ given' = given \cup {v}
  /\ bus' = [u \in DOMAIN bus \cup {v} |-> IF u = v THEN Sfx ELSE bus[u]]

Stop(v) ==
  /\ v \in DOMAIN bus
  /\ bus' = [u \in DOMAIN bus \ {v} |-> bus[u]]
  /\ UNCHANGED given

Route(v, b) ==
  /\ v \in DOMAIN bus
  /\ bus' = [bus EXCEPT ![v] = b]
  /\ UNCHANGED given

Silence ==
  /\ bus' = [v \in {} |-> Sfx]
  /\ UNCHANGED given

Next ==
  \/ \E v \in Ids : Play(v) \/ Stop(v) \/ \E b \in Buses : Route(v, b)
  \/ Silence

Spec == Init /\ [][Next]_vars
=============================================================================
