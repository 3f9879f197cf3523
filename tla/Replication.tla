---------------------------- MODULE Replication ----------------------------
(***************************************************************************)
(* The server-authoritative loop of engine/net (ReplicationSession, with    *)
(* Prediction.h, SnapshotReplication.h and InterestManagement.h): clients   *)
(* predict their own movement, the server applies the inputs that arrive,   *)
(* registers shots against a rewound world and sends snapshots, and clients *)
(* reconcile.  Everything crosses a channel of fixed latency, and one tick  *)
(* of the whole loop is one call of advance().                              *)
(*                                                                         *)
(* A position is a number on a line.  A shot is aimed at an offset from the *)
(* shooter, which stands for a bearing; it hits whoever stands there in the *)
(* world the server rewinds to.                                             *)
(*                                                                         *)
(* advance() makes one input, one world and one snapshot for each tick, and *)
(* a message arrives a fixed number of ticks after it was sent.  So each    *)
(* container of the code that holds entries in the order of their ticks is  *)
(* a map from ticks here.                                                   *)
(***************************************************************************)
EXTENDS Integers, FiniteSets

CONSTANTS
    ClientCount,    \* the clients, whose entity ids count from 1
    Sessions,       \* the latencies and radii to run with, and (a bound) whether
                    \* the players shoot
    Everywhere,     \* kAllVisibleRadius
    RingCapacity,   \* the capacity of an InputRing, 256
    HistorySlack,   \* what history_ holds beyond the round trip, 8
    Move, Aim,      \* the movements of one tick and the offsets aimed at
    Field,          \* bound: the positions the clients move in
    NoShot          \* an input without kInputBtnFire

Client == 1..ClientCount

ASSUME SessionAssumption ==
    \A s \in Sessions :
        /\ s.latency \in Nat /\ s.radius \in Nat /\ s.shots \in BOOLEAN
        /\ 2 * s.latency <= RingCapacity
ASSUME ReplicationConstants ==
    /\ {ClientCount, RingCapacity, HistorySlack} \subseteq Nat \ {0} /\ Everywhere \in Nat
    /\ Field \subseteq Int /\ Move \subseteq Int /\ Aim \subseteq Int /\ NoShot \notin Aim

VARIABLES
    session,    \* latency_ and aoi_radius_
    tick,       \* tick_
    world,      \* server_world_: the position of every entity
    lastInput,  \* server_last_input_
    prev,       \* server_prev_, nothing before the first snapshot
    past,       \* history_: from the last ticks to their worlds
    clients,    \* clients_: ring goes from the ticks of inputs to their moves
    c2s, s2c    \* in flight: from the tick of delivery to what was sent together,
                \* by all clients or to all of them

net == <<session, tick, world, lastInput, prev, past, clients, c2s, s2c>>

Nothing == [c \in {} |-> 0]

\* A map with v at t; the part of a map that lies after t.
With(map, t, v) == [x \in DOMAIN map \cup {t} |-> IF x = t THEN v ELSE map[x]]
After(t, map) == [x \in {y \in DOMAIN map : y > t} |-> map[x]]

\* The inputs of a tick.
Intents ==
    {i \in [Client -> [move : Move, aim : {NoShot} \cup (IF session.shots THEN Aim ELSE {})]] :
       \A c \in Client : clients[c].predicted + i[c].move \in Field}
AllVisible == session.radius >= Everywhere

-----------------------------------------------------------------------------
\* The helpers of SnapshotReplication.h, on maps from entities to positions.

EncodeDelta(base, current) ==
    [e \in {x \in DOMAIN current : x \notin DOMAIN base \/ base[x] # current[x]} |-> current[e]]

\* Mutant: the snapshot is taken for the whole world.
ReplaceDelta(base, delta) == delta
ApplyDelta(base, delta) ==
    [e \in DOMAIN base \cup DOMAIN delta |->
       IF e \in DOMAIN delta THEN delta[e] ELSE base[e]]

\* aoi_query() around a client's own entity, on the boundary included.
Near(w, c) ==
    {e \in Client : w[e] - w[c] <= session.radius /\ w[c] - w[e] <= session.radius}
Visible(w, c) ==
    IF AllVisible THEN w ELSE [e \in Near(w, c) |-> w[e]]

-----------------------------------------------------------------------------
\* The helpers of Prediction.h.

\* InputRing::push(): the oldest input makes room.
Push(ring, t, move) == After(t - RingCapacity, With(ring, t, move))

\* Mutant: the acknowledged input is replayed as well.
UnackedAndOne(ring, acked) == After(acked - 1, ring)
\* pending_after() and drop_acked().
Unacked(ring, acked) == After(acked, ring)

\* predict_present(): the moves of the ring, up to the one of tick `last`.
Replayed(position, ring, last) ==
    LET at[t \in Nat] ==
          IF t = 0 THEN position
          ELSE IF t \in DOMAIN ring THEN at[t - 1] + ring[t] ELSE at[t - 1]
    IN  at[last]

-----------------------------------------------------------------------------
\* (1) Every client stamps its input, records it, predicts and sends.  `seen`
\* is history: the snapshot the client had applied by then.

Stamped(intents, c) ==
    [tick |-> tick + 1, move |-> intents[c].move, aim |-> intents[c].aim,
     seen |-> clients[c].applied]

Sending(intents) == With(c2s, tick + session.latency, [c \in Client |-> Stamped(intents, c)])

Predicted(intents) ==
    [c \in Client |-> [clients[c] EXCEPT
        !.ring = Push(@, tick + 1, intents[c].move),
        !.predicted = @ + intents[c].move]]

-----------------------------------------------------------------------------
\* (2) The server applies what arrives.

Arrived(q) == IF tick \in DOMAIN q THEN q[tick] ELSE Nothing
Later(q) == After(tick, q)

\* Mutant: rewound by one way only.
ViewHalfWay(t) == IF t >= session.latency THEN t - session.latency ELSE 0
\* register_fire_(): the tick a shot is tested at, and whom it hits there.
ViewTick(t) == IF t >= 2 * session.latency THEN t - 2 * session.latency ELSE 0

Lowest(S) == CHOOSE x \in S : \A y \in S : x <= y

Victims(snap, shooter, aim) ==
    {v \in Client \ {shooter} : snap[v] - snap[shooter] = aim}

Hit(c, in) ==
    IF ViewTick(tick) \in DOMAIN past /\ in.aim # NoShot
    THEN Victims(past[ViewTick(tick)], c, in.aim) ELSE {}

\* The server after the inputs that arrived; and the hits they registered, from
\* the attackers to their victims.
Served(in) ==
    [world |-> [c \in Client |-> IF c \in DOMAIN in THEN world[c] + in[c].move ELSE world[c]],
     last |-> [c \in Client |-> IF c \in DOMAIN in THEN in[c].tick ELSE lastInput[c]],
     hits |-> [c \in {d \in DOMAIN in : Hit(d, in[d]) # {}} |-> Lowest(Hit(c, in[c]))]]

Window == 2 * session.latency + HistorySlack

Remembered(w) == After(tick - Window, With(past, tick, w))

\* One snapshot for each client: a delta against what was last sent, or all it
\* may see.
Snapshots(served) ==
    [c \in Client |->
       [tick |-> tick, acked |-> served.last[c], full |-> ~AllVisible,
        delta |-> EncodeDelta(IF AllVisible THEN prev ELSE Nothing,
                              Visible(served.world, c))]]

-----------------------------------------------------------------------------
\* (3) A client applies a snapshot and reconciles.

Decoded(base, m) == ApplyDelta(IF m.full THEN Nothing ELSE base, m.delta)

\* cl is the state of client c, which has sent the input of this tick.
Reconciled(c, cl, m) ==
    LET full == Decoded(cl.baseline, m)
        ring == Unacked(cl.ring, m.acked)
    IN  [ring |-> ring, baseline |-> full, applied |-> m.tick,
         predicted |-> Replayed(IF c \in DOMAIN full THEN full[c] ELSE cl.predicted,
                                ring, tick + 1)]

Delivered(cls, snapshots) ==
    [c \in Client |-> IF c \in DOMAIN snapshots THEN Reconciled(c, cls[c], snapshots[c])
                      ELSE cls[c]]

-----------------------------------------------------------------------------
\* advance(), with `up` all that has been sent to the server by now and `served`
\* what the server makes of it.

AdvanceNet(intents, up, served) ==
    LET down == With(s2c, tick + session.latency, Snapshots(served))
    IN  /\ c2s' = Later(up)
        /\ world' = served.world
        /\ lastInput' = served.last
        /\ past' = Remembered(served.world)
        /\ prev' = IF AllVisible THEN served.world ELSE prev
        /\ s2c' = Later(down)
        /\ clients' = Delivered(Predicted(intents), Arrived(down))
        /\ tick' = tick + 1
        /\ UNCHANGED session

InitNet ==
    /\ session \in Sessions
    /\ tick = 0
    /\ world = [c \in Client |-> 0]
    /\ lastInput = [c \in Client |-> 0]
    /\ prev = Nothing
    /\ past = Nothing
    /\ clients = [c \in Client |->
                    [ring |-> Nothing, predicted |-> 0, baseline |-> Nothing, applied |-> -1]]
    /\ c2s = Nothing /\ s2c = Nothing

-----------------------------------------------------------------------------
\* Correctness.

\* The moves of client c on their way to the server, by the ticks of the inputs.
OnTheWay(c) ==
    [t \in {c2s[d][c].tick : d \in DOMAIN c2s} |->
       c2s[CHOOSE d \in DOMAIN c2s : c2s[d][c].tick = t][c].move]

\* What a client predicts for itself is what the server will reach with the
\* inputs that are on their way: no input is lost, repeated or replayed twice
\* by prediction, reconciliation and the ring.
PredictionIsExact ==
    \A c \in Client : clients[c].predicted = Replayed(world[c], OnTheWay(c), tick)

\* What client c will have decoded when the snapshots of q due up to tick `last`
\* have arrived.
DecodedBy(q, c, last, baseline) ==
    LET base[d \in Nat] ==
          LET before == IF d = 0 THEN baseline ELSE base[d - 1]
          IN  IF d \in DOMAIN q THEN Decoded(before, q[d][c]) ELSE before
    IN  base[last]

\* When a client has applied the snapshots that are on their way, it has just
\* what it may see of the server's world: its baseline and the one the server
\* encodes against never part, and nothing stale stays in an area of interest.
BaselineFollows ==
    tick > 0 => \A c \in Client :
        DecodedBy(s2c, c, tick + session.latency, clients[c].baseline) = Visible(world, c)

\* A shot is tested in just one world, the one of the tick after the last snapshot
\* its shooter had applied when it fired, or the first one while it had applied
\* none: never in an older one, and never in the present.  ReplicationSession.h says
\* that it hits where the shooter saw the target; the code is a tick later.
RewindsOneAfterTheView ==
    \A d \in DOMAIN c2s, c \in Client : ViewTick(d) = c2s[d][c].seen + 1
=============================================================================
