------------------------------- MODULE Match -------------------------------
(***************************************************************************)
(* The match loop of engine/match (MatchSession) with the rules it drives   *)
(* from engine/gameplay (Damage.cpp, MatchRules.cpp): each advance() runs a *)
(* tick of the replication loop, mirrors the positions into the ECS,        *)
(* applies the hits, lets the dead respawn and turns the phase machine.     *)
(*                                                                         *)
(* A player is its client.  Times count in ticks.  dead is the Dead         *)
(* component: the players that have it and the ticks they have left.  Only  *)
(* the hits of the present tick are ever undrained, so hit_events() and     *)
(* drained_hits_ are the hits of the tick here.  No player of a MatchSession *)
(* has Armor, and the terrain only moves spawn points.                      *)
(***************************************************************************)
EXTENDS Replication, Sequences

CONSTANTS
    MaxHealth, Damage,      \* Health::max_hp and Weapon::damage
    RespawnDelay,           \* Respawnable::delay_s
    SpawnPoints,            \* spawn_points_
    FragLimit, TimeLimit,   \* MatchConfig: 0 for none
    WarmupTime, IntermissionTime,
    Nobody,                 \* the invalid entity
    MaxTick                 \* bound: the ticks of a run

ASSUME MatchAssumption ==
    /\ {MaxHealth, Damage, RespawnDelay} \subseteq Nat \ {0}
    /\ {FragLimit, TimeLimit, WarmupTime, IntermissionTime, MaxTick} \subseteq Nat
    /\ SpawnPoints \in Seq(Int) /\ Nobody \notin Client

VARIABLES
    health,     \* Health::hp
    dead,       \* Dead::respawn_in_s of those who have it
    frags, deaths,          \* Score
    spawn,      \* Respawnable::spawn_pos
    shown,      \* TransformWS
    phase, phaseTime, matchTime, winner, round      \* MatchState

players == <<health, dead, frags, deaths, spawn, shown>>
match == <<phase, phaseTime, matchTime, winner, round>>
vars == <<net, players, match>>

DefaultSpawn(c) == (c - 1) * 2

-----------------------------------------------------------------------------
\* Damage.cpp and MatchRules.cpp, on the components of all players at once.

Distance(a, b) == IF a < b THEN b - a ELSE a - b

\* select_spawn(): the first of the points farthest from the nearest player
\* alive, or the first one when nobody else is.
FarthestSpawn(hp, at, self) ==
    LET others == {c \in Client \ {self} : hp[c] > 0}
        room(i) == Lowest({Distance(at[c], SpawnPoints[i]) : c \in others})
        points == DOMAIN SpawnPoints
    IN  IF others = {} THEN 1
        ELSE Lowest({i \in points : \A j \in points : room(j) <= room(i)})

\* Mutant: the dead can be hurt again.
AnyTarget(p, v) == TRUE
\* A player with the Dead component is passed over.
CanBeHurt(p, v) == v \notin DOMAIN p.dead /\ p.health[v] > 0

CreditKill(p, hit, killed) ==
    IF killed /\ hit.attacker # hit.victim
    THEN [p.frags EXCEPT ![hit.attacker] = @ + 1] ELSE p.frags

\* One hit of step (3): damage_credited() and the choice of the next spawn.
ApplyHit(p, hit, at) ==
    LET v == hit.victim
        left == IF p.health[v] > Damage THEN p.health[v] - Damage ELSE 0
        killed == left = 0
        hp == [p.health EXCEPT ![v] = left]
    IN  IF ~CanBeHurt(p, v) THEN p
        ELSE [health |-> hp,
              dead |-> [c \in DOMAIN p.dead \cup (IF killed THEN {v} ELSE {}) |->
                          IF c \in DOMAIN p.dead THEN p.dead[c] ELSE RespawnDelay],
              frags |-> CreditKill(p, hit, killed),
              deaths |-> IF killed THEN [p.deaths EXCEPT ![v] = @ + 1] ELSE p.deaths,
              spawn |-> IF killed /\ SpawnPoints # <<>>
                        THEN [p.spawn EXCEPT ![v] = SpawnPoints[FarthestSpawn(hp, at, v)]]
                        ELSE p.spawn]

\* Damage lands while the match is live.
Live == phase = "Active"

\* `hits` goes from attackers to victims: the clients' inputs arrive in the order
\* of their ids.
AfterHits(hits, at) ==
    LET p[c \in Nat] ==
          IF c = 0 THEN [health |-> health, dead |-> dead, frags |-> frags,
                         deaths |-> deaths, spawn |-> spawn]
          ELSE IF Live /\ c \in DOMAIN hits
               THEN ApplyHit(p[c - 1], [attacker |-> c, victim |-> hits[c]], at)
               ELSE p[c - 1]
    IN  p[ClientCount]

\* Mutant: the timer runs out and the player stays at zero.
StillHurt(p, due) == p.health
Healed(p, due) == [c \in Client |-> IF c \in due THEN MaxHealth ELSE p.health[c]]

\* update_respawns().
Respawned(p, at) ==
    LET due == {c \in DOMAIN p.dead : p.dead[c] <= 1} IN
    /\ health' = Healed(p, due)
    /\ shown' = [c \in Client |-> IF c \in due THEN p.spawn[c] ELSE at[c]]
    /\ dead' = [c \in DOMAIN p.dead \ due |-> p.dead[c] - 1]

\* frag_leader(): the most frags, among equals the lowest id.
Leader(score) == Lowest({c \in Client : \A d \in Client : score[d] <= score[c]})

MatchOver(score) ==
    \/ FragLimit > 0 /\ score[Leader(score)] >= FragLimit
    \/ TimeLimit > 0 /\ matchTime + 1 >= TimeLimit

Enter(p) == phase' = p /\ phaseTime' = 0
Stay == phase' = phase /\ phaseTime' = phaseTime + 1

\* tick_match().
TickMatch(score) ==
    \/ /\ phase = "Warmup"
       /\ IF phaseTime + 1 >= WarmupTime
          THEN Enter("Active") /\ matchTime' = 0 /\ winner' = Nobody /\ round' = round + 1
          ELSE Stay /\ UNCHANGED <<matchTime, winner, round>>
    \/ /\ phase = "Active"
       /\ matchTime' = matchTime + 1
       /\ IF MatchOver(score)
          THEN Enter("Intermission") /\ winner' = Leader(score)
          ELSE Stay /\ UNCHANGED winner
       /\ UNCHANGED round
    \/ /\ phase = "Intermission"
       /\ IF phaseTime + 1 >= IntermissionTime
          THEN Enter("Warmup") /\ winner' = Nobody
          ELSE Stay /\ UNCHANGED winner
       /\ UNCHANGED <<matchTime, round>>

-----------------------------------------------------------------------------
Init ==
    /\ InitNet
    /\ health = [c \in Client |-> MaxHealth]
    /\ dead = [c \in {} |-> 0]
    /\ frags = [c \in Client |-> 0] /\ deaths = [c \in Client |-> 0]
    /\ spawn = [c \in Client |-> DefaultSpawn(c)]
    /\ shown = [c \in Client |-> DefaultSpawn(c)]
    /\ phase = "Warmup" /\ phaseTime = 0 /\ matchTime = 0
    /\ winner = Nobody /\ round = 0

\* MatchSession::advance(): the positions are mirrored before the hits apply.
Advance(intents) ==
    LET up == Sending(intents)
        served == Served(Arrived(up))
        p == AfterHits(served.hits, served.world)
    IN  /\ tick < MaxTick
        /\ AdvanceNet(intents, up, served)
        /\ Respawned(p, served.world)
        /\ frags' = p.frags /\ deaths' = p.deaths /\ spawn' = p.spawn
        /\ TickMatch(p.frags)

Next == \E intents \in Intents : Advance(intents)

Spec == Init /\ [][Next]_vars

-----------------------------------------------------------------------------
\* Correctness.

\* Every variable keeps to its values: history_ to its window, the input rings to
\* their capacity, health to its maximum.
TypeOK ==
    /\ session \in Sessions /\ tick \in 0..MaxTick
    /\ world \in [Client -> Int] /\ lastInput \in [Client -> 0..MaxTick]
    /\ DOMAIN past \subseteq tick - Window..tick - 1
    /\ \A c \in Client : DOMAIN clients[c].ring \subseteq tick - RingCapacity + 1..tick
    /\ health \in [Client -> 0..MaxHealth] /\ DOMAIN dead \subseteq Client
    /\ frags \in [Client -> Nat] /\ deaths \in [Client -> Nat]
    /\ spawn \in [Client -> Int] /\ shown \in [Client -> Int]
    /\ phase \in {"Warmup", "Active", "Intermission"}
    /\ {phaseTime, matchTime, round} \subseteq Nat
    /\ winner \in Client \cup {Nobody}

\* The state is in range; and a player has no health left just as long as it has the Dead component, and
\* that is never for longer than the delay: damage and respawn, which each
\* change one of the two first, never leave a player dead for ever or alive
\* without health.
DeadWithoutHealth ==
    /\ TypeOK
    /\ \A c \in Client :
          /\ health[c] = 0 <=> c \in DOMAIN dead
          /\ c \in DOMAIN dead => dead[c] \in 1..RespawnDelay

\* A player dies once for each life: however many shots reach it in a tick, and
\* whatever was fired before it died, the dead are not killed again.
OneDeathPerLife ==
    [][\A c \in Client :
         deaths'[c] # deaths[c] => c \notin DOMAIN dead /\ deaths'[c] = deaths[c] + 1]_vars
=============================================================================
