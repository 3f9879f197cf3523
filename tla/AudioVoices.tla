----------------------------- MODULE AudioVoices -----------------------------
(***************************************************************************)
(* The voices of the audio engine: the pool that gives out slots under a   *)
(* lock, the lock-free shadow of it that holds the bus of every slot, the  *)
(* clip registry, and the audio thread that pulls blocks from them         *)
(* (audio/Audio.cpp, audio/BusApi.cpp, audio/AudioClip.cpp,                *)
(* audio/internal/MixerCore.h).                                            *)
(*                                                                         *)
(* Game threads play, stop and route voices; one of them also stops and    *)
(* starts the engine and replaces the clips.  `call' says what each of     *)
(* them is in the middle of; `pull' is the audio thread.  The lock-free    *)
(* loops on a slot of the shadow take effect where their compare-exchange  *)
(* succeeds, or where they load the value that ends them.  The device that *)
(* calls the audio thread is external, and so is that shutting it down     *)
(* waits for the pull in progress (ShutDevice).  A block of samples is a   *)
(* unit: the cursor counts blocks.                                         *)
(***************************************************************************)
EXTENDS Integers, FiniteSets

CONSTANTS
  Slots,      \* voice slots 0 .. kMaxVoices - 1
  GenMax,     \* largest value of the 8-bit generation
  ClipSlots,  \* clip slots 0 .. kMaxRegisteredClips - 1
  Buses,      \* buses a voice may be routed to
  Sfx,        \* the bus of a voice that was not routed
  Threads,    \* game threads
  Main,       \* the one that starts and stops the engine
  MaxPlays,   \* bound: calls of play
  MaxPulls,   \* bound: blocks pulled
  MaxStops    \* bound: times the engine is stopped

ASSUME SizeAssumption == GenMax \in Nat \ {0} /\ Slots \subseteq Nat /\ ClipSlots \subseteq Nat
ASSUME BoundAssumption == MaxPlays \in Nat /\ MaxPulls \in Nat /\ MaxStops \in Nat
ASSUME ThreadAssumption == Main \in Threads /\ Sfx \in Buses

VARIABLES
  pool,     \* VoicePool: activity, generation, clip and cursor of every slot
  shadow,   \* VoiceSlotShadow::packed: activity, generation and bus
  clips,    \* g_clips: occupancy and generation
  running,  \* State::running
  device,   \* the device calls the audio thread
  call,     \* what each game thread is doing
  pull,     \* what the audio thread is doing
  known,    \* voice identifiers that play has returned or is about to
  heard,    \* blocks of each of these voices that were rendered
  routed,   \* buses each of them was routed to
  plays, pulls, stops  \* bounds

pooled == <<pool, known, plays>>
heardOf == <<heard, pulls>>
engine == <<running, device, stops>>
vars == <<pool, shadow, clips, running, device, call, pull, known, heard, routed, plays, pulls,
          stops>>

Idle == [op |-> "idle"]
Quiet == [at |-> "idle"]
Dead == [active |-> FALSE, gen |-> 0, bus |-> Sfx]
NoClip == [slot |-> -1, gen |-> 0]

\* A packed identifier: a slot and a generation.
Id(s) == [slot |-> s, gen |-> pool[s].gen]
Active == {s \in Slots : pool[s].active}
Live == {Id(s) : s \in Active}

Lowest(S) == CHOOSE x \in S : \A y \in S : x <= y

\* Mutant: a slot keeps its generation.
KeptGen(g) == g
\* The generation of eight bits that skips zero.
NextGen(g) == IF g = GenMax THEN 1 ELSE g + 1

\* A started engine with no clip and no voice.
Init ==
  /\ pool = [s \in Slots |-> [active |-> FALSE, gen |-> 0, clip |-> NoClip, cursor |-> 0]]
  /\ shadow = [s \in Slots |-> Dead]
  /\ clips = [c \in ClipSlots |-> [occupied |-> FALSE, gen |-> 0]]
  /\ running = TRUE /\ device = TRUE
  /\ call = [t \in Threads |-> Idle]
  /\ pull = Quiet
  /\ known = {} /\ heard = [v \in {} |-> 0] /\ routed = [v \in {} |-> {}]
  /\ plays = 0 /\ pulls = 0 /\ stops = 0

(***************************************************************************)
(* Engine::play, Engine::stop_voice and route_voice_to_bus.                *)
(***************************************************************************)

\* VoicePool::acquire: the lowest free slot with its next generation.
Acquired(s, clip) ==
  [active |-> TRUE, gen |-> NextGen(pool[s].gen), clip |-> clip, cursor |-> 0]

ClipIds == {NoClip} \cup {[slot |-> c, gen |-> clips[c].gen] : c \in {d \in ClipSlots : clips[d].occupied}}

\* The pool gives out a slot under its lock; a full pool refuses.
Play(t) ==
  /\ call[t] = Idle
  /\ plays < MaxPlays
  /\ Active # Slots
  /\ \E clip \in ClipIds :
       LET s == Lowest(Slots \ Active)
           v == [slot |-> s, gen |-> NextGen(pool[s].gen)]
       IN  /\ pool' = [pool EXCEPT ![s] = Acquired(s, clip)]
           /\ known' = known \cup {v}
           /\ heard' = [u \in known' |-> IF u = v THEN 0 ELSE heard[u]]
           /\ routed' = [u \in known' |-> IF u = v THEN {Sfx} ELSE routed[u]]
           /\ call' = [call EXCEPT ![t] = [op |-> "play", voice |-> v]]
  /\ plays' = plays + 1
  /\ UNCHANGED <<shadow, clips, engine, pull, pulls>>

\* Mutant: the new voice stays on the bus of the slot's last one.
LiveWithBus(v) == [active |-> TRUE, gen |-> v.gen, bus |-> shadow[v.slot].bus]
\* mark_voice_live.
LiveShadow(v) == [active |-> TRUE, gen |-> v.gen, bus |-> Sfx]

PlayMarks(t) ==
  /\ call[t].op = "play"
  /\ shadow' = [shadow EXCEPT ![call[t].voice.slot] = LiveShadow(call[t].voice)]
  /\ call' = [call EXCEPT ![t] = Idle]
  /\ UNCHANGED <<pool, clips, engine, pull, known, heardOf, routed, plays>>

\* Identifiers a game thread may hold: play has returned them.
Held == known \ {call[t].voice : t \in {u \in Threads : call[u].op = "play"}}

\* VoicePool::release refuses an identifier that is stale.
Releases(v) == pool[v.slot].active /\ pool[v.slot].gen = v.gen

StopVoice(t, v) ==
  /\ call[t] = Idle
  /\ Releases(v)
  /\ pool' = [pool EXCEPT ![v.slot].active = FALSE]
  /\ call' = [call EXCEPT ![t] = [op |-> "stop_voice", voice |-> v]]
  /\ UNCHANGED <<shadow, clips, engine, pull, known, heardOf, routed, plays>>

\* mark_voice_dead clears the activity and keeps the rest.
StopMarks(t) ==
  /\ call[t].op = "stop_voice"
  /\ shadow' = [shadow EXCEPT ![call[t].voice.slot].active = FALSE]
  /\ call' = [call EXCEPT ![t] = Idle]
  /\ UNCHANGED <<pool, clips, engine, pull, known, heardOf, routed, plays>>

Routes(v) == shadow[v.slot].active /\ shadow[v.slot].gen = v.gen

\* route_voice_to_bus refuses a voice whose slot is dead or another's.
Route(t, v, b) ==
  /\ call[t] = Idle
  /\ Routes(v)
  /\ shadow' = [shadow EXCEPT ![v.slot].bus = b]
  /\ routed' = [routed EXCEPT ![v] = @ \cup {b}]
  /\ UNCHANGED <<pool, clips, engine, call, pull, known, heardOf, plays>>

(***************************************************************************)
(* The clip registry.                                                      *)
(***************************************************************************)

RegisterClip ==
  /\ call[Main] = Idle
  /\ \E c \in ClipSlots : ~clips[c].occupied
  /\ LET c == Lowest({d \in ClipSlots : ~clips[d].occupied})
     IN  clips' = [clips EXCEPT ![c] = [occupied |-> TRUE, gen |-> NextGen(@.gen)]]
  /\ UNCHANGED <<pooled, shadow, engine, call, pull, heardOf, routed>>

\* clear_clip_registry, which must not be called before Engine::stop returns.
ClearClips ==
  /\ call[Main] = Idle
  /\ ~running
  /\ clips' = [c \in ClipSlots |-> [clips[c] EXCEPT !.occupied = FALSE]]
  /\ UNCHANGED <<pooled, shadow, engine, call, pull, heardOf, routed>>

(***************************************************************************)
(* Engine::stop and Engine::start.                                         *)
(***************************************************************************)

Cleared == [s \in Slots |-> [pool[s] EXCEPT !.active = FALSE]]
Reset == [s \in Slots |-> Dead]

StopEngine ==
  /\ call[Main] = Idle
  /\ running
  /\ stops < MaxStops
  /\ running' = FALSE
  /\ stops' = stops + 1
  /\ call' = [call EXCEPT ![Main] = [op |-> "shutting"]]
  /\ UNCHANGED <<pooled, shadow, clips, device, pull, heardOf, routed>>

\* Mutant: the device is not shut down.
KeepsDevice ==
  /\ call[Main].op = "shutting"
  /\ call' = [call EXCEPT ![Main] = [op |-> "clearing"]]
  /\ UNCHANGED <<pooled, shadow, clips, engine, pull, heardOf, routed>>

\* backend_shutdown calls the platform's shutdown function and waits for nothing
\* itself.  That no pull is in progress when it returns is what is assumed of the
\* platforms: one stops its device and joins the thread that pulls, and where there
\* is none nothing pulls.
ShutDevice ==
  /\ call[Main].op = "shutting"
  /\ pull = Quiet
  /\ device' = FALSE
  /\ call' = [call EXCEPT ![Main] = [op |-> "clearing"]]
  /\ UNCHANGED <<pooled, shadow, clips, running, stops, pull, heardOf, routed>>

\* VoicePool::clear, under the lock in stop and without it in start.
ClearVoices(at, next) ==
  /\ call[Main].op = at
  /\ pool' = Cleared
  /\ call' = [call EXCEPT ![Main] = [op |-> next]]
  /\ UNCHANGED <<known, plays, shadow, clips, engine, pull, heardOf, routed>>

\* router_reset.
StopResets ==
  /\ call[Main].op = "resetting"
  /\ shadow' = Reset
  /\ call' = [call EXCEPT ![Main] = Idle]
  /\ UNCHANGED <<pooled, clips, engine, pull, heardOf, routed>>

StartEngine ==
  /\ call[Main] = Idle
  /\ ~running
  /\ call' = [call EXCEPT ![Main] = [op |-> "starting"]]
  /\ UNCHANGED <<pooled, shadow, clips, engine, pull, heardOf, routed>>

StartResets ==
  /\ call[Main].op = "routing"
  /\ shadow' = Reset
  /\ call' = [call EXCEPT ![Main] = [op |-> "opening"]]
  /\ UNCHANGED <<pooled, clips, engine, pull, heardOf, routed>>

\* backend_init may fail, and start with it.
OpenDevice ==
  /\ call[Main].op = "opening"
  /\ \/ device' = TRUE /\ call' = [call EXCEPT ![Main] = [op |-> "running"]]
     \/ device' = FALSE /\ call' = [call EXCEPT ![Main] = Idle]
  /\ UNCHANGED <<pooled, shadow, clips, running, stops, pull, heardOf, routed>>

StartRuns ==
  /\ call[Main].op = "running"
  /\ running' = TRUE
  /\ call' = [call EXCEPT ![Main] = Idle]
  /\ UNCHANGED <<pooled, shadow, clips, device, stops, pull, heardOf, routed>>

(***************************************************************************)
(* mixer_pull.                                                             *)
(***************************************************************************)

\* A pull of an engine that does not run is silence and changes nothing.
PullBegins ==
  /\ pull = Quiet
  /\ device /\ running
  /\ pulls < MaxPulls
  /\ pulls' = pulls + 1
  /\ pull' = [at |-> "begun"]
  /\ UNCHANGED <<pooled, shadow, clips, engine, call, heard, routed>>

\* The active voices are copied under the lock of the pool.
PullSnapshots ==
  /\ pull.at = "begun"
  /\ pull' = IF Active = {}
             THEN Quiet
             ELSE [at |-> "copied", voices |-> [s \in Active |-> pool[s]]]
  /\ UNCHANGED <<pooled, shadow, clips, engine, call, heardOf, routed>>

\* clip_by_id returns no clip for an identifier that is stale.
Resolved(clip) ==
  IF clip # NoClip /\ clips[clip.slot].occupied /\ clips[clip.slot].gen = clip.gen
  THEN clip ELSE NoClip

PullResolves ==
  /\ pull.at = "copied"
  /\ pull' = [at |-> "mixing", voices |-> pull.voices, todo |-> DOMAIN pull.voices,
              clip |-> [s \in DOMAIN pull.voices |-> Resolved(pull.voices[s].clip)],
              bus |-> [s \in DOMAIN pull.voices |-> Sfx]]
  /\ UNCHANGED <<pooled, shadow, clips, engine, call, heardOf, routed>>

\* slot_bus: a dead slot has the default bus.
SlotBus(s) == IF shadow[s].active THEN shadow[s].bus ELSE Sfx

Copy(s) == [slot |-> s, gen |-> pull.voices[s].gen]

\* The block of the next voice goes to the bus its slot has by now.
PullMixes ==
  /\ pull.at = "mixing"
  /\ pull.todo # {}
  /\ LET s == Lowest(pull.todo)
     IN  /\ pull' = [pull EXCEPT !.todo = @ \ {s}, !.bus[s] = SlotBus(s)]
         /\ heard' = [heard EXCEPT ![Copy(s)] = @ + 1]
  /\ UNCHANGED <<pooled, shadow, clips, engine, call, pulls, routed>>

\* Mutant: only the copy of the voice moves on.
OnTheCopy(s) == pool[s].cursor
Advanced(s) == pool[s].cursor + 1

\* Every voice that is active by now moves on by a block.
PullAdvances ==
  /\ pull.at = "mixing"
  /\ pull.todo = {}
  /\ pool' = [s \in Slots |-> IF s \in Active THEN [pool[s] EXCEPT !.cursor = Advanced(s)] ELSE pool[s]]
  /\ pull' = Quiet
  /\ UNCHANGED <<shadow, clips, engine, call, known, plays, heardOf, routed>>

Game ==
  \/ \E t \in Threads : \/ Play(t) \/ PlayMarks(t) \/ StopMarks(t)
                        \/ \E v \in Held : StopVoice(t, v) \/ \E b \in Buses : Route(t, v, b)
  \/ RegisterClip \/ ClearClips
  \/ StopEngine \/ ShutDevice \/ ClearVoices("clearing", "resetting") \/ StopResets
  \/ StartEngine \/ ClearVoices("starting", "routing") \/ StartResets \/ OpenDevice \/ StartRuns

Audio == PullBegins \/ PullSnapshots \/ PullResolves \/ PullMixes \/ PullAdvances

Next == Game \/ Audio

Spec == Init /\ [][Next]_vars

-----------------------------------------------------------------------------

TypeOK ==
  /\ \A s \in Slots : /\ pool[s].active \in BOOLEAN
                      /\ pool[s].gen \in 0 .. GenMax
                      /\ pool[s].cursor \in 0 .. MaxPulls
                      /\ shadow[s].gen \in 0 .. GenMax /\ shadow[s].bus \in Buses
  /\ \A c \in ClipSlots : clips[c].gen \in 0 .. GenMax
  /\ running \in BOOLEAN /\ device \in BOOLEAN
  /\ known = DOMAIN heard /\ known = DOMAIN routed
  /\ \A v \in known : v.slot \in Slots /\ v.gen \in 1 .. GenMax /\ heard[v] \in 0 .. MaxPulls
  /\ pull.at \in {"idle", "begun", "copied", "mixing"}

\* "Returns false if the voice is no longer alive": route_voice_to_bus refuses no
\* voice that plays, once play has returned it and nobody is stopping it.
LiveIsRoutable ==
  \A v \in Live : v \in Held /\ (\A t \in Threads : call[t] = Idle) => Routes(v)

\* The audio thread reads a clip only while it is registered: Engine::stop leaves
\* no pull behind that would read one while the registry is cleared.
NoDanglingClip ==
  pull.at = "mixing" =>
    \A s \in DOMAIN pull.clip :
      LET c == pull.clip[s]
      IN  c # NoClip => clips[c.slot].occupied /\ clips[c.slot].gen = c.gen

\* A voice that played throughout the pull is mixed into a bus it was routed to,
\* or the default one, and never into that of an earlier voice of its slot.
OnOneOfItsBuses ==
  /\ TypeOK
  /\ pull.at = "mixing" =>
       \A s \in DOMAIN pull.bus \ pull.todo : Copy(s) \in Live => pull.bus[s] \in routed[Copy(s)]

\* A voice is rendered block after block: none is heard twice, and none is left
\* out but the one of a pull during which the voice was started.
RenderedInTurn ==
  pull.at = "copied" =>
    \A s \in DOMAIN pull.voices : pull.voices[s].cursor - heard[Copy(s)] \in {0, 1}

\* The bus of every voice, as the shadow holds it.  A voice that play has just
\* given out is not marked yet and has the default one.
BusOf == [v \in Live |-> IF Routes(v) THEN shadow[v.slot].bus ELSE Sfx]

Map == INSTANCE VoiceMap WITH Ids <- [slot : Slots, gen : 1 .. GenMax], bus <- BusOf,
                              given <- known

\* The engine implements VoiceMap: identifiers are fresh, a new voice is on the
\* default bus, stale identifiers do nothing, and stop and start end all voices.
ImplementsVoiceMap == Map!Spec

=============================================================================
