-------------------------- MODULE AudioVoicesProofs --------------------------
(***************************************************************************)
(* Proofs about AudioVoices: that a clip is read only while it is           *)
(* registered, for any game threads; that voices are rendered in turn, if   *)
(* no slot is used so often that its generation comes back; and, if one     *)
(* thread plays, stops and routes, that a voice is mixed into its buses     *)
(* and the engine implements VoiceMap.  With more threads the last two are  *)
(* false: that is the run in which LiveIsRoutable is violated.              *)
(***************************************************************************)
EXTENDS AudioVoices, WellFoundedInduction, TLAPS

-----------------------------------------------------------------------------
\* The state, in parts.

Voice == [slot : Slots, gen : 1 .. GenMax]
Clip == {NoClip} \cup [slot : ClipSlots, gen : 0 .. GenMax]
VoiceState == [active : BOOLEAN, gen : 0 .. GenMax, clip : Clip, cursor : Nat]

Busy == {"shutting", "clearing", "resetting", "starting", "routing", "opening", "running"}

CallType(t) ==
  \/ call[t] = Idle
  \/ call[t].op \in {"play", "stop_voice"} /\ call[t].voice \in known
  \/ t = Main /\ call[t].op \in Busy

PullType ==
  /\ pull.at \in {"idle", "begun", "copied", "mixing"}
  /\ pull.at = "idle" => pull = Quiet
  /\ pull.at \in {"copied", "mixing"} =>
       /\ DOMAIN pull.voices \subseteq Slots
       /\ \A s \in DOMAIN pull.voices : pull.voices[s] \in VoiceState /\ Copy(s) \in known
  /\ pull.at = "mixing" =>
       /\ pull = [at |-> "mixing", voices |-> pull.voices, todo |-> pull.todo,
                  clip |-> pull.clip, bus |-> pull.bus]
       /\ pull.todo \subseteq DOMAIN pull.voices
       /\ pull.clip \in [DOMAIN pull.voices -> Clip]
       /\ pull.bus \in [DOMAIN pull.voices -> Buses]

Types ==
  /\ pool \in [Slots -> VoiceState]
  /\ shadow \in [Slots -> [active : BOOLEAN, gen : 0 .. GenMax, bus : Buses]]
  /\ clips \in [ClipSlots -> [occupied : BOOLEAN, gen : 0 .. GenMax]]
  /\ running \in BOOLEAN /\ device \in BOOLEAN
  /\ call = [t \in Threads |-> call[t]] /\ \A t \in Threads : CallType(t)
  /\ known \subseteq Voice /\ \A s \in Active : Id(s) \in known
  /\ heard \in [known -> Nat]
  /\ routed \in [known -> SUBSET Buses]
  /\ plays \in 0 .. MaxPlays /\ pulls \in 0 .. MaxPulls
  /\ PullType

\* The device pulls only while the engine runs or is on its way to or from it, and
\* the clips of a pull in progress stay registered.
Pulling ==
  /\ pull.at # "idle" => device
  /\ device => running \/ call[Main].op \in {"shutting", "running"}
  /\ call[Main].op \in Busy => ~running
  /\ NoDanglingClip

\* No more blocks were heard of a voice, or are behind its cursor, than were pulled.
Counted ==
  /\ pull.at # "idle" => pulls >= 1
  /\ \A s \in Slots : pool[s].cursor <= IF pull.at = "idle" THEN pulls ELSE pulls - 1
  /\ \A v \in known : heard[v] <= pulls
  /\ pull.at = "begun" => \A v \in known : heard[v] <= pulls - 1
  /\ pull.at = "copied" => \A s \in DOMAIN pull.voices : heard[Copy(s)] <= pulls - 1
  /\ pull.at = "mixing" => \A s \in pull.todo : heard[Copy(s)] <= pulls - 1

IInv == Types /\ Pulling /\ Counted

\* As long as generations do not come back: that of a slot is no less than that of
\* any voice of it, and no more than there were plays.
Ahead ==
  /\ \A v \in known : v.gen <= pool[v.slot].gen
  /\ \A s \in Slots : pool[s].gen <= plays

\* The cursor of a voice that plays is as far as what was heard of it, or a block
\* ahead if it was started during a pull.
Lead(s) == pool[s].cursor - heard[Id(s)]
Copies(s) == s \in DOMAIN pull.voices /\ Copy(s) = Id(s)
Mixed(s) == pull.at = "mixing" /\ Copies(s) /\ s \notin pull.todo

InTurn ==
  /\ \A s \in Active :
       /\ Lead(s) \in IF Mixed(s) THEN {-1, 0} ELSE {0, 1}
       /\ pull.at \in {"copied", "mixing"} /\ ~Copies(s) => pool[s].cursor = 0 /\ heard[Id(s)] = 0
  /\ RenderedInTurn

Turns == Ahead /\ InTurn

\* One game thread: the shadow of a slot is that of the voice in it, but for the
\* calls that are about to mark it.
Resetting == call[Main].op \in {"resetting", "routing"}
ShadowOf(s) == [slot |-> s, gen |-> shadow[s].gen]
Marked ==
  /\ \A s \in Slots : shadow[s].active =>
       /\ ShadowOf(s) \in known /\ shadow[s].bus \in routed[ShadowOf(s)]
       /\ \/ pool[s].active /\ pool[s].gen = shadow[s].gen
          \/ call[Main].op = "stop_voice" /\ call[Main].voice.slot = s
          \/ Resetting
  /\ \A v \in known : Sfx \in routed[v]
  /\ call[Main].op = "play" =>
       LET v == call[Main].voice IN Releases(v) /\ ~shadow[v.slot].active
  /\ call[Main].op = "stop_voice" => ~pool[call[Main].voice.slot].active
  /\ Resetting => Active = {}

OnItsBus ==
  pull.at = "mixing" =>
    \A s \in DOMAIN pull.bus \ pull.todo : Copy(s) \in Live => pull.bus[s] \in routed[Copy(s)]

-----------------------------------------------------------------------------
\* Operators.

\* Lowest picks an element of a non-empty set of naturals.
LEMMA LowestIn ==
    ASSUME NEW S \in SUBSET Nat, S # {}
    PROVE  Lowest(S) \in S
<1> DEFINE R == {ss \in Nat \X Nat : ss[1] < ss[2]}
<1>1. IsWellFoundedOn(R, Nat)
  BY NatLessThanWellFounded DEF OpToRel
<1>2. \A x, y \in Nat : <<y, x>> \notin R => x <= y
  OBVIOUS
<1> HIDE DEF R
<1>3. PICK x \in S : \A y \in S : <<y, x>> \notin R
  BY <1>1, WFMin
<1>4. \A y \in S : x <= y
  BY <1>2, <1>3
<1> QED
  BY <1>4 DEF Lowest

LEMMA NextGenRange ==
    ASSUME NEW g \in 0 .. GenMax
    PROVE  /\ NextGen(g) \in 1 .. GenMax
           /\ g < GenMax => NextGen(g) = g + 1
BY SizeAssumption DEF NextGen

LEMMA NoClipApart == \A c \in [slot : ClipSlots, gen : 0 .. GenMax] : c # NoClip
BY SizeAssumption DEF NoClip

\* What play() does: slot s, which is free, is voice v's.
Plays(t, s, clip, v) ==
  /\ v = [slot |-> s, gen |-> NextGen(pool[s].gen)]
  /\ pool' = [pool EXCEPT ![s] = Acquired(s, clip)]
  /\ known' = known \cup {v}
  /\ heard' = [u \in known' |-> IF u = v THEN 0 ELSE heard[u]]
  /\ routed' = [u \in known' |-> IF u = v THEN {Sfx} ELSE routed[u]]
  /\ call' = [call EXCEPT ![t] = [op |-> "play", voice |-> v]]

LEMMA PlayGives ==
    ASSUME Types, NEW t \in Threads, Play(t)
    PROVE  \E s \in Slots \ Active, clip \in Clip, v \in Voice :
             /\ Plays(t, s, clip, v)
             /\ Acquired(s, clip) = [active |-> TRUE, gen |-> v.gen, clip |-> clip, cursor |-> 0]
             /\ Acquired(s, clip) \in VoiceState
<1>1. PICK clip \in ClipIds :
        LET s == Lowest(Slots \ Active)
            v == [slot |-> s, gen |-> NextGen(pool[s].gen)]
        IN  Plays(t, s, clip, v)
  BY DEF Play, Plays
<1> DEFINE s == Lowest(Slots \ Active)
           v == [slot |-> s, gen |-> NextGen(pool[s].gen)]
<1>2. s \in Slots \ Active
  <2>1. Slots \ Active \in SUBSET Nat /\ Slots \ Active # {}
    BY SizeAssumption DEF Play, Active
  <2> QED
    BY <2>1, LowestIn
<1>3. Plays(t, s, clip, v)
  BY <1>1
<1> HIDE DEF s
<1>4. pool[s].gen \in 0 .. GenMax
  BY <1>2 DEF Types, VoiceState
<1>5. v \in Voice /\ v.gen = NextGen(pool[s].gen) /\ v.gen \in 0 .. GenMax
  BY <1>2, <1>4, NextGenRange DEF Voice
<1>6. clip \in Clip
  BY DEF ClipIds, Clip, Types
<1>7. Acquired(s, clip) = [active |-> TRUE, gen |-> v.gen, clip |-> clip, cursor |-> 0]
  BY <1>5 DEF Acquired
<1>8. Acquired(s, clip) \in VoiceState
  BY <1>5, <1>6, <1>7 DEF VoiceState
<1> QED
  BY <1>2, <1>3, <1>5, <1>6, <1>7, <1>8

-----------------------------------------------------------------------------
\* Types.

LEMMA CallBecomes ==
    ASSUME Types, NEW t \in Threads, NEW x, call' = [call EXCEPT ![t] = x], known \subseteq known',
           \/ x = Idle
           \/ x.op \in {"play", "stop_voice"} /\ x.voice \in known'
           \/ t = Main /\ x.op \in Busy
    PROVE  call' = [u \in Threads |-> call'[u]] /\ \A u \in Threads : CallType(u)'
<1>1. call = [u \in Threads |-> call[u]] /\ \A u \in Threads : CallType(u)
  BY DEF Types
<1>2. call' = [u \in Threads |-> call'[u]] /\ call'[t] = x /\ \A u \in Threads \ {t} : call'[u] = call[u]
  BY <1>1
<1> QED
  BY <1>1, <1>2 DEF CallType

LEMMA CallStays ==
    ASSUME Types, call' = call, known \subseteq known'
    PROVE  call' = [u \in Threads |-> call'[u]] /\ \A u \in Threads : CallType(u)'
BY DEF Types, CallType

LEMMA PullStays ==
    ASSUME PullType, pull' = pull, known \subseteq known'
    PROVE  PullType'
BY DEF PullType, Copy

\* The step of a call that only changes the shadow, the clips, the engine or `call'.
LEMMA TypesElsewhere ==
    ASSUME Types, UNCHANGED <<pooled, heard, pulls, pull>>,
           shadow' \in [Slots -> [active : BOOLEAN, gen : 0 .. GenMax, bus : Buses]],
           clips' \in [ClipSlots -> [occupied : BOOLEAN, gen : 0 .. GenMax]],
           running' \in BOOLEAN, device' \in BOOLEAN,
           call' = [u \in Threads |-> call'[u]] /\ \A u \in Threads : CallType(u)',
           routed' \in [known -> SUBSET Buses]
    PROVE  Types'
<1>1. known' = known /\ pool' = pool /\ plays' = plays /\ pull' = pull /\ heard' = heard /\ pulls' = pulls
  BY DEF pooled
<1>2. PullType'
  BY <1>1, PullStays DEF Types
<1> QED
  BY <1>1, <1>2 DEF Types, Active, Id

LEMMA CallsTyped ==
    ASSUME Types, NEW t \in Threads
    PROVE  Play(t) \/ PlayMarks(t) \/ StopMarks(t)
             \/ (\E v \in Held : StopVoice(t, v) \/ \E b \in Buses : Route(t, v, b))
           => Types'
<1>0. /\ \A v \in known : v.slot \in Slots /\ v.gen \in 1 .. GenMax
      /\ Held \subseteq known
  BY DEF Types, Voice, Held
<1>1. ASSUME Play(t) PROVE Types'
  <2>1. PICK s \in Slots \ Active, clip \in Clip, v \in Voice :
          /\ Plays(t, s, clip, v)
          /\ Acquired(s, clip) = [active |-> TRUE, gen |-> v.gen, clip |-> clip, cursor |-> 0]
          /\ Acquired(s, clip) \in VoiceState
    BY <1>1, PlayGives
  <2>2. /\ UNCHANGED <<shadow, clips, running, device, pull, pulls>>
        /\ plays' = plays + 1 /\ plays < MaxPlays
    BY <1>1 DEF Play, engine
  <2>3. known' = known \cup {v} /\ known' \subseteq Voice /\ known \subseteq known'
    BY <2>1 DEF Plays, Types
  <2>4. pool' \in [Slots -> VoiceState]
    BY <2>1 DEF Plays, Types
  <2>5. \A u \in Active' : Id(u)' \in known'
    BY <2>1 DEF Plays, Types, Active, Id, Voice
  <2>6. heard' \in [known' -> Nat] /\ routed' \in [known' -> SUBSET Buses]
    BY <2>1, <2>3, ThreadAssumption DEF Plays, Types
  <2>7. call' = [u \in Threads |-> call'[u]] /\ \A u \in Threads : CallType(u)'
    <3> DEFINE x == [op |-> "play", voice |-> v]
    <3>1. call' = [call EXCEPT ![t] = x] /\ x.op = "play" /\ x.voice \in known'
      BY <2>1, <2>3 DEF Plays
    <3> HIDE DEF x
    <3> QED
      BY <2>3, <3>1, CallBecomes
  <2>8. PullType'
    BY <2>2, <2>3, PullStays DEF Types
  <2>9. plays' \in 0 .. MaxPlays
    BY <2>2, BoundAssumption DEF Types
  <2> QED
    BY <2>2, <2>3, <2>4, <2>5, <2>6, <2>7, <2>8, <2>9 DEF Types
<1>2. ASSUME PlayMarks(t) PROVE Types'
  <2>1. call[t].voice \in known
    BY <1>2 DEF Types, CallType, PlayMarks, Idle, Busy
  <2> DEFINE v == call[t].voice
  <2>2. LiveShadow(v) \in [active : BOOLEAN, gen : 0 .. GenMax, bus : Buses]
    BY <1>0, <2>1, SizeAssumption, ThreadAssumption DEF LiveShadow
  <2>3. shadow' \in [Slots -> [active : BOOLEAN, gen : 0 .. GenMax, bus : Buses]]
    BY <1>2, <2>2 DEF PlayMarks, Types
  <2>4. call' = [u \in Threads |-> call'[u]] /\ \A u \in Threads : CallType(u)'
    BY <1>2, CallBecomes DEF PlayMarks, pooled
  <2> QED
    BY <1>2, <2>3, <2>4, TypesElsewhere DEF PlayMarks, engine, heardOf, pooled, Types
<1>3. ASSUME StopMarks(t) PROVE Types'
  <2>3. shadow' \in [Slots -> [active : BOOLEAN, gen : 0 .. GenMax, bus : Buses]]
    BY <1>3, ZenonT(40) DEF StopMarks, Types
  <2>4. call' = [u \in Threads |-> call'[u]] /\ \A u \in Threads : CallType(u)'
    BY <1>3, CallBecomes DEF StopMarks, pooled
  <2> QED
    BY <1>3, <2>3, <2>4, TypesElsewhere DEF StopMarks, engine, heardOf, pooled, Types
<1>4. ASSUME NEW v \in Held, StopVoice(t, v) PROVE Types'
  <2>1. /\ pool' = [pool EXCEPT ![v.slot].active = FALSE] /\ v \in known
        /\ UNCHANGED <<shadow, clips, running, device, pull, pulls, known, heard, routed, plays>>
    BY <1>0, <1>4 DEF StopVoice, engine, heardOf
  <2>2. pool' \in [Slots -> VoiceState]
    BY <2>1, ZenonT(40) DEF Types, VoiceState
  <2>3. \A u \in Active' : Id(u)' \in known'
    BY <1>0, <2>1 DEF Types, Active, Id, VoiceState
  <2>4. call' = [u \in Threads |-> call'[u]] /\ \A u \in Threads : CallType(u)'
    <3> DEFINE x == [op |-> "stop_voice", voice |-> v]
    <3>1. call' = [call EXCEPT ![t] = x] /\ x.op = "stop_voice" /\ x.voice \in known'
      BY <1>4, <2>1 DEF StopVoice
    <3> HIDE DEF x
    <3> QED
      BY <2>1, <3>1, CallBecomes
  <2>5. PullType'
    BY <2>1, PullStays DEF Types
  <2> QED
    BY <2>1, <2>2, <2>3, <2>4, <2>5 DEF Types
<1>5. ASSUME NEW v \in Held, NEW b \in Buses, Route(t, v, b) PROVE Types'
  <2>1. shadow' \in [Slots -> [active : BOOLEAN, gen : 0 .. GenMax, bus : Buses]]
    BY <1>5, ZenonT(40) DEF Route, Types
  <2>2. routed' \in [known -> SUBSET Buses]
    BY <1>5 DEF Route, Types
  <2>3. call' = [u \in Threads |-> call'[u]] /\ \A u \in Threads : CallType(u)'
    BY <1>5, CallStays DEF Route, pooled
  <2> QED
    BY <1>5, <2>1, <2>2, <2>3, TypesElsewhere DEF Route, engine, heardOf, pooled, Types
<1> QED
  BY <1>1, <1>2, <1>3, <1>4, <1>5

Switching ==
  \/ StopEngine \/ ShutDevice \/ ClearVoices("clearing", "resetting") \/ StopResets
  \/ StartEngine \/ ClearVoices("starting", "routing") \/ StartResets \/ OpenDevice \/ StartRuns

LEMMA BusyNow ==
    ASSUME Types, NEW x, call' = [call EXCEPT ![Main] = x], known' = known, x = Idle \/ x.op \in Busy
    PROVE  call' = [u \in Threads |-> call'[u]] /\ \A u \in Threads : CallType(u)'
BY CallBecomes, ThreadAssumption

LEMMA SwitchingTyped ==
    ASSUME Types, Switching
    PROVE  Types'
<1>0. /\ shadow \in [Slots -> [active : BOOLEAN, gen : 0 .. GenMax, bus : Buses]]
      /\ clips \in [ClipSlots -> [occupied : BOOLEAN, gen : 0 .. GenMax]]
      /\ running \in BOOLEAN /\ device \in BOOLEAN
      /\ routed \in [known -> SUBSET Buses]
  BY DEF Types
<1>1. Reset \in [Slots -> [active : BOOLEAN, gen : 0 .. GenMax, bus : Buses]]
  BY SizeAssumption, ThreadAssumption DEF Reset, Dead
<1> DEFINE Called == call' = [u \in Threads |-> call'[u]] /\ \A u \in Threads : CallType(u)'
<1>2. \A op \in Busy : [op |-> op].op \in Busy
  OBVIOUS
<1>3. \A op \in Busy : call' = [call EXCEPT ![Main] = [op |-> op]] /\ known' = known => Called
  BY <1>2, BusyNow
<1>4. call' = [call EXCEPT ![Main] = Idle] /\ known' = known => Called
  BY BusyNow
<1> HIDE DEF Called
<1>5. Called => call' = [u \in Threads |-> call'[u]] /\ \A u \in Threads : CallType(u)'
  BY DEF Called
<1>6. {"shutting", "clearing", "resetting", "starting", "routing", "opening", "running"} = Busy
  BY DEF Busy
<1>7. ASSUME StopEngine PROVE Types'
  BY <1>0, <1>3, <1>5, <1>6, <1>7, TypesElsewhere DEF StopEngine, pooled, heardOf
<1>8. ASSUME ShutDevice PROVE Types'
  BY <1>0, <1>3, <1>5, <1>6, <1>8, TypesElsewhere DEF ShutDevice, pooled, heardOf
<1>9. ASSUME NEW at, NEW next \in Busy, ClearVoices(at, next) PROVE Types'
  <2>1. /\ pool' = Cleared /\ call' = [call EXCEPT ![Main] = [op |-> next]]
        /\ UNCHANGED <<known, plays, shadow, clips, running, device, stops, pull, heard, pulls, routed>>
    BY <1>9 DEF ClearVoices, engine, heardOf
  <2>2. pool' \in [Slots -> VoiceState]
    BY <2>1, ZenonT(40) DEF Cleared, Types, VoiceState
  <2>3. Active' = {}
    BY <2>1 DEF Cleared, Active, Types, VoiceState
  <2>4. Called
    BY <1>3, <2>1
  <2>5. PullType'
    BY <2>1, PullStays DEF Types
  <2> QED
    BY <1>5, <2>1, <2>2, <2>3, <2>4, <2>5 DEF Types
<1>10. ASSUME StopResets PROVE Types'
  BY <1>0, <1>1, <1>4, <1>5, <1>10, TypesElsewhere DEF StopResets, pooled, heardOf, engine
<1>11. ASSUME StartEngine PROVE Types'
  BY <1>0, <1>3, <1>5, <1>6, <1>11, TypesElsewhere DEF StartEngine, pooled, heardOf, engine
<1>12. ASSUME StartResets PROVE Types'
  BY <1>0, <1>1, <1>3, <1>5, <1>6, <1>12, TypesElsewhere DEF StartResets, pooled, heardOf, engine
<1>13. ASSUME OpenDevice PROVE Types'
  BY <1>0, <1>3, <1>4, <1>5, <1>6, <1>13, TypesElsewhere DEF OpenDevice, pooled, heardOf
<1>14. ASSUME StartRuns PROVE Types'
  BY <1>0, <1>4, <1>5, <1>14, TypesElsewhere DEF StartRuns, pooled, heardOf
<1> QED
  BY <1>6, <1>7, <1>8, <1>9, <1>10, <1>11, <1>12, <1>13, <1>14 DEF Switching

LEMMA ClipsTyped ==
    ASSUME Types, RegisterClip \/ ClearClips
    PROVE  Types'
<1>1. /\ UNCHANGED <<pooled, shadow, engine, call, pull, heardOf, routed>>
      /\ clips' \in [ClipSlots -> [occupied : BOOLEAN, gen : 0 .. GenMax]]
  <2>1. CASE RegisterClip
    <3> DEFINE S == {d \in ClipSlots : ~clips[d].occupied}
               c == Lowest(S)
    <3>1. c \in ClipSlots
      <4>1. S \in SUBSET Nat /\ S # {}
        BY <2>1, SizeAssumption DEF RegisterClip
      <4> HIDE DEF S
      <4>2. Lowest(S) \in S
        BY <4>1, LowestIn
      <4> QED
        BY <4>2 DEF S
    <3> DEFINE rec == [occupied |-> TRUE, gen |-> NextGen(clips[c].gen)]
    <3>2. clips' = [clips EXCEPT ![c] = rec]
      BY <2>1 DEF RegisterClip
    <3> HIDE DEF c
    <3>3. NextGen(clips[c].gen) \in 0 .. GenMax
      BY <3>1, NextGenRange DEF Types
    <3>4. rec \in [occupied : BOOLEAN, gen : 0 .. GenMax]
      BY <3>3
    <3> HIDE DEF rec
    <3>5. clips' \in [ClipSlots -> [occupied : BOOLEAN, gen : 0 .. GenMax]]
      BY <3>1, <3>2, <3>4 DEF Types
    <3> QED
      BY <2>1, <3>5 DEF RegisterClip
  <2>2. CASE ClearClips
    BY <2>2 DEF ClearClips, Types
  <2> QED
    BY <2>1, <2>2
<1>2. call' = [u \in Threads |-> call'[u]] /\ \A u \in Threads : CallType(u)'
  BY <1>1, CallStays DEF pooled
<1> QED
  BY <1>1, <1>2, TypesElsewhere DEF pooled, heardOf, engine, Types

\* What a pull holds once it has copied the voices.
LEMMA PullTypes ==
    ASSUME Types, pull.at \in {"copied", "mixing"}
    PROVE  /\ DOMAIN pull.voices \subseteq Slots
           /\ \A s \in DOMAIN pull.voices :
                /\ pull.voices[s] \in VoiceState /\ pull.voices[s].clip \in Clip
                /\ Copy(s) \in known /\ Copy(s).slot = s
BY DEF Types, PullType, VoiceState, Copy

\* One voice is mixed, the one of slot s.
Mixes(s) ==
  /\ s \in DOMAIN pull.voices /\ s \in Slots /\ Copy(s) \in known /\ SlotBus(s) \in Buses
  /\ heard' = [heard EXCEPT ![Copy(s)] = @ + 1]
  /\ pull' = [at |-> "mixing", voices |-> pull.voices, todo |-> pull.todo \ {s},
              clip |-> pull.clip, bus |-> [pull.bus EXCEPT ![s] = SlotBus(s)]]

LEMMA MixesOne ==
    ASSUME Types, PullMixes
    PROVE  pull.at = "mixing" /\ \E s \in pull.todo : Mixes(s)
<1>1. pull.at = "mixing" /\ pull.todo # {} /\ PullType
  BY DEF PullMixes, Types
<1>2. PICK s \in pull.todo :
        /\ pull' = [pull EXCEPT !.todo = @ \ {s}, !.bus[s] = SlotBus(s)]
        /\ heard' = [heard EXCEPT ![Copy(s)] = @ + 1]
  <2>1. pull.todo \in SUBSET Nat
    BY <1>1, PullTypes, SizeAssumption DEF PullType
  <2>2. Lowest(pull.todo) \in pull.todo
    BY <1>1, <2>1, LowestIn
  <2> QED
    BY <2>2 DEF PullMixes
<1>3. s \in DOMAIN pull.voices /\ s \in Slots /\ Copy(s) \in known
  BY <1>1, PullTypes DEF PullType
<1>4. SlotBus(s) \in Buses
  BY <1>3, ThreadAssumption DEF SlotBus, Types
<1> DEFINE v == pull.voices
           d == pull.todo
           c == pull.clip
           b == pull.bus
           x == SlotBus(s)
<1>5. pull = [at |-> "mixing", voices |-> v, todo |-> d, clip |-> c, bus |-> b]
  BY <1>1 DEF PullType
<1>6. pull' = [pull EXCEPT !.todo = @ \ {s}, !.bus = [@ EXCEPT ![s] = x]]
  BY <1>2
<1> HIDE DEF v, d, c, b, x
<1>7. pull' = [at |-> "mixing", voices |-> v, todo |-> d \ {s}, clip |-> c,
               bus |-> [b EXCEPT ![s] = x]]
  BY <1>5, <1>6
<1> QED
  BY <1>1, <1>2, <1>3, <1>4, <1>7 DEF Mixes, v, d, c, b, x

LEMMA AudioTyped ==
    ASSUME Types, Audio
    PROVE  Types'
<1>1. ASSUME UNCHANGED <<known, plays, routed, shadow, clips, engine, call>>,
             pool' \in [Slots -> VoiceState], \A s \in Slots :
               pool'[s].active = pool[s].active /\ pool'[s].gen = pool[s].gen,
             heard' \in [known -> Nat], pulls' \in 0 .. MaxPulls, PullType'
      PROVE  Types'
  <2>1. call' = [u \in Threads |-> call'[u]] /\ \A u \in Threads : CallType(u)'
    BY <1>1, CallStays
  <2>2. \A u \in Active' : Id(u)' \in known'
    BY <1>1 DEF Types, Active, Id
  <2> QED
    BY <1>1, <2>1, <2>2 DEF Types, engine
<1>2. /\ pool \in [Slots -> VoiceState] /\ heard \in [known -> Nat]
      /\ pulls \in 0 .. MaxPulls /\ PullType
  BY DEF Types
<1>3. ASSUME PullBegins PROVE Types'
  <2>1. pull' = [at |-> "begun"] /\ pulls' \in 0 .. MaxPulls
    BY <1>2, <1>3, BoundAssumption DEF PullBegins
  <2>2. PullType'
    BY <2>1 DEF PullType
  <2> QED
    BY <1>1, <1>2, <1>3, <2>1, <2>2 DEF PullBegins, pooled
<1>4. ASSUME PullSnapshots PROVE Types'
  <2>1. CASE Active = {}
    <3>1. pull' = Quiet
      BY <1>4, <2>1 DEF PullSnapshots
    <3>2. PullType'
      BY <3>1 DEF PullType, Quiet
    <3> QED
      BY <1>1, <1>2, <1>4, <3>2 DEF PullSnapshots, pooled, heardOf
  <2>2. CASE Active # {}
    <3> DEFINE w == [s \in Active |-> pool[s]]
    <3>1. pull' = [at |-> "copied", voices |-> w]
      BY <1>4, <2>2 DEF PullSnapshots
    <3>2. \A s \in Active : s \in Slots /\ w[s] \in VoiceState /\ [slot |-> s, gen |-> w[s].gen] \in known
      BY DEF Active, Types, Id
    <3>3. DOMAIN w = Active
      OBVIOUS
    <3> HIDE DEF w
    <3>4. /\ pull'.at = "copied" /\ DOMAIN pull'.voices \subseteq Slots
          /\ \A s \in DOMAIN pull'.voices : pull'.voices[s] \in VoiceState /\ Copy(s)' \in known
      BY <3>1, <3>2, <3>3 DEF Copy
    <3>5. known' = known
      BY <1>4 DEF PullSnapshots, pooled
    <3>6. PullType'
      BY <3>4, <3>5 DEF PullType
    <3> QED
      BY <1>1, <1>2, <1>4, <3>6 DEF PullSnapshots, pooled, heardOf
  <2> QED
    BY <2>1, <2>2
<1>5. ASSUME PullResolves PROVE Types'
  <2>1. /\ pull.at = "copied" /\ known' = known
        /\ \E c, b : /\ pull' = [at |-> "mixing", voices |-> pull.voices, todo |-> DOMAIN pull.voices,
                                 clip |-> c, bus |-> b]
                     /\ c \in [DOMAIN pull.voices -> Clip] /\ b \in [DOMAIN pull.voices -> Buses]
    <3> DEFINE c == [s \in DOMAIN pull.voices |-> Resolved(pull.voices[s].clip)]
               b == [s \in DOMAIN pull.voices |-> Sfx]
    <3>1. /\ pull.at = "copied" /\ known' = known
          /\ pull' = [at |-> "mixing", voices |-> pull.voices, todo |-> DOMAIN pull.voices,
                      clip |-> c, bus |-> b]
      BY <1>5 DEF PullResolves, pooled
    <3>2. c \in [DOMAIN pull.voices -> Clip] /\ b \in [DOMAIN pull.voices -> Buses]
      <4>1. \A x \in Clip : Resolved(x) \in Clip
        BY DEF Resolved, Clip
      <4> QED
        BY <4>1, PullTypes, ThreadAssumption, <1>5 DEF PullResolves
    <3> HIDE DEF c, b
    <3> QED
      BY <3>1, <3>2
  <2>2. \A s \in DOMAIN pull.voices : pull'.voices = pull.voices => Copy(s)' = Copy(s)
    BY DEF Copy
  <2>3. PullType'
    BY <1>2, <2>1, <2>2 DEF PullType
  <2> QED
    BY <1>1, <1>2, <1>5, <2>3 DEF PullResolves, pooled, heardOf
<1>6. ASSUME PullMixes PROVE Types'
  <2>1. /\ pull.at = "mixing" /\ known' = known
        /\ UNCHANGED <<pooled, shadow, clips, engine, call, pulls, routed>>
    BY <1>6 DEF PullMixes, pooled
  <2>2. PICK s \in pull.todo : Mixes(s)
    BY <1>6, MixesOne
  <2>5. heard' \in [known -> Nat]
    BY <1>2, <2>2 DEF Mixes
  <2>7. [pull.bus EXCEPT ![s] = SlotBus(s)] \in [DOMAIN pull.voices -> Buses]
    BY <1>2, <2>1, <2>2 DEF PullType, Mixes
  <2>8. PullType'
    BY <1>2, <2>1, <2>2, <2>7 DEF PullType, Copy, Mixes
  <2> QED
    BY <1>1, <1>2, <2>1, <2>5, <2>8 DEF pooled
<1>7. ASSUME PullAdvances PROVE Types'
  <2>1. \A s \in Slots : /\ pool'[s] = IF s \in Active THEN [pool[s] EXCEPT !.cursor = pool[s].cursor + 1]
                                       ELSE pool[s]
                         /\ pool[s] \in VoiceState
    BY <1>2, <1>7 DEF PullAdvances, Advanced
  <2>2. /\ pool' \in [Slots -> VoiceState]
        /\ \A s \in Slots : pool'[s].active = pool[s].active /\ pool'[s].gen = pool[s].gen
    BY <1>7, <2>1 DEF PullAdvances, VoiceState, Advanced
  <2>3. PullType'
    BY <1>7 DEF PullAdvances, PullType, Quiet
  <2> QED
    BY <1>1, <1>2, <1>7, <2>2, <2>3 DEF PullAdvances, heardOf
<1> QED
  BY <1>3, <1>4, <1>5, <1>6, <1>7 DEF Audio

LEMMA NextTyped == Types /\ [Next]_vars => Types'
<1> SUFFICES ASSUME Types, [Next]_vars PROVE Types'
  OBVIOUS
<1>1. CASE UNCHANGED vars
  <2>1. call' = [u \in Threads |-> call'[u]] /\ \A u \in Threads : CallType(u)'
    BY <1>1, CallStays DEF vars
  <2> QED
    BY <1>1, <2>1, TypesElsewhere DEF vars, pooled, Types
<1> QED
  BY <1>1, CallsTyped, SwitchingTyped, ClipsTyped, AudioTyped DEF Next, Game, Switching

LEMMA InitTyped == Init => Types
<1> SUFFICES ASSUME Init PROVE Types
  OBVIOUS
<1>1. [active |-> FALSE, gen |-> 0, clip |-> NoClip, cursor |-> 0] \in VoiceState
  BY SizeAssumption DEF VoiceState, Clip
<1>2. Dead \in [active : BOOLEAN, gen : 0 .. GenMax, bus : Buses]
  BY SizeAssumption, ThreadAssumption DEF Dead
<1>3. PullType
  BY DEF Init, PullType, Quiet
<1>4. heard \in [known -> Nat] /\ routed \in [known -> SUBSET Buses]
  BY DEF Init
<1> QED
  BY <1>1, <1>2, <1>3, <1>4, SizeAssumption, BoundAssumption DEF Init, Types, CallType, Active

-----------------------------------------------------------------------------
\* The device, and the clips of a pull.

LEMMA PullingKept ==
    ASSUME Types, Pulling, [Next]_vars
    PROVE  Pulling'
<1>0. /\ pull.at # "idle" => device
      /\ device => running \/ call[Main].op \in {"shutting", "running"}
      /\ call[Main].op \in Busy => ~running
      /\ NoDanglingClip /\ PullType
      /\ \A t \in Threads : CallType(t)
      /\ call = [t \in Threads |-> call[t]] /\ Main \in Threads
  BY ThreadAssumption DEF Pulling, Types
<1>i. Idle.op = "idle" /\ Quiet.at = "idle" /\ Idle.op \notin Busy
  BY DEF Idle, Quiet, Busy
<1>1. ASSUME UNCHANGED <<pull, clips>> PROVE NoDanglingClip'
  BY <1>0, <1>1 DEF NoDanglingClip
<1>2. ASSUME UNCHANGED <<running, device, pull, clips>>,
             device => running \/ call'[Main].op \in {"shutting", "running"},
             call'[Main].op \in Busy => ~running
      PROVE  Pulling'
  BY <1>0, <1>1, <1>2 DEF Pulling
<1>3. ASSUME NEW t \in Threads,
             Play(t) \/ PlayMarks(t) \/ StopMarks(t)
               \/ (\E v \in Held : StopVoice(t, v) \/ \E b \in Buses : Route(t, v, b))
      PROVE  Pulling'
  <2>1. /\ UNCHANGED <<running, device, pull, clips>>
        /\ call[t] = Idle \/ call[t].op \in {"play", "stop_voice"}
        /\ call' = call \/ \E x : call' = [call EXCEPT ![t] = x] /\ x.op \notin Busy
    <3>1. \A op \in {"play", "stop_voice"} : \A v : [op |-> op, voice |-> v].op \notin Busy
      BY DEF Busy
    <3>2. ASSUME Play(t)
          PROVE  call[t] = Idle /\ \E v : call' = [call EXCEPT ![t] = [op |-> "play", voice |-> v]]
      BY <3>2 DEF Play
    <3>3. ASSUME NEW v \in Held, StopVoice(t, v)
          PROVE  call[t] = Idle /\ call' = [call EXCEPT ![t] = [op |-> "stop_voice", voice |-> v]]
      BY <3>3 DEF StopVoice
    <3>4. UNCHANGED <<running, device, pull, clips>>
      BY <1>3 DEF Play, PlayMarks, StopMarks, StopVoice, Route, engine
    <3>5. CASE PlayMarks(t) \/ StopMarks(t)
      BY <1>i, <3>4, <3>5 DEF PlayMarks, StopMarks
    <3>6. CASE \E v \in Held : \E b \in Buses : Route(t, v, b)
      BY <3>4, <3>6 DEF Route
    <3> QED
      BY <1>3, <3>1, <3>2, <3>3, <3>4, <3>5, <3>6
  <2>2. /\ device => running \/ call'[Main].op \in {"shutting", "running"}
        /\ call'[Main].op \in Busy => ~running
    <3>1. CASE t = Main
      BY <1>0, <1>i, <2>1, <3>1 DEF Busy
    <3>2. CASE t # Main
      BY <1>0, <2>1, <3>2
    <3> QED
      BY <3>1, <3>2
  <2> QED
    BY <1>2, <2>1, <2>2
<1>4. ASSUME RegisterClip PROVE Pulling'
  <2>1. /\ UNCHANGED <<running, device, pull, call>>
        /\ clips' = [clips EXCEPT ![Lowest({d \in ClipSlots : ~clips[d].occupied})] =
                       [occupied |-> TRUE, gen |-> NextGen(@.gen)]]
    BY <1>4 DEF RegisterClip, engine
  <2> DEFINE S == {d \in ClipSlots : ~clips[d].occupied}
             n == Lowest(S)
  <2>2. n \in S
    <3>1. S \in SUBSET Nat /\ S # {}
      BY <1>4, SizeAssumption DEF RegisterClip
    <3> QED
      BY <3>1, LowestIn
  <2>3. \A c \in ClipSlots : clips[c].occupied => clips'[c] = clips[c]
    <3>1. \A c \in ClipSlots : c # n => clips'[c] = clips[c]
      BY <2>1 DEF Types
    <3> QED
      BY <2>2, <3>1
  <2>4. NoDanglingClip'
    <3> SUFFICES ASSUME pull.at = "mixing", NEW s \in DOMAIN pull.clip, pull.clip[s] # NoClip
                 PROVE  /\ clips'[pull.clip[s].slot].occupied
                        /\ clips'[pull.clip[s].slot].gen = pull.clip[s].gen
      BY <2>1 DEF NoDanglingClip
    <3>1. clips[pull.clip[s].slot].occupied /\ clips[pull.clip[s].slot].gen = pull.clip[s].gen
      BY <1>0 DEF NoDanglingClip
    <3>2. pull.clip[s].slot \in ClipSlots
      BY <1>0 DEF PullType, Clip
    <3> QED
      BY <2>3, <3>1, <3>2
  <2> QED
    BY <1>0, <2>1, <2>4 DEF Pulling
<1>5. ASSUME ClearClips PROVE Pulling'
  <2>1. pull.at = "idle" /\ UNCHANGED <<running, device, pull, call>>
    BY <1>0, <1>5, <1>i DEF ClearClips, engine
  <2> QED
    BY <1>0, <2>1 DEF Pulling, NoDanglingClip
<1>6. ASSUME StopEngine PROVE Pulling'
  <2>1. UNCHANGED <<device, pull, clips>> /\ call'[Main].op = "shutting" /\ ~running'
    BY <1>0, <1>6 DEF StopEngine
  <2> QED
    BY <1>0, <1>1, <2>1 DEF Pulling
<1>7. ASSUME ShutDevice PROVE Pulling'
  <2>1. pull' = Quiet /\ clips' = clips /\ device' = FALSE /\ pull' = pull /\ ~running'
    BY <1>0, <1>7 DEF ShutDevice, Busy
  <2> QED
    BY <1>1, <1>i, <2>1 DEF Pulling
<1>8. ASSUME NEW at \in {"clearing", "starting"}, NEW next, ClearVoices(at, next) PROVE Pulling'
  <2>1. UNCHANGED <<running, device, pull, clips>> /\ call[Main].op = at
    BY <1>8 DEF ClearVoices, engine
  <2> QED
    BY <1>0, <1>2, <1>8, <2>1 DEF Busy
<1>9. ASSUME StopResets \/ StartEngine \/ StartResets PROVE Pulling'
  <2>1. UNCHANGED <<running, device, pull, clips>>
    BY <1>9 DEF StopResets, StartEngine, StartResets, engine
  <2>2. /\ device => running
        /\ call'[Main].op \in Busy => ~running
    BY <1>0, <1>9, <1>i DEF StopResets, StartEngine, StartResets, Busy
  <2> QED
    BY <1>2, <2>1, <2>2
<1>10. ASSUME OpenDevice PROVE Pulling'
  <2>1. call[Main].op = "opening" /\ ~running /\ UNCHANGED <<running, pull, clips>>
    BY <1>0, <1>10 DEF OpenDevice, Busy
  <2>2. \/ device' = TRUE /\ call'[Main].op = "running"
        \/ device' = FALSE
    BY <1>0, <1>10 DEF OpenDevice
  <2>3. pull.at = "idle"
    BY <1>0, <2>1
  <2> QED
    BY <1>0, <1>1, <2>1, <2>2, <2>3 DEF Pulling
<1>11. ASSUME StartRuns PROVE Pulling'
  <2>1. UNCHANGED <<device, pull, clips>> /\ running' = TRUE /\ call'[Main] = Idle
    BY <1>0, <1>11 DEF StartRuns
  <2> QED
    BY <1>0, <1>1, <1>i, <2>1 DEF Pulling
<1>12. ASSUME Audio PROVE Pulling'
  <2>1. UNCHANGED <<running, device, clips, call>> /\ (pull'.at # "idle" => device)
    BY <1>0, <1>12, <1>i DEF Audio, PullBegins, PullSnapshots, PullResolves, PullMixes, PullAdvances, engine
  <2>2. NoDanglingClip'
    <3>1. CASE PullBegins \/ PullSnapshots \/ PullAdvances
      <4>1. pull'.at # "mixing"
        BY <1>i, <3>1 DEF PullBegins, PullSnapshots, PullAdvances
      <4> QED
        BY <4>1 DEF NoDanglingClip
    <3>2. CASE PullResolves
      <4>1. /\ pull'.clip = [s \in DOMAIN pull.voices |-> Resolved(pull.voices[s].clip)]
            /\ clips' = clips
        BY <3>2 DEF PullResolves
      <4>2. \A c : LET r == Resolved(c)
                   IN  r # NoClip => clips[r.slot].occupied /\ clips[r.slot].gen = r.gen
        BY DEF Resolved
      <4> QED
        BY <4>1, <4>2 DEF NoDanglingClip
    <3>3. CASE PullMixes
      <4>1. pull.at = "mixing" /\ pull'.clip = pull.clip /\ clips' = clips
        BY <2>1, <3>3, MixesOne DEF Mixes
      <4> QED
        BY <1>0, <4>1 DEF NoDanglingClip
    <3> QED
      BY <1>12, <3>1, <3>2, <3>3 DEF Audio
  <2> QED
    BY <1>0, <2>1, <2>2 DEF Pulling
<1>13. CASE UNCHANGED vars
  BY <1>0, <1>2, <1>13 DEF vars
<1> QED
  BY <1>3, <1>4, <1>5, <1>6, <1>7, <1>8, <1>9, <1>10, <1>11, <1>12, <1>13 DEF Next, Game

-----------------------------------------------------------------------------
\* How often a voice was heard, against how many blocks were pulled.

LEMMA CountedStays ==
    ASSUME Types, Counted, UNCHANGED <<pulls, pull>>,
           \A s \in Slots : pool'[s].cursor \in {0, pool[s].cursor},
           known \subseteq known',
           \A v \in known' : heard'[v] = 0 \/ (v \in known /\ heard'[v] = heard[v])
    PROVE  Counted'
<1>1. pulls \in Nat /\ \A s \in Slots : pool[s].cursor \in Nat
  BY BoundAssumption DEF Types, VoiceState
<1>2. pull.at \in {"copied", "mixing"} =>
        \A s \in DOMAIN pull.voices : Copy(s)' = Copy(s) /\ Copy(s) \in known'
  BY PullTypes DEF Copy
<1>3. pull.at = "mixing" => pull.todo \subseteq DOMAIN pull.voices
  BY DEF Types, PullType
<1> QED
  BY <1>1, <1>2, <1>3 DEF Counted

LEMMA CountedKept ==
    ASSUME Types, Counted, [Next]_vars
    PROVE  Counted'
<1>0. /\ pulls \in Nat /\ \A s \in Slots : pool[s].cursor \in Nat
      /\ heard \in [known -> Nat] /\ PullType
  BY BoundAssumption DEF Types, VoiceState
<1>1. ASSUME UNCHANGED <<pulls, pull, pool, known, heard>> PROVE Counted'
  BY <1>1, CountedStays
<1>2. ASSUME NEW t \in Threads, Play(t) PROVE Counted'
  <2>1. PICK s \in Slots \ Active, clip \in Clip, v \in Voice :
          /\ Plays(t, s, clip, v)
          /\ Acquired(s, clip) = [active |-> TRUE, gen |-> v.gen, clip |-> clip, cursor |-> 0]
    BY <1>2, PlayGives
  <2>2. \A u \in Slots : pool'[u].cursor \in {0, pool[u].cursor}
    BY <2>1 DEF Plays, Types
  <2>3. \A u \in known' : heard'[u] = 0 \/ (u \in known /\ heard'[u] = heard[u])
    BY <2>1 DEF Plays
  <2>4. UNCHANGED <<pulls, pull>> /\ known \subseteq known'
    BY <1>2, <2>1 DEF Play, Plays
  <2> QED
    BY <2>2, <2>3, <2>4, CountedStays
<1>3. ASSUME NEW t \in Threads, NEW v \in Held, StopVoice(t, v) PROVE Counted'
  <2>1. \A u \in Slots : pool'[u].cursor = pool[u].cursor
    BY <1>3 DEF StopVoice, Types, VoiceState
  <2> QED
    BY <1>3, <2>1, CountedStays DEF StopVoice, heardOf
<1>4. ASSUME NEW at, NEW next, ClearVoices(at, next) PROVE Counted'
  <2>1. \A u \in Slots : pool'[u].cursor = pool[u].cursor
    BY <1>4 DEF ClearVoices, Cleared, Types, VoiceState
  <2> QED
    BY <1>4, <2>1, CountedStays DEF ClearVoices, heardOf
<1>5. ASSUME PullBegins PROVE Counted'
  <2>1. /\ pull.at = "idle" /\ pulls' = pulls + 1 /\ pull' = [at |-> "begun"]
        /\ UNCHANGED <<pool, known, heard>>
    BY <1>5 DEF PullBegins, Quiet, pooled
  <2> QED
    BY <1>0, <2>1 DEF Counted
<1>6. ASSUME PullSnapshots PROVE Counted'
  <2>1. pull.at = "begun" /\ UNCHANGED <<pool, known, heard, pulls>>
    BY <1>6 DEF PullSnapshots, pooled, heardOf
  <2>2. CASE Active = {}
    BY <1>0, <1>6, <2>1, <2>2 DEF PullSnapshots, Counted, Quiet
  <2>3. CASE Active # {}
    <3> DEFINE w == [s \in Active |-> pool[s]]
    <3>1. pull' = [at |-> "copied", voices |-> w]
      BY <1>6, <2>3 DEF PullSnapshots
    <3>2. \A s \in DOMAIN w : [slot |-> s, gen |-> w[s].gen] \in known
      BY DEF Types, Id
    <3> HIDE DEF w
    <3>3. pull'.at = "copied" /\ \A s \in DOMAIN pull'.voices : Copy(s)' \in known
      BY <3>1, <3>2 DEF Copy
    <3> QED
      BY <1>0, <2>1, <3>3 DEF Counted
  <2> QED
    BY <2>2, <2>3
<1>7. ASSUME PullResolves PROVE Counted'
  <2>1. pull.at = "copied" /\ UNCHANGED <<pool, known, heard, pulls>>
    BY <1>7 DEF PullResolves, pooled, heardOf
  <2>2. pull'.at = "mixing" /\ pull'.voices = pull.voices /\ pull'.todo = DOMAIN pull.voices
    BY <1>7 DEF PullResolves
  <2>3. \A s : Copy(s)' = Copy(s)
    BY <2>2 DEF Copy
  <2> QED
    BY <1>0, <2>1, <2>2, <2>3 DEF Counted
<1>8. ASSUME PullMixes PROVE Counted'
  <2>1. pull.at = "mixing" /\ UNCHANGED <<pool, known, pulls>>
    BY <1>8 DEF PullMixes, pooled
  <2>2. PICK s \in pull.todo : Mixes(s)
    BY <1>8, MixesOne
  <2>3. pull'.at = "mixing" /\ pull'.todo = pull.todo \ {s} /\ pull'.voices = pull.voices
    BY <2>2 DEF Mixes
  <2>4. \A u \in pull.todo \ {s} : /\ Copy(u)' = Copy(u) /\ Copy(u) \in known /\ Copy(u) # Copy(s)
                                   /\ heard'[Copy(u)] = heard[Copy(u)]
    <3>1. \A u \in pull.todo : Copy(u) \in known /\ Copy(u).slot = u
      BY <1>0, <2>1, PullTypes DEF PullType
    <3>2. \A u : Copy(u)' = Copy(u)
      BY <2>3 DEF Copy
    <3> QED
      BY <1>0, <2>2, <3>1, <3>2 DEF Mixes
  <2>5. heard[Copy(s)] <= pulls - 1 /\ heard[Copy(s)] \in Nat
    BY <1>0, <2>1, <2>2 DEF Counted, Mixes
  <2>6. \A v \in known : heard'[v] <= pulls
    BY <1>0, <2>2, <2>5 DEF Mixes, Counted
  <2> QED
    BY <1>0, <2>1, <2>3, <2>4, <2>6 DEF Counted
<1>9. ASSUME PullAdvances PROVE Counted'
  <2>1. pull.at = "mixing" /\ pull'.at = "idle" /\ UNCHANGED <<known, heard, pulls>>
    BY <1>9 DEF PullAdvances, Quiet, heardOf
  <2>2. \A s \in Slots : pool'[s].cursor \in {pool[s].cursor, pool[s].cursor + 1}
    BY <1>9 DEF PullAdvances, Advanced, Types, VoiceState
  <2> QED
    BY <1>0, <2>1, <2>2 DEF Counted
<1>10. ASSUME UNCHANGED <<pooled, heardOf, pull>> PROVE Counted'
  BY <1>1, <1>10 DEF pooled, heardOf
<1>11. ASSUME \/ \E t \in Threads : \/ PlayMarks(t) \/ StopMarks(t)
                                    \/ \E v \in Held : \E b \in Buses : Route(t, v, b)
              \/ RegisterClip \/ ClearClips
       PROVE  Counted'
  BY <1>1, <1>11 DEF PlayMarks, StopMarks, Route, RegisterClip, ClearClips, pooled, heardOf
<1>12. ASSUME StopEngine \/ ShutDevice \/ StopResets \/ StartEngine \/ StartResets \/ OpenDevice \/ StartRuns
       PROVE  Counted'
  BY <1>10, <1>12 DEF StopEngine, ShutDevice, StopResets, StartEngine, StartResets, OpenDevice, StartRuns
<1>13. CASE UNCHANGED vars
  BY <1>10, <1>13 DEF vars, pooled, heardOf
<1> QED
  BY <1>2, <1>3, <1>4, <1>5, <1>6, <1>7, <1>8, <1>9, <1>11, <1>12, <1>13 DEF Next, Game, Audio

LEMMA InitPulls == Init => Pulling /\ Counted
<1> SUFFICES ASSUME Init PROVE Pulling /\ Counted
  OBVIOUS
<1>1. pull.at = "idle" /\ pulls = 0 /\ known = {} /\ Idle.op \notin Busy
  BY DEF Init, Quiet, Idle, Busy
<1> QED
  BY <1>1, ThreadAssumption DEF Init, Pulling, Counted, NoDanglingClip, Idle

LEMMA Invariance == Spec => []IInv
<1>1. Init => IInv
  BY InitTyped, InitPulls DEF IInv
<1>2. IInv /\ [Next]_vars => IInv'
  BY NextTyped, PullingKept, CountedKept DEF IInv
<1> QED
  BY <1>1, <1>2, PTL DEF Spec

\* The audio thread reads a clip only while it is registered.
THEOREM ClipsNeverDangle == Spec => []NoDanglingClip
BY Invariance, PTL DEF IInv, Pulling

\* Types, with the bounds on what was heard.
THEOREM TypesKept == Spec => []TypeOK
<1>1. IInv => TypeOK
  <2> SUFFICES ASSUME IInv PROVE TypeOK
    OBVIOUS
  <2>1. pulls \in 0 .. MaxPulls
    BY DEF IInv, Types
  <2>2. \A s \in Slots : pool[s].cursor \in 0 .. MaxPulls
    <3>1. \A s \in Slots : pool[s].cursor \in Nat
      BY DEF IInv, Types, VoiceState
    <3> QED
      BY <2>1, <3>1, BoundAssumption DEF IInv, Counted
  <2>3. \A v \in known : heard[v] \in 0 .. MaxPulls
    <3>1. \A v \in known : heard[v] \in Nat
      BY DEF IInv, Types
    <3> QED
      BY <2>1, <3>1, BoundAssumption DEF IInv, Counted
  <2> QED
    BY <2>2, <2>3 DEF IInv, Types, VoiceState, Voice, PullType, TypeOK
<1> QED
  BY <1>1, Invariance, PTL

-----------------------------------------------------------------------------
\* Rendering in turn, while no generation comes back.

LEMMA IdOfActive == Types => \A s \in Active : s \in Slots /\ Id(s) \in known /\ Id(s).slot = s
                                               /\ pool[s].cursor \in Nat /\ heard[Id(s)] \in Nat
BY DEF Types, Active, Id, VoiceState

\* A voice that play gives out was never given out before.
LEMMA PlayIsFresh ==
    ASSUME MaxPlays <= GenMax, Types, Ahead, NEW t \in Threads, Play(t)
    PROVE  \E s \in Slots \ Active, clip \in Clip, v \in Voice :
             /\ Plays(t, s, clip, v) /\ v.slot = s /\ v \notin known
             /\ pool' = [pool EXCEPT ![s] = [active |-> TRUE, gen |-> v.gen, clip |-> clip, cursor |-> 0]]
             /\ v.gen = pool[s].gen + 1
<1>1. PICK s \in Slots \ Active, clip \in Clip, v \in Voice :
        /\ Plays(t, s, clip, v)
        /\ Acquired(s, clip) = [active |-> TRUE, gen |-> v.gen, clip |-> clip, cursor |-> 0]
  BY PlayGives
<1>2. v.slot = s /\ v.gen = NextGen(pool[s].gen) /\ pool[s].gen \in 0 .. GenMax
  BY <1>1 DEF Plays, Types, VoiceState
<1>3. pool[s].gen <= plays /\ plays < MaxPlays /\ plays \in Nat
  BY BoundAssumption DEF Ahead, Play, Types
<1>4. v.gen = pool[s].gen + 1
  <2>1. GenMax \in Nat /\ MaxPlays \in Nat
    BY SizeAssumption, BoundAssumption
  <2>2. pool[s].gen < GenMax
    BY <1>2, <1>3, <2>1
  <2> QED
    BY <1>2, <2>2, NextGenRange
<1>5. v \notin known
  <2>1. v \in known => v.gen <= pool[s].gen
    BY <1>2 DEF Ahead
  <2> QED
    BY <1>2, <1>4, <2>1
<1> QED
  BY <1>1, <1>2, <1>4, <1>5 DEF Plays

LEMMA AheadKept ==
    ASSUME MaxPlays <= GenMax, Types, Ahead, [Next]_vars
    PROVE  Ahead'
<1>0. /\ \A s \in Slots : pool[s].gen \in Nat
      /\ \A v \in known : v.slot \in Slots /\ v.gen \in Nat
      /\ plays \in Nat
  BY SizeAssumption, BoundAssumption DEF Types, VoiceState, Voice
<1>1. ASSUME known' = known, plays' = plays, \A s \in Slots : pool'[s].gen = pool[s].gen PROVE Ahead'
  BY <1>0, <1>1 DEF Ahead
<1>2. ASSUME NEW t \in Threads, Play(t) PROVE Ahead'
  <2>1. PICK s \in Slots \ Active, clip \in Clip, v \in Voice :
          /\ Plays(t, s, clip, v) /\ v.slot = s /\ v \notin known
          /\ pool' = [pool EXCEPT ![s] = [active |-> TRUE, gen |-> v.gen, clip |-> clip, cursor |-> 0]]
          /\ v.gen = pool[s].gen + 1
    BY <1>2, PlayIsFresh
  <2>2. known' = known \cup {v} /\ plays' = plays + 1
    BY <1>2, <2>1 DEF Plays, Play
  <2>3. pool'[s].gen = pool[s].gen + 1 /\ \A u \in Slots \ {s} : pool'[u] = pool[u]
    BY <2>1 DEF Types
  <2> QED
    BY <1>0, <2>1, <2>2, <2>3 DEF Ahead
<1>3. ASSUME NEW t \in Threads, NEW v \in Held, StopVoice(t, v) PROVE Ahead'
  BY <1>1, <1>3 DEF StopVoice, Types, VoiceState
<1>4. ASSUME NEW at, NEW next, ClearVoices(at, next) PROVE Ahead'
  BY <1>1, <1>4 DEF ClearVoices, Cleared, Types, VoiceState
<1>5. ASSUME PullAdvances PROVE Ahead'
  BY <1>1, <1>5 DEF PullAdvances, Types, VoiceState
<1>6. ASSUME UNCHANGED pooled PROVE Ahead'
  BY <1>1, <1>6 DEF pooled
<1>7. ASSUME \/ \E t \in Threads : \/ PlayMarks(t) \/ StopMarks(t)
                                   \/ \E v \in Held : \E b \in Buses : Route(t, v, b)
             \/ RegisterClip \/ ClearClips
             \/ StopEngine \/ ShutDevice \/ StopResets \/ StartEngine \/ StartResets \/ OpenDevice \/ StartRuns
             \/ PullBegins \/ PullSnapshots \/ PullResolves \/ PullMixes
      PROVE  Ahead'
  BY <1>6, <1>7 DEF PlayMarks, StopMarks, Route, RegisterClip, ClearClips, StopEngine, ShutDevice,
     StopResets, StartEngine, StartResets, OpenDevice, StartRuns, PullBegins, PullSnapshots,
     PullResolves, PullMixes, pooled
<1>8. CASE UNCHANGED vars
  BY <1>6, <1>8 DEF vars, pooled
<1> QED
  BY <1>2, <1>3, <1>4, <1>5, <1>7, <1>8 DEF Next, Game, Audio

\* What of a voice's slot the pull has copied, and what is heard of it, stays.
LEMMA InTurnStays ==
    ASSUME Types, InTurn, pull' = pull,
           \A v \in known : heard'[v] = heard[v],
           \A s \in Active' : s \in Active /\ pool'[s].gen = pool[s].gen /\ pool'[s].cursor = pool[s].cursor
    PROVE  InTurn'
<1>1. \A s \in Active : Id(s) \in known
  BY IdOfActive
<1>2. \A s \in Active' : s \in Active /\ Id(s)' = Id(s) /\ Lead(s)' = Lead(s) /\ heard'[Id(s)'] = heard[Id(s)]
  BY <1>1 DEF Id, Lead
<1>3. \A s : Copy(s)' = Copy(s)
  BY DEF Copy
<1>4. \A s \in Active' : Copies(s)' = Copies(s) /\ Mixed(s)' = Mixed(s)
  BY <1>2, <1>3 DEF Copies, Mixed
<1>5. RenderedInTurn'
  <2>1. pull.at = "copied" => \A s \in DOMAIN pull.voices : Copy(s) \in known
    BY PullTypes
  <2> QED
    BY <1>3, <2>1 DEF InTurn, RenderedInTurn
<1> QED
  BY <1>2, <1>4, <1>5 DEF InTurn

LEMMA PlayInTurn ==
    ASSUME MaxPlays <= GenMax, Types, Turns, NEW t \in Threads, Play(t)
    PROVE  InTurn'
<1>1. PICK s \in Slots \ Active, clip \in Clip, v \in Voice :
        /\ Plays(t, s, clip, v) /\ v.slot = s /\ v \notin known
        /\ pool' = [pool EXCEPT ![s] = [active |-> TRUE, gen |-> v.gen, clip |-> clip, cursor |-> 0]]
        /\ v.gen = pool[s].gen + 1
  BY PlayIsFresh DEF Turns
<1>2. pull' = pull /\ known' = known \cup {v} /\ heard'[v] = 0 /\ \A u \in known : heard'[u] = heard[u]
  BY <1>1 DEF Play, Plays
<1>3. Active' \subseteq Active \cup {s} /\ \A u \in Active : pool'[u] = pool[u]
  BY <1>1 DEF Active, Types
<1>4. pool'[s].cursor = 0 /\ Id(s)' = v
  BY <1>1 DEF Types, Id, Voice
<1>5. pull.at \in {"copied", "mixing"} => ~Copies(s)'
  <2>1. Copy(s)' = Copy(s)
    BY <1>2 DEF Copy
  <2> QED
    BY <1>1, <1>2, <1>4, <2>1, PullTypes DEF Copies
<1>6. \A u \in Active : Id(u)' = Id(u) /\ Copy(u)' = Copy(u) /\ Copies(u)' = Copies(u) /\ Mixed(u)' = Mixed(u)
  BY <1>2, <1>3 DEF Id, Copy, Copies, Mixed
<1>7. \A u \in Active : Lead(u)' = Lead(u) /\ heard'[Id(u)'] = heard[Id(u)] /\ pool'[u].cursor = pool[u].cursor
  BY <1>2, <1>3, <1>6, IdOfActive DEF Lead
<1>8. Lead(s)' = 0 /\ heard'[Id(s)'] = 0 /\ ~Mixed(s)'
  BY <1>2, <1>4, <1>5 DEF Lead, Mixed
<1>9. RenderedInTurn'
  <2>1. pull.at = "copied" => \A u \in DOMAIN pull.voices : Copy(u) \in known /\ Copy(u)' = Copy(u)
    BY <1>2, PullTypes DEF Copy
  <2> QED
    BY <1>2, <2>1 DEF Turns, InTurn, RenderedInTurn
<1> QED
  BY <1>2, <1>3, <1>4, <1>5, <1>6, <1>7, <1>8, <1>9 DEF Turns, InTurn

LEMMA AudioInTurn ==
    ASSUME Types, Turns, Audio
    PROVE  InTurn'
<1>0. /\ \A s \in Active : /\ Lead(s) \in IF Mixed(s) THEN {-1, 0} ELSE {0, 1}
                           /\ pull.at \in {"copied", "mixing"} /\ ~Copies(s)
                                => pool[s].cursor = 0 /\ heard[Id(s)] = 0
      /\ RenderedInTurn
  BY DEF Turns, InTurn
<1>1. ASSUME PullBegins PROVE InTurn'
  <2>1. pull.at = "idle" /\ pull'.at = "begun" /\ UNCHANGED <<pool, heard>>
    BY <1>1 DEF PullBegins, pooled, Quiet
  <2>2. \A s \in Active : Lead(s)' = Lead(s) /\ ~Mixed(s) /\ ~Mixed(s)'
    BY <2>1 DEF Lead, Mixed, Id
  <2> QED
    BY <1>0, <2>1, <2>2 DEF InTurn, RenderedInTurn, Active
<1>2. ASSUME PullSnapshots PROVE InTurn'
  <2>1. pull.at = "begun" /\ UNCHANGED <<pool, heard>>
    BY <1>2 DEF PullSnapshots, pooled, heardOf
  <2>2. Active' = Active /\ \A s \in Active : Lead(s)' = Lead(s) /\ Id(s)' = Id(s) /\ ~Mixed(s)
    BY <2>1 DEF Active, Lead, Id, Mixed
  <2>3. CASE Active = {}
    BY <1>2, <2>2, <2>3 DEF PullSnapshots, InTurn, RenderedInTurn, Quiet
  <2>4. CASE Active # {}
    <3> DEFINE w == [s \in Active |-> pool[s]]
    <3>1. pull' = [at |-> "copied", voices |-> w]
      BY <1>2, <2>4 DEF PullSnapshots
    <3>2. DOMAIN w = Active /\ \A s \in Active : w[s] = pool[s]
      OBVIOUS
    <3> HIDE DEF w
    <3>3. \A s \in Active : Copy(s)' = Id(s) /\ Copies(s)' /\ ~Mixed(s)'
      BY <2>2, <3>1, <3>2 DEF Copy, Copies, Id, Mixed
    <3>4. RenderedInTurn'
      BY <1>0, <2>1, <2>2, <3>1, <3>2, <3>3 DEF RenderedInTurn, Lead
    <3> QED
      BY <1>0, <2>2, <3>3, <3>4 DEF InTurn
  <2> QED
    BY <2>3, <2>4
<1>3. ASSUME PullResolves PROVE InTurn'
  <2>1. /\ pull.at = "copied" /\ pull'.at = "mixing" /\ pull'.voices = pull.voices
        /\ pull'.todo = DOMAIN pull.voices /\ UNCHANGED <<pool, heard>>
    BY <1>3 DEF PullResolves, pooled, heardOf
  <2>2. \A s : Lead(s)' = Lead(s) /\ Id(s)' = Id(s) /\ Copy(s)' = Copy(s) /\ (Copies(s)' <=> Copies(s))
               /\ ~Mixed(s) /\ ~Mixed(s)'
    BY <2>1 DEF Lead, Id, Copy, Copies, Mixed
  <2> QED
    BY <1>0, <2>1, <2>2 DEF InTurn, RenderedInTurn, Active
<1>4. ASSUME PullMixes PROVE InTurn'
  <2>1. pull.at = "mixing" /\ pool' = pool
    BY <1>4 DEF PullMixes, pooled
  <2>2. PICK s \in pull.todo : Mixes(s)
    BY <1>4, MixesOne
  <2>3. pull'.at = "mixing" /\ pull'.todo = pull.todo \ {s} /\ pull'.voices = pull.voices
    BY <2>2 DEF Mixes
  <2>4. \A u : Id(u)' = Id(u) /\ Copy(u)' = Copy(u) /\ (Copies(u)' <=> Copies(u))
    BY <2>1, <2>3 DEF Id, Copy, Copies
  <2>5. \A u \in Active : Id(u) \in known /\ pool[u].cursor \in Nat /\ heard[Id(u)] \in Nat
    BY IdOfActive
  <2>6. \A u \in Active : IF u = s /\ Copies(u) THEN heard'[Id(u)] = heard[Id(u)] + 1
                                                ELSE heard'[Id(u)] = heard[Id(u)]
    <3>1. Copy(s).slot = s /\ \A u \in Active : Id(u).slot = u
      BY DEF Copy, Id
    <3>2. \A u \in Active : Id(u) = Copy(s) <=> u = s /\ Copies(u)
      BY <2>2, <3>1 DEF Copies, Mixes
    <3>3. heard \in [known -> Nat] /\ heard' = [heard EXCEPT ![Copy(s)] = @ + 1]
      BY <2>2 DEF Types, Mixes
    <3> QED
      BY <2>5, <3>2, <3>3
  <2>7. \A u \in Active : IF u = s /\ Copies(u) THEN ~Mixed(u) /\ Mixed(u)' ELSE Mixed(u)' = Mixed(u)
    BY <2>1, <2>2, <2>3, <2>4 DEF Mixed
  <2>8. \A u \in Active : Lead(u)' \in IF Mixed(u)' THEN {-1, 0} ELSE {0, 1}
    BY <1>0, <2>1, <2>4, <2>5, <2>6, <2>7 DEF Lead
  <2> QED
    BY <1>0, <2>1, <2>3, <2>4, <2>6, <2>8 DEF InTurn, RenderedInTurn, Active
<1>5. ASSUME PullAdvances PROVE InTurn'
  <2>1. pull.at = "mixing" /\ pull.todo = {} /\ pull'.at = "idle" /\ heard' = heard
    BY <1>5 DEF PullAdvances, Quiet, heardOf
  <2>2. \A s \in Slots : /\ pool'[s].active = pool[s].active /\ pool'[s].gen = pool[s].gen
                         /\ s \in Active => pool'[s].cursor = pool[s].cursor + 1
    BY <1>5 DEF PullAdvances, Advanced, Types, VoiceState
  <2>3. Active' = Active /\ \A s \in Active : Id(s)' = Id(s) /\ Lead(s)' = Lead(s) + 1
    BY <2>1, <2>2, IdOfActive DEF Active, Id, Lead
  <2>4. \A s \in Active : ~Mixed(s)' /\ (~Mixed(s) => Lead(s) = 0) /\ Lead(s) \in {-1, 0, 1}
    BY <1>0, <2>1 DEF Mixed, Lead
  <2>5. \A s \in Active : Lead(s)' \in {0, 1}
    BY <1>0, <2>3, <2>4
  <2> QED
    BY <2>1, <2>3, <2>4, <2>5 DEF InTurn, RenderedInTurn
<1> QED
  BY <1>1, <1>2, <1>3, <1>4, <1>5 DEF Audio

LEMMA TurnsKept ==
    ASSUME MaxPlays <= GenMax, Types, Turns, [Next]_vars
    PROVE  Turns'
<1>1. ASSUME UNCHANGED <<pool, known, heard, pull>> PROVE InTurn'
  BY <1>1, InTurnStays DEF Turns, Active
<1>2. ASSUME NEW t \in Threads, NEW v \in Held, StopVoice(t, v) PROVE InTurn'
  <2>1. \A s \in Active' : s \in Active /\ pool'[s].gen = pool[s].gen /\ pool'[s].cursor = pool[s].cursor
    BY <1>2 DEF StopVoice, Types, VoiceState, Active
  <2> QED
    BY <1>2, <2>1, InTurnStays DEF Turns, StopVoice, heardOf
<1>3. ASSUME NEW at, NEW next, ClearVoices(at, next) PROVE InTurn'
  <2>1. Active' = {}
    BY <1>3 DEF ClearVoices, Cleared, Types, VoiceState, Active
  <2> QED
    BY <1>3, <2>1, InTurnStays DEF Turns, ClearVoices, heardOf
<1>4. ASSUME \/ \E t \in Threads : \/ PlayMarks(t) \/ StopMarks(t)
                                   \/ \E v \in Held : \E b \in Buses : Route(t, v, b)
             \/ RegisterClip \/ ClearClips
             \/ StopEngine \/ ShutDevice \/ StopResets \/ StartEngine \/ StartResets \/ OpenDevice \/ StartRuns
      PROVE  InTurn'
  BY <1>1, <1>4 DEF PlayMarks, StopMarks, Route, RegisterClip, ClearClips, StopEngine, ShutDevice,
     StopResets, StartEngine, StartResets, OpenDevice, StartRuns, pooled, heardOf
<1>5. ASSUME UNCHANGED vars PROVE InTurn'
  BY <1>1, <1>5 DEF vars, pooled
<1>6. \A t \in Threads : Play(t) => InTurn'
  BY PlayInTurn
<1>7. InTurn'
  <2>1. Audio => InTurn'
    BY AudioInTurn
  <2>2. Game => InTurn'
    BY <1>2, <1>3, <1>4, <1>6 DEF Game
  <2> QED
    BY <1>5, <2>1, <2>2 DEF Next
<1> QED
  BY <1>7, AheadKept DEF Turns

LEMMA InitTurns == Init => Turns
BY DEF Init, Turns, Ahead, InTurn, RenderedInTurn, Quiet, Active

\* A voice is rendered block after block, however threads play and stop.
THEOREM RenderedInTurnEver ==
    ASSUME MaxPlays <= GenMax
    PROVE  Spec => []RenderedInTurn
<1>1. Init => Types /\ Turns
  BY InitTyped, InitTurns
<1>2. Types /\ Turns /\ [Next]_vars => (Types /\ Turns)'
  BY NextTyped, TurnsKept
<1>3. Types /\ Turns => RenderedInTurn
  BY DEF Turns, InTurn
<1> QED
  BY <1>1, <1>2, <1>3, PTL DEF Spec

-----------------------------------------------------------------------------
\* One game thread: the shadow, and the buses.

LEMMA LiveIsReleasable ==
    ASSUME Types
    PROVE  /\ Live \subseteq known
           /\ \A v \in known : v \in Live <=> Releases(v)
           /\ \A v \in known : v.slot \in Slots /\ v = [slot |-> v.slot, gen |-> v.gen]
<1>1. \A v \in known : v.slot \in Slots /\ v = [slot |-> v.slot, gen |-> v.gen]
  BY DEF Types, Voice
<1>2. Live \subseteq known
  BY DEF Types, Live
<1>3. \A v \in known : v \in Live <=> Releases(v)
  BY <1>1 DEF Live, Active, Id, Releases
<1> QED
  BY <1>1, <1>2, <1>3

\* The operations during which the shadow is behind the pool.
Marking == {"play", "stop_voice", "resetting", "routing"}

\* A step that neither the pool, the shadow nor the calls that mark it notice.
Still ==
  /\ UNCHANGED <<known, routed, shadow, Active>>
  /\ \A s \in Slots : pool'[s].active = pool[s].active /\ pool'[s].gen = pool[s].gen
  /\ call' = call \/ {call[Main].op, call'[Main].op} \cap Marking = {}

LEMMA StillSteps ==
    ASSUME Types,
           \/ RegisterClip \/ ClearClips \/ StopEngine \/ ShutDevice \/ StartEngine \/ OpenDevice \/ StartRuns
           \/ Audio \/ UNCHANGED vars
    PROVE  Still
<1>0. Idle.op \notin Marking /\ call = [t \in Threads |-> call[t]] /\ Main \in Threads
  BY ThreadAssumption DEF Idle, Marking, Types
<1>1. ASSUME UNCHANGED <<known, routed, shadow, pool>>,
             call' = call \/ {call[Main].op, call'[Main].op} \cap Marking = {}
      PROVE  Still
  BY <1>1 DEF Still, Active
<1>2. ASSUME RegisterClip \/ ClearClips \/ PullBegins \/ PullSnapshots \/ PullResolves \/ PullMixes
      PROVE  Still
  BY <1>1, <1>2 DEF RegisterClip, ClearClips, PullBegins, PullSnapshots, PullResolves, PullMixes,
     pooled
<1>3. ASSUME StopEngine \/ ShutDevice \/ StartEngine \/ OpenDevice \/ StartRuns
      PROVE  Still
  <2>1. /\ UNCHANGED <<known, routed, shadow, pool>>
        /\ call[Main] = Idle \/ call[Main].op \in {"shutting", "opening", "running"}
    BY <1>3 DEF StopEngine, ShutDevice, StartEngine, OpenDevice, StartRuns, pooled
  <2>2. call'[Main] = Idle \/ call'[Main].op \in {"shutting", "clearing", "starting", "running"}
    BY <1>0, <1>3 DEF StopEngine, ShutDevice, StartEngine, OpenDevice, StartRuns
  <2>3. {call[Main].op, call'[Main].op} \cap Marking = {}
    BY <1>0, <2>1, <2>2 DEF Marking
  <2> QED
    BY <1>1, <2>1, <2>3
<1>4. ASSUME PullAdvances PROVE Still
  <2>1. \A s \in Slots : pool'[s].active = pool[s].active /\ pool'[s].gen = pool[s].gen
    BY <1>4 DEF PullAdvances, Types, VoiceState
  <2> QED
    BY <1>4, <2>1 DEF PullAdvances, Still, Active
<1>5. ASSUME UNCHANGED vars PROVE Still
  BY <1>1, <1>5 DEF vars
<1> QED
  BY <1>2, <1>3, <1>4, <1>5 DEF Audio

LEMMA MarkedStill ==
    ASSUME Types, Marked, Still
    PROVE  Marked'
<1>0. Idle.op \notin Marking
  BY DEF Idle, Marking
<1>1. \A s \in Slots : ShadowOf(s)' = ShadowOf(s) /\ Id(s)' = Id(s)
  BY DEF Still, ShadowOf, Id
<1>2. \A o \in Marking : call[Main].op = o <=> call'[Main].op = o
  BY DEF Still
<1>3. \A o \in Marking : call'[Main].op = o => call' = call
  BY DEF Still
<1>4. Resetting' <=> Resetting
  BY <1>2 DEF Resetting, Marking
<1>5. call[Main].op \in {"play", "stop_voice"} => call[Main].voice \in known
  BY ThreadAssumption DEF Types, CallType, Idle, Busy
<1>6. \A v \in known : v.slot \in Slots
  BY DEF Types, Voice
<1>7. \A s \in Slots : shadow'[s].active =>
        /\ ShadowOf(s)' \in known' /\ shadow'[s].bus \in routed'[ShadowOf(s)']
        /\ \/ pool'[s].active /\ pool'[s].gen = shadow'[s].gen
           \/ call'[Main].op = "stop_voice" /\ call'[Main].voice.slot = s
           \/ Resetting'
  BY <1>1, <1>2, <1>3, <1>4 DEF Marked, Still, Marking
<1>8. call'[Main].op = "play" =>
        LET v == call'[Main].voice
        IN  pool'[v.slot].active /\ pool'[v.slot].gen = v.gen /\ ~shadow'[v.slot].active
  BY <1>2, <1>3, <1>5, <1>6 DEF Marked, Still, Marking, Releases
<1>9. call'[Main].op = "stop_voice" => ~pool'[call'[Main].voice.slot].active
  BY <1>1, <1>2, <1>3, <1>5, <1>6 DEF Marked, Still, Marking
<1> QED
  BY <1>4, <1>7, <1>8, <1>9 DEF Marked, Still, Releases

\* The bus of a voice that plays.
BusIn(v) == IF Routes(v) THEN shadow[v.slot].bus ELSE Sfx

LEMMA BusOfIs == BusOf = [v \in Live |-> BusIn(v)]
BY DEF BusOf, BusIn

LEMMA SameBuses ==
    ASSUME Live' = Live, \A v \in Live : BusIn(v)' = BusIn(v)
    PROVE  BusOf' = BusOf
<1>1. BusOf' = [v \in Live' |-> BusIn(v)']
  BY DEF BusOf, BusIn
<1> QED
  BY <1>1, BusOfIs

\* What a game thread's step leaves of the voices that a pull has copied.
Keeps ==
  /\ pull' = pull
  /\ known \cap Live' \subseteq Live
  /\ \A v \in known : routed[v] \subseteq routed'[v]

LEMMA PlayMoves ==
    ASSUME MaxPlays <= GenMax, Threads = {Main}, Types, Turns, Marked, Play(Main)
    PROVE  Marked' /\ Keeps /\ \E v \in Voice : Map!Play(v)
<1>1. PICK s \in Slots \ Active, clip \in Clip, v \in Voice :
        /\ Plays(Main, s, clip, v) /\ v.slot = s /\ v \notin known
        /\ pool' = [pool EXCEPT ![s] = [active |-> TRUE, gen |-> v.gen, clip |-> clip, cursor |-> 0]]
        /\ v.gen = pool[s].gen + 1
  BY PlayIsFresh, ThreadAssumption DEF Turns
<1>2. /\ call[Main] = Idle /\ pull' = pull /\ shadow' = shadow
      /\ known' = known \cup {v} /\ routed'[v] = {Sfx} /\ \A u \in known : routed'[u] = routed[u]
  BY <1>1 DEF Play, Plays
<1>3. call'[Main].op = "play" /\ call'[Main].voice = v
  BY <1>1, ThreadAssumption DEF Plays, Types
<1>4. /\ pool'[s].active /\ pool'[s].gen = v.gen /\ ~pool[s].active
      /\ \A u \in Slots \ {s} : pool'[u] = pool[u]
  BY <1>1 DEF Types, Active
<1>5. \A u \in Slots : shadow[u].active =>
        /\ ShadowOf(u) \in known /\ shadow[u].bus \in routed[ShadowOf(u)]
        /\ pool[u].active /\ pool[u].gen = shadow[u].gen
  BY <1>2 DEF Marked, Idle, Resetting
<1>6. ~shadow[s].active
  BY <1>4, <1>5
<1>7. Marked'
  <2>1. \A u \in Slots : shadow'[u].active =>
          /\ ShadowOf(u)' \in known' /\ shadow'[u].bus \in routed'[ShadowOf(u)']
          /\ pool'[u].active /\ pool'[u].gen = shadow'[u].gen
    <3>1. \A u \in Slots : ShadowOf(u)' = ShadowOf(u)
      BY <1>2 DEF ShadowOf
    <3> QED
      BY <1>2, <1>4, <1>5, <1>6, <3>1
  <2>2. \A u \in known' : Sfx \in routed'[u]
    BY <1>2 DEF Marked
  <2>3. ~Resetting'
    BY <1>3 DEF Resetting
  <2> QED
    BY <1>1, <1>2, <1>3, <1>4, <1>6, <2>1, <2>2, <2>3 DEF Marked, Releases
<1>8. Live' = Live \cup {v} /\ v \notin Live
  <2>1. Active' = Active \cup {s}
    BY <1>4 DEF Active
  <2>2. \A u \in Active : Id(u)' = Id(u)
    BY <1>4 DEF Id, Active
  <2>3. Id(s)' = v
    BY <1>1, <1>4 DEF Id, Voice
  <2>4. v \notin Live
    BY <1>1, LiveIsReleasable
  <2> QED
    BY <2>1, <2>2, <2>3, <2>4 DEF Live
<1>9. Keeps
  BY <1>1, <1>2, <1>8 DEF Keeps
<1>10. Map!Play(v)
  <2>1. BusOf' = [u \in Live' |-> BusIn(u)']
    BY DEF BusOf, BusIn
  <2>2. \A u : BusIn(u)' = BusIn(u)
    BY <1>2 DEF BusIn, Routes
  <2>3. BusIn(v) = Sfx
    BY <1>1, <1>6 DEF BusIn, Routes
  <2>4. BusOf' = [u \in Live \cup {v} |-> IF u = v THEN Sfx ELSE BusIn(u)]
    BY <1>8, <2>1, <2>2, <2>3
  <2>5. DOMAIN BusOf = Live /\ \A u \in Live : BusOf[u] = BusIn(u)
    BY BusOfIs
  <2>6. BusOf' = [u \in DOMAIN BusOf \cup {v} |-> IF u = v THEN Sfx ELSE BusOf[u]]
    BY <2>4, <2>5
  <2> QED
    BY <1>1, <1>2, <2>6 DEF Map!Play
<1> QED
  BY <1>1, <1>7, <1>9, <1>10

LEMMA PlayMarksMoves ==
    ASSUME Threads = {Main}, Types, Marked, PlayMarks(Main)
    PROVE  Marked' /\ Keeps /\ UNCHANGED <<BusOf, known>>
<1>0. call[Main].voice \in known
  BY ThreadAssumption DEF PlayMarks, Types, CallType, Busy, Idle
<1> PICK v \in known : v = call[Main].voice
  BY <1>0
<1> DEFINE s == v.slot
<1>1. /\ call[Main].op = "play" /\ v \in known /\ s \in Slots /\ v = [slot |-> s, gen |-> v.gen]
      /\ shadow' = [shadow EXCEPT ![s] = LiveShadow(v)]
      /\ UNCHANGED <<pull, pool, known, routed>> /\ call'[Main] = Idle
  BY ThreadAssumption, LiveIsReleasable DEF PlayMarks, Types, pooled
<1>2. Releases(v) /\ ~shadow[s].active /\ \A u \in known : Sfx \in routed[u]
  BY <1>1 DEF Marked
<1>3. \A u \in Slots : shadow[u].active =>
        /\ ShadowOf(u) \in known /\ shadow[u].bus \in routed[ShadowOf(u)]
        /\ pool[u].active /\ pool[u].gen = shadow[u].gen
  BY <1>1 DEF Marked, Resetting
<1>4. /\ shadow'[s].active /\ shadow'[s].gen = v.gen /\ shadow'[s].bus = Sfx
      /\ \A u \in Slots \ {s} : shadow'[u] = shadow[u]
  BY <1>1 DEF Types, LiveShadow
<1>5. Marked'
  <2>1. ShadowOf(s)' = v /\ \A u \in Slots \ {s} : ShadowOf(u)' = ShadowOf(u)
    BY <1>1, <1>4 DEF ShadowOf
  <2>2. \A u \in Slots : shadow'[u].active =>
          /\ ShadowOf(u)' \in known' /\ shadow'[u].bus \in routed'[ShadowOf(u)']
          /\ pool'[u].active /\ pool'[u].gen = shadow'[u].gen
    BY <1>1, <1>2, <1>3, <1>4, <2>1 DEF Releases
  <2> QED
    BY <1>1, <1>2, <2>2 DEF Marked, Idle, Resetting
<1>6. Live' = Live
  BY <1>1 DEF Live, Active, Id
<1>7. Keeps
  BY <1>1, <1>6 DEF Keeps
<1>8. \A u \in Live : BusIn(u)' = BusIn(u)
  <2>1. BusIn(v)' = Sfx /\ BusIn(v) = Sfx
    BY <1>2, <1>4 DEF BusIn, Routes
  <2>2. \A u \in Live : u # v => u.slot # s /\ u.slot \in Slots
    BY <1>1, <1>2, LiveIsReleasable DEF Releases
  <2>3. \A u \in Live : u # v => BusIn(u)' = BusIn(u)
    BY <1>4, <2>2 DEF BusIn, Routes
  <2> QED
    BY <2>1, <2>3
<1> QED
  BY <1>1, <1>5, <1>6, <1>7, <1>8, SameBuses

LEMMA StopMoves ==
    ASSUME Threads = {Main}, Types, Marked, NEW v \in Held, StopVoice(Main, v)
    PROVE  Marked' /\ Keeps /\ Map!Stop(v)
<1>1. /\ v \in known /\ v.slot \in Slots /\ v = [slot |-> v.slot, gen |-> v.gen]
      /\ call[Main] = Idle /\ Releases(v) /\ pool' = [pool EXCEPT ![v.slot].active = FALSE]
      /\ UNCHANGED <<pull, shadow, known, routed>>
      /\ call'[Main].op = "stop_voice" /\ call'[Main].voice = v
  BY ThreadAssumption, LiveIsReleasable DEF StopVoice, Types, Held, heardOf
<1>2. /\ ~pool'[v.slot].active
      /\ \A u \in Slots \ {v.slot} : pool'[u] = pool[u]
      /\ \A u \in Slots : pool'[u].gen = pool[u].gen
  BY <1>1 DEF Types, VoiceState
<1>3. \A u \in Slots : shadow[u].active =>
        /\ ShadowOf(u) \in known /\ shadow[u].bus \in routed[ShadowOf(u)]
        /\ pool[u].active /\ pool[u].gen = shadow[u].gen
  BY <1>1 DEF Marked, Idle, Resetting
<1>4. Marked'
  <2>1. \A u \in Slots : ShadowOf(u)' = ShadowOf(u)
    BY <1>1 DEF ShadowOf
  <2>2. \A u \in Slots : shadow'[u].active =>
          /\ ShadowOf(u)' \in known' /\ shadow'[u].bus \in routed'[ShadowOf(u)']
          /\ \/ pool'[u].active /\ pool'[u].gen = shadow'[u].gen
             \/ call'[Main].voice.slot = u
    BY <1>1, <1>2, <1>3, <2>1
  <2>3. \A u \in known' : Sfx \in routed'[u]
    BY <1>1 DEF Marked
  <2>4. ~Resetting'
    BY <1>1 DEF Resetting
  <2> QED
    BY <1>1, <1>2, <2>2, <2>3, <2>4 DEF Marked
<1>5. Live' = Live \ {v} /\ v \in Live
  <2>1. Active' = Active \ {v.slot} /\ v.slot \in Active /\ Id(v.slot) = v
    BY <1>1, <1>2 DEF Active, Id, Releases
  <2>2. \A u \in Slots : Id(u)' = Id(u) /\ Id(u).slot = u
    BY <1>2 DEF Id
  <2>3. Active \subseteq Slots
    BY DEF Active
  <2> QED
    BY <2>1, <2>2, <2>3 DEF Live
<1>6. Keeps
  BY <1>1, <1>5 DEF Keeps
<1>7. Map!Stop(v)
  <2>1. BusOf' = [u \in Live' |-> BusIn(u)']
    BY DEF BusOf, BusIn
  <2>2. \A u : BusIn(u)' = BusIn(u)
    BY <1>1 DEF BusIn, Routes
  <2>3. DOMAIN BusOf = Live /\ \A u \in Live : BusOf[u] = BusIn(u)
    BY BusOfIs
  <2>4. BusOf' = [u \in DOMAIN BusOf \ {v} |-> BusOf[u]]
    BY <1>5, <2>1, <2>2, <2>3
  <2> QED
    BY <1>1, <1>5, <2>3, <2>4 DEF Map!Stop
<1> QED
  BY <1>4, <1>6, <1>7

LEMMA StopMarksMoves ==
    ASSUME Threads = {Main}, Types, Marked, StopMarks(Main)
    PROVE  Marked' /\ Keeps /\ UNCHANGED <<BusOf, known>>
<1>0. call[Main].voice \in known
  BY ThreadAssumption DEF StopMarks, Types, CallType, Busy, Idle
<1> PICK v \in known : v = call[Main].voice
  BY <1>0
<1> DEFINE s == v.slot
<1>1. /\ call[Main].op = "stop_voice" /\ s \in Slots
      /\ shadow' = [shadow EXCEPT ![s].active = FALSE]
      /\ UNCHANGED <<pull, pool, known, routed>> /\ call'[Main] = Idle
  BY ThreadAssumption, LiveIsReleasable DEF StopMarks, Types, pooled
<1>2. ~pool[s].active /\ \A u \in known : Sfx \in routed[u]
  BY <1>1 DEF Marked
<1>3. ~shadow'[s].active /\ \A u \in Slots \ {s} : shadow'[u] = shadow[u]
  BY <1>1 DEF Types
<1>4. \A u \in Slots \ {s} : shadow[u].active =>
        /\ ShadowOf(u) \in known /\ shadow[u].bus \in routed[ShadowOf(u)]
        /\ pool[u].active /\ pool[u].gen = shadow[u].gen
  BY <1>1 DEF Marked, Resetting
<1>5. Marked'
  <2>1. \A u \in Slots \ {s} : ShadowOf(u)' = ShadowOf(u)
    BY <1>3 DEF ShadowOf
  <2>2. \A u \in Slots : shadow'[u].active =>
          /\ ShadowOf(u)' \in known' /\ shadow'[u].bus \in routed'[ShadowOf(u)']
          /\ pool'[u].active /\ pool'[u].gen = shadow'[u].gen
    BY <1>1, <1>3, <1>4, <2>1
  <2> QED
    BY <1>1, <1>2, <2>2 DEF Marked, Idle, Resetting
<1>6. Live' = Live
  BY <1>1 DEF Live, Active, Id
<1>7. Keeps
  BY <1>1, <1>6 DEF Keeps
<1>8. \A u \in Live : BusIn(u)' = BusIn(u)
  <2>1. \A u \in Live : u.slot # s /\ u.slot \in Slots
    BY <1>1, <1>2, LiveIsReleasable DEF Releases
  <2> QED
    BY <1>3, <2>1 DEF BusIn, Routes
<1> QED
  BY <1>1, <1>5, <1>6, <1>7, <1>8, SameBuses

LEMMA RouteMoves ==
    ASSUME Threads = {Main}, Types, Marked, NEW v \in Held, NEW b \in Buses, Route(Main, v, b)
    PROVE  Marked' /\ Keeps /\ Map!Route(v, b)
<1>1. /\ v \in known /\ v.slot \in Slots /\ v = [slot |-> v.slot, gen |-> v.gen]
      /\ call[Main] = Idle /\ Routes(v) /\ shadow' = [shadow EXCEPT ![v.slot].bus = b]
      /\ routed' = [routed EXCEPT ![v] = @ \cup {b}] /\ routed \in [known -> SUBSET Buses]
      /\ UNCHANGED <<pull, pool, known, call>>
  BY LiveIsReleasable DEF Route, Types, Held, pooled
<1>2. /\ shadow'[v.slot].bus = b
      /\ \A u \in Slots : shadow'[u].active = shadow[u].active /\ shadow'[u].gen = shadow[u].gen
      /\ \A u \in Slots \ {v.slot} : shadow'[u] = shadow[u]
      /\ b \in routed'[v] /\ \A u \in known : routed[u] \subseteq routed'[u]
  BY <1>1 DEF Types
<1>3. \A u \in Slots : shadow[u].active =>
        /\ ShadowOf(u) \in known /\ shadow[u].bus \in routed[ShadowOf(u)]
        /\ pool[u].active /\ pool[u].gen = shadow[u].gen
  BY <1>1 DEF Marked, Idle, Resetting
<1>4. ShadowOf(v.slot) = v /\ \A u \in Slots : ShadowOf(u)' = ShadowOf(u)
  BY <1>1, <1>2 DEF ShadowOf, Routes
<1>5. Marked'
  <2>1. \A u \in Slots : shadow'[u].active =>
          /\ ShadowOf(u)' \in known' /\ shadow'[u].bus \in routed'[ShadowOf(u)']
          /\ pool'[u].active /\ pool'[u].gen = shadow'[u].gen
    BY <1>1, <1>2, <1>3, <1>4
  <2>2. \A u \in known' : Sfx \in routed'[u]
    BY <1>1, <1>2 DEF Marked
  <2> QED
    BY <1>1, <2>1, <2>2 DEF Marked, Idle, Resetting
<1>6. Live' = Live /\ v \in Live
  <2>1. Live' = Live
    BY <1>1 DEF Live, Active, Id
  <2>2. Releases(v)
    BY <1>1, <1>3 DEF Routes, Releases
  <2> QED
    BY <1>1, <2>1, <2>2, LiveIsReleasable
<1>7. Keeps
  BY <1>1, <1>2, <1>6 DEF Keeps
<1>8. Map!Route(v, b)
  <2>1. BusOf' = [u \in Live' |-> BusIn(u)']
    BY DEF BusOf, BusIn
  <2>2. BusIn(v)' = b
    BY <1>1, <1>2 DEF BusIn, Routes
  <2>3. \A u \in Live : u # v => u.slot # v.slot /\ u.slot \in Slots
    BY <1>1, <1>6, LiveIsReleasable DEF Releases
  <2>4. \A u \in Live : u # v => BusIn(u)' = BusIn(u)
    BY <1>2, <2>3 DEF BusIn, Routes
  <2>5. DOMAIN BusOf = Live /\ \A u \in Live : BusOf[u] = BusIn(u)
    BY BusOfIs
  <2>6. BusOf' = [BusOf EXCEPT ![v] = b]
    BY <1>6, <2>1, <2>2, <2>4, <2>5, BusOfIs
  <2> QED
    BY <1>1, <1>6, <2>5, <2>6 DEF Map!Route
<1> QED
  BY <1>5, <1>7, <1>8

LEMMA ClearMoves ==
    ASSUME Threads = {Main}, Types, Marked,
           ClearVoices("clearing", "resetting") \/ ClearVoices("starting", "routing")
    PROVE  Marked' /\ Keeps /\ Map!Silence
<1>1. /\ pool' = Cleared /\ UNCHANGED <<pull, shadow, known, routed>>
      /\ call'[Main].op \in {"resetting", "routing"}
  BY ThreadAssumption DEF ClearVoices, Types, heardOf
<1>2. \A s \in Slots : ~pool'[s].active
  BY <1>1 DEF Cleared, Types, VoiceState
<1>3. Active' = {} /\ Live' = {}
  BY <1>2 DEF Active, Live
<1>4. Marked'
  <2>1. Resetting'
    BY <1>1 DEF Resetting
  <2>2. \A u \in Slots : ShadowOf(u)' = ShadowOf(u)
    BY <1>1 DEF ShadowOf
  <2>3. \A u \in Slots : shadow'[u].active => ShadowOf(u)' \in known' /\ shadow'[u].bus \in routed'[ShadowOf(u)']
    BY <1>1, <2>2 DEF Marked
  <2>4. \A u \in known' : Sfx \in routed'[u]
    BY <1>1 DEF Marked
  <2> QED
    BY <1>1, <1>3, <2>1, <2>3, <2>4 DEF Marked
<1>5. Keeps
  BY <1>1, <1>3 DEF Keeps
<1>6. BusOf' = [u \in {} |-> Sfx]
  <2>1. BusOf' = [u \in Live' |-> BusIn(u)']
    BY DEF BusOf, BusIn
  <2> QED
    BY <1>3, <2>1
<1> QED
  BY <1>1, <1>4, <1>5, <1>6 DEF Map!Silence

LEMMA ResetMoves ==
    ASSUME Threads = {Main}, Types, Marked, StopResets \/ StartResets
    PROVE  Marked' /\ Keeps /\ UNCHANGED <<BusOf, known>>
<1>1. /\ shadow' = Reset /\ UNCHANGED <<pull, pool, known, routed>> /\ Resetting
      /\ call'[Main].op \in {"idle", "opening"}
  BY ThreadAssumption DEF StopResets, StartResets, Types, pooled, Resetting, Idle
<1>2. \A s \in Slots : ~shadow'[s].active
  BY <1>1 DEF Reset, Dead
<1>3. Active = {} /\ \A u \in known : Sfx \in routed[u]
  BY <1>1 DEF Marked
<1>4. Marked'
  BY <1>1, <1>2, <1>3 DEF Marked, Resetting
<1>5. Live = {} /\ Live' = {}
  BY <1>1, <1>3 DEF Live, Active
<1>6. Keeps
  BY <1>1, <1>5 DEF Keeps
<1> QED
  BY <1>1, <1>4, <1>5, <1>6, SameBuses

\* What the steps of the game do to the buses of the voices.
Moves == Map!Next \/ UNCHANGED <<BusOf, known>>

LEMMA Moving ==
    ASSUME MaxPlays <= GenMax, Threads = {Main}, Types, Turns, Marked, Game
    PROVE  Still \/ (Marked' /\ Keeps /\ Moves)
<1>1. ASSUME NEW t \in Threads, Play(t) PROVE Marked' /\ Keeps /\ Moves
  <2>1. Play(Main)
    BY <1>1
  <2>2. PICK v \in Voice : Map!Play(v)
    BY <2>1, PlayMoves
  <2> QED
    BY <2>1, <2>2, PlayMoves DEF Moves, Map!Next, Voice
<1>2. ASSUME NEW t \in Threads, PlayMarks(t) PROVE Marked' /\ Keeps /\ Moves
  <2>1. PlayMarks(Main)
    BY <1>2
  <2> QED
    BY <2>1, PlayMarksMoves DEF Moves
<1>3. ASSUME NEW t \in Threads, StopMarks(t) PROVE Marked' /\ Keeps /\ Moves
  <2>1. StopMarks(Main)
    BY <1>3
  <2> QED
    BY <2>1, StopMarksMoves DEF Moves
<1>v. Held \subseteq Voice
  BY DEF Held, Types
<1>4. ASSUME NEW t \in Threads, NEW v \in Held, StopVoice(t, v) PROVE Marked' /\ Keeps /\ Moves
  <2>1. StopVoice(Main, v)
    BY <1>4
  <2> QED
    BY <1>v, <2>1, StopMoves DEF Moves, Map!Next, Voice
<1>5. ASSUME NEW t \in Threads, NEW v \in Held, NEW b \in Buses, Route(t, v, b)
      PROVE  Marked' /\ Keeps /\ Moves
  <2>1. Route(Main, v, b)
    BY <1>5
  <2> QED
    BY <1>v, <2>1, RouteMoves DEF Moves, Map!Next, Voice
<1>6. ASSUME ClearVoices("clearing", "resetting") \/ ClearVoices("starting", "routing")
      PROVE  Marked' /\ Keeps /\ Moves
  BY <1>6, ClearMoves DEF Moves, Map!Next
<1>7. ASSUME StopResets \/ StartResets PROVE Marked' /\ Keeps /\ Moves
  BY <1>7, ResetMoves DEF Moves
<1>8. ASSUME RegisterClip \/ ClearClips \/ StopEngine \/ ShutDevice \/ StartEngine \/ OpenDevice \/ StartRuns
      PROVE  Still
  BY <1>8, StillSteps
<1> QED
  BY <1>1, <1>2, <1>3, <1>4, <1>5, <1>6, <1>7, <1>8 DEF Game

LEMMA OnItsBusKept ==
    ASSUME MaxPlays <= GenMax, Threads = {Main}, Types, Turns, Marked, OnItsBus, [Next]_vars
    PROVE  OnItsBus'
<1>0. pull.at = "mixing" =>
        /\ DOMAIN pull.bus = DOMAIN pull.voices /\ pull.bus \in [DOMAIN pull.voices -> Buses]
        /\ \A s \in DOMAIN pull.voices : s \in Slots /\ Copy(s) \in known /\ Copy(s).slot = s
  BY PullTypes DEF Types, PullType
<1>1. ASSUME Keeps PROVE OnItsBus'
  <2>1. \A s : Copy(s)' = Copy(s)
    BY <1>1 DEF Keeps, Copy
  <2> QED
    BY <1>0, <1>1, <2>1 DEF Keeps, OnItsBus
<1>2. ASSUME Still PROVE Live' = Live /\ routed' = routed
  <2>1. \A s \in Active : Id(s)' = Id(s)
    BY <1>2 DEF Still, Id, Active
  <2> QED
    BY <1>2, <2>1 DEF Still, Live
<1>3. ASSUME Still, pull' = pull PROVE OnItsBus'
  BY <1>1, <1>2, <1>3 DEF Keeps
<1>4. ASSUME Game PROVE OnItsBus'
  <2>1. pull' = pull
    BY <1>4 DEF Game, Play, PlayMarks, StopMarks, StopVoice, Route, RegisterClip, ClearClips, StopEngine,
       ShutDevice, ClearVoices, StopResets, StartEngine, StartResets, OpenDevice, StartRuns
  <2> QED
    BY <1>1, <1>3, <1>4, <2>1, Moving
<1>5. ASSUME PullBegins \/ PullSnapshots \/ PullAdvances PROVE OnItsBus'
  <2>1. pull'.at # "mixing"
    BY <1>5 DEF PullBegins, PullSnapshots, PullAdvances, Quiet
  <2> QED
    BY <2>1 DEF OnItsBus
<1>6. ASSUME PullResolves PROVE OnItsBus'
  <2>1. pull'.todo = DOMAIN pull'.bus
    BY <1>6 DEF PullResolves
  <2> QED
    BY <2>1 DEF OnItsBus
<1>7. ASSUME PullMixes PROVE OnItsBus'
  <2>1. pull.at = "mixing" /\ Live' = Live /\ routed' = routed
    BY <1>2, <1>7, MixesOne, StillSteps DEF Audio
  <2>2. PICK s \in pull.todo : Mixes(s)
    BY <1>7, MixesOne
  <2>3. /\ pull'.at = "mixing" /\ pull'.todo = pull.todo \ {s} /\ pull'.voices = pull.voices
        /\ pull'.bus = [pull.bus EXCEPT ![s] = SlotBus(s)]
    BY <2>2 DEF Mixes
  <2>4. \A u : Copy(u)' = Copy(u)
    BY <2>3 DEF Copy
  <2>5. Copy(s) \in Live => SlotBus(s) \in routed[Copy(s)]
    <3> SUFFICES ASSUME Copy(s) \in Live PROVE SlotBus(s) \in routed[Copy(s)]
      OBVIOUS
    <3>1. s \in Slots /\ Copy(s) \in known /\ Copy(s).slot = s /\ Copy(s) = [slot |-> s, gen |-> Copy(s).gen]
      BY <2>2 DEF Mixes, Copy
    <3>2. pool[s].active /\ pool[s].gen = Copy(s).gen
      BY <3>1, LiveIsReleasable DEF Releases
    <3>3. CASE ~shadow[s].active
      BY <3>1, <3>3 DEF SlotBus, Marked
    <3>4. CASE shadow[s].active
      <4>1. pool[s].gen = shadow[s].gen
        BY <3>1, <3>2, <3>4 DEF Marked, Active
      <4>2. ShadowOf(s) = Copy(s)
        BY <3>1, <3>2, <4>1 DEF ShadowOf
      <4> QED
        BY <3>1, <3>4, <4>2 DEF SlotBus, Marked
    <3> QED
      BY <3>3, <3>4
  <2> QED
    BY <1>0, <2>1, <2>2, <2>3, <2>4, <2>5 DEF OnItsBus, Mixes
<1>8. ASSUME UNCHANGED vars PROVE OnItsBus'
  BY <1>3, <1>8, StillSteps DEF vars
<1> QED
  BY <1>4, <1>5, <1>6, <1>7, <1>8 DEF Next, Audio

LEMMA MarkedKept ==
    ASSUME MaxPlays <= GenMax, Threads = {Main}, Types, Turns, Marked, [Next]_vars
    PROVE  Marked' /\ Moves
<1>1. ASSUME Still PROVE Marked' /\ Moves
  <2>1. Live' = Live
    <3>1. \A s \in Active : Id(s)' = Id(s)
      BY <1>1 DEF Still, Id, Active
    <3> QED
      BY <1>1, <3>1 DEF Still, Live
  <2>2. \A v : BusIn(v)' = BusIn(v)
    BY <1>1 DEF Still, BusIn, Routes
  <2> QED
    BY <1>1, <2>1, <2>2, SameBuses, MarkedStill DEF Moves, Still
<1>2. Game => Still \/ (Marked' /\ Moves)
  BY Moving
<1>3. Audio \/ UNCHANGED vars => Still
  BY StillSteps
<1> QED
  BY <1>1, <1>2, <1>3 DEF Next

Whole == Types /\ Pulling /\ Counted /\ Turns /\ Marked /\ OnItsBus

LEMMA WholeHolds ==
    ASSUME MaxPlays <= GenMax, Threads = {Main}
    PROVE  Spec => []Whole
<1>1. Init => Whole
  <2>1. Init => Marked /\ OnItsBus
    BY ThreadAssumption DEF Init, Marked, OnItsBus, Dead, Idle, Quiet, Resetting
  <2> QED
    BY <2>1, InitTyped, InitPulls, InitTurns DEF Whole
<1>2. Whole /\ [Next]_vars => Whole'
  BY NextTyped, PullingKept, CountedKept, TurnsKept, MarkedKept, OnItsBusKept DEF Whole
<1> QED
  BY <1>1, <1>2, PTL DEF Spec

\* With one game thread, a voice that plays throughout a pull is mixed into a bus it
\* was routed to, or the default one.
THEOREM OnOneOfItsBusesEver ==
    ASSUME MaxPlays <= GenMax, Threads = {Main}
    PROVE  Spec => []OnOneOfItsBuses
<1>1. Whole /\ TypeOK => OnOneOfItsBuses
  BY DEF Whole, OnItsBus, OnOneOfItsBuses
<1> QED
  BY <1>1, WholeHolds, TypesKept, PTL

\* With one game thread, the engine implements VoiceMap.
THEOREM VoiceMapImplemented ==
    ASSUME MaxPlays <= GenMax, Threads = {Main}
    PROVE  Spec => ImplementsVoiceMap
<1>1. Init => Map!Init
  <2> SUFFICES ASSUME Init PROVE Map!Init
    OBVIOUS
  <2>1. Live = {} /\ known = {}
    BY DEF Init, Live, Active
  <2>2. BusOf = [v \in {} |-> Sfx]
    BY <2>1, BusOfIs
  <2> QED
    BY <2>1, <2>2 DEF Map!Init
<1>2. Whole /\ [Next]_vars => [Map!Next]_(Map!vars)
  BY MarkedKept DEF Whole, Moves, Map!vars
<1> QED
  BY <1>1, <1>2, WholeHolds, PTL DEF Spec, ImplementsVoiceMap, Map!Spec
=============================================================================
