# Psynder-GX: specifications, model checks and proofs

Psynder-GX is a C++ game engine. This directory holds TLA+ modules for the parts
of it whose correctness depends on the order of events, the TLC configurations
that check them on small instances, and TLAPS proofs about them for every
instance. `PROJECT.json` lists the components, the runs, the source lines each
definition models, the mutants each property is tested with, the findings, the
hazards and the theorems.

## 1. What is in the repository, and what is modelled

| Component | State | Operations | Modelled |
|---|---|---|---|
| work-stealing deque (`engine/jobs/ChaseLevDeque.h`) | `top_`, `bottom_`, ring | push, pop by the owner; steal by others | `ChaseLev`, `WorkDeque` |
| scheduler (`engine/jobs/Scheduler.cpp`) | job slots, deques, two injection queues, resumable and free fibers, per-worker `pending`, counters | submit with dependency, wait, parallel_for, stop, worker loops | `Scheduler` |
| job facade, fibers, topology (`engine/jobs`) | none of its own beyond a counter | forward, switch stacks, choose pools | context of `Scheduler` |
| reliable channel (`net/HostImpl`, `Reliability`, `Loopback`) | per peer: ring of in-flight frames, ack history, reorder buffer, cursor; inbox; owed acks | connect, send, poll, tick, on_datagram | `ReliableLink`, `FifoChannel` |
| replication (`net/ReplicationSession`, `Prediction.h`, `SnapshotReplication.h`) | authoritative world and its recent past, client predictions, input rings and baselines, two message queues | advance: predict, apply, rewind and test shots, snapshot, reconcile | `Replication` |
| match (`match/MatchSession`; `gameplay/Damage`, `MatchRules`) | health, the dead and their timers, scores, spawns, the phase machine | advance, on top of replication | `Match` |
| ECS world (`scene/World`, `CommandBuffer`) | entity records, free list, archetypes and chunks; deferred commands | create, destroy, add, remove, get, query; record, playback, clear | `World`, `ChunkLayout`, `EntityStore` |
| editor IPC server (`editor/ipc/Server`) | clients, two queues, an I/O thread | start, stop, pump, broadcast; accept, upgrade, frames, close | `IpcServer` |
| GPU frame loop (`gpu/vk/VulkanBackend`, `gpu/Device`, `gpu/Handle`) | slots with their fences and pools, swapchain, queue of resources to destroy, watermark | begin_frame, cmd_submit, end_frame, resize_swapchain, destroy_resource, shutdown | `GpuFrames` |
| audio voices (`audio/Audio`, `audio/BusApi`, `audio/AudioClip`, `MixerCore.h`) | voice pool under a lock, lock-free shadow of its buses, clip registry, running flag | play, stop_voice, route_voice_to_bus, register and clear clips, start, stop; mixer_pull on the audio thread | `AudioVoices`, `VoiceMap` |
| log sinks and flight recorder (`core/Log`, `core/FlightRecorder`) | immutable list of sinks, ring of retired lists; ring of events with sequence numbers | add_sink, remove_sink, remove_all_sinks, emit; record, dump | `LogSinks`, `SinkRegistry`, `FlightRecorder` |
| lockstep, fragments, sequence buffer, snapshot streams, rate control, codecs, voice, demo, dedicated server (`net`) | buckets, rings, filters, byte buffers, sockets | containers, arithmetic, IO | no |
| virtual file system (`asset/Vfs`) | mounts, watchers and their thread | lookups; watch, poll | no |
| audio effects, camera, physics, ai, gpu pipelines and uploads, render, shader, ui, world, script, math, simd, platform, console, apps, tools | simulation, rendering, data processing | sequential, mostly floating point | no |

How the parts interact: everything that runs in parallel goes through
`JobSystem`, which forwards to the scheduler; the scheduler's workers own one
`ChaseLevDeque` each and steal from the others'. `net::Host` runs on the main
thread: the application calls `send` and, once a frame, `poll`, which also
ticks; datagrams reach the other host by a direct call through `LoopbackBus`.
`MatchSession` drives `ReplicationSession`, mirrors its positions into the ECS
world and applies the hits it reports there. The IPC server shares two queues
with the engine thread, which broadcasts to the panels and pumps what they send.
The render thread drives the frame loop, and any thread may drop the last handle
of what the GPU still uses. Game threads talk to the audio thread through the
voice pool, its shadow and the clip registry. Every thread logs; the flight
recorder is a sink of the log, and a dump reads its ring under the writers.

What is hard to get right, per modelled part:

- **deque**: relaxed stores and three fences, the race for the last item, thieves
  holding a slot value across a lap of the ring;
- **scheduler**: lock-free lists closed by the finishing job while others push,
  fibers that must be published neither too early nor twice, stale `thread_local`
  values after a migration, stop with jobs in flight, reuse of job slots;
- **reliable channel**: loss of frames and of acks, retransmission and reordering
  (a retransmission is overtaken by later frames), two different windows (64
  frames in the sender's ring, 33 in an ack), several notions of "duplicate";
- **ECS**: swap-removal moves rows of entities nobody named, handles outlive
  entities, memory for a chunk may be missing half-way, deferred commands name
  entities that do not exist yet, a query walks what calls would move;
- **replication and match**: three clocks a latency apart (client, server, and
  the past a shot is tested in), two baselines that must not part, hits that
  arrive after what they were aimed at has changed;
- **IPC server**: an I/O thread in rounds, broadcasts and stop racing each other,
  upgrades in the middle of broadcasts, several frames or part of one per read;
- **frame loop**: fences, semaphores and pools of several frames in flight that
  skipped frames, failed acquires and rebuilt swapchains must leave paired;
  resources dropped on other threads, which read the frame index without a lock;
- **audio**: a slot is stopped, given out and routed again while a pull mixes
  from its copy of it; two representations of one voice with a lock on one only;
- **log**: lists freed by writers under walkers that announce themselves to
  nobody, addresses that come back, a ring read while it is written.

`hazards` in `PROJECT.json` names each hazard at its line; those without a
property say why.

## 2. Modules

| Module | Role |
|---|---|
| `WorkDeque` | abstract: a bounded double-ended queue from which each item leaves once |
| `ChaseLev` | the deque, access by access, under its memory orders; implements `WorkDeque` |
| `ChaseLevProofs` | theorems about `ChaseLev` |
| `Scheduler` | the scheduler over atomic deques of that kind, both backends |
| `SchedulerInv` | its inductive invariant, in named parts |
| `SchedulerLemmas` | lemmas: what each kind of step does to each part |
| `SchedulerProofs` | one lemma per action, and the theorems about `Scheduler` |
| `FifoChannel` | abstract: an in-order channel without duplicates |
| `ReliableLink` | two hosts and a lossy bus; implements `FifoChannel` |
| `EntityStore` | abstract: a map from handles to components |
| `World` | the ECS, row by row, with the command buffer; implements `EntityStore` |
| `ChunkLayout` | the byte layout of a chunk; gives `World` its `Capacity` in the run |
| `WorldProofs` | theorems about `World` |
| `Replication` | one tick of the replication loop as operators and an action |
| `Match` | EXTENDS `Replication`: one advance of a match, with the rules it drives |
| `NetProofs` | theorems about `ReliableLink`, and about `Replication` and `Match` |
| `IpcServer` | the editor's server, its threads and its panels |
| `IpcServerProofs` | theorems about `IpcServer` |
| `GpuFrames` | the frame loop, the GPU and the display, and handles dropped anywhere |
| `VoiceMap` | abstract: voices with fresh identifiers, each on a bus |
| `AudioVoices` | game threads and the audio thread, lock by lock; implements `VoiceMap` |
| `AudioVoicesProofs` | theorems about `AudioVoices` |
| `SinkRegistry` | abstract: one list of sinks that changes at once |
| `LogSinks` | the lists, the writers and the walkers; implements `SinkRegistry` |
| `FlightRecorder` | EXTENDS `LogSinks`: the recorder, as a sink and called directly, and its dump |
| `ReclaimProofs` | theorems about `LogSinks` and `FlightRecorder`, and about `GpuFrames`: what is freed while others may use it |
| `MCChaseLev`, `MCScheduler`, `MCReliableLink`, `MCWorld`, `MCMatch`, `MCIpc`, `MCGpuFrames`, `MCAudio`, `MCFlightRecorder` | instances for TLC |

### 2.1 ChaseLev

An action is one access to a shared atomic. `top_` changes only by
compare-and-swap and is a plain variable. The owner's stores to `bottom_` and to
the slots are relaxed: they wait in `pending` and reach memory (`mem`) in any
order that respects earlier release fences and earlier stores to the same
location. The owner sees its own latest store (`own`), thieves see memory. pop's
sequentially consistent fence is the guard that `pending` be empty. Loads by
thieves take effect in program order: their first load is an acquire, a
sequentially consistent fence follows it, the second load is an acquire too.

| Code | Actions |
|---|---|
| `push` | `PushFull`; `PushLoad`, `PushStore` |
| `pop` | `PopReserve`; `PopLast`, `PopEmpty`, or `PopRace` with `PopCasWon`/`PopCasLost` |
| `steal` | `StealLoadTop`, `StealLoadBottom`, `StealLoadSlot`, `StealCas` |
| store buffer | `Reach`, `FencePassed` |

### 2.2 Scheduler

What jobs do is a *program*: for each job a sequence of calls `submit`, `wait`,
`parallel_for`, `stop`. A thread runs one stack, its own or a fiber's (`on`); a
stack is a sequence of frames, one per call in progress; an action is one access
to shared state by the topmost call. So wait-helping, which runs a job on the
stack of the one that waits, and parking, which leaves a stack and resumes it on
another worker, are both what they are in the code.

| Code | Actions |
|---|---|
| `sched_submit`, `alloc_job`, `push_dependent` | `DoSubmit`, `AllocRoom`/`AllocHelp`, `AllocTake`, `SubmitCheck`, `SubmitLink`, `SubmitReady` |
| `sched_wait`, `help_until` | `WaitOver`, `WaitPark`, `WaitHelp`; `HelpCheck`, `HelpTake`, `HelpYield` |
| `sched_parallel_for` | `DoParFor`, `ParForChunk`, `ParForHelp` |
| `execute_job`, `finish_job` | `BodyEnds`, `FinishClose`, `FinishEnqueue`, `FinishShut`, `FinishResume`, `FinishGroup`, `FinishLive` |
| `fiber_sched_loop`, `thread_sched_loop`, `handle_pending` | `Resume`, `StartInFiber`, `StartInline`, `Recycle`, `Park`, `WorkerExit` |
| `sched_stop` | `DoStop`, `Joined` |

Abstractions, each on the side of the code:

- The deques are atomic, as `ChaseLev` implementing `WorkDeque` justifies for the
  calls of one owner. They are sequentially consistent here, like the other
  shared words. A pop by another thread than the owner, which finding 2 shows, may
  also leave the item it took, or wipe out one that the owner has just pushed
  (`Popped`): the code gives no better guarantee.
- The order in which `try_get_job` looks at the queues of others is free: the
  victim is random, and a queue may fill after it was looked at.
- `is_complete` (two loads), the stores of `alloc_job` to its slot, and a
  successful push on a list (load, link, compare-and-swap, repeated on failure)
  are one action each. The time between `is_complete` and the push is kept: it is
  there that a slot may become another job's.
- `idle_wait` is left out. It ends after 300 microseconds at the latest, so it
  delays and cannot block. For the same reason `wake_one_worker` is left out.
- `parallel_for` submits two or more chunks; with one it calls the body inline,
  which is no interaction with the scheduler.
- `sched_start` gives the initial state; a restart after `stop` is not modelled,
  nor is a failing `fiber_for_thread`. Running out of fibers is.
- `AllocTake` takes the next slot of the ring and looks at nothing, as the code:
  `alloc_job` has tested only that fewer jobs are live than there are slots. `Spec`
  is the scheduler with it. The head comment of `Scheduler.cpp` (lines 22-25)
  assumes of its callers that the ring never comes round to a slot whose job is in
  flight, which is until its `finish_job` has ended. `StaysAhead` says that of a
  step; `SpecAhead`, which the runs take, is the scheduler under programs that keep
  to it (`NextAhead` has the guard `RingAhead` before `AllocTake`), and the theorems
  assume `[][StaysAhead]_vars`. Section 4 says why the test of `alloc_job` is not
  enough for it.
- A program is `WellFormed`: a job is submitted in one place and names only jobs
  whose handles it has (it submitted them, or whoever submits it was given them),
  as a C++ caller can only do; `main` calls `stop`, last. It is `Unmixed` if, on
  fibers, its jobs do not both `wait` and `parallel_for`: then no fiber parks inside
  the helping loop of a `parallel_for`, and who pops is who owns the deque. The
  theorems are about these programs.

### 2.3 ReliableLink

The bus delivers a datagram inside the call that sends it, or drops it, and
handling a datagram never sends one. So an action is a call into one host
together with everything its datagram does at the other: the piggy-backed ack,
the history, the reorder buffer, the inbox, the owed ack. `tick` sends several
datagrams, each with its own fate, so it is a sequence of steps during which
nothing else happens (`ticking`).

| Code | Definitions |
|---|---|
| `Reliability::enqueue`, `apply_ack`, `collect_retransmits`, `mark_transmitted` | `Enqueued`, `AfterAck` (`Newly`, `Retire`), `Expired`, `Marked` |
| `AckTracker::observe`, `snapshot` | `IsNew`, `Observed`, `Shifted`; the ack pair of `DataFrame`, `Bare` |
| `HostImpl::on_datagram`, `handle_reliable_in_`, `drain_ooo_` | `Arrives`, `HandleReliable`, `Surface`, `Buffered`, `Run` |
| `connect`, `send`, `poll`, `tick` | `Connect`, `Send`, `SendUnreliable`, `Poll`, `TickBegin`, `TickResend`, `TickAck`, `TickEnd` |
| `LoopbackBus::send_to` and its loss policy | `Transmit` with `arrives` |

Constants stand for `kSendWindow` (64), the 32 ack bits and `kDefaultRtoTicks`.
`MaxSpan` bounds the application, not the code: it sends only while its oldest
unacknowledged frame is less than `MaxSpan` behind. The absolute tick is
abstracted to the age of each frame. A `send` that the full window refuses
changes nothing and is not a step. A payload is assumed to fit a datagram (1500
bytes): `send` accepts a longer one into the window, and `send_raw_` then returns
without a word every time it is to be sent (`HostImpl.cpp:79`), so for the fairness
of the network it would be a message that is always lost. Left out: stop and
restart, more than one peer, the channel number, the 32-bit wrap of sequence
numbers.

### 2.4 World

One thread drives a world, so an action is one call. A query is one step per
chunk it hands to its callback, and playback one step per command, because the
properties speak of the states in between. A chunk is a sequence of rows, a row
an entity and a function from its components to data; every record has the
archetype, chunk and row of its entity, as in the code. `memory` is the outcome
of allocating a chunk when a call needs one.

| Code | Definitions |
|---|---|
| `append_entity`, `allocate_chunk` | `Room`, `NeedsChunk`, `NewRow`, `Appended` |
| `erase_entity_at` | `SwapRemoved`, `Erased`, `FollowMoved` |
| `migrate`, `get_or_create_archetype` | `Migrate`, `WithArchetype` |
| `create`, `destroy`, `add_component`, `remove_component`, a write through `get` | `CreateEntity`, `DestroyEntity`, `AddComponent`, `RemoveComponent`, `Overwrite`; the calls are `Create`, `Destroy`, `Add`, `Remove`, `Write` |
| `query_chunks` | `BeginQuery`, `VisitChunk`, `EndQuery`, with `Ahead` for what is still to come |
| `CommandBuffer` | `RecordCreate`, `RecordDestroy`, `RecordAdd`, `RecordRemove`, `Clear`, `BeginPlayback`, `PlayCommand`, `EndPlayback`, `Resolve` |

Calls take any handle ever issued, so stale ones too. Structural calls inside a
query are excluded (`Outside`): `PSY_WORLD_NO_ITERATION` forbids them, though
only by an assertion. `ChunkLayout` is arithmetic: `build_layout` from the
estimated row count down to the first that fits.

### 2.5 Replication and Match

One tick of `ReplicationSession::advance` is one action: clients stamp, record,
predict and send; the server applies what is due, tests shots in the world it
rewinds to, remembers its world and sends snapshots; clients apply what is due
and reconcile. The two channels keep their order and lose nothing, as the
queues of the code.

`advance` makes one input of each client, one world and one snapshot for each
client in every tick, and a message arrives a fixed number of ticks later. So the
containers of the code that keep entries in the order of their ticks are maps
from ticks: the input rings and `history_` from the ticks of their entries, the
two queues from the tick of delivery. `After` drops what is too old for a ring
or the window, and what has been delivered.

`Match` adds what `MatchSession::advance` does around it, in
its order: mirror, hits, respawns, phase machine. A position is a number, a
shot an offset that hits whoever stands there in the rewound world: geometry is
abstracted, the tick in which it is evaluated is not.

`MatchSession` always sees the whole world and takes its latency once. The
sessions with a small radius are `ReplicationSession`'s other path, in which a
snapshot is a whole area of interest instead of a delta.

### 2.6 IpcServer

The I/O thread's round is two actions: `IoRound` (reap, read `running`, select,
accept) and `IoServe` (take the broadcasts, serve each client in order). Between
them other threads queue, stop and pump, and panels connect, send and vanish.
Items on the wire are requests and frames; a read returns all that has come, and
what comes later is what a read had cut off. `broadcast` is two actions, the test
of `running` and the queueing; `stop` is two, the flag and what follows the
join. Upgrade requests of panels are external: a client of the server, modelled
from what `try_handshake` and the frame loop accept.

The properties are told by what was read of a panel (`ReadOf`), up to the item
after which the server listens no more: its goodbye, or the request it refused
(`Talk`). `DataOf` is the messages in it, for the callback, and `Owed` the answers
it is to get, one for each request, ping and goodbye.

`start` always succeeds in the model. Its failures (no socket, the port taken for
80 attempts, `listen`, `Server.cpp:619-668`) close the socket and return before
there is a thread or any other state.

### 2.7 GpuFrames

`pc` is where the render thread is; each Vulkan call that may block is a step.
The GPU retires submissions in the order of the queue, the display executes
presents when their semaphore is signalled, the window changes at any moment.
These three are external and modelled by what the backend relies on.

| Code | Actions |
|---|---|
| `begin_frame` | `BeginFrame`, `FenceWaited`; `Acquire`, `AcquireOutOfDate`, `AcquireFails` |
| `cmd_submit`, `end_frame` | `Submit`, `SubmitFails`; `EndFrame`, `EndFrameLost`, `EndFrameSkipped` |
| `resize_swapchain`, `create_swapchain_` | `AppResize`, `ResizeCheck`, `TearDown`, `Rebuild` |
| create, bind, `~Handle`, `destroy_resource`, `reclaim_retired_` | `Create`, `Bind`, `DropLast`, `Enqueue`; `Reclaimed` |
| `destroy_device` | `Shutdown`, `Down` |

A resource is a model value; a submission is known by its frame, slot and
semaphore and by what it uses. Who drops a handle has read a frame index at some
moment since it last used the resource. `Faults` says what may go wrong: a lost
device, a failing submission, a failing rebuild, a failing query of the surface's
extent, a surface that becomes stale at its size, a failing `vkBeginCommandBuffer`,
a failing `vkWaitForFences`. The run takes all of them but the last two: for those
the code does not keep what the properties say (section 4).

### 2.8 AudioVoices

A step is what happens under one hold of a lock, or one operation on a slot of
the lock-free shadow. The pull of the audio thread is five of them: see whether
the engine runs, copy the active voices, resolve their clips, mix (and look up
the bus of each slot), advance the cursors. `play` and `stop_voice` are two each:
the pool under its lock, then the mark in the shadow. A block of samples is a
unit, and `heard` counts those rendered of a voice.

`ShutDevice` waits for a pull in progress. That is an assumption about platform
code: `backend_shutdown` itself (`Backend.cpp:143-151`) waits for nothing, the
Windows implementation stops its device and joins the thread that pulls, and where
no platform defines the hooks nothing pulls.

| Code | Actions |
|---|---|
| `Engine::play`, `stop_voice`, `route_voice_to_bus` | `Play`, `PlayMarks`; `StopVoice`, `StopMarks`; `Route` |
| `register_clip`, `clear_clip_registry` | `RegisterClip`, `ClearClips` |
| `Engine::stop` | `StopEngine`, `ShutDevice`, `ClearVoices`, `StopResets` |
| `Engine::start` | `StartEngine`, `ClearVoices`, `StartResets`, `OpenDevice`, `StartRuns` |
| `mixer_pull` | `PullBegins`, `PullSnapshots`, `PullResolves`, `PullMixes`, `PullAdvances` |

### 2.9 LogSinks and FlightRecorder

A list of sinks lives at an address, and allocation takes any free one: that of
a list just freed among them. A writer
loads the list, fills a copy and swaps it in; a walker calls one sink per step.
`age` counts the retirements since a call has loaded its list. The bound, in the
guard of `Retire`, is that no call overlaps more than `Depth` of them: nothing in
the code enforces it, the comment at `Log.cpp:65` trusts to it.

| Code | Actions |
|---|---|
| `add_sink`, `remove_sink`, `remove_all_sinks` | `Update`, `Build`, `Swap`; `RemoveAll`; `Retire`, `RetireNothing` |
| `emit` | `Emit`, `SinkReturns`, `WalkEnds` |
| `FlightRecorder::record` | `TakeTicket`, `WritePart`, `RecordReturns` |
| `dump`, `dump_to_file`, `read_event` | `DumpBegin`, `DumpLook`, `DumpRead`, `DumpNext`, `DumpEnds` |

`FlightRecorder` adds the recorder, which the walk calls when it comes to its
tap and threads call directly. The parts of a slot are plain memory: they are
written in any order before the number (a release store), and a dump reads them
and the second number in any order after the first (an acquire load does not
keep earlier loads from coming later). The bound in `TakeTicket` is that no
recorder is held up for a whole lap of the ring: one that is may put an old
number over a newer event.

`read_event` looks at the number of the slot again after it has copied the parts
(`FlightRecorder.cpp:169`). The model has the second look, but no property rests on
it. A writer of a later lap changes the parts before the number, so a copy that
mixes two events may find the same number twice, and the load may take effect
before the copy anyway. `DumpIsFaithful` is about events that no record of a later
lap has begun to overwrite, and for those the first look is enough.

## 3. Runs

| Run | Bounds | Result |
|---|---|---|
| `chase_lev` | 2 slots, 2 thieves, 4 pushes | passes |
| `reliable` | window 3, 2 ack bits, 4 messages one way, any loss, span at most the window, fairness | passes |
| `sched` | 2 workers in two pools and main, 4 slots, deque of 1, 2 fibers, 5 programs on threads and 4 on fibers, those that keep to `StaysAhead`, fairness | passes |
| `ecs` | 2 slots in the table, 2 components, chunks of 1 or 2 rows, 3 entities created or commands recorded in total | passes |
| `match` | 2 players, 5 sessions (latency 0, 1, 2; all or part in sight), 8 ticks | passes |
| `ipc` | a panel with 5 items (request, ping, message, goodbye, a message after it), a stranger, 2 broadcasts, 2 sessions | passes |
| `gpu` | 2 frames in flight, 3 images, 1 resource, 3 calls of `begin_frame`, 2 window events, 5 kinds of failure, fairness | passes |
| `audio` | 2 voice slots, 3 plays, 2 pulls, 2 buses, 1 clip slot, 1 restart of the engine | passes |
| `log` | 2 threads, 2 sinks, 3 calls of the log, a ring of 1 retired list, 3 events in a ring of 2, 1 dump | passes |
| `reliable_overwrite` | window 3, 1 ack bit, span unbounded | finding |
| `sched_fiber_owner` | one pool, fiber backend, `parallel_for` in one job and `wait` in another | finding |
| `audio_race` | 2 game threads, 2 plays | finding |

Why the bounds suffice. In `chase_lev` four pushes go twice round the ring, so a
thief can hold a value while its slot is reused, and two thieves can compete with
each other and with the owner. In `reliable` four messages pass a window of three
and an ack range of three, so slots are reused, frames fall out of the history,
and the reorder buffer holds more than one; the acks that go the other way ride
on unreliable messages or are sent bare, and data in both directions is covered
by the theorems. In `sched` a deque of one forces spilling, four slots for the
five jobs of one program force reuse of slots while handles to their former jobs
are around, also between the check of a dependency and the push on its list, and
the nine programs bring a dependency under completion, nested waits on both pools, a
shared wait, nested `parallel_for`, and `stop` with jobs queued and linked. In
`ecs` a third create reuses a slot whose old handle is still passed to calls,
rows of a chunk of two are swapped, an archetype gets a second chunk, and a
command buffer names an entity created in the same playback. `MaxWork` bounds
the entities created and the commands recorded, together; the chunk sizes come
from `ChunkLayout` with sizes for which alignment costs the widest archetype a
row. In `match` eight ticks are a warmup, a match decided by frags or time, an
intermission and the next warmup with a respawn on the way; the window of the
past is the round trip and one (`HistorySlack` 1 for the code's 8), so that it
holds one world beyond those a shot can be tested in. In `ipc` two
sessions show what one leaves to the next, and a panel that sends four frames
after its request, the last of them after its goodbye, has them read in every
grouping. In `gpu` a third frame comes
round to the first slot, with an image more than there are slots, and two events
minimize the window and bring it back. In `audio` three plays on two slots reuse
one while the audio thread holds a copy of its former voice, over two pulls and
a restart. In `log` the address of a freed list is allocated again within the
three calls, and the third event overwrites the slot of the first under the dump.
The theorems need none of these bounds: section 5 says what they do assume.

Runs whose bound ends them (`match` by its ticks, `ipc` by its scripts, `audio`
and `log` by their counts of calls) are not checked for deadlock.

In `reliable_overwrite` ack range and window are 2 and 3 for the code's 33 and
64; the overwrite needs a span of a window and one frame, which the code's sizes
allow.

What each property is about stands at its definition. In short:

- `ClaimIsCurrent`, `PopFailsOnlyWhenEmpty`, `EveryItemTaken`,
  `ImplementsWorkDeque`: no item lost, doubled, stale or left behind.
- `InOnePlace`: a job that has not begun, and every fiber, is in exactly one
  queue, list or hand.
- `WaitsHonoured`: a job begins once and after its dependency; `wait` and
  `parallel_for` return only when what they wait for is done.
- `StopLeavesNothing`, `MainReturns`: `stop` neither strands work nor hangs, and
  every program ends.
- `OwnerOnly`: only a deque's owner pops it.
- `RetiredWasReceived`: the sender forgets a frame only when the receiver has it.
- `ImplementsFifo`, `EveryAcceptedSettled`: delivery in order and at most once
  under any loss; every message arrives and is retired, if the network is fair.
- `RecordsMatchRows`: records and rows lead to each other, whatever was swapped,
  migrated or failed.
- `QueryVisitsEachOnce`, `DeferredTargetsResolve`, `PlaybackTakesEffect`: queries
  miss and repeat nobody; deferred commands reach the entity they name.
- `LayoutsSound`: columns are aligned, apart and inside their chunk.
- `ImplementsEntityStore`: to its callers the ECS is a map; stale handles,
  swaps and failed allocations change nothing they should not.
- `PredictionIsExact`, `BaselineFollows`: a client's prediction is the server's
  state after the inputs on their way; a client's view is what the server shows.
- `RewindsOneAfterTheView`: a shot is tested in the world of the tick after the
  last snapshot its shooter had applied, in no other. `ReplicationSession.h:88`
  says the very world it saw, see section 4.
- `DeadWithoutHealth`, `OneDeathPerLife`: the rules stay consistent when hits
  come late or together.
- `NoBroadcastMissed`, `HeardInOrder`: each broadcast once and in order; of each
  panel just the messages it sent before its goodbye, once and in order, and of
  one that was refused nothing; `StaleIsBounded`: what a stop can leave for the
  next session; `Answered`: a running server cuts nobody off that is still there
  but who said goodbye or was refused, and who is cut off has got an answer to
  everything, once and in order.
- `NoUseAfterFree`, `SlotIsIdle`: nothing is deleted and no pool reset under the
  GPU; `FenceWillSignal`, `SemaphoresPaired`, `BeginReturns`: no wait of the CPU,
  of the GPU or of a present is for ever.
- `NoDanglingClip`, `OnOneOfItsBuses`, `RenderedInTurn`, `ImplementsVoiceMap`:
  what the audio thread renders is alive, on its bus and in turn, and identifiers
  of dead voices reach nobody; `LiveIsRoutable`: those of live ones do.
- `SnapshotsHold`, `ImplementsSinkRegistry`: no list is freed under a walk or a
  writer, and no change of the sinks undoes another; `RetainsTheLast`,
  `DumpIsFaithful`: the ring ends with the last events, and a dump does not mix
  two unless a whole lap went by.

### Fairness

- `ChaseLev`: stores reach memory in finite time; a pop or push that has begun is
  finished (an idle owner may stay idle for ever); each thief keeps stealing, as
  an idle worker's loop does.
- `Scheduler`: weak fairness of every thread. The operating system runs each of
  them, and no call blocks on a lock another holds for long. Nothing is assumed
  about who gets which job.
- `ReliableLink`: each host's `poll` and `tick` are called again and again
  (`Host::poll` ticks). They are strong because the other host's tick, which is
  cut into steps, disables them in between. `TickResend(h, seq, TRUE)` and
  `TickAck(h, TRUE)` are strongly fair: a network that drops some copies, not
  all. No fairness is assumed of `Send` or `Connect`. This rules out payloads over
  1500 bytes, which are never sent (section 2.3).
- `GpuFrames`: Vulkan calls return when what they wait for is there, the GPU
  retires what was submitted and the display executes presents. No call owes a
  failure, and the window owes nothing.
- `World`, `Match`, `IpcServer`, `AudioVoices` and `FlightRecorder` are checked
  for safety alone. Every call of a
  world and every tick of a match returns at once; the loops of the audio shadow
  and of the log retry only when another thread has succeeded. That a panel is served in the
  end follows from the loop of the I/O thread; with panels that may vanish at any
  moment it says little, and the graph of `ipc` is too large for TLC's liveness
  checker.

## 4. Findings

1. **A window of frames, not of sequence numbers** (`Reliability.cpp:23`). With
   the oldest frame lost and later ones acked selectively, `enqueue` overwrites
   the oldest frame's slot. That frame is never sent again and the receiver's
   cursor waits for it for ever. Run `reliable_overwrite`.
2. **A stale worker after migration** (`Scheduler.cpp:396`). On the fiber backend
   `help_until` inside `parallel_for` pops the deque of a worker it has left.
   Run `sched_fiber_owner`.
3. **A late mark on the next voice** (`Audio.cpp:369`). `stop_voice` marks the
   slot dead after it has released it: a voice that another thread has put there
   meanwhile plays on and can never be routed. Run `audio_race`.

Met while modelling. Most are kept out of the passing runs by a bound or a fault
that is left out; each is stated where the model names it, and most among the
hazards:

- `ReplicationSession.h:88` says that a shot "hits where the shooter SAW the
  target", and the comment at `ReplicationSession.cpp:203` that it is tested in the
  snapshot the shooter had when it sent the input. The code always tests it in the
  world one tick later: in a tick a client stamps its input before it applies the
  snapshot that arrives in that tick, so with latency L what it had seen in tick t
  was the world of t - L - 1, and the input, which arrives in t + L, is tested in
  that of t - L. `RewindsOneAfterTheView` states what the code does, in the run
  `match` and as a theorem;
- a reliable payload over 1500 bytes is accepted and never sent; in an ordered
  channel everything after it waits for ever (`HostImpl.cpp:79`);
- the result of `vkWaitForFences` is ignored: after a wait that failed the pool of
  the slot is reset under the GPU (`VulkanBackend.cpp:954`; the fault `"wait"`);
- an ack names 33 of the 64 frames that may be in flight: one that falls more
  than 32 behind the newest before it is acked is delivered, never retired, and
  retransmitted on every timeout (`Reliability.cpp:58`; `MaxSpan`). Together with
  finding 1 this is why `reliable` bounds the span by the window. The safety of
  the channel, and its proofs, need no such bound;
- the slot ring may come round to a slot whose job still runs, although fewer
  jobs are live than there are slots: the count says how many are live, not which
  (`Scheduler.cpp:275`; `StaysAhead`). The comment above it says that the loop keeps
  the ring from lapping a live slot. With `Spec` for `SpecAhead`, and three slots,
  TLC finds `InOnePlace` violated;
- on the thread backend a helper may take up a job that waits for the job under
  it on the same stack: three jobs whose waits have no cycle deadlock
  (`Scheduler.cpp:395`; the programs of `MCScheduler` wait for children only);
- when `vkBeginCommandBuffer` fails after the fence was reset, the next
  `begin_frame` on that slot waits for ever (`VulkanBackend.cpp:994`; the fault
  `"begin"`);
- a list of sinks is read after it is freed if a walk overlaps more than
  `kSinkEpochDepth` changes of the sinks (`Log.cpp:157`; `Depth`), and a recorder
  that is held up for a lap of the ring hides a newer event (`FlightRecorder.cpp:148`);
- `resize_swapchain` returns early when the extent is the recorded one, also when
  an out-of-date swapchain forced the call (`VulkanBackend.cpp:1236`); a minimized
  window reclaims nothing; a handle dropped after `destroy_device` reads the
  deleted device (`Handle.cpp:85`);
- a voice that is stopped during a pull, and whose slot is reused and routed, is
  mixed into the new voice's bus for that block (`Audio.cpp:230`); one that starts
  during a pull loses its first block (`Audio.cpp:240`): `OnOneOfItsBuses` and
  `RenderedInTurn` say what does hold;
- frags outlive a round, so that every match after one won by frags ends in its
  first tick; a respawn's position is overwritten by the next mirror of the
  replicated one; with latency 0 no shot hits.

## 5. Proofs

### 5.1 The reliable channel

The first half of `NetProofs` proves, for every window, history width, timeout, pair
relation, payload set and script that satisfy the assumptions of `ReliableLink`:

| Theorem | States |
|---|---|
| `Inductive` | `LinkSpec => []IInv` |
| `TypeCorrect` | `LinkSpec => []LinkTypeOK` |
| `RetiredSafe` | `LinkSpec => []RetiredWasReceived` |
| `InflightSafe` | `LinkSpec => []InflightCoversHeld` |
| `FifoImplemented` | `LinkSpec => ImplementsFifo`, the refinement |

The assumptions: peers are paired and no host is its own peer, `"none"` is no
host, scripts are sequences of payloads, the sizes are positive.

`RetiredWasReceived` is not inductive: nothing in it says that an ack is true.
`IInv` says it. Per host,

- `SenderOK`: a slot in use holds the script's message of its number, in the slot
  of that number, and no more slots are in use than `inflight` counts (frames that
  were overwritten stay counted, hence "no more" and not "as many");
- `ReceiverOK`: the history names only frames that were received (`Claims(r)
  \subseteq Got(r)`), the reorder buffer holds the script's messages, all of them
  beyond the cursor;
- `retired` is among what the peer has got;
- `DeliveredOK`: what was surfaced and what is in the inbox make up the script's
  prefix up to the cursor.

`TickOK` says what is on the list of a tick in progress. Each operation of the
send side (`EnqueuedOK`, `AfterAckOK`, `AgedOK`, `MarkedOK`) and of the receive
side (`ObservedOK`, `BufferedOK`, `DrainedOK`, `SurfacedOK`) has a lemma;
`HandleReliableOK` and `TransmitOK` combine them into what any datagram does, and
there is one lemma per action above that. The same lemmas show that a step
accepts at most one message and only moves the cursor forward (`Advances`), which
`AdvancesFifo` turns into a step of `FifoChannel`.

### 5.2 The ECS

`WorldProofs` proves, for every set of components and values, every chunk
capacity and every size of the entity table:

| Theorem | States |
|---|---|
| `WorldIsSound` | `Spec => []IInv` |
| `TypesKept` | `Spec => []TypeOK` |
| `RecordsAlwaysMatchRows` | `Spec => []RecordsMatchRows` |
| `FreeListAlwaysDead` | `Spec => []FreeListIsDead` |
| `WorldImplementsStore` | `Spec => ImplementsEntityStore`, the refinement |
| `QueriesAlwaysVisitEachOnce` | `Spec => []QueryVisitsEachOnce` |
| `DeferredTargetsAlwaysResolve` | `Spec => []DeferredTargetsResolve` |
| `PlaybackAlwaysTakesEffect` | `Spec => PlaybackTakesEffect` |

The assumptions: a chunk holds a row at least, the numbers are positive, `Nil` is
no component and no value, and `MaxWork + 1 < TempGen`: no slot is used so often
that its generation reaches the bit that marks temporary handles. That bound is
in the model's guards, and it is what the code takes for granted with 2^31
uses of one slot.

`RecordsMatchRows` is not inductive. Swap-removal finds the record of the moved
entity through the handle in the row, so the row's entity must be alive, of the
current generation, and the only one there; and `create` hands out a slot from
the free list, so what is free must be dead. `IInv` is `WorldOK` and `BufferOK`:

- `TableType`, `ChunkType`: the types, and no chunk above its capacity;
- `RecordsLead`, `RowsLead`: each live slot's record leads to a row with its
  handle; each row is owned by a live slot whose record leads back;
- `FreeList`: the free list is the dead slots of the table, each once;
- `Handles`: a slot's generation is ahead of every handle of it but that of the
  entity that lives there, and fresh slots are as they were made. This is why a
  handle is new when `create` returns it, the step the refinement turns on;
- `BufferOK`: the query, the commands and the bound.

`AppendedRow`, `ErasedRow`, `Followed` and `Vacated` say what the two operations
on chunks do to rows and records; `MigrateKeeps` composes them, and
`CreateKeeps`, `DestroyKeeps`, `AddKeeps`, `RemoveKeeps`, `OverwriteKeeps` and
`VisitWrites` are the calls. Each of them also says what became of every
*other* entity (`Survivors`), and that is what the refinement needs:
`StepImplements` maps a call to the `EntityStore` action on the handle it names,
or to a stutter if the handle is stale or memory is missing.

Three more properties rest on `IInv` and an invariant of their own each:

- deferred commands: `Temporaries` says that the creates still to be played stand
  in the order of their numbers, which begin at the number of those played, and
  that every other command on a temporary handle comes after its create. So the
  number of a create is its place in `tempToReal` when its turn comes;
- queries: `Walk` says that every archetype is listed once, those with chunks
  among them, and that what was handed out is the handles of the entities the
  query has passed, each once. The callback's writes move nobody, so what is
  passed is told by the records, and at the end everybody is;
- playback: a step that plays a command on a live entity has its effect because
  `IInv` leads from the handle to a row, whatever the commands before it moved.

### 5.3 The frame loop

The second half of `ReclaimProofs` proves, for every number of frames in flight, of images, of
resources and of frames, and whatever fails but `vkWaitForFences`, on whose success
the code relies without a look (`"wait" \notin Faults`):

| Theorem | States |
|---|---|
| `FramesAreSound` | `FrameSpec => []FrameInv` |
| `TypesKept` | `FrameSpec => []FrameTypeOK` |
| `NoUseAfterFreeEver` | `FrameSpec => []NoUseAfterFree` |
| `SlotAlwaysIdle` | `FrameSpec => []SlotIsIdle` |
| `FenceAlwaysSignals` | `FrameSpec => []FenceWillSignal`, if `vkBeginCommandBuffer` does not fail either |
| `SemaphoresAlwaysPaired` | `FrameSpec => []SemaphoresPaired` |

`NoUseAfterFree` alone says nothing of why the watermark is safe. `FrameInv` adds
that a submission carries the frame of its slot, whose fence is unsignalled while
it is in flight (`Fenced`); that what is in flight is newer than the watermark and
than the last frame of every slot whose fence is signalled (`Newer`), since
submissions retire in order; that no slot is ahead of the frame index
(`Indexed`); and that a resource is tagged with a frame no older than its last
use (`Tagged`).

The semaphores have an invariant of their own, `Paired`: a signal of an acquire is
held by the slot that will wait for it (`AvailHeld`); of each semaphore of an image
one signal at most is pending or done (`SignalledOnce`), and unless rendering has
halted a present waits for it or `end_frame` is about to queue one (`Awaited`); an
image that waits to be presented is not the application's (`Presented`). The
semaphore of an image is signalled again only after the image was acquired again,
and that is after its present.

### 5.4 The deque

`ChaseLevProofs` proves, for every capacity of two or more, every number of
thieves and of pushes:

| Theorem | States |
|---|---|
| `DequeIsSound` | `Spec => []IInv` |
| `ItemsReturnedOnce` | `Spec => []EachOnce`: every item pushed is in the deque, or was returned once |
| `ClaimsAlwaysCurrent` | `Spec => []ClaimIsCurrent` |
| `WorkDequeImplemented` | `Spec => ImplementsWorkDeque`, the refinement |
| `PopFailsOnlyWhenEmptyEver` | `Spec => PopFailsOnlyWhenEmpty` |

`ClaimIsCurrent` holds because of what is on its way to memory and in which order.
`IInv` says, of the stores in `pending`, that the last one to a location is what
the owner sees there (`Current`); that a release fence follows every store of an
item (`Guarded`) and stands between it and every `bottom_` above it (`Ordered`);
and so that no slot below the `bottom_` in memory has a store on its way
(`Fresh`). `Bounds` says that no `bottom_`, in memory or pending, is above the end
of the deque: pop lowers the end only behind its sequentially consistent fence,
when nothing is pending. Then a thief that saw its index below `bottom_` and can
still win the race holds what the owner put there (`Stealing`).

### 5.5 The log and the flight recorder

The first half of `ReclaimProofs` proves, for every number of threads, sinks and addresses,
every `Depth` and every capacity of the ring of events:

| Theorem | States |
|---|---|
| `RecorderIsSound` | `Spec => []IInv` |
| `SnapshotsAlwaysHold` | `Spec => []SnapshotsHold` |
| `RegistryImplemented` | `Spec => ImplementsSinkRegistry`, the refinement |
| `RetainsTheLastEver` | `Spec => []RetainsTheLast` |
| `DumpsAreFaithful` | `Spec => []DumpIsFaithful` |

They hold under the two bounds of section 2.9, which are guards of the model: no
call overlaps more than `Depth` retirements, and no recorder is a lap behind.

Lists: every list has one owner, the registry, a place of the ring of retired
lists or one thread (`Exclusive`), and one that a call has loaded is current, or
about to be retired, or was retired no longer ago than the call is old
(`InReach`). The ring evicts what is `Depth` retirements old. So a list is intact
as long as somebody uses it, and its address cannot come back meanwhile: this is
why a compare-exchange on the address is one on the list, the step the refinement
turns on. Events: a ticket has one owner, within the last lap (`Tickets`); every
part of an event of the last lap is in its slot or still to be written by that
owner (`Written`), the number last (`Unpublished`); and what a dump has read is
the event's unless a lap has gone by (`Dumped`).

### 5.6 Audio

`AudioVoicesProofs` proves, for every number of slots, clips, buses and of calls:

| Theorem | States | Assuming |
|---|---|---|
| `ClipsNeverDangle` | `Spec => []NoDanglingClip` | |
| `TypesKept` | `Spec => []TypeOK` | |
| `RenderedInTurnEver` | `Spec => []RenderedInTurn` | `MaxPlays <= GenMax` |
| `OnOneOfItsBusesEver` | `Spec => []OnOneOfItsBuses` | the same, and one game thread |
| `VoiceMapImplemented` | `Spec => ImplementsVoiceMap` | the same, and one game thread |

The first two hold for any number of game threads. The clip is safe because the
device calls only between the start and the stop of the engine, and a pull that
has begun is over when the device is shut down, before any clip may go
(`Pulling`). For the others a slot
must not come back to a generation while an identifier of it is around
(`Ahead`): the generation has 8 bits, and `MaxPlays <= GenMax` says that it has
not wrapped. `InTurn` relates the cursor of each voice to what was heard of it,
which differ by the block of the pull it was started in. The last two need that
the mark in the shadow is of the voice that is in the slot (`Marked`); that is
where a second game thread breaks them, and `audio_race` shows how.

### 5.7 The IPC server

`IpcServerProofs` proves, for any panels, scripts, broadcasts and number of
sessions and any finite set of broadcasting threads:

| Theorem | States |
|---|---|
| `StaleAlwaysBounded` | `Spec => []StaleIsBounded` |
| `AlwaysAnswered` | `Spec => Answered` |
| `ServerIsSound` | `Spec => [](IInv /\ PanelInv)` |
| `NoBroadcastMissedEver` | `Spec => []NoBroadcastMissed` |
| `HeardInOrderEver` | `Spec => []HeardInOrder` |

A broadcast that `stop` leaves behind is one whose thread read `running` before:
so the queue of a stopped server and the threads between the two halves of
`broadcast` are no more than those threads (`IInv`). `PanelInv` adds what the
panels and the callback are given:

- `Streams`: what was read of a panel and what is on its way make up what it
  sent; of a panel that is not being closed nothing lies in the receive buffer
  between two rounds, and nothing was read before the upgrade;
- `Getting`: what a panel got and what is queued for it are the broadcasts since
  its upgrade, or a beginning of them once it is being closed (`Gets`); and the
  answers among them are those it is owed for what was read of it, in order
  (`Pays`). `Answered` rests on that: a round cuts a client off only when its queue
  is empty, and then all it is owed it has got;
- `Hearing`: what the callback was and will be given of a panel is what was read
  of it up to its goodbye, whichever side of `pump` it is on; of a panel that is
  not connected yet, or was refused, nothing. That it is being closed is that such
  a closing item was read, and an upgraded one has had its request read;
- `Fresh`: an accepted client starts from nothing.

A round of the I/O thread (`Rounds`) takes each client through four steps, which
`ReceivedAs`, `ShakenAs`, `ParsedAs` and `WrittenAs` say the effect of; the lemmas
`RoundStream`, `RoundHears` and `RoundGets` put them together. Messages and
broadcasts are filtered out of sequences by a recursive function, `Only`: as in
5.8, induction goes over sets (`Numbers`, `Sequences`), and `OnlyConcat`,
`OnlyType`, `OnlyDistinct` and `FlattenOnly` are what is needed of it. That the
messages of two panels differ (`MessageAssumption`) is how the callback's data is
told apart; that the server's own answers are no broadcasts likewise.

### 5.8 Replication and the match

The second half of `NetProofs` proves, for every number of clients, every latency whose round trip
fits the input ring, every radius, window and set of moves, and whatever the
players do:

| Theorem | States |
|---|---|
| `LoopIsSound` | `Spec => []NetInv` |
| `PredictionAlwaysExact` | `Spec => []PredictionIsExact` |
| `BaselineAlwaysFollows` | `Spec => []BaselineFollows` |
| `ShotsRewindOneAfterTheView` | `Spec => []RewindsOneAfterTheView` |
| `MatchIsSound` | `Spec => []Inv` |
| `DeadWithoutHealthEver` | `Spec => []DeadWithoutHealth`, `TypeOK` included |
| `OneDeathPerLifeEver` | `Spec => OneDeathPerLife` |

Which ticks every map covers follows from `tick` and the latency. What has to be
shown is how the values hang together across three clocks, and `history_` is what
they hang on, as a record of what the server's world was:

- `ClientsOK`: the baseline of a client is what it could see of the world of the
  snapshot it applied last; `Chained`: each snapshot on its way decodes, from what
  could be seen of the world before it, to what can be seen of its own. So the two
  ends of the delta encoding agree although they are never compared;
- `Exact`: a client's prediction is its position in the server's world, moved by
  the inputs on their way; and also its position in the world of each snapshot on
  its way, moved by the inputs that snapshot does not acknowledge. The second half
  is what reconciliation puts the client back on.

The sums of moves are recursive functions, and the library's theorem about those
takes an operator. `Numbers` (induction over a set) and `Recursion` (a function
defined by its first value and its steps exists) are proved from the
well-foundedness of the naturals instead, which the library states without one;
`ReplayedSums`, `ReplayedFirst`, `ReplayedLast` and `SameSteps` are what replay
needs of them. `Highest` gives the scan for the leader and for the best spawn
point their element.

For the players `Fit` says that health and the Dead component agree, and `Since`
how a state of the players follows from an earlier one of the same tick: nobody
revives, and who died was alive before and has the component now. `HitKeeps`
shows both of one hit, `HitsKeep` of all hits of a tick, `RespawnKeeps` brings
the timers in.

### 5.9 The scheduler

`SchedulerProofs` proves, for any number of workers in either pool (none included),
of fibers, of job slots and any capacity of the deques, on both backends, and for
every set of well-formed and unmixed programs,

    ASSUME \A p \in Programs : Unmixed(p)
    PROVE  Spec /\ [][StaysAhead]_vars => []P

with P

| Theorem | P |
|---|---|
| `SchedulerInvariant` | `SchedInv /\ HelpsOwn` |
| `OnlyOwnersPop` | `OwnerOnly` |
| `EveryJobInOnePlace` | `InOnePlace`, `TypeOK` included |
| `NothingIsLeftByStop` | `StopLeavesNothing` |
| `EveryWaitIsHonoured` | `WaitsHonoured` |

The assumptions are the four of `Scheduler`: there is a slot and room for a job
in a deque (`SizeAssumption`), each worker has a pool (`PoolAssumption`), the
external thread, workers, fibers and the two marks of a list are different
(`NameAssumption`), and programs are well-formed (`ProgramAssumption`).

The two premises are what the code asks of its callers, or should, and does not
check. `StaysAhead`: the ring of slots does not come round to a job in flight;
without it a slot has two jobs and `InOnePlace` does not hold (section 4).
`Unmixed`: on fibers, jobs do not both `wait` and `parallel_for`. A mixed program
may make a thread pop a deque it does not own (finding 2), and then `Popped` lets a
job be lost or taken twice. On threads every program is unmixed, and so are the
fiber programs of the run `sched`. `RunsStayAhead` shows that `SpecAhead`,
to which the run adds fairness, implies `Spec` and `[][StaysAhead]_vars`, so that
the run is a small instance of the theorems.

That only owners pop is shown together with the rest: `HelpsOwn` says that a call
that helps is on the stack which its worker runs, and that on a fiber there is one
only in a program that makes a `parallel_for`. A fiber leaves its worker only in a
`wait`, and in an unmixed program that makes one it has no such call on its stack.

`InOnePlace`, `StopLeavesNothing` and `WaitsHonoured` are not inductive either.
They count places, and a step that moves a job from one place to another keeps the
count only if the job was where the step takes it from, and nowhere else.
`SchedInv` therefore says that every thing has a place on record, and that the
record and the state agree in both directions. The code keeps no such record: the
invariant says one exists.

- `Placed(w)`: for each slot a *token*, the deque, injection queue, dependents
  list or frame that has its id, or none when the job is through; queues hold no
  id twice, a list does not come back to where it was, `live` is the number of
  slots that have a token;
- `Parked(s)`: for each fiber a *spot*, the pool of free fibers, the worker that
  runs it or has just left it, the queue of resumable ones, the waiters' list or
  the frame that resumes it;
- `Named(h)`: for each job a *stage*, new, asked for by a call that has no slot
  for it yet, in a slot, or gone because its slot has become another's;
  `Handled(h)`: a handle names the slot of its job, or its slot in an earlier lap
  of the ring, which is what `is_complete` tells apart by the generation;
  `Known(h)`: a call has the handles it uses, from `WellFormed`;
- `Counted(w, h, r)`: for each chunk the `parallel_for` that still counts it, as
  many as `remaining` says, and each chunk that it does not count has ended;
- `Depended(w, h)`: a job that is on no list any more and in no submit finds the
  job it depends on ended; on a list, the list is of that job's slot;
- `Honoured(s)`: every call a body has behind it is fulfilled, and a fiber off
  its thread waits for a job that has ended, or for one whose slot has the fiber
  on its list; `Stacks`, `Nested`, `Stopped`: stacks fit threads and fibers,
  frames nest as the calls of the code do, and `stop` is the last of them.

An action of the model is one access by the topmost frame. So a step does one of
three things to a stack: it replaces the top, calls, or returns, and `Swap` is
what these have in common. It changes one slot, queue or list beside that, and
moves at most one token, spot, stage and count. `SchedulerLemmas` has, for each
part of the invariant, what a step of that kind must satisfy for the part to
hold again, and `CoreStep` puts the parts together; `SchedulerProofs` shows for
each action that it is such a step and which token it moves. The delicate ones
are `FinishClose` and `FinishShut`, where one exchange takes a whole list: every
token on that list moves to the frame that walks it, which is why a list has a
place of its own (`Drained`, `Resuming`) while it is walked; and `AllocTake`,
where a slot's former job is gone while handles to it are still around.

That one place is on record for each slot and fiber gives `InOnePlace`: the sets
`Places` and `Homes` are then at most a singleton (`PlaceOnce`, `PlaceNone`,
`HomeOnce`). `StopLeavesNothing` follows from `live = 0`, so that no slot has a
token, and from `Stopped`; `WaitsHonoured` from `Honoured` and `Depended`.

### 5.10 Only model-checked

- `ChunkLayout`: `LayoutsSound`, a fold over the columns, which needs induction
  over data.
- Liveness under fairness (`EveryAcceptedSettled`, `EveryItemTaken`,
  `MainReturns`, `BeginReturns`), which is out of the prover's reach.
- What the three runs of section 4 refute. `OwnerOnly`, which `sched_fiber_owner`
  refutes for a mixed program, is a theorem for unmixed ones.

Every other property of the passing runs is stated by a theorem.

## 6. Not modelled, and what is left

The modules cover the parts of the engine whose correctness depends on the order
of events. They are a small share of its code, most of which is rendering
(`gpu`, `render`, `shader`, the samples), simulation and terrain, scripting,
editor documents, codecs and platform layers. What can go wrong there is
numeric, visual or a matter of an external system; it is sequential, and a state
machine of it would restate the code. Within the covered directories:

- *scheduler*: a restart after `stop`, a failing `fiber_for_thread`, `idle_wait`;
- *reliable channel*: stop and restart of a host, several peers, the channel
  number, the wrap of sequence numbers; lockstep buckets, fragments, the sequence
  buffer and snapshot streams, which nothing but their tests uses;
- *match*: bots, objectives, round timers and team scores, which `MatchSession`
  does not call; terrain under spawn points;
- *IPC*: the failures of `start`, the console bridge behind the callback, sockets
  that stay unwritable (a peer that reads slowly lets its send queue grow without
  bound);
- *file system*: its watcher thread;
- *gpu*: pipelines, uploads, the descriptor cache, the Metal backend, and a
  `create_swapchain_` that fails between its parts;
- *audio*: samples, positions, gains, reverb, the listener, and what ends a voice
  by itself (nothing does: a voice keeps its slot when its clip has ended);
- *log and recorder*: the text of lines, the per-thread ring of lines, `clear()`,
  installing the tap and the crash handler.

What the proofs leave open is named in 5.10, and what they assume of callers and of
the platform in sections 2.2 to 2.9: above all that the ring of job slots is not
lapped (`StaysAhead`), that fiber programs are `Unmixed`, that a wait for a fence
does not fail, that no call of the log overlaps too many retirements, and that an
8-bit or 32-bit generation does not come round.
