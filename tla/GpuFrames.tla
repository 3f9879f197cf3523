------------------------------ MODULE GpuFrames ------------------------------
(***************************************************************************)
(* The frame loop of the Vulkan backend: frames in flight, the swapchain   *)
(* that follows the window, and the deferred destruction of resources      *)
(* whose last handle any thread may drop (gpu/vk/VulkanBackend.cpp,        *)
(* gpu/Device.cpp, gpu/Handle.cpp).                                        *)
(*                                                                         *)
(* The render thread runs begin_frame, records, cmd_submit, end_frame and  *)
(* resize_swapchain; `pc' says where it is, and each blocking Vulkan call  *)
(* is a step of its own.  The GPU retires submissions and the presentation *)
(* engine shows images at their own pace.  The window changes size at any  *)
(* moment.  Vulkan itself is external: it is modelled by what the backend  *)
(* relies on (fences, binary semaphores, acquire, present, wait-idle).     *)
(***************************************************************************)
EXTENDS Integers, FiniteSets

CONSTANTS
  Resources,       \* buffers, textures and samplers
  FramesInFlight,  \* kFramesInFlight
  ImageCount,      \* images of a swapchain
  Sizes,           \* window sizes with a non-zero area
  Minimized,       \* the size of a minimized window, or of no swapchain at all
  MaxFrame,        \* bound: begin_frame calls
  MaxWindowEvents, \* bound: window events
  Faults           \* what may go wrong besides the window changing

ASSUME FramesAssumption == FramesInFlight \in Nat \ {0}
ASSUME BoundAssumption == MaxFrame \in Nat /\ MaxWindowEvents \in Nat /\ ImageCount \in Nat
ASSUME SizeAssumption == Minimized \notin Sizes /\ Sizes # {}
ASSUME FaultAssumption ==
  Faults \subseteq {"wait", "begin", "submit", "lost", "query", "create", "surface"}

Slots == 0 .. FramesInFlight - 1
Images == 0 .. ImageCount - 1
NoImage == -1

VARIABLES
  pc,         \* where the render thread is
  frame,      \* Device::current_frame_index
  slot,       \* frame_slot_
  image,      \* image_index_
  ready,      \* swapchain_ready_
  lost,       \* device_lost_
  extent,     \* sc_extent_
  fence,      \* in_flight of every slot: signalled?
  avail,      \* img_avail of every slot: signalled, or about to be?
  slotFrame,  \* slot_frame_
  completed,  \* gpu_completed_frame_
  recorded,   \* resources the open command buffer refers to
  res,        \* where each resource is in its life
  tag,        \* the frame a dropped resource is queued with
  lastUse,    \* the last frame that bound each resource (what its dropper has seen)
  work,       \* submissions the GPU has not retired
  presents,   \* presents the engine has not executed
  done,       \* render-done semaphores that are signalled
  owned,      \* images the application has acquired and not presented
  onscreen,   \* the image the display holds
  window,     \* the surface's current extent
  built,      \* the size the swapchain was really built with
  altered,    \* the surface changed in a way its size does not show
  events      \* window events so far

cpu == <<frame, slot, image, ready, lost, extent>>
sync == <<fence, avail, slotFrame, completed>>
life == <<res, tag, lastUse>>
gpu == <<work, presents, done>>
screen == <<owned, onscreen, built>>
surface == <<window, altered, events>>
frameVars == <<pc, cpu, sync, recorded, life, gpu, screen, surface>>

Location == {"app", "waiting", "acquiring", "recording", "submitted",
             "resizing", "forced", "tearing", "rebuilding", "down"}

\* "none": not created; "held": handles exist; "leaving": the last handle is
\* gone and its thread is on the way to the queue; "queued": in
\* pending_destroy_; "freed": deleted
Life == {"none", "held", "leaving", "queued", "freed"}

NextSlot(s) == IF s = FramesInFlight - 1 THEN 0 ELSE s + 1

\* Mutant: one semaphore per frame in flight.
PerSlotSemaphore == slot
\* The semaphore a submission signals and the present of its image waits for:
\* one per swapchain image.
RenderDone == image

FrameInit ==
  /\ pc = "app" /\ frame = 0 /\ slot = 0 /\ image = NoImage
  /\ ready = TRUE /\ lost = FALSE
  /\ window \in Sizes /\ extent = window /\ built = window
  /\ altered = FALSE /\ events = 0
  /\ fence = [s \in Slots |-> TRUE]
  /\ avail = [s \in Slots |-> FALSE]
  /\ slotFrame = [s \in Slots |-> 0]
  /\ completed = 0
  /\ recorded = {}
  /\ res = [r \in Resources |-> "none"]
  /\ tag = [r \in Resources |-> 0]
  /\ lastUse = [r \in Resources |-> 0]
  /\ work = {} /\ presents = {} /\ done = {}
  /\ owned = {} /\ onscreen = NoImage

(***************************************************************************)
(* Resources.                                                              *)
(***************************************************************************)

Create(r) ==
  /\ pc # "down"
  /\ res[r] = "none"
  /\ res' = [res EXCEPT ![r] = "held"]
  /\ UNCHANGED <<pc, cpu, sync, recorded, tag, lastUse, gpu, screen, surface>>

\* The render thread binds a resource it holds a handle of.
Bind(r) ==
  /\ pc = "recording"
  /\ res[r] = "held"
  /\ recorded' = recorded \cup {r}
  /\ lastUse' = [lastUse EXCEPT ![r] = frame]
  /\ UNCHANGED <<pc, cpu, sync, res, tag, gpu, screen, surface>>

\* Handle<T>::~Handle on any thread: the count falls to zero and
\* destroy_resource reads the frame index, with no lock.  The reading thread
\* has seen the frame that used the resource last; it may miss later ones.
DropLast(r) ==
  /\ res[r] = "held"
  /\ pc # "down"
  /\ res' = [res EXCEPT ![r] = "leaving"]
  /\ \E f \in lastUse[r] .. frame : tag' = [tag EXCEPT ![r] = f]
  /\ UNCHANGED <<pc, cpu, sync, recorded, lastUse, gpu, screen, surface>>

\* ... and pushes it to pending_destroy_ under the lock.
Enqueue(r) ==
  /\ res[r] = "leaving"
  /\ pc # "down"
  /\ res' = [res EXCEPT ![r] = "queued"]
  /\ UNCHANGED <<pc, cpu, sync, recorded, tag, lastUse, gpu, screen, surface>>

\* reclaim_retired_: what is queued for a frame up to `through' is deleted.
Reclaimed(through) ==
  [r \in Resources |-> IF res[r] = "queued" /\ tag[r] <= through THEN "freed" ELSE res[r]]

EveryFrame == MaxFrame  \* UINT64_MAX

(***************************************************************************)
(* begin_frame.                                                            *)
(***************************************************************************)

\* The index moves whether or not a frame comes of it.  A lost device returns
\* false, one without a swapchain returns true and cmd_open has no buffer.
BeginFrame ==
  /\ pc = "app"
  /\ frame < MaxFrame
  /\ frame' = frame + 1
  /\ pc' = IF lost \/ ~ready THEN "app" ELSE "waiting"
  /\ UNCHANGED <<slot, image, ready, lost, extent, sync, recorded, life, gpu, screen, surface>>

\* Mutant: every frame before the current one has retired.
NaiveWatermark == frame - 1
Watermark == IF slotFrame[slot] > completed THEN slotFrame[slot] ELSE completed

\* Mutant: the wait does not block.
Unwaited ==
  /\ pc = "waiting"
  /\ completed' = Watermark
  /\ res' = Reclaimed(Watermark)
  /\ pc' = "acquiring"
  /\ UNCHANGED <<cpu, fence, avail, slotFrame, recorded, tag, lastUse, gpu, screen, surface>>

\* vkWaitForFences returns when the fence is signalled, or because it fails: its
\* result is not looked at.
FenceWaited ==
  /\ pc = "waiting"
  /\ fence[slot] \/ "wait" \in Faults
  /\ completed' = Watermark
  /\ res' = Reclaimed(Watermark)
  /\ pc' = "acquiring"
  /\ UNCHANGED <<cpu, fence, avail, slotFrame, recorded, tag, lastUse, gpu, screen, surface>>

\* The surface and the swapchain no longer match, or the swapchain is gone.
OutOfDate == built = Minimized \/ window # built \/ altered

FreeImages == Images \ (owned \cup {onscreen} \cup {p.image : p \in presents})

\* An image is acquired, the fence and the command pool are reset; then
\* vkBeginCommandBuffer succeeds and the frame is open, or it fails and
\* begin_frame returns false.
Acquire(i) ==
  /\ pc = "acquiring"
  /\ built # Minimized
  /\ i \in FreeImages
  /\ image' = i
  /\ owned' = owned \cup {i}
  /\ avail' = [avail EXCEPT ![slot] = TRUE]
  /\ fence' = [fence EXCEPT ![slot] = FALSE]
  /\ \/ pc' = "recording"
     \/ "begin" \in Faults /\ pc' = "app"
  /\ UNCHANGED <<frame, slot, ready, lost, extent, slotFrame, completed, recorded, life,
                 gpu, onscreen, built, surface>>

\* Mutant: the fence is reset before the acquire.
ResetOutOfDate ==
  /\ pc = "acquiring"
  /\ OutOfDate
  /\ fence' = [fence EXCEPT ![slot] = FALSE]
  /\ pc' = "forced"
  /\ UNCHANGED <<cpu, avail, slotFrame, completed, recorded, life, gpu, screen, surface>>

\* Mutant: the acquire is tried again on the same swapchain.
RetryOutOfDate ==
  /\ pc = "acquiring"
  /\ OutOfDate
  /\ UNCHANGED frameVars

AcquireOutOfDate ==
  /\ pc = "acquiring"
  /\ OutOfDate
  /\ pc' = "forced"
  /\ UNCHANGED <<cpu, sync, recorded, life, gpu, screen, surface>>

\* The device is lost, or another error: begin_frame returns false.
AcquireFails ==
  /\ pc = "acquiring"
  /\ "lost" \in Faults
  /\ lost' \in {lost, TRUE}
  /\ pc' = "app"
  /\ UNCHANGED <<frame, slot, image, ready, extent, sync, recorded, life, gpu, screen, surface>>

(***************************************************************************)
(* cmd_submit and end_frame.                                               *)
(***************************************************************************)

Submission == [frame |-> frame, slot |-> slot, sem |-> RenderDone, uses |-> recorded]

Submit ==
  /\ pc = "recording"
  /\ work' = work \cup {Submission}
  /\ slotFrame' = [slotFrame EXCEPT ![slot] = frame]
  /\ avail' = [avail EXCEPT ![slot] = FALSE]
  /\ recorded' = {}
  /\ pc' = "submitted"
  /\ UNCHANGED <<cpu, fence, completed, life, presents, done, screen, surface>>

\* vkEndCommandBuffer or vkQueueSubmit fails: rendering halts for good.
SubmitFails ==
  /\ pc = "recording"
  /\ "submit" \in Faults
  /\ lost' = TRUE
  /\ recorded' = {}
  /\ pc' = "submitted"
  /\ UNCHANGED <<frame, slot, image, ready, extent, sync, life, gpu, screen, surface>>

\* The present is queued and the next slot is up.  A stale swapchain goes
\* through resize_swapchain before end_frame returns.
EndFrame ==
  /\ pc = "submitted"
  /\ ~lost
  /\ presents' = presents \cup {[frame |-> frame, image |-> image, sem |-> RenderDone]}
  /\ owned' = owned \ {image}
  /\ slot' = NextSlot(slot)
  /\ pc' \in {"app"} \cup (IF OutOfDate THEN {"forced"} ELSE {})
  /\ UNCHANGED <<frame, image, ready, lost, extent, sync, recorded, life, work, done,
                 onscreen, built, surface>>

\* vkQueuePresentKHR reports the loss of the device.
EndFrameLost ==
  /\ pc = "submitted"
  /\ ~lost
  /\ "lost" \in Faults
  /\ lost' = TRUE
  /\ slot' = NextSlot(slot)
  /\ pc' = "app"
  /\ UNCHANGED <<frame, image, ready, extent, sync, recorded, life, gpu, screen, surface>>

EndFrameSkipped ==
  /\ pc = "submitted"
  /\ lost
  /\ pc' = "app"
  /\ UNCHANGED <<cpu, sync, recorded, life, gpu, screen, surface>>

(***************************************************************************)
(* resize_swapchain, called by the application between frames and by the   *)
(* backend when the swapchain is out of date.                              *)
(***************************************************************************)

DeviceIdle == work = {} /\ presents = {}

AppResize ==
  /\ pc = "app"
  /\ pc' = "resizing"
  /\ UNCHANGED <<cpu, sync, recorded, life, gpu, screen, surface>>

\* The backend takes the swapchain for healthy when its size is the window's.
Unchanged == ready /\ window = extent

\* A lost device, or a surface that cannot be asked for its size, changes nothing.
ResizeCheck ==
  /\ pc \in {"resizing", "forced"}
  /\ \/ /\ lost \/ "query" \in Faults
        /\ pc' = "app"
     \/ /\ ~lost /\ window = Minimized
        /\ pc' = IF ready THEN "tearing" ELSE "app"
     \/ /\ ~lost /\ window # Minimized
        /\ pc' = IF Unchanged THEN "app" ELSE "rebuilding"
  /\ UNCHANGED <<cpu, sync, recorded, life, gpu, screen, surface>>

\* The swapchain of a minimized window is destroyed once the device is idle.
TearDown ==
  /\ pc = "tearing"
  /\ DeviceIdle
  /\ ready' = FALSE
  /\ built' = Minimized /\ owned' = {} /\ onscreen' = NoImage /\ done' = {}
  /\ pc' = "app"
  /\ UNCHANGED <<frame, slot, image, lost, extent, sync, recorded, life, work, presents, surface>>

\* The device is idle: everything queued is deleted and the swapchain is built
\* anew for the extent the surface has by now.  When that fails the old one
\* has been retired, the recorded extent is the new one and `ready' is as before.
Rebuild ==
  /\ pc = "rebuilding"
  /\ DeviceIdle
  /\ res' = Reclaimed(EveryFrame)
  /\ extent' = window
  /\ \/ /\ window # Minimized
        /\ built' = window /\ ready' = TRUE /\ altered' = FALSE
     \/ /\ window = Minimized \/ "create" \in Faults
        /\ built' = Minimized /\ UNCHANGED <<ready, altered>>
  /\ owned' = {} /\ onscreen' = NoImage /\ done' = {}
  /\ pc' = "app"
  /\ UNCHANGED <<frame, slot, image, lost, sync, recorded, tag, lastUse, work, presents,
                 window, events>>

\* destroy_device.  Its callers drop every handle first.
Shutdown ==
  /\ pc = "app"
  /\ DeviceIdle
  /\ \A r \in Resources : res[r] \notin {"held", "leaving"}
  /\ res' = Reclaimed(EveryFrame)
  /\ pc' = "down"
  /\ UNCHANGED <<cpu, sync, recorded, tag, lastUse, gpu, screen, surface>>

(***************************************************************************)
(* The GPU, the presentation engine and the window.                        *)
(***************************************************************************)

\* Submissions retire in order: the fence and the render-done semaphore fire.
RetireWork(w) ==
  /\ \A v \in work : w.frame <= v.frame
  /\ work' = work \ {w}
  /\ fence' = [fence EXCEPT ![w.slot] = TRUE]
  /\ done' = done \cup {w.sem}
  /\ UNCHANGED <<pc, cpu, avail, slotFrame, completed, recorded, life, presents, screen, surface>>

\* A present waits for its semaphore and replaces the image on the display.
Show(p) ==
  /\ \A q \in presents : p.frame <= q.frame
  /\ p.sem \in done
  /\ presents' = presents \ {p}
  /\ done' = done \ {p.sem}
  /\ onscreen' = p.image
  /\ UNCHANGED <<pc, cpu, sync, recorded, life, work, owned, built, surface>>

WindowEvent ==
  /\ events < MaxWindowEvents
  /\ events' = events + 1
  /\ \/ /\ window' \in (Sizes \cup {Minimized}) \ {window}
        /\ UNCHANGED altered
     \/ /\ "surface" \in Faults
        /\ altered' = TRUE
        /\ UNCHANGED window
  /\ UNCHANGED <<pc, cpu, sync, recorded, life, gpu, screen>>

Down == pc = "down" /\ UNCHANGED frameVars

AcquireReturns == (\E i \in Images : Acquire(i)) \/ AcquireOutOfDate
EndReturns == EndFrame \/ EndFrameLost \/ EndFrameSkipped

FrameNext ==
  \/ \E r \in Resources : Create(r) \/ Bind(r) \/ DropLast(r) \/ Enqueue(r)
  \/ BeginFrame \/ FenceWaited \/ AcquireReturns \/ AcquireFails
  \/ Submit \/ SubmitFails \/ EndReturns
  \/ AppResize \/ ResizeCheck \/ TearDown \/ Rebuild \/ Shutdown
  \/ \E w \in work : RetireWork(w)
  \/ \E p \in presents : Show(p)
  \/ WindowEvent
  \/ Down

FrameSpec == FrameInit /\ [][FrameNext]_frameVars

\* Vulkan calls return once what they wait for is there, and the GPU and the
\* display work off what they were given; no call is owed a failure.
Fairness ==
  /\ WF_frameVars(FenceWaited) /\ WF_frameVars(AcquireReturns)
  /\ WF_frameVars(ResizeCheck) /\ WF_frameVars(TearDown) /\ WF_frameVars(Rebuild)
  /\ WF_frameVars(\E w \in work : RetireWork(w))
  /\ WF_frameVars(\E p \in presents : Show(p))

FairSpec == FrameSpec /\ Fairness

-----------------------------------------------------------------------------

FrameTypeOK ==
  /\ pc \in Location
  /\ frame \in 0 .. MaxFrame /\ slot \in Slots /\ image \in Images \cup {NoImage}
  /\ ready \in BOOLEAN /\ lost \in BOOLEAN /\ extent \in Sizes \cup {Minimized}
  /\ fence \in [Slots -> BOOLEAN] /\ avail \in [Slots -> BOOLEAN]
  /\ slotFrame \in [Slots -> 0 .. MaxFrame] /\ completed \in 0 .. MaxFrame
  /\ recorded \in SUBSET Resources
  /\ res \in [Resources -> Life]
  /\ tag \in [Resources -> 0 .. MaxFrame] /\ lastUse \in [Resources -> 0 .. MaxFrame]
  /\ \A w \in work : w.frame \in 0 .. MaxFrame /\ w.slot \in Slots /\ w.uses \in SUBSET Resources
  /\ \A p \in presents : p.frame \in 0 .. MaxFrame /\ p.image \in Images
  /\ owned \in SUBSET Images /\ onscreen \in Images \cup {NoImage}
  /\ window \in Sizes \cup {Minimized} /\ built \in Sizes \cup {Minimized}
  /\ altered \in BOOLEAN /\ events \in 0 .. MaxWindowEvents

\* A resource is deleted only when no submission the GPU still works on and no
\* open command buffer refers to it, whichever thread dropped it and whatever
\* frame index that thread read (destroy_resource, reclaim_retired_).
NoUseAfterFree ==
  /\ \A w \in work : \A r \in w.uses : res[r] # "freed"
  /\ \A r \in recorded : res[r] # "freed"

\* A slot's command pool is reset and recorded again only after its last
\* submission has retired (begin_frame waits for the fence of that slot, and
\* the fence is the one this submission signals).
SlotIsIdle ==
  pc \in {"acquiring", "recording"} => \A w \in work : w.slot # slot

\* A render thread in vkWaitForFences, which has no timeout, waits for a fence
\* that is signalled or that a submission will signal ("the next begin_frame on
\* this slot won't deadlock in vkWaitForFences").
FenceWillSignal ==
  pc = "waiting" => fence[slot] \/ \E w \in work : w.slot = slot

\* Semaphores come in pairs of a signal and a wait.  None gets a second signal
\* before somebody waited for the first: neither the image-available one when an
\* image is acquired, nor the render-done one when a frame is submitted (the
\* reason for one per image); and every queued present waits for one that is
\* signalled or that a submission will signal, or it would stall for ever.
SemaphoresPaired ==
  /\ pc = "acquiring" => ~avail[slot]
  /\ pc = "recording" => /\ RenderDone \notin done
                         /\ \A w \in work : w.sem # RenderDone
                         /\ \A p \in presents : p.sem # RenderDone
  /\ \A p \in presents : p.sem \in done \/ \E w \in work : w.sem = p.sem

\* begin_frame returns: it does not wait for ever for a fence or for an image,
\* whatever the window does.
BeginReturns ==
  pc \in {"waiting", "acquiring"} ~> pc \notin {"waiting", "acquiring"}

=============================================================================
