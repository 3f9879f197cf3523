-------------------------- MODULE SchedulerProofs ---------------------------
(***************************************************************************)
(* The invariant of Scheduler is inductive, action by action, and what it  *)
(* implies, for every number of workers, job slots and fibers, either      *)
(* backend, any capacity of a deque and every well-formed program, as long *)
(* as the ring of slots does not lap a job in flight (StaysAhead) and the   *)
(* jobs that run on fibers do not mix wait() and parallel_for() (Unmixed):  *)
(* then only owners pop, which is all that the deques are good for.         *)
(***************************************************************************)
EXTENDS SchedulerLemmas

-----------------------------------------------------------------------------
\* submit(): allocate_slot, the dependency, the handle.

StepKeeps == \E w, s, h, r : Sound(w, s, h, r)'

\* What is known in a submission's frame.
LEMMA SubmitTypes ==
    ASSUME NEW w, NEW s, NEW h, NEW r, Sound(w, s, h, r),
           NEW t \in Thread, NEW d, NEW n, NEW e, OnTop(t, d, n, e), e.k = "submit"
    PROVE  /\ e \in SubmitFrame /\ e.job \in Task /\ e.dep \in Task \cup {None} /\ e.id \in {0} \cup Id
           /\ e.id = 0 <=> e.pc \in {"room", "take"}
           /\ e.pc \in {"dep", "link"} => e.dep \in Task
           /\ e = [k |-> "submit", job |-> e.job, dep |-> e.dep, group |-> e.group, pc |-> e.pc, id |-> e.id]
           /\ handle[e.job] = NoHandle /\ (e.dep # None => handle[e.dep] # NoHandle)
           /\ e.pc = "link" => handle[e.dep].id # e.id
<1>1. e \in SubmitFrame
  BY TopFacts, FrameKinds
<1>2. SubmitOK(e, handle)
  BY TopFacts
<1> QED
  BY <1>1, <1>2 DEF SubmitFrame, SubmitOK

\* The next phase of a submission is a frame.
LEMMA SubmitPc ==
    ASSUME NEW e \in SubmitFrame, NEW p \in {"room", "take", "dep", "link", "ready"},
           e.id = 0 <=> p \in {"room", "take"}, p \in {"dep", "link"} => e.dep # None
    PROVE  /\ [e EXCEPT !.pc = p] \in SubmitFrame
           /\ LET f == [e EXCEPT !.pc = p]
              IN f.pc = p /\ f.id = e.id /\ f.job = e.job /\ f.dep = e.dep /\ f.group = e.group
BY DEF SubmitFrame

\* allocate_slot finds room in the ring (AllocRoom) and keeps the invariant.
LEMMA StepAllocRoom ==
    ASSUME NEW w, NEW s, NEW h, NEW r, Sound(w, s, h, r), NEW t \in Thread, AllocRoom(t)
    PROVE  StepKeeps
<1>1. Shapes /\ In(t, "submit")
  BY SoundParts DEF AllocRoom
<1>2. PICK d, n, e : OnTop(t, d, n, e) /\ e.k = "submit"
  BY <1>1, HasTop
<1>3. Top(t) = e
  BY <1>2 DEF OnTop
<1>4. e.pc = "room" /\ e \in SubmitFrame /\ (e.id = 0 <=> e.pc \in {"room", "take"})
  BY <1>2, <1>3, SubmitTypes DEF AllocRoom
<1>5. PICK f : f = [e EXCEPT !.pc = "take"]
  OBVIOUS
<1>6. f \in SubmitFrame /\ f.pc = "take" /\ f.id = e.id /\ f.job = e.job /\ f.dep = e.dep /\ f.group = e.group
  BY <1>4, <1>5, SubmitPc
<1>7. Stacked(d, n, f, Blank)
  <2>1. Replace(t, f) /\ f \in Frame
    BY <1>3, <1>5, <1>6 DEF AllocRoom, Frame
  <2> QED
    BY <2>1, <1>1, <1>2, Replaces
<1>8. Swap(d, n, e, f, Blank)
  BY <1>2, <1>7, SwapTop
<1>9. SubmitOn(e, f)
  BY <1>2, <1>6 DEF SubmitOn
<1>10. Sound(w, s, h, r)'
  BY <1>2, <1>6, <1>8, <1>9, SubmitPlain DEF AllocRoom
<1> QED
  BY <1>10 DEF StepKeeps

\* The dependency of a call that goes on to push_dependent() has another slot.
LEMMA SlotsDiffer ==
    ASSUME NEW w, NEW s, NEW h, NEW r, Sound(w, s, h, r),
           NEW t \in Thread, NEW d, NEW n, NEW e, OnTop(t, d, n, e), e.k = "submit", e.id # 0, e.dep \in Task,
           ~IsComplete(handle[e.dep])
    PROVE  handle[e.dep].id # e.id
<1>1. Named(h) /\ Handled(h) /\ Shapes
  BY SoundParts
<1>2. /\ e.job \in Task /\ e.id \in Id /\ handle[e.job] = NoHandle /\ handle[e.dep] # NoHandle
  <2>1. None \notin Task
    BY <1>1, Programmed DEF Shapes, Task
  <2> QED
    BY <2>1, SubmitTypes
<1>3. HandleOK(h, e.dep)
  BY <1>1, HandledParts DEF Task
<1>4. h[e.dep] = InSlot(handle[e.dep].id)
  <2>1. e.dep \in Job
    BY DEF Task
  <2>2. handle[e.dep].gen = slots[handle[e.dep].id].gen
    BY DEF IsComplete
  <2>3. handle[e.dep].gen \in Nat
    BY <1>1, <2>1 DEF Shapes, HandleShape
  <2> QED
    BY <1>3, <1>2, <2>2, <2>3 DEF HandleOK
<1>5. slots[e.id].job = e.job
  <2>1. HolderOK(e)
    BY TopFacts
  <2> QED
    BY <2>1, <1>2 DEF HolderOK
<1>6. \A id \in Id, j \in Task : slots[id].job = j <=> h[j] = InSlot(id)
  BY <1>1 DEF Named
<1>7. ASSUME handle[e.dep].id = e.id PROVE FALSE
  <2>1. e.dep = e.job
    BY <1>2, <1>4, <1>5, <1>6, <1>7
  <2> QED
    BY <2>1, <1>2
<1> QED
  BY <1>7

\* submit() reads whether its dependency has ended already (SubmitCheck).
LEMMA StepSubmitCheck ==
    ASSUME NEW w, NEW s, NEW h, NEW r, Sound(w, s, h, r), NEW t \in Thread, SubmitCheck(t)
    PROVE  StepKeeps
<1>1. Shapes /\ In(t, "submit") /\ Placed(w) /\ Named(h) /\ Handled(h)
  BY SoundParts DEF SubmitCheck
<1>2. PICK d, n, e : OnTop(t, d, n, e) /\ e.k = "submit"
  BY <1>1, HasTop
<1>3. Top(t) = e
  BY <1>2 DEF OnTop
<1>4. /\ e.pc = "dep" /\ e \in SubmitFrame /\ e.id # 0 /\ e.dep \in Task /\ e.dep # None
      /\ handle[e.dep] # NoHandle
  <2>1. None \notin Task
    BY <1>1, Programmed DEF Shapes, Task
  <2> QED
    BY <2>1, <1>2, <1>3, SubmitTypes DEF SubmitCheck
<1>5. PICK p : p = IF IsComplete(handle[e.dep]) THEN "ready" ELSE "link"
  OBVIOUS
<1>6. PICK f : f = [e EXCEPT !.pc = p]
  OBVIOUS
<1>7. f \in SubmitFrame /\ f.pc = p /\ f.id = e.id /\ f.job = e.job /\ f.dep = e.dep /\ f.group = e.group
  <2>1. p \in {"room", "take", "dep", "link", "ready"} /\ p \notin {"room", "take"}
    BY <1>5
  <2> QED
    BY <1>4, <1>6, <2>1, SubmitPc
<1>8. Stacked(d, n, f, Blank)
  <2>1. Replace(t, f) /\ f \in Frame
    BY <1>3, <1>5, <1>6, <1>7 DEF SubmitCheck, Frame
  <2> QED
    BY <2>1, <1>1, <1>2, Replaces
<1>9. Swap(d, n, e, f, Blank)
  BY <1>2, <1>8, SwapTop
<1>10. SubmitOn(e, f)
  <2>1. CASE IsComplete(handle[e.dep])
    <3>1. e.dep \in ended
      BY <1>1, <1>4, <2>1, CompleteEnded
    <3> QED
      BY <1>2, <1>5, <1>7, <2>1, <3>1 DEF SubmitOn
  <2>2. CASE ~IsComplete(handle[e.dep])
    <3>1. handle[e.dep].id # e.id
      BY <1>2, <1>4, <2>2, SlotsDiffer
    <3> QED
      BY <1>2, <1>5, <1>7, <2>2, <3>1 DEF SubmitOn
  <2> QED
    BY <2>1, <2>2
<1>11. Sound(w, s, h, r)'
  BY <1>2, <1>7, <1>9, <1>10, SubmitPlain DEF SubmitCheck
<1> QED
  BY <1>11 DEF StepKeeps

\* A dependency whose list is closed has ended.
LEMMA RefusedEnded ==
    ASSUME NEW w, NEW s, NEW h, NEW r, Sound(w, s, h, r), NEW j \in Task, handle[j] # NoHandle,
           IsClosed(handle[j].id)
    PROVE  j \in ended
<1>1. Placed(w) /\ Named(h) /\ Handled(h) /\ Shapes
  BY SoundParts
<1>2. handle[j].id \in Id /\ (j \in ended \/ slots[handle[j].id].job = j)
  BY <1>1, HandleSlot DEF Task
<1>3. ASSUME slots[handle[j].id].job = j PROVE j \in ended
  <2>1. slots[handle[j].id].gen # 0
    <3>1. SlotOK(handle[j].id, w[handle[j].id][1])
      BY <1>1, <1>2 DEF Placed, Alive
    <3>2. j # None
      BY <1>1, Programmed DEF Shapes, Task
    <3> QED
      BY <3>1, <3>2, <1>3 DEF SlotOK, FreshSlot
  <2> QED
    BY <1>1, <1>2, <1>3, <2>1, ClosedEnded
<1> QED
  BY <1>2, <1>3

\* The list of the dependency was closed in between: the job is ready (LinkRefused).
LEMMA StepLinkRefused ==
    ASSUME NEW w, NEW s, NEW h, NEW r, Sound(w, s, h, r), NEW t \in Thread, SubmitLink(t),
           LinkRefused(handle[Top(t).dep].id)
    PROVE  StepKeeps
<1>1. Shapes /\ In(t, "submit")
  BY SoundParts DEF SubmitLink
<1>2. PICK d, n, e : OnTop(t, d, n, e) /\ e.k = "submit"
  BY <1>1, HasTop
<1>3. Top(t) = e
  BY <1>2 DEF OnTop
<1>4. /\ e.pc = "link" /\ e \in SubmitFrame /\ e.id # 0 /\ e.dep \in Task /\ e.dep # None
      /\ handle[e.dep] # NoHandle
  <2>1. None \notin Task
    BY <1>1, Programmed DEF Shapes, Task
  <2> QED
    BY <2>1, <1>2, <1>3, SubmitTypes DEF SubmitLink
<1>5. PICK f : f = [e EXCEPT !.pc = "ready"]
  OBVIOUS
<1>6. f \in SubmitFrame /\ f.pc = "ready" /\ f.id = e.id /\ f.job = e.job /\ f.dep = e.dep /\ f.group = e.group
  BY <1>4, <1>5, SubmitPc
<1>7. Replace(t, f) /\ UNCHANGED <<slots, handle>>
  BY <1>3, <1>5 DEF SubmitLink
<1>8. Stacked(d, n, f, Blank)
  <2>1. f \in Frame
    BY <1>6 DEF Frame
  <2> QED
    BY <2>1, <1>7, <1>1, <1>2, Replaces
<1>9. Swap(d, n, e, f, Blank)
  BY <1>2, <1>8, SwapTop
<1>10. SubmitOn(e, f)
  <2>1. e.dep \in ended
    BY <1>3, <1>4, RefusedEnded DEF LinkRefused
  <2> QED
    BY <1>2, <1>6, <2>1 DEF SubmitOn
<1>11. Sound(w, s, h, r)'
  BY <1>2, <1>6, <1>7, <1>9, <1>10, SubmitPlain DEF SubmitLink, history
<1> QED
  BY <1>11 DEF StepKeeps

-----------------------------------------------------------------------------
\* A job's function makes its next call.
CallsNow(e, f, c) ==
    /\ e \in BodyFrame /\ f \in BodyFrame
    /\ f.id = e.id /\ f.job = e.job /\ f.pc = e.pc + 1
    /\ e.pc \in DOMAIN program.calls[e.job] /\ c = CallAt(e.job, e.pc)

\* A body about to make a call: its frame, the frame after, and the call.
LEMMA CallIs ==
    ASSUME NEW w, NEW s, NEW h, NEW r, Sound(w, s, h, r), NEW t \in Thread, NEW op, Calling(t, op)
    PROVE  \E d, n, e, f, c : /\ OnTop(t, d, n, e) /\ CallsNow(e, f, c) /\ c.op = op
                              /\ Top(t) = e /\ Advanced(t) = f /\ Argument(t) = c
<1>1. Shapes /\ In(t, "body")
  BY SoundParts DEF Calling
<1>2. PICK d, n, e : OnTop(t, d, n, e) /\ e.k = "body"
  BY <1>1, HasTop
<1>3. Top(t) = e
  BY <1>2 DEF OnTop
<1>4. e \in BodyFrame
  BY <1>2, TopFacts, FrameKinds
<1>5. PICK f : f = [e EXCEPT !.pc = @ + 1]
  OBVIOUS
<1>6. f \in BodyFrame /\ f.id = e.id /\ f.job = e.job /\ f.pc = e.pc + 1 /\ e.job \in Job /\ e.pc \in Pos
  BY <1>4, <1>5 DEF BodyFrame, Pos
<1>7. Calls(t) = program.calls[e.job] /\ e.pc <= Len(program.calls[e.job])
  BY <1>3 DEF Calls, Calling
<1>8. e.pc \in DOMAIN program.calls[e.job]
  <2>1. program.calls \in [Job -> Seq(CallsOf(Task))]
    BY <1>1, Programmed DEF Shapes
  <2> QED
    BY <2>1, <1>6, <1>7 DEF Pos
<1>9. PICK c : c = CallAt(e.job, e.pc)
  OBVIOUS
<1>10. c.op = op /\ Argument(t) = c /\ Advanced(t) = f
  BY <1>3, <1>5, <1>7, <1>9 DEF Calling, Argument, Advanced, CallAt
<1> QED
  BY <1>2, <1>3, <1>4, <1>6, <1>8, <1>9, <1>10 DEF CallsNow

\* What is known of a call about to be made.
LEMMA CallKnows ==
    ASSUME NEW w, NEW s, NEW h, NEW r, Sound(w, s, h, r),
           NEW t \in Thread, NEW d, NEW n, NEW e, OnTop(t, d, n, e), NEW f, NEW c, CallsNow(e, f, c)
    PROVE  /\ e.k = "body" /\ f.k = "body" /\ e.job \in Job /\ e.pc \in Pos /\ f # Blank
           /\ c.op \in {"submit", "wait", "pfor", "stop"}
           /\ c.op = "submit" => c.job \in Task /\ c.dep \in Task \cup {None}
           /\ c.op = "wait" => c.job \in Task /\ c = Wait(c.job)
           /\ c.op = "pfor" => c.chunks \in Seq(Task)
           /\ Submits(c) \subseteq Task /\ Uses(program, e.job, e.pc)
           /\ Knows(e.job, e.pc)
           /\ \A k \in Submits(c) : h[k] = New /\ handle[k] = NoHandle
           /\ \A k \in Submits(c) : \A q \in program.given[k] : handle[q] # NoHandle
           /\ c.op = "wait" => handle[c.job] # NoHandle
           /\ c.op = "submit" /\ c.dep # None => handle[c.dep] # NoHandle
<1>1. /\ e \in BodyFrame /\ e.pc \in DOMAIN program.calls[e.job] /\ c = CallAt(e.job, e.pc)
      /\ Shapes /\ Named(h) /\ f \in BodyFrame
  BY SoundParts DEF CallsNow
<1>2. e.k = "body" /\ f.k = "body" /\ e.job \in Job /\ e.pc \in Pos /\ f # Blank
  BY <1>1 DEF BodyFrame, Blank
<1>3. /\ c.op \in {"submit", "wait", "pfor", "stop"}
      /\ c.op = "submit" => c.job \in Task /\ c.dep \in Task \cup {None}
      /\ c.op = "wait" => c.job \in Task /\ c = Wait(c.job)
      /\ c.op = "pfor" => c.chunks \in Seq(Task)
      /\ Submits(c) \subseteq Task /\ Uses(program, e.job, e.pc)
  BY <1>1, <1>2, CallTypes
<1>4. Knows(e.job, e.pc)
  <2>1. KnowsAt(e, Blank)
    BY TopFacts
  <2> QED
    BY <2>1, <1>2 DEF KnowsAt, Past, Blank
<1>5. \A k \in Submits(c) : h[k] = New
  <2>1. FrameFuture(h, e)
    BY TopFacts
  <2>2. Unasked(h, e.job, e.pc) /\ e.pc >= e.pc
    BY <2>1, <1>2 DEF FrameFuture, Pos
  <2> QED
    BY <2>2, <1>1 DEF Unasked
<1>6. \A k \in Submits(c) : handle[k] = NoHandle
  BY <1>1, <1>3, <1>5, Stages DEF Named
<1>7. c = program.calls[e.job][e.pc]
  BY <1>1 DEF CallAt
<1>8. /\ c.op = "wait" => HasHandle(program, e.job, e.pc, c.job)
      /\ c.op = "submit" /\ c.dep # "none" => HasHandle(program, e.job, e.pc, c.dep)
      /\ \A k \in Submits(c) : \A q \in program.given[k] : HasHandle(program, e.job, e.pc, q)
  BY <1>3, <1>7 DEF Uses
<1>9. \A k \in Submits(c) : program.given[k] \subseteq Job
  BY <1>1, <1>3, Programmed DEF Shapes, Task
<1>10. \A k \in Submits(c) : \A q \in program.given[k] : handle[q] # NoHandle
  BY <1>4, <1>8, <1>9 DEF Knows
<1>11. c.op = "wait" => handle[c.job] # NoHandle
  BY <1>3, <1>4, <1>8 DEF Knows, Task
<1>12. c.op = "submit" /\ c.dep # None => handle[c.dep] # NoHandle
  BY <1>3, <1>4, <1>8 DEF Knows, Task, None
<1> QED
  BY <1>2, <1>3, <1>4, <1>5, <1>6, <1>10, <1>11, <1>12

\* Main makes no call once it has called stop().
LEMMA CallsBeforeStop ==
    ASSUME NEW w, NEW s, NEW h, NEW r, Sound(w, s, h, r),
           NEW t \in Thread, NEW d, NEW n, NEW e, OnTop(t, d, n, e), NEW f, NEW c, CallsNow(e, f, c)
    PROVE  exited = {} /\ ~(d = External /\ stopping)
<1>1. ASSUME exited # {} \/ (d = External /\ stopping) PROVE FALSE
  <2>1. d = External /\ stopping /\ e.k = "body"
    BY <1>1, OnlyMainLeft, SoundParts, CallKnows
  <2>2. Stopped /\ Shapes /\ FramesOK /\ FrameAt(External, n) = e /\ n \in Pos /\ e # Blank
    BY <2>1, SoundParts, TopFacts DEF OnTop
  <2>3. n = 1 /\ e.pc > Len(program.calls["main"])
    BY <2>1, <2>2 DEF Stopped
  <2>4. e.job = "main"
    <3>1. BasedBy(External, e)
      BY <2>1, <2>2, <2>3, TopFacts
    <3>2. e.id = 0
      BY <3>1, <2>2 DEF BasedBy
    <3> QED
      BY <2>1, <2>2, <3>2, Sizes DEF FramesOK
  <2>5. e.pc \in DOMAIN program.calls["main"]
    BY <2>4 DEF CallsNow
  <2>6. program.calls["main"] \in Seq(CallsOf(Task))
    BY <2>2, Programmed DEF Shapes
  <2> QED
    BY <2>3, <2>5, <2>6
<1> QED
  BY <1>1

\* The call stands on the body of its job.
CallOn(e, c, g) ==
    /\ g = Blank \/ InCallOf(handle, e.job, e.pc, g)
    /\ g = Blank => FulfilledIn(e.job, e.pc, ended)
    /\ g.k = "submit" <=> c.op = "submit"
    /\ g.k \notin {"body", "finish"} /\ SubmitOK(g, handle)

\* A call goes to its frame.
LEMMA CallGoes ==
    ASSUME NEW w, NEW s, NEW h, NEW r, Sound(w, s, h, r),
           NEW t \in Thread, NEW d, NEW n, NEW e, OnTop(t, d, n, e), NEW f, NEW c, CallsNow(e, f, c),
           NEW g, CallOn(e, c, g)
    PROVE  Goes(d, n, e, f, g) /\ FrameDeps(f)
<1>1. e.k = "body" /\ f.k = "body" /\ e.job \in Job /\ e.pc \in Pos /\ f # Blank
  BY CallKnows
<1>2. f.id = e.id /\ f.job = e.job /\ f.pc = e.pc + 1 /\ f.pc - 1 = e.pc /\ f.pc > 1
  BY <1>1 DEF CallsNow, Pos
<1>3. g.k \notin {"body", "finish"} /\ SubmitOK(g, handle)
  BY DEF CallOn
<1>4. FrameDeps(f)
  BY <1>1 DEF FrameDeps, DepFrame
<1>6. Goes(d, n, e, f, g)
  <2>2. SubmitOK(f, handle)
    BY <1>1 DEF SubmitOK
  <2>3. KnowsAt(g, Blank)
    BY <1>3 DEF KnowsAt
  <2>4. KnowsAt(f, g)
    <3>1. Knows(e.job, e.pc) /\ Shapes
      BY CallKnows, SoundParts
    <3>2. CASE g.k = "submit"
      BY <3>1, <3>2, <1>2 DEF KnowsAt, Past
    <3>3. CASE g.k # "submit"
      <4>1. CallAt(e.job, e.pc).op # "submit" /\ e.pc \in DOMAIN program.calls[e.job]
        BY <3>3 DEF CallOn, CallsNow
      <4>2. Knows(e.job, e.pc + 1)
        BY <3>1, <4>1, <1>1, KnowsOn
      <4> QED
        BY <4>2, <3>3, <1>2 DEF KnowsAt, Past
    <3> QED
      BY <3>2, <3>3
  <2>5. Follows(e, f)
    BY <1>1, <1>2 DEF Follows
  <2>6. AboveOf(handle, f, g)
    BY <1>1, <1>2 DEF AboveOf, CallOn
  <2>7. ~(d = External /\ stopping)
    BY CallsBeforeStop
  <2>8. HonTop(d, n, f, g)
    <3>1. HonFrame(e, Blank, ended, FALSE)
      BY TopFacts
    <3>2. \A m \in 1..e.pc-1 : FulfilledIn(e.job, m, ended)
      BY <3>1, <1>1 DEF HonFrame, Blank
    <3>3. \A m \in 1..f.pc-1 : m \in 1..e.pc-1 \/ m = e.pc
      BY <1>1, <1>2 DEF Pos
    <3>4. HonFrame(f, g, ended, Left(d))
      <4> HIDE DEF FulfilledIn
      <4> QED
        BY <3>2, <3>3, <1>2 DEF HonFrame, CallOn
    <3>5. HonFrame(g, Blank, ended, Left(d))
      BY <1>3 DEF HonFrame
    <3> QED
      BY <3>4, <3>5, <1>1 DEF HonTop
  <2> QED
    BY <1>1, <1>3, <2>2, <2>3, <2>4, <2>5, <2>6, <2>7, <2>8 DEF Goes
<1> QED
  BY <1>4, <1>6

\* A call that starts no loop counts no chunk.
LEMMA CallTurns ==
    ASSUME NEW w, NEW s, NEW h, NEW r, Sound(w, s, h, r), UNCHANGED ended,
           NEW t \in Thread, NEW d, NEW n, NEW e, OnTop(t, d, n, e), NEW f, NEW c, CallsNow(e, f, c),
           NEW g, CallOn(e, c, g), FrameDeps(g), g.k # "pfor", \A j : ~Looping(g, j)
    PROVE  /\ Turns(d, n, e, f, g) /\ CountedHere(r, e, f, g) /\ FrameDeps(f) /\ FrameDeps(g)
<1>1. e.k = "body" /\ f.k = "body"
  BY CallKnows
<1>2. Goes(d, n, e, f, g) /\ FrameDeps(f)
  BY CallGoes
<1>3. g.k \notin {"body", "finish"}
  BY DEF CallOn
<1>4. CountedHere(r, e, f, g)
  <2>1. \A j : ~Looping(f, j) /\ ~Looping(e, j)
    BY <1>1, LoopingIs
  <2>2. CountFrame(r, f, g, ended')
    BY <1>1 DEF CountFrame
  <2>3. CountFrame(r, g, Blank, ended')
    <3>1. g.k = "submit" => g.group = None
      BY <1>3 DEF CallOn, InCallOf, Blank
    <3> QED
      BY <3>1, <1>3 DEF CountFrame
  <2> QED
    BY <2>1, <2>2, <2>3 DEF CountedHere
<1>5. Waking(f) = Waking(e) /\ Waking(g) = None
  BY <1>1, <1>3 DEF Waking
<1>6. Turns(d, n, e, f, g)
  BY <1>1, <1>2, <1>5 DEF Turns
<1> QED
  BY <1>2, <1>4, <1>6

\* A call that changes no shared state but the stack keeps the invariant.
LEMMA CallPlain ==
    ASSUME NEW w, NEW s, NEW h, NEW r, Sound(w, s, h, r),
           NEW t \in Thread, NEW d, NEW n, NEW e, OnTop(t, d, n, e), NEW f, NEW c, CallsNow(e, f, c),
           NEW g, CallOn(e, c, g), FrameDeps(g), g.k # "pfor", (\A j : ~Looping(g, j)), c.op # "submit", Swap(d, n, e, f, g),
           UNCHANGED <<program, slots, alloc, live, queues, fibers, on, stopping, exited, history, remaining>>
    PROVE  Sound(w, s, h, r)'
<1>1. e.k = "body" /\ f.k = "body" /\ f.id = e.id /\ f.job = e.job /\ f.pc = e.pc + 1 /\ e.pc \in Pos
  BY CallKnows DEF CallsNow
<1>2. g.k \notin {"body", "finish", "pfor", "submit"} /\ FrameDeps(g) /\ \A j : ~Looping(g, j)
  BY DEF CallOn
<1>3. HolderOK(e) /\ FrameFuture(h, e)
  BY TopFacts
<1>4. HolderOK(f) /\ HolderOK(g)
  BY <1>1, <1>2, <1>3 DEF HolderOK
<1>5. HoldSame(e, f, g)
  BY <1>1, <1>2 DEF HoldSame, Holds, Draining, Holders
<1>6. FrameQuiet(h, e, f, g)
  <2>1. Unasked(h, f.job, f.pc)
    <3>1. Unasked(h, e.job, e.pc)
      BY <1>1, <1>3 DEF FrameFuture
    <3>2. Shapes /\ e.job \in Job
      BY CallKnows, SoundParts
    <3>3. \A m \in DOMAIN program.calls[e.job] : m \in Pos
      BY <3>2, CallTypes
    <3>4. \A m \in DOMAIN program.calls[e.job] : m >= f.pc => m >= e.pc
      BY <3>3, <1>1 DEF Pos
    <3> QED
      BY <3>1, <3>4, <1>1 DEF Unasked
  <2> QED
    BY <1>1, <1>2, <2>1 DEF FrameQuiet, Asks, FrameFuture
<1>7. Turns(d, n, e, f, g) /\ CountedHere(r, e, f, g) /\ FrameDeps(f) /\ FrameDeps(g)
  BY <1>2, CallTurns DEF history
<1> QED
  BY <1>4, <1>5, <1>6, <1>7, PlainStep

\* wait() on a job that has ended returns at once (WaitOver).
LEMMA StepWaitOver ==
    ASSUME NEW w, NEW s, NEW h, NEW r, Sound(w, s, h, r), NEW t \in Thread, WaitOver(t)
    PROVE  StepKeeps
<1>1. Shapes /\ Placed(w) /\ Named(h) /\ Handled(h) /\ Calling(t, "wait")
  BY SoundParts DEF WaitOver
<1>2. PICK d, n, e, f, c : /\ OnTop(t, d, n, e) /\ CallsNow(e, f, c) /\ c.op = "wait"
                           /\ Top(t) = e /\ Advanced(t) = f /\ Argument(t) = c
  BY <1>1, CallIs
<1>3. c.job \in Task /\ handle[c.job] # NoHandle /\ IsComplete(handle[c.job])
  BY <1>2, CallKnows DEF WaitOver
<1>4. c.job \in ended
  BY <1>1, <1>3, CompleteEnded
<1>5. CallOn(e, c, Blank) /\ FrameDeps(Blank) /\ Blank.k # "pfor" /\ \A j : ~Looping(Blank, j)
  <2>1. FulfilledIn(e.job, e.pc, ended)
    BY <1>2, <1>4 DEF FulfilledIn, CallsNow
  <2>2. Blank.k = "none"
    BY DEF Blank
  <2> QED
    BY <1>2, <2>1, <2>2, BlankOK, LoopingIs DEF CallOn
<1>6. Swap(d, n, e, f, Blank)
  <2>1. f \in Frame /\ Replace(t, f)
    BY <1>2 DEF CallsNow, Frame, WaitOver
  <2>2. Stacked(d, n, f, Blank)
    BY <1>1, <1>2, <2>1, Replaces
  <2> QED
    BY <1>2, <2>2, SwapTop
<1>7. UNCHANGED <<program, slots, alloc, live, queues, fibers, on, stopping, exited, history, remaining>>
  BY DEF WaitOver
<1>8. Sound(w, s, h, r)'
  <2>1. c.op # "submit"
    BY <1>2
  <2> QED
    BY <1>2, <1>5, <1>6, <1>7, <2>1, CallPlain
<1> QED
  BY <1>8 DEF StepKeeps

\* wait() on a job that has not ended helps (WaitHelp).
LEMMA StepWaitHelp ==
    ASSUME NEW w, NEW s, NEW h, NEW r, Sound(w, s, h, r), NEW t \in Thread, WaitHelp(t)
    PROVE  StepKeeps
<1>1. Shapes /\ Calling(t, "wait")
  BY SoundParts DEF WaitHelp
<1>2. PICK d, n, e, f, c : /\ OnTop(t, d, n, e) /\ CallsNow(e, f, c) /\ c.op = "wait"
                           /\ Top(t) = e /\ Advanced(t) = f /\ Argument(t) = c
  BY <1>1, CallIs
<1>3. c.job \in Task /\ handle[c.job] # NoHandle
  BY <1>2, CallKnows
<1>4. PICK g : g = Help(t, handle[c.job])
  OBVIOUS
<1>5. g.k = "help" /\ g.until = handle[c.job] /\ g \in Frame /\ g # Blank
  <2>1. handle[c.job] \in HandleShape
    BY <1>1, <1>3 DEF Shapes, Task
  <2> QED
    BY <1>4, <2>1 DEF Help, Frame, HelpFrame, Blank
<1>6. CallOn(e, c, g) /\ FrameDeps(g) /\ g.k # "pfor" /\ \A j : ~Looping(g, j)
  <2>1. InCallOf(handle, e.job, e.pc, g)
    BY <1>2, <1>3, <1>5 DEF InCallOf, CallsNow
  <2>2. \A j : ~Looping(g, j)
    <3>1. handle[c.job] \in [id : {0} \cup Id, gen : Nat]
      BY <1>1, <1>3 DEF Shapes, Task, HandleShape
    <3>2. "id" \in DOMAIN handle[c.job]
      BY <3>1
    <3>3. \A j : "id" \notin DOMAIN [group |-> j]
      OBVIOUS
    <3>4. \A j : handle[c.job] # [group |-> j]
      BY <3>2, <3>3
    <3> QED
      BY <1>5, <3>4 DEF Looping
  <2>3. SubmitOK(g, handle) /\ FrameDeps(g)
    BY <1>5 DEF SubmitOK, FrameDeps, DepFrame
  <2> QED
    BY <1>2, <1>5, <2>1, <2>2, <2>3 DEF CallOn
<1>7. Swap(d, n, e, f, g)
  <2>1. f \in Frame /\ Call(t, f, g)
    BY <1>2, <1>4 DEF CallsNow, Frame, WaitHelp, SelfOf
  <2>2. Stacked(d, n, f, g)
    BY <1>1, <1>2, <1>5, <2>1, Calls1
  <2> QED
    BY <1>2, <2>2, SwapTop
<1>8. UNCHANGED <<program, slots, alloc, live, queues, fibers, on, stopping, exited, history, remaining>>
  BY DEF WaitHelp
<1>9. Sound(w, s, h, r)'
  <2>1. c.op # "submit"
    BY <1>2
  <2> QED
    BY <1>2, <1>6, <1>7, <1>8, <2>1, CallPlain
<1> QED
  BY <1>9 DEF StepKeeps

\* A job is submitted by one call: what it depends on is what that call says.
LEMMA DependsOnce ==
    ASSUME Shapes, NEW j \in Job, NEW n \in DOMAIN program.calls[j], NEW k \in Submits(CallAt(j, n)),
           NEW v, Depends(k, v)
    PROVE  CallAt(j, n).op = "submit" /\ CallAt(j, n).dep = v
<1>0. PICK i \in Job : \E m \in DOMAIN program.calls[i] :
         CallAt(i, m).op = "submit" /\ CallAt(i, m).job = k /\ CallAt(i, m).dep = v
  BY DEF Depends
<1>1. PICK m \in DOMAIN program.calls[i] :
         CallAt(i, m).op = "submit" /\ CallAt(i, m).job = k /\ CallAt(i, m).dep = v
  BY <1>0
<1>2. k \in Submits(CallAt(i, m))
  BY <1>1 DEF Submits
<1>3. \A i1, j1 \in Job : \A m1 \in DOMAIN program.calls[i1], n1 \in DOMAIN program.calls[j1] :
         Submits(CallAt(i1, m1)) \cap Submits(CallAt(j1, n1)) # {} => i1 = j1 /\ m1 = n1
  BY Programmed DEF Shapes
<1>4. i = j /\ m = n
  <2>1. Submits(CallAt(i, m)) \cap Submits(CallAt(j, n)) # {}
    BY <1>2
  <2> QED
    BY <1>3, <2>1
<1> QED
  BY <1>1, <1>4

\* A body calls submit() (DoSubmit).
LEMMA StepDoSubmit ==
    ASSUME NEW w, NEW s, NEW h, NEW r, Sound(w, s, h, r), NEW t \in Thread, DoSubmit(t)
    PROVE  StepKeeps
<1>1. Shapes /\ Stacks /\ Placed(w) /\ Named(h) /\ Calling(t, "submit")
  BY SoundParts DEF DoSubmit
<1>2. PICK d, n, e, f, c : /\ OnTop(t, d, n, e) /\ CallsNow(e, f, c) /\ c.op = "submit"
                           /\ Top(t) = e /\ Advanced(t) = f /\ Argument(t) = c
  BY <1>1, CallIs
<1>3. /\ c.job \in Task /\ c.dep \in Task \cup {None} /\ Submits(c) = {c.job}
      /\ h[c.job] = New /\ handle[c.job] = NoHandle /\ (c.dep # None => handle[c.dep] # NoHandle)
      /\ \A q \in program.given[c.job] : handle[q] # NoHandle
  <2>1. Submits(c) = {c.job}
    BY <1>2 DEF Submits
  <2> QED
    BY <1>2, <2>1, CallKnows
<1>4. /\ e.k = "body" /\ f.k = "body" /\ e.job \in Job /\ e.pc \in Pos /\ f.id = e.id /\ f.job = e.job
      /\ f.pc = e.pc + 1 /\ e.pc \in DOMAIN program.calls[e.job] /\ c = CallAt(e.job, e.pc)
  BY <1>2, CallKnows DEF CallsNow
<1>5. PICK g : g = Submission(c.job, c.dep, None)
  OBVIOUS
<1>6. /\ g.k = "submit" /\ g.job = c.job /\ g.dep = c.dep /\ g.group = None /\ g.id = 0 /\ g.pc = "room"
      /\ g \in SubmitFrame
  BY <1>3, <1>5 DEF Submission, SubmitFrame
<1>7. g # Blank /\ g \in Frame
  BY <1>6 DEF Blank, Frame
<1>8. CallOn(e, c, g) /\ FrameDeps(g) /\ g.k # "pfor" /\ \A j : ~Looping(g, j)
  <2>1. InCallOf(handle, e.job, e.pc, g)
    BY <1>2, <1>4, <1>6 DEF InCallOf
  <2>2. \A j : ~Looping(g, j)
    BY <1>6, LoopingIs
  <2>3. SubmitOK(g, handle)
    BY <1>3, <1>6 DEF SubmitOK
  <2>4. FrameDeps(g)
    <3>1. ASSUME NEW k \in Task, NEW v \in Task, Depends(k, v), k = c.job PROVE v = c.dep
      BY <3>1, <1>1, <1>3, <1>4, DependsOnce
    <3> QED
      BY <3>1, <1>6 DEF FrameDeps, DepFrame
  <2> QED
    BY <1>2, <1>6, <1>7, <2>1, <2>2, <2>3, <2>4 DEF CallOn
<1>9. Swap(d, n, e, f, g)
  <2>1. f \in Frame /\ Call(t, f, g)
    BY <1>2, <1>5 DEF CallsNow, Frame, DoSubmit
  <2>2. Stacked(d, n, f, g)
    BY <1>1, <1>2, <1>7, <2>1, Calls1
  <2> QED
    BY <1>2, <2>2, SwapTop
<1>10. UNCHANGED <<program, slots, alloc, live, queues, fibers, on, stopping, exited, history, remaining>>
  BY DEF DoSubmit
<1>11. Turns(d, n, e, f, g) /\ CountedHere(r, e, f, g) /\ FrameDeps(f) /\ FrameDeps(g)
  BY <1>2, <1>8, <1>10, CallTurns DEF history
<1>12. Shapes'
  BY <1>1, <1>9, <1>10, ShapesStack DEF Swap, Stacked
<1>13. Placed(w)'
  <2>1. HolderOK(e)
    BY <1>2, TopFacts
  <2>2. HolderOK(f) /\ HolderOK(g)
    BY <1>4, <1>6, <2>1 DEF HolderOK
  <2>3. 0 \notin Id
    BY Sizes
  <2>4. HoldSame(e, f, g)
    BY <1>4, <1>6, <2>3 DEF HoldSame, Holds, Draining, Holders
  <2>5. \A j \in Task : j \in ended' <=> j \in ended
    BY <1>10 DEF history
  <2> QED
    BY <1>1, <1>9, <1>10, <2>2, <2>4, <2>5, PlacedQuiet DEF queues, history
<1>14. PICK S : S = Submits(c)
  OBVIOUS
<1>15. PICK h2 : AskedBy(h, h2, S, Asked(d, n + 1))
  BY DEF AskedBy
<1>16. Named(h2)'
  <2>1. \A j \in Task : Asks(g, j) <=> j \in S
    BY <1>3, <1>6, <1>14 DEF Asks
  <2>2. FrameFuture(h, g) /\ g.k # "body"
    BY <1>6 DEF FrameFuture
  <2>3. UNCHANGED <<program, slots, begun, ended, handle>>
    BY <1>10 DEF history
  <2>4. S = Submits(CallAt(e.job, e.pc))
    BY <1>4, <1>14
  <2> QED
    BY <1>1, <1>4, <1>9, <1>15, <2>1, <2>2, <2>3, <2>4, NamedAsk
<1>17. NamesOn(h, h2)
  <2>1. \A j \in Job : h2[j] = IF j = c.job THEN Asked(d, n + 1) ELSE h[j]
    BY <1>3, <1>14, <1>15 DEF AskedBy
  <2>2. Given(h2, c.job) /\ Given(h, c.job)
    BY <1>3, <1>10 DEF Given, history
  <2>3. Asked(d, n + 1)[1] = "asked" /\ Asked(d, n + 1) # New
    BY Stages
  <2>4. \A j \in Task : j \in Job
    BY DEF Task
  <2> HIDE DEF Given
  <2> QED
    BY <1>3, <2>1, <2>2, <2>3, <2>4 DEF NamesOn
<1>18. Drifts(w, w)
  BY DEF Drifts, Moved
<1>19. Sound(w, s, h2, r)'
  BY <1>2, <1>9, <1>10, <1>11, <1>12, <1>13, <1>16, <1>17, <1>18, FrameStep DEF history
<1> QED
  BY <1>19 DEF StepKeeps

-----------------------------------------------------------------------------
\* help_until() and wait().

\* A loop that is done counts no job any more.
LEMMA LoopDone ==
    ASSUME NEW w, NEW s, NEW h, NEW r, Sound(w, s, h, r), NEW j \in Job, remaining[j] <= 0
    PROVE  ChunksOf(r, j) = {}
<1>1. IsFiniteSet(ChunksOf(r, j)) /\ remaining[j] = Cardinality(ChunksOf(r, j))
  BY SoundParts, CountedParts DEF Counts
<1>2. Cardinality(ChunksOf(r, j)) \in Nat
  BY <1>1, FS_CardinalityType
<1>3. Cardinality(ChunksOf(r, j)) = 0
  BY <1>1, <1>2
<1> QED
  BY <1>1, <1>3, FS_EmptySet

\* help_until() goes on.
LEMMA HelpTurns ==
    ASSUME NEW w, NEW s, NEW h, NEW r, Sound(w, s, h, r), UNCHANGED ended,
           NEW t \in Thread, NEW d, NEW n, NEW e, OnTop(t, d, n, e), e.k = "help",
           NEW f, f.k = "help", f.until = e.until
    PROVE  Turns(d, n, e, f, Blank) /\ CountedHere(r, e, f, Blank) /\ FrameDeps(f) /\ FrameDeps(Blank)
<1>1. f # Blank
  BY DEF Blank
<1>2. \A j : Looping(f, j) <=> Looping(e, j)
  BY DEF Looping
<1>3. CountedHere(r, e, f, Blank)
  BY <1>2, BlankOK, LoopingIs DEF CountedHere, CountFrame
<1>4. FrameDeps(f)
  BY DEF FrameDeps, DepFrame
<1>5. Turns(d, n, e, f, Blank)
  <2>1. Waking(f) = Waking(e) /\ Waking(Blank) = None
    BY BlankHolds DEF Waking
  <2>2. KnowsAt(f, Blank) /\ KnowsAt(Blank, Blank) /\ SubmitOK(f, handle) /\ SubmitOK(Blank, handle)
    BY BlankOK DEF KnowsAt, SubmitOK
  <2>3. Follows(e, f)
    BY DEF Follows
  <2>4. HonTop(d, n, f, Blank)
    BY <1>1, BlankOK DEF HonTop, HonFrame
  <2>5. ~(d = External /\ stopping)
    BY NotStopping
  <2>6. ~(Blank.k = "body" /\ Blank.id = 0)
    BY DEF Blank
  <2>7. AboveOf(handle, f, Blank)
    BY BlankOK
  <2> QED
    BY <1>1, <2>1, <2>2, <2>3, <2>4, <2>5, <2>6, <2>7 DEF Turns, Goes
<1> QED
  BY <1>3, <1>4, <1>5, BlankOK

\* Frames that hold and ask for nothing.
LEMMA IdleFrames ==
    ASSUME NEW h, NEW e, NEW f, e.k \in {"help", "pfor", "join", "none"}, f.k \in {"help", "join", "none"},
           \A j \in Task : ~Asks(e, j)
    PROVE  HoldSame(e, f, Blank) /\ HolderOK(f) /\ HolderOK(Blank) /\ FrameQuiet(h, e, f, Blank)
<1>1. HoldSame(e, f, Blank)
  BY BlankHolds DEF HoldSame, Holds, Draining, Holders
<1>2. HolderOK(f) /\ HolderOK(Blank)
  BY BlankHolds DEF HolderOK
<1>3. FrameQuiet(h, e, f, Blank)
  BY BlankHolds, BlankOK DEF FrameQuiet, Asks, FrameFuture
<1> QED
  BY <1>1, <1>2, <1>3

\* A helping thread changes its phase and nothing else.
LEMMA HelpPlain ==
    ASSUME NEW w, NEW s, NEW h, NEW r, Sound(w, s, h, r),
           NEW t \in Thread, NEW d, NEW n, NEW e, OnTop(t, d, n, e), e.k = "help", NEW p \in {"check", "take"},
           Replace(t, [e EXCEPT !.pc = p]),
           UNCHANGED <<program, slots, alloc, live, queues, fibers, on, stopping, exited, history, remaining>>
    PROVE  Sound(w, s, h, r)'
<1>1. PICK f : f = [e EXCEPT !.pc = p]
  OBVIOUS
<1>2. e \in HelpFrame /\ Shapes
  BY TopFacts, FrameKinds, SoundParts
<1>3. f.k = "help" /\ f.until = e.until /\ f \in Frame
  BY <1>1, <1>2 DEF HelpFrame, Frame
<1>4. Swap(d, n, e, f, Blank)
  <2>1. Stacked(d, n, f, Blank)
    BY <1>1, <1>2, <1>3, Replaces
  <2> QED
    BY <2>1, SwapTop
<1>5. HoldSame(e, f, Blank) /\ HolderOK(f) /\ HolderOK(Blank) /\ FrameQuiet(h, e, f, Blank)
  <2>1. \A j \in Task : ~Asks(e, j)
    BY DEF Asks
  <2> QED
    BY <1>3, <2>1, IdleFrames
<1>6. Turns(d, n, e, f, Blank) /\ CountedHere(r, e, f, Blank) /\ FrameDeps(f) /\ FrameDeps(Blank)
  BY <1>3, HelpTurns DEF history
<1> QED
  BY <1>4, <1>5, <1>6, PlainStep

\* A helper finds no job and tries again (HelpYield).
LEMMA StepHelpYield ==
    ASSUME NEW w, NEW s, NEW h, NEW r, Sound(w, s, h, r), NEW t \in Thread, HelpYield(t)
    PROVE  StepKeeps
<1>1. Shapes /\ In(t, "help")
  BY SoundParts DEF HelpYield
<1>2. PICK d, n, e : OnTop(t, d, n, e) /\ e.k = "help"
  BY <1>1, HasTop
<1>3. Replace(t, [e EXCEPT !.pc = "check"])
  BY <1>2 DEF OnTop, HelpYield
<1>4. Sound(w, s, h, r)'
  BY <1>2, <1>3, HelpPlain DEF HelpYield
<1> QED
  BY <1>4 DEF StepKeeps

\* What a call was for is done when its help_until() is.
LEMMA HelpDone ==
    ASSUME NEW w, NEW s, NEW h, NEW r, Sound(w, s, h, r),
           NEW t \in Thread, NEW d, NEW n, NEW e, OnTop(t, d, n, e), e.k = "help", Done(e.until),
           n - 1 \in Pos, NEW x, x = FrameAt(d, n - 1), x.k = "body"
    PROVE  FulfilledIn(x.job, x.pc - 1, ended)
<1>1. Shapes /\ Placed(w) /\ Named(h) /\ Handled(h) /\ d \in Contexts /\ FrameAt(d, n) = e /\ e \in HelpFrame
  BY SoundParts, TopFacts, FrameKinds DEF OnTop
<1>2. Above(x, e) /\ e # Blank
  BY TopFacts
<1>3. x.pc > 1 /\ InCall(x.job, x.pc - 1, e)
  BY <1>2 DEF Above
<1>4. x.job \in Job /\ x.pc - 1 \in DOMAIN program.calls[x.job]
  <2>1. x \in Frame
    BY <1>1, FrameAtIn DEF Blank
  <2>2. x \in BodyFrame
    BY <2>1, FrameKinds
  <2> QED
    BY <2>2, <1>3 DEF BodyFrame, InCall
<1>5. PICK c : c = CallAt(x.job, x.pc - 1)
  OBVIOUS
<1>6. /\ c.op = "wait" => c.job \in Task
      /\ c.op = "pfor" => c.chunks \in Seq(Task)
  BY <1>1, <1>4, <1>5, CallTypes
<1>7. \/ c.op = "wait" /\ e.until = handle[c.job] /\ e.until # NoHandle
      \/ c.op = "pfor" /\ e.until = [group |-> x.job]
  BY <1>3, <1>5 DEF InCall
<1>8. CASE c.op = "wait" /\ e.until = handle[c.job] /\ e.until # NoHandle
  <2>1. handle[c.job] \in [id : {0} \cup Id, gen : Nat]
    BY <1>1, <1>6, <1>8 DEF Shapes, Task, HandleShape
  <2>2. "group" \notin DOMAIN handle[c.job]
    BY <2>1
  <2>3. IsComplete(handle[c.job])
    BY <1>8, <2>2 DEF Done
  <2>4. c.job \in ended
    BY <1>1, <1>6, <1>8, <2>3, CompleteEnded
  <2> QED
    BY <1>5, <1>8, <2>4 DEF FulfilledIn
<1>9. CASE c.op = "pfor" /\ e.until = [group |-> x.job]
  <2>1. remaining[x.job] <= 0
    BY <1>9 DEF Done
  <2>2. ChunksOf(r, x.job) = {}
    BY <1>4, <2>1, LoopDone
  <2>3. CountFrame(r, x, e, ended)
    <3>0. n \in Pos
      BY TopFacts
    <3>1. n - 1 + 1 = n
      BY <3>0 DEF Pos
    <3>2. CountFrames(r)
      BY SoundParts, CountedParts
    <3> QED
      BY <3>1, <3>2, <1>1 DEF CountFrames
  <2>4. Looping(e, x.job)
    BY <1>9 DEF Looping
  <2>5. \A k \in Range(c.chunks) : r[k] = x.job \/ k \in ended
    BY <1>4, <1>5, <2>3, <2>4 DEF CountFrame
  <2>6. \A k \in Range(c.chunks) : k \in Task
    BY <1>6, <1>9 DEF Range
  <2>7. Range(c.chunks) \subseteq ended
    BY <2>2, <2>5, <2>6 DEF ChunksOf
  <2> QED
    BY <1>5, <1>9, <2>7 DEF FulfilledIn
<1> QED
  BY <1>7, <1>8, <1>9

\* A helper returns when what it waits for has ended (HelpReturns).
LEMMA StepHelpReturns ==
    ASSUME NEW w, NEW s, NEW h, NEW r, Sound(w, s, h, r), NEW t \in Thread, HelpCheck(t), Done(Top(t).until)
    PROVE  StepKeeps
<1>1. Shapes /\ In(t, "help")
  BY SoundParts DEF HelpCheck
<1>2. PICK d, n, e : OnTop(t, d, n, e) /\ e.k = "help"
  BY <1>1, HasTop
<1>3. Top(t) = e
  BY <1>2 DEF OnTop
<1>4. Done(e.until) /\ Return(t)
  BY <1>3 DEF HelpCheck
<1>5. Swap(d, n, e, Blank, Blank)
  <2>1. Stacked(d, n, Blank, Blank)
    BY <1>1, <1>2, <1>4, Returns
  <2> QED
    BY <1>2, <2>1, SwapTop
<1>6. UNCHANGED <<program, slots, alloc, live, queues, fibers, on, stopping, exited, history, remaining>>
  BY DEF HelpCheck
<1>7. HoldSame(e, Blank, Blank) /\ HolderOK(Blank) /\ FrameQuiet(h, e, Blank, Blank)
  <2>1. \A j \in Task : ~Asks(e, j)
    BY <1>2 DEF Asks
  <2>2. Blank.k = "none"
    BY DEF Blank
  <2> QED
    BY <1>2, <2>1, <2>2, IdleFrames
<1>8. CountedHere(r, e, Blank, Blank)
  <2>1. ASSUME NEW j \in Job, Looping(e, j) PROVE ChunksOf(r, j) = {}
    <3>1. e.until = [group |-> j]
      BY <1>2, <2>1 DEF Looping
    <3>2. remaining[j] <= 0
      BY <1>4, <3>1 DEF Done
    <3> QED
      BY <3>2, LoopDone
  <2> QED
    BY <2>1, BlankOK, LoopingIs DEF CountedHere
<1>9. Turns(d, n, e, Blank, Blank)
  <2>1. Waking(Blank) = Waking(e) /\ Waking(Blank) = None
    BY <1>2, BlankHolds DEF Waking
  <2>2. n # 1
    <3>1. n = 1 => BasedBy(d, e)
      BY <1>2, TopFacts DEF OnTop
    <3> QED
      BY <3>1, <1>2, TopFacts DEF BasedBy
  <2>3. Follows(e, Blank)
    BY DEF Follows
  <2>4. HonTop(d, n, Blank, Blank)
    BY <1>2, <1>4, HelpDone, BlankOK DEF HonTop
  <2>5. ~(Blank.k = "body" /\ Blank.id = 0) /\ Blank.k # "submit"
    BY DEF Blank
  <2> QED
    BY <1>2, <2>1, <2>2, <2>3, <2>4, <2>5, BlankOK DEF Turns, Goes
<1>10. Sound(w, s, h, r)'
  BY <1>2, <1>5, <1>6, <1>7, <1>8, <1>9, BlankOK, PlainStep
<1> QED
  BY <1>10 DEF StepKeeps

\* A helper finds that what it waits for has not ended (HelpCheck).
LEMMA StepHelpCheck ==
    ASSUME NEW w, NEW s, NEW h, NEW r, Sound(w, s, h, r), NEW t \in Thread, HelpCheck(t)
    PROVE  StepKeeps
<1>1. CASE Done(Top(t).until)
  BY <1>1, StepHelpReturns
<1>2. CASE ~Done(Top(t).until)
  <2>1. Shapes /\ In(t, "help")
    BY SoundParts DEF HelpCheck
  <2>2. PICK d, n, e : OnTop(t, d, n, e) /\ e.k = "help"
    BY <2>1, HasTop
  <2>3. Replace(t, [e EXCEPT !.pc = "take"])
    BY <1>2, <2>2 DEF OnTop, HelpCheck
  <2>4. Sound(w, s, h, r)'
    BY <2>2, <2>3, HelpPlain DEF HelpCheck
  <2> QED
    BY <2>4 DEF StepKeeps
<1> QED
  BY <1>1, <1>2

-----------------------------------------------------------------------------
\* parallel_for() and stop().

\* What is known in the frame of parallel_for().
LEMMA ChunkTypes ==
    ASSUME NEW w, NEW s, NEW h, NEW r, Sound(w, s, h, r),
           NEW t \in Thread, NEW d, NEW n, NEW e, OnTop(t, d, n, e), e.k = "pfor"
    PROVE  /\ e \in ChunkFrame /\ e.job \in Job /\ e.list \in Seq(Task)
           /\ \A k \in Range(e.list) : r[k] = e.job
           /\ \A k, v \in Task : Depends(k, v) => k \notin Range(e.list)
<1>1. e \in ChunkFrame
  BY TopFacts, FrameKinds
<1>2. CountFrame(r, e, Blank, ended) /\ \A k, v \in Task : Depends(k, v) => DepFrame(e, k, v, ended)
  BY TopFacts
<1> QED
  BY <1>1, <1>2 DEF ChunkFrame, CountFrame, DepFrame

\* parallel_for() has submitted its chunks and helps until they are counted (ParForHelp).
LEMMA StepParForHelp ==
    ASSUME NEW w, NEW s, NEW h, NEW r, Sound(w, s, h, r), NEW t \in Thread, ParForHelp(t)
    PROVE  StepKeeps
<1>1. Shapes /\ In(t, "pfor")
  BY SoundParts DEF ParForHelp
<1>2. PICK d, n, e : OnTop(t, d, n, e) /\ e.k = "pfor"
  BY <1>1, HasTop
<1>3. Top(t) = e
  BY <1>2 DEF OnTop
<1>4. e.list = <<>> /\ e.job \in Job
  BY <1>2, <1>3, ChunkTypes DEF ParForHelp
<1>5. PICK f : f = Help(t, [group |-> e.job])
  OBVIOUS
<1>6. f.k = "help" /\ f.until = [group |-> e.job] /\ f \in Frame /\ f # Blank
  BY <1>4, <1>5 DEF Help, Frame, HelpFrame, Blank
<1>7. Swap(d, n, e, f, Blank)
  <2>1. Replace(t, f)
    BY <1>3, <1>5 DEF ParForHelp, SelfOf
  <2>2. Stacked(d, n, f, Blank)
    BY <1>1, <1>2, <1>6, <2>1, Replaces
  <2> QED
    BY <1>2, <2>2, SwapTop
<1>8. HoldSame(e, f, Blank) /\ HolderOK(f) /\ HolderOK(Blank) /\ FrameQuiet(h, e, f, Blank)
  <2>1. \A j \in Task : ~Asks(e, j)
    BY <1>2, <1>4 DEF Asks, Range
  <2> QED
    BY <1>2, <1>6, <2>1, IdleFrames
<1>9. \A j : Looping(f, j) <=> Looping(e, j)
  <2>1. \A j : [group |-> e.job] = [group |-> j] <=> e.job = j
    <3>1. ASSUME NEW j, [group |-> e.job] = [group |-> j] PROVE e.job = j
      <4>1. [group |-> e.job].group = [group |-> j].group
        BY <3>1
      <4> QED
        BY <4>1
    <3> QED
      BY <3>1
  <2> QED
    BY <1>2, <1>6, <2>1 DEF Looping
<1>10. CountedHere(r, e, f, Blank)
  BY <1>6, <1>9, BlankOK, LoopingIs DEF CountedHere, CountFrame
<1>11. FrameDeps(f)
  BY <1>6 DEF FrameDeps, DepFrame
<1>12. Turns(d, n, e, f, Blank)
  <2>1. Waking(f) = Waking(e) /\ Waking(Blank) = None
    BY <1>2, <1>6, BlankHolds DEF Waking
  <2>2. KnowsAt(f, Blank) /\ KnowsAt(Blank, Blank) /\ SubmitOK(f, handle) /\ SubmitOK(Blank, handle)
    BY <1>6, BlankOK DEF KnowsAt, SubmitOK
  <2>3. Follows(e, f)
    BY <1>2, <1>6 DEF Follows
  <2>4. HonTop(d, n, f, Blank)
    BY <1>6, BlankOK DEF HonTop, HonFrame
  <2>5. ~(d = External /\ stopping)
    BY <1>2, NotStopping
  <2>6. ~(Blank.k = "body" /\ Blank.id = 0)
    BY DEF Blank
  <2>7. AboveOf(handle, f, Blank)
    BY BlankOK
  <2> QED
    BY <1>2, <1>6, <2>1, <2>2, <2>3, <2>4, <2>5, <2>6, <2>7 DEF Turns, Goes
<1>13. Sound(w, s, h, r)'
  BY <1>2, <1>7, <1>8, <1>10, <1>11, <1>12, BlankOK, PlainStep DEF ParForHelp
<1> QED
  BY <1>13 DEF StepKeeps

\* stop() returns once every worker has left (Joined).
LEMMA StepJoined ==
    ASSUME NEW w, NEW s, NEW h, NEW r, Sound(w, s, h, r), NEW t \in Thread, Joined(t)
    PROVE  StepKeeps
<1>1. Shapes /\ In(t, "join")
  BY SoundParts DEF Joined
<1>2. PICK d, n, e : OnTop(t, d, n, e) /\ e.k = "join"
  BY <1>1, HasTop
<1>3. Swap(d, n, e, Blank, Blank)
  <2>1. Stacked(d, n, Blank, Blank)
    BY <1>1, <1>2, Returns DEF Joined
  <2> QED
    BY <1>2, <2>1, SwapTop
<1>4. HoldSame(e, Blank, Blank) /\ HolderOK(Blank) /\ FrameQuiet(h, e, Blank, Blank)
  <2>1. \A j \in Task : ~Asks(e, j)
    BY <1>2 DEF Asks
  <2>2. Blank.k = "none"
    BY DEF Blank
  <2> QED
    BY <1>2, <2>1, <2>2, IdleFrames
<1>5. CountedHere(r, e, Blank, Blank)
  BY <1>2, BlankOK, LoopingIs DEF CountedHere
<1>6. Turns(d, n, e, Blank, Blank)
  <2>1. Waking(Blank) = Waking(e) /\ Waking(Blank) = None
    BY <1>2, BlankHolds DEF Waking
  <2>2. n # 1
    <3>1. n = 1 => BasedBy(d, e)
      BY <1>2, TopFacts DEF OnTop
    <3> QED
      BY <3>1, <1>2, TopFacts DEF BasedBy
  <2>3. Follows(e, Blank)
    BY DEF Follows
  <2>4. HonTop(d, n, Blank, Blank)
    <3>1. PICK x : x = FrameAt(d, n - 1)
      OBVIOUS
    <3>2. ASSUME n - 1 \in Pos, x.k = "body" PROVE FulfilledIn(x.job, x.pc - 1, ended)
      <4>1. Above(x, e)
        BY <1>2, <3>1, <3>2, TopFacts
      <4>2. InCall(x.job, x.pc - 1, e)
        BY <1>2, <3>2, <4>1 DEF Above, Blank
      <4>3. CallAt(x.job, x.pc - 1).op = "stop"
        BY <1>2, <4>2 DEF InCall
      <4> QED
        BY <4>3 DEF FulfilledIn
    <3> QED
      BY <3>1, <3>2, BlankOK DEF HonTop
  <2>5. ~(Blank.k = "body" /\ Blank.id = 0) /\ Blank.k # "submit"
    BY DEF Blank
  <2> QED
    BY <1>2, <2>1, <2>2, <2>3, <2>4, <2>5, BlankOK DEF Turns, Goes
<1>7. Sound(w, s, h, r)'
  BY <1>2, <1>3, <1>4, <1>5, <1>6, BlankOK, PlainStep DEF Joined
<1> QED
  BY <1>7 DEF StepKeeps

\* parallel_for() submits its next chunk (ParForChunk).
LEMMA StepParForChunk ==
    ASSUME NEW w, NEW s, NEW h, NEW r, Sound(w, s, h, r), NEW t \in Thread, ParForChunk(t)
    PROVE  StepKeeps
<1>1. Shapes /\ Placed(w) /\ Named(h) /\ In(t, "pfor")
  BY SoundParts DEF ParForChunk
<1>2. PICK d, n, e : OnTop(t, d, n, e) /\ e.k = "pfor"
  BY <1>1, HasTop
<1>3. Top(t) = e
  BY <1>2 DEF OnTop
<1>4. /\ e \in ChunkFrame /\ e.job \in Job /\ e.list \in Seq(Task) /\ e.list # <<>>
      /\ \A k \in Range(e.list) : r[k] = e.job
      /\ \A k, v \in Task : Depends(k, v) => k \notin Range(e.list)
  BY <1>2, <1>3, ChunkTypes DEF ParForChunk
<1>5. PICK j0, q : j0 = Head(e.list) /\ q = Tail(e.list)
  OBVIOUS
<1>6. j0 \in Task /\ j0 \in Range(e.list) /\ q \in Seq(Task) /\ Range(q) \subseteq Range(e.list)
  <2>1. q \in Seq(Task) /\ j0 \in Task /\ j0 \in Range(e.list)
    BY <1>4, <1>5, TailQ
  <2>2. Range(q) \subseteq Range(e.list)
    BY <1>4, <1>5 DEF Range
  <2> QED
    BY <2>1, <2>2
<1>7. PICK f, g : f = [e EXCEPT !.list = q] /\ g = Submission(j0, None, e.job)
  OBVIOUS
<1>8. f.k = "pfor" /\ f.list = q /\ f.job = e.job /\ f \in Frame /\ f # Blank
  BY <1>4, <1>6, <1>7 DEF ChunkFrame, Frame, Blank
<1>9. /\ g.k = "submit" /\ g.job = j0 /\ g.dep = None /\ g.group = e.job /\ g.id = 0 /\ g.pc = "room"
      /\ g \in Frame /\ g # Blank
  BY <1>4, <1>6, <1>7 DEF Submission, SubmitFrame, Frame, Blank
<1>10. Swap(d, n, e, f, g)
  <2>1. Call(t, f, g)
    BY <1>3, <1>5, <1>7 DEF ParForChunk
  <2>2. Stacked(d, n, f, g)
    BY <1>1, <1>2, <1>8, <1>9, <2>1, Calls1
  <2> QED
    BY <1>2, <2>2, SwapTop
<1>11. UNCHANGED <<program, slots, alloc, live, queues, fibers, on, stopping, exited, history, remaining>>
  BY DEF ParForChunk
<1>12. PICK h2 : MoveTo(h, h2, j0, Asked(d, n + 1))
  BY DEF MoveTo
<1>13. Named(h2)' /\ h[j0] = Asked(d, n)
  <2>1. UNCHANGED <<program, slots, begun, ended, handle>>
    BY <1>11 DEF history
  <2> QED
    BY <1>1, <1>2, <1>4, <1>5, <1>8, <1>9, <1>10, <1>12, <2>1, NamedChunk
<1>14. handle[j0] = NoHandle
  BY <1>1, <1>6, <1>13, Stages DEF Named
<1>15. Shapes'
  BY <1>1, <1>10, <1>11, ShapesStack DEF Swap, Stacked
<1>16. Placed(w)'
  <2>1. HolderOK(f) /\ HolderOK(g)
    BY <1>8, <1>9 DEF HolderOK
  <2>2. 0 \notin Id
    BY Sizes
  <2>3. HoldSame(e, f, g)
    BY <1>2, <1>8, <1>9, <2>2 DEF HoldSame, Holds, Draining, Holders
  <2>4. \A j \in Task : j \in ended' <=> j \in ended
    BY <1>11 DEF history
  <2> QED
    BY <1>1, <1>10, <1>11, <2>1, <2>3, <2>4, PlacedQuiet DEF queues, history
<1>17. NamesOn(h, h2)
  <2>1. \A j \in Job : h2[j] = IF j = j0 THEN Asked(d, n + 1) ELSE h[j]
    BY <1>1, <1>12 DEF MoveTo, Named
  <2>2. Asked(d, n + 1)[1] = "asked" /\ Asked(d, n + 1) # New /\ Asked(d, n) # New
    BY Stages
  <2>3. \A j \in Task : j \in Job
    BY DEF Task
  <2> QED
    BY <1>13, <1>14, <2>1, <2>2, <2>3 DEF NamesOn
<1>18. CountedHere(r, e, f, g)
  <2>1. \A j : (Looping(f, j) <=> Looping(e, j)) /\ ~Looping(g, j)
    BY <1>2, <1>8, <1>9 DEF Looping
  <2>2. CountFrame(r, f, g, ended')
    BY <1>4, <1>6, <1>8 DEF CountFrame
  <2>3. CountFrame(r, g, Blank, ended')
    BY <1>4, <1>6, <1>9 DEF CountFrame
  <2> QED
    BY <2>1, <2>2, <2>3 DEF CountedHere
<1>19. FrameDeps(f) /\ FrameDeps(g)
  BY <1>4, <1>6, <1>8, <1>9 DEF FrameDeps, DepFrame
<1>20. Turns(d, n, e, f, g)
  <2>1. Waking(f) = Waking(e) /\ Waking(g) = None
    BY <1>2, <1>8, <1>9 DEF Waking
  <2>2. KnowsAt(f, g) /\ KnowsAt(g, Blank)
    BY <1>8, <1>9 DEF KnowsAt
  <2>3. SubmitOK(f, handle) /\ SubmitOK(g, handle)
    BY <1>8, <1>9, <1>14 DEF SubmitOK
  <2>4. Follows(e, f)
    BY <1>2, <1>8 DEF Follows
  <2>5. HonTop(d, n, f, g)
    BY <1>8, <1>9 DEF HonTop, HonFrame
  <2>6. ~(d = External /\ stopping)
    BY <1>2, NotStopping
  <2>7. AboveOf(handle, f, g)
    BY <1>8, <1>9 DEF AboveOf
  <2> QED
    BY <1>2, <1>8, <1>9, <2>1, <2>2, <2>3, <2>4, <2>5, <2>6, <2>7 DEF Turns, Goes
<1>21. Drifts(w, w)
  BY DEF Drifts, Moved
<1>22. Sound(w, s, h2, r)'
  BY <1>2, <1>10, <1>11, <1>13, <1>15, <1>16, <1>17, <1>18, <1>19, <1>20, <1>21, FrameStep DEF history
<1> QED
  BY <1>22 DEF StepKeeps

-----------------------------------------------------------------------------
\* Taking a job.

\* A job taken from a queue has not begun.
LEMMA TakenJob ==
    ASSUME NEW w, NEW s, NEW h, NEW r, Sound(w, s, h, r), UNCHANGED <<program, slots, ended, handle>>,
           NEW self, NEW id \in Id, TryGetJob(self, self, id), Begin(id)
    PROVE  /\ w[id][1] \in {"deque", "inject"} /\ slots[id].gen # 0 /\ slots[id].job \in Task
           /\ begun[slots[id].job] = 0 /\ h[slots[id].job] = InSlot(id)
           /\ begun' \in [Job -> Nat] /\ QueueTypes' /\ HistoryMove(h)
           /\ Unasked(h, slots[id].job, 1) /\ Knows(slots[id].job, 1)
<1>1. Shapes /\ Placed(w) /\ Named(h) /\ Known(h) /\ Queued(w)
  BY SoundParts DEF Placed
<1>2. w[id][1] \in {"deque", "inject"} /\ QueueTypes'
  <2>1. QueueTypes
    BY <1>1 DEF Shapes, QueueTypes
  <2> QED
    BY <1>1, <2>1, Taken
<1>3. PICK j : j = slots[id].job
  OBVIOUS
<1>4. slots[id].gen # 0 /\ j \in Task /\ begun[j] = 0
  <2>1. PICK a : a = w[id][1]
    OBVIOUS
  <2>2. SlotOK(id, a)
    BY <1>1, <2>1 DEF Placed, Alive
  <2> QED
    BY <1>2, <1>3, <2>1, <2>2 DEF SlotOK
<1>5. h[j] = InSlot(id)
  BY <1>1, <1>3, <1>4 DEF Named
<1>6. begun' = [begun EXCEPT ![j] = @ + 1]
  <2>1. j # None
    BY <1>1, <1>4, Programmed DEF Shapes, Task
  <2> QED
    BY <1>3, <2>1 DEF Begin
<1>7. begun \in [Job -> Nat] /\ j \in Job /\ j # "main"
  BY <1>1, <1>4 DEF Shapes, Task
<1>8. begun' \in [Job -> Nat] /\ \A k \in Job : begun'[k] = IF k = j THEN begun[j] + 1 ELSE begun[k]
  BY <1>6, <1>7
<1>9. HistoryMove(h)
  <2>1. begun["main"] = 0 /\ handle["main"] = NoHandle
    BY <1>1 DEF Named
  <2>2. "main" \in Job
    BY <1>1, Programmed DEF Shapes
  <2>3. begun[j] + 1 # 0
    BY <1>7
  <2> QED
    BY <1>4, <1>5, <1>7, <1>8, <2>1, <2>2, <2>3 DEF HistoryMove, Task
<1>10. Unasked(h, j, 1)
  BY <1>1, <1>4 DEF Named
<1>11. Knows(j, 1)
  <2>1. h[j] # New
    BY <1>5, Stages
  <2> QED
    BY <1>1, <1>4, <2>1, KnowsFirst
<1> QED
  BY <1>2, <1>3, <1>4, <1>5, <1>8, <1>9, <1>10, <1>11

StartsBody(h, r, id, g) ==
    /\ g \in Frame /\ g # Blank /\ g.k = "body" /\ g.id = id /\ g.id # 0 /\ g.pc = 1
    /\ g.job = slots[id].job
    /\ HolderOK(g) /\ Waking(g) = None /\ SubmitOK(g, handle) /\ KnowsAt(g, Blank)
    /\ FrameFuture(h, g) /\ FrameDeps(g) /\ Draining(g) = 0
    /\ \A S, left : HonFrame(g, Blank, S, left) /\ CountFrame(r, g, Blank, S)
    /\ \A j : ~Looping(g, j) /\ ~Asks(g, j)

\* The frame of a body that starts.
LEMMA BodyStarts ==
    ASSUME NEW h, NEW r, Shapes, NEW id \in Id, slots[id].job \in Task, Unasked(h, slots[id].job, 1),
           Knows(slots[id].job, 1), NEW g, g = Body(id, slots[id].job)
    PROVE  StartsBody(h, r, id, g)
<1>1. slots[id].job \in Job
  BY DEF Task
<1>2. g \in BodyFrame /\ g.k = "body" /\ g.id = id /\ g.pc = 1 /\ g.job = slots[id].job
  BY <1>1 DEF Body, BodyFrame, Pos
<1>3. g \in Frame /\ g # Blank /\ g.id # 0
  BY <1>2, Sizes DEF Frame, Blank
<1>4. HolderOK(g) /\ Waking(g) = None /\ SubmitOK(g, handle) /\ Draining(g) = 0 /\ FrameDeps(g)
  BY <1>2 DEF HolderOK, Waking, SubmitOK, Draining, FrameDeps, DepFrame
<1>5. KnowsAt(g, Blank)
  BY <1>2 DEF KnowsAt, Past, Blank
<1>6. FrameFuture(h, g)
  BY <1>2 DEF FrameFuture
<1>7. \A j : ~Looping(g, j) /\ ~Asks(g, j)
  BY <1>2 DEF Looping, Asks
<1>8. \A S, left : HonFrame(g, Blank, S, left) /\ CountFrame(r, g, Blank, S)
  BY <1>2, LoopingIs DEF HonFrame, CountFrame
<1> QED
  BY <1>2, <1>3, <1>4, <1>5, <1>6, <1>7, <1>8 DEF StartsBody

\* A call takes a job up.
LEMMA TakeOver ==
    ASSUME NEW w, NEW s, NEW h, NEW r, Sound(w, s, h, r),
           NEW t \in Thread, NEW d, NEW n, NEW e, OnTop(t, d, n, e), e.k \in {"help", "submit"},
           NEW f, e.k = "submit" => f = e, e.k = "help" => f.k = "help" /\ f.until = e.until,
           NEW self, NEW id \in Id, TryGetJob(self, self, id), Begin(id),
           NEW g, g = Body(id, slots[id].job), Swap(d, n, e, f, g),
           UNCHANGED <<program, slots, alloc, live, fibers, on, stopping, exited, handle, ended, remaining>>
    PROVE  \E w2 : Sound(w2, s, h, r)'
<1>1. Shapes /\ Placed(w) /\ Named(h) /\ JobsApart
  BY SoundParts
<1>2. /\ w[id][1] \in {"deque", "inject"} /\ slots[id].gen # 0 /\ slots[id].job \in Task
      /\ h[slots[id].job] = InSlot(id) /\ begun' \in [Job -> Nat] /\ QueueTypes' /\ HistoryMove(h)
      /\ Unasked(h, slots[id].job, 1) /\ Knows(slots[id].job, 1)
  BY TakenJob
<1>3. /\ g \in Frame /\ g # Blank /\ g.k = "body" /\ g.id = id /\ g.id # 0
      /\ HolderOK(g) /\ Waking(g) = None /\ SubmitOK(g, handle) /\ KnowsAt(g, Blank)
      /\ FrameFuture(h, g) /\ FrameDeps(g) /\ Draining(g) = 0
      /\ \A S, left : HonFrame(g, Blank, S, left) /\ CountFrame(r, g, Blank, S)
      /\ \A j : ~Looping(g, j) /\ ~Asks(g, j)
  <2>1. StartsBody(h, r, id, g)
    BY <1>1, <1>2, BodyStarts
  <2> QED
    BY <2>1 DEF StartsBody
<1>4. /\ HolderOK(e) /\ SubmitOK(e, handle) /\ CountFrame(r, e, Blank, ended) /\ FrameFuture(h, e)
      /\ \A k, v \in Task : Depends(k, v) => DepFrame(e, k, v, ended)
  BY TopFacts
<1>5. f.k = e.k /\ f # Blank /\ f.k \notin {"body", "finish", "pfor"}
  BY DEF Blank
<1>6. PICK w2 : w2 = [w EXCEPT ![id] = Held("body", d, n + 1)]
  OBVIOUS
<1>7. Placed(w2)'
  <2>0. n \in Pos
    BY TopFacts
  <2>1. n # n + 1
    BY <2>0 DEF Pos
  <2>2. Draining(e) = 0 /\ Draining(f) = 0
    BY <1>5 DEF Draining
  <2>3. HolderOK(f)
    BY <1>4, <1>5 DEF HolderOK
  <2>4. \A x \in Id, k \in Holders : Holds(f, k, x) <=> Holds(e, k, x)
    BY <1>5 DEF Holds, Holders
  <2>5. \A x \in Id, k \in Holders : Holds(g, k, x) <=> k = "body" /\ x = id
    BY <1>3 DEF Holds
  <2>6. TakeMove(e, f, g, n, n + 1, id)
    BY <1>3, <2>1, <2>2, <2>3, <2>4, <2>5 DEF TakeMove
  <2> QED
    BY <1>1, <1>6, <2>6, PlacedTake
<1>8. Shapes'
  <2>1. stack' \in [Contexts -> Seq(Frame)]
    BY DEF Swap, Stacked
  <2> QED
    BY <1>1, <1>2, <2>1, ShapesNext DEF Shapes, fibers
<1>9. Named(h)'
  <2>1. FrameQuiet(h, e, f, g)
    BY <1>3, <1>4, <1>5 DEF FrameQuiet, FrameFuture, Asks
  <2>2. \A x \in Id : slots'[x].job = slots[x].job
    OBVIOUS
  <2> QED
    BY <1>1, <1>2, <2>1, <2>2, NamedQuiet
<1>10. Drifts(w, w2)
  <2>1. \A x \in Id : w2[x] = IF x = id THEN Held("body", d, n + 1) ELSE w[x]
    BY <1>1, <1>6 DEF Placed
  <2>2. Held("body", d, n + 1)[1] = "body" /\ w[id] # Unused
    BY <1>2, Tokens
  <2> QED
    BY <1>2, <2>1, <2>2 DEF Drifts, Moved
<1>11. NamesOn(h, h)
  BY DEF NamesOn
<1>12. CountedHere(r, e, f, g)
  <2>1. \A j : Looping(f, j) <=> Looping(e, j)
    BY <1>5 DEF Looping
  <2>2. CountFrame(r, f, g, ended')
    BY <1>4, <1>5 DEF CountFrame
  <2> QED
    BY <1>3, <2>1, <2>2 DEF CountedHere
<1>13. FrameDeps(f)
  BY <1>4, <1>5 DEF FrameDeps, DepFrame
<1>14. Turns(d, n, e, f, g)
  <2>1. Waking(f) = Waking(e)
    BY <1>5 DEF Waking
  <2>2. KnowsAt(f, g)
    BY <1>5 DEF KnowsAt
  <2>3. SubmitOK(f, handle)
    BY <1>4, <1>5 DEF SubmitOK
  <2>4. Follows(e, f)
    BY <1>5 DEF Follows
  <2>5. HonTop(d, n, f, g)
    BY <1>3, <1>5 DEF HonTop, HonFrame
  <2>6. ~(d = External /\ stopping)
    BY NotStopping
  <2>7. AboveOf(handle, f, g)
    BY <1>3, <1>5 DEF AboveOf
  <2> QED
    BY <1>3, <1>5, <2>1, <2>2, <2>3, <2>4, <2>5, <2>6, <2>7 DEF Turns, Goes
<1> QED
  BY <1>3, <1>7, <1>8, <1>9, <1>10, <1>11, <1>12, <1>13, <1>14, FrameStep

\* allocate_slot finds the ring full and runs a job in the meantime (AllocHelp).
LEMMA StepAllocHelp ==
    ASSUME NEW w, NEW s, NEW h, NEW r, Sound(w, s, h, r), NEW t \in Thread, AllocHelp(t)
    PROVE  StepKeeps
<1>1. Shapes /\ In(t, "submit")
  BY SoundParts DEF AllocHelp
<1>2. PICK d, n, e : OnTop(t, d, n, e) /\ e.k = "submit"
  BY <1>1, HasTop
<1>3. Top(t) = e /\ e \in Frame
  BY <1>2 DEF OnTop
<1>4. PICK id \in Id : TryGetJob(t, t, id) /\ Begin(id) /\ Call(t, e, Body(id, slots[id].job))
  BY <1>3 DEF AllocHelp
<1>5. PICK g : g = Body(id, slots[id].job)
  OBVIOUS
<1>6. UNCHANGED <<program, slots, alloc, live, fibers, on, stopping, exited, handle, ended, remaining>>
  BY DEF AllocHelp
<1>7. Swap(d, n, e, e, g)
  <2>1. g \in Frame
    <3>1. slots[id].job \in Task /\ Unasked(h, slots[id].job, 1) /\ Knows(slots[id].job, 1)
      BY <1>4, <1>6, TakenJob
    <3> QED
      BY <1>1, <1>5, <3>1, BodyStarts DEF StartsBody
  <2>2. Call(t, e, g)
    BY <1>4, <1>5
  <2>3. Stacked(d, n, e, g)
    BY <1>1, <1>2, <1>3, <2>1, <2>2, Calls1
  <2> QED
    BY <1>2, <2>3, SwapTop
<1>8. \E w2 : Sound(w2, s, h, r)'
  <2>1. e.k \in {"help", "submit"} /\ e.k # "help"
    BY <1>2
  <2> QED
    BY <1>2, <1>4, <1>5, <1>6, <1>7, <2>1, TakeOver
<1> QED
  BY <1>8 DEF StepKeeps

\* A helper that pops its own deque takes a job and runs it on its own stack (HelpTake).
LEMMA StepHelpTake ==
    ASSUME NEW w, NEW s, NEW h, NEW r, Sound(w, s, h, r), NEW t \in Thread, HelpTake(t), Top(t).self = t
    PROVE  StepKeeps
<1>1. Shapes /\ In(t, "help")
  BY SoundParts DEF HelpTake
<1>2. PICK d, n, e : OnTop(t, d, n, e) /\ e.k = "help"
  BY <1>1, HasTop
<1>3. Top(t) = e /\ e \in HelpFrame
  BY <1>2, TopFacts, FrameKinds DEF OnTop
<1>4. PICK f : f = [e EXCEPT !.pc = "check"]
  OBVIOUS
<1>5. f.k = "help" /\ f.until = e.until /\ f \in Frame
  BY <1>3, <1>4 DEF HelpFrame, Frame
<1>6. PICK id \in Id : TryGetJob(t, t, id) /\ Begin(id) /\ Call(t, f, Body(id, slots[id].job))
  BY <1>3, <1>4 DEF HelpTake
<1>7. PICK g : g = Body(id, slots[id].job)
  OBVIOUS
<1>8. UNCHANGED <<program, slots, alloc, live, fibers, on, stopping, exited, handle, ended, remaining>>
  BY DEF HelpTake
<1>9. Swap(d, n, e, f, g)
  <2>1. g \in Frame
    <3>1. slots[id].job \in Task /\ Unasked(h, slots[id].job, 1) /\ Knows(slots[id].job, 1)
      BY <1>6, <1>8, TakenJob
    <3>2. StartsBody(h, r, id, g)
      BY <1>1, <1>7, <3>1, BodyStarts
    <3> QED
      BY <3>2 DEF StartsBody
  <2>2. Call(t, f, g)
    BY <1>6, <1>7
  <2>3. Stacked(d, n, f, g)
    BY <1>1, <1>2, <1>5, <2>1, <2>2, Calls1
  <2> QED
    BY <1>2, <2>3, SwapTop
<1>10. \E w2 : Sound(w2, s, h, r)'
  <2>1. e.k \in {"help", "submit"} /\ e.k # "submit"
    BY <1>2
  <2> QED
    BY <1>2, <1>5, <1>6, <1>7, <1>8, <1>9, <2>1, TakeOver
<1> QED
  BY <1>10 DEF StepKeeps

-----------------------------------------------------------------------------
\* finish_job() goes on.
LEMMA FinishGoes ==
    ASSUME NEW w, NEW s, NEW h, NEW r, Sound(w, s, h, r),
           NEW t \in Thread, NEW d, NEW n, NEW e, OnTop(t, d, n, e), e.k = "finish",
           NEW f, f.k = "finish", f.id = e.id
    PROVE  /\ Goes(d, n, e, f, Blank) /\ FrameDeps(f) /\ FrameDeps(Blank)
           /\ CountedHere(r, e, f, Blank) /\ FrameQuiet(h, e, f, Blank)
<1>1. f # Blank
  BY DEF Blank
<1>2. \A j : ~Looping(f, j) /\ ~Looping(e, j)
  BY LoopingIs
<1>3. CountedHere(r, e, f, Blank)
  BY <1>2, BlankOK, LoopingIs DEF CountedHere, CountFrame
<1>4. FrameDeps(f)
  BY DEF FrameDeps, DepFrame
<1>5. FrameQuiet(h, e, f, Blank)
  BY BlankHolds, BlankOK DEF FrameQuiet, Asks, FrameFuture
<1>6. Goes(d, n, e, f, Blank)
  <2>2. KnowsAt(f, Blank) /\ KnowsAt(Blank, Blank) /\ SubmitOK(f, handle) /\ SubmitOK(Blank, handle)
    BY BlankOK DEF KnowsAt, SubmitOK
  <2>3. Follows(e, f)
    BY DEF Follows
  <2>4. HonTop(d, n, f, Blank)
    BY <1>1, BlankOK DEF HonTop, HonFrame
  <2>5. ~(d = External /\ stopping)
    BY NotStopping
  <2>6. ~(Blank.k = "body" /\ Blank.id = 0)
    BY DEF Blank
  <2>7. AboveOf(handle, f, Blank)
    BY BlankOK
  <2> QED
    BY <1>1, <2>2, <2>3, <2>4, <2>5, <2>6, <2>7 DEF Goes
<1> QED
  BY <1>3, <1>4, <1>5, <1>6, BlankOK

FinishTo(e, f, x, p) == f = [e EXCEPT !.cur = x, !.pc = p]

\* A thread that finishes a job: its frame.
LEMMA Finishes1 ==
    ASSUME NEW w, NEW s, NEW h, NEW r, Sound(w, s, h, r), NEW t \in Thread, NEW p, Finishing(t, p)
    PROVE  \E d, n, e : /\ OnTop(t, d, n, e) /\ e.k = "finish" /\ Top(t) = e
                        /\ e \in FinishFrame /\ e.id \in Id /\ e.pc = p
<1>1. Shapes /\ In(t, "finish")
  BY SoundParts DEF Finishing
<1>2. PICK d, n, e : OnTop(t, d, n, e) /\ e.k = "finish"
  BY <1>1, HasTop
<1>3. Top(t) = e /\ e.pc = p
  BY <1>2 DEF OnTop, Finishing
<1>4. e \in FinishFrame
  BY <1>2, TopFacts, FrameKinds
<1> QED
  BY <1>2, <1>3, <1>4 DEF FinishFrame

\* The next phase of finish_job is a frame.
LEMMA FinishMoves ==
    ASSUME NEW e \in FinishFrame, NEW x, NEW p,
           NEW f, FinishTo(e, f, x, p),
           p \in {"dependents", "enqueue", "waiters", "resume", "group", "live"},
           x \in {0, Closed, None, Shut} \cup Id \cup Fiber,
           p = "enqueue" => x \in Id, p = "resume" => x \in Fiber
    PROVE  f \in Frame /\ f.k = "finish" /\ f.id = e.id /\ f.cur = x /\ f.pc = p
BY DEF FinishTo, FinishFrame, Frame

\* What is known in the frame of finish_job.
LEMMA FinishHolds ==
    ASSUME NEW w, NEW s, NEW h, NEW r, Sound(w, s, h, r),
           NEW t \in Thread, NEW d, NEW n, NEW e, OnTop(t, d, n, e), e.k = "finish", e.id \in Id
    PROVE  /\ w[e.id] = Held("finish", d, n) /\ slots[e.id].gen # 0 /\ slots[e.id].job \in Task
           /\ slots[e.id].job \in ended /\ HolderOK(e)
           /\ e.pc # "dependents" <=> IsClosed(e.id)
           /\ e.pc \in {"resume", "group", "live"} <=> IsShut(e.id)
<1>1. Placed(w) /\ Carried(w) /\ d \in Contexts /\ n \in Pos /\ FrameAt(d, n) = e
  BY SoundParts, TopFacts DEF OnTop
<1>2. w[e.id] = Held("finish", d, n)
  BY <1>1 DEF Carried, Holds, Holders
<1>3. w[e.id][1] = "finish"
  BY <1>2, Tokens
<1>4. SlotOK(e.id, "finish")
  BY <1>1, <1>3 DEF Placed, Alive
<1>5. HolderOK(e)
  BY TopFacts
<1> QED
  BY <1>2, <1>4, <1>5 DEF SlotOK, HolderOK

\* finish_job goes on and keeps its slot.
LEMMA FinishKeeps ==
    ASSUME NEW e, NEW f, e.k = "finish", f.k = "finish", f.id = e.id, e.pc # "enqueue", f.pc # "enqueue"
    PROVE  HoldSame(e, f, Blank)
BY BlankHolds DEF HoldSame, Holds, Draining

\* finish_job makes the next dependent ready (FinishEnqueue).
LEMMA StepFinishEnqueue ==
    ASSUME NEW w, NEW s, NEW h, NEW r, Sound(w, s, h, r), NEW t \in Thread, FinishEnqueue(t)
    PROVE  StepKeeps
<1>1. Shapes /\ Placed(w) /\ Named(h) /\ Listed(w) /\ Queued(w) /\ w \in [Id -> Token] /\ Finishing(t, "enqueue")
  BY SoundParts DEF FinishEnqueue, Placed
<1>2. PICK d, n, e : /\ OnTop(t, d, n, e) /\ e.k = "finish" /\ Top(t) = e
                     /\ e \in FinishFrame /\ e.id \in Id /\ e.pc = "enqueue"
  BY <1>1, Finishes1
<1>3. PICK id : id = e.cur
  OBVIOUS
<1>4. id \in Id /\ d \in Contexts /\ n \in Pos /\ FrameAt(d, n) = e
  BY <1>2, <1>3, TopFacts DEF FinishFrame, OnTop
<1>5. w[id] = Drained(d, n)
  <2>1. Draining(e) = id
    BY <1>2, <1>3 DEF Draining
  <2>2. id \in Dependents(Draining(e))
    BY <1>4, <2>1, HeadMember, DependentsAre
  <2> QED
    BY <1>1, <1>4, <2>2 DEF Listed
<1>6. w[id][1] = "enqueue"
  BY <1>5, Tokens
<1>7. slots[id].gen # 0 /\ slots[id].job \in Task
  <2>1. SlotOK(id, "enqueue")
    BY <1>1, <1>4, <1>6 DEF Placed, Alive
  <2> QED
    BY <2>1 DEF SlotOK
<1>8. PICK rest : rest = slots[id].next
  OBVIOUS
<1>9. rest \in {0} \cup Id
  BY <1>1, <1>4, <1>8 DEF Shapes, SlotShape
<1>10. PICK p : p = IF rest \in {0, Closed} THEN "waiters" ELSE "enqueue"
  OBVIOUS
<1>11. PICK f : FinishTo(e, f, rest, p)
  BY DEF FinishTo
<1>12. f \in Frame /\ f.k = "finish" /\ f.id = e.id /\ f.cur = rest /\ f.pc = p
  <2>1. p \in {"dependents", "enqueue", "waiters", "resume", "group", "live"}
    BY <1>10
  <2>2. rest \in {0, Closed, None, Shut} \cup Id \cup Fiber
    BY <1>9
  <2>3. (p = "enqueue" => rest \in Id) /\ p # "resume"
    BY <1>9, <1>10
  <2> QED
    BY <1>2, <1>11, <2>1, <2>2, <2>3, FinishMoves
<1>13. EnqueueReady(t, id) /\ Replace(t, f)
  BY <1>2, <1>3, <1>8, <1>10, <1>11 DEF FinishEnqueue, FinishTo
<1>14. Swap(d, n, e, f, Blank)
  <2>1. Stacked(d, n, f, Blank)
    BY <1>1, <1>2, <1>12, <1>13, Replaces
  <2> QED
    BY <1>2, <2>1, SwapTop
<1>15. UNCHANGED <<program, slots, alloc, live, fibers, on, stopping, exited, handle, begun, ended, remaining>>
  BY DEF FinishEnqueue, history
<1>16. /\ w[e.id] = Held("finish", d, n) /\ HolderOK(e)
       /\ e.pc # "dependents" <=> IsClosed(e.id)
       /\ e.pc \in {"resume", "group", "live"} <=> IsShut(e.id)
  BY <1>2, FinishHolds
<1>17. PICK x \in Token : x[1] \in {"deque", "inject"} /\ Placed([w EXCEPT ![id] = x])'
  <2>1. e.id # id
    BY <1>6, <1>16, Tokens
  <2>2. \A y \in Id, k \in Holders : Holds(f, k, y) <=> Holds(e, k, y) /\ y # id
    BY <1>2, <1>12, <2>1 DEF Holds
  <2>3. \A y \in Id : y \in Dependents(Draining(f)) <=> y \in Dependents(Draining(e)) /\ y # id
    <3>1. Draining(e) = id
      BY <1>2, <1>3 DEF Draining
    <3>2. Dependents(Draining(f)) = Dependents(rest)
      <4>1. CASE rest \in {0, Closed}
        <5>1. Draining(f) = 0
          BY <1>10, <1>12, <4>1 DEF Draining
        <5> QED
          BY <4>1, <5>1, DrainNone
      <4>2. CASE rest \notin {0, Closed}
        BY <1>10, <1>12, <4>2 DEF Draining
      <4> QED
        BY <4>1, <4>2
    <3>3. Dependents(id) = {id} \cup Dependents(NextOf[id])
      BY <1>4, DependentsAre, MembersUnfold
    <3>4. NextOf[id] = rest
      BY <1>4, <1>8 DEF NextOf
    <3>5. id \notin Dependents(rest)
      BY <1>1, <1>4, <1>6, <1>8 DEF Listed
    <3> QED
      BY <3>1, <3>2, <3>3, <3>4, <3>5
  <2>4. HolderOK(f)
    BY <1>2, <1>10, <1>12, <1>16 DEF HolderOK
  <2>5. EnqueueMove(e, f, id)
    BY <2>2, <2>3, <2>4 DEF EnqueueMove
  <2> QED
    BY <1>1, <1>4, <1>5, <1>13, <1>14, <1>15, <2>5, PlacedEnqueue
<1>18. PICK w2 : w2 = [w EXCEPT ![id] = x]
  OBVIOUS
<1>19. Placed(w2)'
  BY <1>17, <1>18
<1>20. Drifts(w, w2)
  <2>1. \A y \in Id : w2[y] = IF y = id THEN x ELSE w[y]
    BY <1>1, <1>18
  <2>2. w[id] # Unused
    BY <1>6, Tokens
  <2> QED
    BY <1>6, <1>17, <2>1, <2>2 DEF Drifts, Moved
<1>21. Shapes'
  <2>1. QueueTypes'
    <3>1. program.pool[slots[id].job] \in {0, 1}
      BY <1>1, <1>7, Programmed DEF Shapes, Task
    <3>2. QueueTypes
      BY <1>1 DEF Shapes, QueueTypes
    <3> QED
      BY <1>1, <1>4, <1>6, <1>13, <3>1, <3>2, Enqueued
  <2>2. stack' \in [Contexts -> Seq(Frame)]
    BY <1>14 DEF Swap, Stacked
  <2> QED
    BY <1>1, <1>15, <2>1, <2>2, ShapesNext DEF Shapes, fibers
<1>22. /\ Goes(d, n, e, f, Blank) /\ FrameDeps(f) /\ FrameDeps(Blank)
       /\ CountedHere(r, e, f, Blank) /\ FrameQuiet(h, e, f, Blank)
  BY <1>2, <1>12, FinishGoes
<1>23. Turns(d, n, e, f, Blank)
  <2>1. Waking(f) = Waking(e)
    BY <1>2, <1>10, <1>12 DEF Waking
  <2> QED
    BY <1>2, <1>22, <2>1, BlankHolds DEF Turns
<1>24. Named(h)' /\ NamesOn(h, h)
  <2>1. HistoryMove(h)
    BY <1>1, <1>15, HistorySame
  <2>2. \A y \in Id : slots'[y].job = slots[y].job
    BY <1>15
  <2>3. NamesOn(h, h)
    BY DEF NamesOn
  <2> QED
    BY <1>1, <1>14, <1>15, <1>22, <2>1, <2>2, <2>3, NamedQuiet
<1>25. Sound(w2, s, h, r)'
  BY <1>2, <1>14, <1>15, <1>19, <1>20, <1>21, <1>22, <1>23, <1>24, FrameStep
<1> QED
  BY <1>25 DEF StepKeeps

\* finish_job closes the list of dependents and takes it (FinishClose).
LEMMA StepFinishClose ==
    ASSUME NEW w, NEW s, NEW h, NEW r, Sound(w, s, h, r), NEW t \in Thread, FinishClose(t)
    PROVE  StepKeeps
<1>1. /\ Shapes /\ Placed(w) /\ Parked(s) /\ Named(h) /\ Counted(w, h, r) /\ w \in [Id -> Token]
      /\ Finishing(t, "dependents")
  BY SoundParts DEF FinishClose
<1>2. PICK d, n, e : /\ OnTop(t, d, n, e) /\ e.k = "finish" /\ Top(t) = e
                     /\ e \in FinishFrame /\ e.id \in Id /\ e.pc = "dependents"
  BY <1>1, Finishes1
<1>3. PICK head : head = slots[e.id].dependents
  OBVIOUS
<1>4. head \in {0, Closed} \cup Id
  BY <1>1, <1>2, <1>3 DEF Shapes, SlotShape
<1>5. PICK p : p = IF head \in {0, Closed} THEN "waiters" ELSE "enqueue"
  OBVIOUS
<1>6. PICK f : FinishTo(e, f, head, p)
  BY DEF FinishTo
<1>7. f \in Frame /\ f.k = "finish" /\ f.id = e.id /\ f.cur = head /\ f.pc = p
  <2>1. p \in {"dependents", "enqueue", "waiters", "resume", "group", "live"}
    BY <1>5
  <2>2. head \in {0, Closed, None, Shut} \cup Id \cup Fiber
    BY <1>4
  <2>3. (p = "enqueue" => head \in Id) /\ p # "resume"
    BY <1>4, <1>5
  <2> QED
    BY <1>2, <1>6, <2>1, <2>2, <2>3, FinishMoves
<1>8. DependentsSet(e.id, Closed) /\ Replace(t, f)
  BY <1>2, <1>3, <1>5, <1>6 DEF FinishClose, DependentsSet, FinishTo
<1>9. Swap(d, n, e, f, Blank)
  <2>1. Stacked(d, n, f, Blank)
    BY <1>1, <1>2, <1>7, <1>8, Replaces
  <2> QED
    BY <1>2, <2>1, SwapTop
<1>10. UNCHANGED <<program, alloc, live, queues, fibers, on, stopping, exited, history, remaining>>
  BY DEF FinishClose
<1>11. /\ slots' \in [Id -> SlotShape]
       /\ \A y \in Id : /\ slots'[y].job = slots[y].job /\ slots'[y].gen = slots[y].gen
                        /\ slots'[y].waiters = slots[y].waiters /\ slots'[y].group = slots[y].group
  BY <1>1, <1>2, <1>8, DependentsFields
<1>12. PICK w2 : w2 = [x \in Id |-> IF w[x] = OnList(e.id) THEN Drained(d, n) ELSE w[x]]
  OBVIOUS
<1>13. Placed(w2)'
  BY <1>1, <1>2, <1>3, <1>5, <1>7, <1>8, <1>9, <1>10, <1>12, PlacedClose DEF queues, history
<1>14. Shapes'
  <2>1. stack' \in [Contexts -> Seq(Frame)]
    BY <1>9 DEF Swap, Stacked
  <2> QED
    BY <1>1, <1>10, <1>11, <2>1, ShapesNext DEF Shapes, QueueTypes, queues, fibers, history
<1>15. /\ Goes(d, n, e, f, Blank) /\ FrameDeps(f) /\ FrameDeps(Blank)
       /\ CountedHere(r, e, f, Blank) /\ FrameQuiet(h, e, f, Blank)
  <2>1. /\ Goes(d, n, e, f, Blank) /\ FrameDeps(f) /\ FrameDeps(Blank)
        /\ CountedHere(r, e, f, Blank) /\ FrameQuiet(h, e, f, Blank)
    BY <1>2, <1>7, FinishGoes
  <2> QED
    BY <2>1
<1>16. Stopped'
  BY <1>9, <1>10, <1>15, StoppedGoes
<1>17. Named(h)' /\ NamesOn(h, h)
  <2>1. HistoryMove(h)
    BY <1>1, <1>10, HistorySame DEF history
  <2>2. NamesOn(h, h)
    BY DEF NamesOn
  <2> QED
    BY <1>1, <1>9, <1>10, <1>11, <1>15, <2>1, <2>2, NamedQuiet
<1>18. Parked(s)'
  <2>1. Waking(f) = Waking(e)
    BY <1>2, <1>5, <1>7 DEF Waking
  <2>2. f # Blank /\ e # Blank
    BY <1>2, <1>7 DEF Blank
  <2> QED
    BY <1>1, <1>9, <1>10, <1>11, <2>1, <2>2, BlankHolds, ParkedQuiet DEF fibers
<1>19. SlotsKeep
  BY <1>11 DEF SlotsKeep
<1>20. \A x \in Id : w2[x] = w[x] \/ (w[x] = OnList(e.id) /\ w2[x] = Drained(d, n))
  BY <1>12
<1>21. Counted(w2, h, r)'
  <2>1. \A id \in Id : /\ slots'[id].group = slots[id].group /\ slots'[id].job = slots[id].job
                       /\ w2[id] # Unused => w[id] # Unused
    <3>1. \A x : OnList(x) # Unused
      BY Tokens
    <3> QED
      BY <1>11, <1>20, <3>1
  <2>2. SlotsOn(w, w2, r, r, e, f)
    BY <1>2, <2>1, SlotsOnSame
  <2> QED
    BY <1>1, <1>9, <1>10, <1>15, <2>2, CountedQuiet DEF history
<1>22. ASSUME NEW id \in Id PROVE Moved(w, w2, id)
  <2>1. CASE w2[id] = w[id]
    BY <2>1 DEF Moved
  <2>2. CASE w[id] = OnList(e.id)
    <3>1. w[id][1] = "list"
      BY <2>2, Tokens
    <3>2. SlotOK(id, "list")
      BY <1>1, <3>1 DEF Placed, Alive
    <3>3. slots[id].job \in Task
      BY <3>2 DEF SlotOK
    <3>4. h[slots[id].job] = InSlot(id)
      BY <1>1, <3>3 DEF Named
    <3>5. slots[e.id].job \in ended
      BY <1>2, FinishHolds
    <3>6. ASSUME NEW v \in Task, Depends(slots[id].job, v) PROVE v \in ended
      <4>1. DepSlot(w, h, slots[id].job, v)
        BY <3>3, <3>6, SoundParts, DependedParts
      <4> QED
        BY <1>2, <2>2, <3>4, <3>5, <4>1 DEF DepSlot
    <3> QED
      BY <3>6, <1>10 DEF Moved, history
  <2> QED
    BY <1>20, <2>1, <2>2
<1>23. \A x \in Fiber : HonFiber(s, x)'
  <2>1. \A id \in Id : slots'[id].job = slots[id].job
    BY <1>11
  <2>2. UNCHANGED <<program, on, pending>> /\ ended \subseteq ended'
    BY <1>10 DEF fibers, history
  <2> QED
    BY <1>2, <1>9, <2>1, <2>2, HonFibersQuiet
<1>24. Sound(w2, s, h, r)'
  <2>1. UNCHANGED <<program, alloc, live, free, on, pending, exited, handle>> /\ ended \subseteq ended'
    BY <1>10 DEF fibers, history
  <2>2. resumable = <<>> => resumable' = <<>> \/ Fibers
    BY <1>10 DEF fibers
  <2> QED
    BY <1>2, <1>9, <1>13, <1>14, <1>15, <1>16, <1>17, <1>18, <1>19, <1>21, <1>22, <1>23, <2>1, <2>2, CoreStep
<1> QED
  BY <1>24 DEF StepKeeps

\* A fiber that stays where it is has still what it waits for.
LEMMA HonFiberStays ==
    ASSUME NEW w, NEW s, NEW h, NEW r, Sound(w, s, h, r), NEW t \in Thread, NEW d, NEW n, NEW e, OnTop(t, d, n, e),
           NEW f, NEW g, Swap(d, n, e, f, g), UNCHANGED <<program, on, pending>>, ended \subseteq ended',
           \A id \in Id : slots'[id].job = slots[id].job,
           NEW s2, NEW x \in Fiber, s2[x] = s[x]
    PROVE  HonFiber(s2, x)'
<1>1. CASE x = d
  <2>1. s[x] = RunBy(t)
    BY <1>1, RunsFiber, SoundParts
  <2>2. s2[x][1] = "on"
    BY <2>1, Spots
  <2> QED
    BY <2>2, HonFiberElse
<1>2. CASE x # d
  <2>1. HonFiber(s, x) /\ Shapes
    BY SoundParts
  <2>2. \A v \in Worker : s[x] = LeftBy(v) /\ pending[v].kind = "park" => pending[v].id \in Id
    BY <2>1, PendingShapes
  <2> QED
    BY <1>2, <2>1, <2>2, HonFiberSame
<1> QED
  BY <1>1, <1>2

\* finish_job shuts the list of waiters and takes it (FinishShut).
LEMMA StepFinishShut ==
    ASSUME NEW w, NEW s, NEW h, NEW r, Sound(w, s, h, r), NEW t \in Thread, FinishShut(t)
    PROVE  StepKeeps
<1>1. /\ Shapes /\ Placed(w) /\ Parked(s) /\ Named(h) /\ Counted(w, h, r) /\ w \in [Id -> Token]
      /\ Finishing(t, "waiters")
  BY SoundParts DEF FinishShut
<1>2. PICK d, n, e : /\ OnTop(t, d, n, e) /\ e.k = "finish" /\ Top(t) = e
                     /\ e \in FinishFrame /\ e.id \in Id /\ e.pc = "waiters"
  BY <1>1, Finishes1
<1>3. PICK head : head = slots[e.id].waiters
  OBVIOUS
<1>4. head \in {None, Shut} \cup Fiber
  BY <1>1, <1>2, <1>3 DEF Shapes, SlotShape
<1>5. PICK p : p = IF head \in {None, Shut} THEN "group" ELSE "resume"
  OBVIOUS
<1>6. PICK f : FinishTo(e, f, head, p)
  BY DEF FinishTo
<1>7. f \in Frame /\ f.k = "finish" /\ f.id = e.id /\ f.cur = head /\ f.pc = p
  <2>1. p \in {"dependents", "enqueue", "waiters", "resume", "group", "live"}
    BY <1>5
  <2>2. head \in {0, Closed, None, Shut} \cup Id \cup Fiber
    BY <1>4
  <2>3. (p = "resume" => head \in Fiber) /\ p # "enqueue"
    BY <1>4, <1>5
  <2> QED
    BY <1>2, <1>6, <2>1, <2>2, <2>3, FinishMoves
<1>8. WaitersSet(e.id, Shut) /\ Replace(t, f)
  BY <1>2, <1>3, <1>5, <1>6 DEF FinishShut, WaitersSet, FinishTo
<1>9. Swap(d, n, e, f, Blank)
  <2>1. Stacked(d, n, f, Blank)
    BY <1>1, <1>2, <1>7, <1>8, Replaces
  <2> QED
    BY <1>2, <2>1, SwapTop
<1>10. UNCHANGED <<program, alloc, live, queues, fibers, on, stopping, exited, history, remaining>>
  BY DEF FinishShut
<1>11. /\ slots' \in [Id -> SlotShape]
       /\ \A y \in Id : /\ slots'[y].job = slots[y].job /\ slots'[y].gen = slots[y].gen
                        /\ slots'[y].dependents = slots[y].dependents /\ slots'[y].group = slots[y].group
                        /\ slots'[y].waiters = IF y = e.id THEN Shut ELSE slots[y].waiters
  BY <1>1, <1>2, <1>8, WaitersFields
<1>12. /\ w[e.id] = Held("finish", d, n) /\ slots[e.id].gen # 0 /\ slots[e.id].job \in ended
       /\ e.pc # "dependents" <=> IsClosed(e.id)
  BY <1>2, FinishHolds
<1>13. Placed(w)'
  <2>1. HoldSame(e, f, Blank)
    BY <1>2, <1>5, <1>7, FinishKeeps
  <2>2. HolderOK(f)'
    <3>1. slots'[e.id].dependents = Closed /\ slots'[e.id].waiters = Shut
      BY <1>2, <1>11, <1>12 DEF IsClosed
    <3> QED
      BY <3>1, <1>5, <1>7 DEF HolderOK, IsClosed, IsShut
  <2> QED
    BY <1>1, <1>2, <1>8, <1>9, <1>10, <1>12, <2>1, <2>2, PlacedWaiters DEF queues, history
<1>14. Shapes'
  <2>1. stack' \in [Contexts -> Seq(Frame)]
    BY <1>9 DEF Swap, Stacked
  <2> QED
    BY <1>1, <1>10, <1>11, <2>1, ShapesNext DEF Shapes, QueueTypes, queues, fibers, history
<1>15. /\ Goes(d, n, e, f, Blank) /\ FrameDeps(f) /\ FrameDeps(Blank)
       /\ CountedHere(r, e, f, Blank) /\ FrameQuiet(h, e, f, Blank)
  BY <1>2, <1>7, FinishGoes
<1>16. Stopped'
  BY <1>9, <1>10, <1>15, StoppedGoes
<1>17. Named(h)' /\ NamesOn(h, h)
  <2>1. HistoryMove(h)
    BY <1>1, <1>10, HistorySame DEF history
  <2>2. NamesOn(h, h)
    BY DEF NamesOn
  <2> QED
    BY <1>1, <1>9, <1>10, <1>11, <1>15, <2>1, <2>2, NamedQuiet
<1>18. PICK s2 : s2 = [x \in Fiber |-> IF s[x] = WaitsOn(e.id) THEN Resuming(d, n) ELSE s[x]]
  OBVIOUS
<1>19. Parked(s2)'
  <2>1. BusySame
    <3>1. f # Blank /\ e # Blank
      BY <1>2, <1>7 DEF Blank
    <3> QED
      BY <3>1, <1>9, BusyKept
  <2>2. e.pc # "resume" /\ f.cur = slots[e.id].waiters
        /\ f.pc = (IF f.cur \in {None, Shut} THEN "group" ELSE "resume")
    BY <1>2, <1>3, <1>5, <1>7
  <2> QED
    BY <1>1, <1>2, <1>7, <1>8, <1>9, <1>10, <1>18, <2>1, <2>2, ParkedShut DEF fibers
<1>20. \A x \in Fiber : s2[x] = IF s[x] = WaitsOn(e.id) THEN Resuming(d, n) ELSE s[x]
  BY <1>18
<1>21. Counted(w, h, r)'
  <2>1. SlotsOn(w, w, r, r, e, f)
    BY <1>2, <1>11, SlotsOnSame
  <2> QED
    BY <1>1, <1>9, <1>10, <1>15, <2>1, CountedQuiet DEF history
<1>22. ASSUME NEW x \in Fiber PROVE HonFiber(s2, x)'
  <2>1. UNCHANGED <<program, on, pending>> /\ ended \subseteq ended'
    BY <1>10 DEF fibers, history
  <2>2. CASE s[x] = WaitsOn(e.id)
    <3>1. HonFiber(s, x)
      BY SoundParts
    <3>2. PICK k \in Job : Awaits(x, k) /\ (k \in ended \/ slots[e.id].job = k)
      BY <1>2, <2>2, <3>1 DEF HonFiber
    <3>3. x # d
      <4>1. d \in Fiber => s[d] = RunBy(t)
        BY <1>1, <1>2, RunsFiber, SoundParts
      <4> QED
        BY <2>2, <4>1, Spots
    <3>4. Awaits(x, k)'
      BY <1>9, <2>1, <3>2, <3>3, AwaitsSame, Sizes
    <3>5. k \in ended'
      BY <1>12, <2>1, <3>2
    <3>6. s2[x] = Resuming(d, n) /\ s2[x][1] = "resume"
      BY <1>20, <2>2, Spots
    <3>7. (\A y \in Id : s2[x] # WaitsOn(y)) /\ (\A v \in Worker : s2[x] # LeftBy(v))
      BY <3>6, Spots
    <3> QED
      BY <3>4, <3>5, <3>7 DEF HonFiber
  <2>3. CASE s[x] # WaitsOn(e.id)
    <3>1. s2[x] = s[x]
      BY <1>20, <2>3
    <3> QED
      BY <1>2, <1>9, <1>11, <2>1, <3>1, HonFiberStays
  <2> QED
    BY <2>2, <2>3
<1>23. Sound(w, s2, h, r)'
  <2>1. UNCHANGED <<program, alloc, live, free, on, pending, exited, handle>> /\ ended \subseteq ended'
    BY <1>10 DEF fibers, history
  <2>2. resumable = <<>> => resumable' = <<>> \/ Fibers
    BY <1>10 DEF fibers
  <2>3. SlotsKeep
    BY <1>11 DEF SlotsKeep
  <2>4. \A id \in Id : Moved(w, w, id)
    BY DEF Moved
  <2> QED
    BY <1>2, <1>9, <1>13, <1>14, <1>15, <1>16, <1>17, <1>19, <1>21, <1>22, <2>1, <2>2, <2>3, <2>4, CoreStep
<1> QED
  BY <1>23 DEF StepKeeps

\* finish_job makes the next waiting fiber resumable (FinishResume).
LEMMA StepFinishResume ==
    ASSUME NEW w, NEW s, NEW h, NEW r, Sound(w, s, h, r), NEW t \in Thread, FinishResume(t)
    PROVE  StepKeeps
<1>1. /\ Shapes /\ Stacks /\ Placed(w) /\ Parked(s) /\ Named(h) /\ Counted(w, h, r) /\ w \in [Id -> Token]
      /\ Finishing(t, "resume")
  BY SoundParts DEF FinishResume
<1>2. PICK d, n, e : /\ OnTop(t, d, n, e) /\ e.k = "finish" /\ Top(t) = e
                     /\ e \in FinishFrame /\ e.id \in Id /\ e.pc = "resume"
  BY <1>1, Finishes1
<1>3. PICK x : x = e.cur
  OBVIOUS
<1>4. x \in Fiber
  BY <1>2, <1>3 DEF FinishFrame
<1>5. PICK rest : rest = next[x]
  OBVIOUS
<1>6. rest \in Fiber \cup {None}
  BY <1>1, <1>4, <1>5 DEF Shapes
<1>7. PICK p : p = IF rest \in {None, Shut} THEN "group" ELSE "resume"
  OBVIOUS
<1>8. PICK f : FinishTo(e, f, rest, p)
  BY DEF FinishTo
<1>9. f \in Frame /\ f.k = "finish" /\ f.id = e.id /\ f.cur = rest /\ f.pc = p
  <2>1. p \in {"dependents", "enqueue", "waiters", "resume", "group", "live"}
    BY <1>7
  <2>2. rest \in {0, Closed, None, Shut} \cup Id \cup Fiber
    BY <1>6
  <2>3. (p = "resume" => rest \in Fiber) /\ p # "enqueue"
    BY <1>6, <1>7
  <2> QED
    BY <1>2, <1>8, <2>1, <2>2, <2>3, FinishMoves
<1>10. Replace(t, f) /\ resumable' = Append(resumable, x)
  BY <1>2, <1>3, <1>5, <1>7, <1>8 DEF FinishResume, FinishTo
<1>11. Swap(d, n, e, f, Blank)
  <2>1. Stacked(d, n, f, Blank)
    BY <1>1, <1>2, <1>9, <1>10, Replaces
  <2> QED
    BY <1>2, <2>1, SwapTop
<1>12. UNCHANGED <<program, slots, alloc, live, queues, free, next, pending, on, stopping, exited, history, remaining>>
  BY DEF FinishResume
<1>13. Placed(w)'
  <2>1. HoldSame(e, f, Blank)
    BY <1>2, <1>7, <1>9, FinishKeeps
  <2>2. HolderOK(e)
    BY <1>2, TopFacts
  <2>3. HolderOK(f) /\ HolderOK(Blank)
    BY <1>2, <1>7, <1>9, <2>2, BlankHolds DEF HolderOK
  <2>4. \A j \in Task : j \in ended' <=> j \in ended
    BY <1>12 DEF history
  <2> QED
    BY <1>1, <1>11, <1>12, <2>1, <2>3, <2>4, PlacedQuiet DEF queues, history
<1>14. Shapes'
  <2>1. stack' \in [Contexts -> Seq(Frame)]
    BY <1>11 DEF Swap, Stacked
  <2>2. resumable' \in Seq(Fiber)
    BY <1>1, <1>4, <1>10, AppendQ DEF Shapes
  <2> QED
    BY <1>1, <1>12, <2>1, <2>2, ShapesNext DEF Shapes, QueueTypes, queues, history
<1>15. /\ Goes(d, n, e, f, Blank) /\ FrameDeps(f) /\ FrameDeps(Blank)
       /\ CountedHere(r, e, f, Blank) /\ FrameQuiet(h, e, f, Blank)
  BY <1>2, <1>9, FinishGoes
<1>16. Stopped'
  BY <1>11, <1>12, <1>15, StoppedGoes
<1>17. Named(h)' /\ NamesOn(h, h)
  <2>1. HistoryMove(h)
    BY <1>1, <1>12, HistorySame DEF history
  <2>2. NamesOn(h, h)
    BY DEF NamesOn
  <2>3. \A id \in Id : slots'[id].job = slots[id].job
    BY <1>12
  <2> QED
    BY <1>1, <1>11, <1>12, <1>15, <2>1, <2>2, <2>3, NamedQuiet
<1>18. PICK s2 : MoveTo(s, s2, x, Ready)
  BY DEF MoveTo
<1>19. Parked(s2)' /\ s[x] = Resuming(d, n)
  <2>1. BusySame
    <3>1. f # Blank /\ e # Blank
      BY <1>2, <1>9 DEF Blank
    <3> QED
      BY <3>1, <1>11, BusyKept
  <2>2. e.cur = x /\ f.cur = next[e.cur] /\ f.pc = (IF f.cur \in {None, Shut} THEN "group" ELSE "resume")
    BY <1>3, <1>5, <1>7, <1>9
  <2> QED
    BY <1>1, <1>2, <1>4, <1>9, <1>10, <1>11, <1>12, <1>18, <2>1, <2>2, ParkedWake
<1>20. \A y \in Fiber : s2[y] = IF y = x THEN Ready ELSE s[y]
  <2>1. s \in [Fiber -> Spot]
    BY SoundParts DEF Pools
  <2> QED
    BY <2>1, <1>4, <1>18, MoveSpot, SpotOf
<1>21. Counted(w, h, r)'
  <2>1. SlotsOn(w, w, r, r, e, f)
    BY <1>2, <1>12, SlotsOnSame
  <2> QED
    BY <1>1, <1>11, <1>12, <1>15, <2>1, CountedQuiet DEF history
<1>22. ASSUME NEW y \in Fiber PROVE HonFiber(s2, y)'
  <2>1. UNCHANGED <<program, on, pending>> /\ ended \subseteq ended'
    BY <1>12 DEF history
  <2>2. CASE y = x
    <3>1. HonFiber(s, x)
      BY <1>4, SoundParts
    <3>2. s[x][1] = "resume"
      BY <1>19, Spots
    <3>3. PICK k \in ended : Awaits(x, k)
      BY <3>1, <3>2 DEF HonFiber
    <3>4. x # d
      <4>1. d \in Fiber => s[d] = RunBy(t)
        BY <1>1, <1>2, RunsFiber, SoundParts
      <4>2. d = x => d \in Fiber
        BY <1>4
      <4> QED
        BY <1>19, <4>1, <4>2, Spots
    <3>5. Awaits(x, k)'
      BY <1>4, <1>11, <2>1, <3>3, <3>4, AwaitsSame, Sizes
    <3>6. k \in ended'
      BY <2>1, <3>3
    <3>7. s2[y] = Ready
      BY <1>20, <2>2
    <3>8. (\A z \in Id : s2[y] # WaitsOn(z)) /\ (\A v \in Worker : s2[y] # LeftBy(v))
      BY <3>7, Spots
    <3> QED
      BY <2>2, <3>5, <3>6, <3>8 DEF HonFiber
  <2>3. CASE y # x
    <3>1. s2[y] = s[y]
      BY <1>20, <2>3
    <3>2. \A id \in Id : slots'[id].job = slots[id].job
      BY <1>12
    <3> QED
      BY <1>2, <1>11, <2>1, <3>1, <3>2, HonFiberStays
  <2> QED
    BY <2>2, <2>3
<1>23. Sound(w, s2, h, r)'
  <2>1. UNCHANGED <<program, alloc, live, free, on, pending, exited, handle>> /\ ended \subseteq ended'
    BY <1>12 DEF history
  <2>2. Fibers
    <3>1. s[x] # Nowhere
      BY <1>19, Spots
    <3>2. Pools(s)
      BY SoundParts
    <3> QED
      BY <3>1, <3>2, <1>4 DEF Pools
  <2>3. SlotsKeep
    BY <1>12 DEF SlotsKeep
  <2>4. \A id \in Id : Moved(w, w, id)
    BY DEF Moved
  <2> QED
    BY <1>2, <1>11, <1>13, <1>14, <1>15, <1>16, <1>17, <1>19, <1>21, <1>22, <2>1, <2>2, <2>3, <2>4, CoreStep
<1> QED
  BY <1>23 DEF StepKeeps

\* finish_job counts the job down in its group (FinishGroup).
LEMMA StepFinishGroup ==
    ASSUME NEW w, NEW s, NEW h, NEW r, Sound(w, s, h, r), NEW t \in Thread, FinishGroup(t)
    PROVE  StepKeeps
<1>1. /\ Shapes /\ Placed(w) /\ Parked(s) /\ Named(h) /\ Counted(w, h, r) /\ Finishing(t, "group")
  BY SoundParts DEF FinishGroup
<1>2. PICK d, n, e : /\ OnTop(t, d, n, e) /\ e.k = "finish" /\ Top(t) = e
                     /\ e \in FinishFrame /\ e.id \in Id /\ e.pc = "group"
  BY <1>1, Finishes1
<1>3. PICK q : q = slots[e.id].group
  OBVIOUS
<1>4. q \in Job \cup {None}
  BY <1>1, <1>2, <1>3 DEF Shapes, SlotShape
<1>5. PICK f : f = [e EXCEPT !.pc = "live"]
  OBVIOUS
<1>6. f \in Frame /\ f.k = "finish" /\ f.id = e.id /\ f.pc = "live"
  BY <1>2, <1>5 DEF FinishFrame, Frame
<1>7. CountDown(q) /\ Replace(t, f)
  BY <1>2, <1>3, <1>5 DEF FinishGroup, CountDown
<1>8. Swap(d, n, e, f, Blank)
  <2>1. Stacked(d, n, f, Blank)
    BY <1>1, <1>2, <1>6, <1>7, Replaces
  <2> QED
    BY <1>2, <2>1, SwapTop
<1>9. UNCHANGED <<program, slots, alloc, live, queues, fibers, on, stopping, exited, history>>
  BY DEF FinishGroup
<1>10. Placed(w)'
  <2>1. HoldSame(e, f, Blank)
    BY <1>2, <1>6, FinishKeeps
  <2>2. HolderOK(e)
    BY <1>2, TopFacts
  <2>3. HolderOK(f) /\ HolderOK(Blank)
    BY <1>2, <1>6, <2>2, BlankHolds DEF HolderOK
  <2>4. \A j \in Task : j \in ended' <=> j \in ended
    BY <1>9 DEF history
  <2> QED
    BY <1>1, <1>8, <1>9, <2>1, <2>3, <2>4, PlacedQuiet DEF queues, history
<1>11. Shapes'
  <2>1. stack' \in [Contexts -> Seq(Frame)]
    BY <1>8 DEF Swap, Stacked
  <2>2. remaining' \in [Job -> Int]
    BY <1>1, <1>4, <1>7 DEF Shapes, CountDown
  <2> QED
    BY <1>1, <1>9, <2>1, <2>2, ShapesNext DEF Shapes, QueueTypes, queues, fibers, history
<1>12. /\ Goes(d, n, e, f, Blank) /\ FrameDeps(f) /\ FrameDeps(Blank)
       /\ CountedHere(r, e, f, Blank) /\ FrameQuiet(h, e, f, Blank)
  BY <1>2, <1>6, FinishGoes
<1>13. Stopped'
  BY <1>8, <1>9, <1>12, StoppedGoes
<1>14. Named(h)' /\ NamesOn(h, h)
  <2>1. HistoryMove(h)
    BY <1>1, <1>9, HistorySame DEF history
  <2>2. NamesOn(h, h)
    BY DEF NamesOn
  <2>3. \A id \in Id : slots'[id].job = slots[id].job
    BY <1>9
  <2> QED
    BY <1>1, <1>8, <1>9, <1>12, <2>1, <2>2, <2>3, NamedQuiet
<1>15. Parked(s)'
  <2>1. Waking(f) = Waking(e)
    BY <1>2, <1>6 DEF Waking
  <2>2. f # Blank /\ e # Blank
    BY <1>2, <1>6 DEF Blank
  <2>3. \A y \in Id : slots'[y].waiters = slots[y].waiters
    BY <1>9
  <2> QED
    BY <1>1, <1>8, <1>9, <2>1, <2>2, <2>3, BlankHolds, ParkedQuiet DEF fibers
<1>16. \E r2 : Counted(w, h, r2)'
  <2>1. CASE q = None
    <3>1. SlotsOn(w, w, r, r, e, f)
      BY <1>2, <1>9, SlotsOnSame
    <3>2. UNCHANGED <<program, remaining>> /\ ended \subseteq ended'
      BY <1>7, <1>9, <2>1 DEF CountDown, history
    <3>3. Counted(w, h, r)'
      BY <1>1, <1>8, <1>12, <3>1, <3>2, CountedQuiet
    <3> QED
      BY <3>3
  <2>2. CASE q # None
    <3>1. PICK r2 : MoveTo(r, r2, slots[e.id].job, None)
      BY DEF MoveTo
    <3>2. Counted(w, h, r2)'
      BY <1>1, <1>2, <1>3, <1>6, <1>7, <1>8, <1>9, <2>2, <3>1, CountedDown DEF history
    <3> QED
      BY <3>2
  <2> QED
    BY <2>1, <2>2
<1>17. PICK r2 : Counted(w, h, r2)'
  BY <1>16
<1>18. \A x \in Fiber : HonFiber(s, x)'
  <2>1. \A id \in Id : slots'[id].job = slots[id].job
    BY <1>9
  <2>2. UNCHANGED <<program, on, pending>> /\ ended \subseteq ended'
    BY <1>9 DEF fibers, history
  <2> QED
    BY <1>2, <1>8, <2>1, <2>2, HonFibersQuiet
<1>19. Sound(w, s, h, r2)'
  <2>1. UNCHANGED <<program, alloc, live, free, on, pending, exited, handle>> /\ ended \subseteq ended'
    BY <1>9 DEF fibers, history
  <2>2. resumable = <<>> => resumable' = <<>> \/ Fibers
    BY <1>9 DEF fibers
  <2>3. SlotsKeep
    BY <1>9 DEF SlotsKeep
  <2>4. \A id \in Id : Moved(w, w, id)
    BY DEF Moved
  <2> QED
    BY <1>2, <1>8, <1>10, <1>11, <1>12, <1>13, <1>14, <1>15, <1>17, <1>18, <2>1, <2>2, <2>3, <2>4, CoreStep
<1> QED
  BY <1>19 DEF StepKeeps

-----------------------------------------------------------------------------
\* A job's function returns.
LEMMA EndsStep ==
    ASSUME NEW w, NEW s, NEW h, NEW r, Sound(w, s, h, r),
           NEW t \in Thread, NEW d, NEW n, NEW e, OnTop(t, d, n, e), e.k = "body",
           NEW f, f.k \in {"none", "finish"}, Swap(d, n, e, f, Blank), Goes(d, n, e, f, Blank),
           Waking(f) = None, d \in Fiber /\ n = 1 => f # Blank,
           ended' = ended \cup {e.job}, e.job \in Job, HistoryMove(h),
           UNCHANGED <<program, slots, alloc, live, queues, fibers, on, stopping, exited, handle, begun, remaining>>,
           NEW w2, Placed(w2)', Drifts(w, w2)
    PROVE  Sound(w2, s, h, r)'
<1>1. /\ Shapes /\ Placed(w) /\ Parked(s) /\ Named(h) /\ Counted(w, h, r)
  BY SoundParts
<1>2. ended \subseteq ended'
  OBVIOUS
<1>3. Shapes'
  <2>1. stack' \in [Contexts -> Seq(Frame)]
    BY DEF Swap, Stacked
  <2> QED
    BY <1>1, <2>1, ShapesNext DEF Shapes, QueueTypes, queues, fibers
<1>4. Stopped'
  BY StoppedGoes
<1>5. FrameDeps(f) /\ FrameDeps(Blank) /\ CountedHere(r, e, f, Blank) /\ FrameQuiet(h, e, f, Blank)
  <2>1. FrameDeps(f)
    BY DEF FrameDeps, DepFrame
  <2>2. \A j : ~Looping(f, j) /\ ~Looping(e, j)
    BY LoopingIs
  <2>3. CountedHere(r, e, f, Blank)
    BY <2>2, BlankOK, LoopingIs DEF CountedHere, CountFrame
  <2>4. FrameQuiet(h, e, f, Blank)
    BY BlankHolds, BlankOK DEF FrameQuiet, Asks, FrameFuture
  <2> QED
    BY <2>1, <2>3, <2>4, BlankOK
<1>6. \A id \in Id : slots'[id].job = slots[id].job /\ slots'[id].gen = slots[id].gen
                     /\ slots'[id].waiters = slots[id].waiters /\ slots'[id].group = slots[id].group
  OBVIOUS
<1>7. Named(h)' /\ NamesOn(h, h)
  <2>1. NamesOn(h, h)
    BY DEF NamesOn
  <2> QED
    BY <1>1, <1>5, <1>6, <2>1, NamedQuiet
<1>8. Parked(s)'
  <2>1. Waking(e) = None
    BY DEF Waking
  <2>2. e # Blank
    BY DEF Blank
  <2> QED
    BY <1>1, <1>6, <2>1, <2>2, BlankHolds, ParkedQuiet DEF fibers
<1>9. Counted(w2, h, r)'
  <2>1. SlotsOn(w, w2, r, r, e, f)
    BY <1>6, SlotsOnSame DEF Drifts
  <2> QED
    BY <1>1, <1>2, <1>5, <2>1, CountedQuiet
<1>10. \A x \in Fiber : HonFiber(s, x)'
  BY <1>2, <1>6, HonFibersQuiet DEF fibers
<1> QED
  <2>1. UNCHANGED <<program, alloc, live, free, on, pending, exited, handle>>
    BY DEF fibers
  <2>2. resumable = <<>> => resumable' = <<>> \/ Fibers
    BY DEF fibers
  <2>3. SlotsKeep
    BY <1>6 DEF SlotsKeep
  <2>4. \A id \in Id : Moved(w, w2, id)
    BY DEF Drifts
  <2> QED
    BY <1>2, <1>3, <1>4, <1>5, <1>7, <1>8, <1>9, <1>10, <2>1, <2>2, <2>3, <2>4, CoreStep

\* The body returns and finish_job starts (BodyEnds).
LEMMA StepBodyEnds ==
    ASSUME NEW w, NEW s, NEW h, NEW r, Sound(w, s, h, r), NEW t \in Thread, BodyEnds(t)
    PROVE  StepKeeps
<1>1. /\ Shapes /\ Placed(w) /\ Named(h) /\ FramesOK /\ JobsApart /\ Stopped /\ w \in [Id -> Token] /\ In(t, "body")
  BY SoundParts DEF BodyEnds
<1>2. PICK d, n, e : OnTop(t, d, n, e) /\ e.k = "body"
  BY <1>1, HasTop
<1>3. Top(t) = e /\ d \in Contexts /\ n \in Pos /\ FrameAt(d, n) = e /\ e \in BodyFrame /\ HolderOK(e)
      /\ BasedBy(d, FrameAt(d, 1))
  BY <1>2, TopFacts, FrameKinds DEF OnTop
<1>4. e.job \in Job /\ e.id \in {0} \cup Id /\ e # Blank
  BY <1>3 DEF BodyFrame, Blank
<1>5. UNCHANGED <<program, slots, alloc, live, queues, fibers, on, stopping, exited, handle, begun, remaining>>
      /\ ended' = ended \cup {e.job}
  BY <1>3 DEF BodyEnds
<1>6. KnowsAt(Blank, Blank) /\ SubmitOK(Blank, handle) /\ Waking(Blank) = None
      /\ ~(Blank.k = "body" /\ Blank.id = 0) /\ \A hs, y : AboveOf(hs, y, Blank)
  BY BlankOK, BlankHolds DEF Blank
<1>7. CASE e.id = 0
  <2>1. d = External /\ n = 1 /\ e.job = "main"
    BY <1>1, <1>2, <1>3, <1>7 DEF FramesOK
  <2>2. Swap(d, n, e, Blank, Blank)
    <3>1. Return(t)
      BY <1>3, <1>7 DEF BodyEnds
    <3>2. Stacked(d, n, Blank, Blank)
      BY <1>1, <1>2, <3>1, Returns
    <3> QED
      BY <1>2, <3>2, SwapTop
  <2>3. Goes(d, n, e, Blank, Blank)
    <3>1. HonTop(d, n, Blank, Blank)
      <4>1. n - 1 \notin Pos
        BY <2>1 DEF Pos
      <4> QED
        BY <4>1, BlankOK DEF HonTop
    <3>2. Follows(e, Blank) /\ (Blank.k = "submit" <=> e.k = "submit")
      BY <1>2 DEF Follows, Blank
    <3> QED
      BY <1>6, <2>1, <3>1, <3>2 DEF Goes
  <2>4. \A j \in Task : j \in ended' <=> j \in ended
    BY <1>5, <2>1 DEF Task
  <2>5. Placed(w)'
    <3>1. HoldSame(e, Blank, Blank)
      BY <1>2, <1>7, BlankHolds, Sizes DEF HoldSame, Holds, Draining
    <3> QED
      BY <1>1, <1>5, <2>2, <2>4, <3>1, BlankHolds, PlacedQuiet DEF queues
  <2>6. Drifts(w, w)
    BY DEF Drifts, Moved
  <2>7. HistoryMove(h)
    <3>1. begun["main"] = 0 /\ handle["main"] = NoHandle
      BY <1>1 DEF Named
    <3> QED
      BY <1>5, <2>4, <3>1 DEF HistoryMove
  <2>8. d \notin Fiber /\ Blank.k = "none"
    BY <2>1, Sizes DEF Blank
  <2>9. Sound(w, s, h, r)'
    BY <1>2, <1>4, <1>5, <1>6, <2>2, <2>3, <2>5, <2>6, <2>7, <2>8, EndsStep
  <2> QED
    BY <2>9 DEF StepKeeps
<1>8. CASE e.id # 0
  <2>1. PICK f : f = Finish(e.id)
    OBVIOUS
  <2>2. f.k = "finish" /\ f.id = e.id /\ f.pc = "dependents" /\ f # Blank /\ e.id \in Id /\ f \in Frame
    <3>1. f.k = "finish" /\ f.id = e.id /\ f.pc = "dependents" /\ f.cur = 0
      BY <2>1 DEF Finish
    <3>2. f \in FinishFrame
      BY <1>4, <1>8, <2>1 DEF Finish, FinishFrame
    <3> QED
      BY <1>4, <1>8, <3>1, <3>2 DEF Blank, Frame
  <2>3. Swap(d, n, e, f, Blank)
    <3>1. Replace(t, f)
      BY <1>3, <1>8, <2>1 DEF BodyEnds
    <3>2. Stacked(d, n, f, Blank)
      BY <1>1, <1>2, <2>2, <3>1, Replaces
    <3> QED
      BY <1>2, <3>2, SwapTop
  <2>4. Goes(d, n, e, f, Blank)
    <3>1. HonTop(d, n, f, Blank)
      BY <2>2, BlankOK DEF HonTop, HonFrame
    <3>2. Follows(e, f)
      BY <1>2, <1>8, <2>2 DEF Follows
    <3>3. ~(d = External /\ stopping)
      <4>1. ASSUME d = External, stopping PROVE FALSE
        <5>1. n = 1 \/ e.k = "join"
          BY <1>1, <1>3, <1>4, <4>1 DEF Stopped
        <5>2. n = 1
          BY <5>1, <1>2
        <5>3. FrameAt(d, 1) = e
          BY <5>2, <1>3
        <5> QED
          BY <5>3, <1>3, <1>4, <1>8, <4>1 DEF BasedBy
      <4> QED
        BY <4>1
    <3>4. KnowsAt(f, Blank) /\ SubmitOK(f, handle) /\ f.k # "submit"
      BY <2>2 DEF KnowsAt, SubmitOK
    <3> QED
      BY <1>2, <1>6, <2>2, <3>1, <3>2, <3>3, <3>4 DEF Goes
  <2>5. PICK w2 : w2 = [w EXCEPT ![e.id] = Held("finish", d, n)]
    OBVIOUS
  <2>6. Placed(w2)'
    BY <1>1, <1>2, <1>5, <2>1, <2>2, <2>3, <2>5, PlacedEnds DEF queues
  <2>7. w[e.id] = Held("body", d, n) /\ w[e.id][1] = "body" /\ SlotOK(e.id, "body")
    BY <1>1, <1>2, <2>2, <2>3, HeldBy DEF Holders
  <2>8. Drifts(w, w2)
    <3>1. \A x \in Id : w2[x] = IF x = e.id THEN Held("finish", d, n) ELSE w[x]
      BY <1>1, <2>5
    <3>2. Held("finish", d, n)[1] = "finish" /\ w[e.id] # Unused
      BY <2>7, Tokens
    <3> QED
      BY <2>7, <3>1, <3>2 DEF Drifts, Moved
  <2>9. HistoryMove(h)
    <3>1. e.job = slots[e.id].job /\ slots[e.id].job \in Task
      <4>1. slots[e.id].gen # 0
        BY <1>1, <1>2, <2>2, <2>3, HeldBy DEF Holders
      <4> QED
        BY <1>2, <1>3, <1>8, <2>7, <4>1 DEF HolderOK, SlotOK
    <3>2. h[e.job] = InSlot(e.id)
      BY <1>1, <2>2, <3>1 DEF Named
    <3>3. \A j \in Task : (j \in ended' <=> j \in ended) \/ j = e.job
      BY <1>5
    <3>4. begun["main"] = 0 /\ handle["main"] = NoHandle
      BY <1>1 DEF Named
    <3> QED
      BY <1>5, <2>2, <3>2, <3>3, <3>4 DEF HistoryMove
  <2>10. Waking(f) = None
    BY <2>2 DEF Waking
  <2>11. Sound(w2, s, h, r)'
    BY <1>2, <1>4, <1>5, <2>2, <2>3, <2>4, <2>6, <2>8, <2>9, <2>10, EndsStep
  <2> QED
    BY <2>11 DEF StepKeeps
<1> QED
  BY <1>7, <1>8

-----------------------------------------------------------------------------
\* A call that is made holds no slot.
LEMMA CallHolds ==
    ASSUME NEW w, NEW s, NEW h, NEW r, Sound(w, s, h, r),
           NEW t \in Thread, NEW d, NEW n, NEW e, OnTop(t, d, n, e), NEW f, NEW c, CallsNow(e, f, c),
           NEW g, g.k \in {"pfor", "join"}
    PROVE  HoldSame(e, f, g) /\ HolderOK(f) /\ HolderOK(g)
           /\ Waking(e) = None /\ Waking(f) = None /\ Waking(g) = None
<1>1. e.k = "body" /\ f.k = "body" /\ f.id = e.id /\ f.job = e.job
  BY CallKnows DEF CallsNow
<1>2. HolderOK(e)
  BY TopFacts
<1>3. HolderOK(f) /\ HolderOK(g)
  BY <1>1, <1>2 DEF HolderOK
<1>4. HoldSame(e, f, g)
  BY <1>1 DEF HoldSame, Holds, Draining, Holders
<1>5. Waking(e) = None /\ Waking(f) = None /\ Waking(g) = None
  BY <1>1 DEF Waking
<1> QED
  BY <1>3, <1>4, <1>5

\* A body calls parallel_for() and the counter is set (DoParFor).
LEMMA StepDoParFor ==
    ASSUME NEW w, NEW s, NEW h, NEW r, Sound(w, s, h, r), NEW t \in Thread, DoParFor(t)
    PROVE  StepKeeps
<1>1. /\ Shapes /\ Stacks /\ Nested /\ Placed(w) /\ Parked(s) /\ Named(h) /\ Counted(w, h, r)
      /\ Calling(t, "pfor")
  BY SoundParts DEF DoParFor
<1>2. PICK d, n, e, f, c : /\ OnTop(t, d, n, e) /\ CallsNow(e, f, c) /\ c.op = "pfor"
                           /\ Top(t) = e /\ Advanced(t) = f /\ Argument(t) = c
  BY <1>1, CallIs
<1>3. PICK list : list = c.chunks
  OBVIOUS
<1>4. PICK S : S = Range(list)
  OBVIOUS
<1>5. /\ list \in Seq(Task) /\ Submits(c) = S /\ S \subseteq Task /\ Distinct(list)
      /\ \A k \in S : h[k] = New /\ handle[k] = NoHandle
      /\ \A k \in S : \A q \in program.given[k] : handle[q] # NoHandle
  <2>1. Submits(c) = S
    BY <1>2, <1>3, <1>4 DEF Submits
  <2>2. Uses(program, e.job, e.pc) /\ c = CallAt(e.job, e.pc)
    BY <1>2, CallKnows DEF CallsNow
  <2>3. Distinct(list)
    <3>1. list = CallAt(e.job, e.pc).chunks /\ CallAt(e.job, e.pc).op = "pfor"
      BY <1>2, <1>3, <2>2
    <3>2. \A a, b \in DOMAIN CallAt(e.job, e.pc).chunks :
              CallAt(e.job, e.pc).chunks[a] = CallAt(e.job, e.pc).chunks[b] => a = b
      BY <2>2, <3>1 DEF Uses, CallAt
    <3> QED
      BY <3>1, <3>2 DEF Distinct
  <2> QED
    BY <1>2, <1>3, <2>1, <2>3, CallKnows
<1>6. /\ e.k = "body" /\ f.k = "body" /\ e.job \in Job /\ e.pc \in Pos /\ f.id = e.id /\ f.job = e.job
      /\ f.pc = e.pc + 1 /\ e.pc \in DOMAIN program.calls[e.job] /\ c = CallAt(e.job, e.pc) /\ f # Blank
  BY <1>2, CallKnows DEF CallsNow
<1>7. PICK g : g = Chunks(e.job, list)
  OBVIOUS
<1>8. g.k = "pfor" /\ g.job = e.job /\ g.list = list /\ g \in ChunkFrame
  BY <1>5, <1>6, <1>7 DEF Chunks, ChunkFrame
<1>9. g # Blank /\ g \in Frame
  BY <1>8 DEF Blank, Frame
<1>10. CallOn(e, c, g)
  <2>1. InCallOf(handle, e.job, e.pc, g)
    BY <1>2, <1>6, <1>8 DEF InCallOf
  <2> QED
    BY <1>2, <1>8, <1>9, <2>1 DEF CallOn, SubmitOK
<1>11. Goes(d, n, e, f, g) /\ FrameDeps(f)
  BY <1>2, <1>10, CallGoes
<1>12. FrameDeps(g)
  <2>1. ASSUME NEW k \in Task, NEW v \in Task, Depends(k, v) PROVE k \notin S
    <3>1. ASSUME k \in S PROVE FALSE
      <4>1. k \in Submits(CallAt(e.job, e.pc))
        BY <1>5, <1>6, <3>1
      <4> QED
        BY <1>1, <1>2, <1>6, <2>1, <4>1, DependsOnce
    <3> QED
      BY <3>1
  <2> QED
    BY <1>4, <1>8, <2>1 DEF FrameDeps, DepFrame
<1>13. MoveTo(remaining, remaining', e.job, Len(list)) /\ Call(t, f, g)
  BY <1>2, <1>3, <1>7 DEF DoParFor, MoveTo
<1>14. Swap(d, n, e, f, g)
  <2>1. f \in Frame
    BY <1>2 DEF CallsNow, Frame
  <2>2. Stacked(d, n, f, g)
    BY <1>1, <1>2, <1>9, <1>13, <2>1, Calls1
  <2> QED
    BY <1>2, <2>2, SwapTop
<1>15. UNCHANGED <<program, slots, alloc, live, queues, fibers, on, stopping, exited, history>>
  BY DEF DoParFor
<1>16. Shapes'
  <2>1. stack' \in [Contexts -> Seq(Frame)]
    BY <1>14 DEF Swap, Stacked
  <2>2. remaining' \in [Job -> Int]
    <3>1. Len(list) \in Int
      BY <1>5
    <3> QED
      BY <1>1, <1>13, <3>1 DEF Shapes, MoveTo
  <2> QED
    BY <1>1, <1>15, <2>1, <2>2, ShapesNext DEF Shapes, QueueTypes, queues, fibers, history
<1>17. Stopped'
  BY <1>11, <1>14, <1>15, StoppedGoes
<1>18. HoldSame(e, f, g) /\ HolderOK(f) /\ HolderOK(g) /\ Waking(e) = None /\ Waking(f) = None /\ Waking(g) = None
  BY <1>2, <1>8, CallHolds
<1>19. Placed(w)'
  <2>1. \A j \in Task : j \in ended' <=> j \in ended
    BY <1>15 DEF history
  <2> QED
    BY <1>1, <1>14, <1>15, <1>18, <2>1, PlacedQuiet DEF queues, history
<1>20. Parked(s)'
  <2>1. e # Blank
    BY <1>6 DEF Blank
  <2>2. \A y \in Id : slots'[y].waiters = slots[y].waiters
    BY <1>15
  <2> QED
    BY <1>1, <1>6, <1>14, <1>15, <1>18, <2>1, <2>2, ParkedQuiet DEF fibers
<1>21. PICK h2 : AskedBy(h, h2, S, Asked(d, n + 1))
  BY DEF AskedBy
<1>22. Named(h2)'
  <2>1. \A j \in Task : Asks(g, j) <=> j \in S
    BY <1>4, <1>8 DEF Asks
  <2>2. FrameFuture(h, g) /\ g.k # "body"
    BY <1>5, <1>8 DEF FrameFuture
  <2>3. UNCHANGED <<program, slots, begun, ended, handle>>
    BY <1>15 DEF history
  <2>4. S = Submits(CallAt(e.job, e.pc))
    BY <1>5, <1>6
  <2> QED
    BY <1>1, <1>6, <1>14, <1>21, <2>1, <2>2, <2>3, <2>4, NamedAsk
<1>23. \A j \in Job : h2[j] = IF j \in S THEN Asked(d, n + 1) ELSE h[j]
  BY <1>21 DEF AskedBy
<1>24. Asked(d, n + 1)[1] = "asked" /\ Asked(d, n + 1) # New
  BY Stages
<1>25. \A j \in Task : j \in Job
  BY DEF Task
<1>26. NamesOn(h, h2)
  <2>1. \A k \in S : Given(h, k)
    BY <1>5, <1>15 DEF Given, history
  <2> QED
    BY <1>5, <1>23, <1>24, <1>25, <2>1 DEF NamesOn
<1>27. PICK r2 : Grouped(r, r2, S, e.job)
  BY DEF Grouped
<1>28. Counted(w, h2, r2)'
  <2>1. \A k \in Task : h2[k] = New => h[k] = New /\ k \notin S
    BY <1>23, <1>24, <1>25
  <2>2. list = CallAt(e.job, e.pc).chunks /\ CallAt(e.job, e.pc).op = "pfor"
    BY <1>2, <1>3, <1>6
  <2>3. UNCHANGED <<program, slots, ended>>
    BY <1>15 DEF history
  <2> QED
    BY <1>1, <1>4, <1>5, <1>6, <1>8, <1>13, <1>14, <1>27, <2>1, <2>2, <2>3, CountedLoop
<1>29. \A x \in Fiber : HonFiber(s, x)'
  <2>1. \A id \in Id : slots'[id].job = slots[id].job
    BY <1>15
  <2>2. UNCHANGED <<program, on, pending>> /\ ended \subseteq ended'
    BY <1>15 DEF fibers, history
  <2> QED
    BY <1>2, <1>14, <2>1, <2>2, HonFibersQuiet
<1>30. Sound(w, s, h2, r2)'
  <2>1. UNCHANGED <<program, alloc, live, free, on, pending, exited, handle>> /\ ended \subseteq ended'
    BY <1>15 DEF fibers, history
  <2>2. resumable = <<>> => resumable' = <<>> \/ Fibers
    BY <1>15 DEF fibers
  <2>3. SlotsKeep
    BY <1>15 DEF SlotsKeep
  <2>4. \A id \in Id : Moved(w, w, id)
    BY DEF Moved
  <2> QED
    BY <1>2, <1>11, <1>12, <1>14, <1>16, <1>17, <1>19, <1>20, <1>22, <1>26, <1>28, <1>29,
       <2>1, <2>2, <2>3, <2>4, CoreStep
<1> QED
  BY <1>30 DEF StepKeeps

\* main calls stop() (DoStop).
LEMMA StepDoStop ==
    ASSUME NEW w, NEW s, NEW h, NEW r, Sound(w, s, h, r), NEW t \in Thread, DoStop(t)
    PROVE  StepKeeps
<1>1. /\ Shapes /\ Stacks /\ FramesOK /\ Placed(w) /\ Parked(s) /\ Named(h) /\ Counted(w, h, r)
      /\ Calling(t, "stop")
  BY SoundParts DEF DoStop
<1>2. PICK d, n, e, f, c : /\ OnTop(t, d, n, e) /\ CallsNow(e, f, c) /\ c.op = "stop"
                           /\ Top(t) = e /\ Advanced(t) = f /\ Argument(t) = c
  BY <1>1, CallIs
<1>3. /\ e.k = "body" /\ f.k = "body" /\ e.job \in Job /\ e.pc \in Pos /\ f.id = e.id /\ f.job = e.job
      /\ f.pc = e.pc + 1 /\ e.pc \in DOMAIN program.calls[e.job] /\ c = CallAt(e.job, e.pc) /\ f # Blank
      /\ Uses(program, e.job, e.pc) /\ e.id \in {0} \cup Id
  BY <1>2, CallKnows DEF CallsNow, BodyFrame
<1>4. PICK g : g = Join
  OBVIOUS
<1>5. g.k = "join" /\ g # Blank /\ g \in Frame
  BY <1>4 DEF Join, Blank, Frame
<1>6. Goes(d, n, e, f, g) /\ FrameDeps(f)
  <2>1. InCallOf(handle, e.job, e.pc, g)
    BY <1>2, <1>3, <1>5 DEF InCallOf
  <2>2. CallOn(e, c, g)
    BY <1>2, <1>5, <2>1 DEF CallOn, SubmitOK
  <2> QED
    BY <1>2, <2>2, CallGoes
<1>7. FrameDeps(g) /\ CountedHere(r, e, f, g) /\ FrameQuiet(h, e, f, g)
  <2>1. \A j : ~Looping(g, j) /\ ~Looping(e, j) /\ ~Looping(f, j)
    BY <1>3, <1>5, LoopingIs
  <2>2. CountedHere(r, e, f, g)
    BY <1>3, <1>5, <2>1, LoopingIs DEF CountedHere, CountFrame
  <2>3. FrameFuture(h, e)
    BY <1>2, TopFacts
  <2>4. Unasked(h, e.job, e.pc + 1)
    <3>1. \A m \in DOMAIN program.calls[e.job] : m \in Pos
      BY <1>1, <1>3, CallTypes
    <3>2. \A m \in Pos : m >= e.pc + 1 => m >= e.pc
      BY <1>3 DEF Pos
    <3> QED
      BY <1>3, <2>3, <3>1, <3>2 DEF FrameFuture, Unasked
  <2>5. FrameQuiet(h, e, f, g)
    BY <1>3, <1>5, <2>4 DEF FrameQuiet, FrameFuture, Asks
  <2>6. FrameDeps(g)
    BY <1>5 DEF FrameDeps, DepFrame
  <2> QED
    BY <2>2, <2>5, <2>6
<1>8. Call(t, f, g) /\ stopping' = TRUE
  BY <1>2, <1>4 DEF DoStop
<1>9. Swap(d, n, e, f, g)
  <2>1. f \in Frame
    BY <1>2 DEF CallsNow, Frame
  <2>2. Stacked(d, n, f, g)
    BY <1>1, <1>2, <1>5, <1>8, <2>1, Calls1
  <2> QED
    BY <1>2, <2>2, SwapTop
<1>10. UNCHANGED <<program, slots, alloc, live, queues, fibers, on, exited, history, remaining>>
  BY DEF DoStop
<1>11. Shapes'
  <2>1. stack' \in [Contexts -> Seq(Frame)]
    BY <1>9 DEF Swap, Stacked
  <2> QED
    BY <1>1, <1>8, <1>10, <2>1, ShapesNext DEF Shapes, QueueTypes, queues, fibers, history
<1>12. HoldSame(e, f, g) /\ HolderOK(f) /\ HolderOK(g) /\ Waking(e) = None /\ Waking(f) = None /\ Waking(g) = None
  BY <1>2, <1>5, CallHolds
<1>13. e.job = "main" /\ e.pc = Len(program.calls["main"])
  BY <1>2, <1>3 DEF Uses, CallAt
<1>14. d = External /\ n = 1
  <2>1. e.id = 0
    <3>1. ASSUME e.id # 0 PROVE FALSE
      <4>1. SlotOK(e.id, "body") /\ HolderOK(e) /\ slots[e.id].gen # 0
        BY <1>1, <1>3, <1>9, <3>1, HeldBy DEF Holders
      <4>2. e.job \in Task
        BY <1>3, <3>1, <4>1 DEF SlotOK, HolderOK
      <4> QED
        BY <1>13, <4>2 DEF Task
    <3> QED
      BY <3>1
  <2>2. d \in Contexts /\ n \in Pos /\ FrameAt(d, n) = e
    BY <1>9 DEF Swap
  <2> QED
    BY <1>1, <1>3, <2>1, <2>2 DEF FramesOK
<1>15. Stopped'
  <2>1. exited' = {}
    BY <1>2, <1>10, CallsBeforeStop
  <2>2. ASSUME NEW i \in Pos, NEW x, x = FrameAt(External, i)'
        PROVE  x = Blank \/ (i = 1 /\ x.pc > Len(program.calls["main"])) \/ (i = 2 /\ x.k = "join")
    <3>1. x = IF i = 1 THEN f ELSE IF i = 2 THEN g ELSE FrameAt(External, i)
      BY <1>9, <1>14, <2>2, Sizes DEF Swap, Stacked
    <3>2. i # 1 /\ i # 2 => FrameAt(External, i) = Blank
      <4>1. Len(stack[External]) = 1
        BY <1>2, <1>14 DEF OnTop
      <4> QED
        BY <1>1, <4>1, FrameAtIn, Sizes DEF Pos
    <3>3. f.pc > Len(program.calls["main"])
      BY <1>3, <1>13 DEF Pos
    <3> QED
      BY <1>5, <3>1, <3>2, <3>3
  <2>3. \A i \in Pos : \/ FrameAt(External, i)' = Blank
                       \/ i = 1 /\ FrameAt(External, i)'.pc > Len(program.calls["main"])
                       \/ i = 2 /\ FrameAt(External, i)'.k = "join"
    BY <2>2
  <2> QED
    BY <1>10, <2>1, <2>3 DEF Stopped, Blank, Pos
<1>16. Placed(w)'
  <2>1. \A j \in Task : j \in ended' <=> j \in ended
    BY <1>10 DEF history
  <2> QED
    BY <1>1, <1>9, <1>10, <1>12, <2>1, PlacedQuiet DEF queues, history
<1>17. Parked(s)'
  <2>1. e # Blank
    BY <1>3 DEF Blank
  <2>2. \A y \in Id : slots'[y].waiters = slots[y].waiters
    BY <1>10
  <2> QED
    BY <1>1, <1>3, <1>9, <1>10, <1>12, <2>1, <2>2, ParkedQuiet DEF fibers
<1>18. Named(h)' /\ NamesOn(h, h)
  <2>1. HistoryMove(h)
    BY <1>1, <1>10, HistorySame DEF history
  <2>2. NamesOn(h, h)
    BY DEF NamesOn
  <2>3. \A id \in Id : slots'[id].job = slots[id].job
    BY <1>10
  <2> QED
    BY <1>1, <1>7, <1>9, <1>10, <2>1, <2>2, <2>3, NamedQuiet
<1>19. Counted(w, h, r)'
  <2>1. SlotsOn(w, w, r, r, e, f)
    BY <1>3, <1>10, SlotsOnSame
  <2>2. ended \subseteq ended'
    BY <1>10 DEF history
  <2> QED
    BY <1>1, <1>7, <1>9, <1>10, <2>1, <2>2, CountedQuiet
<1>20. \A x \in Fiber : HonFiber(s, x)'
  <2>1. \A id \in Id : slots'[id].job = slots[id].job
    BY <1>10
  <2>2. UNCHANGED <<program, on, pending>> /\ ended \subseteq ended'
    BY <1>10 DEF fibers, history
  <2> QED
    BY <1>2, <1>9, <2>1, <2>2, HonFibersQuiet
<1>21. Sound(w, s, h, r)'
  <2>1. UNCHANGED <<program, alloc, live, free, on, pending, exited, handle>> /\ ended \subseteq ended'
    BY <1>10 DEF fibers, history
  <2>2. resumable = <<>> => resumable' = <<>> \/ Fibers
    BY <1>10 DEF fibers
  <2>3. SlotsKeep
    BY <1>10 DEF SlotsKeep
  <2>4. \A id \in Id : Moved(w, w, id)
    BY DEF Moved
  <2> QED
    BY <1>2, <1>6, <1>7, <1>9, <1>11, <1>15, <1>16, <1>17, <1>18, <1>19, <1>20,
       <2>1, <2>2, <2>3, <2>4, CoreStep
<1> QED
  BY <1>21 DEF StepKeeps

-----------------------------------------------------------------------------
\* What the frames on top of a stack waited for is done, and no thread changes its stack.
LEMMA HonTops ==
    ASSUME NEW w, NEW s, NEW h, NEW r, Sound(w, s, h, r), ended \subseteq ended', UNCHANGED program,
           NEW d, NEW n, NEW e, NEW f, NEW g, Swap(d, n, e, f, g), HonTop(d, n, f, g), e # Blank \/ n = 1,
           \A c \in Contexts : LeftNext(c) = Left(c)
    PROVE  HonFrames'
<1>1. Shapes /\ HonFrames
  BY SoundParts
<1>2. HonHere(d, n, f, g)
  <2>1. \A c \in Contexts, i \in Pos : HonFrame(FrameAt(c, i), FrameAt(c, i + 1), ended, Left(c))
    BY <1>1 DEF HonFrames
  <2>2. \A i, m : FulfilledIn(i, m, ended) => FulfilledIn(i, m, ended')
    BY DEF FulfilledIn
  <2>3. \A x, y, left : HonFrame(x, y, ended, left) => HonFrame(x, y, ended', left)
    BY <2>2 DEF HonFrame
  <2>4. d \in Contexts
    BY DEF Swap
  <2> QED
    BY <2>1, <2>2, <2>3, <2>4 DEF HonHere, HonTop
<1> QED
  BY <1>1, <1>2, HonFramesMove

\* A fiber that stays where it was, whichever slots get new jobs.
LEMMA HonFiberKept ==
    ASSUME NEW w, NEW s, NEW h, NEW r, Sound(w, s, h, r),
           NEW d, NEW n, NEW e, NEW f, NEW g, Swap(d, n, e, f, g), UNCHANGED program, ended \subseteq ended',
           NEW s2, NEW x \in Fiber, x # d, s2[x] = s[x],
           \A v \in Worker : s[x] = LeftBy(v) => pending'[v] = pending[v],
           \A id \in Id : \/ slots'[id].job = slots[id].job
                          \/ slots[id].waiters \in {None, Shut} /\ (slots[id].gen # 0 => slots[id].job \in ended)
    PROVE  HonFiber(s2, x)'
<1>1. HonFiber(s, x) /\ Shapes /\ WaitLists(s) /\ SwitchOK
  BY SoundParts
<1>2. \A k : Awaits(x, k) => Awaits(x, k)'
  BY AwaitsSame, Sizes
<1>3. s2[x][1] \in {"resumable", "resume"} => \E k \in ended' : Awaits(x, k)'
  BY <1>1, <1>2 DEF HonFiber
<1>4. ASSUME NEW y \in Id, s2[x] = WaitsOn(y)
      PROVE  \E k \in Job : Awaits(x, k)' /\ (k \in ended' \/ slots'[y].job = k)
  <2>1. x \in Waiters(slots[y].waiters)
    BY <1>1, <1>4 DEF WaitLists
  <2>2. slots[y].waiters \notin {None, Shut}
    BY <2>1, WaitersAre
  <2>3. slots'[y].job = slots[y].job
    BY <2>2
  <2> QED
    BY <1>1, <1>2, <1>4, <2>3 DEF HonFiber
<1>5. ASSUME NEW v \in Worker, s2[x] = LeftBy(v), NEW p, p = pending'[v], p.kind = "park"
      PROVE  \E k \in Job : Awaits(x, k)' /\ (k \in ended' \/ slots'[p.id].job = k)
  <2>1. p = pending[v]
    BY <1>5
  <2>2. p.id \in Id /\ slots[p.id].gen # 0
    BY <1>1, <1>5, <2>1, PendingShapes DEF SwitchOK
  <2>3. PICK k \in Job : Awaits(x, k) /\ (k \in ended \/ slots[p.id].job = k)
    BY <1>1, <1>5, <2>1 DEF HonFiber
  <2>4. k \in ended' \/ slots'[p.id].job = k
    BY <2>2, <2>3
  <2> QED
    BY <1>2, <2>3, <2>4
<1>6. Job' = Job
  BY DEF Job
<1> QED
  BY <1>3, <1>4, <1>5, <1>6 DEF HonFiber

-----------------------------------------------------------------------------
\* allocate_slot takes a slot.

\* allocate_slot takes the next slot of the ring, and its job is over (AllocTake).
LEMMA StepAllocTake ==
    ASSUME NEW w, NEW s, NEW h, NEW r, Sound(w, s, h, r), NEW t \in Thread, AllocTake(t), RingAhead
    PROVE  StepKeeps
<1>1. /\ Shapes /\ Stacks /\ SwitchOK /\ FramesOK /\ Nested /\ Stopped
      /\ Placed(w) /\ Parked(s) /\ Named(h) /\ Handled(h) /\ Known(h)
      /\ Counted(w, h, r) /\ Depended(w, h) /\ w \in [Id -> Token] /\ In(t, "submit")
  BY SoundParts DEF AllocTake
<1>2. PICK d, n, e : OnTop(t, d, n, e) /\ e.k = "submit"
  BY <1>1, HasTop
<1>3. Top(t) = e /\ d \in Contexts /\ n \in Pos /\ FrameAt(d, n) = e /\ e # Blank
  BY <1>2, TopFacts DEF OnTop
<1>4. /\ e.pc = "take" /\ e \in SubmitFrame /\ e.id = 0 /\ e.job \in Task /\ e.dep \in Task \cup {None}
      /\ e.group \in Job \cup {None}
  <2>1. e \in SubmitFrame /\ e.job \in Task /\ e.dep \in Task \cup {None} /\ (e.id = 0 <=> e.pc \in {"room", "take"})
    BY <1>2, SubmitTypes
  <2>2. e.pc = "take"
    BY <1>3 DEF AllocTake
  <2> QED
    BY <2>1, <2>2 DEF SubmitFrame
<1>5. PICK id : id = SlotOf(alloc)
  OBVIOUS
<1>6. alloc \in Nat /\ id \in Id /\ GenOf(alloc) \in Nat \ {0} /\ alloc + 1 \in Pos
  <2>1. alloc \in Pos
    BY <1>1 DEF Shapes
  <2>2. alloc \in Nat /\ alloc + 1 \in Pos
    BY <2>1 DEF Pos
  <2> QED
    BY <1>5, <2>2, LapTypes
<1>7. PICK x : x = [FreshSlot EXCEPT !.gen = GenOf(alloc), !.job = e.job, !.group = e.group]
  OBVIOUS
<1>8. /\ x.gen = GenOf(alloc) /\ x.job = e.job /\ x.group = e.group /\ x.dependents = 0 /\ x.waiters = None
      /\ x \in SlotShape
  BY <1>4, <1>6, <1>7 DEF FreshSlot, SlotShape
<1>9. PICK f : f = [e EXCEPT !.id = id, !.pc = IF e.dep = None THEN "ready" ELSE "dep"]
  OBVIOUS
<1>10. /\ f \in SubmitFrame /\ f.k = "submit" /\ f.id = id /\ f.job = e.job /\ f.dep = e.dep /\ f.group = e.group
       /\ f.pc = (IF e.dep = None THEN "ready" ELSE "dep") /\ f \in Frame /\ f # Blank
  <2>1. 0 # id
    BY <1>6, Sizes
  <2>2. /\ f \in SubmitFrame /\ f.k = "submit" /\ f.id = id /\ f.job = e.job /\ f.dep = e.dep /\ f.group = e.group
        /\ f.pc = (IF e.dep = None THEN "ready" ELSE "dep")
    BY <1>4, <1>6, <1>9, <2>1 DEF SubmitFrame
  <2> QED
    BY <2>2 DEF Frame, Blank
<1>11. /\ ~Occupied(id) /\ MoveTo(slots, slots', id, x) /\ alloc' = alloc + 1 /\ live' = live + 1 /\ Replace(t, f)
       /\ UNCHANGED <<program, queues, fibers, on, stopping, exited, history, remaining>>
  BY <1>3, <1>5, <1>7, <1>9 DEF AllocTake, RingAhead, MoveTo
<1>12. Swap(d, n, e, f, Blank)
  <2>1. Stacked(d, n, f, Blank)
    BY <1>1, <1>2, <1>10, <1>11, Replaces
  <2> QED
    BY <1>2, <2>1, SwapTop
<1>13. \A y \in Id : slots'[y] = IF y = id THEN x ELSE slots[y]
  BY <1>1, <1>11 DEF MoveTo, Shapes
<1>14. Shapes'
  <2>1. stack' \in [Contexts -> Seq(Frame)]
    BY <1>12 DEF Swap, Stacked
  <2>2. slots' \in [Id -> SlotShape]
    BY <1>1, <1>6, <1>8, <1>11 DEF MoveTo, Shapes
  <2>3. alloc' \in Pos /\ live' \in Int
    BY <1>1, <1>6, <1>11 DEF Shapes
  <2> QED
    BY <1>1, <1>11, <2>1, <2>2, <2>3, ShapesNext DEF Shapes, QueueTypes, queues, fibers, history
<1>15. UNCHANGED ended /\ ended \subseteq ended'
  BY <1>11 DEF history
<1>16. /\ Goes(d, n, e, f, Blank) /\ Waking(f) = Waking(e) /\ CountedHere(r, e, f, Blank)
       /\ FrameDeps(f) /\ FrameDeps(Blank)
  <2>1. SubmitOn(e, f)
    BY <1>2, <1>10 DEF SubmitOn
  <2>2. Turns(d, n, e, f, Blank) /\ CountedHere(r, e, f, Blank) /\ FrameDeps(f) /\ FrameDeps(Blank)
    BY <1>2, <1>15, <2>1, SubmitTurns
  <2> QED
    BY <2>2 DEF Turns
<1>17. PICK w2 : w2 = [w EXCEPT ![id] = Held("submit", d, n)]
  OBVIOUS
<1>18. h[e.job] = Asked(d, n) /\ begun[e.job] = 0 /\ e.job \notin ended
  <2>1. Asks(e, e.job)
    BY <1>2, <1>4 DEF Asks
  <2>2. h[e.job] = Asked(d, n)
    BY <1>1, <1>3, <1>4, <2>1 DEF Named
  <2> QED
    BY <1>1, <1>4, <2>2, Stages DEF Named
<1>19. Placed(w2)' /\ w[id] = Unused
  <2>1. slots' = [slots EXCEPT ![id] = x]
    BY <1>11 DEF MoveTo
  <2>2. UNCHANGED <<program, deque, inject, ended, begun>>
    BY <1>11 DEF queues, history
  <2>3. x.gen \in Nat \ {0} /\ x.job = e.job /\ x.job \in Task /\ x.dependents = 0 /\ x.waiters = None
    BY <1>4, <1>6, <1>8
  <2> QED
    <3>1. /\ Shapes /\ Placed(w) /\ Swap(d, n, e, f, Blank) /\ id \in Id
          /\ e.k = "submit" /\ e.id = 0 /\ f.k = "submit" /\ f.job = e.job /\ f.id = id
      BY <1>1, <1>2, <1>4, <1>6, <1>10, <1>12
    <3>2. live' = live + 1 /\ ~Occupied(id) /\ begun[e.job] = 0 /\ e.job \notin ended
      BY <1>11, <1>18
    <3> QED
      BY <1>17, <2>1, <2>2, <2>3, <3>1, <3>2, PlacedAlloc
<1>20. slots[id].gen # 0 => IsClosed(id) /\ IsShut(id) /\ slots[id].job \in ended
  <2>1. SlotOK(id, "unused")
    BY <1>1, <1>6, <1>19, Tokens DEF Placed, Alive
  <2> QED
    BY <2>1 DEF SlotOK
<1>21. slots[id].waiters \in {None, Shut}
  <2>1. SlotOK(id, "unused")
    BY <1>1, <1>6, <1>19, Tokens DEF Placed, Alive
  <2> QED
    BY <1>20, <2>1 DEF SlotOK, FreshSlot, IsShut
<1>22. PICK h2 : Renamed(h, h2, e.job, id)
  BY DEF Renamed
<1>23. Named(h2)'
  <2>1. slots'[id].job = e.job /\ \A y \in Id : y # id => slots'[y] = slots[y]
    BY <1>6, <1>8, <1>13
  <2>2. UNCHANGED <<program, begun, ended, handle>>
    BY <1>11 DEF history
  <2> QED
    BY <1>1, <1>2, <1>4, <1>6, <1>10, <1>12, <1>19, <1>22, <2>1, <2>2, NamedAlloc
<1>24. \A j \in Job : h2[j] = IF j = e.job THEN InSlot(id) ELSE IF h[j] = InSlot(id) THEN Gone ELSE h[j]
  BY <1>22 DEF Renamed
<1>25. InSlot(id) # New /\ Gone # New /\ Asked(d, n) # New
  BY Stages
<1>26. \A k \in Task : h2[k] = New <=> h[k] = New
  <2>1. \A k \in Task : k \in Job
    BY DEF Task
  <2> QED
    BY <1>18, <1>24, <1>25, <2>1
<1>27. Handled(h2)'
  <2>1. slots'[id].gen = GenOf(alloc) /\ \A y \in Id : y # id => slots'[y] = slots[y]
    BY <1>6, <1>8, <1>13
  <2>2. f.pc # "link"
    BY <1>10
  <2>3. UNCHANGED <<program, handle>>
    BY <1>11 DEF history
  <2> QED
    BY <1>1, <1>2, <1>5, <1>10, <1>11, <1>12, <1>22, <2>1, <2>2, <2>3, HandledAlloc
<1>28. KnownHere(d, n, f, Blank) /\ HandlesStay
  <2>1. UNCHANGED <<program, handle>>
    BY <1>11 DEF history
  <2>2. (f.k = "submit" <=> e.k = "submit") /\ KnowsAt(f, Blank) /\ KnowsAt(Blank, Blank)
    BY <1>16 DEF Goes
  <2> QED
    BY <1>1, <1>12, <2>1, <2>2, KnownSame
<1>29. Known(h2)'
  BY <1>1, <1>11, <1>12, <1>26, <1>28, KnownMove
<1>30. Counted(w2, h2, r)'
  <2>1. SlotsOn(w, w2, r, r, e, f)
    <3>0. CountFrame(r, e, Blank, ended)
      BY <1>2, TopFacts
    <3>1. e.group # None => r[e.job] = e.group
      BY <1>2, <3>0 DEF CountFrame
    <3>2. \A y \in Id : y # id => w2[y] = w[y]
      BY <1>1, <1>6, <1>17
    <3>3. \A y \in Id : ~Holds(e, "finish", y)
      BY <1>2 DEF Holds
    <3> QED
      BY <1>8, <1>13, <3>1, <3>2, <3>3 DEF SlotsOn
  <2>2. UNCHANGED <<program, remaining>>
    BY <1>11
  <2> QED
    BY <1>1, <1>12, <1>15, <1>16, <1>26, <2>1, <2>2, CountedQuiet
<1>31. Depended(w2, h2)'
  <2>1. MoveTo(w, w2, id, Held("submit", d, n))
    BY <1>17 DEF MoveTo
  <2>2. \A y \in Id : y # id => slots'[y] = slots[y]
    BY <1>13
  <2>3. UNCHANGED <<program, ended>>
    BY <1>11 DEF history
  <2> QED
    BY <1>1, <1>4, <1>6, <1>12, <1>16, <1>19, <1>22, <2>1, <2>2, <2>3, DependedAlloc
<1>32. Parked(s)'
  <2>1. \A y \in Id : slots'[y].waiters = slots[y].waiters \/ NobodyWaits(y)
    BY <1>8, <1>13, <1>21 DEF NobodyWaits
  <2> QED
    BY <1>1, <1>3, <1>10, <1>11, <1>12, <1>16, <2>1, BlankHolds, ParkedQuiet DEF fibers
<1>33. Stacks'
  <2>1. FramesOK'
    BY <1>1, <1>3, <1>12, <1>16, FramesFollow DEF Goes
  <2>2. \A c \in Worker \cup Fiber : Busy(c)' <=> Busy(c)
    <3>1. \A c \in Contexts \ {External} : Busy(c)' <=> Busy(c)
      BY <1>3, <1>10, <1>12, BusyStays
    <3> QED
      BY <3>1, Sizes
  <2>3. GensKept
    BY <1>6, <1>8, <1>13 DEF GensKept
  <2>4. SwitchOK'
    BY <1>1, <1>11, <2>2, <2>3, SwitchQuiet DEF fibers
  <2> QED
    BY <2>1, <2>4, StacksPartsNext
<1>34. Nested'
  <2>1. n - 1 \in Pos => Follows(e, f) /\ e # Blank
    BY <1>3, <1>16 DEF Goes
  <2>2. AboveOf(handle', f, Blank)
    BY BlankOK DEF AboveOf
  <2> QED
    BY <1>1, <1>11, <1>12, <1>28, <2>1, <2>2, NestedMove
<1>35. Stopped'
  <2>1. exited = {}
    BY <1>2, NotStopping
  <2>2. d = External /\ stopping => f = Blank /\ Blank = Blank
    BY <1>16 DEF Goes
  <2> QED
    BY <1>1, <1>11, <1>12, <2>1, <2>2, StoppedMove
<1>36. Honoured(s)'
  <2>1. HonFrames'
    <3>1. \A c \in Contexts : LeftNext(c) = Left(c)
      BY <1>11 DEF LeftNext, Left
    <3>2. HonTop(d, n, f, Blank)
      BY <1>16 DEF Goes
    <3> QED
      BY <1>3, <1>11, <1>12, <1>15, <3>1, <3>2, HonTops
  <2>2. ASSUME NEW y \in Fiber PROVE HonFiber(s, y)'
    <3>1. CASE y = d
      <4>1. s[y] = RunBy(t)
        BY <1>1, <1>2, <3>1, RunsFiber
      <4>2. s[y][1] = "on"
        BY <4>1, Spots
      <4> QED
        BY <4>2, HonFiberElse
    <3>2. CASE y # d
      <4>1. \A z \in Id : \/ slots'[z].job = slots[z].job
                          \/ slots[z].waiters \in {None, Shut} /\ (slots[z].gen # 0 => slots[z].job \in ended)
        BY <1>13, <1>20, <1>21
      <4>2. UNCHANGED <<program, pending>>
        BY <1>11 DEF fibers
      <4> QED
        BY <1>12, <1>15, <3>2, <4>1, <4>2, HonFiberKept
    <3> QED
      BY <3>1, <3>2
  <2> QED
    BY <2>1, <2>2, HonouredPartsNext
<1>37. Sound(w2, s, h2, r)'
  BY <1>14, <1>19, <1>23, <1>27, <1>29, <1>30, <1>31, <1>32, <1>33, <1>34, <1>35, <1>36 DEF Sound
<1> QED
  BY <1>37 DEF StepKeeps

-----------------------------------------------------------------------------
\* submit() returns: its caller has the handle.
LEMMA SubmitReturns ==
    ASSUME NEW w, NEW s, NEW h, NEW r, Sound(w, s, h, r),
           NEW t \in Thread, NEW d, NEW n, NEW e, OnTop(t, d, n, e), e.k = "submit", e.id \in Id,
           Swap(d, n, e, Blank, Blank),
           NEW x, x = [id |-> e.id, gen |-> slots[e.id].gen], MoveTo(handle, handle', e.job, x),
           UNCHANGED <<program, alloc, live, fibers, on, stopping, exited, begun, ended, remaining>>,
           slots' \in [Id -> SlotShape], QueueTypes',
           \A id \in Id : /\ slots'[id].job = slots[id].job /\ slots'[id].gen = slots[id].gen
                          /\ slots'[id].waiters = slots[id].waiters /\ slots'[id].group = slots[id].group,
           NEW w2, Placed(w2)', Drifts(w, w2)
    PROVE  Sound(w2, s, h, r)'
<1>1. /\ Shapes /\ Stacks /\ SwitchOK /\ FramesOK /\ Nested /\ Stopped
      /\ Placed(w) /\ Parked(s) /\ Named(h) /\ Handled(h) /\ Known(h)
      /\ Counted(w, h, r) /\ Depended(w, h)
  BY SoundParts
<1>2. /\ e.job \in Task /\ e.job \in Job /\ e # Blank /\ handle[e.job] = NoHandle /\ d \in Contexts /\ n \in Pos
      /\ FrameAt(d, n) = e /\ e.id # 0
  <2>1. e.job \in Task /\ handle[e.job] = NoHandle
    BY SubmitTypes
  <2>2. e.job \in Job
    BY <2>1 DEF Task
  <2>3. e.id # 0
    BY Sizes
  <2> QED
    BY <2>1, <2>2, <2>3, TopFacts DEF OnTop
<1>3. x \in HandleShape /\ x # NoHandle
  <2>1. slots[e.id].gen \in Nat
    BY <1>1 DEF Shapes, SlotShape
  <2>2. x.id # 0
    BY <1>2
  <2> QED
    BY <2>1, <2>2 DEF HandleShape, NoHandle
<1>4. /\ handle' \in [Job -> HandleShape]
      /\ \A j \in Job : handle'[j] = IF j = e.job THEN x ELSE handle[j]
  BY <1>1, <1>2, <1>3 DEF MoveTo, Shapes
<1>5. HandlesStay
  BY <1>2, <1>4 DEF HandlesStay
<1>6. Shapes'
  <2>1. stack' \in [Contexts -> Seq(Frame)]
    BY DEF Swap, Stacked
  <2>2. handle' \in [Job -> HandleShape]
    BY <1>4
  <2> QED
    BY <1>1, <2>1, <2>2, ShapesNext DEF Shapes, fibers
<1>7. n # 1
  <2>1. BasedBy(d, FrameAt(d, 1))
    BY TopFacts
  <2>2. FrameAt(d, 1).k \in {"body", "finish"} \/ FrameAt(d, 1) = Blank
    BY <2>1 DEF BasedBy
  <2> QED
    BY <1>2, <2>2
<1>8. h[e.job] = InSlot(e.id)
  <2>0. HolderOK(e)
    BY TopFacts
  <2>1. e.job = slots[e.id].job
    BY <1>2, <2>0 DEF HolderOK
  <2> QED
    BY <1>1, <1>2, <2>1 DEF Named
<1>9. Blank.k = "none" /\ Waking(e) = None /\ Waking(Blank) = None /\ (\A j : ~Looping(e, j)) /\ \A j : ~Looping(Blank, j)
  BY BlankHolds, LoopingIs DEF Blank, Waking
<1>10. Named(h)'
  <2>1. HistoryMove(h)
    <3>1. begun["main"] = 0 /\ handle["main"] = NoHandle /\ "main" \in Job
      BY <1>1, Programmed DEF Named, Shapes
    <3>2. handle'["main"] = NoHandle
      BY <1>2, <1>4, <3>1 DEF Task
    <3>3. \A j \in Task : handle'[j] = handle[j] \/ h[j] = InSlot(e.id)
      BY <1>4, <1>8 DEF Task
    <3> QED
      BY <3>1, <3>2, <3>3 DEF HistoryMove
  <2>2. FrameQuiet(h, e, Blank, Blank)
    BY <1>2, BlankHolds, BlankOK DEF FrameQuiet, Asks
  <2> QED
    BY <1>1, <2>1, <2>2, NamedQuiet
<1>11. Handled(h)'
  BY <1>1, HandledSet
<1>12. Known(h)'
  <2>1. ASSUME n - 1 \in Pos PROVE KnowsAtNext(FrameAt(d, n - 1), Blank)
    <3>1. PICK y : y = FrameAt(d, n - 1)
      OBVIOUS
    <3>2. ASSUME y.k = "body" PROVE KnowsNext(y.job, y.pc)
      <4>1. y \in Frame \cup {Blank}
        BY <1>1, <1>2, <2>1, <3>1, FrameAtIn
      <4>2. y \in BodyFrame
        BY <1>9, <3>2, <4>1, FrameKinds
      <4>3. y.pc \in Pos /\ y.job \in Job
        BY <4>2 DEF BodyFrame
      <4>4. Above(y, e)
        BY <2>1, <3>1, TopFacts
      <4>5. y.pc > 1 /\ y.pc - 1 \in DOMAIN program.calls[y.job] /\ CallAt(y.job, y.pc - 1).job = e.job
        BY <1>2, <3>2, <4>4 DEF Above, InCall
      <4>6. y.pc - 1 \in Pos
        BY <4>3, <4>5 DEF Pos
      <4>7. KnowsAt(y, FrameAt(d, n - 1 + 1))
        BY <1>1, <1>2, <2>1, <3>1, KnownFrames
      <4>8. n - 1 + 1 = n
        BY <1>2 DEF Pos
      <4>9. Knows(y.job, y.pc - 1)
        BY <1>2, <3>2, <4>7, <4>8 DEF KnowsAt, Past
      <4>10. handle'[e.job] # NoHandle
        BY <1>2, <1>3, <1>4
      <4> QED
        BY <1>1, <1>5, <4>3, <4>5, <4>6, <4>9, <4>10, KnowsSubmitted
    <3> QED
      BY <1>9, <3>1, <3>2 DEF KnowsAtNext, Past
  <2>2. KnownHere(d, n, Blank, Blank)
    BY <1>9, <2>1 DEF KnownHere, KnowsAtNext
  <2> QED
    BY <1>1, <1>5, <2>2, KnownMove
<1>13. Counted(w2, h, r)'
  <2>1. SlotsOn(w, w2, r, r, e, Blank)
    BY SlotsOnSame DEF Drifts
  <2>2. CountedHere(r, e, Blank, Blank)
    BY <1>9, BlankOK DEF CountedHere
  <2> QED
    BY <1>1, <2>1, <2>2, CountedQuiet
<1>14. Depended(w2, h)'
  <2>1. \A id \in Id : Moved(w, w2, id)
    BY DEF Drifts
  <2> QED
    BY <1>1, <2>1, BlankOK, DependedQuiet
<1>15. Parked(s)'
  BY <1>1, <1>7, <1>9, ParkedQuiet DEF fibers
<1>16. Stacks'
  <2>1. FramesOK'
    BY <1>1, <1>2, <1>9, FramesFollow DEF Follows
  <2>2. \A c \in Worker \cup Fiber : Busy(c)' <=> Busy(c)
    <3>1. \A c \in Contexts \ {External} : Busy(c)' <=> Busy(c)
      BY <1>7, BusyStays
    <3> QED
      BY <3>1, Sizes
  <2>3. GensKept
    BY DEF GensKept
  <2>4. SwitchOK'
    BY <1>1, <2>2, <2>3, SwitchQuiet DEF fibers
  <2> QED
    BY <2>1, <2>4, StacksPartsNext
<1>17. Nested'
  <2>1. Follows(e, Blank) /\ AboveOf(handle', Blank, Blank)
    BY BlankOK DEF Follows, AboveOf
  <2> QED
    BY <1>1, <1>2, <1>5, <2>1, NestedMove
<1>18. Stopped'
  BY <1>1, StoppedMove
<1>19. Honoured(s)'
  <2>1. HonTop(d, n, Blank, Blank)
    <3>1. ASSUME n - 1 \in Pos, FrameAt(d, n - 1).k = "body"
          PROVE FulfilledIn(FrameAt(d, n - 1).job, FrameAt(d, n - 1).pc - 1, ended)
      <4>1. PICK y : y = FrameAt(d, n - 1)
        OBVIOUS
      <4>2. Above(y, e)
        BY <3>1, <4>1, TopFacts
      <4>3. CallAt(y.job, y.pc - 1).op = "submit"
        BY <1>2, <3>1, <4>1, <4>2 DEF Above, InCall
      <4>4. FulfilledIn(y.job, y.pc - 1, ended)
        BY <4>3 DEF FulfilledIn
      <4> QED
        BY <4>1, <4>4
    <3> QED
      BY <3>1, BlankOK DEF HonTop
  <2>2. \A c \in Contexts : LeftNext(c) = Left(c)
    BY DEF LeftNext, Left
  <2>3. HonFrames'
    BY <1>2, <2>1, <2>2, HonTops
  <2>4. \A y \in Fiber : HonFiber(s, y)'
    BY HonFibersQuiet DEF fibers
  <2> QED
    BY <2>3, <2>4, HonouredPartsNext
<1> QED
  BY <1>6, <1>10, <1>11, <1>12, <1>13, <1>14, <1>15, <1>16, <1>17, <1>18, <1>19 DEF Sound

\* What is known of the frame of a submit() that has its slot.
LEMMA SubmitHolds ==
    ASSUME NEW w, NEW s, NEW h, NEW r, Sound(w, s, h, r),
           NEW t \in Thread, NEW d, NEW n, NEW e, OnTop(t, d, n, e), e.k = "submit", e.id \in Id
    PROVE  /\ w[e.id] = Held("submit", d, n) /\ w[e.id][1] = "submit" /\ w[e.id] # Unused
           /\ slots[e.id].job = e.job /\ slots[e.id].job \in Task /\ slots[e.id].gen # 0
           /\ \A v \in Task : Depends(e.job, v) => e.dep = v /\ (e.pc = "ready" => v \in ended)
<1>1. Placed(w) /\ Shapes
  BY SoundParts
<1>2. d \in Contexts /\ n \in Pos /\ FrameAt(d, n) = e /\ HolderOK(e) /\ e.job \in Task /\ e.id # 0
  <2>1. d \in Contexts /\ n \in Pos /\ HolderOK(e)
    BY TopFacts
  <2>2. e.job \in Task
    BY SubmitTypes
  <2>3. FrameAt(d, n) = e
    BY DEF OnTop
  <2> QED
    BY <2>1, <2>2, <2>3, Sizes
<1>3. w[e.id] = Held("submit", d, n)
  <2>1. Holds(e, "submit", e.id) /\ "submit" \in Holders
    BY DEF Holds, Holders
  <2> QED
    BY <1>1, <1>2, <2>1 DEF Placed, Carried
<1>4. w[e.id][1] = "submit" /\ w[e.id] # Unused
  BY <1>3, Tokens
<1>5. slots[e.id].job = e.job
  BY <1>2 DEF HolderOK
<1>6. slots[e.id].gen # 0
  <2>1. SlotOK(e.id, "submit")
    BY <1>1, <1>4 DEF Placed, Alive
  <2> QED
    BY <2>1 DEF SlotOK
<1>7. ASSUME NEW v \in Task, Depends(e.job, v) PROVE e.dep = v /\ (e.pc = "ready" => v \in ended)
  <2>1. DepFrame(e, e.job, v, ended)
    BY <1>2, <1>7, TopFacts
  <2> QED
    BY <2>1 DEF DepFrame
<1> QED
  BY <1>2, <1>3, <1>4, <1>5, <1>6, <1>7

\* submit() makes the job ready (SubmitReady).
LEMMA StepSubmitReady ==
    ASSUME NEW w, NEW s, NEW h, NEW r, Sound(w, s, h, r), NEW t \in Thread, SubmitReady(t)
    PROVE  StepKeeps
<1>1. Shapes /\ Placed(w) /\ w \in [Id -> Token] /\ Queued(w) /\ In(t, "submit")
  BY SoundParts DEF SubmitReady, Placed
<1>2. PICK d, n, e : OnTop(t, d, n, e) /\ e.k = "submit"
  BY <1>1, HasTop
<1>3. Top(t) = e
  BY <1>2 DEF OnTop
<1>4. e.pc = "ready" /\ e.id \in Id /\ e.job \in Task
  <2>1. e.pc = "ready"
    BY <1>3 DEF SubmitReady
  <2> QED
    BY <1>2, <2>1, SubmitTypes
<1>5. PICK id : id = e.id
  OBVIOUS
<1>6. /\ id \in Id /\ w[id] = Held("submit", d, n) /\ w[id][1] = "submit" /\ w[id] # Unused
      /\ slots[id].job = e.job /\ slots[id].job \in Task
      /\ \A v \in Task : Depends(e.job, v) => v \in ended
  BY <1>2, <1>4, <1>5, SubmitHolds
<1>7. PICK x : x = [id |-> e.id, gen |-> slots[e.id].gen]
  OBVIOUS
<1>8. /\ EnqueueReady(t, id) /\ Return(t) /\ MoveTo(handle, handle', e.job, x)
      /\ UNCHANGED <<program, slots, alloc, live, fibers, on, stopping, exited, begun, ended, remaining>>
  BY <1>3, <1>5, <1>7 DEF SubmitReady, Returned, MoveTo
<1>9. Swap(d, n, e, Blank, Blank)
  <2>1. Stacked(d, n, Blank, Blank)
    BY <1>1, <1>2, <1>8, Returns
  <2> QED
    BY <1>2, <2>1, SwapTop
<1>10. PICK z \in Token : z[1] \in {"deque", "inject"} /\ Placed([w EXCEPT ![id] = z])'
  <2>1. EnqueueMove(e, Blank, id)
    <3>1. \A y \in Id, k \in Holders : Holds(Blank, k, y) <=> Holds(e, k, y) /\ y # id
      BY <1>2, <1>5, BlankHolds DEF Holds
    <3>2. Draining(Blank) = 0 /\ Draining(e) = 0
      BY <1>2, BlankHolds DEF Draining
    <3>3. \A y \in Id : y \in Dependents(Draining(Blank)) <=> y \in Dependents(Draining(e)) /\ y # id
      BY <3>2, DrainNone
    <3> QED
      BY <3>1, <3>3, BlankHolds DEF EnqueueMove
  <2> QED
    BY <1>1, <1>6, <1>8, <1>9, <2>1, PlacedEnqueue
<1>11. PICK w2 : w2 = [w EXCEPT ![id] = z]
  OBVIOUS
<1>12. Placed(w2)'
  BY <1>10, <1>11
<1>13. Drifts(w, w2)
  <2>1. \A y \in Id : w2[y] = IF y = id THEN z ELSE w[y]
    BY <1>1, <1>11
  <2>2. \A v \in Task : Depends(slots[id].job, v) => v \in ended'
    BY <1>6, <1>8
  <2> QED
    BY <1>6, <2>1, <2>2 DEF Drifts, Moved
<1>14. QueueTypes'
  <2>1. program.pool[slots[id].job] \in {0, 1}
    BY <1>1, <1>6, Programmed DEF Shapes, Task
  <2>2. QueueTypes
    BY <1>1 DEF Shapes, QueueTypes
  <2> QED
    BY <1>1, <1>6, <1>8, <2>1, <2>2, Enqueued
<1>15. slots' \in [Id -> SlotShape]
  BY <1>1, <1>8 DEF Shapes
<1>16. Sound(w2, s, h, r)'
  <2>1. \A y \in Id : /\ slots'[y].job = slots[y].job /\ slots'[y].gen = slots[y].gen
                      /\ slots'[y].waiters = slots[y].waiters /\ slots'[y].group = slots[y].group
    BY <1>8
  <2>2. UNCHANGED <<program, alloc, live, fibers, on, stopping, exited, begun, ended, remaining>>
    BY <1>8
  <2> QED
    BY <1>2, <1>4, <1>7, <1>8, <1>9, <1>12, <1>13, <1>14, <1>15, <2>1, <2>2, SubmitReturns
<1> QED
  BY <1>16 DEF StepKeeps

\* submit() puts the job on the list of its dependency (SubmitLink).
LEMMA StepSubmitLink ==
    ASSUME NEW w, NEW s, NEW h, NEW r, Sound(w, s, h, r), NEW t \in Thread, SubmitLink(t)
    PROVE  StepKeeps
<1>1. /\ Shapes /\ Placed(w) /\ Named(h) /\ Handled(h) /\ w \in [Id -> Token] /\ In(t, "submit")
  BY SoundParts DEF SubmitLink
<1>2. PICK d, n, e : OnTop(t, d, n, e) /\ e.k = "submit"
  BY <1>1, HasTop
<1>3. Top(t) = e
  BY <1>2 DEF OnTop
<1>4. e.pc = "link" /\ e.id \in Id /\ e.job \in Task /\ e.dep \in Task /\ e.dep # None
      /\ handle[e.dep] # NoHandle /\ handle[e.dep].id # e.id
  <2>1. e.pc = "link"
    BY <1>3 DEF SubmitLink
  <2>2. None \notin Task
    BY <1>1, Programmed DEF Shapes, Task
  <2> QED
    BY <1>2, <2>1, <2>2, SubmitTypes
<1>5. PICK id : id = e.id
  OBVIOUS
<1>6. PICK v : v = handle[e.dep].id
  OBVIOUS
<1>7. CASE LinkRefused(v)
  BY <1>3, <1>6, <1>7, StepLinkRefused
<1>8. CASE ~LinkRefused(v)
  <2>1. /\ id \in Id /\ w[id] = Held("submit", d, n) /\ w[id][1] = "submit" /\ w[id] # Unused
        /\ slots[id].job = e.job /\ slots[id].job \in Task
        /\ \A u \in Task : Depends(e.job, u) => e.dep = u
    BY <1>2, <1>4, <1>5, SubmitHolds
  <2>2. v \in Id /\ v # id /\ ~IsClosed(v) /\ (e.dep \in ended \/ slots[v].job = e.dep)
        /\ (h[e.dep] = InSlot(v) \/ h[e.dep] = Gone)
    <3>1. Task \subseteq Job
      BY DEF Task
    <3> QED
      BY <1>1, <1>4, <1>5, <1>6, <1>8, <3>1, HandleSlot DEF LinkRefused
  <2>3. slots[v].gen # 0
    <3>1. CASE h[e.dep] = InSlot(v)
      <4>1. slots[v].job = e.dep
        BY <1>1, <1>4, <2>2, <3>1 DEF Named
      <4>2. slots[v].job # None
        BY <1>1, <1>4, <4>1, Programmed DEF Shapes, Task
      <4>3. SlotOK(v, w[v][1])
        BY <1>1, <2>2 DEF Placed, Alive
      <4> QED
        BY <4>2, <4>3 DEF SlotOK, FreshSlot
    <3>2. CASE h[e.dep] = Gone
      <4>1. e.dep \in Job /\ HandleOK(h, e.dep)
        BY <1>1, <1>4, HandledParts DEF Task
      <4>2. h[e.dep] # InSlot(v)
        BY <3>2, Stages
      <4>3. handle[e.dep].gen < slots[v].gen
        BY <1>4, <1>6, <4>1, <4>2 DEF HandleOK
      <4>4. handle[e.dep].gen \in Nat
        BY <1>1, <4>1 DEF Shapes, HandleShape
      <4> QED
        BY <4>3, <4>4
    <3> QED
      BY <2>2, <3>1, <3>2
  <2>4. PICK x : x = [id |-> e.id, gen |-> slots[e.id].gen]
    OBVIOUS
  <2>5. /\ LinkSlots(id, v) /\ Return(t) /\ MoveTo(handle, handle', e.job, x)
        /\ UNCHANGED <<program, alloc, live, queues, fibers, on, stopping, exited, begun, ended, remaining>>
    BY <1>3, <1>5, <1>6, <1>8, <2>4 DEF SubmitLink, Linked, Returned, MoveTo, LinkSlots
  <2>6. Swap(d, n, e, Blank, Blank)
    <3>1. Stacked(d, n, Blank, Blank)
      BY <1>1, <1>2, <2>5, Returns
    <3> QED
      BY <1>2, <3>1, SwapTop
  <2>7. PICK w2 : MoveTo(w, w2, id, OnList(v))
    BY DEF MoveTo
  <2>8. Placed(w2)'
    BY <1>1, <1>2, <1>4, <1>5, <2>2, <2>3, <2>5, <2>6, <2>7, PlacedLink DEF queues
  <2>9. Drifts(w, w2)
    <3>1. \A y \in Id : w2[y] = IF y = id THEN OnList(v) ELSE w[y]
      BY <1>1, <2>7 DEF MoveTo
    <3>2. OnList(v)[1] = "list" /\ \A y : OnList(v) = OnList(y) => v = y
      BY Tokens
    <3>3. \A u \in Task : Depends(slots[id].job, u) => u \in ended' \/ slots[v].job = u
      BY <2>1, <2>2, <2>5
    <3> QED
      BY <2>1, <3>1, <3>2, <3>3 DEF Drifts, Moved
  <2>10. /\ slots' \in [Id -> SlotShape]
         /\ \A y \in Id : /\ slots'[y].job = slots[y].job /\ slots'[y].gen = slots[y].gen
                          /\ slots'[y].waiters = slots[y].waiters /\ slots'[y].group = slots[y].group
    <3>1. \A y \in Id : /\ slots'[y].job = slots[y].job /\ slots'[y].gen = slots[y].gen
                        /\ slots'[y].waiters = slots[y].waiters /\ slots'[y].group = slots[y].group
                        /\ slots'[y] \in SlotShape
      BY <1>1, <2>1, <2>2, <2>5, LinkFields
    <3>2. slots' = [y \in Id |-> slots'[y]]
      BY <1>1, <2>5 DEF LinkSlots, Shapes
    <3> QED
      BY <3>1, <3>2
  <2>11. QueueTypes'
    BY <1>1, <2>5 DEF Shapes, QueueTypes, queues
  <2>12. Sound(w2, s, h, r)'
    BY <1>2, <1>4, <2>4, <2>5, <2>6, <2>8, <2>9, <2>10, <2>11, SubmitReturns
  <2> QED
    BY <2>12 DEF StepKeeps
<1> QED
  BY <1>7, <1>8

-----------------------------------------------------------------------------
\* Leaving a fiber.

\* A worker leaves the fiber that it runs, whose stack is d.
Leaves1(t, d, p) ==
    /\ on' = [on EXCEPT ![t] = t] /\ pending' = [pending EXCEPT ![t] = p]
    /\ p \in PendingShape /\ p.kind # "none" /\ p.fiber = d

\* A fiber leaves its thread: what changes.
LEMMA LeaveFields ==
    ASSUME Shapes, NEW t \in Worker, NEW d, NEW p, Leaves1(t, d, p)
    PROVE  /\ on' \in [Thread -> Contexts] /\ pending' \in [Worker -> PendingShape]
           /\ \A u \in Thread : on'[u] = IF u = t THEN t ELSE on[u]
           /\ \A v \in Worker : pending'[v] = IF v = t THEN p ELSE pending[v]
           /\ p.kind \in {"recycle", "park"} /\ p.fiber = d
<1>1. t \in Thread /\ t \in Contexts
  BY DEF Thread, Contexts
<1>2. on \in [Thread -> Contexts] /\ pending \in [Worker -> PendingShape]
  BY DEF Shapes
<1>3. p.kind \in {"recycle", "park"} /\ p.fiber = d
  BY DEF Leaves1, PendingShape
<1> QED
  BY <1>1, <1>2, <1>3 DEF Leaves1

\* A fiber leaves its thread and threads and fibers still fit together.
LEMMA SwitchLeaves ==
    ASSUME NEW w, NEW s, NEW h, NEW r, Sound(w, s, h, r), NEW t \in Thread, NEW d \in Fiber,
           NEW n, NEW e, OnTop(t, d, n, e), NEW p, Leaves1(t, d, p), UNCHANGED <<program, exited, free, resumable>>,
           p.kind = "recycle" => ~Busy(d)', NEW id, id = p.id, p.kind = "park" => Busy(d)' /\ slots'[id].gen # 0,
           \A c \in Contexts \ {d} : Busy(c)' <=> Busy(c), GensKept
    PROVE  SwitchOK'
<1>1. Shapes /\ SwitchOK /\ Stacks /\ Parked(s) /\ Pools(s)
  BY SoundParts
<1>2. t \in Worker /\ s[d] = RunBy(t) /\ NothingPending(t) /\ d # t
  BY <1>1, RunsFiber
<1>3. /\ on' \in [Thread -> Contexts] /\ pending' \in [Worker -> PendingShape]
      /\ \A u \in Thread : on'[u] = IF u = t THEN t ELSE on[u]
      /\ \A v \in Worker : pending'[v] = IF v = t THEN p ELSE pending[v]
      /\ p.kind \in {"recycle", "park"} /\ p.fiber = d
  BY <1>1, <1>2, LeaveFields
<1>4. External \in Thread /\ t # External /\ Worker \subseteq Thread /\ Fiber \cap Worker = {}
      /\ Worker \subseteq Contexts /\ Fiber \subseteq Contexts
  BY <1>2, Sizes
<1>5. on[t] = d
  BY DEF OnTop
<1>6. ~Busy(t) /\ t \notin exited
  BY <1>1, <1>2, <1>5 DEF SwitchOK
<1>7. ~Busy(t)'
  BY <1>2, <1>4, <1>6
<1>8. \A v \in Worker : v # t => on[v] # d
  <2>1. ASSUME NEW v \in Worker, on[v] = d PROVE v = t
    <3>1. s[d] = RunBy(v)
      BY <1>1, <2>1 DEF Pools
    <3> QED
      BY <1>2, <3>1, Spots
  <2> QED
    BY <2>1
<1>9. \A v \in Worker : v # t /\ ~NothingPending(v) => pending[v].fiber # d
  <2>1. ASSUME NEW v \in Worker, v # t, ~NothingPending(v), pending[v].fiber = d PROVE FALSE
    <3>1. s[d] = LeftBy(v)
      BY <1>1, <2>1 DEF Pools
    <3>2. LeftBy(v)[1] = "left" /\ RunBy(t)[1] = "on"
      BY Spots
    <3> QED
      BY <1>2, <3>1, <3>2
  <2> QED
    BY <2>1
<1>10. d \notin free
  <2>1. d \in free => s[d] = Free
    BY <1>1 DEF Pools
  <2>2. Free[1] = "free" /\ RunBy(t)[1] = "on"
    BY Spots
  <2> QED
    BY <1>2, <2>1, <2>2
<1>11. \A v \in Worker : v # t => (NothingPending(v)' <=> NothingPending(v))
  BY <1>3 DEF NothingPending
<1>12. ~NothingPending(t)'
  BY <1>2, <1>3 DEF NothingPending
<1>13. on'[External] = External /\ \A v \in Worker : on'[v] \in {v} \cup Fiber
  BY <1>1, <1>3, <1>4 DEF SwitchOK
<1>14. ~(Fibers)' => free' = {} /\ resumable' = <<>> /\ (\A v \in Worker : on'[v] = v)
  <2>1. (Fibers)' <=> Fibers
    BY DEF Fibers
  <2> QED
    BY <2>1, <1>1, <1>3, <1>4 DEF SwitchOK
<1>15. \A v \in Worker : \A x : x = on'[v] /\ x # v => NothingPending(v)' /\ ~Busy(v)' /\ Busy(x)'
  <2>1. ASSUME NEW v \in Worker, NEW x, x = on'[v], x # v PROVE NothingPending(v)' /\ ~Busy(v)' /\ Busy(x)'
    <3>1. v # t /\ x = on[v]
      BY <1>3, <1>4, <2>1
    <3>2. NothingPending(v) /\ ~Busy(v) /\ Busy(x) /\ x \in Contexts /\ x # d
      BY <1>1, <1>4, <1>8, <2>1, <3>1 DEF SwitchOK
    <3> QED
      BY <1>4, <1>11, <3>1, <3>2
  <2> QED
    BY <2>1
<1>16. \A v \in Worker : ~NothingPending(v)' => ~Busy(v)'
  BY <1>1, <1>4, <1>7, <1>11 DEF SwitchOK
<1>17. \A v \in exited' : on'[v] = v /\ NothingPending(v)' /\ ~Busy(v)'
  <2>1. exited \subseteq Worker
    BY <1>1 DEF Shapes
  <2> QED
    BY <2>1, <1>1, <1>3, <1>4, <1>6, <1>11 DEF SwitchOK
<1>18. \A f \in free' : ~Busy(f)'
  <2>1. free \subseteq Fiber
    BY <1>1 DEF Shapes
  <2> QED
    BY <2>1, <1>1, <1>4, <1>10 DEF SwitchOK
<1>19. \A v \in Worker : \A x : x = pending'[v].fiber /\ pending'[v].kind = "recycle" => ~Busy(x)'
  <2>1. ASSUME NEW v \in Worker, v # t, NEW x, x = pending[v].fiber, pending[v].kind = "recycle" PROVE ~Busy(x)'
    <3>1. ~Busy(x) /\ ~NothingPending(v)
      BY <1>1, <2>1 DEF SwitchOK, NothingPending
    <3>2. x \in Fiber /\ x # d
      BY <1>1, <1>9, <2>1, <3>1, PendingShapes
    <3> QED
      BY <1>4, <3>1, <3>2
  <2> QED
    BY <1>3, <2>1
<1>20. \A v \in Worker : \A x, y : x = pending'[v].fiber /\ y = pending'[v].id /\ pending'[v].kind = "park" =>
           Busy(x)' /\ slots'[y].gen # 0
  <2>1. ASSUME NEW v \in Worker, v # t, NEW x, NEW y, x = pending[v].fiber, y = pending[v].id, pending[v].kind = "park"
        PROVE  Busy(x)' /\ slots'[y].gen # 0
    <3>1. Busy(x) /\ slots[y].gen # 0 /\ ~NothingPending(v)
      BY <1>1, <2>1 DEF SwitchOK, NothingPending
    <3>2. x \in Fiber /\ x # d /\ y \in Id
      BY <1>1, <1>9, <2>1, <3>1, PendingShapes
    <3> QED
      BY <1>4, <3>1, <3>2 DEF GensKept
  <2> QED
    BY <1>3, <2>1
<1> QED
  BY <1>13, <1>14, <1>15, <1>16, <1>17, <1>18, <1>19, <1>20, SwitchNext

\* Nobody runs it then; what the other stacks wait for is the same.
LEMMA HonLeaves ==
    ASSUME NEW w, NEW s, NEW h, NEW r, Sound(w, s, h, r), NEW t \in Thread, NEW d \in Fiber,
           NEW n, NEW e, OnTop(t, d, n, e), NEW p, Leaves1(t, d, p), UNCHANGED ended
    PROVE  /\ LeftNext(d)
           /\ \A c \in Contexts \ {d}, i \in Pos : HonFrame(FrameAt(c, i), FrameAt(c, i + 1), ended', LeftNext(c))
           /\ \A y \in Fiber \ {d}, v \in Worker : s[y] = LeftBy(v) => pending'[v] = pending[v]
<1>1. Shapes /\ SwitchOK /\ Stacks /\ Parked(s) /\ Pools(s) /\ HonFrames
  BY SoundParts
<1>2. t \in Worker /\ s[d] = RunBy(t) /\ NothingPending(t) /\ d # t
  BY <1>1, RunsFiber
<1>3. /\ \A u \in Thread : on'[u] = IF u = t THEN t ELSE on[u]
      /\ \A v \in Worker : pending'[v] = IF v = t THEN p ELSE pending[v]
  BY <1>1, <1>2, LeaveFields
<1>4. Thread = Worker \cup {External} /\ d # External /\ t \in Contexts /\ on[External] = External
  BY <1>1, <1>2, Sizes DEF SwitchOK
<1>5. on[t] = d
  BY DEF OnTop
<1>6. ~Busy(t)
  BY <1>1, <1>2, <1>5 DEF SwitchOK
<1>7. \A v \in Worker : v # t => on[v] # d
  <2>1. ASSUME NEW v \in Worker, on[v] = d PROVE v = t
    <3>1. s[d] = RunBy(v)
      BY <1>1, <2>1 DEF Pools
    <3> QED
      BY <1>2, <3>1, Spots
  <2> QED
    BY <2>1
<1>8. LeftNext(d)
  BY <1>2, <1>3, <1>4, <1>7 DEF LeftNext
<1>9. ASSUME NEW c \in Contexts \ {d}, NEW i \in Pos
      PROVE  HonFrame(FrameAt(c, i), FrameAt(c, i + 1), ended', LeftNext(c))
  <2>1. HonFrame(FrameAt(c, i), FrameAt(c, i + 1), ended, Left(c))
    BY <1>1 DEF HonFrames
  <2>2. CASE c = t
    <3>1. stack[c] = <<>>
      BY <1>1, <1>4, <1>6, <2>2, BusyIs
    <3>2. FrameAt(c, i) = Blank
      BY <3>1, <1>1, FrameAtIn DEF Pos
    <3> QED
      BY <3>2, BlankOK
  <2>3. CASE c # t
    <3>1. Left(c) => LeftNext(c)
      BY <1>3, <2>3 DEF Left, LeftNext
    <3> QED
      BY <2>1, <3>1 DEF HonFrame
  <2> QED
    BY <2>2, <2>3
<1>10. ASSUME NEW y \in Fiber \ {d}, NEW v \in Worker, s[y] = LeftBy(v) PROVE pending'[v] = pending[v]
  <2>1. ~NothingPending(v)
    BY <1>1, <1>10 DEF Pools
  <2> QED
    BY <1>2, <1>3, <2>1
<1> QED
  BY <1>8, <1>9, <1>10

\* A job's function goes on to its next call.
LEMMA WaitFrame ==
    ASSUME NEW w, NEW s, NEW h, NEW r, Sound(w, s, h, r),
           NEW t \in Thread, NEW d, NEW n, NEW e, OnTop(t, d, n, e), NEW f, NEW c, CallsNow(e, f, c), c.op = "wait"
    PROVE  /\ f \in Frame /\ f # Blank /\ f.k = "body" /\ e.k = "body" /\ HolderOK(f) /\ HoldSame(e, f, Blank)
           /\ FrameQuiet(h, e, f, Blank) /\ KnowsAt(f, Blank) /\ Follows(e, f) /\ FrameDeps(f)
           /\ Waking(e) = None /\ Waking(f) = None /\ CountedHere(r, e, f, Blank)
           /\ c.job \in Task /\ c = Wait(c.job) /\ handle[c.job] # NoHandle
           /\ f.job = e.job /\ f.pc = e.pc + 1 /\ e.pc \in Pos /\ e.job \in Job
<1>1. /\ e.k = "body" /\ f.k = "body" /\ f.id = e.id /\ f.job = e.job /\ f.pc = e.pc + 1 /\ e.pc \in Pos /\ e.job \in Job
      /\ f # Blank /\ c.job \in Task /\ c = Wait(c.job) /\ handle[c.job] # NoHandle
      /\ Knows(e.job, e.pc)
  BY CallKnows DEF CallsNow
<1>2. f \in Frame
  BY DEF CallsNow, Frame
<1>3. HolderOK(e) /\ FrameFuture(h, e)
  BY TopFacts
<1>4. HolderOK(f)
  BY <1>1, <1>3 DEF HolderOK
<1>5. HoldSame(e, f, Blank)
  BY <1>1, BlankHolds DEF HoldSame, Holds, Draining, Holders
<1>6. Shapes
  BY SoundParts
<1>7. FrameQuiet(h, e, f, Blank)
  <2>1. Unasked(h, f.job, f.pc)
    <3>1. Unasked(h, e.job, e.pc)
      BY <1>1, <1>3 DEF FrameFuture
    <3>3. \A m \in DOMAIN program.calls[e.job] : m \in Pos
      BY <1>1, <1>6, CallTypes
    <3>4. \A m \in DOMAIN program.calls[e.job] : m >= f.pc => m >= e.pc
      BY <3>3, <1>1 DEF Pos
    <3> QED
      BY <3>1, <3>4, <1>1 DEF Unasked
  <2> QED
    BY <1>1, <2>1, BlankHolds, BlankOK DEF FrameQuiet, Asks, FrameFuture
<1>8. KnowsAt(f, Blank)
  <2>1. e.pc \in DOMAIN program.calls[e.job] /\ CallAt(e.job, e.pc).op # "submit"
    BY DEF CallsNow
  <2>2. Knows(e.job, e.pc + 1)
    BY <1>1, <1>6, <2>1, KnowsOn
  <2>3. Blank.k # "submit"
    BY DEF Blank
  <2> QED
    BY <1>1, <2>2, <2>3 DEF KnowsAt, Past
<1>9. Follows(e, f) /\ FrameDeps(f) /\ Waking(e) = None /\ Waking(f) = None
  BY <1>1 DEF Follows, FrameDeps, DepFrame, Waking
<1>10. CountedHere(r, e, f, Blank)
  <2>1. \A j : ~Looping(f, j) /\ ~Looping(e, j) /\ ~Looping(Blank, j)
    BY <1>1, LoopingIs
  <2> QED
    BY <1>1, <2>1, BlankOK DEF CountedHere, CountFrame
<1> QED
  BY <1>1, <1>2, <1>4, <1>5, <1>7, <1>8, <1>9, <1>10

\* wait() leaves its fiber to the worker.
LEMMA StepWaitPark ==
    ASSUME NEW w, NEW s, NEW h, NEW r, Sound(w, s, h, r), NEW t \in Thread, WaitPark(t)
    PROVE  StepKeeps
<1>1. /\ Shapes /\ Stacks /\ SwitchOK /\ FramesOK /\ Nested /\ Stopped /\ HonFrames
      /\ Placed(w) /\ Parked(s) /\ Named(h) /\ Handled(h) /\ Known(h)
      /\ Counted(w, h, r) /\ Depended(w, h) /\ Calling(t, "wait")
  BY SoundParts DEF WaitPark
<1>2. PICK d, n, e, f, c : /\ OnTop(t, d, n, e) /\ CallsNow(e, f, c) /\ c.op = "wait"
                           /\ Top(t) = e /\ Advanced(t) = f /\ Argument(t) = c
  BY <1>1, CallIs
<1>3. /\ f \in Frame /\ f # Blank /\ f.k = "body" /\ e.k = "body" /\ HolderOK(f) /\ HoldSame(e, f, Blank)
      /\ FrameQuiet(h, e, f, Blank) /\ KnowsAt(f, Blank) /\ Follows(e, f) /\ FrameDeps(f)
      /\ Waking(e) = None /\ Waking(f) = None /\ CountedHere(r, e, f, Blank)
      /\ c.job \in Task /\ c = Wait(c.job) /\ handle[c.job] # NoHandle
      /\ f.job = e.job /\ f.pc = e.pc + 1 /\ e.pc \in Pos /\ e.job \in Job
  BY <1>2, WaitFrame
<1>4. on[t] = d /\ d \in Contexts /\ n \in Pos /\ FrameAt(d, n) = e /\ e # Blank
  <2>1. e # Blank
    BY <1>2, TopFacts
  <2> QED
    BY <1>2, <2>1 DEF OnTop
<1>5. d \in Fiber
  BY <1>4 DEF WaitPark
<1>6. t \in Worker /\ s[d] = RunBy(t) /\ NothingPending(t) /\ d # t
  BY <1>1, <1>2, <1>5, RunsFiber
<1>7. PICK v : v = handle[c.job].id
  OBVIOUS
<1>8. v \in Id /\ (c.job \in ended \/ slots[v].job = c.job) /\ (h[c.job] = InSlot(v) \/ h[c.job] = Gone)
  <2>1. Task \subseteq Job
    BY DEF Task
  <2> QED
    BY <1>1, <1>3, <1>7, <2>1, HandleSlot
<1>9. PICK p : p = [kind |-> "park", fiber |-> d, id |-> v]
  OBVIOUS
<1>10. p \in PendingShape /\ p.kind = "park" /\ p.fiber = d /\ p.id = v
  BY <1>5, <1>8, <1>9 DEF PendingShape
<1>11. /\ Leaves1(t, d, p) /\ Replace(t, f)
       /\ UNCHANGED <<program, slots, alloc, live, queues, resumable, free, next, stopping, exited, history, remaining>>
  BY <1>2, <1>4, <1>7, <1>9, <1>10 DEF WaitPark, Leaves1, Unpublished
<1>12. Swap(d, n, e, f, Blank)
  <2>1. Stacked(d, n, f, Blank)
    BY <1>1, <1>2, <1>3, <1>11, Replaces
  <2> QED
    BY <1>2, <2>1, SwapTop
<1>13. /\ on' \in [Thread -> Contexts] /\ pending' \in [Worker -> PendingShape]
       /\ \A y \in Worker : pending'[y] = IF y = t THEN p ELSE pending[y]
  BY <1>1, <1>6, <1>11, LeaveFields
<1>14. Shapes'
  <2>1. stack' \in [Contexts -> Seq(Frame)]
    BY <1>12 DEF Swap, Stacked
  <2> QED
    BY <1>1, <1>11, <1>13, <2>1, ShapesNext DEF Shapes, QueueTypes, queues, history
<1>15. UNCHANGED ended /\ ended \subseteq ended' /\ UNCHANGED handle /\ UNCHANGED begun
  BY <1>11 DEF history
<1>16. Placed(w)'
  BY <1>1, <1>3, <1>11, <1>12, <1>15, BlankHolds, PlacedQuiet DEF queues
<1>17. Named(h)'
  BY <1>1, <1>3, <1>11, <1>12, <1>15, HistorySame, NamedQuiet
<1>18. Handled(h)'
  <2>1. SubmitOK(f, handle) /\ SubmitOK(Blank, handle)
    BY <1>3, BlankOK DEF SubmitOK
  <2> QED
    BY <1>1, <1>11, <1>12, <1>15, <2>1, HandledQuiet
<1>19. KnownHere(d, n, f, Blank) /\ HandlesStay
  <2>1. f.k = "submit" <=> e.k = "submit"
    BY <1>3
  <2> QED
    BY <1>1, <1>3, <1>11, <1>12, <1>15, <2>1, BlankOK, KnownSame
<1>20. Known(h)'
  BY <1>1, <1>11, <1>12, <1>19, KnownMove
<1>21. Counted(w, h, r)'
  <2>1. SlotsOn(w, w, r, r, e, f)
    BY <1>3, <1>11, SlotsOnSame
  <2> QED
    BY <1>1, <1>3, <1>11, <1>12, <1>15, <2>1, CountedQuiet
<1>22. Depended(w, h)'
  <2>1. \A id \in Id : Moved(w, w, id)
    BY DEF Moved
  <2> QED
    BY <1>1, <1>3, <1>11, <1>12, <1>15, <2>1, BlankOK, DependedQuiet
<1>23. PICK s2 : MoveTo(s, s2, d, LeftBy(t))
  BY DEF MoveTo
<1>24. Parked(s2)'
  <2>1. on' = [on EXCEPT ![t] = t] /\ pending' = [pending EXCEPT ![t] = p] /\ p.kind # "none" /\ p.fiber = d
    BY <1>11 DEF Leaves1
  <2>2. on \in [Thread -> Contexts] /\ pending \in [Worker -> PendingShape]
    BY <1>1 DEF Shapes
  <2>3. Waking(Blank) = None /\ \A y \in Id : slots'[y].waiters = slots[y].waiters
    BY <1>11, BlankHolds
  <2> QED
    BY <1>1, <1>3, <1>4, <1>5, <1>6, <1>11, <1>12, <1>23, <2>1, <2>2, <2>3, ParkedLeave
<1>25. \A y \in Fiber : s2[y] = IF y = d THEN LeftBy(t) ELSE s[y]
  <2>1. s \in [Fiber -> Spot]
    BY <1>1 DEF Parked
  <2> QED
    BY <1>5, <1>23, <2>1 DEF MoveTo
<1>26. Stacks'
  <2>1. FramesOK'
    <3>1. ~(Blank.k = "body" /\ Blank.id = 0)
      BY DEF Blank
    <3> QED
      BY <1>1, <1>3, <1>4, <1>12, <3>1, FramesFollow
  <2>2. \A x \in Contexts : Busy(x)' <=> Busy(x)
    <3>1. \A x \in Contexts : Busy(x)' <=> IF x = d /\ n = 1 THEN f # Blank ELSE Busy(x)
      BY <1>12, BusyAfter
    <3>2. Busy(d)
      BY <1>1, <1>2, TopBusy
    <3> QED
      BY <1>3, <3>1, <3>2
  <2>3. Busy(d)
    BY <1>1, <1>2, TopBusy
  <2>4. slots'[v].gen # 0
    <3>1. slots[v].gen # 0
      <4>1. CASE h[c.job] = InSlot(v)
        <5>1. slots[v].job = c.job
          BY <1>1, <1>3, <1>8, <4>1 DEF Named
        <5>2. slots[v].job # None
          BY <1>1, <1>3, <5>1, Programmed DEF Shapes, Task
        <5>3. SlotOK(v, w[v][1])
          BY <1>1, <1>8 DEF Placed, Alive
        <5> QED
          BY <5>2, <5>3 DEF SlotOK, FreshSlot
      <4>2. CASE h[c.job] = Gone
        <5>1. c.job \in Job /\ HandleOK(h, c.job)
          BY <1>1, <1>3, HandledParts DEF Task
        <5>2. h[c.job] # InSlot(v)
          BY <4>2, Stages
        <5>3. handle[c.job].gen < slots[v].gen
          BY <1>3, <1>7, <5>1, <5>2 DEF HandleOK
        <5>4. handle[c.job].gen \in Nat
          BY <1>1, <5>1 DEF Shapes, HandleShape
        <5> QED
          BY <5>3, <5>4
      <4> QED
        BY <1>8, <4>1, <4>2
    <3> QED
      BY <3>1, <1>11
  <2>5. GensKept
    BY <1>11 DEF GensKept
  <2>6. SwitchOK'
    <3>1. p.kind # "recycle" /\ v = p.id /\ Busy(d)'
      BY <1>4, <1>10, <2>2, <2>3
    <3>2. \A x \in Contexts \ {d} : Busy(x)' <=> Busy(x)
      BY <2>2
    <3>3. UNCHANGED <<program, exited, free, resumable>>
      BY <1>11
    <3> QED
      BY <1>2, <1>5, <1>11, <2>4, <2>5, <3>1, <3>2, <3>3, SwitchLeaves
  <2> QED
    BY <2>1, <2>6, StacksPartsNext
<1>27. Nested'
  <2>1. AboveOf(handle', f, Blank)
    BY BlankOK DEF AboveOf
  <2> QED
    BY <1>1, <1>3, <1>4, <1>11, <1>12, <1>19, <2>1, NestedMove
<1>28. Stopped'
  <2>1. d # External
    BY <1>5, Sizes
  <2> QED
    BY <1>1, <1>11, <1>12, <2>1, StoppedMove
<1>29. /\ LeftNext(d)
       /\ \A x \in Contexts \ {d}, i \in Pos : HonFrame(FrameAt(x, i), FrameAt(x, i + 1), ended', LeftNext(x))
       /\ \A y \in Fiber \ {d}, u \in Worker : s[y] = LeftBy(u) => pending'[u] = pending[u]
  BY <1>2, <1>5, <1>11, <1>15, HonLeaves
<1>30. HonFrames'
  <2>1. HonFrame(f, Blank, ended', LeftNext(d))
    <3>1. HonFrame(e, Blank, ended, FALSE)
      BY <1>2, TopFacts
    <3>2. \A m \in 1..e.pc - 1 : FulfilledIn(e.job, m, ended)
      BY <1>3, <3>1 DEF HonFrame
    <3>3. \A m \in 1..f.pc - 1 : m \in 1..e.pc - 1 \/ m = f.pc - 1
      BY <1>3 DEF Pos
    <3> QED
      BY <1>3, <1>15, <1>29, <3>2, <3>3 DEF HonFrame
  <2>2. HonHere(d, n, f, Blank)
    BY <1>3, <1>29, <2>1, BlankOK DEF HonHere
  <2> QED
    BY <1>1, <1>4, <1>11, <1>12, <1>15, <2>2, HonFramesMove
<1>31. ASSUME NEW y \in Fiber PROVE HonFiber(s2, y)'
  <2>1. CASE y = d
    <3>1. s2[y] = LeftBy(t) /\ LeftBy(t)[1] = "left" /\ (\A u : LeftBy(t) = LeftBy(u) => u = t)
          /\ \A u : WaitsOn(u)[1] = "list"
      BY <1>25, <2>1, Spots
    <3>2. Awaits(d, c.job)'
      <4>1. FrameAt(d, n)' = f /\ FrameAt(d, n + 1)' = Blank
        <5>1. n + 1 \in Pos /\ n # n + 1
          BY <1>4 DEF Pos
        <5> QED
          BY <1>4, <1>12, <5>1 DEF Swap, Stacked
      <4>2. f.pc > 1 /\ f.pc - 1 = e.pc
        BY <1>3 DEF Pos
      <4>3. e.pc \in DOMAIN program.calls[e.job] /\ CallAt(e.job, e.pc) = Wait(c.job)
        BY <1>2, <1>3 DEF CallsNow
      <4>4. UNCHANGED program
        BY <1>11
      <4> QED
        BY <1>3, <1>4, <4>1, <4>2, <4>3, <4>4 DEF Awaits, CallAt, Pos
    <3>3. c.job \in Job /\ (c.job \in ended' \/ slots'[v].job = c.job)
      BY <1>3, <1>8, <1>11, <1>15 DEF Task
    <3>4. pending'[t] = p
      BY <1>6, <1>13
    <3>5. UNCHANGED program
      BY <1>11
    <3> QED
      BY <2>1, <3>1, <3>2, <3>3, <3>4, <3>5, <1>10 DEF HonFiber, Job
  <2>2. CASE y # d
    <3>1. s2[y] = s[y]
      BY <1>25, <2>2
    <3>2. \A u \in Worker : s[y] = LeftBy(u) => pending'[u] = pending[u]
      BY <1>29, <2>2
    <3>3. \A id \in Id : slots'[id].job = slots[id].job
      BY <1>11
    <3> QED
      BY <1>11, <1>12, <1>15, <2>2, <3>1, <3>2, <3>3, HonFiberKept
  <2> QED
    BY <2>1, <2>2
<1>32. Honoured(s2)'
  BY <1>30, <1>31, HonouredPartsNext
<1>33. Sound(w, s2, h, r)'
  BY <1>14, <1>16, <1>17, <1>18, <1>20, <1>21, <1>22, <1>24, <1>26, <1>27, <1>28, <1>32 DEF Sound
<1> QED
  BY <1>33 DEF StepKeeps

\* A worker's own stack may empty while the worker runs it.
LEMMA SwitchShrinks ==
    ASSUME Shapes, SwitchOK, UNCHANGED <<program, on, pending, exited, free, resumable>>,
           \A c \in Fiber : Busy(c)' <=> Busy(c), \A c \in Worker : Busy(c)' => Busy(c), GensKept
    PROVE  SwitchOK'
<1>1. on'[External] = External /\ \A v \in Worker : on'[v] \in {v} \cup Fiber
  BY DEF SwitchOK
<1>2. ~(Fibers)' => free' = {} /\ resumable' = <<>> /\ (\A v \in Worker : on'[v] = v)
  BY DEF SwitchOK, Fibers
<1>3. \A v \in Worker : NothingPending(v)' <=> NothingPending(v)
  BY DEF NothingPending
<1>4. \A v \in Worker : \A x : x = on'[v] /\ x # v => NothingPending(v)' /\ ~Busy(v)' /\ Busy(x)'
  <2>1. ASSUME NEW v \in Worker, NEW x, x = on[v], x # v PROVE NothingPending(v)' /\ ~Busy(v)' /\ Busy(x)'
    <3>1. NothingPending(v) /\ ~Busy(v) /\ Busy(x) /\ x \in Fiber
      BY <2>1 DEF SwitchOK
    <3> QED
      BY <1>3, <3>1
  <2> QED
    BY <2>1
<1>5. \A v \in Worker : ~NothingPending(v)' => ~Busy(v)'
  BY <1>3 DEF SwitchOK
<1>6. \A v \in exited' : on'[v] = v /\ NothingPending(v)' /\ ~Busy(v)'
  <2>1. exited \subseteq Worker
    BY DEF Shapes
  <2> QED
    BY <2>1, <1>3 DEF SwitchOK
<1>7. \A f \in free' : ~Busy(f)'
  <2>1. free \subseteq Fiber
    BY DEF Shapes
  <2> QED
    BY <2>1 DEF SwitchOK
<1>8. \A v \in Worker : \A x : x = pending'[v].fiber /\ pending'[v].kind = "recycle" => ~Busy(x)'
  <2>1. ASSUME NEW v \in Worker, NEW x, x = pending[v].fiber, pending[v].kind = "recycle" PROVE ~Busy(x)'
    <3>1. ~Busy(x) /\ ~NothingPending(v)
      BY <2>1 DEF SwitchOK, NothingPending
    <3>2. x \in Fiber
      BY <2>1, <3>1, PendingShapes
    <3> QED
      BY <3>1, <3>2
  <2> QED
    BY <2>1
<1>9. \A v \in Worker : \A x, y : x = pending'[v].fiber /\ y = pending'[v].id /\ pending'[v].kind = "park" =>
          Busy(x)' /\ slots'[y].gen # 0
  <2>1. ASSUME NEW v \in Worker, NEW x, NEW y, x = pending[v].fiber, y = pending[v].id, pending[v].kind = "park"
        PROVE  Busy(x)' /\ slots'[y].gen # 0
    <3>1. Busy(x) /\ slots[y].gen # 0 /\ ~NothingPending(v)
      BY <2>1 DEF SwitchOK, NothingPending
    <3>2. x \in Fiber /\ y \in Id
      BY <2>1, <3>1, PendingShapes
    <3> QED
      BY <3>1, <3>2 DEF GensKept
  <2> QED
    BY <2>1
<1> QED
  BY <1>1, <1>2, <1>4, <1>5, <1>6, <1>7, <1>8, <1>9, SwitchNext

\* finish_job() returns.
LEMMA LiveStep ==
    ASSUME NEW w, NEW s, NEW h, NEW r, Sound(w, s, h, r),
           NEW t \in Thread, NEW d, NEW n, NEW e, OnTop(t, d, n, e), e.k = "finish", e.id \in Id, e.pc = "live",
           Swap(d, n, e, Blank, Blank), live' = live - 1,
           UNCHANGED <<program, slots, alloc, queues, resumable, free, next, stopping, exited, history, remaining>>,
           on' \in [Thread -> Contexts], pending' \in [Worker -> PendingShape], SwitchOK',
           NEW s2, Parked(s2)', Honoured(s2)'
    PROVE  StepKeeps
<1>1. /\ Shapes /\ Stacks /\ SwitchOK /\ FramesOK /\ Nested /\ Stopped /\ w \in [Id -> Token]
      /\ Placed(w) /\ Named(h) /\ Handled(h) /\ Known(h)
      /\ Counted(w, h, r) /\ Depended(w, h)
  BY SoundParts
<1>2. e # Blank /\ d \in Contexts /\ n \in Pos /\ FrameAt(d, n) = e /\ Blank.k = "none"
  <2>1. e # Blank /\ d \in Contexts /\ n \in Pos
    BY TopFacts
  <2> QED
    BY <2>1 DEF OnTop, Blank
<1>3. Shapes'
  <2>1. stack' \in [Contexts -> Seq(Frame)]
    BY DEF Swap, Stacked
  <2>2. live' \in Int
    BY <1>1 DEF Shapes
  <2> QED
    BY <1>1, <2>1, <2>2, ShapesNext DEF Shapes, QueueTypes, queues, history
<1>4. UNCHANGED ended /\ ended \subseteq ended' /\ UNCHANGED handle /\ UNCHANGED begun
  BY DEF history
<1>5. PICK w2 : w2 = [w EXCEPT ![e.id] = Unused]
  OBVIOUS
<1>6. Placed(w2)'
  BY <1>1, <1>4, <1>5, PlacedFree DEF queues
<1>7. \A y \in Id : w2[y] = IF y = e.id THEN Unused ELSE w[y]
  BY <1>1, <1>5
<1>8. w[e.id][1] = "finish" /\ Unused[1] = "unused"
  BY <1>1, HeldBy, Tokens DEF Holders
<1>9. \A j : ~Looping(e, j) /\ ~Looping(Blank, j)
  BY LoopingIs
<1>10. Named(h)'
  <2>1. FrameQuiet(h, e, Blank, Blank)
    BY BlankHolds, BlankOK DEF FrameQuiet, Asks
  <2> QED
    BY <1>1, <1>4, <2>1, HistorySame, NamedQuiet
<1>11. Handled(h)'
  BY <1>1, <1>4, BlankOK, HandledQuiet
<1>12. KnownHere(d, n, Blank, Blank) /\ HandlesStay
  <2>1. Blank.k = "submit" <=> e.k = "submit"
    BY <1>2
  <2> QED
    BY <1>1, <1>4, <2>1, BlankOK, KnownSame
<1>13. Known(h)'
  BY <1>1, <1>12, KnownMove
<1>14. Counted(w2, h, r)'
  <2>1. SlotsOn(w, w2, r, r, e, Blank)
    BY <1>7 DEF SlotsOn, Holds
  <2>2. CountedHere(r, e, Blank, Blank)
    BY <1>9, BlankOK DEF CountedHere
  <2> QED
    BY <1>1, <1>4, <2>1, <2>2, CountedQuiet
<1>15. Depended(w2, h)'
  <2>1. \A id \in Id : Moved(w, w2, id)
    BY <1>7, <1>8 DEF Moved
  <2> QED
    BY <1>1, <1>4, <2>1, BlankOK, DependedQuiet
<1>16. Stacks'
  <2>1. FramesOK'
    BY <1>1, <1>2, FramesFollow DEF Follows
  <2> QED
    BY <2>1, StacksPartsNext
<1>17. Nested'
  <2>1. Follows(e, Blank) /\ AboveOf(handle', Blank, Blank)
    BY BlankOK DEF Follows, AboveOf
  <2> QED
    BY <1>1, <1>2, <1>12, <2>1, NestedMove
<1>18. Stopped'
  <2>1. exited = {}
    BY NotStopping
  <2> QED
    BY <1>1, <2>1, StoppedMove
<1>19. Sound(w2, s2, h, r)'
  BY <1>3, <1>6, <1>10, <1>11, <1>13, <1>14, <1>15, <1>16, <1>17, <1>18 DEF Sound
<1> QED
  BY <1>19 DEF StepKeeps

\* finish_job counts the job out of the live ones and its frame returns (FinishLive).
LEMMA StepFinishLive ==
    ASSUME NEW w, NEW s, NEW h, NEW r, Sound(w, s, h, r), NEW t \in Thread, FinishLive(t)
    PROVE  StepKeeps
<1>1. /\ Shapes /\ Stacks /\ SwitchOK /\ Parked(s) /\ HonFrames /\ Nested /\ Finishing(t, "live")
  BY SoundParts DEF FinishLive
<1>2. PICK d, n, e : /\ OnTop(t, d, n, e) /\ e.k = "finish" /\ Top(t) = e
                     /\ e \in FinishFrame /\ e.id \in Id /\ e.pc = "live"
  BY <1>1, Finishes1
<1>3. on[t] = d /\ d \in Contexts /\ n \in Pos /\ n = Len(Frames(t)) /\ FrameAt(d, n) = e /\ e # Blank
  <2>1. e # Blank
    BY <1>2, TopFacts
  <2>2. Frames(t) = stack[d]
    BY <1>1, <1>2, TopFront
  <2> QED
    BY <1>2, <2>1, <2>2 DEF OnTop
<1>4. Return(t) /\ live' = live - 1
      /\ UNCHANGED <<program, slots, alloc, queues, resumable, free, next, stopping, exited, history, remaining>>
  BY DEF FinishLive
<1>5. Swap(d, n, e, Blank, Blank)
  <2>1. Stacked(d, n, Blank, Blank)
    BY <1>1, <1>2, <1>4, Returns
  <2> QED
    BY <1>2, <2>1, SwapTop
<1>6. Waking(e) = None /\ Waking(Blank) = None
  BY <1>2, BlankHolds DEF Waking
<1>7. \A c \in Contexts : Busy(c)' <=> IF c = d /\ n = 1 THEN FALSE ELSE Busy(c)
  BY <1>5, BusyAfter
<1>8. GensKept /\ UNCHANGED ended /\ ended \subseteq ended'
  BY <1>4 DEF GensKept, history
<1>9. ASSUME n - 1 \in Pos PROVE FrameAt(d, n - 1).k # "body"
  <2>1. Above(FrameAt(d, n - 1), e)
    BY <1>2, <1>9, TopFacts
  <2> QED
    BY <1>2, <1>3, <2>1 DEF Above, InCall
<1>10. CASE d \in Fiber /\ n = 1
  <2>1. PICK p : p = [kind |-> "recycle", fiber |-> d]
    OBVIOUS
  <2>2. p \in PendingShape /\ p.kind = "recycle" /\ p.fiber = d
    BY <1>10, <2>1 DEF PendingShape
  <2>3. Leaves1(t, d, p)
    BY <1>3, <1>10, <2>1, <2>2 DEF FinishLive, Leaves1
  <2>4. t \in Worker /\ s[d] = RunBy(t) /\ NothingPending(t) /\ d # t
    BY <1>1, <1>2, <1>10, RunsFiber
  <2>5. /\ on' \in [Thread -> Contexts] /\ pending' \in [Worker -> PendingShape]
        /\ \A y \in Worker : pending'[y] = IF y = t THEN p ELSE pending[y]
    BY <1>1, <2>3, <2>4, LeaveFields
  <2>6. SwitchOK'
    <3>1. p.kind = "recycle" => ~Busy(d)'
      BY <1>3, <1>7, <1>10
    <3>2. \A c \in Contexts \ {d} : Busy(c)' <=> Busy(c)
      BY <1>7
    <3>3. PICK id : id = p.id
      OBVIOUS
    <3>4. UNCHANGED <<program, exited, free, resumable>> /\ p.kind # "park"
      BY <1>4, <2>2
    <3> QED
      BY <1>2, <1>8, <1>10, <2>3, <3>1, <3>2, <3>3, <3>4, SwitchLeaves
  <2>7. PICK s2 : MoveTo(s, s2, d, LeftBy(t))
    BY DEF MoveTo
  <2>8. Parked(s2)'
    <3>1. on' = [on EXCEPT ![t] = t] /\ pending' = [pending EXCEPT ![t] = p] /\ p.kind # "none" /\ p.fiber = d
      BY <2>3 DEF Leaves1
    <3>2. on \in [Thread -> Contexts] /\ pending \in [Worker -> PendingShape]
      BY <1>1 DEF Shapes
    <3>3. \A y \in Id : slots'[y].waiters = slots[y].waiters
      BY <1>4
    <3> QED
      BY <1>1, <1>3, <1>4, <1>5, <1>6, <1>10, <2>4, <2>7, <3>1, <3>2, <3>3, ParkedLeave
  <2>9. \A y \in Fiber : s2[y] = IF y = d THEN LeftBy(t) ELSE s[y]
    <3>1. s \in [Fiber -> Spot]
      BY <1>1 DEF Parked
    <3> QED
      BY <1>10, <2>7, <3>1 DEF MoveTo
  <2>10. /\ LeftNext(d)
         /\ \A x \in Contexts \ {d}, i \in Pos : HonFrame(FrameAt(x, i), FrameAt(x, i + 1), ended', LeftNext(x))
         /\ \A y \in Fiber \ {d}, u \in Worker : s[y] = LeftBy(u) => pending'[u] = pending[u]
    BY <1>2, <1>8, <1>10, <2>3, HonLeaves
  <2>11. HonFrames'
    <3>1. HonHere(d, n, Blank, Blank)
      BY <1>9, <2>10, BlankOK DEF HonHere
    <3> QED
      BY <1>1, <1>4, <1>5, <1>8, <1>10, <3>1, HonFramesMove
  <2>12. ASSUME NEW y \in Fiber PROVE HonFiber(s2, y)'
    <3>1. CASE y = d
      <4>1. s2[y] = LeftBy(t) /\ LeftBy(t)[1] = "left" /\ (\A u : LeftBy(t) = LeftBy(u) => u = t)
            /\ \A u : WaitsOn(u)[1] = "list"
        BY <2>9, <3>1, Spots
      <4>2. pending'[t].kind # "park"
        BY <2>2, <2>4, <2>5
      <4> QED
        BY <4>1, <4>2 DEF HonFiber
    <3>2. CASE y # d
      <4>1. s2[y] = s[y]
        BY <2>9, <3>2
      <4>2. \A u \in Worker : s[y] = LeftBy(u) => pending'[u] = pending[u]
        BY <2>10, <3>2
      <4>3. \A id \in Id : slots'[id].job = slots[id].job
        BY <1>4
      <4> QED
        BY <1>4, <1>5, <1>8, <3>2, <4>1, <4>2, <4>3, HonFiberKept
    <3> QED
      BY <3>1, <3>2
  <2>13. Honoured(s2)'
    BY <2>11, <2>12, HonouredPartsNext
  <2> QED
    BY <1>2, <1>4, <1>5, <2>5, <2>6, <2>8, <2>13, LiveStep
<1>11. CASE ~(d \in Fiber /\ n = 1)
  <2>1. UNCHANGED <<on, pending>>
    BY <1>3, <1>11 DEF FinishLive
  <2>2. on' \in [Thread -> Contexts] /\ pending' \in [Worker -> PendingShape]
    BY <1>1, <2>1 DEF Shapes
  <2>3. SwitchOK'
    <3>1. \A c \in Fiber : Busy(c)' <=> Busy(c)
      BY <1>7, <1>11, Sizes
    <3>2. \A c \in Worker : Busy(c)' => Busy(c)
      BY <1>7, Sizes
    <3>3. UNCHANGED <<program, on, pending, exited, free, resumable>>
      BY <1>4, <2>1
    <3> QED
      BY <1>1, <1>8, <3>1, <3>2, <3>3, SwitchShrinks
  <2>4. Parked(s)'
    <3>1. UNCHANGED <<program, on, pending, resumable, free, next>>
      BY <1>4, <2>1
    <3>2. \A y \in Id : slots'[y].waiters = slots[y].waiters \/ NobodyWaits(y)
      BY <1>4
    <3>3. d \in Fiber /\ n = 1 => Blank # Blank /\ e # Blank
      BY <1>11
    <3> QED
      BY <1>1, <1>5, <1>6, <3>1, <3>2, <3>3, ParkedQuiet
  <2>5. HonFrames'
    <3>1. \A c \in Contexts : LeftNext(c) = Left(c)
      BY <2>1 DEF LeftNext, Left
    <3>2. HonTop(d, n, Blank, Blank)
      BY <1>9, BlankOK DEF HonTop
    <3> QED
      BY <1>3, <1>4, <1>5, <1>8, <3>1, <3>2, HonTops
  <2>6. \A y \in Fiber : HonFiber(s, y)'
    <3>1. \A id \in Id : slots'[id].job = slots[id].job
      BY <1>4
    <3> QED
      BY <1>2, <1>4, <1>5, <1>8, <2>1, <3>1, HonFibersQuiet
  <2>7. Honoured(s)'
    BY <2>5, <2>6, HonouredPartsNext
  <2> QED
    BY <1>2, <1>4, <1>5, <2>2, <2>3, <2>4, <2>7, LiveStep
<1> QED
  BY <1>10, <1>11

-----------------------------------------------------------------------------
\* A worker between two jobs.
LEMMA IdleFacts ==
    ASSUME Shapes, NEW v \in Worker, Idle(v)
    PROVE  /\ v \notin exited /\ on[v] = v /\ ~Busy(v) /\ v \in Contexts /\ v \in Thread /\ v \notin Fiber /\ v # External
           /\ FrameAt(v, 1) = Blank /\ FrameAt(v, 2) = Blank /\ 1 \in Pos /\ 2 \in Pos
<1>1. v \notin exited /\ on[v] = v /\ stack[v] = <<>>
  BY DEF Idle
<1>2. v \in Contexts /\ v \in Thread /\ v \notin Fiber /\ v # External
  BY Sizes
<1>3. 1 \in Pos /\ 2 \in Pos
  BY DEF Pos
<1>4. FrameAt(v, 1) = Blank /\ FrameAt(v, 2) = Blank
  BY <1>1 DEF FrameAt
<1>5. ~Busy(v)
  BY <1>4 DEF Busy
<1> QED
  BY <1>1, <1>2, <1>3, <1>4, <1>5

\* A step of the worker's loop changes no stack.
LEMMA IdleSwap ==
    ASSUME Shapes, NEW v \in Worker, Idle(v), UNCHANGED stack
    PROVE  Swap(v, 1, Blank, Blank, Blank) /\ BusySame /\ \A c \in Contexts : Busy(c)' <=> Busy(c)
<1>1. v \in Contexts /\ FrameAt(v, 1) = Blank /\ FrameAt(v, 2) = Blank /\ 1 \in Pos
  BY IdleFacts
<1>2. \A c, i : FrameAt(c, i)' = FrameAt(c, i)
  BY Still
<1>3. stack' \in [Contexts -> Seq(Frame)]
  BY DEF Shapes
<1>4. Stacked(v, 1, Blank, Blank)
  BY <1>1, <1>2, <1>3 DEF Stacked
<1>5. \A c \in Contexts : Busy(c)' <=> Busy(c)
  BY <1>2 DEF Busy
<1>6. BusySame
  BY <1>5, Sizes DEF BusySame
<1> QED
  BY <1>1, <1>4, <1>5, <1>6 DEF Swap

\* What a worker's loop does to where threads are.
LEMMA SwitchIdle ==
    ASSUME Shapes, SwitchOK, NEW v \in Worker, v \notin exited, on[v] = v, UNCHANGED program,
           on'[External] = on[External], \A u \in Worker \ {v} : on'[u] = on[u] /\ pending'[u] = pending[u],
           NEW y, y = on'[v], y \in {v} \cup Fiber, NothingPending(v)', exited' \subseteq exited \cup {v},
           y # v => Busy(y)' /\ ~Busy(v)', v \in exited' => y = v /\ ~Busy(v)',
           \A c \in Contexts : Busy(c) => Busy(c)', \A c \in Contexts \ {y} : Busy(c)' => Busy(c),
           ~Fibers => free' = {} /\ resumable' = <<>> /\ y = v,
           \A f \in free' : ~Busy(f)',
           \A u \in Worker \ {v} : pending[u].kind = "recycle" => pending[u].fiber # y, GensKept
    PROVE  SwitchOK'
<1>1. /\ Worker \subseteq Contexts /\ Fiber \subseteq Contexts /\ \A f \in Fiber : f \notin Worker
  BY Sizes
<1>2. on'[External] = External /\ \A u \in Worker : on'[u] \in {u} \cup Fiber
  BY DEF SwitchOK
<1>3. ~(Fibers)' => free' = {} /\ resumable' = <<>> /\ (\A u \in Worker : on'[u] = u)
  BY DEF SwitchOK, Fibers
<1>4. \A u \in Worker \ {v} : NothingPending(u)' <=> NothingPending(u)
  BY DEF NothingPending
<1>5. \A u \in Worker \ {v} : Busy(u)' => Busy(u)
  BY <1>1
<1>6. \A u \in Worker : \A x : x = on'[u] /\ x # u => NothingPending(u)' /\ ~Busy(u)' /\ Busy(x)'
  <2>1. ASSUME NEW u \in Worker \ {v}, NEW x, x = on[u], x # u PROVE NothingPending(u)' /\ ~Busy(u)' /\ Busy(x)'
    <3>1. NothingPending(u) /\ ~Busy(u) /\ Busy(x) /\ x \in Fiber
      BY <2>1 DEF SwitchOK
    <3> QED
      BY <1>1, <1>4, <1>5, <3>1
  <2> QED
    BY <2>1
<1>7. \A u \in Worker : ~NothingPending(u)' => ~Busy(u)'
  BY <1>4, <1>5 DEF SwitchOK
<1>8. \A u \in exited' : on'[u] = u /\ NothingPending(u)' /\ ~Busy(u)'
  <2>1. exited \subseteq Worker
    BY DEF Shapes
  <2>2. \A u \in exited' : u = v \/ (u \in Worker \ {v} /\ u \in exited)
    BY <2>1
  <2> QED
    BY <2>2, <1>4, <1>5 DEF SwitchOK
<1>9. \A u \in Worker : \A x : x = pending'[u].fiber /\ pending'[u].kind = "recycle" => ~Busy(x)'
  <2>1. ASSUME NEW u \in Worker \ {v}, NEW x, x = pending[u].fiber, pending[u].kind = "recycle" PROVE ~Busy(x)'
    <3>1. ~Busy(x) /\ ~NothingPending(u)
      BY <2>1 DEF SwitchOK, NothingPending
    <3>2. x \in Fiber /\ x # y
      BY <2>1, <3>1, PendingShapes
    <3> QED
      BY <1>1, <3>1, <3>2
  <2>2. pending'[v].kind # "recycle"
    BY DEF NothingPending
  <2> QED
    BY <2>1, <2>2
<1>10. \A u \in Worker : \A x, z : x = pending'[u].fiber /\ z = pending'[u].id /\ pending'[u].kind = "park" =>
           Busy(x)' /\ slots'[z].gen # 0
  <2>1. ASSUME NEW u \in Worker \ {v}, NEW x, NEW z, x = pending[u].fiber, z = pending[u].id, pending[u].kind = "park"
        PROVE  Busy(x)' /\ slots'[z].gen # 0
    <3>1. Busy(x) /\ slots[z].gen # 0 /\ ~NothingPending(u)
      BY <2>1 DEF SwitchOK, NothingPending
    <3>2. x \in Fiber /\ z \in Id
      BY <2>1, <3>1, PendingShapes
    <3> QED
      BY <1>1, <3>1, <3>2 DEF GensKept
  <2>2. pending'[v].kind # "park"
    BY DEF NothingPending
  <2> QED
    BY <2>1, <2>2
<1> QED
  BY <1>2, <1>3, <1>6, <1>7, <1>8, <1>9, <1>10, SwitchNext

\* The loop of a worker goes on, and all stacks stay as they are.
LEMMA LoopStep ==
    ASSUME NEW w, NEW s, NEW h, NEW r, Sound(w, s, h, r), NEW v \in Worker, Idle(v),
           UNCHANGED <<program, alloc, live, queues, stack, stopping, history, remaining>>,
           slots' \in [Id -> SlotShape], resumable' \in Seq(Fiber), free' \subseteq Fiber,
           next' \in [Fiber -> Fiber \cup {None}], pending' \in [Worker -> PendingShape],
           on' \in [Thread -> Contexts], exited' \subseteq Worker,
           \A id \in Id : /\ slots'[id].job = slots[id].job /\ slots'[id].gen = slots[id].gen
                          /\ slots'[id].group = slots[id].group,
           Placed(w)', SwitchOK', Stopped', NEW s2, Parked(s2)', Honoured(s2)'
    PROVE  Sound(w, s2, h, r)'
<1>1. /\ Shapes /\ Stacks /\ SwitchOK /\ FramesOK /\ Nested /\ Stopped
      /\ Placed(w) /\ Named(h) /\ Handled(h) /\ Known(h)
      /\ Counted(w, h, r) /\ Depended(w, h)
  BY SoundParts
<1>2. Swap(v, 1, Blank, Blank, Blank) /\ v # External
  BY <1>1, IdleSwap, IdleFacts
<1>3. UNCHANGED ended /\ ended \subseteq ended' /\ UNCHANGED handle /\ UNCHANGED begun
  BY DEF history
<1>4. Shapes'
  <2>1. stack' \in [Contexts -> Seq(Frame)]
    BY <1>1 DEF Shapes
  <2> QED
    BY <1>1, <2>1, ShapesNext DEF Shapes, QueueTypes, queues, history
<1>5. \A j : ~Looping(Blank, j)
  BY LoopingIs
<1>6. Named(h)'
  <2>1. FrameQuiet(h, Blank, Blank, Blank)
    BY BlankHolds, BlankOK DEF FrameQuiet
  <2> QED
    BY <1>1, <1>2, <1>3, <2>1, HistorySame, NamedQuiet
<1>7. Handled(h)'
  BY <1>1, <1>2, <1>3, BlankOK, HandledQuiet
<1>8. KnownHere(v, 1, Blank, Blank) /\ HandlesStay
  BY <1>1, <1>2, <1>3, BlankOK, KnownSame
<1>9. Known(h)'
  BY <1>1, <1>2, <1>8, KnownMove
<1>10. Counted(w, h, r)'
  <2>1. SlotsOn(w, w, r, r, Blank, Blank)
    <3>1. Blank.k # "finish"
      BY DEF Blank
    <3> QED
      BY <3>1, SlotsOnSame
  <2>2. CountedHere(r, Blank, Blank, Blank)
    BY <1>5, BlankOK DEF CountedHere
  <2> QED
    BY <1>1, <1>2, <1>3, <2>1, <2>2, CountedQuiet
<1>11. Depended(w, h)'
  <2>1. \A id \in Id : Moved(w, w, id)
    BY DEF Moved
  <2> QED
    BY <1>1, <1>2, <1>3, <2>1, BlankOK, DependedQuiet
<1>12. Stacks'
  <2>1. FramesOK'
    <3>1. BasedBy(v, Blank) /\ Blank.k # "body"
      BY DEF BasedBy, Blank
    <3> QED
      BY <1>1, <1>2, <3>1, FramesMove
  <2> QED
    BY <2>1, StacksPartsNext
<1>13. Nested'
  <2>1. 1 - 1 \notin Pos /\ AboveOf(handle', Blank, Blank)
    BY DEF AboveOf, Pos
  <2> QED
    BY <1>1, <1>2, <1>8, <2>1, NestedMove
<1> QED
  BY <1>4, <1>6, <1>7, <1>9, <1>10, <1>11, <1>12, <1>13 DEF Sound

\* A worker settles what a fiber left it.
LEMMA SettleFacts ==
    ASSUME Shapes, NEW v \in Worker, Settled(v)
    PROVE  /\ pending' \in [Worker -> PendingShape] /\ NothingPending(v)'
           /\ \A u \in Worker \ {v} : pending'[u] = pending[u]
<1>1. [kind |-> "none"] \in PendingShape
  BY DEF PendingShape
<1> QED
  BY <1>1 DEF Settled, Shapes, NothingPending

\* What a worker has left to do with the fiber it left, and what else is as it was.
LEMMA SettleKeeps ==
    ASSUME NEW w, NEW s, NEW h, NEW r, Sound(w, s, h, r), NEW v \in Worker, Idle(v), ~NothingPending(v),
           NEW x, x = pending[v].fiber, Settled(v), UNCHANGED <<program, on, exited, stopping, live, stack>>, UNCHANGED ended,
           free' \subseteq free \cup {x}, x \in free' => ~Busy(x),
           \A id \in Id : slots'[id].job = slots[id].job /\ slots'[id].gen = slots[id].gen
    PROVE  /\ x \in Fiber /\ s[x] = LeftBy(v) /\ Fibers
           /\ SwitchOK' /\ Stopped' /\ HonFrames'
           /\ \A s2 : \A f \in Fiber \ {x} : s2[f] = s[f] => HonFiber(s2, f)'
<1>1. Shapes /\ SwitchOK /\ Stopped /\ Parked(s) /\ Pools(s)
  BY SoundParts
<1>2. x \in Fiber
  BY <1>1, PendingShapes
<1>3. s[x] = LeftBy(v)
  BY <1>1, <1>2 DEF Pools
<1>4. Fibers
  <2>1. s[x] # Nowhere
    BY <1>3, Spots
  <2> QED
    BY <1>1, <1>2, <2>1 DEF Pools
<1>5. Swap(v, 1, Blank, Blank, Blank) /\ \A c \in Contexts : Busy(c)' <=> Busy(c)
  BY <1>1, IdleSwap
<1>6. /\ v \notin exited /\ on[v] = v /\ ~Busy(v) /\ v \in Contexts /\ v \in Thread /\ v \notin Fiber /\ v # External
  BY <1>1, IdleFacts
<1>7. /\ NothingPending(v)' /\ \A u \in Worker \ {v} : pending'[u] = pending[u]
  BY <1>1, SettleFacts
<1>8. SwitchOK'
  <2>1. \A f \in free' : ~Busy(f)'
    <3>1. \A f \in free' : f \in Contexts /\ ~Busy(f)
      BY <1>1, <1>2, Sizes DEF SwitchOK, Shapes
    <3> QED
      BY <1>5, <3>1
  <2>2. \A u \in Worker \ {v} : pending[u].kind = "recycle" => pending[u].fiber # v
    <3>1. \A u \in Worker : pending[u].kind = "recycle" => pending[u].fiber \in Fiber
      BY <1>1, PendingShapes DEF NothingPending
    <3> QED
      BY <1>6, <3>1
  <2>3. GensKept
    BY DEF GensKept
  <2>4. \A c \in Contexts : Busy(c) => Busy(c)'
    BY <1>5
  <2>5. \A c \in Contexts \ {v} : Busy(c)' => Busy(c)
    BY <1>5
  <2>6. ~Busy(v)'
    BY <1>5, <1>6
  <2>7. v = on'[v] /\ v \in {v} \cup Fiber /\ on'[External] = External /\ exited' \subseteq exited \cup {v}
    BY <1>1, <1>6 DEF SwitchOK
  <2>8. \A u \in Worker \ {v} : on'[u] = on[u] /\ pending'[u] = pending[u]
    BY <1>7
  <2>9. on'[External] = on[External] /\ UNCHANGED program
    OBVIOUS
  <2> QED
    BY <1>1, <1>4, <1>6, <1>7, <2>1, <2>2, <2>3, <2>4, <2>5, <2>6, <2>7, <2>8, <2>9, SwitchIdle
<1>9. Stopped'
  BY <1>1, <1>5, <1>6, StoppedMove
<1>10. HonFrames'
  <2>1. HonTop(v, 1, Blank, Blank)
    <3>1. 1 - 1 \notin Pos
      BY DEF Pos
    <3> QED
      BY <3>1, BlankOK DEF HonTop
  <2>2. \A c \in Contexts : LeftNext(c) = Left(c)
    BY DEF LeftNext, Left
  <2> QED
    BY <1>5, <2>1, <2>2, HonTops
<1>11. ASSUME NEW s2, NEW f \in Fiber \ {x}, s2[f] = s[f] PROVE HonFiber(s2, f)'
  <2>1. \A u \in Worker : s[f] = LeftBy(u) => pending'[u] = pending[u]
    <3>1. s[f] # LeftBy(v)
      BY <1>1, <1>11 DEF Pools
    <3> QED
      BY <1>7, <3>1
  <2> QED
    BY <1>5, <1>6, <1>11, <2>1, HonFiberKept
<1> QED
  BY <1>2, <1>3, <1>4, <1>8, <1>9, <1>10, <1>11

\* A worker puts a fiber that has run out back into the pool (Recycle).
LEMMA StepRecycle ==
    ASSUME NEW w, NEW s, NEW h, NEW r, Sound(w, s, h, r), NEW v \in Worker, Recycle(v)
    PROVE  StepKeeps
<1>1. Shapes /\ SwitchOK /\ Parked(s) /\ Placed(w) /\ Idle(v) /\ pending[v].kind = "recycle" /\ Settled(v)
  BY SoundParts DEF Recycle
<1>2. ~NothingPending(v)
  BY <1>1 DEF NothingPending
<1>3. PICK x : x = pending[v].fiber
  OBVIOUS
<1>4. ~Busy(x)
  BY <1>1, <1>3 DEF SwitchOK
<1>5. /\ free' = free \cup {x}
      /\ UNCHANGED <<program, slots, alloc, live, queues, resumable, next, on, stack, stopping, exited, history, remaining>>
  BY <1>3 DEF Recycle
<1>6. UNCHANGED ended /\ UNCHANGED begun
  BY <1>5 DEF history
<1>7. /\ x \in Fiber /\ s[x] = LeftBy(v) /\ Fibers
      /\ SwitchOK' /\ Stopped' /\ HonFrames'
      /\ \A s2 : \A f \in Fiber \ {x} : s2[f] = s[f] => HonFiber(s2, f)'
  BY <1>1, <1>2, <1>3, <1>4, <1>5, <1>6, SettleKeeps
<1>8. PICK s2 : MoveTo(s, s2, x, Free)
  BY DEF MoveTo
<1>9. Swap(v, 1, Blank, Blank, Blank) /\ BusySame
  BY <1>1, <1>5, IdleSwap
<1>10. Parked(s2)'
  <2>1. pending \in [Worker -> PendingShape]
    BY <1>1 DEF Shapes
  <2> QED
    BY <1>1, <1>2, <1>3, <1>4, <1>5, <1>7, <1>8, <1>9, <2>1, BlankHolds, ParkedRecycle
<1>11. Honoured(s2)'
  <2>1. ASSUME NEW f \in Fiber PROVE HonFiber(s2, f)'
    <3>1. s2[f] = IF f = x THEN Free ELSE s[f]
      <4>1. s \in [Fiber -> Spot]
        BY <1>1 DEF Parked
      <4> QED
        BY <1>7, <1>8, <4>1 DEF MoveTo
    <3>2. f = x => s2[f][1] = "free"
      BY <3>1, Spots
    <3>3. CASE f = x
      BY <3>2, <3>3, HonFiberElse
    <3>4. CASE f # x
      BY <1>7, <3>1, <3>4
    <3> QED
      BY <3>3, <3>4
  <2> QED
    BY <1>7, <2>1, HonouredPartsNext
<1>12. Placed(w)'
  BY <1>1, <1>5, <1>6, PlacedStill DEF queues
<1>13. Sound(w, s2, h, r)'
  <2>1. pending' \in [Worker -> PendingShape]
    BY <1>1, SettleFacts
  <2>2. /\ slots' \in [Id -> SlotShape] /\ resumable' \in Seq(Fiber) /\ free' \subseteq Fiber
        /\ next' \in [Fiber -> Fiber \cup {None}] /\ on' \in [Thread -> Contexts] /\ exited' \subseteq Worker
    BY <1>1, <1>5, <1>7 DEF Shapes
  <2>3. \A id \in Id : /\ slots'[id].job = slots[id].job /\ slots'[id].gen = slots[id].gen
                       /\ slots'[id].group = slots[id].group
    BY <1>5
  <2>4. UNCHANGED <<program, alloc, live, queues, stack, stopping, history, remaining>>
    BY <1>5
  <2> QED
    BY <1>1, <1>7, <1>10, <1>11, <1>12, <2>1, <2>2, <2>3, <2>4, LoopStep
<1> QED
  BY <1>13 DEF StepKeeps

\* What a fiber waits for that its worker is about to park.
LEMMA ParkFacts ==
    ASSUME NEW w, NEW s, NEW h, NEW r, Sound(w, s, h, r), NEW v \in Worker, Idle(v), UNCHANGED <<program, stack>>,
           pending[v].kind = "park", NEW x, x = pending[v].fiber, NEW id, id = pending[v].id
    PROVE  /\ ~NothingPending(v) /\ x \in Fiber /\ id \in Id /\ Busy(x) /\ slots[id].gen # 0 /\ s[x] = LeftBy(v)
           /\ \E k \in Job : Awaits(x, k)' /\ (k \in ended \/ slots[id].job = k)
<1>1. Shapes /\ SwitchOK /\ Parked(s) /\ Pools(s) /\ \A f \in Fiber : HonFiber(s, f)
  BY SoundParts
<1>2. ~NothingPending(v)
  BY DEF NothingPending
<1>3. x \in Fiber /\ id \in Id
  BY <1>1, <1>2, PendingShapes
<1>4. Busy(x) /\ slots[id].gen # 0
  BY <1>1 DEF SwitchOK
<1>5. s[x] = LeftBy(v)
  BY <1>1, <1>2, <1>3 DEF Pools
<1>6. PICK k \in Job : Awaits(x, k) /\ (k \in ended \/ slots[id].job = k)
  BY <1>1, <1>3, <1>5 DEF HonFiber
<1>7. Awaits(x, k)'
  <2>1. Swap(v, 1, Blank, Blank, Blank)
    BY <1>1, IdleSwap
  <2>2. x \in Contexts /\ x # v
    BY <1>3, Sizes
  <2> QED
    BY <1>6, <2>1, <2>2, AwaitsSame
<1> QED
  BY <1>2, <1>3, <1>4, <1>5, <1>6, <1>7

\* Published, the fiber waits where it may be seen.
LEMMA ParkStep ==
    ASSUME NEW w, NEW s, NEW h, NEW r, Sound(w, s, h, r), NEW v \in Worker, Idle(v), ~NothingPending(v), Settled(v),
           NEW x, x = pending[v].fiber,
           UNCHANGED <<program, alloc, live, queues, free, on, stack, stopping, exited, history, remaining>>,
           slots' \in [Id -> SlotShape], resumable' \in Seq(Fiber), next' \in [Fiber -> Fiber \cup {None}],
           \A id \in Id : /\ slots'[id].job = slots[id].job /\ slots'[id].gen = slots[id].gen
                          /\ slots'[id].group = slots[id].group,
           Placed(w)', NEW s2, Parked(s2)', \A f \in Fiber \ {x} : s2[f] = s[f], HonFiber(s2, x)'
    PROVE  StepKeeps
<1>1. Shapes /\ Parked(s) /\ Pools(s)
  BY SoundParts
<1>2. UNCHANGED ended
  BY DEF history
<1>3. x \notin free
  <2>1. x \in Fiber /\ s[x] = LeftBy(v)
    BY <1>1, PendingShapes DEF Pools
  <2>2. x \in free => s[x] = Free
    BY <1>1, <2>1 DEF Pools
  <2>3. LeftBy(v)[1] = "left" /\ Free[1] = "free"
    BY Spots
  <2> QED
    BY <2>1, <2>2, <2>3
<1>4. /\ x \in Fiber /\ s[x] = LeftBy(v) /\ Fibers
      /\ SwitchOK' /\ Stopped' /\ HonFrames'
      /\ \A s3 : \A f \in Fiber \ {x} : s3[f] = s[f] => HonFiber(s3, f)'
  <2>1. free' \subseteq free \cup {x} /\ x \notin free'
    BY <1>3
  <2>2. \A id \in Id : slots'[id].job = slots[id].job /\ slots'[id].gen = slots[id].gen
    OBVIOUS
  <2>3. UNCHANGED <<program, on, exited, stopping, live, stack>>
    OBVIOUS
  <2> QED
    BY <1>2, <2>1, <2>2, <2>3, SettleKeeps
<1>5. Honoured(s2)'
  <2>1. \A f \in Fiber : HonFiber(s2, f)'
    BY <1>4
  <2> QED
    BY <1>4, <2>1, HonouredPartsNext
<1>6. Sound(w, s2, h, r)'
  <2>1. pending' \in [Worker -> PendingShape]
    BY <1>1, SettleFacts
  <2>2. free' \subseteq Fiber /\ on' \in [Thread -> Contexts] /\ exited' \subseteq Worker
    BY <1>1 DEF Shapes
  <2>3. UNCHANGED <<program, alloc, live, queues, stack, stopping, history, remaining>>
    OBVIOUS
  <2> QED
    BY <1>4, <1>5, <2>1, <2>2, <2>3, LoopStep
<1> QED
  BY <1>6 DEF StepKeeps

\* A worker puts a fiber on the list of waiters, or lets it go on (Park, ParkRefused).
LEMMA StepPark ==
    ASSUME NEW w, NEW s, NEW h, NEW r, Sound(w, s, h, r), NEW v \in Worker, Park(v)
    PROVE  StepKeeps
<1>1. Shapes /\ SwitchOK /\ Parked(s) /\ Placed(w) /\ Idle(v) /\ pending[v].kind = "park" /\ Settled(v)
  BY SoundParts DEF Park
<1>2. PICK x : x = pending[v].fiber
  OBVIOUS
<1>3. PICK id : id = pending[v].id
  OBVIOUS
<1>4. UNCHANGED <<program, alloc, live, queues, free, on, stack, stopping, exited, history, remaining>>
      /\ UNCHANGED ended /\ UNCHANGED begun
  BY DEF Park, history
<1>5. /\ ~NothingPending(v) /\ x \in Fiber /\ id \in Id /\ Busy(x) /\ slots[id].gen # 0 /\ s[x] = LeftBy(v)
      /\ \E k \in Job : Awaits(x, k)' /\ (k \in ended \/ slots[id].job = k)
  BY <1>1, <1>2, <1>3, <1>4, ParkFacts
<1>6. PICK k \in Job : Awaits(x, k)' /\ (k \in ended \/ slots[id].job = k)
  BY <1>5
<1>7. Swap(v, 1, Blank, Blank, Blank) /\ BusySame
  BY <1>1, <1>4, IdleSwap
<1>8. s \in [Fiber -> Spot] /\ pending \in [Worker -> PendingShape] /\ resumable \in Seq(Fiber)
      /\ slots[id].waiters \in {None, Shut} \cup Fiber
  BY <1>1, <1>5 DEF Parked, Shapes, SlotShape
<1>9. CASE IsShut(id)
  <2>1. resumable' = Append(resumable, x) /\ UNCHANGED <<slots, next>>
    BY <1>2, <1>3, <1>9 DEF Park, ParkRefused
  <2>2. PICK s2 : MoveTo(s, s2, x, Ready)
    BY DEF MoveTo
  <2>3. Parked(s2)'
    BY <1>1, <1>2, <1>4, <1>5, <1>7, <1>8, <2>1, <2>2, BlankHolds, ParkedReady
  <2>4. \A f \in Fiber : s2[f] = IF f = x THEN Ready ELSE s[f]
    BY <1>5, <1>8, <2>2 DEF MoveTo
  <2>5. k \in ended'
    <3>1. slots[id].job \in ended
      BY <1>1, <1>5, <1>9, ClosedEnded
    <3> QED
      BY <1>4, <1>6, <3>1
  <2>6. HonFiber(s2, x)'
    <3>1. s2[x] = Ready
      BY <1>5, <2>4
    <3>2. Ready[1] = "resumable" /\ (\A u : WaitsOn(u)[1] = "list") /\ \A u : LeftBy(u)[1] = "left"
      BY Spots
    <3> QED
      BY <1>6, <2>5, <3>1, <3>2 DEF HonFiber
  <2>7. Placed(w)'
    BY <1>1, <1>4, <2>1, PlacedStill DEF queues
  <2>8. slots' \in [Id -> SlotShape] /\ resumable' \in Seq(Fiber) /\ next' \in [Fiber -> Fiber \cup {None}]
    BY <1>1, <1>5, <1>8, <2>1, AppendQ DEF Shapes
  <2>9. \A y \in Id : /\ slots'[y].job = slots[y].job /\ slots'[y].gen = slots[y].gen
                      /\ slots'[y].group = slots[y].group
    BY <2>1
  <2>10. \A f \in Fiber \ {x} : s2[f] = s[f]
    BY <2>4
  <2> QED
    BY <1>1, <1>2, <1>4, <1>5, <2>3, <2>6, <2>7, <2>8, <2>9, <2>10, ParkStep
<1>10. CASE ~IsShut(id)
  <2>1. WaitersSet(id, x) /\ LinkSet(x, slots[id].waiters) /\ UNCHANGED resumable
    BY <1>2, <1>3, <1>10 DEF Park, ParkRefused, EnlistWaiter, WaitersSet, LinkSet
  <2>2. PICK s2 : MoveTo(s, s2, x, WaitsOn(id))
    BY DEF MoveTo
  <2>3. Parked(s2)'
    BY <1>1, <1>2, <1>4, <1>5, <1>7, <2>1, <2>2, ParkedEnlist
  <2>4. \A f \in Fiber : s2[f] = IF f = x THEN WaitsOn(id) ELSE s[f]
    BY <1>5, <1>8, <2>2 DEF MoveTo
  <2>5. /\ slots' \in [Id -> SlotShape]
        /\ \A y \in Id : /\ slots'[y].job = slots[y].job /\ slots'[y].gen = slots[y].gen
                         /\ slots'[y].group = slots[y].group
    BY <1>1, <1>5, <2>1, WaitersFields
  <2>6. HonFiber(s2, x)'
    <3>1. s2[x] = WaitsOn(id)
      BY <1>5, <2>4
    <3>2. WaitsOn(id)[1] = "list" /\ (\A u : WaitsOn(id) = WaitsOn(u) => u = id) /\ \A u : LeftBy(u)[1] = "left"
      BY Spots
    <3>3. k \in Job /\ (k \in ended' \/ slots'[id].job = k)
      BY <1>4, <1>5, <1>6, <2>5
    <3>4. k \in (Job)'
      BY <1>4, <3>3 DEF Job
    <3> QED
      BY <1>6, <3>1, <3>2, <3>3, <3>4 DEF HonFiber
  <2>7. Placed(w)'
    <3>1. HoldSame(Blank, Blank, Blank)
      BY BlankHolds DEF HoldSame
    <3>2. HolderOK(Blank)'
      BY DEF HolderOK, Blank
    <3>3. x # Shut
      BY <1>5, Sizes
    <3> QED
      BY <1>1, <1>4, <1>5, <1>7, <1>10, <2>1, <3>1, <3>2, <3>3, PlacedWaiters DEF queues
  <2>8. resumable' \in Seq(Fiber) /\ next' \in [Fiber -> Fiber \cup {None}]
    <3>1. slots[id].waiters \in Fiber \cup {None}
      BY <1>8, <1>10 DEF IsShut
    <3> QED
      BY <1>1, <1>5, <2>1, <3>1 DEF Shapes, LinkSet
  <2>9. \A f \in Fiber \ {x} : s2[f] = s[f]
    BY <2>4
  <2> QED
    BY <1>1, <1>2, <1>4, <1>5, <2>3, <2>5, <2>6, <2>7, <2>8, <2>9, ParkStep
<1> QED
  BY <1>9, <1>10

\* A worker leaves when no job is left.
LEMMA StepWorkerExit ==
    ASSUME NEW w, NEW s, NEW h, NEW r, Sound(w, s, h, r), NEW v \in Worker, WorkerExit(v)
    PROVE  StepKeeps
<1>1. /\ Shapes /\ SwitchOK /\ Stopped /\ Parked(s) /\ Placed(w) /\ Idle(v) /\ NothingPending(v) /\ MayExit
      /\ exited' = exited \cup {v}
      /\ UNCHANGED <<program, slots, alloc, live, queues, fibers, on, stack, stopping, history, remaining>>
  BY SoundParts DEF WorkerExit, MayTake
<1>2. UNCHANGED ended /\ UNCHANGED begun
  BY <1>1 DEF history
<1>3. Swap(v, 1, Blank, Blank, Blank) /\ \A c \in Contexts : Busy(c)' <=> Busy(c)
  BY <1>1, IdleSwap
<1>4. /\ v \notin exited /\ on[v] = v /\ ~Busy(v) /\ v \in Contexts /\ v \in Thread /\ v \notin Fiber /\ v # External
  BY <1>1, IdleFacts
<1>5. Parked(s)'
  <2>1. \A y \in Id : slots'[y].waiters = slots[y].waiters \/ NobodyWaits(y)
    BY <1>1
  <2> QED
    BY <1>1, <1>3, <1>4, <2>1, BlankHolds, ParkedQuiet DEF fibers
<1>6. Placed(w)'
  BY <1>1, <1>2, PlacedStill DEF queues
<1>7. SwitchOK'
  <2>1. \A f \in free' : ~Busy(f)'
    <3>1. \A f \in free : f \in Contexts /\ ~Busy(f)
      BY <1>1, Sizes DEF SwitchOK, Shapes
    <3> QED
      BY <1>1, <1>3, <3>1 DEF fibers
  <2>2. \A u \in Worker \ {v} : pending[u].kind = "recycle" => pending[u].fiber # v
    <3>1. \A u \in Worker : pending[u].kind = "recycle" => pending[u].fiber \in Fiber
      BY <1>1, PendingShapes DEF NothingPending
    <3> QED
      BY <1>4, <3>1
  <2>3. GensKept
    BY <1>1 DEF GensKept
  <2>4. \A c \in Contexts : Busy(c) => Busy(c)'
    BY <1>3
  <2>5. \A c \in Contexts \ {v} : Busy(c)' => Busy(c)
    BY <1>3
  <2>6. ~Busy(v)'
    BY <1>3, <1>4
  <2>7. v = on'[v] /\ v \in {v} \cup Fiber /\ exited' \subseteq exited \cup {v}
    BY <1>1, <1>4
  <2>8. on'[External] = on[External] /\ \A u \in Worker \ {v} : on'[u] = on[u] /\ pending'[u] = pending[u]
    BY <1>1 DEF fibers
  <2>9. NothingPending(v)' /\ UNCHANGED program
    BY <1>1 DEF fibers, NothingPending
  <2>10. ~Fibers => free' = {} /\ resumable' = <<>>
    BY <1>1 DEF fibers, SwitchOK
  <2> QED
    BY <1>1, <1>4, <2>1, <2>2, <2>3, <2>4, <2>5, <2>6, <2>7, <2>8, <2>9, <2>10, SwitchIdle
<1>8. Stopped'
  <2>1. \A c, i : FrameAt(c, i)' = FrameAt(c, i)
    BY <1>1, Still
  <2> QED
    BY <1>1, <2>1 DEF Stopped, MayExit
<1>9. HonFrames'
  <2>1. HonTop(v, 1, Blank, Blank)
    <3>1. 1 - 1 \notin Pos
      BY DEF Pos
    <3> QED
      BY <3>1, BlankOK DEF HonTop
  <2>2. \A c \in Contexts : LeftNext(c) = Left(c)
    BY <1>1 DEF LeftNext, Left
  <2>3. UNCHANGED program
    BY <1>1
  <2> QED
    BY <1>2, <1>3, <2>1, <2>2, <2>3, HonTops
<1>10. ASSUME NEW f \in Fiber PROVE HonFiber(s, f)'
  <2>1. UNCHANGED program /\ \A u \in Worker : s[f] = LeftBy(u) => pending'[u] = pending[u]
    BY <1>1 DEF fibers
  <2>2. \A id \in Id : slots'[id].job = slots[id].job
    BY <1>1
  <2> QED
    BY <1>2, <1>3, <1>4, <2>1, <2>2, HonFiberKept
<1>11. Honoured(s)'
  BY <1>9, <1>10, HonouredPartsNext
<1>12. Sound(w, s, h, r)'
  <2>1. /\ slots' \in [Id -> SlotShape] /\ resumable' \in Seq(Fiber) /\ free' \subseteq Fiber
        /\ next' \in [Fiber -> Fiber \cup {None}] /\ on' \in [Thread -> Contexts] /\ exited' \subseteq Worker
        /\ pending' \in [Worker -> PendingShape]
    BY <1>1 DEF Shapes, fibers
  <2>2. \A id \in Id : /\ slots'[id].job = slots[id].job /\ slots'[id].gen = slots[id].gen
                       /\ slots'[id].group = slots[id].group
    BY <1>1
  <2>3. UNCHANGED <<program, alloc, live, queues, stack, stopping, history, remaining>>
    BY <1>1
  <2> QED
    BY <1>1, <1>5, <1>6, <1>7, <1>8, <1>11, <2>1, <2>2, <2>3, LoopStep
<1> QED
  BY <1>12 DEF StepKeeps

\* What a fiber had to wait for is done when a worker runs it again.
LEMMA ResumedFrame ==
    ASSUME NEW w, NEW s, NEW h, NEW r, Sound(w, s, h, r), NEW x \in Fiber, s[x] = Ready, NEW i \in Pos, NEW left
    PROVE  HonFrame(FrameAt(x, i), FrameAt(x, i + 1), ended, left)
<1>1. Shapes /\ HonFrames /\ HonFiber(s, x) /\ x \in Contexts
  BY SoundParts, Sizes
<1>2. PICK k \in ended : Awaits(x, k)
  <2>1. Ready[1] = "resumable"
    BY Spots
  <2> QED
    BY <1>1, <2>1 DEF HonFiber
<1>3. PICK f : f = FrameAt(x, i)
  OBVIOUS
<1>4. PICK g : g = FrameAt(x, i + 1)
  OBVIOUS
<1>5. HonFrame(f, g, ended, Left(x))
  BY <1>1, <1>3, <1>4 DEF HonFrames
<1>6. CASE g # Blank
  BY <1>3, <1>4, <1>5, <1>6 DEF HonFrame
<1>7. CASE f.k # "body"
  BY <1>3, <1>4, <1>7 DEF HonFrame
<1>8. CASE g = Blank /\ f.k = "body"
  <2>1. PICK m \in Pos : /\ FrameAt(x, m).k = "body" /\ FrameAt(x, m + 1) = Blank
                         /\ CallAt(FrameAt(x, m).job, FrameAt(x, m).pc - 1) = Wait(k)
    BY <1>2 DEF Awaits
  <2>2. f # Blank /\ FrameAt(x, m) # Blank /\ m + 1 \in Pos /\ i + 1 \in Pos
    BY <1>8, <2>1 DEF Blank, Pos
  <2>3. i <= Len(stack[x]) /\ Len(stack[x]) < i + 1 /\ m <= Len(stack[x]) /\ Len(stack[x]) < m + 1
        /\ Len(stack[x]) \in Nat
    <3>1. i \in 1..Len(stack[x]) /\ m \in 1..Len(stack[x])
      BY <1>1, <1>3, <2>1, <2>2, FrameAtIn
    <3>2. Len(stack[x]) < i + 1 /\ Len(stack[x]) < m + 1
      BY <1>1, <1>4, <1>8, <2>1, <2>2, FrameAtIn
    <3> QED
      BY <1>1, <3>1, <3>2 DEF Shapes
  <2>4. m = i
    BY <2>3 DEF Pos
  <2>5. CallAt(f.job, f.pc - 1) = Wait(k)
    BY <1>3, <2>1, <2>4
  <2>6. FulfilledIn(f.job, f.pc - 1, ended)
    <3>1. Wait(k).op = "wait" /\ Wait(k).job = k
      BY DEF Wait
    <3> QED
      BY <1>2, <2>5, <3>1 DEF FulfilledIn
  <2> QED
    BY <1>3, <1>4, <1>5, <2>6 DEF HonFrame
<1> QED
  BY <1>6, <1>7, <1>8

-----------------------------------------------------------------------------
\* Taking up a fiber, and starting a job.

\* Only the fiber a worker turns to is run by somebody now.
LEMMA HonResumes ==
    ASSUME NEW w, NEW s, NEW h, NEW r, Sound(w, s, h, r), NEW v \in Worker, Idle(v), UNCHANGED <<program, stack>>,
           UNCHANGED ended, NEW x \in Fiber, on' = [on EXCEPT ![v] = x],
           \A i \in Pos : \A left : HonFrame(FrameAt(x, i), FrameAt(x, i + 1), ended, left)
    PROVE  HonFrames'
<1>1. Shapes /\ HonFrames /\ on \in [Thread -> Contexts]
  BY SoundParts DEF Shapes
<1>2. Swap(v, 1, Blank, Blank, Blank) /\ on[v] = v /\ v \in Contexts /\ v \in Thread
  BY <1>1, IdleSwap, IdleFacts
<1>3. HonHere(v, 1, Blank, Blank)
  <2>1. 1 - 1 \notin Pos
    BY DEF Pos
  <2>2. ASSUME NEW c \in Contexts \ {v}, NEW i \in Pos
        PROVE HonFrame(FrameAt(c, i), FrameAt(c, i + 1), ended', LeftNext(c))
    <3>1. CASE c = x
      BY <3>1
    <3>2. CASE c # x
      <4>1. Left(c) => LeftNext(c)
        BY <1>1, <3>2 DEF Left, LeftNext
      <4>2. HonFrame(FrameAt(c, i), FrameAt(c, i + 1), ended, Left(c))
        BY <1>1, <2>2 DEF HonFrames
      <4> QED
        BY <4>1, <4>2 DEF HonFrame
    <3> QED
      BY <3>1, <3>2
  <2> QED
    BY <2>1, <2>2, BlankOK DEF HonHere
<1> QED
  BY <1>1, <1>2, <1>3, HonFramesMove

\* A worker takes up a resumable fiber (Resume).
LEMMA StepResume ==
    ASSUME NEW w, NEW s, NEW h, NEW r, Sound(w, s, h, r), NEW v \in Worker, Resume(v)
    PROVE  StepKeeps
<1>1. /\ Shapes /\ SwitchOK /\ Stopped /\ Parked(s) /\ Placed(w) /\ Idle(v) /\ NothingPending(v) /\ Fibers /\ resumable # <<>>
      /\ UNCHANGED <<program, slots, alloc, live, queues, free, next, pending, stack, stopping, exited, history, remaining>>
  BY SoundParts DEF Resume
<1>2. PICK x : x = Head(resumable)
  OBVIOUS
<1>3. on' = [on EXCEPT ![v] = x] /\ resumable' = Tail(resumable)
  BY <1>2 DEF Resume
<1>4. UNCHANGED ended /\ UNCHANGED begun
  BY <1>1 DEF history
<1>5. Swap(v, 1, Blank, Blank, Blank) /\ BusySame /\ \A c \in Contexts : Busy(c)' <=> Busy(c)
  BY <1>1, IdleSwap
<1>6. /\ v \notin exited /\ on[v] = v /\ ~Busy(v) /\ v \in Contexts /\ v \in Thread /\ v \notin Fiber /\ v # External
  BY <1>1, IdleFacts
<1>7. PICK s2 : MoveTo(s, s2, x, RunBy(v))
  BY DEF MoveTo
<1>8. Parked(s2)' /\ x \in Fiber /\ s[x] = Ready
  <2>1. resumable \in Seq(Fiber) /\ on \in [Thread -> Contexts]
    BY <1>1 DEF Shapes
  <2> QED
    BY <1>1, <1>2, <1>3, <1>5, <1>6, <1>7, <2>1, BlankHolds, ParkedResume
<1>9. Busy(x) /\ x \in Contexts /\ x # v
  <2>1. BusyOK(s) /\ Ready[1] = "resumable"
    BY SoundParts, Spots
  <2> QED
    BY <1>6, <1>8, <2>1, Sizes DEF BusyOK
<1>10. /\ x = on'[v] /\ on'[External] = on[External] /\ on' \in [Thread -> Contexts]
       /\ \A u \in Worker \ {v} : on'[u] = on[u]
  <2>1. on \in [Thread -> Contexts]
    BY <1>1 DEF Shapes
  <2> QED
    BY <1>3, <1>6, <1>9, <2>1, Sizes
<1>11. SwitchOK'
  <2>1. \A f \in free' : ~Busy(f)'
    <3>1. \A f \in free : f \in Contexts /\ ~Busy(f)
      BY <1>1, Sizes DEF SwitchOK, Shapes
    <3> QED
      BY <1>1, <1>5, <3>1
  <2>2. \A u \in Worker \ {v} : pending[u].kind = "recycle" => pending[u].fiber # x
    BY <1>1, <1>9 DEF SwitchOK
  <2>3. GensKept
    BY <1>1 DEF GensKept
  <2>4. \A c \in Contexts : Busy(c) => Busy(c)'
    BY <1>5
  <2>5. \A c \in Contexts \ {x} : Busy(c)' => Busy(c)
    BY <1>5
  <2>6. Busy(x)' /\ ~Busy(v)'
    BY <1>5, <1>6, <1>9
  <2>7. x \in {v} \cup Fiber /\ exited' \subseteq exited \cup {v} /\ v \notin exited'
    BY <1>1, <1>6, <1>8
  <2>8. \A u \in Worker \ {v} : on'[u] = on[u] /\ pending'[u] = pending[u]
    BY <1>1, <1>10
  <2>9. NothingPending(v)' /\ UNCHANGED program
    BY <1>1 DEF NothingPending
  <2> QED
    BY <1>1, <1>6, <1>10, <2>1, <2>2, <2>3, <2>4, <2>5, <2>6, <2>7, <2>8, <2>9, SwitchIdle
<1>12. Stopped'
  BY <1>1, <1>5, <1>6, StoppedMove
<1>13. HonFrames'
  <2>1. UNCHANGED <<program, stack>>
    BY <1>1
  <2>2. \A i \in Pos : \A left : HonFrame(FrameAt(x, i), FrameAt(x, i + 1), ended, left)
    BY <1>8, ResumedFrame
  <2> QED
    BY <1>1, <1>3, <1>4, <1>8, <2>1, <2>2, HonResumes
<1>14. ASSUME NEW f \in Fiber PROVE HonFiber(s2, f)'
  <2>1. s2[f] = IF f = x THEN RunBy(v) ELSE s[f]
    <3>1. s \in [Fiber -> Spot]
      BY <1>1 DEF Parked
    <3> QED
      BY <1>7, <1>8, <3>1 DEF MoveTo
  <2>2. CASE f = x
    <3>1. s2[f][1] = "on"
      BY <2>1, <2>2, Spots
    <3> QED
      BY <3>1, HonFiberElse
  <2>3. CASE f # x
    <3>1. UNCHANGED program /\ \A u \in Worker : s[f] = LeftBy(u) => pending'[u] = pending[u]
      BY <1>1
    <3>2. \A id \in Id : slots'[id].job = slots[id].job
      BY <1>1
    <3>3. s2[f] = s[f] /\ f # v
      BY <1>6, <2>1, <2>3
    <3> QED
      BY <1>4, <1>5, <3>1, <3>2, <3>3, HonFiberKept
  <2> QED
    BY <2>2, <2>3
<1>15. Honoured(s2)'
  BY <1>13, <1>14, HonouredPartsNext
<1>16. Placed(w)'
  BY <1>1, <1>4, PlacedStill DEF queues
<1>17. Sound(w, s2, h, r)'
  <2>1. /\ slots' \in [Id -> SlotShape] /\ free' \subseteq Fiber
        /\ next' \in [Fiber -> Fiber \cup {None}] /\ exited' \subseteq Worker /\ pending' \in [Worker -> PendingShape]
    BY <1>1 DEF Shapes
  <2>2. resumable' \in Seq(Fiber)
    BY <1>1, <1>3 DEF Shapes
  <2>3. \A id \in Id : /\ slots'[id].job = slots[id].job /\ slots'[id].gen = slots[id].gen
                       /\ slots'[id].group = slots[id].group
    BY <1>1
  <2>4. UNCHANGED <<program, alloc, live, queues, stack, stopping, history, remaining>>
    BY <1>1
  <2> QED
    BY <1>1, <1>8, <1>10, <1>11, <1>12, <1>15, <1>16, <2>1, <2>2, <2>3, <2>4, LoopStep
<1> QED
  BY <1>17 DEF StepKeeps

\* Worker v begins a job on stack x, its own or a fiber's.
Begins(v, x, id, g) ==
    /\ TryGetJob(v, v, id) /\ Begin(id) /\ g = Body(id, slots[id].job)
    /\ stack' = [stack EXCEPT ![x] = <<g>>] /\ free' = free \ {x}
    /\ x = v \/ (x \in free /\ Fibers)
    /\ on' \in [Thread -> Contexts] /\ \A u \in Thread : on'[u] = IF u = v THEN x ELSE on[u]
    /\ UNCHANGED <<program, slots, alloc, live, resumable, next, pending, stopping, exited, handle, ended, remaining>>

\* A worker starts a job: what changes.
LEMMA StartFacts ==
    ASSUME NEW w, NEW s, NEW h, NEW r, Sound(w, s, h, r), NEW v \in Worker, Idle(v), NothingPending(v),
           NEW x, NEW id \in Id, NEW g, Begins(v, x, id, g)
    PROVE  /\ x \in Contexts /\ x # External /\ (x # v => x \in Fiber) /\ ~Busy(x)
           /\ Swap(x, 1, Blank, g, Blank) /\ StartsBody(h, r, id, g)
           /\ QueueTypes' /\ HistoryMove(h) /\ begun' \in [Job -> Nat]
           /\ w[id][1] \in {"deque", "inject"} /\ h[slots[id].job] = InSlot(id)
<1>1. Shapes /\ SwitchOK
  BY SoundParts
<1>2. x \in Contexts /\ x # External /\ (x # v => x \in Fiber)
  BY <1>1, Sizes DEF Begins, Shapes
<1>3. ~Busy(x)
  BY <1>1, <1>2, IdleFacts DEF SwitchOK, Begins
<1>4. /\ w[id][1] \in {"deque", "inject"} /\ slots[id].gen # 0 /\ slots[id].job \in Task
      /\ h[slots[id].job] = InSlot(id) /\ begun' \in [Job -> Nat] /\ QueueTypes' /\ HistoryMove(h)
      /\ Unasked(h, slots[id].job, 1) /\ Knows(slots[id].job, 1)
  <2>1. UNCHANGED <<program, slots, ended, handle>> /\ TryGetJob(v, v, id) /\ Begin(id)
    BY DEF Begins
  <2> QED
    BY <2>1, TakenJob
<1>5. StartsBody(h, r, id, g)
  <2>1. g = Body(id, slots[id].job)
    BY DEF Begins
  <2> QED
    BY <1>1, <1>4, <2>1, BodyStarts
<1>6. Stacked(x, 1, g, Blank)
  <2>1. g \in Frame
    BY <1>5 DEF StartsBody
  <2>2. stack' = [stack EXCEPT ![x] = <<g>>]
    BY DEF Begins
  <2> QED
    BY <1>1, <1>2, <1>3, <2>1, <2>2, Starts
<1>7. FrameAt(x, 1) = Blank /\ FrameAt(x, 2) = Blank /\ 1 \in Pos
  <2>1. 1 \in Pos /\ 2 \in Pos
    BY DEF Pos
  <2>2. FrameAt(x, 1) = Blank
    BY <1>3 DEF Busy
  <2>3. Len(stack[x]) < 1 /\ Len(stack[x]) \in Nat
    BY <1>1, <1>2, <2>1, <2>2, FrameAtIn DEF Shapes
  <2>4. Len(stack[x]) < 2
    BY <2>3
  <2>5. FrameAt(x, 2) = Blank
    BY <1>1, <1>2, <2>1, <2>4, FrameAtIn
  <2> QED
    BY <2>1, <2>2, <2>5
<1>8. Swap(x, 1, Blank, g, Blank)
  BY <1>2, <1>6, <1>7 DEF Swap
<1> QED
  BY <1>2, <1>3, <1>4, <1>5, <1>8

\* A worker starts a job and threads and fibers still fit together.
LEMMA SwitchStarts ==
    ASSUME NEW w, NEW s, NEW h, NEW r, Sound(w, s, h, r), NEW v \in Worker, Idle(v), NothingPending(v),
           NEW x, NEW id \in Id, NEW g, Begins(v, x, id, g)
    PROVE  SwitchOK'
<1>1. Shapes /\ SwitchOK /\ Parked(s) /\ Pools(s)
  BY SoundParts
<1>2. /\ x \in Contexts /\ x # External /\ (x # v => x \in Fiber) /\ ~Busy(x) /\ Swap(x, 1, Blank, g, Blank) /\ g # Blank
  <2>1. /\ x \in Contexts /\ x # External /\ (x # v => x \in Fiber) /\ ~Busy(x) /\ Swap(x, 1, Blank, g, Blank)
        /\ StartsBody(h, r, id, g)
    BY StartFacts
  <2>2. g # Blank
    BY <2>1 DEF StartsBody
  <2> QED
    BY <2>1, <2>2
<1>3. /\ v \notin exited /\ on[v] = v /\ ~Busy(v) /\ v \in Contexts /\ v \in Thread /\ v \notin Fiber /\ v # External
  BY <1>1, IdleFacts
<1>4. \A c \in Contexts : Busy(c)' <=> c = x \/ Busy(c)
  BY <1>2, BusyAfter
<1>5. /\ free' = free \ {x} /\ (x # v => x \in free /\ Fibers)
      /\ \A u \in Thread : on'[u] = IF u = v THEN x ELSE on[u]
      /\ UNCHANGED <<program, slots, resumable, pending, exited>>
  BY DEF Begins
<1>6. \A f \in free' : ~Busy(f)'
  <2>1. \A f \in free : f \in Contexts /\ ~Busy(f)
    BY <1>1, Sizes DEF SwitchOK, Shapes
  <2> QED
    BY <1>4, <1>5, <2>1
<1>7. \A u \in Worker \ {v} : pending[u].kind = "recycle" => pending[u].fiber # x
  <2>1. ASSUME NEW u \in Worker \ {v}, pending[u].kind = "recycle", pending[u].fiber = x PROVE FALSE
    <3>1. ~NothingPending(u)
      BY <2>1 DEF NothingPending
    <3>2. x \in Fiber
      BY <1>1, <2>1, <3>1, PendingShapes
    <3>3. s[x] = LeftBy(u)
      BY <1>1, <2>1, <3>1, <3>2 DEF Pools
    <3>4. s[x] = Free
      BY <1>1, <1>3, <1>5, <3>2 DEF Pools
    <3>5. LeftBy(u)[1] = "left" /\ Free[1] = "free"
      BY Spots
    <3> QED
      BY <3>3, <3>4, <3>5
  <2> QED
    BY <2>1
<1>8. GensKept
  BY <1>5 DEF GensKept
<1>9. x = on'[v] /\ on'[External] = on[External] /\ \A u \in Worker \ {v} : on'[u] = on[u] /\ pending'[u] = pending[u]
  BY <1>3, <1>5, Sizes
<1>10. NothingPending(v)'
  BY <1>5 DEF NothingPending
<1>11. x \in {v} \cup Fiber /\ exited' \subseteq exited \cup {v} /\ v \notin exited' /\ UNCHANGED program
  BY <1>2, <1>3, <1>5
<1>12. x # v => Busy(x)' /\ ~Busy(v)'
  BY <1>2, <1>3, <1>4
<1>13. \A c \in Contexts : Busy(c) => Busy(c)'
  BY <1>4
<1>14. \A c \in Contexts \ {x} : Busy(c)' => Busy(c)
  BY <1>4
<1>15. ~Fibers => free' = {} /\ resumable' = <<>> /\ x = v
  BY <1>1, <1>5 DEF SwitchOK
<1> QED
  BY <1>1, <1>3, <1>6, <1>7, <1>8, <1>9, <1>10, <1>11, <1>12, <1>13, <1>14, <1>15, SwitchIdle

\* A worker starts a job and every wait stands on what it did.
LEMMA HonStarts ==
    ASSUME NEW w, NEW s, NEW h, NEW r, Sound(w, s, h, r), NEW v \in Worker, Idle(v), NothingPending(v),
           NEW x, NEW id \in Id, NEW g, Begins(v, x, id, g),
           NEW s2, \A f \in Fiber \ {x} : s2[f] = s[f], x \in Fiber => s2[x] = RunBy(v)
    PROVE  Honoured(s2)'
<1>1. Shapes /\ HonFrames
  BY SoundParts
<1>2. /\ x \in Contexts /\ Swap(x, 1, Blank, g, Blank) /\ \A S, left : HonFrame(g, Blank, S, left)
  <2>1. x \in Contexts /\ Swap(x, 1, Blank, g, Blank) /\ StartsBody(h, r, id, g)
    BY StartFacts
  <2> QED
    BY <2>1 DEF StartsBody
<1>3. /\ \A u \in Thread : on'[u] = IF u = v THEN x ELSE on[u]
      /\ UNCHANGED <<program, slots, pending, ended>>
  BY DEF Begins
<1>4. HonHere(x, 1, g, Blank)
  <2>1. 1 - 1 \notin Pos
    BY DEF Pos
  <2>2. ASSUME NEW c \in Contexts \ {x}, NEW i \in Pos
        PROVE HonFrame(FrameAt(c, i), FrameAt(c, i + 1), ended', LeftNext(c))
    <3>1. Left(c) => LeftNext(c)
      BY <1>3 DEF Left, LeftNext
    <3>2. HonFrame(FrameAt(c, i), FrameAt(c, i + 1), ended, Left(c))
      BY <1>1, <2>2 DEF HonFrames
    <3> QED
      BY <1>3, <3>1, <3>2 DEF HonFrame
  <2> QED
    BY <1>2, <2>1, <2>2, BlankOK DEF HonHere
<1>5. HonFrames'
  BY <1>1, <1>2, <1>3, <1>4, HonFramesMove
<1>6. ASSUME NEW f \in Fiber PROVE HonFiber(s2, f)'
  <2>1. CASE f = x
    <3>1. s2[f][1] = "on"
      BY <2>1, Spots
    <3> QED
      BY <3>1, HonFiberElse
  <2>2. CASE f # x
    <3>1. UNCHANGED program /\ ended \subseteq ended' /\ \A u \in Worker : s[f] = LeftBy(u) => pending'[u] = pending[u]
      BY <1>3
    <3>2. \A y \in Id : slots'[y].job = slots[y].job
      BY <1>3
    <3>3. s2[f] = s[f]
      BY <2>2
    <3> QED
      BY <1>2, <2>2, <3>1, <3>2, <3>3, HonFiberKept
  <2> QED
    BY <2>1, <2>2
<1> QED
  BY <1>5, <1>6, HonouredPartsNext

\* A job begins, and all else stays sound.
LEMMA LoopStarts ==
    ASSUME NEW w, NEW s, NEW h, NEW r, Sound(w, s, h, r), NEW v \in Worker, Idle(v), NothingPending(v),
           NEW x, NEW id \in Id, NEW g, Begins(v, x, id, g),
           NEW s2, \A f \in Fiber \ {x} : s2[f] = s[f], x \in Fiber => s2[x] = RunBy(v), Parked(s2)'
    PROVE  StepKeeps
<1>1. /\ Shapes /\ Stacks /\ SwitchOK /\ FramesOK /\ Nested /\ Stopped
      /\ Placed(w) /\ Named(h) /\ Handled(h) /\ Known(h) /\ JobsApart
      /\ Counted(w, h, r) /\ Depended(w, h)
  BY SoundParts
<1>2. /\ x \in Contexts /\ x # External /\ Swap(x, 1, Blank, g, Blank) /\ StartsBody(h, r, id, g)
      /\ QueueTypes' /\ HistoryMove(h) /\ begun' \in [Job -> Nat]
      /\ w[id][1] \in {"deque", "inject"}
  <2>1. x \in Contexts /\ x # External
    BY StartFacts
  <2>2. Swap(x, 1, Blank, g, Blank)
    BY StartFacts
  <2>3. StartsBody(h, r, id, g)
    BY StartFacts
  <2>4. QueueTypes' /\ HistoryMove(h)
    BY StartFacts
  <2>5. begun' \in [Job -> Nat]
    BY StartFacts
  <2>6. w[id][1] \in {"deque", "inject"}
    BY StartFacts
  <2> QED
    BY <2>1, <2>2, <2>3, <2>4, <2>5, <2>6
<1>3. /\ TryGetJob(v, v, id) /\ Begin(id) /\ free' = free \ {x} /\ on' \in [Thread -> Contexts]
      /\ UNCHANGED <<program, slots, alloc, live, resumable, next, pending, stopping, exited, handle, ended, remaining>>
  BY DEF Begins
<1>4. /\ g \in Frame /\ g # Blank /\ g.k = "body" /\ g.id = id /\ g.id # 0 /\ g.pc = 1
      /\ HolderOK(g) /\ Waking(g) = None /\ SubmitOK(g, handle) /\ KnowsAt(g, Blank)
      /\ FrameFuture(h, g) /\ FrameDeps(g) /\ Draining(g) = 0
      /\ \A S, left : HonFrame(g, Blank, S, left) /\ CountFrame(r, g, Blank, S)
      /\ \A j : ~Looping(g, j) /\ ~Asks(g, j)
  BY <1>2 DEF StartsBody
<1>5. Blank.k = "none"
  BY DEF Blank
<1>6. \A j : ~Looping(Blank, j)
  BY LoopingIs
<1>7. PICK w2 : w2 = [w EXCEPT ![id] = Held("body", x, 1)]
  OBVIOUS
<1>8. Placed(w2)'
  <2>1. 1 # 1 + 1
    OBVIOUS
  <2>2. \A y \in Id, k \in Holders : Holds(g, k, y) <=> k = "body" /\ y = id
    BY <1>4 DEF Holds
  <2>3. TakeMove(Blank, g, Blank, 1, 1, id)
    BY <1>4, <2>1, <2>2, BlankHolds DEF TakeMove
  <2>4. UNCHANGED <<program, slots, live, ended>>
    BY <1>3
  <2> QED
    BY <1>1, <1>2, <1>3, <1>7, <2>3, <2>4, PlacedTake
<1>9. Shapes'
  <2>1. stack' \in [Contexts -> Seq(Frame)]
    BY <1>2 DEF Swap, Stacked
  <2>2. free' \subseteq Fiber
    BY <1>1, <1>3 DEF Shapes
  <2> QED
    BY <1>1, <1>2, <1>3, <2>1, <2>2, ShapesNext DEF Shapes
<1>10. Named(h)'
  <2>1. FrameQuiet(h, Blank, g, Blank)
    BY <1>4, BlankHolds, BlankOK DEF FrameQuiet
  <2>2. UNCHANGED program /\ \A y \in Id : slots'[y].job = slots[y].job
    BY <1>3
  <2> QED
    BY <1>1, <1>2, <2>1, <2>2, NamedQuiet
<1>11. Handled(h)'
  <2>1. UNCHANGED <<program, alloc, handle>> /\ \A y \in Id : slots'[y].gen = slots[y].gen
    BY <1>3
  <2> QED
    BY <1>1, <1>2, <1>4, <2>1, BlankOK, HandledQuiet
<1>12. KnownHere(x, 1, g, Blank) /\ HandlesStay
  <2>1. UNCHANGED <<program, handle>> /\ (g.k = "submit" <=> Blank.k = "submit")
    BY <1>3, <1>4, <1>5
  <2> QED
    BY <1>1, <1>2, <1>4, <2>1, BlankOK, KnownSame
<1>13. Known(h)'
  <2>1. UNCHANGED program
    BY <1>3
  <2> QED
    BY <1>1, <1>2, <1>12, <2>1, KnownMove
<1>14. /\ \A y \in Id : w2[y] = IF y = id THEN Held("body", x, 1) ELSE w[y]
       /\ Held("body", x, 1)[1] = "body" /\ w[id] # Unused
  <2>1. Held("body", x, 1)[1] = "body" /\ Unused[1] = "unused"
    BY Tokens
  <2> QED
    BY <1>1, <1>2, <1>7, <2>1 DEF Placed
<1>15. Counted(w2, h, r)'
  <2>1. SlotsOn(w, w2, r, r, Blank, g)
    <3>1. \A y \in Id : w2[y] # Unused => w[y] # Unused
      BY <1>14
    <3>2. \A y \in Id : slots'[y].group = slots[y].group /\ slots'[y].job = slots[y].job
      BY <1>3
    <3> QED
      BY <1>5, <3>1, <3>2, SlotsOnSame
  <2>2. CountedHere(r, Blank, g, Blank)
    BY <1>4, <1>6, BlankOK DEF CountedHere
  <2>3. UNCHANGED <<program, remaining>> /\ ended \subseteq ended'
    BY <1>3
  <2> QED
    BY <1>1, <1>2, <2>1, <2>2, <2>3, CountedQuiet
<1>16. Depended(w2, h)'
  <2>1. \A y \in Id : Moved(w, w2, y)
    BY <1>2, <1>14 DEF Moved
  <2>2. UNCHANGED program /\ ended \subseteq ended' /\ \A y \in Id : slots'[y].job = slots[y].job
    BY <1>3
  <2> QED
    BY <1>1, <1>2, <1>4, <2>1, <2>2, BlankOK, DependedQuiet
<1>17. Stacks'
  <2>1. FramesOK'
    <3>1. BasedBy(x, g) /\ ~(Blank.k = "body" /\ Blank.id = 0)
      BY <1>2, <1>4, <1>5 DEF BasedBy
    <3> QED
      BY <1>1, <1>2, <1>4, <3>1, FramesMove
  <2>2. SwitchOK'
    BY SwitchStarts
  <2> QED
    BY <2>1, <2>2, StacksPartsNext
<1>18. Nested'
  <2>1. 1 - 1 \notin Pos /\ AboveOf(handle', g, Blank)
    BY BlankOK DEF Pos, AboveOf
  <2>2. UNCHANGED program
    BY <1>3
  <2> QED
    BY <1>1, <1>2, <1>12, <2>1, <2>2, NestedMove
<1>19. Stopped'
  <2>1. UNCHANGED <<program, stopping, exited>> /\ live' = live
    BY <1>3
  <2> QED
    BY <1>1, <1>2, <2>1, StoppedMove
<1>20. Honoured(s2)'
  BY HonStarts
<1>21. Sound(w2, s2, h, r)'
  BY <1>8, <1>9, <1>10, <1>11, <1>13, <1>15, <1>16, <1>17, <1>18, <1>19, <1>20 DEF Sound
<1> QED
  BY <1>21 DEF StepKeeps

\* A worker that takes a job begins it, in a fiber that is free or on its own stack.
LEMMA FiberBegins ==
    ASSUME NEW w, NEW s, NEW h, NEW r, Sound(w, s, h, r), NEW v \in Worker, StartInFiber(v)
    PROVE  /\ Idle(v) /\ NothingPending(v) /\ Fibers
           /\ \E x, id, g : x \in free /\ id \in Id /\ Begins(v, x, id, g) /\ x \in Fiber /\ on' = [on EXCEPT ![v] = x]
<1>1. Shapes /\ Idle(v) /\ NothingPending(v) /\ Fibers /\ free # {}
  BY SoundParts DEF StartInFiber, MayTake
<1>2. PICK x : x = CHOOSE y \in free : TRUE
  OBVIOUS
<1>3. x \in free
  BY <1>1, <1>2
<1>4. PICK id \in Id : /\ TryGetJob(v, v, id) /\ Begin(id) /\ free' = free \ {x}
                       /\ on' = [on EXCEPT ![v] = x] /\ stack' = [stack EXCEPT ![x] = <<Body(id, slots[id].job)>>]
  BY <1>2 DEF StartInFiber
<1>5. UNCHANGED <<program, slots, alloc, live, resumable, next, pending, stopping, exited, handle, ended, remaining>>
  BY DEF StartInFiber
<1>6. PICK g : g = Body(id, slots[id].job)
  OBVIOUS
<1>7. x \in Fiber /\ x \in Contexts /\ v \in Thread /\ on[v] = v /\ on \in [Thread -> Contexts]
  BY <1>1, <1>3, Sizes, IdleFacts DEF Shapes
<1>8. Begins(v, x, id, g)
  BY <1>1, <1>3, <1>4, <1>5, <1>6, <1>7 DEF Begins
<1> QED
  BY <1>1, <1>3, <1>4, <1>7, <1>8

LEMMA InlineBegins ==
    ASSUME NEW w, NEW s, NEW h, NEW r, Sound(w, s, h, r), NEW v \in Worker, StartInline(v)
    PROVE  /\ Idle(v) /\ NothingPending(v) /\ UNCHANGED on
           /\ \E id, g : id \in Id /\ Begins(v, v, id, g)
<1>1. Shapes /\ Idle(v) /\ NothingPending(v)
  BY SoundParts DEF StartInline, MayTake
<1>2. PICK id \in Id : TryGetJob(v, v, id) /\ Begin(id) /\ stack' = [stack EXCEPT ![v] = <<Body(id, slots[id].job)>>]
  BY DEF StartInline
<1>3. UNCHANGED <<program, slots, alloc, live, on, free, resumable, next, pending, stopping, exited, handle, ended, remaining>>
  BY DEF StartInline, fibers
<1>4. PICK g : g = Body(id, slots[id].job)
  OBVIOUS
<1>5. v \notin Fiber /\ v \in Thread /\ on[v] = v /\ on \in [Thread -> Contexts] /\ free \subseteq Fiber
  BY <1>1, IdleFacts DEF Shapes
<1>6. Begins(v, v, id, g)
  <2>1. free' = free \ {v}
    BY <1>3, <1>5
  <2>2. on' \in [Thread -> Contexts] /\ \A u \in Thread : on'[u] = IF u = v THEN v ELSE on[u]
    BY <1>3, <1>5
  <2> QED
    BY <1>2, <1>3, <1>4, <2>1, <2>2 DEF Begins
<1> QED
  BY <1>1, <1>3, <1>6

\* A worker starts a job in a fiber (StartInFiber).
LEMMA StepStartInFiber ==
    ASSUME NEW w, NEW s, NEW h, NEW r, Sound(w, s, h, r), NEW v \in Worker, StartInFiber(v)
    PROVE  StepKeeps
<1>1. Shapes /\ Parked(s) /\ Idle(v) /\ NothingPending(v) /\ Fibers
  BY SoundParts, FiberBegins
<1>2. PICK x, id, g : x \in free /\ id \in Id /\ Begins(v, x, id, g) /\ x \in Fiber /\ on' = [on EXCEPT ![v] = x]
  BY FiberBegins
<1>3. x \in Contexts /\ v \in Thread /\ on[v] = v /\ on \in [Thread -> Contexts]
  BY <1>1, <1>2, Sizes, IdleFacts DEF Shapes
<1>4. Swap(x, 1, Blank, g, Blank) /\ g # Blank /\ Waking(g) = None
  <2>1. Swap(x, 1, Blank, g, Blank) /\ StartsBody(h, r, id, g)
    BY <1>1, <1>2, StartFacts
  <2> QED
    BY <2>1 DEF StartsBody
<1>5. free' = free \ {x} /\ UNCHANGED <<program, slots, resumable, next, pending>>
  BY <1>2 DEF Begins
<1>6. PICK s2 : MoveTo(s, s2, x, RunBy(v))
  BY DEF MoveTo
<1>7. Parked(s2)'
  BY <1>1, <1>2, <1>3, <1>4, <1>5, <1>6, BlankHolds, ParkedStart
<1>8. \A f \in Fiber : s2[f] = IF f = x THEN RunBy(v) ELSE s[f]
  BY <1>1, <1>2, <1>6 DEF MoveTo, Parked
<1> QED
  BY <1>1, <1>2, <1>7, <1>8, LoopStarts

\* A worker starts a job on its own stack (StartInline).
LEMMA StepStartInline ==
    ASSUME NEW w, NEW s, NEW h, NEW r, Sound(w, s, h, r), NEW v \in Worker, StartInline(v)
    PROVE  StepKeeps
<1>1. Shapes /\ Parked(s) /\ Idle(v) /\ NothingPending(v) /\ UNCHANGED on
  BY SoundParts, InlineBegins
<1>2. PICK id, g : id \in Id /\ Begins(v, v, id, g)
  BY InlineBegins
<1>3. v \notin Fiber /\ v \in Thread /\ on[v] = v /\ free \subseteq Fiber
  BY <1>1, IdleFacts DEF Shapes
<1>4. free' = free /\ UNCHANGED <<program, slots, resumable, next, pending>>
  BY <1>2, <1>3 DEF Begins
<1>5. Swap(v, 1, Blank, g, Blank) /\ Waking(g) = None
  <2>1. Swap(v, 1, Blank, g, Blank) /\ StartsBody(h, r, id, g)
    BY <1>1, <1>2, StartFacts
  <2> QED
    BY <2>1 DEF StartsBody
<1>6. Parked(s)'
  <2>1. \A y \in Id : slots'[y].waiters = slots[y].waiters \/ NobodyWaits(y)
    BY <1>4
  <2> QED
    BY <1>1, <1>3, <1>4, <1>5, <2>1, BlankHolds, ParkedQuiet
<1>7. v \in Fiber => s[v] = RunBy(v)
  BY <1>3
<1> QED
  BY <1>1, <1>2, <1>6, <1>7, LoopStarts

-----------------------------------------------------------------------------
\* A stuttering step keeps the invariant.
LEMMA Stutter ==
    ASSUME NEW w, NEW s, NEW h, NEW r, Sound(w, s, h, r), UNCHANGED vars
    PROVE  Sound(w, s, h, r)'
<1>1. /\ Shapes /\ Stacks /\ Nested /\ Stopped
      /\ Placed(w) /\ Parked(s) /\ Named(h) /\ Handled(h) /\ Known(h)
      /\ Counted(w, h, r) /\ Depended(w, h) /\ Honoured(s)
  BY DEF Sound
<1>2. UNCHANGED <<program, slots, alloc, live, deque, inject, resumable, free, next, pending, on, stack, stopping,
                  exited, handle, remaining, begun, ended>>
  BY DEF vars, queues, fibers
<1>3. \A c, i : FrameAt(c, i)' = FrameAt(c, i)
  BY <1>2, Still
<1> USE <1>2 DEF Job, Task, Fibers, Pos, CallAt, NothingPending, Busy
<1>4. Shapes'
  BY <1>1 DEF Shapes, SlotShape, HandleShape, PendingShape, Frame, BodyFrame, SubmitFrame, ChunkFrame, HelpFrame, FinishFrame
<1>5. Stacks'
  BY <1>1, <1>3 DEF Stacks, Based
<1>6. Nested'
  <2> SUFFICES ASSUME NEW c \in Contexts, NEW i \in Pos
               PROVE  Above(FrameAt(c, i), FrameAt(c, i + 1))'
    BY DEF Nested, Contexts, Thread
  <2>1. Above(FrameAt(c, i), FrameAt(c, i + 1))
    BY <1>1 DEF Nested
  <2>2. FrameAt(c, i)' = FrameAt(c, i) /\ FrameAt(c, i + 1)' = FrameAt(c, i + 1)
    BY <1>3
  <2>3. InCall(FrameAt(c, i).job, FrameAt(c, i).pc - 1, FrameAt(c, i + 1))
            => InCall(FrameAt(c, i).job, FrameAt(c, i).pc - 1, FrameAt(c, i + 1))'
    BY <2>2 DEF InCall
  <2> QED
    BY <2>1, <2>2, <2>3 DEF Above
<1>7. Stopped'
  BY <1>1, <1>3 DEF Stopped
<1>8. Placed(w)'
  BY <1>1, PlacedStill
<1>9. Parked(s)'
  BY <1>1, <1>3 DEF Parked, Waiters, Waking
<1>10. Named(h)'
  BY <1>1, <1>3 DEF Named, Unasked, Asks
<1>11. Handled(h)'
  BY <1>1, <1>3 DEF Handled
<1>12. Known(h)'
  BY <1>1, <1>3 DEF Known, HasHandle
<1>13. Counted(w, h, r)'
  <2>1. Counts(r) /\ CountFrames(r) /\ CountSlots(w, r) /\ Loops(r) /\ \A k \in Task : h[k] = New => r[k] = None
    BY <1>1, CountedParts
  <2>2. Counts(r)'
    BY <2>1 DEF Counts, ChunksOf
  <2>3. CountFrames(r)'
    BY <1>3, <2>1 DEF CountFrames, CountFrame, Looping
  <2>4. CountSlots(w, r)'
    BY <1>3, <2>1 DEF CountSlots, Holds
  <2>5. Loops(r)'
    BY <1>3, <2>1 DEF Loops, Looping
  <2>6. \A k \in (Task)' : h[k] = New => r[k] = None
    BY <2>1
  <2> QED
    BY <2>2, <2>3, <2>4, <2>5, <2>6, CountedPartsNext
<1>14. Depended(w, h)'
  BY <1>1, <1>3 DEF Depended, Depends
<1>15. Honoured(s)'
  <2>1. HonFrames /\ \A f \in Fiber : HonFiber(s, f)
    BY <1>1, HonouredParts
  <2>2. HonFrames'
    BY <1>3, <2>1 DEF HonFrames, HonFrame, FulfilledIn, Left
  <2>3. \A f \in Fiber : HonFiber(s, f)'
    BY <1>3, <2>1 DEF HonFiber, Awaits
  <2> QED
    BY <2>2, <2>3, HonouredPartsNext
<1> QED
  BY <1>4, <1>5, <1>6, <1>7, <1>8, <1>9, <1>10, <1>11, <1>12, <1>13, <1>14, <1>15 DEF Sound

\* Every step of a call keeps the invariant, as long as the ring is ahead of the jobs
\* in flight and only owners pop.
LEMMA RunKeeps ==
    ASSUME NEW w, NEW s, NEW h, NEW r, Sound(w, s, h, r), NEW t \in Thread, Run(t), StaysAhead, OwnerOnly
    PROVE  StepKeeps
<1>1. CASE DoSubmit(t) \/ AllocRoom(t) \/ AllocHelp(t)
  BY <1>1, StepDoSubmit, StepAllocRoom, StepAllocHelp
<1>2. CASE AllocTake(t)
  <2>1. alloc \in Nat /\ alloc' = alloc + 1
    BY <1>2, SoundParts DEF AllocTake, Shapes, Pos
  <2>2. RingAhead
    BY <2>1 DEF StaysAhead
  <2> QED
    BY <1>2, <2>2, StepAllocTake
<1>3. CASE SubmitCheck(t) \/ SubmitLink(t) \/ SubmitReady(t)
  BY <1>3, StepSubmitCheck, StepSubmitLink, StepSubmitReady
<1>4. CASE HelpTake(t)
  <2>1. Top(t).self = t
    BY <1>4 DEF HelpTake, OwnerOnly
  <2> QED
    BY <1>4, <2>1, StepHelpTake
<1>5. CASE HelpCheck(t) \/ HelpYield(t)
  BY <1>5, StepHelpCheck, StepHelpYield
<1>6. CASE WaitOver(t) \/ WaitPark(t) \/ WaitHelp(t)
  BY <1>6, StepWaitOver, StepWaitPark, StepWaitHelp
<1>7. CASE DoParFor(t) \/ ParForChunk(t) \/ ParForHelp(t)
  BY <1>7, StepDoParFor, StepParForChunk, StepParForHelp
<1>8. CASE DoStop(t) \/ Joined(t) \/ BodyEnds(t)
  BY <1>8, StepDoStop, StepJoined, StepBodyEnds
<1>9. CASE FinishClose(t) \/ FinishEnqueue(t) \/ FinishShut(t)
  BY <1>9, StepFinishClose, StepFinishEnqueue, StepFinishShut
<1>10. CASE FinishResume(t) \/ FinishGroup(t) \/ FinishLive(t)
  BY <1>10, StepFinishResume, StepFinishGroup, StepFinishLive
<1> QED
  BY <1>1, <1>2, <1>3, <1>4, <1>5, <1>6, <1>7, <1>8, <1>9, <1>10 DEF Run, Step

\* Every step of a worker's loop keeps the invariant.
LEMMA LoopKeeps ==
    ASSUME NEW w, NEW s, NEW h, NEW r, Sound(w, s, h, r), NEW v \in Worker, Loop(v)
    PROVE  StepKeeps
<1>1. CASE Recycle(v)
  BY <1>1, StepRecycle
<1>2. CASE Park(v)
  BY <1>2, StepPark
<1>3. CASE Resume(v)
  BY <1>3, StepResume
<1>4. CASE StartInFiber(v)
  BY <1>4, StepStartInFiber
<1>5. CASE StartInline(v)
  BY <1>5, StepStartInline
<1>6. CASE WorkerExit(v)
  BY <1>6, StepWorkerExit
<1> QED
  BY <1>1, <1>2, <1>3, <1>4, <1>5, <1>6 DEF Loop

\* The invariant is inductive, under the same two conditions.
LEMMA NextKeeps ==
    ASSUME SchedInv, [Next]_vars, StaysAhead, OwnerOnly
    PROVE  SchedInv'
<1>1. PICK w, s, h, r : Sound(w, s, h, r)
  BY DEF SchedInv, Sound
<1>2. StepKeeps
  <2>1. CASE \E t \in Thread : Run(t)
    BY <1>1, <2>1, RunKeeps
  <2>2. CASE \E v \in Worker : Loop(v)
    BY <1>1, <2>2, LoopKeeps
  <2>3. CASE UNCHANGED vars
    BY <1>1, <2>3, Stutter DEF StepKeeps
  <2> QED
    BY <2>1, <2>2, <2>3 DEF Next
<1>3. PICK w2, s2, h2, r2 : Sound(w2, s2, h2, r2)'
  BY <1>2 DEF StepKeeps
<1> QED
  BY <1>3 DEF SchedInv, Sound

-----------------------------------------------------------------------------
\* Only owners pop.

\* A thread runs a stack of its own or a fiber that no other runs.
LEMMA OnApart ==
    ASSUME NEW w, NEW s, NEW h, NEW r, Sound(w, s, h, r), NEW t \in Thread, NEW u \in Thread, on[t] = on[u]
    PROVE  t = u
<1>1. SwitchOK /\ Pools(s)
  BY SoundParts
<1>2. /\ on[External] = External /\ \A v \in Worker : on[v] = v \/ on[v] \in Fiber
  BY <1>1 DEF SwitchOK
<1>3. CASE on[t] \in Fiber
  <2>1. t \in Worker /\ u \in Worker
    BY <1>2, <1>3, Sizes
  <2>2. s[on[t]] = RunBy(t) /\ s[on[t]] = RunBy(u)
    BY <1>1, <1>3, <2>1 DEF Pools
  <2> QED
    BY <2>2, Spots
<1>4. CASE on[t] \notin Fiber
  BY <1>2, <1>4, Sizes
<1> QED
  BY <1>3, <1>4

\* While every call helps on its own stack, only owners pop.
LEMMA OwnersPop ==
    ASSUME NEW w, NEW s, NEW h, NEW r, Sound(w, s, h, r), HelpsOwn
    PROVE  OwnerOnly
<1> SUFFICES ASSUME NEW t \in Thread, In(t, "help") PROVE Top(t).self = t
  BY DEF OwnerOnly
<1>1. Shapes
  BY SoundParts
<1>2. PICK d, n, e : OnTop(t, d, n, e) /\ e.k = "help"
  BY <1>1, HasTop
<1>3. on[t] = d /\ d \in Contexts /\ n \in Pos /\ FrameAt(d, n) = e /\ Top(t) = e /\ e \in Frame
  BY <1>2 DEF OnTop
<1>4. on[e.self] = d
  BY <1>2, <1>3 DEF HelpsOwn, Stays
<1>5. e.self \in Thread
  BY <1>2, <1>3, FrameKinds DEF HelpFrame
<1> QED
  BY <1>3, <1>4, <1>5, OnApart

\* The frames that a step puts on a stack are frames.
LEMMA NewFrames ==
    ASSUME Shapes, NEW t \in Thread, NEW kind, In(t, kind), stack' \in [Contexts -> Seq(Frame)], NEW f, NEW g
    PROVE  /\ Replace(t, f) => f \in Frame
           /\ Call(t, f, g) => f \in Frame /\ g \in Frame
<1>1. PICK d, n, e : OnTop(t, d, n, e)
  BY HasTop
<1>2. d \in Contexts /\ n \in Pos /\ on[t] = d
  BY <1>1 DEF OnTop
<1>3. /\ Front(stack[d]) \in Seq(Frame) /\ Len(Front(stack[d])) = n - 1 /\ Frames(t) = stack[d]
  BY <1>1, <1>2, TopFront
<1>4. PICK q : q = Front(stack[d])
  OBVIOUS
<1>5. stack \in [Contexts -> Seq(Frame)] /\ stack'[d] \in Seq(Frame) /\ n \in Nat
  BY <1>2 DEF Shapes, Pos
<1>6. PICK S : S = Frame \cup {f, g}
  OBVIOUS
<1>7. q \in Seq(S) /\ f \in S /\ g \in S /\ Len(q) = n - 1
  <2>1. Frame \subseteq S
    BY <1>6
  <2> QED
    BY <1>3, <1>4, <1>6, <2>1, SeqMonotonic
<1>8. PICK a : a = Append(q, f)
  OBVIOUS
<1>9. a \in Seq(S) /\ Len(a) = n /\ a[n] = f
  BY <1>5, <1>7, <1>8
<1>10. ASSUME Replace(t, f) PROVE f \in Frame
  <2>1. stack'[d] = a
    BY <1>2, <1>3, <1>4, <1>5, <1>8, <1>10 DEF Replace, Becomes
  <2>2. n \in DOMAIN stack'[d]
    BY <1>5, <1>9, <1>2, <2>1 DEF Pos
  <2> QED
    BY <1>5, <1>9, <2>1, <2>2
<1>11. ASSUME Call(t, f, g) PROVE f \in Frame /\ g \in Frame
  <2>1. PICK b : b = a \o <<g>>
    OBVIOUS
  <2>2. stack'[d] = b
    BY <1>2, <1>3, <1>4, <1>5, <1>8, <1>11, <2>1 DEF Call, Becomes
  <2>3. b \in Seq(S) /\ Len(b) = n + 1 /\ b[n] = f /\ b[n + 1] = g
    <3>1. n \in 1..n /\ <<g>> \in Seq(S) /\ Len(<<g>>) = 1 /\ <<g>>[1] = g
      BY <1>2, <1>7 DEF Pos
    <3> QED
      BY <1>5, <1>7, <1>9, <2>1, <3>1
  <2>4. n \in DOMAIN stack'[d] /\ n + 1 \in DOMAIN stack'[d]
    BY <1>5, <1>2, <2>2, <2>3 DEF Pos
  <2> QED
    BY <1>5, <2>2, <2>3, <2>4
<1> QED
  BY <1>10, <1>11

\* A call goes on: its own frame and the one it may put on it help on this stack.
LEMMA OwnTurn ==
    ASSUME Shapes, HelpsOwn, stack' \in [Contexts -> Seq(Frame)], UNCHANGED <<program, on>>,
           NEW t \in Thread, NEW kind, In(t, kind), NEW f, NEW g,
           \/ Return(t)
           \/ Replace(t, f) /\ Stays(on[t], f)
           \/ Call(t, f, g) /\ Stays(on[t], f) /\ Stays(on[t], g)
    PROVE  HelpsOwn'
<1>1. PICK d, n, e : OnTop(t, d, n, e)
  BY HasTop
<1>2. on[t] = d
  BY <1>1 DEF OnTop
<1>3. \E f2, g2 : Stacked(d, n, f2, g2) /\ Stays(d, f2) /\ Stays(d, g2)
  <2>1. Stays(d, Blank)
    BY DEF Stays, Blank
  <2>2. CASE Return(t)
    BY <1>1, <2>1, <2>2, Returns
  <2>3. CASE Replace(t, f) /\ Stays(on[t], f)
    BY <1>1, <1>2, <2>1, <2>3, NewFrames, Replaces
  <2>4. CASE Call(t, f, g) /\ Stays(on[t], f) /\ Stays(on[t], g)
    BY <1>1, <1>2, <2>4, NewFrames, Calls1
  <2> QED
    BY <2>2, <2>3, <2>4
<1>4. \A c \in Contexts, i \in Pos : Stays(c, FrameAt(c, i)')
  BY <1>3 DEF Stacked, HelpsOwn
<1>5. \A c, x : Stays(c, x) => Stays(c, x)'
  BY DEF Stays
<1> QED
  <2>1. Unmixed(program)'
    BY DEF HelpsOwn
  <2>2. \A c \in Contexts, i \in Pos : Stays(c, FrameAt(c, i))'
    BY <1>4 DEF Stays
  <2> QED
    BY <2>1, <2>2 DEF HelpsOwn

\* A thread leaves its stack, in which no call helps, or starts a job on it.
LEMMA OwnLeaves ==
    ASSUME NEW w, NEW s, NEW h, NEW r, Sound(w, s, h, r), HelpsOwn, UNCHANGED program, NEW t \in Thread, NEW d, d = on[t],
           \A u \in Thread : u # t => on'[u] = on[u],
           \A i \in Pos : FrameAt(d, i)'.k \notin {"help", "pfor"},
           \A c \in Contexts, i \in Pos : c # d =>
               FrameAt(c, i)' = FrameAt(c, i) \/ FrameAt(c, i)'.k \notin {"help", "pfor"}
    PROVE  HelpsOwn'
<1>1. ASSUME NEW c \in Contexts, NEW i \in Pos PROVE Stays(c, FrameAt(c, i))'
  <2> PICK x : x = FrameAt(c, i)'
    OBVIOUS
  <2>1. CASE x.k \notin {"help", "pfor"}
    BY <2>1 DEF Stays
  <2>2. CASE c # d /\ x = FrameAt(c, i)
    <3>1. Stays(c, x)
      BY <2>2 DEF HelpsOwn
    <3>2. x.k = "help" => on'[x.self] = c
      <4> SUFFICES ASSUME x.k = "help" PROVE on'[x.self] = c
        OBVIOUS
      <4>1. x \in Frame
        <5>1. x = Blank \/ x \in Frame
          BY <2>2, FrameAtIn, SoundParts
        <5> QED
          BY <5>1 DEF Blank
      <4>2. x.self \in Thread /\ on[x.self] = c
        BY <3>1, <4>1, FrameKinds DEF Stays, HelpFrame
      <4> QED
        BY <2>2, <4>2
    <3>3. c \in Fiber /\ x.k \in {"help", "pfor"} => Makes(program, "pfor")'
      BY <3>1 DEF Stays
    <3> QED
      BY <3>2, <3>3 DEF Stays
  <2>3. x.k \notin {"help", "pfor"} \/ (c # d /\ x = FrameAt(c, i))
    OBVIOUS
  <2> QED
    BY <2>1, <2>2, <2>3
<1>2. Unmixed(program)'
  BY DEF HelpsOwn
<1> QED
  BY <1>1, <1>2 DEF HelpsOwn

\* No thread changes stacks and no stack changes.
LEMMA OwnStill ==
    ASSUME HelpsOwn, UNCHANGED <<program, on, stack>>
    PROVE  HelpsOwn'
<1>1. \A c, i : FrameAt(c, i)' = FrameAt(c, i)
  BY Still
<1>2. \A c, x : Stays(c, x)' <=> Stays(c, x)
  BY DEF Stays
<1> QED
  BY <1>1, <1>2 DEF HelpsOwn

\* What is on top stays there in another phase, and other calls may come.
LEMMA OwnTop ==
    ASSUME Shapes, HelpsOwn, NEW t \in Thread, NEW kind, In(t, kind)
    PROVE  /\ Stays(on[t], Top(t)) /\ Top(t) \in Frame /\ Top(t).k = kind /\ on[t] \in Contexts
           /\ kind = "help" => \A p : Stays(on[t], [Top(t) EXCEPT !.pc = p])
           /\ kind \in {"submit", "finish"} => \A p : Stays(on[t], [Top(t) EXCEPT !.pc = p])
           /\ \A x : x.k \notin {"help", "pfor"} => Stays(on[t], x)
<1>1. PICK d, n, e : OnTop(t, d, n, e) /\ e.k = kind
  BY HasTop
<1>2. on[t] = d /\ d \in Contexts /\ n \in Pos /\ FrameAt(d, n) = e /\ Top(t) = e /\ e \in Frame
  BY <1>1 DEF OnTop
<1>3. Stays(d, e)
  BY <1>2 DEF HelpsOwn
<1>4. kind = "help" => \A p : Stays(d, [e EXCEPT !.pc = p])
  <2> SUFFICES ASSUME kind = "help", NEW p PROVE Stays(d, [e EXCEPT !.pc = p])
    OBVIOUS
  <2>1. e \in HelpFrame
    BY <1>1, <1>2, FrameKinds
  <2>2. [e EXCEPT !.pc = p].k = e.k /\ [e EXCEPT !.pc = p].self = e.self
    BY <2>1 DEF HelpFrame
  <2> QED
    BY <1>3, <2>2 DEF Stays
<1>5. kind \in {"submit", "finish"} => \A p : Stays(d, [e EXCEPT !.pc = p])
  <2> SUFFICES ASSUME kind \in {"submit", "finish"}, NEW p PROVE Stays(d, [e EXCEPT !.pc = p])
    OBVIOUS
  <2>1. e \in SubmitFrame \cup FinishFrame
    BY <1>1, <1>2, FrameKinds
  <2>2. [e EXCEPT !.pc = p].k = e.k
    BY <2>1 DEF SubmitFrame, FinishFrame
  <2> QED
    BY <1>1, <2>2 DEF Stays
<1>6. \A x : x.k \notin {"help", "pfor"} => Stays(d, x)
  BY DEF Stays
<1> QED
  BY <1>1, <1>2, <1>3, <1>4, <1>5, <1>6

\* On a fiber runs a job, not main: what it calls is what jobs call.
LEMMA FiberMakes ==
    ASSUME NEW w, NEW s, NEW h, NEW r, Sound(w, s, h, r), NEW t \in Thread,
           NEW d, NEW n, NEW e, OnTop(t, d, n, e), NEW f, NEW c, CallsNow(e, f, c), d \in Fiber
    PROVE  Makes(program, c.op)
<1>1. Shapes /\ Stacks /\ Placed(w)
  BY SoundParts
<1>2. /\ on[t] = d /\ d \in Contexts /\ n \in Pos /\ FrameAt(d, n) = e /\ e \in Frame
      /\ e.k = "body" /\ e \in BodyFrame /\ HolderOK(e) /\ d # External
  BY TopFacts, Sizes DEF OnTop, CallsNow, BodyFrame
<1>3. e.id # 0
  BY <1>2, <1>1 DEF Stacks
<1>4. e.id \in Id
  BY <1>2, <1>3 DEF BodyFrame
<1>5. e.job = slots[e.id].job
  BY <1>2, <1>3 DEF HolderOK
<1>6. slots[e.id].job \in Task
  <2>1. w[e.id] = Held("body", d, n)
    BY <1>1, <1>2, <1>4 DEF Placed, Carried, Holds, Holders
  <2>2. w[e.id][1] = "body"
    BY <2>1, Tokens
  <2> QED
    BY <1>1, <1>4, <2>2 DEF Placed, Alive, SlotOK
<1>7. e.job \in Job \ {"main"} /\ e.pc \in DOMAIN program.calls[e.job] /\ program.calls[e.job][e.pc] = c
  BY <1>5, <1>6 DEF Task, CallsNow, CallAt
<1> QED
  BY <1>7 DEF Makes, Job

\* A step of a call that stays on its stack.
LEMMA RunOwn ==
    ASSUME NEW w, NEW s, NEW h, NEW r, Sound(w, s, h, r), HelpsOwn, NEW t \in Thread, Run(t),
           stack' \in [Contexts -> Seq(Frame)], UNCHANGED on
    PROVE  HelpsOwn'
<1>1. /\ Shapes /\ SwitchOK /\ stack' \in [Contexts -> Seq(Frame)] /\ on' = on
  BY SoundParts DEF Shapes
<1>2. ASSUME AllocRoom(t) \/ SubmitCheck(t) \/ SubmitLink(t) \/ SubmitReady(t) \/ AllocTake(t) PROVE HelpsOwn'
  <2>1. In(t, "submit") /\ program' = program
    BY <1>2 DEF AllocRoom, SubmitCheck, SubmitLink, SubmitReady, AllocTake
  <2>2. PICK e : e = Top(t)
    OBVIOUS
  <2>3. e \in SubmitFrame /\ \A p : Stays(on[t], [e EXCEPT !.pc = p])
    BY <1>1, <2>1, <2>2, OwnTop, FrameKinds
  <2>4. \A i, p : Stays(on[t], [e EXCEPT !.id = i, !.pc = p])
    BY <2>3 DEF Stays, SubmitFrame
  <2>5. Return(t) \/ \E f : Replace(t, f) /\ Stays(on[t], f)
    <3>1. CASE AllocRoom(t) \/ SubmitCheck(t)
      BY <2>2, <2>3, <3>1 DEF AllocRoom, SubmitCheck
    <3>2. CASE SubmitLink(t) \/ SubmitReady(t)
      BY <2>2, <2>3, <3>2 DEF SubmitLink, SubmitReady, Linked
    <3>3. CASE AllocTake(t)
      BY <2>2, <2>4, <3>3 DEF AllocTake
    <3> QED
      BY <1>2, <3>1, <3>2, <3>3
  <2> QED
    BY <1>1, <2>1, <2>5, OwnTurn
<1>3. ASSUME AllocHelp(t) PROVE HelpsOwn'
  <2>1. In(t, "submit") /\ program' = program
    BY <1>3 DEF AllocHelp
  <2>2. PICK id \in Id : Call(t, Top(t), Body(id, slots[id].job))
    BY <1>3 DEF AllocHelp
  <2>3. Stays(on[t], Top(t)) /\ Stays(on[t], Body(id, slots[id].job))
    BY <1>1, <2>1, OwnTop DEF Body
  <2> QED
    BY <1>1, <2>1, <2>2, <2>3, OwnTurn
<1>4. ASSUME HelpCheck(t) \/ HelpTake(t) \/ HelpYield(t) PROVE HelpsOwn'
  <2>1. In(t, "help") /\ program' = program
    BY <1>4 DEF HelpCheck, HelpTake, HelpYield
  <2>2. \A p : Stays(on[t], [Top(t) EXCEPT !.pc = p])
    BY <1>1, <2>1, OwnTop
  <2>3. \A id : Stays(on[t], Body(id, slots[id].job))
    BY DEF Stays, Body
  <2>4. Return(t) \/ \E f, g : \/ Replace(t, f) /\ Stays(on[t], f)
                               \/ Call(t, f, g) /\ Stays(on[t], f) /\ Stays(on[t], g)
    <3>1. CASE HelpCheck(t) \/ HelpYield(t)
      BY <2>2, <3>1 DEF HelpCheck, HelpYield
    <3>2. CASE HelpTake(t)
      BY <2>2, <2>3, <3>2 DEF HelpTake
    <3> QED
      BY <1>4, <3>1, <3>2
  <2> QED
    BY <1>1, <2>1, <2>4, OwnTurn
<1>5. ASSUME NEW op, Calling(t, op), program' = program, NEW g,
             Replace(t, Advanced(t)) \/ (Call(t, Advanced(t), g) /\ Stays(on[t], g))
      PROVE  HelpsOwn'
  <2>1. PICK d, n, e, f, c : OnTop(t, d, n, e) /\ CallsNow(e, f, c) /\ Advanced(t) = f
    BY <1>5, CallIs
  <2>2. Stays(on[t], Advanced(t))
    BY <2>1 DEF CallsNow, BodyFrame, Stays
  <2>3. In(t, "body")
    BY <1>5 DEF Calling
  <2> QED
    BY <1>1, <1>5, <2>2, <2>3, OwnTurn
<1>6. ASSUME DoSubmit(t) \/ DoStop(t) \/ WaitOver(t) PROVE HelpsOwn'
  <2>1. CASE DoSubmit(t)
    <3>1. PICK g : g = Submission(Argument(t).job, Argument(t).dep, None)
      OBVIOUS
    <3>2. Stays(on[t], g) /\ Call(t, Advanced(t), g) /\ Calling(t, "submit") /\ program' = program
      BY <2>1, <3>1 DEF DoSubmit, Stays, Submission
    <3> QED
      BY <3>2, <1>5
  <2>2. CASE DoStop(t)
    <3>1. Stays(on[t], Join) /\ Call(t, Advanced(t), Join) /\ Calling(t, "stop") /\ program' = program
      BY <2>2 DEF DoStop, Stays, Join
    <3> QED
      BY <3>1, <1>5
  <2>3. CASE WaitOver(t)
    BY <2>3, <1>5 DEF WaitOver
  <2> QED
    BY <1>6, <2>1, <2>2, <2>3
<1>7. ASSUME WaitHelp(t) PROVE HelpsOwn'
  <2>1. PICK d, n, e, f, c : OnTop(t, d, n, e) /\ CallsNow(e, f, c)
    BY <1>7, CallIs DEF WaitHelp
  <2>2. on[t] \notin Fiber
    <3>1. ~Fibers => \A v \in Worker : on[v] = v
      BY <1>1 DEF SwitchOK
    <3>2. on[External] = External
      BY <1>1 DEF SwitchOK
    <3> QED
      BY <1>7, <3>1, <3>2, Sizes DEF WaitHelp
  <2>3. PICK g : g = Help(SelfOf(t), handle[Argument(t).job])
    OBVIOUS
  <2>4. g.k = "help" /\ g.self = t
    BY <2>3 DEF Help, SelfOf
  <2>5. Stays(on[t], g)
    BY <2>2, <2>4 DEF Stays
  <2>6. Calling(t, "wait") /\ Call(t, Advanced(t), g) /\ program' = program
    BY <1>7, <2>3 DEF WaitHelp
  <2> QED
    BY <1>5, <2>5, <2>6
<1>8. ASSUME DoParFor(t) PROVE HelpsOwn'
  <2>1. PICK d, n, e, f, c : OnTop(t, d, n, e) /\ CallsNow(e, f, c) /\ c.op = "pfor"
    BY <1>8, CallIs DEF DoParFor
  <2>2. d \in Fiber => Makes(program, "pfor")
    BY <2>1, FiberMakes
  <2>3. PICK g : g = Chunks(Top(t).job, Argument(t).chunks)
    OBVIOUS
  <2>4. g.k = "pfor" /\ on[t] = d
    BY <2>1, <2>3 DEF Chunks, OnTop
  <2>5. Stays(on[t], g)
    BY <2>2, <2>4 DEF Stays
  <2>6. Calling(t, "pfor") /\ Call(t, Advanced(t), g) /\ program' = program
    BY <1>8, <2>3 DEF DoParFor
  <2> QED
    BY <1>5, <2>5, <2>6
<1>9. ASSUME ParForChunk(t) \/ ParForHelp(t) PROVE HelpsOwn'
  <2>1. In(t, "pfor") /\ program' = program
    BY <1>9 DEF ParForChunk, ParForHelp
  <2>2. Stays(on[t], Top(t)) /\ Top(t) \in ChunkFrame /\ Top(t).k = "pfor"
    BY <1>1, <2>1, OwnTop, FrameKinds
  <2>3. on[t] \in Fiber => Makes(program, "pfor")
    BY <2>2 DEF Stays
  <2>4. CASE ParForChunk(t)
    <3>1. PICK f, g : /\ f = [Top(t) EXCEPT !.list = Tail(@)]
                      /\ g = Submission(Head(Top(t).list), None, Top(t).job)
      OBVIOUS
    <3>2. f.k = "pfor" /\ g.k = "submit"
      BY <2>2, <3>1 DEF ChunkFrame, Submission
    <3>3. Stays(on[t], f) /\ Stays(on[t], g) /\ Call(t, f, g)
      BY <2>3, <2>4, <3>1, <3>2 DEF Stays, ParForChunk
    <3> QED
      BY <1>1, <2>1, <3>3, OwnTurn
  <2>5. CASE ParForHelp(t)
    <3>1. PICK f : f = Help(SelfOf(t), [group |-> Top(t).job])
      OBVIOUS
    <3>2. f.k = "help" /\ f.self = t
      BY <3>1 DEF Help, SelfOf
    <3>3. Stays(on[t], f) /\ Replace(t, f)
      BY <2>3, <2>5, <3>1, <3>2 DEF Stays, ParForHelp
    <3> QED
      BY <1>1, <2>1, <3>3, OwnTurn
  <2> QED
    BY <1>9, <2>4, <2>5
<1>10. ASSUME Joined(t) \/ BodyEnds(t) PROVE HelpsOwn'
  <2>1. PICK kind : In(t, kind)
    BY <1>10 DEF Joined, BodyEnds
  <2>2. program' = program /\ (Return(t) \/ \E id : Replace(t, Finish(id)))
    BY <1>10 DEF Joined, BodyEnds
  <2>3. \A id : Stays(on[t], Finish(id))
    BY DEF Stays, Finish
  <2> QED
    BY <1>1, <2>1, <2>2, <2>3, OwnTurn
<1>11. ASSUME FinishClose(t) \/ FinishEnqueue(t) \/ FinishShut(t) \/ FinishResume(t) \/ FinishGroup(t) \/ FinishLive(t)
       PROVE  HelpsOwn'
  <2>1. In(t, "finish") /\ program' = program
    BY <1>11 DEF FinishClose, FinishEnqueue, FinishShut, FinishResume, FinishGroup, FinishLive, Finishing
  <2>2. PICK e : e = Top(t)
    OBVIOUS
  <2>3. e \in FinishFrame
    BY <1>1, <2>1, <2>2, OwnTop, FrameKinds
  <2>4. /\ \A x, p : Stays(on[t], [e EXCEPT !.cur = x, !.pc = p])
        /\ \A p : Stays(on[t], [e EXCEPT !.pc = p])
    BY <2>3 DEF Stays, FinishFrame
  <2>5. Return(t) \/ \E f : Replace(t, f) /\ Stays(on[t], f)
    <3>1. CASE FinishClose(t) \/ FinishEnqueue(t)
      BY <2>2, <2>4, <3>1 DEF FinishClose, FinishEnqueue
    <3>2. CASE FinishShut(t) \/ FinishResume(t)
      BY <2>2, <2>4, <3>2 DEF FinishShut, FinishResume
    <3>3. CASE FinishGroup(t) \/ FinishLive(t)
      BY <2>2, <2>4, <3>3 DEF FinishGroup, FinishLive
    <3> QED
      BY <1>11, <3>1, <3>2, <3>3
  <2> QED
    BY <1>1, <2>1, <2>5, OwnTurn
<1>12. ASSUME WaitPark(t) PROVE FALSE
  <2>1. on[t] \in Fiber /\ on' = [on EXCEPT ![t] = t]
    BY <1>12 DEF WaitPark
  <2>2. on'[t] = t
    BY <1>1, <2>1 DEF Shapes
  <2> QED
    BY <1>1, <2>1, <2>2, Sizes
<1> QED
  BY <1>2, <1>3, <1>4, <1>6, <1>7, <1>8, <1>9, <1>10, <1>11, <1>12 DEF Run, Step

\* A thread that leaves its fiber leaves no call that helps on it.
LEMMA LeaveOwn ==
    ASSUME NEW w, NEW s, NEW h, NEW r, Sound(w, s, h, r), HelpsOwn, NEW t \in Thread, WaitPark(t) \/ FinishLive(t),
           stack' \in [Contexts -> Seq(Frame)], on' # on
    PROVE  HelpsOwn'
<1>1. Shapes /\ on \in [Thread -> Contexts]
  BY SoundParts DEF Shapes
<1>2. CASE WaitPark(t)
  <2>1. Calling(t, "wait") /\ Fibers /\ on[t] \in Fiber /\ on' = [on EXCEPT ![t] = t] /\ program' = program
    BY <1>2 DEF WaitPark
  <2>2. PICK d, n, e, f, c : OnTop(t, d, n, e) /\ CallsNow(e, f, c) /\ c.op = "wait" /\ Advanced(t) = f
    BY <2>1, CallIs
  <2>3. d = on[t] /\ d \in Fiber /\ d \in Contexts
    BY <2>1, <2>2 DEF OnTop
  <2>4. Makes(program, "wait")
    BY <2>2, <2>3, FiberMakes
  <2>5. ~Makes(program, "pfor")
    BY <2>1, <2>4 DEF HelpsOwn, Unmixed, Fibers
  <2>6. f.k = "body" /\ f \in Frame
    BY <2>2 DEF CallsNow, BodyFrame, Frame
  <2>7. Stacked(d, n, f, Blank)
    <3>1. Replace(t, f)
      BY <1>2, <2>2 DEF WaitPark
    <3> QED
      BY <1>1, <2>2, <2>6, <3>1, Replaces
  <2>8. \A i \in Pos : FrameAt(d, i)'.k \notin {"help", "pfor"}
    <3> SUFFICES ASSUME NEW i \in Pos PROVE FrameAt(d, i)'.k \notin {"help", "pfor"}
      OBVIOUS
    <3>1. Stays(d, FrameAt(d, i)) /\ Blank.k = "none"
      BY <2>3 DEF HelpsOwn, Blank
    <3>2. FrameAt(d, i).k \notin {"help", "pfor"}
      BY <2>3, <2>5, <3>1 DEF Stays
    <3>3. FrameAt(d, i)' \in {f, Blank, FrameAt(d, i)}
      BY <2>3, <2>7 DEF Stacked
    <3> QED
      BY <2>6, <3>1, <3>2, <3>3
  <2>9. \A c2 \in Contexts, i \in Pos : c2 # d => FrameAt(c2, i)' = FrameAt(c2, i)
    BY <2>7 DEF Stacked
  <2>10. \A u \in Thread : u # t => on'[u] = on[u]
    BY <1>1, <2>1
  <2> QED
    BY <2>1, <2>3, <2>8, <2>9, <2>10, OwnLeaves
<1>3. CASE FinishLive(t)
  <2>1. In(t, "finish") /\ Return(t) /\ program' = program
    BY <1>3 DEF FinishLive, Finishing
  <2>2. PICK d, n, e : OnTop(t, d, n, e)
    BY <1>1, <2>1, HasTop
  <2>3. d = on[t] /\ d \in Contexts /\ Frames(t) = stack[d] /\ n = Len(stack[d])
    BY <1>1, <2>2, TopFront DEF OnTop
  <2>4. n = 1 /\ on' = [on EXCEPT ![t] = t]
    BY <1>3, <2>3 DEF FinishLive
  <2>5. Stacked(d, n, Blank, Blank) /\ \A i \in Pos : i > n => FrameAt(d, i) = Blank
    BY <1>1, <2>1, <2>2, Returns, TopFront
  <2>6. \A i \in Pos : FrameAt(d, i)'.k \notin {"help", "pfor"}
    <3>1. \A i \in Pos : FrameAt(d, i)' = Blank
      BY <2>3, <2>4, <2>5 DEF Stacked, Pos
    <3> QED
      BY <3>1 DEF Blank
  <2>7. \A c \in Contexts, i \in Pos : c # d => FrameAt(c, i)' = FrameAt(c, i)
    BY <2>5 DEF Stacked
  <2>8. \A u \in Thread : u # t => on'[u] = on[u]
    BY <1>1, <2>4
  <2> QED
    BY <2>1, <2>3, <2>6, <2>7, <2>8, OwnLeaves
<1> QED
  BY <1>2, <1>3

\* No call changes the program, and two of its steps may leave a stack.
LEMMA RunFrame ==
    ASSUME NEW t \in Thread, Run(t)
    PROVE  program' = program /\ (on' = on \/ WaitPark(t) \/ FinishLive(t))
<1>1. CASE DoSubmit(t) \/ AllocRoom(t) \/ AllocHelp(t) \/ AllocTake(t)
  BY <1>1 DEF DoSubmit, AllocRoom, AllocHelp, AllocTake
<1>2. CASE SubmitCheck(t) \/ SubmitLink(t) \/ SubmitReady(t)
  BY <1>2 DEF SubmitCheck, SubmitLink, SubmitReady
<1>3. CASE HelpCheck(t) \/ HelpTake(t) \/ HelpYield(t)
  BY <1>3 DEF HelpCheck, HelpTake, HelpYield
<1>4. CASE WaitOver(t) \/ WaitPark(t) \/ WaitHelp(t)
  BY <1>4 DEF WaitOver, WaitPark, WaitHelp
<1>5. CASE DoParFor(t) \/ ParForChunk(t) \/ ParForHelp(t)
  BY <1>5 DEF DoParFor, ParForChunk, ParForHelp
<1>6. CASE DoStop(t) \/ Joined(t) \/ BodyEnds(t)
  BY <1>6 DEF DoStop, Joined, BodyEnds
<1>7. CASE FinishClose(t) \/ FinishEnqueue(t) \/ FinishShut(t)
  BY <1>7 DEF FinishClose, FinishEnqueue, FinishShut
<1>8. CASE FinishResume(t) \/ FinishGroup(t) \/ FinishLive(t)
  BY <1>8 DEF FinishResume, FinishGroup, FinishLive
<1> QED
  BY <1>1, <1>2, <1>3, <1>4, <1>5, <1>6, <1>7, <1>8 DEF Run, Step

\* A worker's loop has no call that helps on its stack.
LEMMA LoopOwn ==
    ASSUME NEW w, NEW s, NEW h, NEW r, Sound(w, s, h, r), HelpsOwn, NEW v \in Worker, Loop(v),
           stack' \in [Contexts -> Seq(Frame)]
    PROVE  HelpsOwn'
<1>1. Shapes /\ on \in [Thread -> Contexts] /\ stack \in [Contexts -> Seq(Frame)]
  BY SoundParts DEF Shapes
<1>2. CASE Recycle(v) \/ Park(v) \/ WorkerExit(v)
  <2>1. UNCHANGED <<program, on, stack>>
    BY <1>2 DEF Recycle, Park, WorkerExit
  <2> QED
    BY <2>1, OwnStill
<1>3. ASSUME Idle(v) PROVE v \in Thread /\ on[v] = v /\ v \in Contexts /\ \A i \in Pos : FrameAt(v, i) = Blank
  <2>1. v \in Thread /\ on[v] = v /\ v \in Contexts /\ stack[v] = <<>>
    BY <1>1, <1>3, IdleFacts DEF Idle
  <2>2. \A i \in Pos : i \notin DOMAIN stack[v]
    BY <2>1 DEF Pos
  <2> QED
    BY <2>1, <2>2 DEF FrameAt
<1>4. CASE Resume(v)
  <2>1. Idle(v) /\ UNCHANGED <<program, stack>> /\ \E x : on' = [on EXCEPT ![v] = x]
    BY <1>4 DEF Resume
  <2>2. v \in Thread /\ on[v] = v /\ v \in Contexts /\ \A i \in Pos : FrameAt(v, i) = Blank
    BY <1>3, <2>1
  <2>3. \A c, i : FrameAt(c, i)' = FrameAt(c, i)
    BY <2>1, Still
  <2>4. \A i \in Pos : FrameAt(v, i)'.k \notin {"help", "pfor"}
    BY <2>2, <2>3 DEF Blank
  <2>5. \A u \in Thread : u # v => on'[u] = on[u]
    BY <1>1, <2>1
  <2> QED
    BY <2>1, <2>2, <2>3, <2>4, <2>5, OwnLeaves
<1>5. ASSUME NEW x, NEW id \in Id, NEW g, Begins(v, x, id, g), Idle(v), NothingPending(v) PROVE HelpsOwn'
  <2>1. Swap(x, 1, Blank, g, Blank) /\ x \in Contexts
    BY <1>5, StartFacts
  <2>2. /\ g.k = "body" /\ program' = program /\ \A u \in Thread : u # v => on'[u] = on[u]
    BY <1>5 DEF Begins, Body
  <2>3. v \in Thread /\ on[v] = v /\ v \in Contexts /\ \A i \in Pos : FrameAt(v, i) = Blank
    BY <1>3, <1>5
  <2>4. \A c \in Contexts, i \in Pos : FrameAt(c, i)' \in {g, Blank, FrameAt(c, i)}
    BY <2>1 DEF Swap, Stacked
  <2>5. \A i \in Pos : FrameAt(v, i)'.k \notin {"help", "pfor"}
    BY <2>2, <2>3, <2>4 DEF Blank
  <2>6. \A c \in Contexts, i \in Pos : FrameAt(c, i)' = FrameAt(c, i) \/ FrameAt(c, i)'.k \notin {"help", "pfor"}
    BY <2>2, <2>4 DEF Blank
  <2> QED
    BY <2>2, <2>3, <2>5, <2>6, OwnLeaves
<1>6. CASE StartInFiber(v)
  <2>1. PICK x, id, g : x \in free /\ id \in Id /\ Begins(v, x, id, g)
    BY <1>6, FiberBegins
  <2> QED
    BY <1>5, <1>6, <2>1, FiberBegins
<1>7. CASE StartInline(v)
  <2>1. PICK id, g : id \in Id /\ Begins(v, v, id, g)
    BY <1>7, InlineBegins
  <2> QED
    BY <1>5, <1>7, <2>1, InlineBegins
<1> QED
  BY <1>2, <1>4, <1>6, <1>7 DEF Loop

\* Every call helps on its own stack, as long as it is so.
LEMMA HelpsOwnKeeps ==
    ASSUME SchedInv, HelpsOwn, [Next]_vars, SchedInv'
    PROVE  HelpsOwn'
<1>1. PICK w, s, h, r : Sound(w, s, h, r)
  BY DEF SchedInv, Sound
<1>2. program' = program
  <2>1. CASE \E t \in Thread : Run(t)
    BY <2>1, RunFrame
  <2>2. CASE \E v \in Worker : Loop(v)
    BY <2>2 DEF Loop, Recycle, Park, Resume, StartInFiber, StartInline, WorkerExit
  <2>3. CASE UNCHANGED vars
    BY <2>3 DEF vars
  <2> QED
    BY <2>1, <2>2, <2>3 DEF Next
<1>3. stack' \in [Contexts -> Seq(Frame)]
  <2>1. stack' \in [Contexts -> Seq(Frame')]
    BY DEF SchedInv, Shapes, Contexts, Thread
  <2>2. Frame' = Frame
    BY <1>2 DEF Frame, BodyFrame, SubmitFrame, ChunkFrame, HelpFrame, FinishFrame, Join, Task, Job,
                HandleShape, Id, Thread, Pos
  <2> QED
    BY <2>1, <2>2
<1>4. CASE \E t \in Thread : Run(t)
  <2>1. PICK t \in Thread : Run(t)
    BY <1>4
  <2>2. CASE on' = on
    BY <1>1, <1>3, <2>1, <2>2, RunOwn
  <2>3. CASE on' # on
    <3>1. WaitPark(t) \/ FinishLive(t)
      BY <2>1, <2>3, RunFrame
    <3> QED
      BY <1>1, <1>3, <2>3, <3>1, LeaveOwn
  <2> QED
    BY <2>2, <2>3
<1>5. CASE \E v \in Worker : Loop(v)
  BY <1>1, <1>3, <1>5, LoopOwn
<1>6. CASE UNCHANGED vars
  BY <1>6, OwnStill DEF vars
<1> QED
  BY <1>4, <1>5, <1>6 DEF Next

-----------------------------------------------------------------------------
\* At first main runs alone, and no slot, fiber or job name is anywhere.
LEMMA InitFrames ==
    ASSUME Init
    PROVE  /\ "main" \in Job /\ program \in Programs /\ Body(0, "main") \in BodyFrame /\ 1 \in Pos
           /\ \A c \in Contexts, i \in Pos :
                 FrameAt(c, i) = IF c = External /\ i = 1 THEN Body(0, "main") ELSE Blank
<1>1. program \in Programs /\ "main" \in Job
  BY Programmed DEF Init
<1>2. 1 \in Pos /\ Body(0, "main") \in BodyFrame
  BY <1>1 DEF Body, BodyFrame, Pos
<1>3. stack = [c \in Contexts |-> IF c = External THEN <<Body(0, "main")>> ELSE <<>>]
  BY DEF Init, Contexts
<1>4. ASSUME NEW c \in Contexts, NEW i \in Pos
      PROVE  FrameAt(c, i) = IF c = External /\ i = 1 THEN Body(0, "main") ELSE Blank
  <2>1. CASE c = External
    <3>1. stack[c] = <<Body(0, "main")>>
      BY <1>3, <2>1
    <3>2. DOMAIN stack[c] = {1} /\ stack[c][1] = Body(0, "main")
      BY <3>1
    <3> QED
      BY <2>1, <3>2 DEF FrameAt
  <2>2. CASE c # External
    <3>1. stack[c] = <<>>
      BY <1>3, <2>2
    <3> QED
      BY <2>2, <3>1 DEF FrameAt
  <2> QED
    BY <2>1, <2>2
<1> QED
  BY <1>1, <1>2, <1>4

\* Before start(): the shapes of all variables.
LEMMA InitShapes ==
    ASSUME Init
    PROVE  Shapes
<1>1. program \in Programs /\ "main" \in Job /\ None \notin Job /\ Body(0, "main") \in BodyFrame
  BY InitFrames, Programmed
<1>2. slots \in [Id -> SlotShape]
  <2>1. FreshSlot \in SlotShape
    BY DEF FreshSlot, SlotShape
  <2> QED
    BY <2>1 DEF Init
<1>3. alloc \in Pos /\ live \in Int
  BY DEF Init, Pos
<1>4. deque \in [Worker -> Seq(Id)] /\ inject \in [{0, 1} -> Seq(Id)] /\ \A v \in Worker : Len(deque[v]) <= DequeCapacity
  <2>1. <<>> \in Seq(Id) /\ Len(<<>>) = 0
    OBVIOUS
  <2>2. \A v \in Worker : deque[v] = <<>>
    BY DEF Init
  <2> QED
    BY <2>1, <2>2, SizeAssumption DEF Init
<1>5. resumable \in Seq(Fiber) /\ free \subseteq Fiber /\ next \in [Fiber -> Fiber \cup {None}]
  BY DEF Init
<1>6. pending \in [Worker -> PendingShape]
  <2>1. [kind |-> "none"] \in PendingShape
    BY DEF PendingShape
  <2> QED
    BY <2>1 DEF Init
<1>7. on \in [Thread -> Contexts]
  BY DEF Init, Contexts
<1>8. stack \in [Contexts -> Seq(Frame)]
  <2>1. <<>> \in Seq(Frame) /\ <<Body(0, "main")>> \in Seq(Frame)
    BY <1>1 DEF Frame
  <2> QED
    BY <2>1 DEF Init, Contexts
<1>9. stopping \in BOOLEAN /\ exited \subseteq Worker
  BY DEF Init
<1>10. handle \in [Job -> HandleShape]
  BY DEF Init, HandleShape, NoHandle
<1>11. remaining \in [Job -> Int] /\ begun \in [Job -> Nat] /\ ended \subseteq Job
  BY DEF Init
<1> QED
  BY <1>1, <1>2, <1>3, <1>4, <1>5, <1>6, <1>7, <1>8, <1>9, <1>10, <1>11 DEF Shapes

\* Before start(): the stacks.
LEMMA InitStacks ==
    ASSUME Init
    PROVE  Stacks /\ Nested /\ Stopped
<1>1. /\ Body(0, "main").k = "body" /\ Body(0, "main").id = 0 /\ Body(0, "main").job = "main" /\ Blank.k = "none"
      /\ Body(0, "main") # Blank /\ 1 \in Pos
      /\ \A c \in Contexts, i \in Pos : FrameAt(c, i) = IF c = External /\ i = 1 THEN Body(0, "main") ELSE Blank
  <2>1. Body(0, "main").k = "body" /\ Body(0, "main").id = 0 /\ Body(0, "main").job = "main" /\ Blank.k = "none"
    BY DEF Body, Blank
  <2> QED
    BY <2>1, InitFrames
<1>2. \A c \in Contexts : Busy(c) <=> c = External
  BY <1>1 DEF Busy
<1>3. External \notin Worker /\ Worker \subseteq Contexts /\ Fiber \subseteq Contexts /\ External \in Contexts
      /\ Thread = Worker \cup {External} /\ External \notin Fiber
  BY Sizes
<1>4. Stacks
  <2>1. \A c \in Contexts : Based(c)
    BY <1>1, <1>2, <1>3 DEF Based
  <2>2. /\ \A v \in Worker : on[v] = v /\ pending[v].kind = "none"
        /\ on[External] = External /\ exited = {}
        /\ free \subseteq Fiber /\ (~Fibers => free = {}) /\ resumable = <<>>
    BY <1>3 DEF Init
  <2>3. /\ \A v \in Worker : NothingPending(v) /\ pending[v].kind # "recycle" /\ pending[v].kind # "park"
        /\ \A f \in free : ~Busy(f)
    BY <1>2, <1>3, <2>2 DEF NothingPending
  <2> QED
    BY <1>1, <2>1, <2>2, <2>3 DEF Stacks
<1>5. Nested
  <2>1. \A i \in Pos : i + 1 \in Pos /\ i + 1 # 1
    BY DEF Pos
  <2> QED
    BY <1>1, <2>1 DEF Nested, Above
<1>6. Stopped
  BY DEF Stopped, Init
<1> QED
  BY <1>4, <1>5, <1>6

\* Before start(): no slot is in use.
LEMMA InitPlaced ==
    ASSUME Init
    PROVE  Placed([id \in Id |-> Unused])
<1>1. PICK w : w = [id \in Id |-> Unused]
  OBVIOUS
<1>2. /\ Body(0, "main").k = "body" /\ Body(0, "main").id = 0 /\ Blank.k = "none" /\ 1 \in Pos
      /\ \A c \in Contexts, i \in Pos : FrameAt(c, i) = IF c = External /\ i = 1 THEN Body(0, "main") ELSE Blank
  <2>1. Body(0, "main").k = "body" /\ Body(0, "main").id = 0 /\ Blank.k = "none"
    BY DEF Body, Blank
  <2> QED
    BY <2>1, InitFrames
<1>3. /\ w \in [Id -> Token] /\ \A id \in Id : w[id] = Unused
      /\ \A id \in Id, k \in Holders : \A c, i : w[id] # Held(k, c, i)
      /\ \A id \in Id : \A c, i : w[id] # Drained(c, i)
      /\ \A id \in Id : \A v : w[id] # OnDeque(v) /\ w[id] # OnInject(v) /\ w[id] # OnList(v)
      /\ Unused[1] = "unused"
  <2>1. Unused[1] = "unused"
    BY Tokens
  <2>2. \A id \in Id : w[id] = Unused
    BY <1>1
  <2>3. w \in [Id -> Token]
    BY <1>1 DEF Token
  <2>4. \A k \in Holders : \A c, i : Unused # Held(k, c, i)
    BY <2>1, Tokens DEF Holders
  <2>5. \A c, i : Unused # Drained(c, i)
    BY <2>1, Tokens
  <2>6. \A v : Unused # OnDeque(v) /\ Unused # OnInject(v) /\ Unused # OnList(v)
    BY <2>1, Tokens
  <2> QED
    BY <2>1, <2>2, <2>3, <2>4, <2>5, <2>6
<1>4. Queued(w)
  <2>1. \A v \in Worker : deque[v] = <<>>
    BY DEF Init
  <2>2. \A p \in {0, 1} : inject[p] = <<>>
    BY DEF Init
  <2>3. Distinct(<<>>) /\ Range(<<>>) = {}
    BY DEF Distinct, Range
  <2> QED
    BY <1>3, <2>1, <2>2, <2>3 DEF Queued
<1>5. \A id \in Id : slots[id] = FreshSlot
  BY DEF Init
<1>6. Dependents(0) = {}
  BY Sizes, NoMembers DEF Dependents
<1>7. Listed(w)
  <2>1. \A d \in Id : slots[d].dependents = 0 /\ slots[d].next = 0
    BY <1>5 DEF FreshSlot
  <2>2. \A c \in Contexts, i \in Pos : Draining(FrameAt(c, i)) = 0
    BY <1>2 DEF Draining
  <2> QED
    BY <1>3, <1>6, <2>1, <2>2 DEF Listed
<1>8. Carried(w)
  <2>1. \A c \in Contexts, i \in Pos, id \in Id, k \in Holders : ~Holds(FrameAt(c, i), k, id)
    <3>1. 0 \notin Id
      BY Sizes
    <3>2. \A id \in Id, k \in Holders : ~Holds(Body(0, "main"), k, id)
      BY <1>2, <3>1 DEF Holds
    <3> QED
      BY <1>2, <3>2, BlankHolds
  <2> QED
    BY <1>3, <2>1 DEF Carried
<1>9. Alive(w)
  <2>1. \A id \in Id : SlotOK(id, w[id][1])
    <3>1. FreshSlot.gen = 0
      BY DEF FreshSlot
    <3> QED
      BY <1>3, <1>5, <3>1 DEF SlotOK
  <2>2. \A c \in Contexts, i \in Pos : HolderOK(FrameAt(c, i))
    <3>1. HolderOK(Body(0, "main"))
      BY <1>2 DEF HolderOK
    <3> QED
      BY <1>2, <3>1, BlankHolds
  <2> QED
    BY <2>1, <2>2 DEF Alive
<1>10. live = Cardinality(InUse(w))
  <2>1. InUse(w) = {}
    BY <1>3 DEF InUse
  <2> QED
    BY <2>1, FS_EmptySet DEF Init
<1> QED
  BY <1>1, <1>3, <1>4, <1>7, <1>8, <1>9, <1>10 DEF Placed

\* Before start(): every fiber is free.
LEMMA InitParked ==
    ASSUME Init
    PROVE  Parked([f \in Fiber |-> IF Fibers THEN Free ELSE Nowhere]) /\ Honoured([f \in Fiber |-> IF Fibers THEN Free ELSE Nowhere])
<1>1. PICK s : s = [f \in Fiber |-> IF Fibers THEN Free ELSE Nowhere]
  OBVIOUS
<1>2. /\ Body(0, "main").k = "body" /\ Body(0, "main").pc = 1 /\ Blank.k = "none" /\ 1 \in Pos
      /\ \A c \in Contexts, i \in Pos : FrameAt(c, i) = IF c = External /\ i = 1 THEN Body(0, "main") ELSE Blank
  <2>1. Body(0, "main").k = "body" /\ Body(0, "main").pc = 1 /\ Blank.k = "none"
    BY DEF Body, Blank
  <2> QED
    BY <2>1, InitFrames
<1>3. \A f \in Fiber : s[f] = IF Fibers THEN Free ELSE Nowhere
  BY <1>1
<1>4. Free[1] = "free" /\ Nowhere[1] = "nowhere"
  BY Spots
<1>5. \A x \in {Free, Nowhere} : \A v : x # RunBy(v) /\ x # LeftBy(v) /\ x # WaitsOn(v) /\ x # Ready
  BY <1>4, Spots
<1>6. \A x \in {Free, Nowhere} : \A c, i : x # Resuming(c, i)
  BY <1>4, Spots
<1>7. Fiber \subseteq Contexts /\ External \notin Fiber /\ None \notin Fiber /\ (\A f \in Fiber : f \notin Worker)
  BY Sizes
<1>8. Pools(s)
  <2>1. s \in [Fiber -> Spot]
    BY <1>1 DEF Spot
  <2>2. resumable = <<>> /\ Distinct(resumable) /\ Range(resumable) = {}
    BY DEF Init, Distinct, Range
  <2>3. \A v \in Worker : on[v] = v /\ NothingPending(v)
    BY DEF Init, Thread, NothingPending
  <2>4. free = IF Fibers THEN Fiber ELSE {}
    BY DEF Init
  <2>5. \A f \in Fiber, v \in Worker : on[v] # f
    BY <1>7, <2>3
  <2> QED
    BY <1>3, <1>4, <1>5, <2>1, <2>2, <2>3, <2>4, <2>5 DEF Pools
<1>9. Waiters(None) = {}
  BY <1>7, NoMembers DEF Waiters
<1>10. WaitLists(s)
  <2>1. \A d \in Id : slots[d].waiters = None
    BY DEF Init, FreshSlot
  <2>2. \A c \in Contexts, i \in Pos : Waking(FrameAt(c, i)) = None
    BY <1>2 DEF Waking
  <2> QED
    BY <1>3, <1>4, <1>5, <1>6, <1>9, <2>1, <2>2 DEF WaitLists
<1>11. BusyOK(s)
  <2>1. \A f \in Fiber : ~Busy(f)
    BY <1>2, <1>7 DEF Busy
  <2> QED
    BY <1>3, <1>4, <2>1 DEF BusyOK
<1>12. Parked(s)
  BY <1>8, <1>10, <1>11, ParkedParts
<1>13. Honoured(s)
  <2>1. HonFrames
    <3>1. \A g, S, left : HonFrame(Body(0, "main"), g, S, left) /\ HonFrame(Blank, g, S, left)
      BY <1>2 DEF HonFrame
    <3> QED
      BY <1>2, <3>1 DEF HonFrames
  <2>2. \A f \in Fiber : HonFiber(s, f)
    BY <1>3, <1>4, <1>5 DEF HonFiber
  <2> QED
    BY <2>1, <2>2, HonouredParts
<1> QED
  BY <1>1, <1>12, <1>13

-----------------------------------------------------------------------------
\* Before start(): the whole invariant, with its witnesses.
LEMMA InitNames ==
    ASSUME Init
    PROVE  \E w, s, h, r : Sound(w, s, h, r)
<1>1. /\ Body(0, "main").k = "body" /\ Body(0, "main").pc = 1 /\ Body(0, "main").job = "main"
      /\ Body(0, "main").id = 0 /\ Blank.k = "none" /\ 1 \in Pos
      /\ \A c \in Contexts, i \in Pos : FrameAt(c, i) = IF c = External /\ i = 1 THEN Body(0, "main") ELSE Blank
  <2>1. Body(0, "main").k = "body" /\ Body(0, "main").pc = 1 /\ Body(0, "main").job = "main" /\ Body(0, "main").id = 0
        /\ Blank.k = "none"
    BY DEF Body, Blank
  <2> QED
    BY <2>1, InitFrames
<1>2. Shapes /\ Stacks /\ Nested /\ Stopped
  BY InitShapes, InitStacks
<1>3. "main" \in Job /\ None \notin Job /\ Task \subseteq Job /\ "main" \notin Task /\ program.given["main"] = {}
  BY <1>2, Programmed DEF Shapes, Task
<1>4. PICK w : w = [id \in Id |-> Unused]
  OBVIOUS
<1>5. PICK s : s = [f \in Fiber |-> IF Fibers THEN Free ELSE Nowhere]
  OBVIOUS
<1>6. PICK h : h = [j \in Job |-> IF j = "main" THEN TheMain ELSE New]
  OBVIOUS
<1>7. PICK r : r = [k \in Task |-> None]
  OBVIOUS
<1>8. Placed(w) /\ Parked(s) /\ Honoured(s)
  BY <1>4, <1>5, InitPlaced, InitParked
<1>9. /\ h["main"] = TheMain /\ (\A k \in Task : h[k] = New) /\ (\A k \in Task : r[k] = None)
      /\ \A id \in Id : w[id] = Unused
  BY <1>3, <1>4, <1>6, <1>7
<1>10. /\ New[1] = "new" /\ New # Gone /\ New # TheMain /\ (\A u : New # InSlot(u)) /\ \A c, i : New # Asked(c, i)
  BY Stages
<1>11. /\ \A j \in Job : begun[j] = 0 /\ handle[j] = NoHandle /\ remaining[j] = 0
       /\ ended = {} /\ \A id \in Id : slots[id] = FreshSlot
  BY DEF Init
<1>12. FreshSlot.job = None /\ FreshSlot.gen = 0 /\ FreshSlot.group = None
  BY DEF FreshSlot
<1>13. Named(h)
  <2>1. h \in [Job -> Stage]
    BY <1>6 DEF Stage
  <2>2. \A id \in Id, j \in Task : slots[id].job = j <=> h[j] = InSlot(id)
    BY <1>3, <1>9, <1>10, <1>11, <1>12
  <2>3. ASSUME NEW j \in Job PROVE Unasked(h, j, 1)
    <3>1. ASSUME NEW m \in DOMAIN program.calls[j], NEW k \in Submits(CallAt(j, m)) PROVE h[k] = New
      <4>1. Submits(CallAt(j, m)) \subseteq Task
        BY <1>2, CallTypes
      <4> QED
        BY <1>9, <3>1, <4>1
    <3> QED
      BY <3>1 DEF Unasked
  <2>4. \A c \in Contexts, i \in Pos, j \in Task : Asks(FrameAt(c, i), j) <=> h[j] = Asked(c, i)
    <3>1. \A j \in Task : ~Asks(Blank, j) /\ ~Asks(Body(0, "main"), j)
      BY <1>1, BlankHolds DEF Asks
    <3> QED
      BY <1>1, <1>9, <1>10, <3>1
  <2>5. \A c \in Contexts, i \in Pos : FrameFuture(h, FrameAt(c, i))
    <3>1. FrameFuture(h, Body(0, "main"))
      BY <1>1, <1>3, <2>3 DEF FrameFuture
    <3> QED
      BY <1>1, <3>1, BlankOK
  <2>6. \A j \in Task : /\ h[j] # TheMain /\ h[j] # Gone
                        /\ begun[j] = 0 /\ j \notin ended /\ handle[j] = NoHandle /\ Unasked(h, j, 1)
    BY <1>3, <1>9, <1>10, <1>11, <2>3
  <2>7. begun["main"] = 0 /\ handle["main"] = NoHandle
    BY <1>3, <1>11
  <2> QED
    BY <1>9, <2>1, <2>2, <2>4, <2>5, <2>6, <2>7 DEF Named, FrameFuture
<1>14. Handled(h)
  <2>1. \A c \in Contexts, i \in Pos : FrameAt(c, i).k # "submit"
    BY <1>1
  <2> QED
    BY <1>11, <1>12, <2>1 DEF Handled
<1>15. Known(h)
  <2>1. ~\E k \in Job : HasHandle(program, "main", 1, k)
    BY <1>3 DEF HasHandle
  <2>2. \A c \in Contexts, i \in Pos : FrameAt(c, i).k = "body" =>
           c = External /\ i = 1 /\ FrameAt(c, i) = Body(0, "main") /\ FrameAt(c, i + 1) = Blank
    <3>1. 1 + 1 \in Pos /\ 1 + 1 # 1 /\ External \in Contexts
      BY Sizes DEF Pos
    <3> QED
      BY <1>1, <3>1
  <2> QED
    BY <1>1, <1>9, <2>1, <2>2 DEF Known
<1>16. Counted(w, h, r)
  <2>1. Counts(r)
    <3>1. \A j \in Job : ChunksOf(r, j) = {}
      BY <1>3, <1>9 DEF ChunksOf
    <3>2. r \in [Task -> Job \cup {None}]
      BY <1>7
    <3> QED
      BY <1>11, <3>1, <3>2, FS_EmptySet DEF Counts
  <2>2. CountFrames(r)
    <3>1. \A c \in Contexts, i \in Pos : FrameAt(c, i + 1) = Blank /\ FrameAt(c, i).k \in {"body", "none"}
      <4>1. \A i \in Pos : i + 1 \in Pos /\ i + 1 # 1
        BY DEF Pos
      <4> QED
        BY <1>1, <4>1
    <3>2. \A j : ~Looping(Blank, j)
      BY LoopingIs
    <3> QED
      BY <3>1, <3>2 DEF CountFrames, CountFrame
  <2>3. CountSlots(w, r)
    BY <1>9 DEF CountSlots
  <2>4. Loops(r)
    BY <1>9 DEF Loops
  <2> QED
    BY <1>9, <2>1, <2>2, <2>3, <2>4, CountedParts
<1>17. Depended(w, h)
  <2>1. \A c \in Contexts, i \in Pos : FrameAt(c, i).k # "submit" /\ FrameAt(c, i).k # "pfor"
    BY <1>1
  <2> QED
    BY <1>9, <1>10, <2>1 DEF Depended
<1> QED
  BY <1>2, <1>8, <1>13, <1>14, <1>15, <1>16, <1>17 DEF Sound

\* At first no call helps.
LEMMA InitOwn ==
    ASSUME Init, \A p \in Programs : Unmixed(p)
    PROVE  HelpsOwn
<1>1. /\ program \in Programs
      /\ \A c \in Contexts, i \in Pos : FrameAt(c, i) = IF c = External /\ i = 1 THEN Body(0, "main") ELSE Blank
  BY InitFrames
<1>2. \A c \in Contexts, i \in Pos : FrameAt(c, i) \in {Body(0, "main"), Blank}
  BY <1>1
<1>3. Body(0, "main").k = "body" /\ Blank.k = "none"
  BY DEF Body, Blank
<1> QED
  BY <1>1, <1>2, <1>3 DEF HelpsOwn, Stays

-----------------------------------------------------------------------------
\* The theorems are about the steps of the code (Spec), under two conditions that
\* the code does not enforce: the ring comes round to a slot only when the job it
\* held is over (StaysAhead), and no program mixes wait() and parallel_for() in the
\* jobs it runs on fibers (Unmixed).

\* The inductive invariant: at all times every slot, fiber, job name and chunk has
\* one place, stage or loop that its record agrees with, frames nest as the code's
\* calls do, whatever waits for a job waits for one that has not ended or is on its
\* way to be told, and every call that helps runs on the stack of its worker.
THEOREM SchedulerInvariant ==
    ASSUME \A p \in Programs : Unmixed(p)
    PROVE  Spec /\ [][StaysAhead]_vars => [](SchedInv /\ HelpsOwn)
<1>1. Init => SchedInv /\ HelpsOwn
  BY InitNames, InitOwn DEF SchedInv, Sound
<1>2. SchedInv /\ HelpsOwn /\ [Next]_vars /\ [StaysAhead]_vars => (SchedInv /\ HelpsOwn)'
  <2> SUFFICES ASSUME SchedInv, HelpsOwn, [Next]_vars, [StaysAhead]_vars PROVE SchedInv' /\ HelpsOwn'
    OBVIOUS
  <2>1. OwnerOnly
    BY OwnersPop DEF SchedInv, Sound
  <2>2. StaysAhead
    BY DEF StaysAhead, vars
  <2>3. SchedInv'
    BY <2>1, <2>2, NextKeeps
  <2> QED
    BY <2>3, HelpsOwnKeeps
<1> QED
  BY <1>1, <1>2, PTL DEF Spec

\* Only the owner of a deque pops from it (help_until pops as the worker it started
\* on), whatever the number of workers, slots and fibers, where the jobs on fibers do
\* not mix wait() and parallel_for(): it is what the deque asks of its caller.
THEOREM OnlyOwnersPop ==
    ASSUME \A p \in Programs : Unmixed(p)
    PROVE  Spec /\ [][StaysAhead]_vars => []OwnerOnly
<1>1. SchedInv /\ HelpsOwn => OwnerOnly
  BY OwnersPop DEF SchedInv, Sound
<1> QED
  BY <1>1, SchedulerInvariant, PTL

\* Only alloc_job() turns the ring.
LEMMA StepAlloc ==
    ASSUME NEW t \in Thread, Step(t)
    PROVE  alloc' = alloc
<1>1. CASE DoSubmit(t) \/ AllocRoom(t) \/ AllocHelp(t)
  BY <1>1 DEF DoSubmit, AllocRoom, AllocHelp
<1>2. CASE SubmitCheck(t) \/ SubmitLink(t) \/ SubmitReady(t)
  BY <1>2 DEF SubmitCheck, SubmitLink, SubmitReady
<1>3. CASE HelpCheck(t) \/ HelpTake(t) \/ HelpYield(t)
  BY <1>3 DEF HelpCheck, HelpTake, HelpYield
<1>4. CASE WaitOver(t) \/ WaitPark(t) \/ WaitHelp(t)
  BY <1>4 DEF WaitOver, WaitPark, WaitHelp
<1>5. CASE DoParFor(t) \/ ParForChunk(t) \/ ParForHelp(t)
  BY <1>5 DEF DoParFor, ParForChunk, ParForHelp
<1>6. CASE DoStop(t) \/ Joined(t) \/ BodyEnds(t)
  BY <1>6 DEF DoStop, Joined, BodyEnds
<1>7. CASE FinishClose(t) \/ FinishEnqueue(t) \/ FinishShut(t)
  BY <1>7 DEF FinishClose, FinishEnqueue, FinishShut
<1>8. CASE FinishResume(t) \/ FinishGroup(t) \/ FinishLive(t)
  BY <1>8 DEF FinishResume, FinishGroup, FinishLive
<1> QED
  BY <1>1, <1>2, <1>3, <1>4, <1>5, <1>6, <1>7, <1>8 DEF Step

\* What the runs check is a case of it: their steps keep the ring ahead.
LEMMA RunsStayAhead == SpecAhead => Spec /\ [][StaysAhead]_vars
<1>1. ASSUME NextAhead PROVE Next /\ StaysAhead
  <2>1. Next
    BY <1>1 DEF NextAhead, Next, RunAhead, Run
  <2>2. ASSUME NEW t \in Thread, RunAhead(t) PROVE StaysAhead
    <3>1. Step(t) => alloc' = alloc
      BY StepAlloc
    <3> QED
      BY <2>2, <3>1 DEF RunAhead, StaysAhead
  <2>3. ASSUME NEW v \in Worker, Loop(v) PROVE StaysAhead
    BY <2>3 DEF Loop, Recycle, Park, Resume, StartInFiber, StartInline, WorkerExit, StaysAhead
  <2>4. UNCHANGED vars => StaysAhead
    BY DEF vars, StaysAhead
  <2> QED
    BY <1>1, <2>1, <2>2, <2>3, <2>4 DEF NextAhead
<1> QED
  BY <1>1, PTL DEF SpecAhead, Spec

-----------------------------------------------------------------------------
\* What follows from it.

\* No worker leaves while anything is left.
LEMMA StopHolds ==
    ASSUME NEW w, NEW s, NEW h, NEW r, Sound(w, s, h, r)
    PROVE  StopLeavesNothing
<1> SUFFICES ASSUME exited # {}
             PROVE  /\ \A id \in Id : slots[id].gen # 0 => IsClosed(id) /\ slots[id].job \in ended
                    /\ NothingToGet
                    /\ Fibers => \A f \in Fiber : f \in free \/ \E v \in Worker \ exited :
                          pending[v].kind = "recycle" /\ pending[v].fiber = f
  BY DEF StopLeavesNothing
<1>1. Shapes /\ Stacks /\ SwitchOK /\ FramesOK /\ Stopped /\ Placed(w) /\ Pools(s) /\ BusyOK(s) /\ Carried(w)
      /\ w \in [Id -> Token] /\ s \in [Fiber -> Spot] /\ Queued(w) /\ Alive(w)
  BY SoundParts DEF Placed, Pools
<1>2. \A id \in Id : w[id] = Unused
  <2>1. live = 0
    BY <1>1 DEF Stopped
  <2> QED
    BY <1>1, <2>1, LiveSlots
<1>3. \A id \in Id : slots[id].gen # 0 => IsClosed(id) /\ slots[id].job \in ended
  <2>1. \A id \in Id : SlotOK(id, "unused")
    BY <1>1, <1>2, Tokens DEF Alive
  <2> QED
    BY <2>1 DEF SlotOK
<1>4. NothingToGet
  <2>1. ASSUME NEW v \in Worker PROVE deque[v] = <<>>
    <3>1. \A id \in Id : id \notin Range(deque[v])
      <4>1. \A id \in Id : w[id] # OnDeque(v)
        BY <1>2, Tokens
      <4> QED
        BY <1>1, <4>1 DEF Queued
    <3>2. deque[v] \in Seq(Id)
      BY <1>1 DEF Shapes
    <3>3. deque[v] # <<>> => Head(deque[v]) \in Id /\ Head(deque[v]) \in Range(deque[v])
      BY <3>2 DEF Range
    <3> QED
      BY <3>1, <3>3
  <2>2. ASSUME NEW p \in {0, 1} PROVE inject[p] = <<>>
    <3>1. \A id \in Id : id \notin Range(inject[p])
      <4>1. \A id \in Id : w[id] # OnInject(p)
        BY <1>2, Tokens
      <4> QED
        BY <1>1, <4>1 DEF Queued
    <3>2. inject[p] \in Seq(Id)
      BY <1>1 DEF Shapes
    <3>3. inject[p] # <<>> => Head(inject[p]) \in Id /\ Head(inject[p]) \in Range(inject[p])
      BY <3>2 DEF Range
    <3> QED
      BY <3>1, <3>3
  <2> QED
    BY <2>1, <2>2 DEF NothingToGet
<1>5. \A f \in Fiber : ~Busy(f)
  <2>1. ASSUME NEW f \in Fiber, Busy(f) PROVE FALSE
    <3>1. f \in Contexts /\ f # External /\ 1 \in Pos
      BY Sizes DEF Pos
    <3>2. PICK e : e = FrameAt(f, 1)
      OBVIOUS
    <3>3. e.k \in {"body", "finish"} /\ e.id # 0 /\ e # Blank
      BY <1>1, <2>1, <3>1, <3>2 DEF FramesOK, Based, Busy
    <3>4. e.id \in Id
      <4>1. e \in Frame
        BY <1>1, <3>1, <3>2, <3>3, FrameAtIn
      <4>2. e \in BodyFrame \/ e \in FinishFrame
        BY <3>3, <4>1, FrameKinds
      <4> QED
        BY <3>3, <4>2 DEF BodyFrame, FinishFrame
    <3>5. Holds(e, e.k, e.id) /\ e.k \in Holders
      BY <3>3 DEF Holds, Holders
    <3>6. w[e.id] = Held(e.k, f, 1)
      BY <1>1, <3>1, <3>2, <3>4, <3>5 DEF Carried
    <3>7. Held(e.k, f, 1)[1] = e.k /\ Unused[1] = "unused"
      BY Tokens
    <3> QED
      BY <1>2, <3>3, <3>4, <3>6, <3>7
  <2> QED
    BY <2>1
<1>6. ASSUME Fibers, NEW f \in Fiber, f \notin free
      PROVE  \E v \in Worker \ exited : pending[v].kind = "recycle" /\ pending[v].fiber = f
  <2>1. s[f] \in Spot /\ s[f] # Nowhere /\ s[f] # Free /\ s[f][1] \notin {"resumable", "on", "list", "resume"}
    BY <1>1, <1>5, <1>6 DEF Pools, BusyOK
  <2>2. PICK v \in Worker : s[f] = LeftBy(v)
    <3>1. Ready[1] = "resumable" /\ (\A v : RunBy(v)[1] = "on" /\ WaitsOn(v)[1] = "list") /\ \A c, i : Resuming(c, i)[1] = "resume"
      BY Spots
    <3> QED
      BY <2>1, <3>1 DEF Spot
  <2>3. ~NothingPending(v) /\ pending[v].fiber = f
    BY <1>1, <2>2 DEF Pools
  <2>4. v \notin exited
    BY <1>1, <2>3 DEF SwitchOK
  <2>5. pending[v].kind # "park"
    BY <1>1, <1>5, <2>3 DEF SwitchOK
  <2>6. pending[v].kind = "recycle"
    BY <1>1, <2>3, <2>5, PendingShapes DEF NothingPending
  <2> QED
    BY <2>3, <2>4, <2>6
<1> QED
  BY <1>3, <1>4, <1>6

\* A job that has begun has a slot, or had one.
LEMMA BegunStage ==
    ASSUME NEW w, NEW s, NEW h, NEW r, Sound(w, s, h, r), NEW j \in Task
    PROVE  /\ begun[j] \in {0, 1}
           /\ begun[j] # 0 => \/ h[j] = Gone
                              \/ \E id \in Id : h[j] = InSlot(id) /\ w[id][1] \notin {"submit", "list"}
<1>1. Shapes /\ Named(h) /\ Alive(w) /\ j \in Job
  BY SoundParts DEF Placed, Task
<1>2. h[j] \in Stage /\ h[j] # TheMain
  BY <1>1 DEF Named
<1>3. CASE h[j][1] \in {"new", "asked"}
  BY <1>1, <1>3 DEF Named
<1>4. CASE h[j] = Gone
  BY <1>1, <1>4 DEF Named
<1>5. ASSUME NEW id \in Id, h[j] = InSlot(id)
      PROVE  begun[j] \in {0, 1} /\ (begun[j] # 0 => w[id][1] \notin {"submit", "list"})
  <2>1. slots[id].job = j
    BY <1>1, <1>5 DEF Named
  <2>2. slots[id].gen # 0
    <3>1. j # None
      BY <1>1, Programmed DEF Shapes
    <3> QED
      BY <1>1, <2>1, <3>1 DEF Alive, SlotOK, FreshSlot
  <2>3. begun[j] = IF w[id][1] \in {"body", "finish", "unused"} THEN 1 ELSE 0
    BY <1>1, <2>1, <2>2 DEF Alive, SlotOK
  <2> QED
    BY <2>3
<1>6. h[j][1] \in {"new", "asked"} \/ h[j] = Gone \/ \E id \in Id : h[j] = InSlot(id)
  BY <1>2, Stages DEF Stage
<1> QED
  BY <1>3, <1>4, <1>5, <1>6

\* The invariant implies that every wait that is over is over for a reason.
LEMMA WaitsHold ==
    ASSUME NEW w, NEW s, NEW h, NEW r, Sound(w, s, h, r)
    PROVE  WaitsHonoured
<1>1. Shapes /\ Named(h) /\ Depended(w, h) /\ HonFrames /\ "main" \in Job
  BY SoundParts, Programmed DEF Shapes
<1>2. \A j \in Job : begun[j] <= 1
  <2>1. begun["main"] = 0
    BY <1>1 DEF Named
  <2>2. \A j \in Task : begun[j] \in {0, 1}
    BY BegunStage
  <2> QED
    BY <2>1, <2>2 DEF Task
<1>3. ASSUME NEW i \in Job, NEW n \in DOMAIN program.calls[i], NEW c, c = CallAt(i, n),
             c.op = "submit", c.dep # None, begun[c.job] > 0
      PROVE  c.dep \in ended
  <2>1. c.job \in Task /\ c.dep \in Task
    BY <1>1, <1>3, CallTypes
  <2>2. Depends(c.job, c.dep)
    BY <1>3 DEF Depends
  <2>3. h[c.job] = Gone \/ \E id \in Id : h[c.job] = InSlot(id) /\ w[id][1] \notin {"submit", "list"}
    BY <1>3, <2>1, BegunStage
  <2>4. h[c.job] = Gone => c.dep \in ended
    BY <1>1, <2>1, <2>2 DEF Depended
  <2>5. \A id \in Id : h[c.job] = InSlot(id) /\ w[id][1] \notin {"submit", "list"} => c.dep \in ended
    BY <1>1, <2>1, <2>2 DEF Depended
  <2> QED
    BY <2>3, <2>4, <2>5
<1>4. ASSUME NEW c \in Contexts, NEW i \in DOMAIN stack[c], NEW f, f = stack[c][i], f.k = "body",
             NEW inCall, inCall = (i < Len(stack[c]) \/ \A t \in Thread : on[t] # c),
             NEW n \in 1..(f.pc - (IF inCall THEN 2 ELSE 1))
      PROVE  Fulfilled(f.job, n)
  <2>1. stack[c] \in Seq(Frame) /\ i \in 1..Len(stack[c]) /\ Len(stack[c]) \in Nat
    BY <1>1 DEF Shapes
  <2>2. i \in Pos /\ i + 1 \in Pos /\ FrameAt(c, i) = f
    BY <1>4, <2>1 DEF Pos, FrameAt
  <2>3. HonFrame(f, FrameAt(c, i + 1), ended, Left(c))
    BY <1>1, <2>2 DEF HonFrames
  <2>4. f.pc \in Int
    <3>1. f \in Frame
      BY <1>4, <2>1
    <3>2. f \in BodyFrame
      BY <1>4, <3>1, FrameKinds
    <3> QED
      BY <3>2 DEF BodyFrame, Pos
  <2>5. FrameAt(c, i + 1) # Blank => i < Len(stack[c])
    <3>1. FrameAt(c, i + 1) # Blank => i + 1 \in 1..Len(stack[c])
      BY <1>1, <2>2, FrameAtIn
    <3> QED
      BY <2>1, <3>1
  <2>6. FrameAt(c, i + 1) # Blank \/ Left(c) => inCall
    BY <1>4, <2>5 DEF Left
  <2>7. n \in 1..f.pc-1 /\ (n = f.pc - 1 => ~inCall)
    BY <1>4, <2>4
  <2>8. FulfilledIn(f.job, n, ended)
    BY <1>4, <2>3, <2>6, <2>7 DEF HonFrame
  <2> QED
    BY <2>8 DEF Fulfilled, FulfilledIn, CallAt
<1>5. \A c \in Contexts : \A i \in DOMAIN stack[c] :
          LET f == stack[c][i]
              inCall == i < Len(stack[c]) \/ \A t \in Thread : on[t] # c
          IN  f.k = "body" => \A n \in 1..(f.pc - (IF inCall THEN 2 ELSE 1)) : Fulfilled(f.job, n)
  BY <1>4
<1>6. \A i \in Job : \A n \in DOMAIN program.calls[i] :
          LET c == program.calls[i][n]
          IN  c.op = "submit" /\ c.dep # None /\ begun[c.job] > 0 => c.dep \in ended
  BY <1>3 DEF CallAt
<1> QED
  BY <1>2, <1>5, <1>6 DEF WaitsHonoured

\* Where the token of a slot says its id is, it is, and nowhere else.
AtPlace(w, id, y) ==
    \/ \E v \in Worker : \E n \in Where(deque[v], id) : w[id] = OnDeque(v) /\ y = <<"deque", v, n>>
    \/ \E p \in {0, 1} : \E n \in Where(inject[p], id) : w[id] = OnInject(p) /\ y = <<"inject", p, n>>
    \/ \E d \in Id : w[id] = OnList(d) /\ y = <<"list", d, 0>>
    \/ \E c \in Contexts, i \in Pos : w[id] \in {Drained(c, i), Held("submit", c, i)} /\ y = <<"frame", c, i>>

\* A member of a queue without repetitions stands in one place of it.
LEMMA WhereIs ==
    ASSUME NEW q, Distinct(q), NEW x
    PROVE  /\ \A m, n \in Where(q, x) : m = n
           /\ Where(q, x) # {} <=> x \in Range(q)
BY DEF Distinct, Where, Range

\* The frame that has a slot in hand is the one that its token names.
LEMMA InHandIs ==
    ASSUME Shapes, NEW w, Listed(w), Carried(w), NEW id \in Id, NEW c \in Contexts, NEW i
    PROVE  (i \in DOMAIN stack[c] /\ InHand(stack[c][i], id))
               <=> (i \in Pos /\ w[id] \in {Drained(c, i), Held("submit", c, i)})
<1>1. stack[c] \in Seq(Frame)
  BY DEF Shapes
<1>2. 0 \notin Id
  BY Sizes
<1>3. ASSUME i \in DOMAIN stack[c], InHand(stack[c][i], id) PROVE i \in Pos /\ w[id] \in {Drained(c, i), Held("submit", c, i)}
  <2>1. i \in Pos /\ FrameAt(c, i) = stack[c][i]
    BY <1>1, <1>3 DEF Pos, FrameAt
  <2>2. CASE stack[c][i].k = "finish" /\ stack[c][i].pc = "enqueue" /\ id \in Dependents(stack[c][i].cur)
    <3>1. id \in Dependents(Draining(FrameAt(c, i)))
      BY <2>1, <2>2 DEF Draining
    <3> QED
      BY <2>1, <3>1 DEF Listed
  <2>3. CASE stack[c][i].k = "submit" /\ stack[c][i].id = id
    <3>1. Holds(FrameAt(c, i), "submit", id) /\ "submit" \in Holders
      BY <2>1, <2>3 DEF Holds, Holders
    <3> QED
      BY <2>1, <3>1 DEF Carried
  <2> QED
    BY <1>3, <2>2, <2>3 DEF InHand
<1>4. ASSUME i \in Pos, w[id] = Drained(c, i) PROVE i \in DOMAIN stack[c] /\ InHand(stack[c][i], id)
  <2>1. id \in Dependents(Draining(FrameAt(c, i)))
    BY <1>4 DEF Listed
  <2>2. Dependents(0) = {}
    BY <1>2, NoMembers DEF Dependents
  <2>3. FrameAt(c, i).k = "finish" /\ FrameAt(c, i).pc = "enqueue" /\ id \in Dependents(FrameAt(c, i).cur)
    BY <2>1, <2>2 DEF Draining
  <2>4. FrameAt(c, i) # Blank
    BY <2>3 DEF Blank
  <2>5. i \in DOMAIN stack[c] /\ stack[c][i] = FrameAt(c, i)
    BY <2>4 DEF FrameAt
  <2> QED
    BY <2>3, <2>5 DEF InHand
<1>5. ASSUME i \in Pos, w[id] = Held("submit", c, i) PROVE i \in DOMAIN stack[c] /\ InHand(stack[c][i], id)
  <2>1. "submit" \in Holders
    BY DEF Holders
  <2>2. Holds(FrameAt(c, i), "submit", id)
    BY <1>5, <2>1 DEF Carried
  <2>3. FrameAt(c, i).k = "submit" /\ FrameAt(c, i).id = id
    BY <2>2 DEF Holds
  <2>4. FrameAt(c, i) # Blank
    BY <2>3 DEF Blank
  <2>5. i \in DOMAIN stack[c] /\ stack[c][i] = FrameAt(c, i)
    BY <2>4 DEF FrameAt
  <2> QED
    BY <2>3, <2>5 DEF InHand
<1> QED
  BY <1>3, <1>4, <1>5

\* The places of a slot are the one that its token names.
LEMMA PlacesAre ==
    ASSUME Shapes, NEW w, Placed(w), NEW id \in Id, NEW y
    PROVE  y \in Places(id) <=> AtPlace(w, id, y)
<1>1. Queued(w) /\ Listed(w) /\ Carried(w)
  BY DEF Placed
<1>2. \A v \in Worker : \A n \in Where(deque[v], id) : w[id] = OnDeque(v)
  BY <1>1, WhereIs DEF Queued
<1>3. \A p \in {0, 1} : \A n \in Where(inject[p], id) : w[id] = OnInject(p)
  BY <1>1, WhereIs DEF Queued
<1>4. \A d \in Id : id \in Dependents(slots[d].dependents) <=> w[id] = OnList(d)
  BY <1>1 DEF Listed
<1>5. \A c \in Contexts : \A i : i \in {n \in DOMAIN stack[c] : InHand(stack[c][n], id)}
                                     <=> i \in Pos /\ w[id] \in {Drained(c, i), Held("submit", c, i)}
  BY <1>1, InHandIs
<1> DEFINE A == UNION {{<<"deque", v, n>> : n \in Where(deque[v], id)} : v \in Worker}
           B == UNION {{<<"inject", p, n>> : n \in Where(inject[p], id)} : p \in {0, 1}}
           C == {<<"list", d, 0>> : d \in {e \in Id : id \in Dependents(slots[e].dependents)}}
           D == UNION {{<<"frame", c, i>> : i \in {n \in DOMAIN stack[c] : InHand(stack[c][n], id)}} : c \in Contexts}
<1>6. y \in A <=> \E v \in Worker : \E n \in Where(deque[v], id) : w[id] = OnDeque(v) /\ y = <<"deque", v, n>>
  BY <1>2
<1>7. y \in B <=> \E p \in {0, 1} : \E n \in Where(inject[p], id) : w[id] = OnInject(p) /\ y = <<"inject", p, n>>
  BY <1>3
<1>8. y \in C <=> \E d \in Id : w[id] = OnList(d) /\ y = <<"list", d, 0>>
  BY <1>4
<1>9. y \in D <=> \E c \in Contexts, i \in Pos : w[id] \in {Drained(c, i), Held("submit", c, i)} /\ y = <<"frame", c, i>>
  BY <1>5
<1>10. Places(id) = A \cup B \cup C \cup D
  BY DEF Places
<1> HIDE DEF A, B, C, D
<1>11. y \in Places(id) <=> y \in A \/ y \in B \/ y \in C \/ y \in D
  BY <1>10
<1> QED
  BY <1>6, <1>7, <1>8, <1>9, <1>11 DEF AtPlace

\* A set whose members are all one has one member.
LEMMA OneMember ==
    ASSUME NEW S, NEW x \in S, \A y \in S : y = x
    PROVE  Cardinality(S) = 1
<1>1. S = {x}
  OBVIOUS
<1> QED
  BY <1>1, FS_Singleton

\* A slot whose job has not begun is in one place.
LEMMA PlaceOnce ==
    ASSUME Shapes, NEW w, Placed(w), NEW id \in Id,
           w[id][1] \in {"deque", "inject", "list", "enqueue", "submit"}
    PROVE  Cardinality(Places(id)) = 1
<1>1. Queued(w) /\ w[id] \in Token
  BY DEF Placed
<1>2. ASSUME NEW v \in Worker, w[id] = OnDeque(v) PROVE Cardinality(Places(id)) = 1
  <2>1. Distinct(deque[v]) /\ id \in Range(deque[v])
    BY <1>1, <1>2 DEF Queued
  <2>2. PICK n : n \in Where(deque[v], id)
    BY <2>1, WhereIs
  <2>3. \A m \in Where(deque[v], id) : m = n
    BY <2>1, <2>2, WhereIs
  <2>4. AtPlace(w, id, <<"deque", v, n>>)
    BY <1>2, <2>2 DEF AtPlace
  <2>5. ASSUME NEW y, AtPlace(w, id, y) PROVE y = <<"deque", v, n>>
    <3>1. w[id][1] = "deque" /\ (\A u : w[id] = OnDeque(u) => u = v)
      BY <1>2, Tokens
    <3>2. (\A u : w[id] # OnInject(u) /\ w[id] # OnList(u)) /\ \A c, i : w[id] # Drained(c, i) /\ w[id] # Held("submit", c, i)
      BY <3>1, Tokens
    <3> QED
      BY <2>3, <2>5, <3>1, <3>2 DEF AtPlace
  <2> QED
    BY <2>4, <2>5, PlacesAre, OneMember
<1>3. ASSUME NEW p \in {0, 1}, w[id] = OnInject(p) PROVE Cardinality(Places(id)) = 1
  <2>1. Distinct(inject[p]) /\ id \in Range(inject[p])
    BY <1>1, <1>3 DEF Queued
  <2>2. PICK n : n \in Where(inject[p], id)
    BY <2>1, WhereIs
  <2>3. \A m \in Where(inject[p], id) : m = n
    BY <2>1, <2>2, WhereIs
  <2>4. AtPlace(w, id, <<"inject", p, n>>)
    BY <1>3, <2>2 DEF AtPlace
  <2>5. ASSUME NEW y, AtPlace(w, id, y) PROVE y = <<"inject", p, n>>
    <3>1. w[id][1] = "inject" /\ (\A u : w[id] = OnInject(u) => u = p)
      BY <1>3, Tokens
    <3>2. (\A u : w[id] # OnDeque(u) /\ w[id] # OnList(u)) /\ \A c, i : w[id] # Drained(c, i) /\ w[id] # Held("submit", c, i)
      BY <3>1, Tokens
    <3> QED
      BY <2>3, <2>5, <3>1, <3>2 DEF AtPlace
  <2> QED
    BY <2>4, <2>5, PlacesAre, OneMember
<1>4. ASSUME NEW d \in Id, w[id] = OnList(d) PROVE Cardinality(Places(id)) = 1
  <2>1. AtPlace(w, id, <<"list", d, 0>>)
    BY <1>4 DEF AtPlace
  <2>2. ASSUME NEW y, AtPlace(w, id, y) PROVE y = <<"list", d, 0>>
    <3>1. w[id][1] = "list" /\ (\A u : w[id] = OnList(u) => u = d)
      BY <1>4, Tokens
    <3>2. (\A u : w[id] # OnDeque(u) /\ w[id] # OnInject(u)) /\ \A c, i : w[id] # Drained(c, i) /\ w[id] # Held("submit", c, i)
      BY <3>1, Tokens
    <3> QED
      BY <2>2, <3>1, <3>2 DEF AtPlace
  <2> QED
    BY <2>1, <2>2, PlacesAre, OneMember
<1>5. ASSUME NEW c \in Contexts, NEW i \in Pos, w[id] \in {Drained(c, i), Held("submit", c, i)}
      PROVE  Cardinality(Places(id)) = 1
  <2>1. AtPlace(w, id, <<"frame", c, i>>)
    BY <1>5 DEF AtPlace
  <2>2. ASSUME NEW y, AtPlace(w, id, y) PROVE y = <<"frame", c, i>>
    <3>1. w[id][1] \in {"enqueue", "submit"}
      BY <1>5, Tokens
    <3>2. \A u : w[id] # OnDeque(u) /\ w[id] # OnInject(u) /\ w[id] # OnList(u)
      BY <3>1, Tokens
    <3>3. \A d, j : w[id] \in {Drained(d, j), Held("submit", d, j)} => d = c /\ j = i
      <4>1. \A d, j : Drained(d, j)[1] = "enqueue" /\ Held("submit", d, j)[1] = "submit"
        BY Tokens
      <4>2. \A d, j : Drained(d, j) = Drained(c, i) => d = c /\ j = i
        BY Tokens
      <4>3. \A d, j : Held("submit", d, j) = Held("submit", c, i) => d = c /\ j = i
        BY Tokens
      <4>4. \A d, j : Drained(d, j) # Held("submit", c, i) /\ Drained(c, i) # Held("submit", d, j)
        BY <4>1
      <4> QED
        BY <1>5, <4>2, <4>3, <4>4
    <3> QED
      BY <2>2, <3>2, <3>3 DEF AtPlace
  <2> QED
    BY <2>1, <2>2, PlacesAre, OneMember
<1>6. w[id][1] = "submit" => \E c \in Contexts, i \in Pos : w[id] = Held("submit", c, i)
  BY <1>1, TokenTags DEF Holders
<1> QED
  BY <1>1, <1>2, <1>3, <1>4, <1>5, <1>6, TokenTags

\* A slot whose job has begun, or that is free, is in no place.
LEMMA PlaceNone ==
    ASSUME Shapes, NEW w, Placed(w), NEW id \in Id, w[id][1] \in {"body", "finish", "unused"}
    PROVE  Cardinality(Places(id)) = 0
<1>1. \A v : OnDeque(v)[1] = "deque" /\ OnInject(v)[1] = "inject" /\ OnList(v)[1] = "list"
  BY Tokens
<1>2. \A c, i : Drained(c, i)[1] = "enqueue" /\ Held("submit", c, i)[1] = "submit"
  BY Tokens
<1>3. \A y : ~AtPlace(w, id, y)
  BY <1>1, <1>2 DEF AtPlace
<1>4. Places(id) = {}
  BY <1>3, PlacesAre
<1> QED
  BY <1>4, FS_EmptySet

\* The same for the fibers.
AtHome(s, f, y) ==
    \/ s[f] = Free /\ y = <<"free", 0, 0>>
    \/ \E v \in Worker : s[f] = RunBy(v) /\ y = <<"on", v, 0>>
    \/ \E v \in Worker : s[f] = LeftBy(v) /\ y = <<"left", v, 0>>
    \/ \E n \in Where(resumable, f) : s[f] = Ready /\ y = <<"resumable", 0, n>>
    \/ \E d \in Id : s[f] = WaitsOn(d) /\ y = <<"list", d, 0>>
    \/ \E c \in Contexts, i \in Pos : s[f] = Resuming(c, i) /\ y = <<"frame", c, i>>

\* The frame that is about to wake a fiber is the one that its spot names.
LEMMA LeavesIs ==
    ASSUME Shapes, NEW s, WaitLists(s), NEW f \in Fiber, NEW c \in Contexts, NEW i
    PROVE  (i \in DOMAIN stack[c] /\ Leaves(stack[c][i], f)) <=> (i \in Pos /\ s[f] = Resuming(c, i))
<1>1. stack[c] \in Seq(Frame)
  BY DEF Shapes
<1>2. ASSUME i \in DOMAIN stack[c], Leaves(stack[c][i], f) PROVE i \in Pos /\ s[f] = Resuming(c, i)
  <2>1. i \in Pos /\ FrameAt(c, i) = stack[c][i]
    BY <1>1, <1>2 DEF Pos, FrameAt
  <2>2. f \in Waiters(Waking(FrameAt(c, i)))
    BY <1>2, <2>1 DEF Leaves, Waking
  <2> QED
    BY <2>1, <2>2 DEF WaitLists
<1>3. ASSUME i \in Pos, s[f] = Resuming(c, i) PROVE i \in DOMAIN stack[c] /\ Leaves(stack[c][i], f)
  <2>1. f \in Waiters(Waking(FrameAt(c, i)))
    BY <1>3 DEF WaitLists
  <2>2. Waiters(None) = {}
    BY WaitersAre
  <2>3. FrameAt(c, i).k = "finish" /\ FrameAt(c, i).pc = "resume" /\ f \in Waiters(FrameAt(c, i).cur)
    BY <2>1, <2>2 DEF Waking
  <2>4. FrameAt(c, i) # Blank
    BY <2>3 DEF Blank
  <2>5. i \in DOMAIN stack[c] /\ stack[c][i] = FrameAt(c, i)
    BY <2>4 DEF FrameAt
  <2> QED
    BY <2>3, <2>5 DEF Leaves
<1> QED
  BY <1>2, <1>3

\* The homes of a fiber are the one that its spot names.
LEMMA HomesAre ==
    ASSUME Shapes, SwitchOK, NEW s, Pools(s), WaitLists(s), NEW f \in Fiber, NEW y
    PROVE  y \in Homes(f) <=> AtHome(s, f, y)
<1> DEFINE A == {<<"free", 0, 0>> : g \in free \cap {f}}
           B == {<<"on", t, 0>> : t \in {u \in Thread : on[u] = f}}
           C == {<<"left", u, 0>> : u \in {v \in Worker : ~NothingPending(v) /\ pending[v].fiber = f}}
           D == {<<"resumable", 0, n>> : n \in Where(resumable, f)}
           E == {<<"list", d, 0>> : d \in {e \in Id : f \in Waiters(slots[e].waiters)}}
           F == UNION {{<<"frame", c, i>> : i \in {n \in DOMAIN stack[c] : Leaves(stack[c][n], f)}} : c \in Contexts}
<1>1. y \in A <=> s[f] = Free /\ y = <<"free", 0, 0>>
  <2>1. f \in free <=> s[f] = Free
    BY DEF Pools
  <2> QED
    BY <2>1
<1>2. y \in B <=> \E v \in Worker : s[f] = RunBy(v) /\ y = <<"on", v, 0>>
  <2>1. \A t \in Thread : on[t] = f <=> t \in Worker /\ s[f] = RunBy(t)
    <3>1. on[External] # f
      BY Sizes DEF SwitchOK
    <3>2. \A v \in Worker : on[v] = f <=> s[f] = RunBy(v)
      BY DEF Pools
    <3> QED
      BY <3>1, <3>2, Sizes
  <2> QED
    BY <2>1, Sizes
<1>3. y \in C <=> \E v \in Worker : s[f] = LeftBy(v) /\ y = <<"left", v, 0>>
  <2>1. \A v \in Worker : ~NothingPending(v) /\ pending[v].fiber = f <=> s[f] = LeftBy(v)
    BY DEF Pools
  <2> QED
    BY <2>1
<1>4. y \in D <=> \E n \in Where(resumable, f) : s[f] = Ready /\ y = <<"resumable", 0, n>>
  <2>1. Where(resumable, f) # {} <=> s[f] = Ready
    BY WhereIs DEF Pools
  <2> QED
    BY <2>1
<1>5. y \in E <=> \E d \in Id : s[f] = WaitsOn(d) /\ y = <<"list", d, 0>>
  <2>1. \A d \in Id : f \in Waiters(slots[d].waiters) <=> s[f] = WaitsOn(d)
    BY DEF WaitLists
  <2> QED
    BY <2>1
<1>6. y \in F <=> \E c \in Contexts, i \in Pos : s[f] = Resuming(c, i) /\ y = <<"frame", c, i>>
  <2>1. \A c \in Contexts : \A i : i \in {n \in DOMAIN stack[c] : Leaves(stack[c][n], f)} <=> i \in Pos /\ s[f] = Resuming(c, i)
    BY LeavesIs
  <2> QED
    BY <2>1
<1>7. Homes(f) = A \cup B \cup C \cup D \cup E \cup F
  BY Zenon DEF Homes
<1> HIDE DEF A, B, C, D, E, F
<1>8. y \in Homes(f) <=> y \in A \/ y \in B \/ y \in C \/ y \in D \/ y \in E \/ y \in F
  BY <1>7
<1> QED
  BY <1>1, <1>2, <1>3, <1>4, <1>5, <1>6, <1>8 DEF AtHome

\* A fiber is in one home.
LEMMA HomeOnce ==
    ASSUME Shapes, SwitchOK, NEW s, Pools(s), WaitLists(s), NEW f \in Fiber, Fibers
    PROVE  Cardinality(Homes(f)) = 1
<1>1. s[f] \in Spot /\ s[f] # Nowhere
  BY DEF Pools
<1>2. CASE s[f] = Free
  <2>1. AtHome(s, f, <<"free", 0, 0>>)
    BY <1>2 DEF AtHome
  <2>2. ASSUME NEW y, AtHome(s, f, y) PROVE y = <<"free", 0, 0>>
    <3>1. s[f][1] = "free"
      BY <1>2, Spots
    <3>2. s[f] # Ready /\ (\A u : s[f] # RunBy(u) /\ s[f] # LeftBy(u) /\ s[f] # WaitsOn(u)) /\ \A c, i : s[f] # Resuming(c, i)
      BY <3>1, Spots
    <3> QED
      BY <2>2, <3>2 DEF AtHome
  <2> QED
    BY <2>1, <2>2, HomesAre, OneMember
<1>3. ASSUME NEW v \in Worker, s[f] = RunBy(v) PROVE Cardinality(Homes(f)) = 1
  <2>1. AtHome(s, f, <<"on", v, 0>>)
    BY <1>3 DEF AtHome
  <2>2. ASSUME NEW y, AtHome(s, f, y) PROVE y = <<"on", v, 0>>
    <3>1. s[f][1] = "on" /\ \A u : s[f] = RunBy(u) => u = v
      BY <1>3, Spots
    <3>2. s[f] # Free /\ s[f] # Ready /\ (\A u : s[f] # LeftBy(u) /\ s[f] # WaitsOn(u)) /\ \A c, i : s[f] # Resuming(c, i)
      BY <3>1, Spots
    <3> QED
      BY <2>2, <3>1, <3>2 DEF AtHome
  <2> QED
    BY <2>1, <2>2, HomesAre, OneMember
<1>4. ASSUME NEW v \in Worker, s[f] = LeftBy(v) PROVE Cardinality(Homes(f)) = 1
  <2>1. AtHome(s, f, <<"left", v, 0>>)
    BY <1>4 DEF AtHome
  <2>2. ASSUME NEW y, AtHome(s, f, y) PROVE y = <<"left", v, 0>>
    <3>1. s[f][1] = "left" /\ \A u : s[f] = LeftBy(u) => u = v
      BY <1>4, Spots
    <3>2. s[f] # Free /\ s[f] # Ready /\ (\A u : s[f] # RunBy(u) /\ s[f] # WaitsOn(u)) /\ \A c, i : s[f] # Resuming(c, i)
      BY <3>1, Spots
    <3> QED
      BY <2>2, <3>1, <3>2 DEF AtHome
  <2> QED
    BY <2>1, <2>2, HomesAre, OneMember
<1>5. CASE s[f] = Ready
  <2>1. Distinct(resumable) /\ f \in Range(resumable)
    BY <1>5 DEF Pools
  <2>2. PICK n : n \in Where(resumable, f)
    BY <2>1, WhereIs
  <2>3. \A m \in Where(resumable, f) : m = n
    BY <2>1, <2>2, WhereIs
  <2>4. AtHome(s, f, <<"resumable", 0, n>>)
    BY <1>5, <2>2 DEF AtHome
  <2>5. ASSUME NEW y, AtHome(s, f, y) PROVE y = <<"resumable", 0, n>>
    <3>1. s[f][1] = "resumable"
      BY <1>5, Spots
    <3>2. s[f] # Free /\ (\A u : s[f] # RunBy(u) /\ s[f] # LeftBy(u) /\ s[f] # WaitsOn(u)) /\ \A c, i : s[f] # Resuming(c, i)
      BY <3>1, Spots
    <3> QED
      BY <2>3, <2>5, <3>2 DEF AtHome
  <2> QED
    BY <2>4, <2>5, HomesAre, OneMember
<1>6. ASSUME NEW d \in Id, s[f] = WaitsOn(d) PROVE Cardinality(Homes(f)) = 1
  <2>1. AtHome(s, f, <<"list", d, 0>>)
    BY <1>6 DEF AtHome
  <2>2. ASSUME NEW y, AtHome(s, f, y) PROVE y = <<"list", d, 0>>
    <3>1. s[f][1] = "list" /\ \A u : s[f] = WaitsOn(u) => u = d
      BY <1>6, Spots
    <3>2. s[f] # Free /\ s[f] # Ready /\ (\A u : s[f] # RunBy(u) /\ s[f] # LeftBy(u)) /\ \A c, i : s[f] # Resuming(c, i)
      BY <3>1, Spots
    <3> QED
      BY <2>2, <3>1, <3>2 DEF AtHome
  <2> QED
    BY <2>1, <2>2, HomesAre, OneMember
<1>7. ASSUME NEW c \in Contexts, NEW i \in Pos, s[f] = Resuming(c, i) PROVE Cardinality(Homes(f)) = 1
  <2>1. AtHome(s, f, <<"frame", c, i>>)
    BY <1>7 DEF AtHome
  <2>2. ASSUME NEW y, AtHome(s, f, y) PROVE y = <<"frame", c, i>>
    <3>1. s[f][1] = "resume" /\ \A d, j : s[f] = Resuming(d, j) => d = c /\ j = i
      BY <1>7, Spots
    <3>2. s[f] # Free /\ s[f] # Ready /\ \A u : s[f] # RunBy(u) /\ s[f] # LeftBy(u) /\ s[f] # WaitsOn(u)
      BY <3>1, Spots
    <3> QED
      BY <2>2, <3>1, <3>2 DEF AtHome
  <2> QED
    BY <2>1, <2>2, HomesAre, OneMember
<1> QED
  BY <1>1, <1>2, <1>3, <1>4, <1>5, <1>6, <1>7 DEF Spot

\* The invariant implies the types.
LEMMA SchedTypes ==
    ASSUME NEW w, NEW s, NEW h, NEW r, Sound(w, s, h, r)
    PROVE  TypeOK
<1>1. Shapes /\ SwitchOK /\ Placed(w) /\ Counted(w, h, r) /\ Task \subseteq Job
  BY SoundParts, Programmed DEF Shapes
<1>2. \A i \in Id :
          /\ slots[i].gen \in Nat /\ slots[i].job \in Job \cup {None}
          /\ slots[i].dependents \in {0, Closed} \cup Id
          /\ slots[i].next \in {0} \cup Id
          /\ slots[i].waiters \in {None, Shut} \cup Fiber
          /\ slots[i].group \in Job \cup {None}
  <2>1. \A i \in Id : slots[i] \in SlotShape
    BY <1>1 DEF Shapes
  <2> QED
    BY <1>1, <2>1 DEF SlotShape
<1>3. alloc \in Nat \ {0} /\ live \in Nat
  BY <1>1, InUseIs DEF Shapes, Pos, Placed
<1>4. \A v \in Worker : Range(deque[v]) \subseteq Id /\ Len(deque[v]) <= DequeCapacity
  <2>1. \A v \in Worker : deque[v] \in Seq(Id) /\ Len(deque[v]) <= DequeCapacity
    BY <1>1 DEF Shapes
  <2> QED
    BY <2>1 DEF Range
<1>5. \A p \in {0, 1} : Range(inject[p]) \subseteq Id
  <2>1. \A p \in {0, 1} : inject[p] \in Seq(Id)
    BY <1>1 DEF Shapes
  <2> QED
    BY <2>1 DEF Range
<1>6. Range(resumable) \subseteq Fiber /\ free \subseteq Fiber /\ next \in [Fiber -> Fiber \cup {None}]
  BY <1>1 DEF Shapes, Range
<1>7. \A t \in Thread : on[t] \in {t} \cup Fiber
  BY <1>1, Sizes DEF SwitchOK
<1>8. \A c \in Thread \cup Fiber : \A i \in DOMAIN stack[c] :
          stack[c][i].k \in {"body", "submit", "pfor", "help", "finish", "join"}
  <2>1. \A c \in Contexts : \A i \in DOMAIN stack[c] : stack[c][i] \in Frame
    BY <1>1 DEF Shapes
  <2> QED
    BY <2>1, FrameKinds DEF Contexts
<1>9. \A j \in Job : handle[j].id \in {0} \cup Id /\ remaining[j] \in Nat
  <2>1. \A j \in Job : handle[j] \in HandleShape
    BY <1>1 DEF Shapes
  <2>2. \A j \in Job : remaining[j] \in Nat
    BY <1>1, FS_CardinalityType DEF Counted
  <2> QED
    BY <2>1, <2>2 DEF HandleShape
<1>10. exited \subseteq Worker /\ ended \subseteq Job
  BY <1>1 DEF Shapes
<1> QED
  BY <1>2, <1>3, <1>4, <1>5, <1>6, <1>7, <1>8, <1>9, <1>10 DEF TypeOK

\* The invariant implies that every job and every fiber is in one place.
LEMMA PlacesHold ==
    ASSUME NEW w, NEW s, NEW h, NEW r, Sound(w, s, h, r)
    PROVE  InOnePlace
<1>1. Shapes /\ SwitchOK /\ Placed(w) /\ Pools(s) /\ WaitLists(s) /\ w \in [Id -> Token] /\ Alive(w)
  BY SoundParts DEF Placed
<1>2. TypeOK
  BY SchedTypes
<1>3. ASSUME NEW id \in Id, slots[id].gen # 0
      PROVE  Cardinality(Places(id)) = (IF begun[slots[id].job] = 0 THEN 1 ELSE 0)
  <2>1. begun[slots[id].job] = IF w[id][1] \in {"body", "finish", "unused"} THEN 1 ELSE 0
    BY <1>1, <1>3 DEF Alive, SlotOK
  <2>2. w[id][1] \in {"unused", "deque", "inject", "list", "enqueue", "submit", "body", "finish"}
    BY <1>1, TokenTags
  <2>3. CASE w[id][1] \in {"body", "finish", "unused"}
    BY <1>1, <2>1, <2>3, PlaceNone
  <2>4. CASE w[id][1] \in {"deque", "inject", "list", "enqueue", "submit"}
    BY <1>1, <2>1, <2>4, PlaceOnce
  <2> QED
    BY <2>2, <2>3, <2>4
<1>4. Fibers => \A f \in Fiber : Cardinality(Homes(f)) = 1
  BY <1>1, HomeOnce
<1> QED
  BY <1>2, <1>3, <1>4 DEF InOnePlace

\* A job that was submitted and has not begun is in exactly one queue, list or hand,
\* a job that has begun is in none and begins once, and a fiber is in exactly one
\* pool, list or hand: none is lost or run twice (submit, enqueue_ready,
\* try_get_job, finish_job, wait), for every number of workers, slots and fibers.
THEOREM EveryJobInOnePlace ==
    ASSUME \A p \in Programs : Unmixed(p)
    PROVE  Spec /\ [][StaysAhead]_vars => []InOnePlace
<1>1. SchedInv => InOnePlace
  BY PlacesHold DEF SchedInv, Sound
<1> QED
  BY <1>1, SchedulerInvariant, PTL

\* When a worker leaves its loop, which is what stop() joins, no job is queued,
\* running or waiting for another and no fiber is parked: MayExit is asked for when
\* nothing is left, for every number of workers, slots and fibers.
THEOREM NothingIsLeftByStop ==
    ASSUME \A p \in Programs : Unmixed(p)
    PROVE  Spec /\ [][StaysAhead]_vars => []StopLeavesNothing
<1>1. SchedInv => StopLeavesNothing
  BY StopHolds DEF SchedInv, Sound
<1> QED
  BY <1>1, SchedulerInvariant, PTL

\* A job starts only after the one it depends on has ended, and wait() and
\* parallel_for() return only after what they wait for has ended.
THEOREM EveryWaitIsHonoured ==
    ASSUME \A p \in Programs : Unmixed(p)
    PROVE  Spec /\ [][StaysAhead]_vars => []WaitsHonoured
<1>1. SchedInv => WaitsHonoured
  BY WaitsHold DEF SchedInv, Sound
<1> QED
  BY <1>1, SchedulerInvariant, PTL
=============================================================================
