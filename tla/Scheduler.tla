----------------------------- MODULE Scheduler -----------------------------
(***************************************************************************)
(* The job scheduler of engine/jobs (Scheduler.cpp): a pool of workers that *)
(* run jobs from their own deques, from two injection queues and from each  *)
(* other, with dependencies, wait(), parallel_for() and stop(), on both of  *)
(* its backends.                                                            *)
(*                                                                         *)
(* A thread runs one stack at a time: its own, or on the fiber backend that *)
(* of a fiber it has switched to.  A stack is a sequence of frames, one per *)
(* call in progress.  An action is one access to shared state by the call   *)
(* on top of a thread's stack, with the thread-local work around it.  The   *)
(* deques are those of WorkDeque, which ChaseLev implements.  The idle      *)
(* sleep is left out: it is bounded by 300 microseconds, so an idle worker  *)
(* looks for work again whether or not it is woken.                         *)
(*                                                                         *)
(* What the jobs do is a program: a sequence of calls for each job.         *)
(***************************************************************************)
EXTENDS Integers, Sequences, FiniteSets, SequencesExt

CONSTANTS
    Worker,         \* the worker threads
    External,       \* the thread that runs the program's main
    Fiber,          \* the fibers there is memory for
    Pool,           \* Pool[w]: 0 for a performance worker, 1 for an efficient one
    JobPool,        \* kJobPoolPow2, the number of job slots
    DequeCapacity,  \* the capacity of a worker's deque
    Programs        \* the programs to run

ASSUME SizeAssumption == JobPool \in Nat \ {0} /\ DequeCapacity \in Nat \ {0}
ASSUME PoolAssumption == Pool \in [Worker -> {0, 1}]

VARIABLES
    program,    \* the program that runs: its calls, the pool of each job, the
                \* handles each job is given and whether it runs on Backend::Fiber
    slots,      \* Sched::jobs
    alloc,      \* alloc_counter
    live,       \* live_jobs
    deque,      \* the deque of each worker, the oldest first
    inject,     \* the two injection queues
    resumable,  \* the fibers that may run again
    free,       \* free_fibers, and the fibers not yet created
    next,       \* JobFiber::next_waiter
    pending,    \* Worker::pending, what to do with the fiber just left
    on,         \* the stack each thread runs: a fiber's or its own
    stack,      \* the frames of each stack
    stopping,   \* whether stop() was called
    exited,     \* the workers that have left their loop
    handle,     \* the handle submit() returned for each job
    remaining,  \* the counter of the parallel_for() each job is in
    begun,      \* history: how often each job was begun
    ended       \* history: the jobs whose function has returned

queues == <<deque, inject>>
fibers == <<resumable, free, next, pending>>
history == <<handle, begun, ended>>
vars == <<program, slots, alloc, live, queues, fibers, on, stack, stopping,
          exited, handle, remaining, begun, ended>>

Thread == Worker \cup {External}
Contexts == Thread \cup Fiber       \* what has a stack
Id == 1..JobPool
Job == DOMAIN program.calls
Fibers == program.fibers

-----------------------------------------------------------------------------
\* Programs.

Submit(j) == [op |-> "submit", job |-> j, dep |-> "none"]
SubmitAfter(j, k) == [op |-> "submit", job |-> j, dep |-> k]
Wait(j) == [op |-> "wait", job |-> j]
ParFor(chunks) == [op |-> "pfor", chunks |-> chunks]
Stop == [op |-> "stop"]

\* The calls that jobs J can make, the jobs a call submits, and those whose
\* handles job j has before its n-th call: it was given them, or submitted them.
CallsOf(J) ==
    [op : {"submit"}, job : J, dep : J \cup {"none"}] \cup [op : {"wait"}, job : J]
    \cup [op : {"pfor"}, chunks : Seq(J)] \cup [op : {"stop"}]

Submits(c) == IF c.op = "submit" THEN {c.job} ELSE IF c.op = "pfor" THEN Range(c.chunks) ELSE {}

HasHandle(p, j, n, k) ==
    \/ k \in p.given[j]
    \/ \E m \in 1..n-1 : p.calls[j][m].op = "submit" /\ p.calls[j][m].job = k

\* A program submits a job in one place, and names only jobs whose handles it has;
\* main calls stop(), last.
Uses(p, j, n) ==
    LET c == p.calls[j][n]
    IN  /\ c.op = "wait" => HasHandle(p, j, n, c.job)
        /\ c.op = "submit" /\ c.dep # "none" => HasHandle(p, j, n, c.dep)
        /\ \A k \in Submits(c) : \A g \in p.given[k] : HasHandle(p, j, n, g)
        /\ c.op = "pfor" => \A a, b \in DOMAIN c.chunks : c.chunks[a] = c.chunks[b] => a = b
        /\ c.op = "stop" => j = "main" /\ n = Len(p.calls[j])

WellFormed(p) ==
    LET J == DOMAIN p.calls
    IN  /\ "main" \in J /\ "none" \notin J
        /\ p.calls \in [J -> Seq(CallsOf(J \ {"main"}))]
        /\ p.pool \in [J -> {0, 1}] /\ p.given \in [J -> SUBSET J] /\ p.fibers \in BOOLEAN
        /\ p.given["main"] = {}
        /\ \A j \in J : \A n \in DOMAIN p.calls[j] : Uses(p, j, n)
        /\ \A i, j \in J : \A m \in DOMAIN p.calls[i], n \in DOMAIN p.calls[j] :
              Submits(p.calls[i][m]) \cap Submits(p.calls[j][n]) # {} => i = j /\ m = n

\* On fibers, its jobs do not both wait() and parallel_for(): none that runs inside
\* the loop of another can park the fiber.
Makes(p, op) == \E j \in DOMAIN p.calls \ {"main"} : \E n \in DOMAIN p.calls[j] : p.calls[j][n].op = op
Unmixed(p) == p.fibers => ~(Makes(p, "pfor") /\ Makes(p, "wait"))

ASSUME ProgramAssumption == \A p \in Programs : WellFormed(p)

-----------------------------------------------------------------------------
\* Frames, and the slot of a job.

Body(id, job) == [k |-> "body", id |-> id, job |-> job, pc |-> 1]
Submission(job, dep, group) ==
    [k |-> "submit", job |-> job, dep |-> dep, group |-> group, pc |-> "room", id |-> 0]
Chunks(job, list) == [k |-> "pfor", job |-> job, list |-> list]
Help(self, until) == [k |-> "help", self |-> self, until |-> until, pc |-> "check"]
Finish(id) == [k |-> "finish", id |-> id, pc |-> "dependents", cur |-> 0]
Join == [k |-> "join"]

NoHandle == [id |-> 0, gen |-> 0]
Closed == -1             \* kClosedDeps
None == "none"           \* a null pointer
Shut == "shut"           \* closed_fibers()

ASSUME NameAssumption ==
    /\ External \notin Worker /\ Fiber \cap (Worker \cup {External}) = {}
    /\ None \notin Fiber /\ Shut \notin Fiber

FreshSlot == [gen |-> 0, job |-> None, dependents |-> 0, next |-> 0,
              waiters |-> None, group |-> None]

Init ==
    /\ program \in Programs
    /\ slots = [i \in Id |-> FreshSlot]
    /\ alloc = 1
    /\ live = 0
    /\ deque = [w \in Worker |-> <<>>]
    /\ inject = [p \in {0, 1} |-> <<>>]
    /\ resumable = <<>>
    /\ free = IF Fibers THEN Fiber ELSE {}
    /\ next = [f \in Fiber |-> None]
    /\ pending = [w \in Worker |-> [kind |-> "none"]]
    /\ on = [t \in Thread |-> t]
    /\ stack = [c \in Thread \cup Fiber |->
                  IF c = External THEN <<Body(0, "main")>> ELSE <<>>]
    /\ stopping = FALSE
    /\ exited = {}
    /\ handle = [j \in Job |-> NoHandle]
    /\ remaining = [j \in Job |-> 0]
    /\ begun = [j \in Job |-> 0]
    /\ ended = {}

-----------------------------------------------------------------------------
\* The stack a thread runs.

Frames(t) == stack[on[t]]
Top(t) == Last(Frames(t))
In(t, k) == t \notin exited /\ Frames(t) # <<>> /\ Top(t).k = k

Becomes(t, frames) == stack' = [stack EXCEPT ![on[t]] = frames]
Replace(t, f) == Becomes(t, Append(Front(Frames(t)), f))
Call(t, f, g) == Becomes(t, Append(Front(Frames(t)), f) \o <<g>>)
Return(t) == Becomes(t, Front(Frames(t)))

-----------------------------------------------------------------------------
\* Queues.

\* enqueue_ready(): the worker's own deque when the job is of its pool and
\* there is room, else the injection queue of the pool.
FitsOwn(t, id) ==
    /\ t \in Worker /\ Pool[t] = program.pool[slots[id].job]
    /\ Len(deque[t]) < DequeCapacity

EnqueueReady(t, id) ==
    IF FitsOwn(t, id)
    THEN deque' = [deque EXCEPT ![t] = Append(@, id)] /\ UNCHANGED inject
    ELSE inject' = [inject EXCEPT ![program.pool[slots[id].job]] = Append(@, id)]
         /\ UNCHANGED deque

HasOwn(self) == self \in Worker /\ deque[self] # <<>>

\* What a pop() by thread t may leave of the deque of `self`.  pop() is for the
\* owner alone, and for it WorkDeque is what ChaseLev implements.  A pop by another
\* thread races the owner's own calls for `bottom`: it may leave the item it took
\* for the owner to take as well, or wipe out the item the owner has just pushed.
\* The theorems are about programs in which t = self.
Popped(t, self) ==
    LET d == deque[self]
    IN  {Front(d)} \cup IF t = self THEN {} ELSE {d, SubSeq(d, 1, Len(d) - 2)}

\* try_get_job() on thread t for `self`: its own newest job; else one from an
\* injection queue, or the oldest of another deque.  The queues are looked at one
\* after the other, so one that was empty when it was looked at may not be any more.
PopOwn(t, self, id) ==
    /\ HasOwn(self)
    /\ id = Last(deque[self])
    /\ \E rest \in Popped(t, self) : deque' = [deque EXCEPT ![self] = rest]
    /\ UNCHANGED inject

PopInject(id) ==
    \E p \in {0, 1} :
        /\ inject[p] # <<>> /\ id = Head(inject[p])
        /\ inject' = [inject EXCEPT ![p] = Tail(@)]
        /\ UNCHANGED deque

StealFrom(self, id) ==
    \E w \in Worker \ {self} :
        /\ deque[w] # <<>> /\ id = Head(deque[w])
        /\ deque' = [deque EXCEPT ![w] = Tail(@)]
        /\ UNCHANGED inject

TryGetJob(t, self, id) ==
    PopOwn(t, self, id) \/ (~HasOwn(self) /\ (PopInject(id) \/ StealFrom(self, id)))

NothingToGet ==
    (\A w \in Worker : deque[w] = <<>>) /\ (\A p \in {0, 1} : inject[p] = <<>>)

\* execute_job() starts: fn and user are read from the slot.
Begin(id) ==
    IF slots[id].job = None THEN UNCHANGED begun
    ELSE begun' = [begun EXCEPT ![slots[id].job] = @ + 1]

-----------------------------------------------------------------------------
\* Completion as other jobs see it.

IsComplete(h) ==
    \/ h.id = 0
    \/ slots[h.id].gen # h.gen
    \/ slots[h.id].dependents = Closed

IsClosed(id) == slots[id].dependents = Closed
IsShut(id) == slots[id].waiters = Shut

-----------------------------------------------------------------------------
\* alloc_job() and sched_submit().

SlotOf(c) == (c % JobPool) + 1
GenOf(c) == (c \div JobPool) + 1

\* The ring is full of live jobs: run one of them meanwhile.
HasRoom == live < JobPool

AllocRoom(t) ==
    /\ In(t, "submit") /\ Top(t).pc = "room" /\ HasRoom
    /\ Replace(t, [Top(t) EXCEPT !.pc = "take"])
    /\ UNCHANGED <<program, slots, alloc, live, queues, fibers, on, stopping,
                   exited, history, remaining>>

AllocHelp(t) ==
    /\ In(t, "submit") /\ Top(t).pc = "room" /\ ~HasRoom
    /\ \E id \in Id :
          /\ TryGetJob(t, t, id)
          /\ Begin(id)
          /\ Call(t, Top(t), Body(id, slots[id].job))
    /\ UNCHANGED <<program, slots, alloc, live, fibers, on, stopping, exited,
                   handle, ended, remaining>>

\* The next slot of the ring becomes the job's, whatever it held.
AllocTake(t) ==
    LET f == Top(t)
        id == SlotOf(alloc)
    IN  /\ In(t, "submit") /\ f.pc = "take"
        /\ slots' = [slots EXCEPT ![id] =
              [FreshSlot EXCEPT !.gen = GenOf(alloc), !.job = f.job, !.group = f.group]]
        /\ alloc' = alloc + 1
        /\ live' = live + 1
        /\ Replace(t, [f EXCEPT !.id = id, !.pc = IF f.dep = None THEN "ready" ELSE "dep"])
        /\ UNCHANGED <<program, queues, fibers, on, stopping, exited, history, remaining>>

\* What the caller gets.
Returned(f) == handle' = [handle EXCEPT ![f.job] = [id |-> f.id, gen |-> slots[f.id].gen]]

SubmitCheck(t) ==
    /\ In(t, "submit") /\ Top(t).pc = "dep"
    /\ Replace(t, [Top(t) EXCEPT !.pc =
                     IF IsComplete(handle[Top(t).dep]) THEN "ready" ELSE "link"])
    /\ UNCHANGED <<program, slots, alloc, live, queues, fibers, on, stopping,
                   exited, history, remaining>>

\* push_dependent(): the dependency may have finished since the check.
LinkRefused(d) == IsClosed(d)

\* Linked, the job is queued when the dependency finishes.
Linked(t, f) == Returned(f) /\ Return(t)

SubmitLink(t) ==
    LET f == Top(t)
        d == handle[f.dep].id
    IN  /\ In(t, "submit") /\ f.pc = "link"
        /\ IF LinkRefused(d)
           THEN Replace(t, [f EXCEPT !.pc = "ready"]) /\ UNCHANGED <<slots, handle>>
           ELSE /\ slots' = [slots EXCEPT ![f.id].next = slots[d].dependents,
                                          ![d].dependents = f.id]
                /\ Linked(t, f)
        /\ UNCHANGED <<program, alloc, live, queues, fibers, on, stopping,
                       exited, begun, ended, remaining>>

SubmitReady(t) ==
    /\ In(t, "submit") /\ Top(t).pc = "ready"
    /\ EnqueueReady(t, Top(t).id)
    /\ Returned(Top(t))
    /\ Return(t)
    /\ UNCHANGED <<program, slots, alloc, live, fibers, on, stopping, exited,
                   begun, ended, remaining>>

-----------------------------------------------------------------------------
\* t_worker, as the calls that keep it in a local variable read it.
SelfOf(t) == t

\* help_until(): run other jobs until the condition holds.  `self` is the
\* worker the call started on.

DoneEarly(until) ==         \* mutant: off by one
    IF "group" \in DOMAIN until THEN remaining[until.group] <= 1 ELSE IsComplete(until)
Done(until) ==
    IF "group" \in DOMAIN until THEN remaining[until.group] <= 0 ELSE IsComplete(until)

HelpCheck(t) ==
    /\ In(t, "help") /\ Top(t).pc = "check"
    /\ IF Done(Top(t).until) THEN Return(t) ELSE Replace(t, [Top(t) EXCEPT !.pc = "take"])
    /\ UNCHANGED <<program, slots, alloc, live, queues, fibers, on, stopping,
                   exited, history, remaining>>

HelpTake(t) ==
    /\ In(t, "help") /\ Top(t).pc = "take"
    /\ \E id \in Id :
          /\ TryGetJob(t, Top(t).self, id)
          /\ Begin(id)
          /\ Call(t, [Top(t) EXCEPT !.pc = "check"], Body(id, slots[id].job))
    /\ UNCHANGED <<program, slots, alloc, live, fibers, on, stopping, exited,
                   handle, ended, remaining>>

HelpYield(t) ==
    /\ In(t, "help") /\ Top(t).pc = "take" /\ NothingToGet
    /\ Replace(t, [Top(t) EXCEPT !.pc = "check"])
    /\ UNCHANGED <<program, slots, alloc, live, queues, fibers, on, stopping,
                   exited, history, remaining>>

-----------------------------------------------------------------------------
\* The calls of a job's function.

Calls(t) == program.calls[Top(t).job]
Calling(t, op) ==
    In(t, "body") /\ Top(t).pc <= Len(Calls(t)) /\ Calls(t)[Top(t).pc].op = op
Argument(t) == Calls(t)[Top(t).pc]
Advanced(t) == [Top(t) EXCEPT !.pc = @ + 1]

DoSubmit(t) ==
    /\ Calling(t, "submit")
    /\ Call(t, Advanced(t), Submission(Argument(t).job, Argument(t).dep, None))
    /\ UNCHANGED <<program, slots, alloc, live, queues, fibers, on, stopping,
                   exited, history, remaining>>

\* sched_wait(), the job is done.
WaitOver(t) ==
    /\ Calling(t, "wait") /\ IsComplete(handle[Argument(t).job])
    /\ Replace(t, Advanced(t))
    /\ UNCHANGED <<program, slots, alloc, live, queues, fibers, on, stopping,
                   exited, history, remaining>>

\* push_fiber_waiter(): the fiber goes on the list of the job it waits for.
NeverShut(id) == FALSE      \* mutant: pushed on whatever head there is
ParkRefused(id) == IsShut(id)

EnlistWaiter(f, id) ==
    /\ next' = [next EXCEPT ![f] = slots[id].waiters]
    /\ slots' = [slots EXCEPT ![id].waiters = f]

\* sched_wait() in a fiber: leave it to the worker to park the fiber, which
\* is still running and must not be seen by others yet.
Publish(f, id) == EnlistWaiter(f, id)       \* mutant: listed while it runs
Unpublished(f, id) == UNCHANGED <<next, slots>>

WaitPark(t) ==
    LET h == handle[Argument(t).job]
    IN  /\ Calling(t, "wait") /\ ~IsComplete(h)
        /\ Fibers /\ on[t] \in Fiber
        /\ pending' = [pending EXCEPT ![t] =
              [kind |-> "park", fiber |-> on[t], id |-> h.id]]
        /\ Unpublished(on[t], h.id)
        /\ Replace(t, Advanced(t))
        /\ on' = [on EXCEPT ![t] = t]
        /\ UNCHANGED <<program, alloc, live, queues, resumable, free, stopping,
                       exited, history, remaining>>

\* sched_wait() on a thread's own stack: help.
WaitHelp(t) ==
    /\ Calling(t, "wait") /\ ~IsComplete(handle[Argument(t).job])
    /\ ~(Fibers /\ on[t] \in Fiber)
    /\ Call(t, Advanced(t), Help(SelfOf(t), handle[Argument(t).job]))
    /\ UNCHANGED <<program, slots, alloc, live, queues, fibers, on, stopping,
                   exited, history, remaining>>

\* sched_parallel_for(): submit every chunk, then help.
DoParFor(t) ==
    /\ Calling(t, "pfor")
    /\ remaining' = [remaining EXCEPT ![Top(t).job] = Len(Argument(t).chunks)]
    /\ Call(t, Advanced(t), Chunks(Top(t).job, Argument(t).chunks))
    /\ UNCHANGED <<program, slots, alloc, live, queues, fibers, on, stopping,
                   exited, history>>

ParForChunk(t) ==
    LET f == Top(t)
    IN  /\ In(t, "pfor") /\ f.list # <<>>
        /\ Call(t, [f EXCEPT !.list = Tail(@)], Submission(Head(f.list), None, f.job))
        /\ UNCHANGED <<program, slots, alloc, live, queues, fibers, on, stopping,
                       exited, history, remaining>>

ParForHelp(t) ==
    /\ In(t, "pfor") /\ Top(t).list = <<>>
    /\ Replace(t, Help(SelfOf(t), [group |-> Top(t).job]))
    /\ UNCHANGED <<program, slots, alloc, live, queues, fibers, on, stopping,
                   exited, history, remaining>>

\* sched_stop(): raise the flag, then join the workers.
DoStop(t) ==
    /\ Calling(t, "stop")
    /\ stopping' = TRUE
    /\ Call(t, Advanced(t), Join)
    /\ UNCHANGED <<program, slots, alloc, live, queues, fibers, on, exited,
                   history, remaining>>

Joined(t) ==
    /\ In(t, "join") /\ exited = Worker
    /\ Return(t)
    /\ UNCHANGED <<program, slots, alloc, live, queues, fibers, on, stopping,
                   exited, history, remaining>>

BodyEnds(t) ==
    /\ In(t, "body") /\ Top(t).pc > Len(Calls(t))
    /\ ended' = ended \cup {Top(t).job}
    /\ IF Top(t).id = 0 THEN Return(t) ELSE Replace(t, Finish(Top(t).id))
    /\ UNCHANGED <<program, slots, alloc, live, queues, fibers, on, stopping,
                   exited, handle, begun, remaining>>

-----------------------------------------------------------------------------
\* finish_job().

Finishing(t, pc) == In(t, "finish") /\ Top(t).pc = pc

FinishClose(t) ==
    LET f == Top(t)
        head == slots[f.id].dependents
    IN  /\ Finishing(t, "dependents")
        /\ slots' = [slots EXCEPT ![f.id].dependents = Closed]
        /\ Replace(t, [f EXCEPT !.cur = head,
                                !.pc = IF head \in {0, Closed} THEN "waiters" ELSE "enqueue"])
        /\ UNCHANGED <<program, alloc, live, queues, fibers, on, stopping, exited,
                       history, remaining>>

FinishEnqueue(t) ==
    LET f == Top(t)
        rest == slots[f.cur].next
    IN  /\ Finishing(t, "enqueue")
        /\ EnqueueReady(t, f.cur)
        /\ Replace(t, [f EXCEPT !.cur = rest,
                                !.pc = IF rest \in {0, Closed} THEN "waiters" ELSE "enqueue"])
        /\ UNCHANGED <<program, slots, alloc, live, fibers, on, stopping, exited,
                       history, remaining>>

FinishShut(t) ==
    LET f == Top(t)
        head == slots[f.id].waiters
    IN  /\ Finishing(t, "waiters")
        /\ slots' = [slots EXCEPT ![f.id].waiters = Shut]
        /\ Replace(t, [f EXCEPT !.cur = head,
                                !.pc = IF head \in {None, Shut} THEN "group" ELSE "resume"])
        /\ UNCHANGED <<program, alloc, live, queues, fibers, on, stopping, exited,
                       history, remaining>>

FinishResume(t) ==
    LET f == Top(t)
        rest == next[f.cur]
    IN  /\ Finishing(t, "resume")
        /\ resumable' = Append(resumable, f.cur)
        /\ Replace(t, [f EXCEPT !.cur = rest,
                                !.pc = IF rest \in {None, Shut} THEN "group" ELSE "resume"])
        /\ UNCHANGED <<program, slots, alloc, live, queues, free, next, pending,
                       on, stopping, exited, history, remaining>>

FinishGroup(t) ==
    LET group == slots[Top(t).id].group
    IN  /\ Finishing(t, "group")
        /\ remaining' = IF group = None THEN remaining
                        ELSE [remaining EXCEPT ![group] = @ - 1]
        /\ Replace(t, [Top(t) EXCEPT !.pc = "live"])
        /\ UNCHANGED <<program, slots, alloc, live, queues, fibers, on, stopping,
                       exited, history>>

\* Last, the job is no longer live.  A fiber whose job is done goes back to its
\* worker (fiber_entry).
FinishLive(t) ==
    LET fiberDone == on[t] \in Fiber /\ Len(Frames(t)) = 1
    IN  /\ Finishing(t, "live")
        /\ live' = live - 1
        /\ Return(t)
        /\ pending' = IF fiberDone
                      THEN [pending EXCEPT ![t] = [kind |-> "recycle", fiber |-> on[t]]]
                      ELSE pending
        /\ on' = IF fiberDone THEN [on EXCEPT ![t] = t] ELSE on
        /\ UNCHANGED <<program, slots, alloc, queues, resumable, free, next,
                       stopping, exited, history, remaining>>

-----------------------------------------------------------------------------
\* The worker loops.

Idle(w) == w \notin exited /\ on[w] = w /\ stack[w] = <<>>
NothingPending(w) == pending[w].kind = "none"
Settled(w) == pending' = [pending EXCEPT ![w] = [kind |-> "none"]]

\* handle_pending(): the fiber has switched out, it may be published now.
Recycle(w) ==
    /\ Idle(w) /\ pending[w].kind = "recycle"
    /\ free' = free \cup {pending[w].fiber}
    /\ Settled(w)
    /\ UNCHANGED <<program, slots, alloc, live, queues, resumable, next, on,
                   stack, stopping, exited, history, remaining>>

Park(w) ==
    LET f == pending[w].fiber
        id == pending[w].id
    IN  /\ Idle(w) /\ pending[w].kind = "park"
        /\ IF ParkRefused(id)
           THEN resumable' = Append(resumable, f) /\ UNCHANGED <<slots, next>>
           ELSE EnlistWaiter(f, id) /\ UNCHANGED resumable
        /\ Settled(w)
        /\ UNCHANGED <<program, alloc, live, queues, free, on, stack, stopping,
                       exited, history, remaining>>

\* fiber_sched_loop(): fibers that may run again come first.
Resume(w) ==
    /\ Fibers /\ Idle(w) /\ NothingPending(w) /\ resumable # <<>>
    /\ on' = [on EXCEPT ![w] = Head(resumable)]
    /\ resumable' = Tail(resumable)
    /\ UNCHANGED <<program, slots, alloc, live, queues, free, next, pending,
                   stack, stopping, exited, history, remaining>>

\* The loop takes a job and runs it in a fiber, or on the worker's own stack
\* when there is no fiber left or the backend has none.
MayTake(w) == Idle(w) /\ NothingPending(w) /\ (Fibers => resumable = <<>>)

StartInFiber(w) ==
    /\ Fibers /\ MayTake(w) /\ free # {}
    /\ \E id \in Id :
          LET f == CHOOSE x \in free : TRUE
          IN  /\ TryGetJob(w, w, id)
              /\ Begin(id)
              /\ free' = free \ {f}
              /\ on' = [on EXCEPT ![w] = f]
              /\ stack' = [stack EXCEPT ![f] = <<Body(id, slots[id].job)>>]
    /\ UNCHANGED <<program, slots, alloc, live, resumable, next, pending,
                   stopping, exited, handle, ended, remaining>>

StartInline(w) ==
    /\ MayTake(w) /\ (Fibers => free = {})
    /\ \E id \in Id :
          /\ TryGetJob(w, w, id)
          /\ Begin(id)
          /\ stack' = [stack EXCEPT ![w] = <<Body(id, slots[id].job)>>]
    /\ UNCHANGED <<program, slots, alloc, live, fibers, on, stopping, exited,
                   handle, ended, remaining>>

\* The loop ends once stop() was called and no job is live.  The look at the
\* queues that found nothing lies before, and may be out of date by then.
ExitAtOnce == stopping      \* mutant: live jobs are not asked for
MayExit == stopping /\ live = 0

WorkerExit(w) ==
    /\ MayTake(w) /\ MayExit
    /\ exited' = exited \cup {w}
    /\ UNCHANGED <<program, slots, alloc, live, queues, fibers, on, stack,
                   stopping, history, remaining>>

-----------------------------------------------------------------------------
\* A job is in flight from alloc_job() to the end of its finish_job().
Finishes(id) ==
    \E c \in Contexts : \E i \in DOMAIN stack[c] : stack[c][i].k = "finish" /\ stack[c][i].id = id
Occupied(id) == slots[id].gen # 0 /\ (slots[id].job \notin ended \/ Finishes(id))

\* A step of a call, alloc_job()'s taking of a slot aside.
Step(t) ==
    \/ DoSubmit(t) \/ AllocRoom(t) \/ AllocHelp(t)
    \/ SubmitCheck(t) \/ SubmitLink(t) \/ SubmitReady(t)
    \/ HelpCheck(t) \/ HelpTake(t) \/ HelpYield(t)
    \/ WaitOver(t) \/ WaitPark(t) \/ WaitHelp(t)
    \/ DoParFor(t) \/ ParForChunk(t) \/ ParForHelp(t)
    \/ DoStop(t) \/ Joined(t) \/ BodyEnds(t)
    \/ FinishClose(t) \/ FinishEnqueue(t) \/ FinishShut(t) \/ FinishResume(t)
    \/ FinishGroup(t) \/ FinishLive(t)

Run(t) == Step(t) \/ AllocTake(t)

Loop(w) ==
    Recycle(w) \/ Park(w) \/ Resume(w) \/ StartInFiber(w) \/ StartInline(w) \/ WorkerExit(w)

\* Nothing is left to do: main has returned and the workers have been joined.
Over == Frames(External) = <<>> /\ exited = Worker

Next ==
    \/ \E t \in Thread : Run(t)
    \/ \E w \in Worker : Loop(w)
    \/ Over /\ UNCHANGED vars

Spec == Init /\ [][Next]_vars

\* The bound that the head comment of Scheduler.cpp asks of a program, and that
\* alloc_job() does not look at: the ring comes round to a slot only when the job
\* it held is over.
RingAhead == ~Occupied(SlotOf(alloc))
StaysAhead == alloc' # alloc => RingAhead

\* The programs that keep to it, as the runs take them: who would lap a job in
\* flight does not go on.
RunAhead(t) == Step(t) \/ (RingAhead /\ AllocTake(t))

NextAhead ==
    \/ \E t \in Thread : RunAhead(t)
    \/ \E w \in Worker : Loop(w)
    \/ Over /\ UNCHANGED vars

\* Every thread keeps running: the operating system schedules it.
Fairness ==
    /\ WF_vars(RunAhead(External))
    /\ \A w \in Worker : WF_vars(RunAhead(w) \/ Loop(w))

SpecAhead == Init /\ [][NextAhead]_vars
FairSpec == SpecAhead /\ Fairness

-----------------------------------------------------------------------------
\* Every queue holds slot ids, every stack frames of its jobs, every list ends
\* in its terminator, and the counters are in range.
TypeOK ==
    /\ \A i \in Id :
          /\ slots[i].gen \in Nat /\ slots[i].job \in Job \cup {None}
          /\ slots[i].dependents \in {0, Closed} \cup Id
          /\ slots[i].next \in {0} \cup Id
          /\ slots[i].waiters \in {None, Shut} \cup Fiber
          /\ slots[i].group \in Job \cup {None}
    /\ alloc \in Nat \ {0}
    /\ live \in Nat
    /\ \A w \in Worker : Range(deque[w]) \subseteq Id /\ Len(deque[w]) <= DequeCapacity
    /\ \A p \in {0, 1} : Range(inject[p]) \subseteq Id
    /\ Range(resumable) \subseteq Fiber /\ free \subseteq Fiber
    /\ next \in [Fiber -> Fiber \cup {None}]
    /\ \A t \in Thread : on[t] \in {t} \cup Fiber
    /\ \A c \in Thread \cup Fiber : \A i \in DOMAIN stack[c] :
          stack[c][i].k \in {"body", "submit", "pfor", "help", "finish", "join"}
    /\ \A j \in Job : handle[j].id \in {0} \cup Id /\ remaining[j] \in Nat
    /\ exited \subseteq Worker
    /\ ended \subseteq Job

\* The members of a linked list in S: the head, and what follows a member.
Members(S, head, link) ==
    IF head \notin S THEN {}
    ELSE {x \in S : \A T \in SUBSET S :
              head \in T /\ (\A y \in T : link[y] \in S => link[y] \in T) => x \in T}

Dependents(head) == Members(Id, head, [i \in Id |-> slots[i].next])
Waiters(head) == Members(Fiber, head, next)

Where(q, x) == {n \in DOMAIN q : q[n] = x}

\* Where the slot id of a job that has not begun can be: in a queue, on the list
\* of a job it depends on, or in the hands of a call that is about to queue it.
InHand(f, id) ==
    \/ f.k = "finish" /\ f.pc = "enqueue" /\ id \in Dependents(f.cur)
    \/ f.k = "submit" /\ f.id = id

Places(id) ==
    (UNION {{<<"deque", w, n>> : n \in Where(deque[w], id)} : w \in Worker})
    \cup (UNION {{<<"inject", p, n>> : n \in Where(inject[p], id)} : p \in {0, 1}})
    \cup {<<"list", d, 0>> : d \in {e \in Id : id \in Dependents(slots[e].dependents)}}
    \cup (UNION {{<<"frame", c, i>> : i \in {n \in DOMAIN stack[c] : InHand(stack[c][n], id)}} :
                 c \in Contexts})

\* Where a fiber can be: free, running, left by its worker, on the list of the job
\* it waits for, or on its way from there to the resumable ones.
Leaves(f, g) == f.k = "finish" /\ f.pc = "resume" /\ g \in Waiters(f.cur)

Homes(f) ==
    {<<"free", 0, 0>> : g \in free \cap {f}}
    \cup {<<"on", t, 0>> : t \in {u \in Thread : on[u] = f}}
    \cup {<<"left", w, 0>> : w \in {v \in Worker : ~NothingPending(v) /\ pending[v].fiber = f}}
    \cup {<<"resumable", 0, n>> : n \in Where(resumable, f)}
    \cup {<<"list", d, 0>> : d \in {e \in Id : f \in Waiters(slots[e].waiters)}}
    \cup (UNION {{<<"frame", c, i>> : i \in {n \in DOMAIN stack[c] : Leaves(stack[c][n], f)}} :
                 c \in Contexts})
\* No job is lost and none is queued twice, whatever the order in which submit,
\* finish_job and the other workers touch the dependents list and the queues; and
\* no fiber runs on two workers, waits on two lists or is lost: in particular it
\* is published to other workers only after it has switched out.
InOnePlace ==
    /\ TypeOK
    /\ \A id \in Id :
         slots[id].gen # 0 =>
             Cardinality(Places(id)) = (IF begun[slots[id].job] = 0 THEN 1 ELSE 0)
    /\ Fibers => \A f \in Fiber : Cardinality(Homes(f)) = 1

\* Whether the n-th call of job i has done what it is for.
Fulfilled(i, n) ==
    LET c == program.calls[i][n]
    IN  /\ c.op = "wait" => c.job \in ended
        /\ c.op = "pfor" => Range(c.chunks) \subseteq ended

\* A job runs at most once, and not before the job it depends on has returned;
\* wait() returns only after the job has finished, and parallel_for() only after
\* every chunk has: also when the caller was parked in a fiber and woken by the
\* completion, or held up by a job it helped with.  The program says what depends
\* on what.
WaitsHonoured ==
    /\ \A j \in Job : begun[j] <= 1
    /\ \A i \in Job : \A n \in DOMAIN program.calls[i] :
          LET c == program.calls[i][n]
          IN  c.op = "submit" /\ c.dep # None /\ begun[c.job] > 0 => c.dep \in ended
    /\ \A c \in Contexts : \A i \in DOMAIN stack[c] :
          LET f == stack[c][i]
              inCall == i < Len(stack[c]) \/ \A t \in Thread : on[t] # c
          IN  f.k = "body" => \A n \in 1..(f.pc - (IF inCall THEN 2 ELSE 1)) : Fulfilled(f.job, n)

\* stop() joins the workers only when nothing is left: no worker leaves while a
\* job is queued, waits for another or is parked in a fiber.
StopLeavesNothing ==
    exited # {} =>
        /\ \A id \in Id : slots[id].gen # 0 => IsClosed(id) /\ slots[id].job \in ended
        /\ NothingToGet
        /\ Fibers => \A f \in Fiber : f \in free \/ \E w \in Worker \ exited :
              pending[w].kind = "recycle" /\ pending[w].fiber = f

\* Only the owner of a deque pops from it: a call that is about to look for a
\* job as `self` runs on the worker `self`, also when its fiber has been parked
\* and resumed since the call began.
OwnerOnly == \A t \in Thread : In(t, "help") /\ Top(t).pc = "take" => Top(t).self = t

\* Every program comes to its end: every job it submitted runs and finishes,
\* every wait() and parallel_for() returns, and stop() joins the workers.
MainReturns == <>Over
=============================================================================
