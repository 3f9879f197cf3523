---------------------------- MODULE SchedulerInv ----------------------------
(***************************************************************************)
(* The inductive invariant of Scheduler.                                   *)
(*                                                                         *)
(* It names where everything is.  A token tells for each slot which queue, *)
(* list or frame holds its id (Placed), a spot tells for each fiber which  *)
(* pool, thread, list or frame has it (Parked), a stage tells for each job *)
(* whether its name is new, about to get a slot, in a slot or gone (Named),*)
(* and r tells for each chunk which parallel_for() still counts it         *)
(* (Counted).  The program keeps none of these: the invariant says that they*)
(* exist (SchedInv), and each step of the code moves at most one of them.  *)
(*                                                                         *)
(* The rest relates them.  Frames nest as the code's calls do (Nested), a  *)
(* handle names the slot of its job or an earlier lap of it (Handled), a job*)
(* that has left the list of the one it depends on finds that one ended    *)
(* (Depended), and a fiber that is off its thread waits for a job that has *)
(* ended or has the fiber on its list (Honoured).                          *)
(***************************************************************************)
EXTENDS Scheduler, FiniteSetTheorems, SequenceTheorems, TLAPS

-----------------------------------------------------------------------------
\* Shapes of values.

Pos == Nat \ {0}
Task == Job \ {"main"}

SlotShape == [gen : Nat, job : Task \cup {None}, dependents : {0, Closed} \cup Id,
              next : {0} \cup Id, waiters : {None, Shut} \cup Fiber, group : Job \cup {None}]
HandleShape == [id : {0} \cup Id, gen : Nat]

BodyFrame == [k : {"body"}, id : {0} \cup Id, job : Job, pc : Pos]
SubmitFrame ==
    {f \in [k : {"submit"}, job : Task, dep : Task \cup {None}, group : Job \cup {None},
            pc : {"room", "take", "dep", "link", "ready"}, id : {0} \cup Id] :
        /\ f.id = 0 <=> f.pc \in {"room", "take"}
        /\ f.pc \in {"dep", "link"} => f.dep # None}
ChunkFrame == [k : {"pfor"}, job : Job, list : Seq(Task)]
HelpFrame == [k : {"help"}, self : Thread, until : HandleShape \cup [group : Job],
              pc : {"check", "take"}]
FinishFrame ==
    {f \in [k : {"finish"}, id : Id,
            pc : {"dependents", "enqueue", "waiters", "resume", "group", "live"},
            cur : {0, Closed, None, Shut} \cup Id \cup Fiber] :
        /\ f.pc = "enqueue" => f.cur \in Id
        /\ f.pc = "resume" => f.cur \in Fiber}
Frame == BodyFrame \cup SubmitFrame \cup ChunkFrame \cup HelpFrame \cup FinishFrame \cup {Join}

PendingShape == [kind : {"none"}] \cup [kind : {"recycle"}, fiber : Fiber]
                \cup [kind : {"park"}, fiber : Fiber, id : Id]

Shapes ==
    /\ program \in Programs
    /\ slots \in [Id -> SlotShape]
    /\ alloc \in Pos /\ live \in Int
    /\ deque \in [Worker -> Seq(Id)] /\ inject \in [{0, 1} -> Seq(Id)]
    /\ \A v \in Worker : Len(deque[v]) <= DequeCapacity
    /\ resumable \in Seq(Fiber) /\ free \subseteq Fiber
    /\ next \in [Fiber -> Fiber \cup {None}]
    /\ pending \in [Worker -> PendingShape]
    /\ on \in [Thread -> Contexts] /\ stack \in [Contexts -> Seq(Frame)]
    /\ stopping \in BOOLEAN /\ exited \subseteq Worker
    /\ handle \in [Job -> HandleShape] /\ remaining \in [Job -> Int]
    /\ begun \in [Job -> Nat] /\ ended \subseteq Job

-----------------------------------------------------------------------------
\* The frame at a place of a stack, Blank where there is none.
Blank == [k |-> "none"]
FrameAt(c, i) == IF i \in DOMAIN stack[c] THEN stack[c][i] ELSE Blank
Busy(c) == FrameAt(c, 1) # Blank

\* A stack starts with the job it was started for, or with main.
Based(c) ==
    Busy(c) =>
        IF c = External
        THEN FrameAt(c, 1).k = "body" /\ FrameAt(c, 1).id = 0
        ELSE FrameAt(c, 1).k \in {"body", "finish"} /\ FrameAt(c, 1).id # 0

\* How threads, fibers and stacks fit together.
Stacks ==
    /\ on[External] = External
    /\ \A v \in Worker : on[v] \in {v} \cup Fiber
    /\ ~Fibers => free = {} /\ resumable = <<>> /\ (\A v \in Worker : on[v] = v)
    /\ \A v \in Worker : on[v] # v => NothingPending(v) /\ ~Busy(v) /\ Busy(on[v])
    /\ \A v \in Worker : ~NothingPending(v) => ~Busy(v)
    /\ \A v \in exited : on[v] = v /\ NothingPending(v) /\ ~Busy(v)
    /\ \A f \in free : ~Busy(f)
    /\ \A v \in Worker : pending[v].kind = "recycle" => ~Busy(pending[v].fiber)
    /\ \A v \in Worker : pending[v].kind = "park" =>
          Busy(pending[v].fiber) /\ slots[pending[v].id].gen # 0
    /\ \A c \in Contexts : Based(c)
    /\ \A c \in Contexts, i \in Pos :
          FrameAt(c, i).k = "body" /\ FrameAt(c, i).id = 0 =>
              c = External /\ i = 1 /\ FrameAt(c, i).job = "main"

-----------------------------------------------------------------------------
\* A call n of job j, and the frame that carries it out.
CallAt(j, n) == program.calls[j][n]

InCall(j, n, g) ==
    /\ n \in DOMAIN program.calls[j]
    /\ \/ /\ g.k = "submit" /\ CallAt(j, n).op = "submit" /\ g.group = None
          /\ g.job = CallAt(j, n).job /\ g.dep = CallAt(j, n).dep
       \/ g.k = "pfor" /\ CallAt(j, n).op = "pfor" /\ g.job = j
       \/ /\ g.k = "help" /\ CallAt(j, n).op = "wait"
          /\ g.until = handle[CallAt(j, n).job] /\ g.until # NoHandle
       \/ g.k = "help" /\ CallAt(j, n).op = "pfor" /\ g.until = [group |-> j]
       \/ g.k = "join" /\ CallAt(j, n).op = "stop"

\* What may stand on a frame.
Above(f, g) ==
    \/ g = Blank
    \/ f.k = "body" /\ f.pc > 1 /\ InCall(f.job, f.pc - 1, g)
    \/ f.k = "pfor" /\ g.k = "submit" /\ g.group = f.job /\ g.dep = None
    \/ f.k \in {"help", "submit"} /\ g.k \in {"body", "finish"} /\ g.id # 0

Nested == \A c \in Contexts, i \in Pos : Above(FrameAt(c, i), FrameAt(c, i + 1))

-----------------------------------------------------------------------------
\* Where each slot is: the queue, list or frame that holds its id.
Unused == <<"unused", 0, 0>>
OnDeque(v) == <<"deque", v, 0>>
OnInject(p) == <<"inject", p, 0>>
OnList(d) == <<"list", d, 0>>
Drained(c, i) == <<"enqueue", c, i>>
Held(k, c, i) == <<k, c, i>>

Holders == {"submit", "body", "finish"}
Token == {Unused} \cup {OnDeque(v) : v \in Worker} \cup {OnInject(p) : p \in {0, 1}}
         \cup {OnList(d) : d \in Id} \cup {Drained(c, i) : c \in Contexts, i \in Pos}
         \cup {Held(k, c, i) : k \in Holders, c \in Contexts, i \in Pos}

Distinct(q) == \A m, n \in DOMAIN q : q[m] = q[n] => m = n
Draining(f) == IF f.k = "finish" /\ f.pc = "enqueue" THEN f.cur ELSE 0
Holds(f, k, id) == f.k = k /\ f.id = id

Queued(w) ==
    /\ \A v \in Worker : /\ Distinct(deque[v])
                         /\ \A id \in Id : id \in Range(deque[v]) <=> w[id] = OnDeque(v)
    /\ \A p \in {0, 1} : /\ Distinct(inject[p])
                         /\ \A id \in Id : id \in Range(inject[p]) <=> w[id] = OnInject(p)

Listed(w) ==
    /\ \A d, id \in Id : id \in Dependents(slots[d].dependents) <=> w[id] = OnList(d)
    /\ \A c \in Contexts, i \in Pos, id \in Id :
          id \in Dependents(Draining(FrameAt(c, i))) <=> w[id] = Drained(c, i)
    /\ \A id \in Id : w[id][1] \in {"list", "enqueue"} => id \notin Dependents(slots[id].next)

Carried(w) ==
    \A c \in Contexts, i \in Pos, id \in Id, k \in Holders :
        Holds(FrameAt(c, i), k, id) <=> w[id] = Held(k, c, i)

SlotOK(id, tag) ==
    /\ slots[id].gen = 0 => slots[id] = FreshSlot /\ tag = "unused"
    /\ slots[id].gen # 0 =>
          /\ slots[id].job \in Task
          /\ begun[slots[id].job] = (IF tag \in {"body", "finish", "unused"} THEN 1 ELSE 0)
          /\ slots[id].job \in ended <=> tag \in {"finish", "unused"}
          /\ tag \notin {"finish", "unused"} => ~IsClosed(id) /\ ~IsShut(id)
          /\ tag = "unused" => IsClosed(id) /\ IsShut(id)

HolderOK(f) ==
    /\ f.k = "finish" =>
          /\ f.pc # "dependents" <=> IsClosed(f.id)
          /\ f.pc \in {"resume", "group", "live"} <=> IsShut(f.id)
    /\ f.k \in {"body", "submit"} /\ f.id # 0 => f.job = slots[f.id].job

Alive(w) ==
    /\ \A id \in Id : SlotOK(id, w[id][1])
    /\ \A c \in Contexts, i \in Pos : HolderOK(FrameAt(c, i))

InUse(w) == {id \in Id : w[id] # Unused}

Placed(w) ==
    /\ w \in [Id -> Token]
    /\ Queued(w) /\ Listed(w) /\ Carried(w) /\ Alive(w)
    /\ live = Cardinality(InUse(w))

-----------------------------------------------------------------------------
\* Where each fiber is.
Nowhere == <<"nowhere", 0, 0>>
Free == <<"free", 0, 0>>
Ready == <<"resumable", 0, 0>>
RunBy(t) == <<"on", t, 0>>
LeftBy(v) == <<"left", v, 0>>
WaitsOn(d) == <<"list", d, 0>>
Resuming(c, i) == <<"resume", c, i>>

Spot == {Nowhere, Free, Ready} \cup {RunBy(t) : t \in Worker} \cup {LeftBy(v) : v \in Worker}
        \cup {WaitsOn(d) : d \in Id} \cup {Resuming(c, i) : c \in Contexts, i \in Pos}

Waking(f) == IF f.k = "finish" /\ f.pc = "resume" THEN f.cur ELSE None

Parked(s) ==
    /\ s \in [Fiber -> Spot]
    /\ Distinct(resumable)
    /\ \A f \in Fiber :
          /\ ~Fibers <=> s[f] = Nowhere
          /\ f \in free <=> s[f] = Free
          /\ \A v \in Worker : on[v] = f <=> s[f] = RunBy(v)
          /\ \A v \in Worker : ~NothingPending(v) /\ pending[v].fiber = f <=> s[f] = LeftBy(v)
          /\ f \in Range(resumable) <=> s[f] = Ready
          /\ \A d \in Id : f \in Waiters(slots[d].waiters) <=> s[f] = WaitsOn(d)
          /\ \A c \in Contexts, i \in Pos :
                f \in Waiters(Waking(FrameAt(c, i))) <=> s[f] = Resuming(c, i)
          /\ s[f][1] \in {"list", "resume"} => f \notin Waiters(next[f])
          /\ s[f][1] \in {"nowhere", "free"} => ~Busy(f)
          /\ s[f][1] \in {"resumable", "on", "list", "resume"} => Busy(f)

-----------------------------------------------------------------------------
\* Where each job's name is: nobody has asked for it yet, a call is about to give
\* it a slot, it has a slot, or its slot has become another's.
New == <<"new", 0, 0>>
Gone == <<"gone", 0, 0>>
TheMain == <<"main", 0, 0>>
Asked(c, i) == <<"asked", c, i>>
InSlot(id) == <<"slot", id, 0>>
Stage == {New, Gone, TheMain} \cup {Asked(c, i) : c \in Contexts, i \in Pos}
         \cup {InSlot(id) : id \in Id}

Asks(f, j) == (f.k = "submit" /\ f.id = 0 /\ f.job = j) \/ (f.k = "pfor" /\ j \in Range(f.list))

\* What j may still submit is new.
Unasked(h, j, n) ==
    \A m \in DOMAIN program.calls[j] : m >= n => \A k \in Submits(CallAt(j, m)) : h[k] = New

Named(h) ==
    /\ h \in [Job -> Stage] /\ h["main"] = TheMain
    /\ \A id \in Id, j \in Task : slots[id].job = j <=> h[j] = InSlot(id)
    /\ \A c \in Contexts, i \in Pos :
          /\ \A j \in Task : Asks(FrameAt(c, i), j) <=> h[j] = Asked(c, i)
          /\ FrameAt(c, i).k = "pfor" => Distinct(FrameAt(c, i).list)
          /\ FrameAt(c, i).k = "body" => Unasked(h, FrameAt(c, i).job, FrameAt(c, i).pc)
    /\ \A j \in Task :
          /\ h[j] # TheMain
          /\ h[j][1] \in {"new", "asked"} => begun[j] = 0 /\ j \notin ended /\ handle[j] = NoHandle
          /\ h[j] = Gone => begun[j] = 1 /\ j \in ended
          /\ begun[j] = 0 => Unasked(h, j, 1)
    /\ begun["main"] = 0 /\ handle["main"] = NoHandle

\* What a handle names, and the laps of the ring.
Handled(h) ==
    /\ \A j \in Job :
          \/ handle[j] = NoHandle
          \/ /\ handle[j].id \in Id
             /\ \/ h[j] = InSlot(handle[j].id) /\ handle[j].gen = slots[handle[j].id].gen
                \/ h[j] = Gone /\ handle[j].gen < slots[handle[j].id].gen
    /\ \A id \in Id : slots[id].gen # 0 =>
          \E n \in 1..alloc-1 : SlotOf(n) = id /\ slots[id].gen = GenOf(n)
    /\ \A c \in Contexts, i \in Pos :
          LET f == FrameAt(c, i)
          IN  f.k = "submit" =>
                /\ handle[f.job] = NoHandle
                /\ f.dep # None => handle[f.dep] # NoHandle
                /\ f.pc = "link" => handle[f.dep].id # f.id

\* The handles that a job has, and those a job was given.
Known(h) ==
    /\ \A c \in Contexts, i \in Pos :
          LET f == FrameAt(c, i)
              n == IF FrameAt(c, i + 1).k = "submit" THEN f.pc - 1 ELSE f.pc
          IN  f.k = "body" =>
                \A k \in Job : HasHandle(program, f.job, n, k) => handle[k] # NoHandle
    /\ \A k \in Task : h[k] # New => \A g \in program.given[k] : handle[g] # NoHandle

-----------------------------------------------------------------------------
\* The parallel_for() that still counts a job: r[k] is the job that called it.
ChunksOf(r, j) == {k \in Task : r[k] = j}
Looping(f, j) == (f.k = "pfor" /\ f.job = j) \/ (f.k = "help" /\ f.until = [group |-> j])

Counted(w, h, r) ==
    /\ r \in [Task -> Job \cup {None}]
    /\ \A j \in Job : IsFiniteSet(ChunksOf(r, j)) /\ remaining[j] = Cardinality(ChunksOf(r, j))
    /\ \A k \in Task : h[k] = New => r[k] = None
    /\ \A c \in Contexts, i \in Pos :
          LET f == FrameAt(c, i)
          IN  /\ f.k = "pfor" => \A k \in Range(f.list) : r[k] = f.job
              /\ f.k = "submit" /\ f.group # None => r[f.job] = f.group
              /\ f.k = "body" => \A j \in Job : Looping(FrameAt(c, i + 1), j) =>
                    \A k \in Range(CallAt(j, f.pc - 1).chunks) : r[k] = j \/ k \in ended
    /\ \A id \in Id :
          /\ w[id] # Unused /\ slots[id].group # None
          /\ \A c \in Contexts, i \in Pos :
                Holds(FrameAt(c, i), "finish", id) => FrameAt(c, i).pc # "live"
          => r[slots[id].job] = slots[id].group
    /\ \A k \in Task : r[k] # None => \E c \in Contexts, i \in Pos : Looping(FrameAt(c, i), r[k])

-----------------------------------------------------------------------------
\* Job k is submitted after job d.
Depends(k, d) ==
    /\ d # None
    /\ \E i \in Job : \E n \in DOMAIN program.calls[i] :
          CallAt(i, n).op = "submit" /\ CallAt(i, n).job = k /\ CallAt(i, n).dep = d

\* A job that has left the list of the one it depends on finds that one ended.
Depended(w, h) ==
    \A k, d \in Task : Depends(k, d) =>
        /\ h[k] = Gone => d \in ended
        /\ \A id \in Id : h[k] = InSlot(id) =>
              /\ w[id][1] \notin {"submit", "list"} => d \in ended
              /\ \A e \in Id : w[id] = OnList(e) => d \in ended \/ slots[e].job = d
        /\ \A c \in Contexts, i \in Pos :
              LET f == FrameAt(c, i)
              IN  /\ f.k = "submit" /\ f.job = k => f.dep = d /\ (f.pc = "ready" => d \in ended)
                  /\ f.k = "pfor" => k \notin Range(f.list)

\* The job a stack waits for, its topmost call being a wait().
Awaits(c, k) ==
    \E i \in Pos :
        LET f == FrameAt(c, i)
        IN  /\ f.k = "body" /\ FrameAt(c, i + 1) = Blank /\ f.pc > 1
            /\ f.pc - 1 \in DOMAIN program.calls[f.job]
            /\ CallAt(f.job, f.pc - 1) = Wait(k)

Honoured(s) ==
    /\ \A c \in Contexts, i \in Pos :
          LET f == FrameAt(c, i)
          IN  f.k = "body" =>
                \A n \in 1..f.pc-1 :
                    \/ Fulfilled(f.job, n)
                    \/ n = f.pc - 1 /\ (FrameAt(c, i + 1) # Blank \/ \A t \in Thread : on[t] # c)
    /\ \A f \in Fiber :
          /\ s[f][1] \in {"resumable", "resume"} => \E k \in ended : Awaits(f, k)
          /\ \A d \in Id : s[f] = WaitsOn(d) =>
                \E k \in Job : Awaits(f, k) /\ (k \in ended \/ slots[d].job = k)
          /\ \A v \in Worker : s[f] = LeftBy(v) /\ pending[v].kind = "park" =>
                \E k \in Job : Awaits(f, k) /\ (k \in ended \/ slots[pending[v].id].job = k)

\* stop() is main's last call, and workers leave when no job is left.
Stopped ==
    /\ stopping => \A i \in Pos :
          \/ FrameAt(External, i) = Blank
          \/ i = 1 /\ FrameAt(External, i).pc > Len(program.calls["main"])
          \/ i = 2 /\ FrameAt(External, i).k = "join"
    /\ exited # {} => stopping /\ live = 0

SchedInv ==
    /\ Shapes /\ Stacks /\ Nested /\ Stopped
    /\ \E w, s, h, r :
          /\ Placed(w) /\ Parked(s) /\ Named(h) /\ Handled(h) /\ Known(h)
          /\ Counted(w, h, r) /\ Depended(w, h) /\ Honoured(s)

-----------------------------------------------------------------------------
\* A call helps on the stack that its worker runs.  On fibers that is so while
\* no job that runs inside the call can park it, and none can where the jobs do
\* not both wait() and parallel_for().
Stays(c, f) ==
    /\ f.k = "help" => on[f.self] = c
    /\ c \in Fiber /\ f.k \in {"help", "pfor"} => Makes(program, "pfor")

HelpsOwn ==
    /\ Unmixed(program)
    /\ \A c \in Contexts, i \in Pos : Stays(c, FrameAt(c, i))
=============================================================================
