------------------------------ MODULE LogSinks ------------------------------
(***************************************************************************)
(* The sink registry of the log (core/Log.cpp): immutable lists that emit   *)
(* walks without a lock, writers that copy the current list and swap in     *)
(* the copy, and a ring of retired lists, each freed when the ring comes    *)
(* round to it.                                                             *)
(*                                                                         *)
(* No reader announces itself, so a list outlives a walk only because       *)
(* retirements are rare.  The bound: a call overlaps no more than Depth of   *)
(* them.  Addresses of freed lists are used again.                          *)
(***************************************************************************)
EXTENDS Integers, Sequences, FiniteSets

CONSTANTS
    Thread,     \* the threads that log and that register sinks
    Sink,       \* the sinks
    Addr,       \* the addresses lists may have
    Null,       \* no list
    Depth,      \* kSinkEpochDepth
    MaxCalls    \* bound: calls of the registry and of emit

ASSUME DepthAssumption == Depth \in Nat \ {0} /\ MaxCalls \in Nat
ASSUME AddrAssumption == Null \notin Addr

VARIABLES
    current,    \* g_sinks
    heap,       \* the lists in memory: the sinks at each address that has one
    retired,    \* SinkEpoch::retired
    head,       \* SinkEpoch::head
    call,       \* the call each thread is in
    calls       \* calls so far

registry == <<current, heap, retired, head>>

Idle == [at |-> "idle"]

\* The list at an address, as a reader finds it.
ListAt(a) == IF a = Null THEN <<>> ELSE heap[a]

Registry == INSTANCE SinkRegistry WITH sinks <- ListAt(current)

\* What a call that has just loaded g_sinks knows: the pointer, and, for the
\* properties only, the list it stood for and the retirements since.
Loaded == [old |-> current, seen |-> ListAt(current), age |-> 0]

\* Whether a call still uses the list it has loaded.
Uses(c) == c.at \in {"build", "swap", "walk"} /\ c.old # Null

SinksInit ==
    /\ current = Null
    /\ heap = <<>>
    /\ retired = [i \in 0 .. Depth - 1 |-> Null]
    /\ head = 0
    /\ call = [t \in Thread |-> Idle]
    /\ calls = 0

\* operator new: any free address, so that of a freed list may come back at once.
Vacant == Addr \ DOMAIN heap
With(a, list) == [b \in DOMAIN heap \cup {a} |-> IF b = a THEN list ELSE heap[b]]
\* operator delete
Without(a) == [b \in DOMAIN heap \ {a} |-> heap[b]]

\* add_sink() and remove_sink(): load the current list and allocate a new one,
Update(t, op, s) ==
    /\ call[t] = Idle /\ calls < MaxCalls
    /\ calls' = calls + 1
    /\ \E a \in Vacant :
          /\ heap' = With(a, <<>>)
          /\ call' = [call EXCEPT ![t] =
                [at |-> "build", op |-> op, sink |-> s, fresh |-> a,
                 old |-> Loaded.old, seen |-> Loaded.seen, age |-> 0]]
    /\ UNCHANGED <<current, retired, head>>

\* fill it from the loaded one; with no list there is nothing to remove,
Edited(op, s, list) ==
    IF op = "add" THEN Append(list, s) ELSE Registry!Others(list, s)

Build(t) ==
    LET c == call[t]
    IN  /\ c.at = "build"
        /\ IF c.op = "remove" /\ c.old = Null
           THEN /\ heap' = Without(c.fresh)
                /\ call' = [call EXCEPT ![t] = Idle]
           ELSE /\ heap' = With(c.fresh, Edited(c.op, c.sink, ListAt(c.old)))
                /\ call' = [call EXCEPT ![t].at = "swap"]
        /\ UNCHANGED <<current, retired, head, calls>>

\* Mutant: a failed swap is tried again as it is.
NotRebuilt(c) == [c EXCEPT !.old = current, !.seen = ListAt(current), !.age = 0]
\* and swap it in, or fill it anew from the list that got in between; a weak
\* exchange may fail for no reason too.
Rebuilt(c) ==
    [c EXCEPT !.old = current, !.seen = ListAt(current), !.age = 0, !.at = "build"]

Swap(t) ==
    /\ call[t].at = "swap"
    /\ \/ /\ current = call[t].old
          /\ current' = call[t].fresh
          /\ call' = [call EXCEPT ![t] = [at |-> "retire", old |-> call[t].old]]
       \/ /\ call' = [call EXCEPT ![t] = Rebuilt(@)]
          /\ UNCHANGED current
    /\ UNCHANGED <<heap, retired, head, calls>>

RemoveAll(t) ==
    /\ call[t] = Idle /\ calls < MaxCalls
    /\ calls' = calls + 1
    /\ current' = Null
    /\ call' = [call EXCEPT ![t] = [at |-> "retire", old |-> current]]
    /\ UNCHANGED <<heap, retired, head>>

\* Mutant: the list is deleted in place of the one the ring evicts.
EvictedNow(old) == old
Evicted(old) == retired[head]

\* retire_sink_list(): the list takes the place of the oldest retired one, which
\* is deleted.
Retire(t) ==
    LET old == call[t].old
    IN  /\ call[t].at = "retire" /\ old # Null
        /\ \A u \in Thread : Uses(call[u]) => call[u].age < Depth
        /\ retired' = [retired EXCEPT ![head] = old]
        /\ head' = (head + 1) % Depth
        /\ heap' = Without(Evicted(old))
        /\ call' = [u \in Thread |-> IF u = t THEN Idle
                                     ELSE IF Uses(call[u]) THEN [call[u] EXCEPT !.age = @ + 1]
                                     ELSE call[u]]
        /\ UNCHANGED <<current, calls>>

RetireNothing(t) ==
    /\ call[t].at = "retire" /\ call[t].old = Null
    /\ call' = [call EXCEPT ![t] = Idle]
    /\ UNCHANGED <<registry, calls>>

\* emit(): load the list and walk it.
Emit(t) ==
    /\ call[t] = Idle /\ calls < MaxCalls /\ current # Null
    /\ calls' = calls + 1
    /\ call' = [call EXCEPT ![t] =
          [at |-> "walk", old |-> Loaded.old, seen |-> Loaded.seen, age |-> 0, next |-> 1]]
    /\ UNCHANGED registry

Walked(t) == call[t].next > Len(ListAt(call[t].old))
NextSink(t) == ListAt(call[t].old)[call[t].next]

WalkEnds(t) ==
    /\ call[t].at = "walk" /\ Walked(t)
    /\ call' = [call EXCEPT ![t] = Idle]
    /\ UNCHANGED <<registry, calls>>

\* The next sink of the list has been called and returns.
SinkReturns(t) ==
    /\ call' = [call EXCEPT ![t].next = @ + 1]
    /\ UNCHANGED <<registry, calls>>

Registering(t) ==
    \/ \E s \in Sink : Update(t, "add", s) \/ Update(t, "remove", s)
    \/ Build(t) \/ Swap(t) \/ RemoveAll(t) \/ Retire(t) \/ RetireNothing(t)

-----------------------------------------------------------------------------

\* "The list is immutable ... the pinned epoch ring guarantees the old list
\* outlives our walk": as long as a thread walks or copies the list it has
\* loaded, and as long as it may still compare g_sinks with its address, the
\* list is there and holds the sinks that were registered when it was loaded.
SnapshotsHold ==
    \A t \in Thread : Uses(call[t]) =>
        call[t].old \in DOMAIN heap /\ heap[call[t].old] = call[t].seen

\* The registry implements SinkRegistry: whatever writers race, every change of
\* the registered list is one whole call, and none undoes another.
ImplementsSinkRegistry == Registry!Spec
=============================================================================
