--------------------------- MODULE FlightRecorder ---------------------------
(***************************************************************************)
(* The black box (core/FlightRecorder.cpp): a ring of the last Capacity      *)
(* events.  Any thread records, directly or as the log calls the recorder's  *)
(* tap, and any thread, a crash handler too, dumps the ring meanwhile.        *)
(*                                                                         *)
(* A slot's parts are plain memory and written one by one; its sequence      *)
(* number is stored last.  A dump reads the number, the parts, and the       *)
(* number again; an acquire load does not hold back the loads before it,     *)
(* so parts and second look come in any order.  An event is known by its     *)
(* ticket, which is what its parts hold in the model.                        *)
(***************************************************************************)
EXTENDS LogSinks

CONSTANTS
    Tap,        \* log_tap_sink
    Capacity,   \* kCapacity
    MaxEvents,  \* bound: events recorded
    MaxDumps    \* bound: dumps

ASSUME TapAssumption == Tap \in Sink
ASSUME RingAssumption == Capacity \in Nat \ {0} /\ MaxEvents \in Nat /\ MaxDumps \in Nat

VARIABLES
    writeSeq,   \* write_seq_, the next ticket
    ring,       \* ring_: the sequence number and the parts of every slot
    record,     \* the record() each thread is in
    dump,       \* the dump under way
    dumps       \* dumps so far

logging == <<registry, call, calls>>
vars == <<logging, writeSeq, ring, record, dump, dumps>>

Part == {"text", "meta"}
Field == Part \cup {"seq"}

\* A slot that holds the event of a ticket; 0 is the number of no event.
Event(ticket) == [p \in Field |-> IF p = "seq" THEN ticket + 1 ELSE ticket]

\* Mutant: a mask that is one bit short.
SlotMasked(ticket) == IF Capacity = 1 THEN 0 ELSE ticket % (Capacity - 1)
SlotOf(ticket) == ticket % Capacity

None == [ticket |-> -1, todo |-> {}]
Empty == Event(-1)
Resting == [at |-> "rest"]

Init ==
    /\ SinksInit
    /\ writeSeq = 0
    /\ ring = [i \in 0 .. Capacity - 1 |-> Empty]
    /\ record = [t \in Thread |-> None]
    /\ dump = Resting /\ dumps = 0

-----------------------------------------------------------------------------
\* record().

\* The log has called the tap on this thread.
Tapped(t) == call[t].at = "walk" /\ ~Walked(t) /\ NextSink(t) = Tap

\* A direct call, or the tap's: a ticket is taken.  The bound: no thread is held
\* up inside record() for a whole lap of the ring.
TakeTicket(t) ==
    /\ record[t] = None
    /\ call[t] = Idle \/ Tapped(t)
    /\ writeSeq < MaxEvents
    /\ \A u \in Thread : record[u] # None => writeSeq < record[u].ticket + Capacity
    /\ writeSeq' = writeSeq + 1
    /\ record' = [record EXCEPT ![t] = [ticket |-> writeSeq, todo |-> Field]]
    /\ UNCHANGED <<logging, ring, dump, dumps>>

\* Mutant: the sequence number is not stored with release.
AnyOrder(r, p) == TRUE
\* "Publish last with release."
InOrder(r, p) == p = "seq" => r.todo = {"seq"}

WritePart(t, p) ==
    LET r == record[t]
    IN  /\ p \in r.todo /\ InOrder(r, p)
        /\ ring' = [ring EXCEPT ![SlotOf(r.ticket)][p] = Event(r.ticket)[p]]
        /\ record' = [record EXCEPT ![t].todo = @ \ {p}]
        /\ UNCHANGED <<logging, writeSeq, dump, dumps>>

\* record() returns to its caller, or to the log.
RecordReturns(t) ==
    /\ record[t] # None /\ record[t].todo = {}
    /\ record' = [record EXCEPT ![t] = None]
    /\ IF Tapped(t) THEN SinkReturns(t) ELSE UNCHANGED logging
    /\ UNCHANGED <<writeSeq, ring, dump, dumps>>

-----------------------------------------------------------------------------
\* dump() and dump_to_file().

DumpBegin ==
    /\ dump = Resting /\ dumps < MaxDumps
    /\ dumps' = dumps + 1
    /\ dump' = [at |-> "look", total |-> writeSeq,
                ticket |-> IF writeSeq < Capacity THEN 0 ELSE writeSeq - Capacity]
    /\ UNCHANGED <<logging, writeSeq, ring, record>>

GoOn == dump' = [at |-> "look", total |-> dump.total, ticket |-> dump.ticket + 1]

\* read_event(): the slot must hold the event,
DumpLook ==
    /\ dump.at = "look" /\ dump.ticket < dump.total
    /\ IF ring[SlotOf(dump.ticket)].seq = dump.ticket + 1
       THEN dump' = [at |-> "read", total |-> dump.total, ticket |-> dump.ticket,
                     got |-> <<>>, todo |-> Field]
       ELSE GoOn
    /\ UNCHANGED <<logging, writeSeq, ring, record, dumps>>

\* its parts are copied, and the number is looked at again.
DumpRead(p) ==
    /\ dump.at = "read" /\ p \in dump.todo
    /\ dump' = [dump EXCEPT !.todo = @ \ {p},
                            !.got = [q \in DOMAIN @ \cup {p} |->
                                       IF q = p THEN ring[SlotOf(dump.ticket)][p] ELSE @[q]]]
    /\ UNCHANGED <<logging, writeSeq, ring, record, dumps>>

\* The event is printed if the number was the same.
Accepted == dump.at = "read" /\ dump.todo = {} /\ dump.got["seq"] = dump.ticket + 1

DumpNext ==
    /\ dump.at = "read" /\ dump.todo = {}
    /\ GoOn
    /\ UNCHANGED <<logging, writeSeq, ring, record, dumps>>

DumpEnds ==
    /\ dump.at = "look" /\ dump.ticket = dump.total
    /\ dump' = Resting
    /\ UNCHANGED <<logging, writeSeq, ring, record, dumps>>

-----------------------------------------------------------------------------
\* The log on a thread that is not recording.
Logging(t) ==
    /\ record[t] = None
    /\ \/ Registering(t) \/ Emit(t) \/ WalkEnds(t)
       \/ call[t].at = "walk" /\ ~Walked(t) /\ NextSink(t) # Tap /\ SinkReturns(t)
    /\ UNCHANGED <<writeSeq, ring, record, dump, dumps>>

Recording(t) ==
    TakeTicket(t) \/ (\E p \in Field : WritePart(t, p)) \/ RecordReturns(t)

Dumping ==
    DumpBegin \/ DumpLook \/ (\E p \in Field : DumpRead(p)) \/ DumpNext \/ DumpEnds

Next == (\E t \in Thread : Logging(t) \/ Recording(t)) \/ Dumping

Spec == Init /\ [][Next]_vars

-----------------------------------------------------------------------------

TypeOK ==
    /\ DOMAIN heap \subseteq Addr /\ current \in Addr \cup {Null} /\ head \in 0 .. Depth - 1
    /\ \A i \in 0 .. Depth - 1 : retired[i] \in Addr \cup {Null}
    /\ writeSeq \in 0 .. MaxEvents
    /\ \A i \in 0 .. Capacity - 1 :
          /\ ring[i].seq \in 0 .. MaxEvents
          /\ \A p \in Part : ring[i][p] \in -1 .. MaxEvents - 1
    /\ \A t \in Thread : record[t].ticket \in -1 .. MaxEvents - 1
    /\ dump.at \in {"rest", "look", "read"}

\* "Only the last kCapacity are retained", but those are: when no record() is
\* under way the ring holds exactly the last events, each whole and in its slot,
\* however many threads recorded at once and in whatever order they finished.
RetainsTheLast ==
    /\ TypeOK
    /\ (\A t \in Thread : record[t] = None) =>
         \A n \in 0 .. writeSeq - 1 : writeSeq - n <= Capacity =>
            ring[SlotOf(n)] = Event(n)

\* "A slot can tear" only "under heavy concurrent recording": an event is printed
\* whole and as what it is, although nothing stops the writers, unless a record()
\* a whole lap ahead of it has begun before it was copied.
DumpIsFaithful ==
    Accepted /\ writeSeq <= dump.ticket + Capacity =>
        \A p \in Part : dump.got[p] = dump.ticket
=============================================================================
