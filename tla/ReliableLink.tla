---------------------------- MODULE ReliableLink ----------------------------
(***************************************************************************)
(* The reliable channel of engine/net: HostImpl with the send window of     *)
(* Reliability and the receive history of AckTracker, over LoopbackBus.     *)
(*                                                                         *)
(* The bus delivers a datagram inside the call that sends it, or drops it   *)
(* when the loss policy says so; handling a datagram never sends another    *)
(* one.  So an action is a call into one host together with what its        *)
(* datagram does at the other.  tick() sends several datagrams: it is cut   *)
(* into a step per datagram, and `ticking` keeps the two hosts, which run   *)
(* on one thread, from doing anything else meanwhile.                       *)
(*                                                                         *)
(* Sequence numbers are unbounded here; the 32-bit wrap is not modelled.    *)
(* tick_ is abstracted to the age of each frame, which is all it is for.    *)
(***************************************************************************)
EXTENDS Integers, Sequences, FiniteSets, FiniteSetsExt

CONSTANTS
    Host,           \* the endpoints
    Peer,           \* Peer[h]: the host at the other end
    Payload,        \* the messages, of at most 1500 bytes: send_raw_() drops
                    \* every copy of a longer one, which send() has accepted
    NoPayload,      \* the cleared payload of a free slot or a bare ack
    Script,         \* Script[h]: the messages the application at h sends
    SendWindow,     \* kSendWindow
    AckBits,        \* the width of ack_bits, 32 in the code
    RtoTicks,       \* kDefaultRtoTicks
    MaxSpan         \* bound of the environment: the application sends only
                    \* while its oldest unacknowledged frame is less than
                    \* MaxSpan behind

ASSUME PeerAssumption ==
    Peer \in [Host -> Host] /\ \A h \in Host : Peer[h] # h /\ Peer[Peer[h]] = h
ASSUME NoneAssumption == "none" \notin Host
ASSUME ScriptAssumption == \A h \in Host : Script[h] \in Seq(Payload)
ASSUME SizeAssumption ==
    /\ SendWindow \in Nat \ {0}
    /\ AckBits \in Nat \ {0}
    /\ RtoTicks \in Nat \ {0}
    /\ MaxSpan \in Nat \ {0}

VARIABLES
    known,      \* whether the host has registered its peer
    sender,     \* PeerState.send: the in-flight frames
    retired,    \* history: the sequence numbers retired by an ack
    receiver,   \* PeerState.recv, ooo_buffer and next_deliver
    owesAck,    \* whether the peer is in pending_ack_peers_
    inbox,      \* the reliable messages in inbox_
    surfaced,   \* history: the reliable messages poll() has handed over
    ticking,    \* the host inside tick(), or none
    due         \* the frames tick() has still to retransmit

linkVars == <<known, sender, retired, receiver, owesAck, inbox, surfaced,
              ticking, due>>

-----------------------------------------------------------------------------
\* The send side (class Reliability).  A slot is free or holds a frame; the
\* flag `acked` of a slot is set only when `in_use` is cleared, so a slot that
\* is in use is not acked.

Slot == 0..SendWindow-1
SlotOf(seq) == seq % SendWindow
Free == [inUse |-> FALSE, seq |-> 0, payload |-> NoPayload, age |-> 0]
InUse(seq, payload) == [inUse |-> TRUE, seq |-> seq, payload |-> payload, age |-> 0]

Holds(s, seq) == LET e == s.ring[SlotOf(seq)] IN e.inUse /\ e.seq = seq

WindowFull(s) == s.inflight >= SendWindow

\* enqueue(): the next sequence number and its slot.
Enqueued(s, payload) ==
    [ring |-> [s.ring EXCEPT ![SlotOf(s.nextSeq)] = InUse(s.nextSeq, payload)],
     nextSeq |-> s.nextSeq + 1, oldest |-> s.oldest, inflight |-> s.inflight + 1]

\* The sequence numbers an ack pair names; bit i is the frame base - 1 - i.
NamedOff(base, bits) == {base} \cup {base - i : i \in bits}   \* mutant: off by one
Named(base, bits) == {base} \cup {base - 1 - i : i \in bits}

Newly(s, base, bits) ==
    IF base = 0 THEN {} ELSE {q \in Named(base, bits) \ {0} : Holds(s, q)}

\* apply_ack(): retire the named frames, then advance oldest_unacked_ to the
\* first frame that is still held.
Retire(s, gone) ==
    LET ring == [i \in Slot |-> IF s.ring[i].inUse /\ s.ring[i].seq \in gone
                                THEN Free ELSE s.ring[i]]
        kept == {q \in s.oldest..s.nextSeq :
                   q = s.nextSeq \/ Holds([s EXCEPT !.ring = ring], q)}
    IN  [ring |-> ring, nextSeq |-> s.nextSeq, oldest |-> Min(kept),
         inflight |-> s.inflight - Cardinality(gone)]

AfterAck(s, base, bits) ==
    IF base = 0 THEN s ELSE Retire(s, Newly(s, base, bits))

\* tick_ moves on; ages saturate where collect_retransmits() stops looking.
Aged(s) ==
    [s EXCEPT !.ring = [i \in Slot |->
        IF s.ring[i].inUse /\ s.ring[i].age < RtoTicks
        THEN [s.ring[i] EXCEPT !.age = @ + 1] ELSE s.ring[i]]]

\* collect_retransmits(): the held frames the timeout has reached.
Expired(s) ==
    {q \in s.oldest..s.nextSeq-1 : Holds(s, q) /\ s.ring[SlotOf(q)].age >= RtoTicks}

\* mark_transmitted(): the timeout of a frame starts again.
Marked(s, seq) == [s EXCEPT !.ring[SlotOf(seq)].age = 0]

-----------------------------------------------------------------------------
\* The receive side (class AckTracker and the in-order cursor).

\* observe(): false for a frame the history already shows.
IsNew(r, seq) ==
    \/ seq > r.highest
    \/ r.highest - seq > AckBits
    \/ seq < r.highest /\ r.highest - seq - 1 \notin r.bits

\* The history after a new peak, delta above the last one.
\* Mutant: bit delta in place of delta - 1.
ShiftedOff(r, delta) ==
    IF delta > AckBits THEN {}
    ELSE {i + delta : i \in r.bits \cup {0}}
Shifted(r, delta) ==
    IF delta >= AckBits THEN {}
    ELSE ({i + delta : i \in r.bits} \cap 0..AckBits-1)
            \cup (IF r.highest # 0 THEN {delta - 1} ELSE {})

Observed(r, seq) ==
    IF seq > r.highest
    THEN [highest |-> seq, bits |-> Shifted(r, seq - r.highest),
          ooo |-> r.ooo, nextDeliver |-> r.nextDeliver]
    ELSE IF r.highest - seq > AckBits THEN r
    ELSE [r EXCEPT !.bits = @ \cup {r.highest - seq - 1}]

\* The frames buffered right behind the cursor, up to the first hole.
Run(r, first, n) ==
    /\ \A i \in 0..n-1 : first + i \in DOMAIN r.ooo
    /\ first + n \notin DOMAIN r.ooo

Without(f, S) == [x \in DOMAIN f \ S |-> f[x]]

-----------------------------------------------------------------------------
\* Datagrams.

DataFrame(h, seq, payload) ==
    [kind |-> "reliable", seq |-> seq, payload |-> payload,
     base |-> receiver[h].highest, bits |-> receiver[h].bits]

Bare(h, kind) ==
    [kind |-> kind, seq |-> 0, payload |-> NoPayload,
     base |-> receiver[h].highest, bits |-> receiver[h].bits]

\* handle_reliable_in_(): drop what was seen or already surfaced, deliver what
\* the cursor waits for and drain the frames behind it, buffer the rest.
Keep(h, r) == receiver' = [receiver EXCEPT ![h] = r] /\ UNCHANGED inbox

Surface(h, r, f) ==
    \E n \in 0..Cardinality(DOMAIN r.ooo) :
        /\ Run(r, f.seq + 1, n)
        /\ inbox' = [inbox EXCEPT ![h] =
              @ \o <<f.payload>> \o [i \in 1..n |-> r.ooo[f.seq + i]]]
        /\ receiver' = [receiver EXCEPT ![h] =
              [highest |-> r.highest, bits |-> r.bits,
               ooo |-> Without(r.ooo, f.seq+1..f.seq+n),
               nextDeliver |-> f.seq + 1 + n]]

Buffered(r, f) ==
    IF f.seq \in DOMAIN r.ooo THEN r
    ELSE [r EXCEPT !.ooo = [q \in DOMAIN @ \cup {f.seq} |->
                              IF q = f.seq THEN f.payload ELSE @[q]]]

\* Mutant: a frame that leaves a hole is surfaced at once.
HandleUnordered(h, f) ==
    LET r == Observed(receiver[h], f.seq)
    IN  IF ~IsNew(receiver[h], f.seq) THEN UNCHANGED <<receiver, inbox>>
        ELSE IF f.seq < r.nextDeliver THEN Keep(h, r)
        ELSE Surface(h, r, f)
HandleReliable(h, f) ==
    LET r == Observed(receiver[h], f.seq)
    IN  IF ~IsNew(receiver[h], f.seq) THEN UNCHANGED <<receiver, inbox>>
        ELSE IF f.seq < r.nextDeliver THEN Keep(h, r)
        ELSE IF f.seq = r.nextDeliver THEN Surface(h, r, f)
        ELSE Keep(h, Buffered(r, f))

\* on_datagram() of the peer of h, for a frame that h sends with its send side
\* already updated to s.  An unreliable payload goes straight to the inbox; it
\* matters here only as a carrier of acks.
Arrives(h, s, f) ==
    LET p == Peer[h]
        gone == Newly(sender[p], f.base, f.bits)
    IN  /\ known' = [known EXCEPT ![p] = TRUE]
        /\ sender' = [sender EXCEPT ![h] = s,
                                    ![p] = AfterAck(sender[p], f.base, f.bits)]
        /\ retired' = [retired EXCEPT ![p] = @ \cup gone]
        /\ IF f.kind = "reliable" THEN HandleReliable(p, f)
           ELSE UNCHANGED <<receiver, inbox>>

Dropped(h, s) ==
    /\ sender' = [sender EXCEPT ![h] = s]
    /\ UNCHANGED <<known, retired, receiver, inbox>>

\* send_raw_() and LoopbackBus::send_to().
Transmit(h, s, f, arrives) ==
    IF arrives THEN Arrives(h, s, f) ELSE Dropped(h, s)

\* on_datagram() remembers to ack every frame that carries a payload, a
\* duplicate too.
OwesForNew(p, f) == IsNew(receiver[p], f.seq)     \* mutant: not a duplicate
OwesFor(p, f) == TRUE

OwesAfter(h, f, arrives) ==
    owesAck' = [owesAck EXCEPT ![Peer[h]] = @ \/ (arrives /\ OwesFor(Peer[h], f))]

-----------------------------------------------------------------------------
\* The calls of the application.

\* connect(): a host that has heard from its peer knows it already.
Connect(h) ==
    /\ ticking = "none" /\ ~known[h]
    /\ known' = [known EXCEPT ![h] = TRUE]
    /\ UNCHANGED <<sender, retired, receiver, owesAck, inbox, surfaced, ticking, due>>

Accepted(h) == sender[h].nextSeq - 1

\* send(reliable): number the message, put it in its slot and transmit it.
Send(h, arrives) ==
    LET s == sender[h]
        f == DataFrame(h, s.nextSeq, Script[h][s.nextSeq])
    IN  /\ ticking = "none" /\ known[h]
        /\ Accepted(h) < Len(Script[h])
        /\ s.nextSeq - s.oldest < MaxSpan
        /\ ~WindowFull(s)
        /\ Transmit(h, Enqueued(s, f.payload), f, arrives)
        /\ OwesAfter(h, f, arrives)
        /\ UNCHANGED <<surfaced, ticking, due>>

\* send(unreliable): one shot, with the ack pair of the moment.
SendUnreliable(h, arrives) ==
    /\ ticking = "none" /\ known[h]
    /\ Transmit(h, sender[h], Bare(h, "unreliable"), arrives)
    /\ OwesAfter(h, Bare(h, "unreliable"), arrives)
    /\ UNCHANGED <<surfaced, ticking, due>>

\* poll(): the inbox goes to the application.
Poll(h) ==
    /\ ticking = "none" /\ inbox[h] # <<>>
    /\ surfaced' = [surfaced EXCEPT ![h] = @ \o inbox[h]]
    /\ inbox' = [inbox EXCEPT ![h] = <<>>]
    /\ UNCHANGED <<known, sender, retired, receiver, owesAck, ticking, due>>

\* tick(): first the clock and the list of frames to retransmit,
TickBegin(h) ==
    /\ ticking = "none"
    /\ ticking' = h
    /\ sender' = [sender EXCEPT ![h] = Aged(sender[h])]
    /\ due' = Expired(sender'[h])
    /\ UNCHANGED <<known, retired, receiver, owesAck, inbox, surfaced>>

\* then each of them, the oldest first,
TickResend(h, seq, arrives) ==
    LET f == DataFrame(h, seq, sender[h].ring[SlotOf(seq)].payload)
    IN  /\ ticking = h /\ seq \in due
        /\ \A q \in due : seq <= q
        /\ due' = due \ {seq}
        /\ Transmit(h, Marked(sender[h], seq), f, arrives)
        /\ OwesAfter(h, f, arrives)
        /\ UNCHANGED <<surfaced, ticking>>

\* and last the ack the host owes, if it owes one.
AckDue(h) == owesAck[h] /\ receiver[h].highest # 0

TickAck(h, arrives) ==
    /\ ticking = h /\ due = {} /\ AckDue(h)
    /\ Transmit(h, sender[h], Bare(h, "ack"), arrives)
    /\ owesAck' = [owesAck EXCEPT ![h] = FALSE]
    /\ ticking' = "none"
    /\ UNCHANGED <<surfaced, due>>

TickEnd(h) ==
    /\ ticking = h /\ due = {} /\ ~AckDue(h)
    /\ owesAck' = [owesAck EXCEPT ![h] = FALSE]
    /\ ticking' = "none"
    /\ UNCHANGED <<known, sender, retired, receiver, inbox, surfaced, due>>

-----------------------------------------------------------------------------
LinkInit ==
    /\ known = [h \in Host |-> FALSE]
    /\ sender = [h \in Host |->
          [ring |-> [i \in Slot |-> Free], nextSeq |-> 1, oldest |-> 1, inflight |-> 0]]
    /\ retired = [h \in Host |-> {}]
    /\ receiver = [h \in Host |->
          [highest |-> 0, bits |-> {}, ooo |-> <<>>, nextDeliver |-> 1]]
    /\ owesAck = [h \in Host |-> FALSE]
    /\ inbox = [h \in Host |-> <<>>]
    /\ surfaced = [h \in Host |-> <<>>]
    /\ ticking = "none"
    /\ due = {}

LinkNext ==
    \E h \in Host :
        \/ Connect(h) \/ Poll(h) \/ TickBegin(h) \/ TickEnd(h)
        \/ \E arrives \in BOOLEAN :
              \/ Send(h, arrives) \/ SendUnreliable(h, arrives) \/ TickAck(h, arrives)
              \/ \E seq \in due : TickResend(h, seq, arrives)

\* The main loop polls and ticks every host each frame, and the loss policy
\* drops neither every copy of a frame nor every ack.
Fairness ==
    \A h \in Host :
        /\ SF_linkVars(Poll(h))
        /\ SF_linkVars(TickBegin(h))
        /\ WF_linkVars(TickEnd(h))
        /\ WF_linkVars(\E seq \in due, arrives \in BOOLEAN : TickResend(h, seq, arrives))
        /\ WF_linkVars(\E arrives \in BOOLEAN : TickAck(h, arrives))
        /\ SF_linkVars(TickAck(h, TRUE))
        /\ \A seq \in 1..Len(Script[h]) : SF_linkVars(TickResend(h, seq, TRUE))

LinkSpec == LinkInit /\ [][LinkNext]_linkVars
FairSpec == LinkSpec /\ Fairness

-----------------------------------------------------------------------------
\* What a slot of the ring may hold.
Entry(h) ==
    {Free} \cup [inUse : {TRUE}, seq : 1..Accepted(h), payload : Payload, age : 0..RtoTicks]

\* Every counter, ring slot and history bit is in range; a slot that is in use
\* holds a frame of its own residue that has been numbered.
LinkTypeOK ==
    /\ known \in [Host -> BOOLEAN]
    /\ \A h \in Host :
          /\ sender[h].nextSeq \in 1..Len(Script[h])+1
          /\ sender[h].oldest \in 1..sender[h].nextSeq
          /\ sender[h].inflight \in 0..SendWindow
          /\ \A i \in Slot : /\ sender[h].ring[i] \in Entry(h)
                             /\ sender[h].ring[i] # Free => SlotOf(sender[h].ring[i].seq) = i
          /\ receiver[h].highest \in 0..Accepted(Peer[h])
          /\ receiver[h].bits \subseteq 0..AckBits-1
          /\ receiver[h].nextDeliver \in 1..Accepted(Peer[h])+1
          /\ DOMAIN receiver[h].ooo \subseteq receiver[h].nextDeliver+1..Accepted(Peer[h])
    /\ owesAck \in [Host -> BOOLEAN]
    /\ ticking \in Host \cup {"none"}
    /\ ticking = "none" => due = {}
    /\ ticking # "none" => due \subseteq {q \in 1..Accepted(ticking) : Holds(sender[ticking], q)}

\* The frames h has got from its peer, surfaced or waiting behind a hole.
Received(h) == 1..receiver[h].nextDeliver-1 \cup DOMAIN receiver[h].ooo

\* An ack retires only what arrived: the sender never forgets a frame, however
\* the acks are batched, piggybacked or lost and however the history shifts,
\* that the receiver does not have.
RetiredWasReceived == \A h \in Host : retired[h] \subseteq Received(Peer[h])

\* inflight_ never undercounts the ring, so it cannot wrap below zero and the
\* window never lets more frames out than it has slots.
InflightCoversHeld ==
    \A h \in Host :
        Cardinality({i \in Slot : sender[h].ring[i].inUse}) <= sender[h].inflight

\* Every message send() took is handed to the application of the peer, whatever
\* is dropped on the way.  The window counts frames, not how far apart they are,
\* so this needs an application that stays within SendWindow of its oldest
\* unacked frame.
EveryAcceptedArrives ==
    \A h \in Host : \A q \in 1..Len(Script[h]) :
        Accepted(h) >= q ~> Len(surfaced[Peer[h]]) >= q

\* Moreover it is acked, so that the window opens again and retransmission stops.
EveryAcceptedSettled ==
    \A h \in Host : \A q \in 1..Len(Script[h]) :
        Accepted(h) >= q ~> Len(surfaced[Peer[h]]) >= q /\ q \in retired[h]

\* The link implements the channel of FifoChannel: in order, without
\* duplicates, nothing made up.
DeliveredTo == [h \in Host |-> surfaced[h] \o inbox[h]]
Fifo == INSTANCE FifoChannel WITH
    accepted <- [h \in Host |-> Accepted(h)], delivered <- DeliveredTo
ImplementsFifo == Fifo!Spec
=============================================================================
