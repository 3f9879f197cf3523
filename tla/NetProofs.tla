----------------------------- MODULE NetProofs ------------------------------
(***************************************************************************)
(* Theorems about the net components: the reliable channel between two     *)
(* hosts (ReliableLink), then replication and the match loop over it       *)
(* (Replication, Match).                                                   *)
(***************************************************************************)
EXTENDS ReliableLink, Match, FiniteSetTheorems, WellFoundedInduction,
        NaturalsInduction, SequenceTheorems, TLAPS

-----------------------------------------------------------------------------
(***************************************************************************)
(* Proofs about ReliableLink, for every window, history width, timeout and  *)
(* script: the state stays in range, an ack retires only what arrived, and  *)
(* the link implements the channel of FifoChannel.                          *)
(***************************************************************************)

\* The invariant, as predicates on the two halves of a host.

SlotType == [inUse : BOOLEAN, seq : Nat, payload : Payload \cup {NoPayload}, age : 0..RtoTicks]

SenderType ==
    [ring : [Slot -> SlotType], nextSeq : Nat, oldest : Nat, inflight : Nat]

Used(s) == {i \in Slot : s.ring[i].inUse}

\* A slot in use holds the message that was numbered with its seq.
RingOK(h, s) ==
    \A i \in Slot :
        \/ s.ring[i] = Free
        \/ /\ s.ring[i].inUse
           /\ s.ring[i].seq \in 1..s.nextSeq-1
           /\ SlotOf(s.ring[i].seq) = i
           /\ s.ring[i].payload = Script[h][s.ring[i].seq]

SenderOK(h, s) ==
    /\ s \in SenderType
    /\ s.nextSeq \in 1..Len(Script[h])+1
    /\ s.oldest \in 1..s.nextSeq
    /\ s.inflight <= SendWindow
    /\ Cardinality(Used(s)) <= s.inflight
    /\ RingOK(h, s)

-----------------------------------------------------------------------------
\* Arithmetic of slots, and the least element of a set.

\* The slot of a sequence number is a slot of the ring.
LEMMA SlotOfType ==
    ASSUME NEW q \in Int
    PROVE  SlotOf(q) \in Slot
BY SizeAssumption DEF SlotOf, Slot

\* Min picks the least element of a non-empty set of naturals.
LEMMA MinOfNats ==
    ASSUME NEW S \in SUBSET Nat, S # {}
    PROVE  /\ Min(S) \in S
           /\ \A y \in S : Min(S) <= y
<1> DEFINE R == {ss \in Nat \X Nat : ss[1] < ss[2]}
<1>1. R = OpToRel(<, Nat)
  BY DEF OpToRel
<1>2. IsWellFoundedOn(R, Nat)
  BY <1>1, NatLessThanWellFounded
<1>3. \A x, y \in Nat : <<y, x>> \notin R => x <= y
  OBVIOUS
<1> HIDE DEF R
<1>4. PICK x \in S : \A y \in S : <<y, x>> \notin R
  BY <1>2, WFMin
<1>5. \A y \in S : x <= y
  BY <1>3, <1>4
<1>6. QED
  BY <1>5 DEF Min

\* A free slot is a slot.
LEMMA FreeType == Free \in SlotType
BY SizeAssumption DEF Free, SlotType

-----------------------------------------------------------------------------
\* The send side: every operation keeps SenderOK, and only enqueue() numbers a
\* frame.

\* The slots in use are finitely many.
LEMMA UsedFinite ==
    ASSUME NEW s
    PROVE  /\ IsFiniteSet(Used(s))
           /\ Cardinality(Used(s)) \in Nat
<1>1. IsFiniteSet(Slot)
  BY FS_Interval, SizeAssumption DEF Slot
<1>2. Used(s) \subseteq Slot
  BY DEF Used
<1>3. QED
  BY <1>1, <1>2, FS_Subset, FS_CardinalityType

\* enqueue() puts a new frame in its slot, over whatever that slot holds.
LEMMA EnqueuedOK ==
    ASSUME NEW h \in Host, NEW s, SenderOK(h, s), ~WindowFull(s),
           s.nextSeq - 1 < Len(Script[h])
    PROVE  /\ SenderOK(h, Enqueued(s, Script[h][s.nextSeq]))
           /\ Enqueued(s, Script[h][s.nextSeq]).nextSeq = s.nextSeq + 1
<1> DEFINE t == Enqueued(s, Script[h][s.nextSeq])
           k == SlotOf(s.nextSeq)
<1>1. /\ Script[h] \in Seq(Payload)
      /\ s.nextSeq \in 1..Len(Script[h])
      /\ Script[h][s.nextSeq] \in Payload
  BY ScriptAssumption, LenProperties, ElementOfSeq DEF SenderOK, SenderType
<1>2. k \in Slot
  BY SlotOfType, <1>1
<1>3. InUse(s.nextSeq, Script[h][s.nextSeq]) \in SlotType
  BY <1>1, SizeAssumption DEF InUse, SlotType
<1>4. t = [ring |-> [s.ring EXCEPT ![k] = InUse(s.nextSeq, Script[h][s.nextSeq])],
           nextSeq |-> s.nextSeq + 1, oldest |-> s.oldest, inflight |-> s.inflight + 1]
  BY DEF Enqueued
<1> HIDE DEF t
<1>5. t \in SenderType
  BY <1>1, <1>2, <1>3, <1>4 DEF SenderOK, SenderType
<1>6. t.inflight <= SendWindow
  BY <1>4, SizeAssumption DEF WindowFull, SenderOK, SenderType
<1>7. Cardinality(Used(t)) <= t.inflight
  <2>1. Used(t) \subseteq Used(s) \cup {k}
    BY <1>2, <1>4 DEF Used, SenderOK, SenderType
  <2>2. /\ IsFiniteSet(Used(s) \cup {k})
        /\ Cardinality(Used(s) \cup {k}) <= Cardinality(Used(s)) + 1
    <3>1. IsFiniteSet(Used(s)) /\ Cardinality(Used(s)) \in Nat
      BY UsedFinite
    <3> HIDE DEF k
    <3>2. /\ IsFiniteSet(Used(s) \cup {k})
          /\ Cardinality(Used(s) \cup {k}) =
                IF k \in Used(s) THEN Cardinality(Used(s)) ELSE Cardinality(Used(s)) + 1
      BY <3>1, FS_AddElement, Zenon
    <3>3. QED
      BY <3>1, <3>2
  <2>3. Cardinality(Used(t)) <= Cardinality(Used(s) \cup {k})
    BY <2>1, <2>2, FS_Subset
  <2>4. /\ Cardinality(Used(t)) \in Nat /\ Cardinality(Used(s)) \in Nat
        /\ Cardinality(Used(s) \cup {k}) \in Nat
    BY <2>2, UsedFinite, FS_CardinalityType
  <2>5. QED
    BY <2>2, <2>3, <2>4, <1>4 DEF SenderOK, SenderType
<1>8. RingOK(h, t)
  BY <1>1, <1>2, <1>4 DEF RingOK, SenderOK, SenderType, InUse
<1>9. QED
  BY <1>1, <1>4, <1>6, <1>7, <1>8, <1>5 DEF SenderOK, t

\* An acked frame leaves the ring: the frames retired are as many as the slots
\* that are freed, so what is left in use still counts at most inflight_.
LEMMA RetireCounts ==
    ASSUME NEW h \in Host, NEW s, SenderOK(h, s),
           NEW gone \in SUBSET Int, \A q \in gone : Holds(s, q),
           NEW kept, kept = {i \in Used(s) : s.ring[i].seq \notin gone}
    PROVE  /\ Cardinality(gone) \in Nat
           /\ Cardinality(gone) + Cardinality(kept) = Cardinality(Used(s))
<1> DEFINE freed == {i \in Used(s) : s.ring[i].seq \in gone}
           f == [i \in freed |-> s.ring[i].seq]
<1>1. \A i \in freed : SlotOf(s.ring[i].seq) = i
  BY DEF SenderOK, RingOK, Used, Free
<1>2. \A q \in gone : SlotOf(q) \in freed /\ s.ring[SlotOf(q)].seq = q
  <2>1. SUFFICES ASSUME NEW q \in gone
                 PROVE  SlotOf(q) \in freed /\ s.ring[SlotOf(q)].seq = q
    OBVIOUS
  <2>2. Holds(s, q)
    OBVIOUS
  <2>3. SlotOf(q) \in Slot
    BY SlotOfType
  <2>4. QED
    BY <2>2, <2>3 DEF Holds, Used
<1>3. kept = Used(s) \ freed /\ freed \subseteq Used(s)
  OBVIOUS
<1>4. f \in [freed -> gone] /\ \A i \in freed : f[i] = s.ring[i].seq
  OBVIOUS
<1> HIDE DEF freed, f
<1>5. f \in Bijection(freed, gone)
  BY <1>1, <1>2, <1>4 DEF Bijection, Injection, Surjection, IsInjective
<1>6. IsFiniteSet(Used(s)) /\ Cardinality(Used(s)) \in Nat
  BY UsedFinite
<1>7. IsFiniteSet(freed) /\ Cardinality(freed) \in Nat
  BY <1>3, <1>6, FS_Subset, FS_CardinalityType
<1>8. Cardinality(gone) = Cardinality(freed)
  BY <1>5, <1>7, FS_Bijection DEF ExistsBijection
<1>9. Cardinality(kept) = Cardinality(Used(s)) - Cardinality(Used(s) \cap freed)
  BY <1>3, <1>6, FS_Difference
<1>10. Cardinality(Used(s) \cap freed) = Cardinality(freed)
  <2>1. Used(s) \cap freed = freed
    BY <1>3
  <2>2. QED
    BY <2>1
<1>11. QED
  BY <1>6, <1>7, <1>8, <1>9, <1>10

\* apply_ack() retires frames and moves oldest_unacked_ up.
LEMMA AfterAckOK ==
    ASSUME NEW h \in Host, NEW s, SenderOK(h, s),
           NEW base \in Nat, NEW bits \in SUBSET Nat
    PROVE  /\ SenderOK(h, AfterAck(s, base, bits))
           /\ AfterAck(s, base, bits).nextSeq = s.nextSeq
           /\ Newly(s, base, bits) \subseteq 1..s.nextSeq-1
<1> DEFINE gone == Newly(s, base, bits)
<1>1. /\ gone \in SUBSET Int
      /\ \A q \in gone : Holds(s, q)
      /\ base = 0 => gone = {}
  BY DEF Newly, Named
<1>2. gone \subseteq 1..s.nextSeq-1
  <2>1. SUFFICES ASSUME NEW q \in gone PROVE q \in 1..s.nextSeq-1
    OBVIOUS
  <2>2. Holds(s, q) /\ SlotOf(q) \in Slot
    BY <1>1, SlotOfType
  <2>3. QED
    BY <2>2 DEF SenderOK, RingOK, Holds, Free
<1> HIDE DEF gone
<1>3. CASE base = 0
  BY <1>2, <1>3 DEF AfterAck, gone
<1>4. CASE base # 0
  <2> DEFINE ring == [i \in Slot |-> IF s.ring[i].inUse /\ s.ring[i].seq \in gone
                                     THEN Free ELSE s.ring[i]]
             kept == {q \in s.oldest..s.nextSeq :
                        q = s.nextSeq \/ Holds([s EXCEPT !.ring = ring], q)}
             t == [ring |-> ring, nextSeq |-> s.nextSeq, oldest |-> Min(kept),
                   inflight |-> s.inflight - Cardinality(gone)]
  <2>1. AfterAck(s, base, bits) = t
    BY <1>4 DEF AfterAck, Retire, gone
  <2>2. ring \in [Slot -> SlotType]
    BY FreeType DEF SenderOK, SenderType
  <2>3. Min(kept) \in s.oldest..s.nextSeq
    <3>1. /\ s.nextSeq \in kept
          /\ kept \subseteq Nat
      BY DEF SenderOK, SenderType
    <3>2. kept \subseteq s.oldest..s.nextSeq
      OBVIOUS
    <3> HIDE DEF kept
    <3>3. QED
      BY <3>1, <3>2, MinOfNats
  <2>4. /\ Cardinality(gone) \in Nat
        /\ Cardinality(Used(t)) \in Nat
        /\ Cardinality(gone) + Cardinality(Used(t)) = Cardinality(Used(s))
    <3>1. Used(t) = {i \in Used(s) : s.ring[i].seq \notin gone}
      BY DEF Used, Free
    <3> HIDE DEF t
    <3>2. QED
      BY <1>1, <3>1, RetireCounts, UsedFinite
  <2>5. /\ t.inflight \in Nat /\ t.inflight <= SendWindow
        /\ Cardinality(Used(t)) <= t.inflight
    <3>1. t.inflight = s.inflight - Cardinality(gone)
      OBVIOUS
    <3> HIDE DEF t
    <3>2. QED
      BY <2>4, <3>1, SizeAssumption DEF SenderOK, SenderType
  <2>6. RingOK(h, t)
    BY DEF RingOK, SenderOK
  <2>7. t \in SenderType /\ t.nextSeq = s.nextSeq /\ t.oldest \in 1..t.nextSeq
    BY <2>2, <2>3, <2>5 DEF SenderType, SenderOK
  <2> HIDE DEF t
  <2>8. QED
    BY <1>2, <2>1, <2>5, <2>6, <2>7 DEF SenderOK, gone
<1>5. QED
  BY <1>3, <1>4

\* A send side that differs from s in the ages of its frames only.
SameFrames(s, t) ==
    /\ t \in SenderType
    /\ t.nextSeq = s.nextSeq /\ t.oldest = s.oldest /\ t.inflight = s.inflight
    /\ \A i \in Slot :
          \/ s.ring[i] = Free /\ t.ring[i] = Free
          \/ /\ s.ring[i].inUse /\ t.ring[i].inUse
             /\ t.ring[i].seq = s.ring[i].seq
             /\ t.ring[i].payload = s.ring[i].payload

\* A send side with the same frames, whatever their ages, is as sound.
LEMMA SameFramesOK ==
    ASSUME NEW h \in Host, NEW s, SenderOK(h, s), NEW t, SameFrames(s, t)
    PROVE  /\ SenderOK(h, t)
           /\ \A q \in Int : Holds(s, q) <=> Holds(t, q)
<1>1. Used(t) = Used(s)
  BY DEF Used, SameFrames, Free
<1>2. RingOK(h, t)
  <2>1. SUFFICES ASSUME NEW i \in Slot, t.ring[i] # Free
                 PROVE  /\ t.ring[i].inUse
                        /\ t.ring[i].seq \in 1..t.nextSeq-1
                        /\ SlotOf(t.ring[i].seq) = i
                        /\ t.ring[i].payload = Script[h][t.ring[i].seq]
    BY DEF RingOK
  <2>2. /\ t.ring[i].inUse /\ s.ring[i].inUse
        /\ t.ring[i].seq = s.ring[i].seq
        /\ t.ring[i].payload = s.ring[i].payload
        /\ t.nextSeq = s.nextSeq
    BY <2>1 DEF SameFrames
  <2>3. /\ s.ring[i].seq \in 1..s.nextSeq-1
        /\ SlotOf(s.ring[i].seq) = i
        /\ s.ring[i].payload = Script[h][s.ring[i].seq]
    BY <2>2 DEF SenderOK, RingOK, Free
  <2>4. QED
    BY <2>2, <2>3
<1>3. SenderOK(h, t)
  BY <1>1, <1>2 DEF SenderOK, SameFrames
<1>4. \A q \in Int : Holds(s, q) <=> Holds(t, q)
  BY SlotOfType DEF Holds, SameFrames, Free
<1>5. QED
  BY <1>3, <1>4

\* Setting the age of a slot changes nothing else of it.
LEMMA AgeType ==
    ASSUME NEW e \in SlotType, NEW age \in 0..RtoTicks
    PROVE  /\ [e EXCEPT !.age = age] \in SlotType
           /\ [e EXCEPT !.age = age].seq = e.seq
           /\ [e EXCEPT !.age = age].payload = e.payload
           /\ [e EXCEPT !.age = age].inUse = e.inUse
BY DEF SlotType

\* The clock of tick() and the choice of the frames to send again.
LEMMA AgedOK ==
    ASSUME NEW h \in Host, NEW s, SenderOK(h, s)
    PROVE  /\ SenderOK(h, Aged(s))
           /\ Aged(s).nextSeq = s.nextSeq
           /\ Expired(Aged(s)) \subseteq
                {q \in 1..s.nextSeq-1 : Holds(Aged(s), q)}
<1> DEFINE ring == [i \in Slot |->
              IF s.ring[i].inUse /\ s.ring[i].age < RtoTicks
              THEN [s.ring[i] EXCEPT !.age = @ + 1] ELSE s.ring[i]]
           t == Aged(s)
<1>1. \A i \in Slot :
        /\ ring[i] \in SlotType
        /\ ring[i].seq = s.ring[i].seq
        /\ ring[i].payload = s.ring[i].payload
        /\ s.ring[i].inUse => ring[i].inUse
        /\ s.ring[i] = Free => ring[i] = Free
  <2>1. SUFFICES ASSUME NEW i \in Slot
                 PROVE  /\ ring[i] \in SlotType
                        /\ ring[i].seq = s.ring[i].seq
                        /\ ring[i].payload = s.ring[i].payload
                        /\ s.ring[i].inUse => ring[i].inUse
                        /\ s.ring[i] = Free => ring[i] = Free
    OBVIOUS
  <2>2. s.ring[i] \in SlotType
    BY DEF SenderOK, SenderType
  <2>3. CASE s.ring[i].inUse /\ s.ring[i].age < RtoTicks
    <3>1. s.ring[i].age + 1 \in 0..RtoTicks
      BY <2>2, <2>3, SizeAssumption DEF SlotType
    <3>2. ring[i] = [s.ring[i] EXCEPT !.age = s.ring[i].age + 1] /\ s.ring[i] # Free
      BY <2>3 DEF Free
    <3> HIDE DEF ring
    <3>3. QED
      BY <2>2, <3>1, <3>2, AgeType
  <2>4. CASE ~(s.ring[i].inUse /\ s.ring[i].age < RtoTicks)
    BY <2>2, <2>4
  <2>5. QED
    BY <2>3, <2>4
<1>2. ring \in [Slot -> SlotType]
  BY <1>1
<1>3. t = [s EXCEPT !.ring = ring]
  BY DEF Aged
<1> HIDE DEF ring, t
<1>4. SameFrames(s, t)
  BY <1>1, <1>2, <1>3 DEF SameFrames, SenderOK, SenderType, RingOK
<1>5. SenderOK(h, t) /\ t.nextSeq = s.nextSeq
  BY <1>4, SameFramesOK DEF SameFrames
<1>6. Expired(t) \subseteq {q \in 1..s.nextSeq-1 : Holds(t, q)}
  BY <1>5 DEF Expired, SenderOK, SenderType
<1>7. QED
  BY <1>5, <1>6 DEF t

\* A retransmission restarts the timeout of its frame.
LEMMA MarkedOK ==
    ASSUME NEW h \in Host, NEW s, SenderOK(h, s), NEW seq \in Int, Holds(s, seq)
    PROVE  /\ SenderOK(h, Marked(s, seq))
           /\ Marked(s, seq).nextSeq = s.nextSeq
           /\ \A q \in Int : Holds(s, q) => Holds(Marked(s, seq), q)
<1> DEFINE k == SlotOf(seq)
           ring == [s.ring EXCEPT ![k].age = 0]
           t == Marked(s, seq)
<1>1. k \in Slot /\ s.ring[k].inUse
  BY SlotOfType DEF Holds
<1>2. t = [s EXCEPT !.ring = ring]
  BY DEF Marked
<1> HIDE DEF k
<1>3. \A i \in Slot :
        /\ ring[i] \in SlotType
        /\ ring[i].seq = s.ring[i].seq
        /\ ring[i].payload = s.ring[i].payload
        /\ s.ring[i].inUse => ring[i].inUse
        /\ s.ring[i] = Free => ring[i] = Free
  BY <1>1, SizeAssumption, SMTT(30) DEF SenderOK, SenderType, SlotType, Free
<1>4. ring \in [Slot -> SlotType]
  BY <1>3 DEF SenderOK, SenderType
<1> HIDE DEF ring, t
<1>5. SameFrames(s, t)
  BY <1>2, <1>3, <1>4 DEF SameFrames, SenderOK, SenderType, RingOK
<1>6. QED
  BY <1>5, SameFramesOK DEF SameFrames, t

-----------------------------------------------------------------------------
\* The receive side.  n is the number of messages the peer has numbered, sc its
\* script.

OooType == UNION {[D -> Payload] : D \in SUBSET Nat}

ReceiverType ==
    [highest : Nat, bits : SUBSET (0..AckBits-1), ooo : OooType, nextDeliver : Nat]

Got(r) == 1..r.nextDeliver-1 \cup DOMAIN r.ooo

\* The frames the history names to the peer.
Claims(r) == IF r.highest = 0 THEN {} ELSE Named(r.highest, r.bits)

ReceiverOK(r, sc, n) ==
    /\ r \in ReceiverType
    /\ r.highest = 0 => r.bits = {}
    /\ r.nextDeliver \in 1..n+1
    /\ DOMAIN r.ooo \subseteq r.nextDeliver+1..n
    /\ \A q \in DOMAIN r.ooo : r.ooo[q] = sc[q]
    /\ Claims(r) \subseteq Got(r)

\* observe() of a new frame adds that frame to the history and nothing else.
LEMMA ObservedOK ==
    ASSUME NEW r \in ReceiverType, r.highest = 0 => r.bits = {},
           NEW seq \in Nat \ {0}, IsNew(r, seq)
    PROVE  /\ Observed(r, seq) \in ReceiverType
           /\ Observed(r, seq).highest # 0
           /\ Observed(r, seq).ooo = r.ooo
           /\ Observed(r, seq).nextDeliver = r.nextDeliver
           /\ Claims(Observed(r, seq)) \subseteq Claims(r) \cup {seq}
<1> DEFINE t == Observed(r, seq)
<1>1. CASE seq > r.highest
  <2> DEFINE bits == Shifted(r, seq - r.highest)
  <2>1. t = [highest |-> seq, bits |-> bits, ooo |-> r.ooo,
             nextDeliver |-> r.nextDeliver]
    BY <1>1 DEF Observed
  <2>2. bits \subseteq 0..AckBits-1
    BY <1>1, SizeAssumption DEF Shifted, ReceiverType
  <2>3. \A i \in bits : r.highest # 0 /\ seq - 1 - i \in Claims(r)
    BY <1>1, SizeAssumption DEF Shifted, ReceiverType, Claims, Named
  <2> HIDE DEF t, bits
  <2>4. t \in ReceiverType
    BY <2>1, <2>2 DEF ReceiverType
  <2>5. Claims(t) \subseteq Claims(r) \cup {seq}
    BY <2>1, <2>3, ZenonT(40) DEF Claims, Named
  <2>6. QED
    BY <2>1, <2>4, <2>5 DEF t
<1>2. CASE seq <= r.highest /\ r.highest - seq > AckBits
  <2>1. t = r
    BY <1>2, SizeAssumption DEF Observed, ReceiverType
  <2>2. QED
    BY <1>2, <2>1, SizeAssumption DEF ReceiverType
<1>3. CASE seq <= r.highest /\ r.highest - seq <= AckBits
  <2>1. seq < r.highest
    BY <1>3, SizeAssumption DEF IsNew, ReceiverType
  <2>2. t = [r EXCEPT !.bits = @ \cup {r.highest - seq - 1}]
    BY <1>3, SizeAssumption DEF Observed, ReceiverType
  <2>3. /\ t.highest = r.highest /\ t.ooo = r.ooo /\ t.nextDeliver = r.nextDeliver
        /\ t.bits = r.bits \cup {r.highest - seq - 1}
    BY <2>2 DEF ReceiverType
  <2>4. t \in ReceiverType
    BY <1>3, <2>1, <2>2, SizeAssumption DEF ReceiverType
  <2> HIDE DEF t
  <2>5. Claims(t) \subseteq Claims(r) \cup {seq}
    BY <2>1, <2>3 DEF Claims, Named, ReceiverType
  <2>6. QED
    BY <2>1, <2>3, <2>4, <2>5 DEF t, ReceiverType
<1>4. QED
  BY <1>1, <1>2, <1>3, SizeAssumption DEF ReceiverType

\* The buffer stays a function into the messages.
LEMMA OooAdd ==
    ASSUME NEW f \in OooType, NEW seq \in Nat, NEW p \in Payload
    PROVE  [q \in DOMAIN f \cup {seq} |-> IF q = seq THEN p ELSE f[q]] \in OooType
<1>1. PICK D \in SUBSET Nat : f \in [D -> Payload]
  BY DEF OooType
<1>2. D \cup {seq} \in SUBSET Nat
  OBVIOUS
<1>3. [q \in DOMAIN f \cup {seq} |-> IF q = seq THEN p ELSE f[q]]
        \in [D \cup {seq} -> Payload]
  BY <1>1
<1>4. QED
  BY <1>2, <1>3 DEF OooType

\* Draining frames leaves a buffer of frames.
LEMMA OooWithout ==
    ASSUME NEW f \in OooType, NEW S
    PROVE  Without(f, S) \in OooType
<1>1. PICK D \in SUBSET Nat : f \in [D -> Payload]
  BY DEF OooType
<1>2. Without(f, S) \in [D \ S -> Payload]
  BY <1>1 DEF Without
<1>3. QED
  BY <1>2 DEF OooType

\* A frame the cursor has passed already only enters the history.
LEMMA KeptOK ==
    ASSUME NEW r, NEW sc, NEW n \in Nat, ReceiverOK(r, sc, n),
           NEW seq \in 1..n, IsNew(r, seq), seq < r.nextDeliver
    PROVE  /\ ReceiverOK(Observed(r, seq), sc, n)
           /\ Got(Observed(r, seq)) = Got(r)
           /\ Observed(r, seq).nextDeliver = r.nextDeliver
<1> DEFINE t == Observed(r, seq)
<1>1. /\ t \in ReceiverType /\ t.highest # 0 /\ t.ooo = r.ooo
      /\ t.nextDeliver = r.nextDeliver
      /\ Claims(t) \subseteq Claims(r) \cup {seq}
  BY ObservedOK DEF ReceiverOK
<1> HIDE DEF t
<1>2. Got(t) = Got(r) /\ seq \in Got(r)
  BY <1>1 DEF Got, ReceiverOK
<1>3. ReceiverOK(t, sc, n)
  BY <1>1, <1>2 DEF ReceiverOK
<1>4. QED
  BY <1>1, <1>2, <1>3 DEF t

\* A frame ahead of the cursor enters the history and the buffer.
LEMMA BufferedOK ==
    ASSUME NEW r, NEW sc, NEW n \in Nat, ReceiverOK(r, sc, n),
           NEW f, f.seq \in 1..n, f.payload = sc[f.seq], f.payload \in Payload,
           IsNew(r, f.seq), f.seq > r.nextDeliver
    PROVE  /\ ReceiverOK(Buffered(Observed(r, f.seq), f), sc, n)
           /\ Got(r) \subseteq Got(Buffered(Observed(r, f.seq), f))
           /\ Buffered(Observed(r, f.seq), f).nextDeliver = r.nextDeliver
<1> DEFINE o == Observed(r, f.seq)
           t == Buffered(o, f)
           ooo == [q \in DOMAIN o.ooo \cup {f.seq} |->
                     IF q = f.seq THEN f.payload ELSE o.ooo[q]]
<1>1. /\ o \in ReceiverType /\ o.highest # 0 /\ o.ooo = r.ooo
      /\ o.nextDeliver = r.nextDeliver
      /\ Claims(o) \subseteq Claims(r) \cup {f.seq}
  BY ObservedOK DEF ReceiverOK
<1> HIDE DEF o
<1>2. CASE f.seq \in DOMAIN o.ooo
  <2>1. t = o
    BY <1>2 DEF Buffered
  <2>2. Got(o) = Got(r) /\ f.seq \in Got(r)
    BY <1>1, <1>2 DEF Got
  <2>3. ReceiverOK(o, sc, n)
    BY <1>1, <2>2 DEF ReceiverOK
  <2>4. QED
    BY <1>1, <2>1, <2>2, <2>3 DEF o
<1>3. CASE f.seq \notin DOMAIN o.ooo
  <2>1. t = [o EXCEPT !.ooo = ooo]
    BY <1>3 DEF Buffered
  <2>2. /\ ooo \in OooType
        /\ DOMAIN ooo = DOMAIN r.ooo \cup {f.seq}
        /\ \A q \in DOMAIN ooo : ooo[q] = sc[q]
    <3>1. ooo \in OooType
      BY <1>1, OooAdd DEF ReceiverType
    <3>2. DOMAIN ooo = DOMAIN r.ooo \cup {f.seq}
      BY <1>1
    <3>3. \A q \in DOMAIN ooo : ooo[q] = sc[q]
      BY <1>1 DEF ReceiverOK
    <3>4. QED
      BY <3>1, <3>2, <3>3
  <2> HIDE DEF ooo, t
  <2>3. /\ t \in ReceiverType /\ t.highest = o.highest /\ t.bits = o.bits
        /\ t.ooo = ooo /\ t.nextDeliver = r.nextDeliver
    BY <1>1, <2>1, <2>2 DEF ReceiverType
  <2>4. /\ Claims(t) = Claims(o)
        /\ Got(t) = Got(r) \cup {f.seq}
    BY <1>1, <2>2, <2>3 DEF Claims, Got
  <2>5. ReceiverOK(t, sc, n)
    BY <1>1, <2>2, <2>3, <2>4 DEF ReceiverOK
  <2>6. QED
    BY <2>3, <2>4, <2>5 DEF t, o
<1>4. QED
  BY <1>2, <1>3

\* The frame the cursor waits for is delivered with the run behind it.
Drained(o, seq, m) ==
    [highest |-> o.highest, bits |-> o.bits,
     ooo |-> Without(o.ooo, seq+1..seq+m), nextDeliver |-> seq + 1 + m]

AtCursor(r, sc, n, seq, m) ==
    /\ n \in Nat /\ ReceiverOK(r, sc, n)
    /\ seq \in 1..n /\ IsNew(r, seq) /\ seq = r.nextDeliver
    /\ m \in Nat /\ Run(Observed(r, seq), seq + 1, m)

\* Surfacing the frame at the cursor and the run behind it keeps the receive
\* side sound, and what comes out is the script.
LEMMA DrainedOK ==
    ASSUME NEW r, NEW sc, NEW n, NEW seq, NEW m, AtCursor(r, sc, n, seq, m)
    PROVE  /\ ReceiverOK(Drained(Observed(r, seq), seq, m), sc, n)
           /\ Got(r) \subseteq Got(Drained(Observed(r, seq), seq, m))
           /\ seq + m <= n
           /\ \A i \in 1..m : Observed(r, seq).ooo[seq + i] = sc[seq + i]
<1> DEFINE o == Observed(r, seq)
           t == Drained(o, seq, m)
<1>0. /\ n \in Nat /\ ReceiverOK(r, sc, n)
      /\ seq \in 1..n /\ IsNew(r, seq) /\ seq = r.nextDeliver
      /\ m \in Nat /\ Run(o, seq + 1, m)
  BY DEF AtCursor
<1>1. /\ o \in ReceiverType /\ o.highest # 0 /\ o.ooo = r.ooo
      /\ o.nextDeliver = r.nextDeliver
      /\ Claims(o) \subseteq Claims(r) \cup {seq}
  BY <1>0, ObservedOK DEF ReceiverOK
<1> HIDE DEF o
<1>2. /\ \A i \in 0..m-1 : seq + 1 + i \in DOMAIN r.ooo
      /\ seq + 1 + m \notin DOMAIN r.ooo
  BY <1>0, <1>1 DEF Run, o
<1>3. \A i \in 1..m : seq + i \in DOMAIN r.ooo
  <2>1. SUFFICES ASSUME NEW i \in 1..m PROVE seq + i \in DOMAIN r.ooo
    BY <1>0
  <2>2. i - 1 \in 0..m-1 /\ seq + 1 + (i - 1) = seq + i
    BY <1>0
  <2>3. QED
    BY <1>0, <1>2, <2>2
<1>4. \A i \in 1..m : r.ooo[seq + i] = sc[seq + i]
  BY <1>0, <1>3 DEF ReceiverOK
<1>5. seq + m <= n
  <2>1. CASE m = 0
    BY <1>0, <2>1
  <2>2. CASE m # 0
    BY <1>0, <1>3, <2>2 DEF ReceiverOK
  <2>3. QED
    BY <1>0, <2>1, <2>2
<1>6. /\ DOMAIN t.ooo = DOMAIN r.ooo \ (seq+1..seq+m)
      /\ \A q \in DOMAIN t.ooo : t.ooo[q] = r.ooo[q]
      /\ t.highest = o.highest /\ t.bits = o.bits /\ t.nextDeliver = seq + 1 + m
  BY <1>0, <1>1 DEF Drained, Without
<1>7. t \in ReceiverType
  <2>1. Without(o.ooo, seq+1..seq+m) \in OooType
    BY <1>0, <1>1, OooWithout DEF ReceiverType
  <2>2. QED
    BY <1>0, <1>1, <2>1 DEF Drained, ReceiverType
<1> HIDE DEF t
<1>8. Claims(t) = Claims(o)
  BY <1>0, <1>6 DEF Claims
<1>9. Got(r) \cup {seq} \subseteq Got(t)
  <2>1. DOMAIN r.ooo \subseteq r.nextDeliver+1..n
    BY <1>0 DEF ReceiverOK
  <2>2. QED
    BY <1>0, <1>6, <2>1 DEF Got
<1>10. DOMAIN t.ooo \subseteq t.nextDeliver+1..n
  BY <1>0, <1>2, <1>6 DEF ReceiverOK
<1>11. ReceiverOK(t, sc, n)
  <2>1. t.nextDeliver \in 1..n+1
    BY <1>0, <1>5, <1>6
  <2>2. \A q \in DOMAIN t.ooo : t.ooo[q] = sc[q]
    BY <1>0, <1>6 DEF ReceiverOK
  <2>3. Claims(t) \subseteq Got(t)
    BY <1>0, <1>1, <1>8, <1>9 DEF ReceiverOK
  <2>4. t.highest # 0
    BY <1>0, <1>1, <1>6
  <2>5. QED
    BY <1>0, <1>7, <1>10, <2>1, <2>2, <2>3, <2>4 DEF ReceiverOK
<1>12. QED
  BY <1>0, <1>1, <1>4, <1>5, <1>9, <1>11 DEF t, o

-----------------------------------------------------------------------------
\* What the application has and what waits for it is a prefix of the script.

\* a and then b make up the first j messages of sc.
Upto(sc, a, b, j) ==
    /\ a \in Seq(Payload) /\ b \in Seq(Payload)
    /\ a \o b = SubSeq(sc, 1, j)

\* g is the m messages of sc behind message k.

Behind(sc, g, k, m) ==
    /\ m \in Nat /\ k + m <= Len(sc)
    /\ g \in Seq(Payload) /\ Len(g) = m /\ \A i \in 1..m : g[i] = sc[k + i]

\* The run appended behind a prefix of the script gives a longer prefix.
LEMMA PrefixGrows ==
    ASSUME NEW sc, NEW a, NEW b, NEW g, NEW k, NEW m,
           sc \in Seq(Payload), k \in 1..Len(sc),
           Upto(sc, a, b, k - 1), Behind(sc, g, k, m)
    PROVE  Upto(sc, a, b \o <<sc[k]>> \o g, k + m)
<1>0. /\ sc \in Seq(Payload) /\ a \in Seq(Payload) /\ b \in Seq(Payload)
      /\ k \in 1..Len(sc) /\ a \o b = SubSeq(sc, 1, k - 1)
      /\ m \in Nat /\ k + m <= Len(sc)
      /\ g \in Seq(Payload) /\ Len(g) = m /\ \A i \in 1..m : g[i] = sc[k + i]
  BY DEF Upto, Behind
<1>1. <<sc[k]>> \in Seq(Payload)
  BY <1>0, ElementOfSeq
<1>2. b \o <<sc[k]>> \in Seq(Payload)
  BY <1>0, <1>1, ConcatProperties
<1>3. a \in Seq(Payload) /\ b \in Seq(Payload) /\ g \in Seq(Payload)
  BY <1>0
<1>4. a \o (b \o <<sc[k]>> \o g) = ((a \o b) \o <<sc[k]>>) \o g
  BY ONLY <1>1, <1>2, <1>3, ConcatAssociative, SMTT(30)
<1>5. (a \o b) \o <<sc[k]>> = SubSeq(sc, 1, k)
  BY <1>0, SubSeqRecursiveSecond, LenProperties
<1>6. g = SubSeq(sc, k + 1, k + m)
  <2>1. \A i \in k+1..k+m : sc[i] \in Payload
    BY <1>0, ElementOfSeq, LenProperties
  <2>2. /\ SubSeq(sc, k + 1, k + m) \in Seq(Payload)
        /\ Len(SubSeq(sc, k + 1, k + m)) = m
        /\ \A i \in 1..m : SubSeq(sc, k + 1, k + m)[i] = sc[k + i]
    BY <1>0, <2>1, SubSeqProperties
  <2>3. QED
    BY <1>0, <2>2, SeqEqual
<1>7. SubSeq(sc, 1, k) \o SubSeq(sc, k + 1, k + m) = SubSeq(sc, 1, k + m)
  BY <1>0, ConcatAdjacentSubSeq, LenProperties
<1>8. b \o <<sc[k]>> \o g \in Seq(Payload)
  BY <1>0, <1>2, ConcatProperties
<1>9. QED
  BY <1>4, <1>5, <1>6, <1>7, <1>8, <1>3 DEF Upto

\* A run is as long as a natural number says.
LEMMA BufferFinite ==
    ASSUME NEW r, NEW sc, NEW n \in Nat, ReceiverOK(r, sc, n)
    PROVE  0..Cardinality(DOMAIN r.ooo) \subseteq Nat
<1>1. DOMAIN r.ooo \subseteq 1..n
  BY DEF ReceiverOK, ReceiverType
<1>2. IsFiniteSet(1..n)
  BY FS_Interval
<1>3. IsFiniteSet(DOMAIN r.ooo)
  BY <1>1, <1>2, FS_Subset
<1>4. Cardinality(DOMAIN r.ooo) \in Nat
  BY <1>3, FS_CardinalityType
<1>5. QED
  BY <1>4

\* The cursor is at seq: what the application gets is the script up to the end
\* of the run, and the rest of the buffer stays behind the new cursor.
LEMMA SurfacedOK ==
    ASSUME NEW r, NEW sc, NEW n, NEW seq, NEW m, AtCursor(r, sc, n, seq, m),
           NEW a, NEW b, Upto(sc, a, b, r.nextDeliver - 1),
           sc \in Seq(Payload), n <= Len(sc)
    PROVE  LET o == Observed(r, seq)
               t == Drained(o, seq, m)
               c == b \o <<sc[seq]>> \o [i \in 1..m |-> o.ooo[seq + i]]
           IN  /\ t \in ReceiverType /\ ReceiverOK(t, sc, n)
               /\ Got(r) \subseteq Got(t)
               /\ t.nextDeliver >= r.nextDeliver
               /\ Upto(sc, a, c, t.nextDeliver - 1)
<1> DEFINE o == Observed(r, seq)
           t == Drained(o, seq, m)
           g == [i \in 1..m |-> o.ooo[seq + i]]
<1>1. /\ ReceiverOK(t, sc, n)
      /\ Got(r) \subseteq Got(t)
      /\ seq + m <= n
      /\ \A i \in 1..m : o.ooo[seq + i] = sc[seq + i]
  BY DrainedOK
<1>2. /\ sc \in Seq(Payload) /\ Len(sc) \in Nat
      /\ seq \in 1..Len(sc) /\ seq = r.nextDeliver
      /\ n \in Nat /\ m \in Nat /\ seq + m <= Len(sc)
  BY <1>1, LenProperties DEF AtCursor
<1>3. \A i \in 1..m : sc[seq + i] \in Payload
  <2>1. \A i \in 1..m : seq + i \in 1..Len(sc)
    BY <1>2
  <2>2. QED
    BY <1>2, <2>1, ElementOfSeq
<1>4. /\ g \in Seq(Payload) /\ Len(g) = m
      /\ \A i \in 1..m : g[i] = sc[seq + i]
  <2>1. g \in [1..m -> Payload] /\ \A i \in 1..m : g[i] = sc[seq + i]
    BY <1>1, <1>3
  <2> HIDE DEF g
  <2>2. QED
    BY <1>2, <2>1
<1> HIDE DEF g
<1>5. Upto(sc, a, b \o <<sc[seq]>> \o g, seq + m)
  <2>1. Upto(sc, a, b, seq - 1) /\ Behind(sc, g, seq, m)
    BY <1>2, <1>4 DEF Behind
  <2>2. QED
    BY <1>2, <2>1, PrefixGrows
<1>6. t \in ReceiverType /\ t.nextDeliver = seq + 1 + m
  BY <1>1 DEF ReceiverOK, Drained
<1> HIDE DEF t
<1>7. t.nextDeliver >= r.nextDeliver /\ t.nextDeliver - 1 = seq + m
  BY <1>2, <1>6
<1>8. QED
  BY <1>1, <1>5, <1>6, <1>7 DEF t, g

-----------------------------------------------------------------------------
\* The inductive invariant.

DeliveredOK(h) ==
    Upto(Script[Peer[h]], surfaced[h], inbox[h], receiver[h].nextDeliver - 1)

LinkOK ==
    /\ known \in [Host -> BOOLEAN]
    /\ sender \in [Host -> SenderType]
    /\ receiver \in [Host -> ReceiverType]
    /\ retired \in [Host -> SUBSET Nat]
    /\ inbox \in [Host -> Seq(Payload)]
    /\ surfaced \in [Host -> Seq(Payload)]
    /\ \A h \in Host :
          /\ SenderOK(h, sender[h])
          /\ ReceiverOK(receiver[h], Script[Peer[h]], Accepted(Peer[h]))
          /\ retired[h] \subseteq Got(receiver[Peer[h]])
          /\ DeliveredOK(h)

TickOK ==
    /\ owesAck \in [Host -> BOOLEAN]
    /\ ticking \in Host \cup {"none"}
    /\ ticking = "none" => due = {}
    /\ ticking # "none" => due \subseteq {q \in 1..Accepted(ticking) : Holds(sender[ticking], q)}

IInv == LinkOK /\ TickOK

\* A frame that h may send: one it has numbered, with its own message, under
\* the ack pair of its history.
FrameOK(h, s, f) ==
    /\ f.base = receiver[h].highest /\ f.bits = receiver[h].bits
    /\ f.kind = "reliable" => /\ f.seq \in 1..s.nextSeq-1
                              /\ f.payload = Script[h][f.seq]

\* handle_reliable_in_() keeps the receive side of p, and the cursor only moves
\* forward.
LEMMA HandleReliableOK ==
    ASSUME LinkOK, NEW p \in Host, NEW f, NEW n \in Nat,
           Accepted(Peer[p]) <= n, n <= Len(Script[Peer[p]]),
           f.seq \in 1..n, f.payload = Script[Peer[p]][f.seq],
           surfaced' = surfaced, HandleReliable(p, f)
    PROVE  \E r \in ReceiverType, b \in Seq(Payload) :
              /\ receiver' = [receiver EXCEPT ![p] = r]
              /\ inbox' = [inbox EXCEPT ![p] = b]
              /\ ReceiverOK(r, Script[Peer[p]], n)
              /\ Got(receiver[p]) \subseteq Got(r)
              /\ r.nextDeliver >= receiver[p].nextDeliver
              /\ Upto(Script[Peer[p]], surfaced[p], b, r.nextDeliver - 1)
<1> DEFINE sc == Script[Peer[p]]
           r0 == receiver[p]
           o == Observed(r0, f.seq)
<1>1. /\ sc \in Seq(Payload) /\ Len(sc) \in Nat /\ f.payload \in Payload
      /\ r0 \in ReceiverType /\ inbox[p] \in Seq(Payload) /\ surfaced[p] \in Seq(Payload)
      /\ Upto(sc, surfaced[p], inbox[p], r0.nextDeliver - 1)
  <2>1. sc \in Seq(Payload) /\ Len(sc) \in Nat
    BY PeerAssumption, ScriptAssumption, LenProperties
  <2>2. f.payload \in Payload
    BY <2>1, ElementOfSeq
  <2>3. QED
    BY <2>1, <2>2 DEF LinkOK, DeliveredOK
<1>2. ReceiverOK(r0, sc, n)
  <2>1. ReceiverOK(r0, sc, Accepted(Peer[p])) /\ Accepted(Peer[p]) \in Int
    BY PeerAssumption DEF LinkOK, Accepted, SenderType
  <2>2. QED
    BY <2>1 DEF ReceiverOK
<1>3. CASE ~IsNew(r0, f.seq)
  <2>1. receiver' = receiver /\ inbox' = inbox
    BY <1>3 DEF HandleReliable
  <2>2. receiver' = [receiver EXCEPT ![p] = r0] /\ inbox' = [inbox EXCEPT ![p] = inbox[p]]
    BY <2>1 DEF LinkOK
  <2>3. r0.nextDeliver >= r0.nextDeliver
    BY <1>1 DEF ReceiverType
  <2>4. QED
    BY <1>1, <1>2, <2>2, <2>3
<1>4. CASE IsNew(r0, f.seq) /\ f.seq < r0.nextDeliver
  <2>1. receiver' = [receiver EXCEPT ![p] = o] /\ inbox' = inbox
    BY <1>4 DEF HandleReliable, Keep, Observed
  <2> DEFINE b == inbox[p]
  <2>2. inbox' = [inbox EXCEPT ![p] = b]
    BY <2>1 DEF LinkOK
  <2>3. /\ ReceiverOK(o, sc, n) /\ Got(o) = Got(r0)
        /\ o.nextDeliver = r0.nextDeliver
    BY <1>2, <1>4, KeptOK
  <2>4. o \in ReceiverType /\ o.nextDeliver >= r0.nextDeliver
    BY <1>1, <2>3 DEF ReceiverOK, ReceiverType
  <2> HIDE DEF o
  <2>5. QED
    BY <1>1, <2>1, <2>2, <2>3, <2>4
<1>5. CASE IsNew(r0, f.seq) /\ f.seq > r0.nextDeliver
  <2> DEFINE t == Buffered(o, f)
             b == inbox[p]
  <2>1. receiver' = [receiver EXCEPT ![p] = t] /\ inbox' = inbox
    <3>1. o.nextDeliver = r0.nextDeliver
      BY <1>1, <1>2, <1>5, ObservedOK, SMTT(30) DEF ReceiverOK
    <3>2. r0.nextDeliver \in Nat
      BY <1>1 DEF ReceiverType
    <3>3. QED
      BY <1>5, <3>1, <3>2 DEF HandleReliable, Keep
  <2>2. inbox' = [inbox EXCEPT ![p] = b]
    BY <2>1 DEF LinkOK
  <2>3. /\ ReceiverOK(t, sc, n) /\ Got(r0) \subseteq Got(t)
        /\ t.nextDeliver = r0.nextDeliver
    BY <1>1, <1>2, <1>5, BufferedOK
  <2>4. t \in ReceiverType /\ t.nextDeliver >= r0.nextDeliver
    BY <1>1, <2>3 DEF ReceiverOK, ReceiverType
  <2> HIDE DEF t
  <2>5. QED
    BY <1>1, <2>1, <2>2, <2>3, <2>4
<1>6. CASE IsNew(r0, f.seq) /\ f.seq = r0.nextDeliver
  <2>1. /\ o.nextDeliver = r0.nextDeliver /\ o.ooo = r0.ooo /\ o \in ReceiverType
    BY <1>1, <1>2, <1>6, ObservedOK, SMTT(30) DEF ReceiverOK
  <2>2. PICK m \in Nat :
          /\ Run(o, f.seq + 1, m)
          /\ inbox' = [inbox EXCEPT ![p] =
                @ \o <<f.payload>> \o [i \in 1..m |-> o.ooo[f.seq + i]]]
          /\ receiver' = [receiver EXCEPT ![p] = Drained(o, f.seq, m)]
    <3>1. Surface(p, o, f)
      <4>1. ~(f.seq < o.nextDeliver)
        BY <1>1, <1>6, <2>1 DEF ReceiverType
      <4>2. QED
        BY <1>6, <2>1, <4>1 DEF HandleReliable
    <3>2. 0..Cardinality(DOMAIN o.ooo) \subseteq Nat
      BY <1>2, <2>1, BufferFinite
    <3> HIDE DEF o
    <3>3. QED
      BY <3>1, <3>2 DEF Surface, Drained
  <2> DEFINE t == Drained(o, f.seq, m)
             b == inbox[p] \o <<sc[f.seq]>> \o [i \in 1..m |-> o.ooo[f.seq + i]]
  <2>3. /\ t \in ReceiverType /\ ReceiverOK(t, sc, n) /\ Got(r0) \subseteq Got(t)
        /\ t.nextDeliver >= r0.nextDeliver
        /\ Upto(sc, surfaced[p], b, t.nextDeliver - 1)
    <3>1. AtCursor(r0, sc, n, f.seq, m)
      BY <1>2, <1>6, <2>2 DEF AtCursor
    <3>2. sc \in Seq(Payload) /\ Upto(sc, surfaced[p], inbox[p], r0.nextDeliver - 1)
      BY <1>1
    <3> HIDE DEF r0, sc
    <3>3. n <= Len(sc)
      BY DEF sc
    <3>4. QED
      BY <3>1, <3>2, <3>3, SurfacedOK
  <2>4. inbox' = [inbox EXCEPT ![p] = b] /\ receiver' = [receiver EXCEPT ![p] = t]
    BY <2>2
  <2>5. b \in Seq(Payload)
    BY <2>3 DEF Upto
  <2> HIDE DEF t, b, sc
  <2>6. QED
    BY <2>3, <2>4, <2>5 DEF sc
<1>7. f.seq < r0.nextDeliver \/ f.seq > r0.nextDeliver \/ f.seq = r0.nextDeliver
  BY <1>1 DEF ReceiverType
<1>8. QED
  BY <1>3, <1>4, <1>5, <1>6, <1>7

\* Numbering more messages takes nothing from the receive side.
LEMMA MoreAccepted ==
    ASSUME NEW r, NEW sc, NEW n \in Int, NEW m \in Int, n <= m, ReceiverOK(r, sc, n)
    PROVE  ReceiverOK(r, sc, m)
BY DEF ReceiverOK, ReceiverType

\* A datagram keeps the link in order, whether it arrives or is dropped; only
\* the cursor of the peer moves, and only forward.
LEMMA TransmitOK ==
    ASSUME LinkOK, NEW h \in Host, NEW s, SenderOK(h, s),
           s.nextSeq >= sender[h].nextSeq,
           NEW f, FrameOK(h, s, f), NEW arrives \in BOOLEAN,
           Transmit(h, s, f, arrives), surfaced' = surfaced
    PROVE  /\ LinkOK'
           /\ sender'[h] = s
           /\ \A x \in Host \ {h} : Accepted(x)' = Accepted(x)
           /\ receiver'[Peer[h]].nextDeliver >= receiver[Peer[h]].nextDeliver
           /\ \A x \in Host \ {Peer[h]} : receiver'[x] = receiver[x]
<1> DEFINE p == Peer[h]
           gone == Newly(sender[p], f.base, f.bits)
           t == AfterAck(sender[p], f.base, f.bits)
<1>1. /\ p \in Host /\ p # h /\ Peer[p] = h
      /\ \A x \in Host : Peer[x] \in Host /\ (Peer[x] = h => x = p) /\ (Peer[x] = p => x = h)
  BY PeerAssumption
<1>2. /\ s \in SenderType /\ s.nextSeq \in Nat
      /\ \A x \in Host : /\ sender[x] \in SenderType
                         /\ sender[x].nextSeq \in Nat
                         /\ receiver[x] \in ReceiverType
                         /\ receiver[x].nextDeliver \in Nat
  BY DEF LinkOK, SenderOK, SenderType, ReceiverType
<1>3. /\ SenderOK(p, t)
      /\ t.nextSeq = sender[p].nextSeq /\ t \in SenderType
      /\ gone \subseteq 1..sender[p].nextSeq-1
  <2>1. f.base \in Nat /\ f.bits \in SUBSET Nat
    BY <1>2 DEF FrameOK, ReceiverType
  <2>2. SenderOK(p, sender[p])
    BY <1>1 DEF LinkOK
  <2> HIDE DEF p
  <2>3. QED
    BY <1>1, <2>1, <2>2, AfterAckOK DEF SenderOK
<1> HIDE DEF t
<1>4. /\ sender' \in [Host -> SenderType]
      /\ sender'[h] = s
      /\ sender'[p] = IF arrives THEN t ELSE sender[p]
      /\ \A x \in Host \ {h, p} : sender'[x] = sender[x]
  <2>1. CASE arrives
    <3>1. sender' = [sender EXCEPT ![h] = s, ![p] = t]
      BY <2>1 DEF Transmit, Arrives, t
    <3>2. QED
      BY <1>1, <1>2, <1>3, <2>1, <3>1 DEF LinkOK
  <2>2. CASE ~arrives
    <3>1. sender' = [sender EXCEPT ![h] = s]
      BY <2>2 DEF Transmit, Dropped
    <3>2. QED
      BY <1>1, <1>2, <2>2, <3>1 DEF LinkOK
  <2>3. QED
    BY <2>1, <2>2
<1>5. \A x \in Host : SenderOK(x, sender'[x])
  BY <1>1, <1>3, <1>4 DEF LinkOK
<1>6. /\ \A x \in Host \ {h} : Accepted(x)' = Accepted(x)
      /\ \A x \in Host : /\ Accepted(x) \in Int /\ Accepted(x)' \in Int
                         /\ Accepted(x) <= Accepted(x)'
  BY <1>1, <1>2, <1>3, <1>4 DEF Accepted
<1>7. /\ Accepted(h)' \in Nat /\ Accepted(h)' <= Len(Script[h])
      /\ Accepted(h)' = s.nextSeq - 1
  <2>1. Len(Script[h]) \in Nat
    BY ScriptAssumption, LenProperties
  <2>2. QED
    BY <1>4, <2>1 DEF Accepted, SenderOK
<1>8. \E r \in ReceiverType, b \in Seq(Payload) :
          /\ receiver' = [receiver EXCEPT ![p] = r]
          /\ inbox' = [inbox EXCEPT ![p] = b]
          /\ ReceiverOK(r, Script[h], Accepted(h)')
          /\ Got(receiver[p]) \subseteq Got(r)
          /\ r.nextDeliver >= receiver[p].nextDeliver
          /\ Upto(Script[h], surfaced[p], b, r.nextDeliver - 1)
  <2>1. CASE arrives /\ f.kind = "reliable"
    <3>1. /\ f.seq \in 1..Accepted(h)'
          /\ f.payload = Script[h][f.seq]
      BY <1>7, <2>1 DEF FrameOK
    <3>2. HandleReliable(p, f)
      BY <2>1 DEF Transmit, Arrives
    <3> DEFINE n == Accepted(h)'
    <3>3. /\ n \in Nat /\ Accepted(Peer[p]) <= n /\ n <= Len(Script[Peer[p]])
          /\ f.seq \in 1..n /\ f.payload = Script[Peer[p]][f.seq]
      BY <1>1, <1>6, <1>7, <3>1
    <3> HIDE DEF n, p
    <3>4. \E r \in ReceiverType, b \in Seq(Payload) :
            /\ receiver' = [receiver EXCEPT ![p] = r]
            /\ inbox' = [inbox EXCEPT ![p] = b]
            /\ ReceiverOK(r, Script[Peer[p]], n)
            /\ Got(receiver[p]) \subseteq Got(r)
            /\ r.nextDeliver >= receiver[p].nextDeliver
            /\ Upto(Script[Peer[p]], surfaced[p], b, r.nextDeliver - 1)
      BY <1>1, <3>2, <3>3, HandleReliableOK
    <3>5. QED
      BY <1>1, <3>4 DEF n
  <2>2. CASE ~(arrives /\ f.kind = "reliable")
    <3>1. receiver' = receiver /\ inbox' = inbox
      BY <2>2 DEF Transmit, Arrives, Dropped
    <3> DEFINE r == receiver[p]
               b == inbox[p]
    <3>2. /\ receiver' = [receiver EXCEPT ![p] = r]
          /\ inbox' = [inbox EXCEPT ![p] = b]
          /\ r \in ReceiverType /\ b \in Seq(Payload)
          /\ r.nextDeliver >= receiver[p].nextDeliver
      BY <1>1, <1>2, <3>1 DEF LinkOK
    <3>3. ReceiverOK(r, Script[h], Accepted(h)')
      <4>1. ReceiverOK(receiver[p], Script[h], Accepted(h))
        BY <1>1 DEF LinkOK
      <4>2. QED
        BY <1>6, <4>1, MoreAccepted
    <3>4. Upto(Script[h], surfaced[p], b, r.nextDeliver - 1)
      BY <1>1 DEF LinkOK, DeliveredOK
    <3> HIDE DEF r, b
    <3>5. QED
      BY <3>2, <3>3, <3>4 DEF r
  <2>3. QED
    BY <2>1, <2>2
<1>9. PICK r \in ReceiverType, b \in Seq(Payload) :
          /\ receiver' = [receiver EXCEPT ![p] = r]
          /\ inbox' = [inbox EXCEPT ![p] = b]
          /\ ReceiverOK(r, Script[h], Accepted(h)')
          /\ Got(receiver[p]) \subseteq Got(r)
          /\ r.nextDeliver >= receiver[p].nextDeliver
          /\ Upto(Script[h], surfaced[p], b, r.nextDeliver - 1)
  BY <1>8
<1>10. /\ receiver'[p] = r /\ inbox'[p] = b
       /\ \A x \in Host \ {p} : receiver'[x] = receiver[x] /\ inbox'[x] = inbox[x]
  BY <1>1, <1>9 DEF LinkOK
<1>11. ASSUME NEW x \in Host
       PROVE  ReceiverOK(receiver'[x], Script[Peer[x]], Accepted(Peer[x])')
  <2>1. CASE x = p
    BY <1>1, <1>9, <1>10, <2>1
  <2>2. CASE x # p
    <3>1. ReceiverOK(receiver'[x], Script[Peer[x]], Accepted(Peer[x]))
      BY <1>10, <2>2 DEF LinkOK
    <3>2. QED
      BY <1>1, <1>6, <3>1, MoreAccepted
  <2>3. QED
    BY <2>1, <2>2
<1>12. gone \subseteq Got(receiver[h])
  <2>1. gone \subseteq Claims(receiver[h])
    BY DEF FrameOK, Newly, Claims
  <2>2. Claims(receiver[h]) \subseteq Got(receiver[h])
    BY DEF LinkOK, ReceiverOK
  <2>3. QED
    BY <2>1, <2>2
<1>13. /\ known' \in [Host -> BOOLEAN]
       /\ retired' \in [Host -> SUBSET Nat]
       /\ \A x \in Host : retired'[x] \subseteq
                            retired[x] \cup (IF x = p THEN gone ELSE {})
  <2>1. CASE arrives
    <3>1. /\ known' = [known EXCEPT ![p] = TRUE]
          /\ retired' = [retired EXCEPT ![p] = @ \cup gone]
      BY <2>1 DEF Transmit, Arrives
    <3> HIDE DEF gone
    <3>2. gone \subseteq Nat
      BY <1>1, <1>2, <1>3
    <3>3. QED
      BY <1>1, <3>1, <3>2 DEF LinkOK
  <2>2. CASE ~arrives
    <3>1. known' = known /\ retired' = retired
      BY <2>2 DEF Transmit, Dropped
    <3>2. QED
      BY <3>1 DEF LinkOK
  <2>3. QED
    BY <2>1, <2>2
<1>14. ASSUME NEW x \in Host
       PROVE  retired'[x] \subseteq Got(receiver'[Peer[x]])
  <2>1. Got(receiver[Peer[x]]) \subseteq Got(receiver'[Peer[x]])
    BY <1>1, <1>9, <1>10
  <2>2. retired[x] \subseteq Got(receiver[Peer[x]])
    BY DEF LinkOK
  <2> HIDE DEF gone, p
  <2>3. QED
    BY <1>1, <1>12, <1>13, <2>1, <2>2
<1>15. \A x \in Host : DeliveredOK(x)'
  BY <1>1, <1>9, <1>10 DEF LinkOK, DeliveredOK
<1>16. receiver' \in [Host -> ReceiverType] /\ inbox' \in [Host -> Seq(Payload)]
  BY <1>1, <1>9 DEF LinkOK
<1>17. LinkOK'
  BY <1>4, <1>5, <1>11, <1>13, <1>14, <1>15, <1>16 DEF LinkOK
<1>18. QED
  BY <1>4, <1>6, <1>9, <1>10, <1>17

-----------------------------------------------------------------------------
\* What a step may do to the channel: number at most one message of h, and move
\* the cursor of the peer of h forward.
Advances(h) ==
    /\ \A x \in Host \ {h} : Accepted(x)' = Accepted(x)
    /\ \/ Accepted(h)' = Accepted(h)
       \/ Accepted(h) < Len(Script[h]) /\ Accepted(h)' = Accepted(h) + 1
    /\ receiver'[Peer[h]].nextDeliver >= receiver[Peer[h]].nextDeliver
    /\ \A x \in Host \ {Peer[h]} : receiver'[x].nextDeliver = receiver[x].nextDeliver

\* The first messages of a script up to a cursor are as many as the cursor says.
LEMMA PrefixLength ==
    ASSUME NEW sc \in Seq(Payload), NEW r, NEW n \in Int, n <= Len(sc),
           ReceiverOK(r, sc, n), NEW d, d = SubSeq(sc, 1, r.nextDeliver - 1)
    PROVE  Len(d) = r.nextDeliver - 1
<1>1. r.nextDeliver \in Int /\ 1 <= r.nextDeliver /\ r.nextDeliver - 1 <= Len(sc)
  BY LenProperties DEF ReceiverOK
<1>2. \A i \in 1..r.nextDeliver-1 : sc[i] \in Payload
  BY <1>1, ElementOfSeq
<1>3. QED
  BY <1>1, <1>2, SubSeqProperties

\* Such a step is a step of the channel.
LEMMA AdvancesFifo ==
    ASSUME LinkOK, LinkOK', NEW h \in Host, Advances(h)
    PROVE  Fifo!Next
<1> DEFINE acc == [x \in Host |-> Accepted(x)]
           p == Peer[h]
           k == receiver[p].nextDeliver - 1
           n == receiver'[p].nextDeliver - 1
<1>1. p \in Host /\ Peer[p] = h
  BY PeerAssumption
<1>2. /\ Script[h] \in Seq(Payload)
      /\ Accepted(h) \in Int /\ Accepted(h) <= Len(Script[h])
      /\ Accepted(h)' \in Int /\ Accepted(h)' <= Len(Script[h])
  <2>1. /\ sender[h].nextSeq \in 1..Len(Script[h])+1
        /\ sender'[h].nextSeq \in 1..Len(Script[h])+1
    BY DEF LinkOK, SenderOK
  <2>2. Script[h] \in Seq(Payload) /\ Len(Script[h]) \in Nat
    BY ScriptAssumption, LenProperties
  <2>3. QED
    BY <2>1, <2>2 DEF Accepted
<1>3. UNCHANGED acc \/ Fifo!Accept(h)
  <2>1. CASE Accepted(h)' = Accepted(h)
    BY <2>1 DEF Advances
  <2>2. CASE Accepted(h) < Len(Script[h]) /\ Accepted(h)' = Accepted(h) + 1
    <3>1. acc' = [acc EXCEPT ![h] = @ + 1]
      BY <2>2 DEF Advances
    <3>2. acc[h] < Len(Script[h])
      BY <2>2
    <3>3. QED
      BY <3>1, <3>2 DEF Fifo!Accept
  <2>3. QED
    BY <2>1, <2>2 DEF Advances
<1>4. \A x \in Host :
        /\ DeliveredTo[x] = SubSeq(Script[Peer[x]], 1, receiver[x].nextDeliver - 1)
        /\ DeliveredTo'[x] = SubSeq(Script[Peer[x]], 1, receiver'[x].nextDeliver - 1)
  BY DEF DeliveredTo, LinkOK, DeliveredOK, Upto
<1>5. /\ Len(DeliveredTo[p]) = k /\ k \in Nat
      /\ Len(DeliveredTo'[p]) = n /\ n \in Nat
      /\ n <= Accepted(h)'
      /\ receiver[p].nextDeliver \in Int /\ receiver'[p].nextDeliver \in Int
  <2>1. /\ ReceiverOK(receiver[p], Script[h], Accepted(h))
        /\ ReceiverOK(receiver'[p], Script[h], Accepted(h)')
    BY <1>1 DEF LinkOK
  <2>2. /\ DeliveredTo[p] = SubSeq(Script[h], 1, receiver[p].nextDeliver - 1)
        /\ DeliveredTo'[p] = SubSeq(Script[h], 1, receiver'[p].nextDeliver - 1)
    BY <1>1, <1>4
  <2>3. Len(DeliveredTo[p]) = k
    BY <1>2, <2>1, <2>2, PrefixLength
  <2>4. Len(DeliveredTo'[p]) = n
    BY <1>2, <2>1, <2>2, PrefixLength
  <2>5. /\ k \in Nat /\ n \in Nat /\ n <= Accepted(h)'
        /\ receiver[p].nextDeliver \in Int /\ receiver'[p].nextDeliver \in Int
    BY <1>2, <2>1 DEF ReceiverOK
  <2>6. QED
    BY <2>3, <2>4, <2>5
<1>6. \A x \in Host \ {p} : DeliveredTo'[x] = DeliveredTo[x]
  BY <1>4 DEF Advances
<1>7. /\ DeliveredTo = [x \in Host |-> DeliveredTo[x]]
      /\ DeliveredTo' = [x \in Host |-> DeliveredTo'[x]]
  BY DEF DeliveredTo
<1>8. UNCHANGED DeliveredTo \/ Fifo!Deliver(p)
  <2>1. CASE n = k
    <3>1. DeliveredTo'[p] = SubSeq(Script[h], 1, n) /\ DeliveredTo[p] = SubSeq(Script[h], 1, k)
      BY <1>1, <1>4
    <3> HIDE DEF n, k
    <3>2. DeliveredTo'[p] = DeliveredTo[p]
      BY <2>1, <3>1
    <3>3. QED
      BY <1>6, <1>7, <3>2
  <2>2. CASE n # k
    <3>1. k < n
      BY <1>1, <1>5, <2>2 DEF Advances
    <3>2. DeliveredTo'[p] = SubSeq(Script[h], 1, n)
      BY <1>1, <1>4
    <3> HIDE DEF n, k
    <3>3. DeliveredTo' = [DeliveredTo EXCEPT ![p] = SubSeq(Script[Peer[p]], 1, n)]
      BY <1>1, <1>6, <1>7, <3>2
    <3>4. acc'[Peer[p]] = Accepted(h)'
      BY <1>1
    <3> HIDE DEF acc, p
    <3>5. QED
      BY <1>5, <3>1, <3>3, <3>4 DEF Fifo!Deliver, acc
  <2>3. QED
    BY <2>1, <2>2
<1>9. QED
  BY <1>1, <1>3, <1>8 DEF Fifo!Next

-----------------------------------------------------------------------------
\* The invariant holds at first, and every step keeps it and is a step of the
\* channel.

LEMMA InitOK == LinkInit => IInv /\ Fifo!Init
<1> SUFFICES ASSUME LinkInit PROVE IInv /\ Fifo!Init
  OBVIOUS
<1> DEFINE s0 == [ring |-> [i \in Slot |-> Free], nextSeq |-> 1, oldest |-> 1, inflight |-> 0]
           r0 == [highest |-> 0, bits |-> {}, ooo |-> <<>>, nextDeliver |-> 1]
<1>1. ASSUME NEW h \in Host PROVE SenderOK(h, s0)
  <2>1. s0 \in SenderType
    BY FreeType DEF SenderType
  <2>2. Used(s0) = {} /\ RingOK(h, s0)
    BY DEF Used, RingOK, Free
  <2>3. Cardinality(Used(s0)) <= s0.inflight
    <3>1. Cardinality({}) = 0
      BY FS_EmptySet
    <3>2. Cardinality(Used(s0)) = 0
      BY <2>2, <3>1, Zenon
    <3>3. s0.inflight = 0
      OBVIOUS
    <3> HIDE DEF s0
    <3>4. QED
      BY <3>2, <3>3
  <2>4. Len(Script[h]) \in Nat
    BY ScriptAssumption, LenProperties
  <2>5. QED
    BY <2>1, <2>2, <2>3, <2>4, SizeAssumption DEF SenderOK
<1>2. r0 \in ReceiverType
  <2>1. <<>> \in [{} -> Payload] /\ {} \in SUBSET Nat
    OBVIOUS
  <2>2. <<>> \in OooType
    BY <2>1 DEF OooType
  <2>3. QED
    BY <2>2 DEF ReceiverType
<1>3. ASSUME NEW sc PROVE ReceiverOK(r0, sc, 0)
  <2>1. Claims(r0) = {} /\ DOMAIN r0.ooo = {}
    BY DEF Claims
  <2>2. QED
    BY <1>2, <2>1 DEF ReceiverOK
<1>4. \A h \in Host : /\ sender[h] = s0 /\ receiver[h] = r0
                      /\ inbox[h] = <<>> /\ surfaced[h] = <<>>
                      /\ Accepted(h) = 0 /\ retired[h] = {}
  BY DEF LinkInit, Accepted
<1>5. \A h \in Host : DeliveredOK(h)
  <2>1. <<>> \in Seq(Payload) /\ <<>> \o <<>> = <<>>
    BY EmptySeq, ConcatEmptySeq
  <2> SUFFICES ASSUME NEW h \in Host PROVE DeliveredOK(h)
    OBVIOUS
  <2> DEFINE script == Script[Peer[h]]
  <2>2. SubSeq(script, 1, 0) = <<>>
    BY SubSeqEmpty
  <2>3. receiver[h].nextDeliver - 1 = 0
    BY <1>4
  <2>4. surfaced[h] \o inbox[h] = <<>>
    BY <1>4, <2>1
  <2> HIDE DEF script
  <2>5. surfaced[h] \o inbox[h] = SubSeq(script, 1, receiver[h].nextDeliver - 1)
    BY <2>2, <2>3, <2>4
  <2>6. surfaced[h] \in Seq(Payload) /\ inbox[h] \in Seq(Payload)
    BY <1>4, <2>1
  <2>7. QED
    BY <2>5, <2>6 DEF DeliveredOK, Upto, script
<1>6. LinkOK
  <2>1. \A h \in Host : /\ SenderOK(h, sender[h])
                        /\ ReceiverOK(receiver[h], Script[Peer[h]], Accepted(Peer[h]))
                        /\ retired[h] \subseteq Got(receiver[Peer[h]])
    BY <1>1, <1>3, <1>4, PeerAssumption
  <2>2. /\ known \in [Host -> BOOLEAN] /\ retired \in [Host -> SUBSET Nat]
        /\ inbox \in [Host -> Seq(Payload)] /\ surfaced \in [Host -> Seq(Payload)]
    BY EmptySeq DEF LinkInit
  <2>3. /\ sender = [h \in Host |-> s0] /\ receiver = [h \in Host |-> r0]
    BY DEF LinkInit
  <2>4. \A h \in Host : s0 \in SenderType
    BY <1>1 DEF SenderOK
  <2> HIDE DEF s0, r0
  <2>5. sender \in [Host -> SenderType] /\ receiver \in [Host -> ReceiverType]
    BY <1>2, <2>3, <2>4
  <2>6. QED
    BY <1>5, <2>1, <2>2, <2>5 DEF LinkOK
<1>7. TickOK
  BY DEF LinkInit, TickOK
<1>8. Fifo!Init
  <2>1. DeliveredTo = [h \in Host |-> <<>>]
    BY ConcatEmptySeq, EmptySeq DEF LinkInit, DeliveredTo
  <2>2. [h \in Host |-> Accepted(h)] = [h \in Host |-> 0]
    BY <1>4
  <2>3. QED
    BY <2>1, <2>2 DEF Fifo!Init
<1>9. QED
  BY <1>6, <1>7, <1>8 DEF IInv

\* What a step has to show.
LinkKept(h) == IInv' /\ Advances(h)

\* A step that leaves the senders' numbers and the cursors alone.
LEMMA QuietAdvances ==
    ASSUME LinkOK, NEW h \in Host, receiver' = receiver,
           \A x \in Host : Accepted(x)' = Accepted(x)
    PROVE  Advances(h)
<1>1. Peer[h] \in Host
  BY PeerAssumption
<1>2. receiver[Peer[h]].nextDeliver \in Nat
  BY <1>1 DEF LinkOK, ReceiverType
<1>3. QED
  BY <1>2 DEF Advances

\* connect() touches neither the frames nor the cursors.
LEMMA ConnectOK ==
    ASSUME IInv, NEW h \in Host, Connect(h)
    PROVE  LinkKept(h)
<1>1. UNCHANGED <<sender, retired, receiver, owesAck, inbox, surfaced, ticking, due>>
  BY DEF Connect
<1>2. known' \in [Host -> BOOLEAN]
  BY DEF Connect, IInv, LinkOK
<1>3. \A x \in Host : Accepted(x)' = Accepted(x) /\ (DeliveredOK(x) => DeliveredOK(x)')
  BY <1>1 DEF Accepted, DeliveredOK
<1>4. LinkOK'
  BY <1>1, <1>2, <1>3, PeerAssumption DEF IInv, LinkOK
<1>5. TickOK'
  BY <1>1 DEF IInv, TickOK, Accepted
<1>6. QED
  BY <1>1, <1>3, <1>4, <1>5, QuietAdvances DEF LinkKept, IInv

\* poll() moves the inbox behind what was surfaced, as a whole.
LEMMA PollOK ==
    ASSUME IInv, NEW h \in Host, Poll(h)
    PROVE  LinkKept(h)
<1>1. /\ UNCHANGED <<known, sender, retired, receiver, owesAck, ticking, due>>
      /\ surfaced' = [surfaced EXCEPT ![h] = @ \o inbox[h]]
      /\ inbox' = [inbox EXCEPT ![h] = <<>>]
  BY DEF Poll
<1>2. \A x \in Host : Accepted(x)' = Accepted(x)
  BY <1>1 DEF Accepted
<1>3. /\ surfaced[h] \in Seq(Payload) /\ inbox[h] \in Seq(Payload)
      /\ surfaced[h] \o inbox[h] \in Seq(Payload)
      /\ (surfaced[h] \o inbox[h]) \o <<>> = surfaced[h] \o inbox[h]
      /\ <<>> \in Seq(Payload)
  BY ConcatProperties, ConcatEmptySeq, EmptySeq DEF IInv, LinkOK
<1>4. /\ surfaced' \in [Host -> Seq(Payload)] /\ inbox' \in [Host -> Seq(Payload)]
  BY <1>1, <1>3 DEF IInv, LinkOK
<1>5. \A x \in Host : DeliveredOK(x)'
  <2>1. SUFFICES ASSUME NEW x \in Host PROVE DeliveredOK(x)'
    OBVIOUS
  <2>2. DeliveredOK(x)
    BY DEF IInv, LinkOK
  <2>3. CASE x = h
    <3>1. surfaced'[h] = surfaced[h] \o inbox[h] /\ inbox'[h] = <<>>
      BY <1>1 DEF IInv, LinkOK
    <3>2. surfaced[h] \o inbox[h] = SubSeq(Script[Peer[h]], 1, receiver[h].nextDeliver - 1)
      BY <2>2, <2>3 DEF DeliveredOK, Upto
    <3>3. QED
      BY <1>1, <1>3, <2>3, <3>1, <3>2 DEF DeliveredOK, Upto
  <2>4. CASE x # h
    BY <1>1, <2>2, <2>4 DEF DeliveredOK, IInv, LinkOK
  <2>5. QED
    BY <2>3, <2>4
<1>6. LinkOK'
  BY <1>1, <1>2, <1>4, <1>5, PeerAssumption DEF IInv, LinkOK
<1>7. TickOK'
  BY <1>1 DEF IInv, TickOK, Accepted
<1>8. QED
  BY <1>1, <1>2, <1>6, <1>7, QuietAdvances DEF LinkKept, IInv

\* The clock of tick() changes ages only, and lists held frames only.
LEMMA TickBeginOK ==
    ASSUME IInv, NEW h \in Host, TickBegin(h)
    PROVE  LinkKept(h)
<1> DEFINE t == Aged(sender[h])
<1>1. /\ UNCHANGED <<known, retired, receiver, owesAck, inbox, surfaced>>
      /\ sender' = [sender EXCEPT ![h] = t]
      /\ due' = Expired(sender'[h])
      /\ ticking' = h
  BY DEF TickBegin
<1>2. /\ SenderOK(h, t) /\ t.nextSeq = sender[h].nextSeq /\ t \in SenderType
      /\ Expired(t) \subseteq {q \in 1..sender[h].nextSeq-1 : Holds(t, q)}
  BY AgedOK DEF IInv, LinkOK, SenderOK
<1> HIDE DEF t
<1>3. /\ sender' \in [Host -> SenderType] /\ sender'[h] = t
      /\ \A x \in Host : SenderOK(x, sender'[x]) /\ sender'[x].nextSeq = sender[x].nextSeq
  BY <1>1, <1>2 DEF IInv, LinkOK
<1>4. \A x \in Host : Accepted(x)' = Accepted(x) /\ (DeliveredOK(x) => DeliveredOK(x)')
  BY <1>1, <1>3 DEF Accepted, DeliveredOK
<1>5. LinkOK'
  BY <1>1, <1>3, <1>4, PeerAssumption DEF IInv, LinkOK
<1>6. TickOK'
  BY <1>1, <1>2, <1>3, NoneAssumption DEF IInv, TickOK, Accepted
<1>7. QED
  BY <1>1, <1>4, <1>5, <1>6, QuietAdvances DEF LinkKept, IInv

\* A tick() that owes no ack changes nothing else.
LEMMA TickEndOK ==
    ASSUME IInv, NEW h \in Host, TickEnd(h)
    PROVE  LinkKept(h)
<1>1. /\ UNCHANGED <<known, sender, retired, receiver, inbox, surfaced, due>>
      /\ owesAck' = [owesAck EXCEPT ![h] = FALSE]
      /\ ticking' = "none" /\ due = {}
  BY DEF TickEnd
<1>2. \A x \in Host : Accepted(x)' = Accepted(x) /\ (DeliveredOK(x) => DeliveredOK(x)')
  BY <1>1 DEF Accepted, DeliveredOK
<1>3. LinkOK'
  BY <1>1, <1>2, PeerAssumption DEF IInv, LinkOK
<1>4. TickOK'
  BY <1>1 DEF IInv, TickOK
<1>5. QED
  BY <1>1, <1>2, <1>3, <1>4, QuietAdvances DEF LinkKept, IInv

\* Remembering an ack keeps the type of owesAck.
LEMMA OwesAfterType ==
    ASSUME owesAck \in [Host -> BOOLEAN], NEW h \in Host, NEW f,
           NEW arrives \in BOOLEAN, OwesAfter(h, f, arrives)
    PROVE  owesAck' \in [Host -> BOOLEAN]
BY DEF OwesAfter, OwesFor

\* send(reliable) numbers the next message of the script.
LEMMA SendOK ==
    ASSUME IInv, NEW h \in Host, NEW arrives \in BOOLEAN, Send(h, arrives)
    PROVE  LinkKept(h)
<1> DEFINE s == sender[h]
           msg == Script[h][s.nextSeq]
           f == DataFrame(h, s.nextSeq, msg)
           t == Enqueued(s, msg)
<1>1. /\ ticking = "none" /\ due = {}
      /\ Accepted(h) < Len(Script[h]) /\ ~WindowFull(s)
      /\ Transmit(h, t, f, arrives)
      /\ OwesAfter(h, f, arrives)
      /\ UNCHANGED <<surfaced, ticking, due>>
  BY DEF Send, DataFrame, IInv, TickOK
<1>2. LinkOK /\ SenderOK(h, s) /\ s.nextSeq \in Nat
  BY DEF IInv, LinkOK, SenderOK, SenderType
<1>3. SenderOK(h, t) /\ t.nextSeq = s.nextSeq + 1
  BY <1>1, <1>2, EnqueuedOK DEF Accepted
<1>4. FrameOK(h, t, f)
  BY <1>2, <1>3 DEF FrameOK, DataFrame, SenderOK
<1>5. t.nextSeq >= sender[h].nextSeq
  BY <1>2, <1>3
<1> HIDE DEF f, t
<1>6. /\ LinkOK' /\ sender'[h] = t
      /\ \A x \in Host \ {h} : Accepted(x)' = Accepted(x)
      /\ receiver'[Peer[h]].nextDeliver >= receiver[Peer[h]].nextDeliver
      /\ \A x \in Host \ {Peer[h]} : receiver'[x] = receiver[x]
  BY <1>1, <1>2, <1>3, <1>4, <1>5, TransmitOK
<1>7. Accepted(h)' = Accepted(h) + 1
  BY <1>2, <1>3, <1>6 DEF Accepted
<1>8. Advances(h)
  BY <1>1, <1>6, <1>7 DEF Advances
<1>9. TickOK'
  BY <1>1, OwesAfterType DEF IInv, TickOK
<1>10. QED
  BY <1>6, <1>8, <1>9 DEF LinkKept, IInv

\* Transmitting without numbering a message.
LEMMA RepeatOK ==
    ASSUME LinkOK, NEW h \in Host, NEW s, SenderOK(h, s),
           s.nextSeq = sender[h].nextSeq,
           NEW f, FrameOK(h, s, f), NEW arrives \in BOOLEAN,
           Transmit(h, s, f, arrives), surfaced' = surfaced
    PROVE  LinkOK' /\ sender'[h] = s /\ Advances(h)
<1>1. s.nextSeq >= sender[h].nextSeq
  BY DEF SenderOK, SenderType
<1>2. /\ LinkOK' /\ sender'[h] = s
      /\ \A x \in Host \ {h} : Accepted(x)' = Accepted(x)
      /\ receiver'[Peer[h]].nextDeliver >= receiver[Peer[h]].nextDeliver
      /\ \A x \in Host \ {Peer[h]} : receiver'[x] = receiver[x]
  BY <1>1, TransmitOK
<1>3. Accepted(h)' = Accepted(h)
  BY <1>2 DEF Accepted
<1>4. QED
  BY <1>2, <1>3 DEF Advances

\* send(unreliable) carries an ack and no number.
LEMMA SendUnreliableOK ==
    ASSUME IInv, NEW h \in Host, NEW arrives \in BOOLEAN, SendUnreliable(h, arrives)
    PROVE  LinkKept(h)
<1> DEFINE f == Bare(h, "unreliable")
<1>1. /\ ticking = "none" /\ due = {}
      /\ Transmit(h, sender[h], f, arrives)
      /\ OwesAfter(h, f, arrives)
      /\ UNCHANGED <<surfaced, ticking, due>>
  BY DEF SendUnreliable, IInv, TickOK
<1>2. LinkOK /\ SenderOK(h, sender[h]) /\ FrameOK(h, sender[h], f)
  BY DEF IInv, LinkOK, FrameOK, Bare
<1> HIDE DEF f
<1>3. LinkOK' /\ Advances(h)
  BY <1>1, <1>2, RepeatOK
<1>4. TickOK'
  BY <1>1, OwesAfterType DEF IInv, TickOK
<1>5. QED
  BY <1>3, <1>4 DEF LinkKept, IInv

\* A bare ack carries an ack and no number.
LEMMA TickAckOK ==
    ASSUME IInv, NEW h \in Host, NEW arrives \in BOOLEAN, TickAck(h, arrives)
    PROVE  LinkKept(h)
<1> DEFINE f == Bare(h, "ack")
<1>1. /\ due = {} /\ Transmit(h, sender[h], f, arrives)
      /\ owesAck' = [owesAck EXCEPT ![h] = FALSE]
      /\ ticking' = "none"
      /\ UNCHANGED <<surfaced, due>>
  BY DEF TickAck
<1>2. LinkOK /\ SenderOK(h, sender[h]) /\ FrameOK(h, sender[h], f)
  BY DEF IInv, LinkOK, FrameOK, Bare
<1> HIDE DEF f
<1>3. LinkOK' /\ Advances(h)
  BY <1>1, <1>2, RepeatOK
<1>4. TickOK'
  BY <1>1 DEF IInv, TickOK
<1>5. QED
  BY <1>3, <1>4 DEF LinkKept, IInv

\* A retransmission carries the message that was numbered with its seq.
LEMMA TickResendOK ==
    ASSUME IInv, NEW h \in Host, NEW arrives \in BOOLEAN, NEW seq \in due,
           TickResend(h, seq, arrives)
    PROVE  LinkKept(h)
<1> DEFINE s == sender[h]
           f == DataFrame(h, seq, s.ring[SlotOf(seq)].payload)
           t == Marked(s, seq)
<1>1. /\ ticking = h /\ due' = due \ {seq}
      /\ Transmit(h, t, f, arrives)
      /\ OwesAfter(h, f, arrives)
      /\ UNCHANGED <<surfaced, ticking>>
  BY DEF TickResend
<1>2. /\ LinkOK /\ SenderOK(h, s)
      /\ due \subseteq {q \in 1..Accepted(h) : Holds(s, q)}
  BY <1>1, NoneAssumption DEF IInv, LinkOK, TickOK
<1>3. seq \in 1..Accepted(h) /\ Holds(s, seq) /\ seq \in Int
  BY <1>2
<1>4. /\ SenderOK(h, t) /\ t.nextSeq = s.nextSeq
      /\ \A q \in Int : Holds(s, q) => Holds(t, q)
  BY <1>2, <1>3, MarkedOK
<1>5. FrameOK(h, t, f)
  <2>1. f.payload = Script[h][seq]
    BY <1>2, <1>3, SlotOfType DEF DataFrame, SenderOK, RingOK, Holds, Free
  <2>2. QED
    BY <1>3, <1>4, <2>1 DEF FrameOK, DataFrame, Accepted
<1> HIDE DEF f, t
<1>6. LinkOK' /\ sender'[h] = t /\ Advances(h)
  BY <1>1, <1>2, <1>4, <1>5, RepeatOK
<1>7. due' \subseteq {q \in 1..Accepted(h)' : Holds(t, q)}
  <2>1. Accepted(h)' = Accepted(h)
    BY <1>4, <1>6 DEF Accepted
  <2>2. QED
    BY <1>1, <1>2, <1>4, <2>1
<1>8. TickOK'
  BY <1>1, <1>6, <1>7, OwesAfterType, NoneAssumption DEF IInv, TickOK
<1>9. QED
  BY <1>6, <1>8 DEF LinkKept, IInv

\* Every step keeps the invariant and maps to a step of the channel or to a stutter.
LEMMA StepOK == IInv /\ [LinkNext]_linkVars => IInv' /\ [Fifo!Next]_Fifo!absVars
<1> SUFFICES ASSUME IInv, [LinkNext]_linkVars PROVE IInv' /\ [Fifo!Next]_Fifo!absVars
  OBVIOUS
<1>1. CASE UNCHANGED linkVars
  <2>1. Fifo!absVars' = Fifo!absVars
    BY <1>1 DEF linkVars, Fifo!absVars, Accepted, DeliveredTo
  <2>2. \A h \in Host : Accepted(h)' = Accepted(h) /\ (DeliveredOK(h) => DeliveredOK(h)')
    BY <1>1 DEF linkVars, Accepted, DeliveredOK
  <2>3. LinkOK'
    BY <1>1, <2>2, PeerAssumption DEF linkVars, IInv, LinkOK
  <2>4. TickOK'
    BY <1>1, <2>2 DEF linkVars, IInv, TickOK, Accepted
  <2>5. QED
    BY <2>1, <2>3, <2>4 DEF IInv
<1>2. ASSUME NEW h \in Host, LinkKept(h) PROVE IInv' /\ Fifo!Next
  BY <1>2, AdvancesFifo DEF LinkKept, IInv
<1>3. CASE LinkNext
  <2>1. PICK h \in Host :
          \/ Connect(h) \/ Poll(h) \/ TickBegin(h) \/ TickEnd(h)
          \/ \E arrives \in BOOLEAN :
                \/ Send(h, arrives) \/ SendUnreliable(h, arrives) \/ TickAck(h, arrives)
                \/ \E seq \in due : TickResend(h, seq, arrives)
    BY <1>3 DEF LinkNext
  <2>2. LinkKept(h)
    BY <2>1, ConnectOK, PollOK, TickBeginOK, TickEndOK, SendOK, SendUnreliableOK,
       TickAckOK, TickResendOK
  <2>3. QED
    BY <1>2, <2>2
<1>4. QED
  BY <1>1, <1>3

-----------------------------------------------------------------------------
\* The theorems.

\* The strengthening that makes the properties inductive: it ties the payload
\* of a slot to the message numbered, the history of AckTracker to what the
\* receiver got, and what was surfaced to the in-order cursor.
THEOREM Inductive == LinkSpec => []IInv
<1>1. LinkInit => IInv
  BY InitOK
<1>2. IInv /\ [LinkNext]_linkVars => IInv'
  BY StepOK
<1>3. QED
  BY <1>1, <1>2, PTL DEF LinkSpec

\* The parts of LinkTypeOK about one host.
LEMMA SenderInRange ==
    ASSUME IInv, NEW h \in Host
    PROVE  /\ sender[h].nextSeq \in 1..Len(Script[h])+1
           /\ sender[h].oldest \in 1..sender[h].nextSeq
           /\ sender[h].inflight \in 0..SendWindow
           /\ \A i \in Slot : /\ sender[h].ring[i] \in Entry(h)
                              /\ sender[h].ring[i] # Free => SlotOf(sender[h].ring[i].seq) = i
<1> DEFINE s == sender[h]
<1>1. SenderOK(h, s) /\ Script[h] \in Seq(Payload) /\ Len(Script[h]) \in Nat
  BY ScriptAssumption, LenProperties DEF IInv, LinkOK
<1>2. s.nextSeq \in Nat /\ s.oldest \in Nat /\ s.inflight \in Nat /\ s.ring \in [Slot -> SlotType]
  BY <1>1 DEF SenderOK, SenderType
<1>3. s.inflight \in 0..SendWindow
  BY <1>1, <1>2, SizeAssumption DEF SenderOK
<1>4. ASSUME NEW i \in Slot, s.ring[i] # Free
      PROVE  s.ring[i] \in Entry(h) /\ SlotOf(s.ring[i].seq) = i
  <2> DEFINE e == s.ring[i]
  <2>1. /\ e \in SlotType /\ e.inUse /\ e.seq \in 1..s.nextSeq-1
        /\ SlotOf(e.seq) = i /\ e.payload = Script[h][e.seq]
    BY <1>1, <1>2, <1>4 DEF SenderOK, RingOK
  <2>2. e.seq \in 1..Accepted(h) /\ e.seq \in 1..Len(Script[h])
    BY <1>1, <1>2, <2>1 DEF Accepted, SenderOK
  <2>3. e.payload \in Payload
    BY <1>1, <2>1, <2>2, ElementOfSeq
  <2> HIDE DEF e
  <2>4. e \in [inUse : {TRUE}, seq : 1..Accepted(h), payload : Payload, age : 0..RtoTicks]
    BY <2>1, <2>2, <2>3 DEF SlotType
  <2>5. QED
    BY <2>1, <2>4 DEF Entry, e
<1>5. \A i \in Slot : s.ring[i] = Free => s.ring[i] \in Entry(h)
  BY DEF Entry
<1>6. QED
  BY <1>1, <1>3, <1>4, <1>5 DEF SenderOK

\* The receive side of a host, likewise.
LEMMA ReceiverInRange ==
    ASSUME IInv, NEW h \in Host
    PROVE  /\ receiver[h].highest \in 0..Accepted(Peer[h])
           /\ receiver[h].bits \subseteq 0..AckBits-1
           /\ receiver[h].nextDeliver \in 1..Accepted(Peer[h])+1
           /\ DOMAIN receiver[h].ooo \subseteq receiver[h].nextDeliver+1..Accepted(Peer[h])
<1> DEFINE r == receiver[h]
           n == Accepted(Peer[h])
<1>1. Peer[h] \in Host
  BY PeerAssumption
<1>2. ReceiverOK(r, Script[Peer[h]], n) /\ r \in ReceiverType /\ n \in Nat
  <2>1. ReceiverOK(r, Script[Peer[h]], n) /\ SenderOK(Peer[h], sender[Peer[h]])
    BY <1>1 DEF IInv, LinkOK
  <2>2. r \in ReceiverType
    BY <2>1 DEF ReceiverOK
  <2>3. sender[Peer[h]].nextSeq \in 1..Len(Script[Peer[h]])+1
    BY <2>1 DEF SenderOK
  <2>4. n \in Nat
    BY <2>3 DEF Accepted
  <2> QED
    BY <2>1, <2>2, <2>4
<1>3. r.highest \in 0..n
  <2>1. r.highest \in Nat
    BY <1>2 DEF ReceiverType
  <2>2. CASE r.highest = 0
    BY <1>2, <2>2
  <2>3. CASE r.highest # 0
    <3>1. r.highest \in Got(r)
      BY <1>2, <2>3 DEF ReceiverOK, Claims, Named
    <3>2. Got(r) \subseteq 1..n
      BY <1>2 DEF ReceiverOK, ReceiverType, Got
    <3>3. QED
      BY <3>1, <3>2
  <2>4. QED
    BY <2>2, <2>3
<1>4. r.bits \subseteq 0..AckBits-1
  BY <1>2 DEF ReceiverType
<1>5. QED
  BY <1>2, <1>3, <1>4 DEF ReceiverOK

\* Type correctness: every counter, slot and history bit of the two hosts is in
\* range, and tick() retransmits only frames that are still held.
THEOREM TypeCorrect == LinkSpec => []LinkTypeOK
<1>1. IInv => LinkTypeOK
  <2>1. SUFFICES ASSUME IInv PROVE LinkTypeOK
    OBVIOUS
  <2>2. known \in [Host -> BOOLEAN] /\ TickOK
    BY <2>1 DEF IInv, LinkOK
  <2>3. QED
    BY <2>1, <2>2, SenderInRange, ReceiverInRange DEF LinkTypeOK, TickOK
<1>2. QED
  BY <1>1, Inductive, PTL

\* apply_ack() never forgets a frame the receiver does not have, for every
\* width of the history and of the window.
THEOREM RetiredSafe == LinkSpec => []RetiredWasReceived
<1>1. IInv => RetiredWasReceived
  <2>1. \A h \in Host : Received(h) = Got(receiver[h])
    BY DEF Received, Got
  <2>2. QED
    BY <2>1, PeerAssumption DEF IInv, LinkOK, RetiredWasReceived
<1>2. QED
  BY <1>1, Inductive, PTL

\* inflight_ covers the slots in use, although enqueue() may write over one: it
\* never wraps below zero in apply_ack().
THEOREM InflightSafe == LinkSpec => []InflightCoversHeld
<1>1. IInv => InflightCoversHeld
  <2>1. SUFFICES ASSUME IInv, NEW h \in Host
                 PROVE  Cardinality({i \in Slot : sender[h].ring[i].inUse}) <= sender[h].inflight
    BY DEF InflightCoversHeld
  <2>2. Cardinality(Used(sender[h])) <= sender[h].inflight
    BY <2>1 DEF IInv, LinkOK, SenderOK
  <2>3. QED
    BY <2>2 DEF Used
<1>2. QED
  BY <1>1, Inductive, PTL

\* The two hosts implement the channel of FifoChannel: whatever the bus drops,
\* what on_datagram() and poll() hand over is a prefix of what send() took, in
\* order and without duplicates.
THEOREM FifoImplemented == LinkSpec => ImplementsFifo
<1>1. LinkInit => IInv /\ Fifo!Init
  BY InitOK
<1>2. IInv /\ [LinkNext]_linkVars => IInv' /\ [Fifo!Next]_Fifo!absVars
  BY StepOK
<1>3. QED
  BY <1>1, <1>2, PTL DEF LinkSpec, ImplementsFifo, Fifo!Spec

-----------------------------------------------------------------------------
(***************************************************************************)
(* Theorems about Match and Replication.                                    *)
(*                                                                         *)
(* The state after `tick` ticks is known up to the players' choices: which  *)
(* ticks each map covers follows from tick and the latency (NetShape).  What *)
(* has to be shown is how the values hang together, and history_ is what    *)
(* they hang on: the snapshot made in tick u decodes to what was visible in *)
(* past[u] (Chained), and the position there, moved by the inputs that it   *)
(* does not acknowledge, is what the client predicts (Exact).               *)
(***************************************************************************)

\* Numbers and recursion.

LEMMA LowestIn ==
    ASSUME NEW S \in SUBSET Nat, S # {}
    PROVE  /\ Lowest(S) \in S
           /\ \A y \in S : Lowest(S) <= y
<1> DEFINE R == {ss \in Nat \X Nat : ss[1] < ss[2]}
<1>1. IsWellFoundedOn(R, Nat)
  BY NatLessThanWellFounded DEF OpToRel
<1>2. \A x, y \in Nat : <<y, x>> \notin R => x <= y
  OBVIOUS
<1> HIDE DEF R
<1>3. PICK x \in S : \A y \in S : <<y, x>> \notin R
  BY <1>1, WFMin
<1>4. \A y \in S : x <= y
  BY <1>2, <1>3
<1> QED
  BY <1>4 DEF Lowest

\* A set of numbers that has 0 and with each number the next is all of Nat.
LEMMA Numbers ==
    ASSUME NEW S \in SUBSET Nat, 0 \in S, \A n \in S : n + 1 \in S
    PROVE  S = Nat
<1> SUFFICES ASSUME Nat \ S # {}
             PROVE  FALSE
  OBVIOUS
<1> PICK k : k = Lowest(Nat \ S)
  OBVIOUS
<1>1. k \in Nat /\ k \notin S /\ \A y \in Nat \ S : k <= y
  BY LowestIn
<1>2. k # 0
  BY <1>1
<1>3. k - 1 \in Nat /\ k - 1 < k
  BY <1>1, <1>2
<1>4. k - 1 \in S
  BY <1>1, <1>3
<1>5. (k - 1) + 1 = k
  BY <1>1
<1> QED
  BY <1>1, <1>4, <1>5

\* Some entry of a table is the greatest.
LEMMA Highest ==
    ASSUME NEW n \in Nat \ {0}, NEW f \in [1..n -> Int]
    PROVE  \E i \in 1..n : \A j \in 1..n : f[j] <= f[i]
<1> DEFINE S == {m \in Nat : m + 1 <= n => \E i \in 1..m + 1 : \A j \in 1..m + 1 : f[j] <= f[i]}
<1>1. 0 \in S
  OBVIOUS
<1>2. ASSUME NEW m \in S
      PROVE  m + 1 \in S
  <2> SUFFICES ASSUME m + 2 <= n
               PROVE  \E i \in 1..m + 2 : \A j \in 1..m + 2 : f[j] <= f[i]
    OBVIOUS
  <2>1. m \in Nat /\ m + 1 <= n
    OBVIOUS
  <2>2. PICK i \in 1..m + 1 : \A j \in 1..m + 1 : f[j] <= f[i]
    BY <2>1
  <2>3. 1..m + 2 = 1..m + 1 \cup {m + 2}
    BY <2>1
  <2>4. i \in 1..n /\ m + 2 \in 1..n /\ \A j \in 1..m + 1 : j \in 1..n
    BY <2>1
  <2>5. f[i] \in Int /\ f[m + 2] \in Int /\ \A j \in 1..m + 1 : f[j] \in Int
    BY <2>4
  <2>6. CASE f[m + 2] <= f[i]
    BY <2>2, <2>3, <2>6
  <2>7. CASE ~(f[m + 2] <= f[i])
    <3>1. \A j \in 1..m + 1 : f[j] <= f[m + 2]
      BY <2>2, <2>5, <2>7
    <3>2. f[m + 2] <= f[m + 2]
      BY <2>5
    <3>3. m + 2 \in 1..m + 2
      BY <2>1
    <3> QED
      BY <2>3, <3>1, <3>2, <3>3
  <2> QED
    BY <2>6, <2>7
<1>3. S = Nat
  <2> HIDE DEF S
  <2>1. S \in SUBSET Nat
    BY DEF S
  <2> QED
    BY <1>1, <1>2, <2>1, Numbers
<1> HIDE DEF S
<1>4. n - 1 \in S /\ (n - 1) + 1 = n
  BY <1>3
<1> QED
  BY <1>4 DEF S

Iterates(f, S, a, step) ==
    f \in [Nat -> S] /\ f[0] = a /\ \A i \in Nat \ {0} : f[i] = step[i][f[i - 1]]

\* A function is defined by its value at 0 and how each value follows from the
\* one before.
LEMMA Recursion ==
    ASSUME NEW S, NEW a \in S, NEW step \in [Nat -> [S -> S]]
    PROVE  \E f : Iterates(f, S, a, step)
<1> DEFINE G(m, f) == /\ f \in [0..m -> S] /\ f[0] = a
                      /\ \A i \in 1..m : f[i] = step[i][f[i - 1]]
           E == {m \in Nat : \E f : G(m, f)}
<1>1. E = Nat
  <2>1. 0 \in E
    <3>1. G(0, [i \in 0..0 |-> a])
      OBVIOUS
    <3> QED
      BY <3>1
  <2>2. ASSUME NEW m \in E
        PROVE  m + 1 \in E
    <3>1. PICK f : G(m, f)
      OBVIOUS
    <3> DEFINE g == [i \in 0..m + 1 |-> IF i = m + 1 THEN step[m + 1][f[m]] ELSE f[i]]
    <3>2. m \in Nat /\ m \in 0..m /\ f[m] \in S
      BY <3>1
    <3>3. step[m + 1][f[m]] \in S
      BY <3>2
    <3>4. g \in [0..m + 1 -> S]
      BY <3>1, <3>2, <3>3
    <3>5. g[0] = a
      BY <3>1, <3>2
    <3>6. ASSUME NEW i \in 1..m + 1
          PROVE  g[i] = step[i][g[i - 1]]
      <4>1. CASE i = m + 1
        <5>1. m # m + 1 /\ m \in 0..m + 1 /\ i - 1 = m /\ i \in 0..m + 1
          BY <3>2, <4>1
        <5> QED
          BY <4>1, <5>1
      <4>2. CASE i # m + 1
        <5>1. i \in 1..m /\ i \in 0..m + 1 /\ i - 1 \in 0..m + 1 /\ i - 1 # m + 1
          BY <3>2, <4>2
        <5> QED
          BY <3>1, <4>2, <5>1
      <4> QED
        BY <4>1, <4>2
    <3> HIDE DEF g
    <3>7. G(m + 1, g)
      BY <3>4, <3>5, <3>6
    <3> QED
      BY <3>2, <3>7
  <2> HIDE DEF E
  <2>3. E \in SUBSET Nat
    BY DEF E
  <2> QED
    BY <2>1, <2>2, <2>3, Numbers
<1>2. ASSUME NEW m \in Nat, NEW n \in Nat, NEW f, NEW g, G(m, f), G(n, g)
      PROVE  \A i \in Nat : i <= m /\ i <= n => f[i] = g[i]
  <2> DEFINE A == {i \in Nat : i <= m /\ i <= n => f[i] = g[i]}
  <2>1. 0 \in A
    BY <1>2
  <2>2. ASSUME NEW i \in A
        PROVE  i + 1 \in A
    <3> SUFFICES ASSUME i + 1 <= m, i + 1 <= n
                 PROVE  f[i + 1] = g[i + 1]
      OBVIOUS
    <3>1. i + 1 \in 1..m /\ i + 1 \in 1..n /\ (i + 1) - 1 = i /\ f[i] = g[i]
      OBVIOUS
    <3>2. f[i + 1] = step[i + 1][f[i]]
      BY <1>2, <3>1
    <3>3. g[i + 1] = step[i + 1][g[i]]
      BY <1>2, <3>1
    <3> QED
      BY <3>1, <3>2, <3>3
  <2> HIDE DEF A
  <2>3. A \in SUBSET Nat
    BY DEF A
  <2>4. A = Nat
    BY <2>1, <2>2, <2>3, Numbers
  <2> QED
    BY <2>4 DEF A
<1> DEFINE ch == [m \in Nat |-> CHOOSE f : G(m, f)]
<1>3. \A m \in Nat : G(m, ch[m])
  BY <1>1
<1> HIDE DEF ch
<1> DEFINE h == [m \in Nat |-> ch[m][m]]
<1>4. h \in [Nat -> S]
  BY <1>3
<1>5. h[0] = a
  BY <1>3
<1>6. ASSUME NEW i \in Nat, i # 0
      PROVE  h[i] = step[i][h[i - 1]]
  <2>1. i - 1 \in Nat /\ i \in 1..i /\ i - 1 <= i /\ i - 1 <= i - 1
    BY <1>6
  <2>2. G(i, ch[i]) /\ G(i - 1, ch[i - 1])
    BY <1>3, <2>1
  <2> HIDE DEF G
  <2>3. ch[i][i - 1] = ch[i - 1][i - 1]
    BY <1>2, <2>1, <2>2
  <2> USE DEF G
  <2>4. ch[i][i] = step[i][ch[i][i - 1]]
    BY <2>1, <2>2
  <2> QED
    BY <2>1, <2>3, <2>4
<1>7. Iterates(h, S, a, step)
  BY <1>4, <1>5, <1>6 DEF Iterates
<1> QED
  BY <1>7

-----------------------------------------------------------------------------
\* Sums of moves.

Ring == UNION {[D -> Int] : D \in SUBSET Nat}

LEMMA RingMove ==
    ASSUME NEW r \in Ring, NEW t \in DOMAIN r
    PROVE  t \in Nat /\ r[t] \in Int
BY DEF Ring

\* The partial sums that Replayed() takes the last of.
Sums(at, p, r) ==
    /\ at \in [Nat -> Int] /\ at[0] = p
    /\ \A n \in Nat \ {0} : at[n] = IF n \in DOMAIN r THEN at[n - 1] + r[n] ELSE at[n - 1]

LEMMA ReplayedSums ==
    ASSUME NEW p \in Int, NEW r \in Ring
    PROVE  \E at : Sums(at, p, r) /\ \A n \in Nat : Replayed(p, r, n) = at[n]
<1> DEFINE Eq(at) == at = [t \in Nat |-> IF t = 0 THEN p
                             ELSE IF t \in DOMAIN r THEN at[t - 1] + r[t] ELSE at[t - 1]]
           at == CHOOSE f : Eq(f)
<1> PICK step : step = [t \in Nat |-> [x \in Int |-> IF t \in DOMAIN r THEN x + r[t] ELSE x]]
  OBVIOUS
<1>1. step \in [Nat -> [Int -> Int]]
  BY RingMove
<1>2. PICK f : Iterates(f, Int, p, step)
  BY <1>1, Recursion
<1>3. \A t \in Nat \ {0} : t - 1 \in Nat /\ f[t - 1] \in Int
  BY <1>2 DEF Iterates
<1>4. Eq(f)
  BY <1>2, <1>3 DEF Iterates
<1>5. Eq(at)
  BY <1>4
<1>6. \A n \in Nat : Replayed(p, r, n) = at[n]
  BY DEF Replayed
<1> HIDE DEF at
<1>7. at[0] = p /\ \A n \in Nat \ {0} : at[n] = IF n \in DOMAIN r THEN at[n - 1] + r[n] ELSE at[n - 1]
  BY <1>5
<1>8. at \in [Nat -> Int]
  <2> DEFINE S == {n \in Nat : at[n] \in Int}
  <2>1. 0 \in S
    BY <1>7
  <2>2. ASSUME NEW n \in S
        PROVE  n + 1 \in S
    <3>1. (n + 1) \in Nat \ {0} /\ (n + 1) - 1 = n /\ at[n] \in Int
      OBVIOUS
    <3>2. at[n + 1] = IF n + 1 \in DOMAIN r THEN at[n] + r[n + 1] ELSE at[n]
      BY <1>7, <3>1
    <3> QED
      BY <3>1, <3>2, RingMove
  <2> HIDE DEF S
  <2>3. S = Nat
    <3>1. S \in SUBSET Nat
      BY DEF S
    <3> QED
      BY <2>1, <2>2, <3>1, Numbers
  <2>4. \A n \in Nat : at[n] \in Int
    BY <2>3 DEF S
  <2> QED
    BY <1>5, <2>4
<1> QED
  BY <1>6, <1>7, <1>8 DEF Sums

\* Two sequences of sums with the same differences.
LEMMA SameSteps ==
    ASSUME NEW f \in [Nat -> Int], NEW g \in [Nat -> Int], NEW n \in Nat,
           \A i \in 1..n : f[i] - f[i - 1] = g[i] - g[i - 1]
    PROVE  f[n] - f[0] = g[n] - g[0]
<1> DEFINE S == {i \in Nat : i <= n => f[i] - f[0] = g[i] - g[0]}
<1>1. 0 \in S
  OBVIOUS
<1>2. ASSUME NEW i \in S
      PROVE  i + 1 \in S
  <2> SUFFICES ASSUME i + 1 <= n
               PROVE  f[i + 1] - f[0] = g[i + 1] - g[0]
    OBVIOUS
  <2>1. i \in Nat /\ i + 1 \in 1..n /\ (i + 1) - 1 = i /\ f[i] - f[0] = g[i] - g[0]
    OBVIOUS
  <2>2. f[i + 1] - f[i] = g[i + 1] - g[i]
    BY <2>1
  <2>3. {f[0], g[0], f[i], g[i], f[i + 1], g[i + 1]} \subseteq Int
    BY <2>1
  <2> QED
    BY <2>1, <2>2, <2>3
<1> HIDE DEF S
<1>3. S \in SUBSET Nat
  BY DEF S
<1>4. S = Nat
  BY <1>1, <1>2, <1>3, Numbers
<1> QED
  BY <1>4 DEF S

LEMMA ReplayedType ==
    ASSUME NEW p \in Int, NEW r \in Ring, NEW n \in Nat
    PROVE  Replayed(p, r, n) \in Int
<1>1. PICK f : Sums(f, p, r) /\ \A k \in Nat : Replayed(p, r, k) = f[k]
  BY ReplayedSums
<1> QED
  BY <1>1 DEF Sums

\* Only the moves up to the last tick count.
LEMMA ReplayedSame ==
    ASSUME NEW p \in Int, NEW r \in Ring, NEW q \in Ring, NEW n \in Nat,
           \A t \in 1..n : (t \in DOMAIN r <=> t \in DOMAIN q) /\ (t \in DOMAIN r => r[t] = q[t])
    PROVE  Replayed(p, r, n) = Replayed(p, q, n)
<1>1. PICK f : Sums(f, p, r) /\ \A k \in Nat : Replayed(p, r, k) = f[k]
  BY ReplayedSums
<1>2. PICK g : Sums(g, p, q) /\ \A k \in Nat : Replayed(p, q, k) = g[k]
  BY ReplayedSums
<1>3. \A i \in 1..n : f[i] - f[i - 1] = g[i] - g[i - 1]
  <2> TAKE i \in 1..n
  <2>1. i \in Nat \ {0} /\ i - 1 \in Nat
    OBVIOUS
  <2>2. f[i - 1] \in Int /\ g[i - 1] \in Int
    BY <1>1, <1>2, <2>1 DEF Sums
  <2>3. f[i] = IF i \in DOMAIN r THEN f[i - 1] + r[i] ELSE f[i - 1]
    BY <1>1, <2>1 DEF Sums
  <2>4. g[i] = IF i \in DOMAIN q THEN g[i - 1] + q[i] ELSE g[i - 1]
    BY <1>2, <2>1 DEF Sums
  <2>5. CASE i \in DOMAIN r
    <3>1. r[i] \in Int /\ i \in DOMAIN q /\ q[i] = r[i]
      BY <2>5, RingMove
    <3> QED
      BY <2>2, <2>3, <2>4, <2>5, <3>1
  <2>6. CASE i \notin DOMAIN r
    BY <2>2, <2>3, <2>4, <2>6
  <2> QED
    BY <2>5, <2>6
<1>4. f[n] - f[0] = g[n] - g[0]
  BY <1>1, <1>2, <1>3, SameSteps DEF Sums
<1>5. f[0] = p /\ g[0] = p /\ f[n] \in Int /\ g[n] \in Int
  BY <1>1, <1>2 DEF Sums
<1>6. f[n] = g[n]
  BY <1>4, <1>5
<1> QED
  BY <1>1, <1>2, <1>6

\* The last move comes on top.
LEMMA ReplayedLast ==
    ASSUME NEW p \in Int, NEW r \in Ring, NEW n \in Nat, n + 1 \in DOMAIN r
    PROVE  Replayed(p, r, n + 1) = Replayed(p, r, n) + r[n + 1]
<1>1. PICK f : Sums(f, p, r) /\ \A k \in Nat : Replayed(p, r, k) = f[k]
  BY ReplayedSums
<1>2. n + 1 \in Nat \ {0} /\ (n + 1) - 1 = n
  OBVIOUS
<1>3. f[n + 1] = f[n] + r[n + 1]
  BY <1>1, <1>2 DEF Sums
<1> QED
  BY <1>1, <1>2, <1>3

\* So does the first one.
LEMMA ReplayedFirst ==
    ASSUME NEW p \in Int, NEW r \in Ring, NEW q \in Ring, NEW n \in Nat, NEW a \in 1..n,
           a \in DOMAIN r, DOMAIN q = DOMAIN r \ {a}, \A t \in DOMAIN q : q[t] = r[t]
    PROVE  Replayed(p, r, n) = Replayed(p + r[a], q, n)
<1>0. r[a] \in Int /\ p + r[a] \in Int
  BY RingMove
<1>1. PICK f : Sums(f, p, r) /\ \A k \in Nat : Replayed(p, r, k) = f[k]
  BY ReplayedSums
<1>2. PICK g : Sums(g, p + r[a], q) /\ \A k \in Nat : Replayed(p + r[a], q, k) = g[k]
  BY <1>0, ReplayedSums
<1> DEFINE h == [i \in Nat |-> IF i < a THEN g[i] - r[a] ELSE g[i]]
<1>3. h \in [Nat -> Int]
  BY <1>0, <1>2 DEF Sums
<1>4. \A i \in 1..n : f[i] - f[i - 1] = h[i] - h[i - 1]
  <2> TAKE i \in 1..n
  <2>1. i \in Nat \ {0} /\ i - 1 \in Nat /\ i \in Nat
    OBVIOUS
  <2>2. f[i - 1] \in Int /\ g[i - 1] \in Int
    BY <1>1, <1>2, <2>1 DEF Sums
  <2>3. f[i] = IF i \in DOMAIN r THEN f[i - 1] + r[i] ELSE f[i - 1]
    BY <1>1, <2>1 DEF Sums
  <2>4. g[i] = IF i \in DOMAIN q THEN g[i - 1] + q[i] ELSE g[i - 1]
    BY <1>2, <2>1 DEF Sums
  <2>5. CASE i = a
    <3>1. i \notin DOMAIN q /\ i - 1 < a /\ ~(i < a)
      BY <2>5
    <3>2. h[i] = g[i - 1] /\ h[i - 1] = g[i - 1] - r[a]
      BY <2>1, <2>4, <3>1
    <3>3. f[i] = f[i - 1] + r[a]
      BY <2>3, <2>5
    <3> HIDE DEF h
    <3> QED
      BY <1>0, <2>2, <3>2, <3>3
  <2>6. CASE i # a
    <3>1. (i < a <=> i - 1 < a) /\ (i \in DOMAIN q <=> i \in DOMAIN r)
      BY <2>6
    <3>2. i \in DOMAIN q => q[i] = r[i] /\ r[i] \in Int
      BY <3>1, RingMove
    <3>3. h[i] = IF i < a THEN g[i] - r[a] ELSE g[i]
      BY <2>1
    <3>4. h[i - 1] = IF i < a THEN g[i - 1] - r[a] ELSE g[i - 1]
      BY <2>1, <3>1
    <3> HIDE DEF h
    <3>5. CASE i \in DOMAIN q
      BY <1>0, <2>2, <2>3, <2>4, <3>1, <3>2, <3>3, <3>4, <3>5
    <3>6. CASE i \notin DOMAIN q
      BY <1>0, <2>2, <2>3, <2>4, <3>1, <3>3, <3>4, <3>6
    <3> QED
      BY <3>5, <3>6
  <2> QED
    BY <2>5, <2>6
<1>5. h[0] = p /\ h[n] = g[n]
  <2>1. g[0] = p + r[a]
    BY <1>2 DEF Sums
  <2> QED
    BY <1>0, <2>1
<1> HIDE DEF h
<1>6. f[n] - f[0] = h[n] - h[0]
  BY <1>1, <1>3, <1>4, SameSteps DEF Sums
<1>7. f[0] = p /\ f[n] \in Int /\ g[n] \in Int
  BY <1>1, <1>2 DEF Sums
<1>8. f[n] = g[n]
  BY <1>5, <1>6, <1>7
<1> QED
  BY <1>1, <1>2, <1>8

-----------------------------------------------------------------------------
\* The invariant of the replication loop, as operators of the state's parts: of
\* the session s, the number of ticks T, the world w and so on.

Clip(n) == IF n > 0 THEN n ELSE 0

View(s, w, c) ==
    IF s.radius >= Everywhere THEN w
    ELSE [e \in {x \in Client : w[x] - w[c] <= s.radius /\ w[c] - w[x] <= s.radius} |-> w[e]]
\* What client c may see of tick u.
ViewAt(s, old, u, c) == IF u < 0 THEN Nothing ELSE View(s, old[u], c)

\* The ticks of delivery of what is in flight.
Flight(s, T) == {d \in Nat : T <= d /\ d < T + s.latency /\ s.latency <= d}
Span(s) == 2 * s.latency + HistorySlack

\* The server: the inputs of all ticks but the last ones have arrived, and the
\* past ends with the present world, which is also the base of the next delta.
WorldsOK(s, T, w, last, base, old) ==
    /\ s \in Sessions /\ T \in Nat
    /\ w \in [Client -> Int]
    /\ last = [c \in Client |-> Clip(T - s.latency)]
    /\ base = IF s.radius >= Everywhere /\ T > 0 THEN w ELSE Nothing
    /\ DOMAIN old = {u \in Nat : T - 1 - Span(s) < u /\ u < T}
    /\ \A u \in DOMAIN old : old[u] \in [Client -> Int]
    /\ T > 0 => old[T - 1] = w

\* A client: its ring begins after what was acknowledged in the snapshot it
\* applied last, and that snapshot is its baseline.
ClientsOK(s, T, old, cls) ==
    /\ DOMAIN cls = Client
    /\ \A c \in Client :
          /\ cls[c] = [ring |-> cls[c].ring, predicted |-> cls[c].predicted,
                       baseline |-> ViewAt(s, old, T - 1 - s.latency, c),
                       applied |-> IF T - 1 - s.latency < 0 THEN -1 ELSE T - 1 - s.latency]
          /\ cls[c].ring \in Ring
          /\ DOMAIN cls[c].ring = {x \in Nat : Clip(T - 2 * s.latency) < x /\ x <= T}
          /\ cls[c].predicted \in Int

\* What is on its way to the server is what the rings hold.
InputsOK(s, T, cls, up) ==
    /\ DOMAIN up = Flight(s, T)
    /\ \A d \in DOMAIN up :
          /\ DOMAIN up[d] = Client
          /\ \A c \in Client :
                /\ up[d][c].tick = d - s.latency + 1
                /\ up[d][c].move = cls[c].ring[d - s.latency + 1]
                /\ up[d][c].seen =
                     IF d - 2 * s.latency - 1 < 0 THEN -1 ELSE d - 2 * s.latency - 1

\* Each snapshot on its way decodes, from the one before it, to what its client
\* may see of the world of its tick.
Chained(s, T, old, down) ==
    /\ DOMAIN down = Flight(s, T)
    /\ \A d \in DOMAIN down :
          /\ DOMAIN down[d] = Client
          /\ \A c \in Client :
                /\ down[d][c].tick = d - s.latency
                /\ down[d][c].acked = Clip(d - 2 * s.latency + 1)
                /\ Decoded(ViewAt(s, old, d - s.latency - 1, c), down[d][c])
                     = View(s, old[d - s.latency], c)

\* What client c predicts when it starts from `position` and the inputs up to
\* `acked` are in it.
Foreseen(cl, position, acked, T) == Replayed(position, After(acked, cl.ring), T)

Exact(s, T, w, old, cls) ==
    \A c \in Client :
        /\ cls[c].predicted = Foreseen(cls[c], w[c], Clip(T - s.latency), T)
        /\ \A d \in Flight(s, T) :
              cls[c].predicted =
                Foreseen(cls[c], old[d - s.latency][c], Clip(d - 2 * s.latency + 1), T)

NetInv ==
    /\ WorldsOK(session, tick, world, lastInput, prev, past)
    /\ ClientsOK(session, tick, past, clients)
    /\ InputsOK(session, tick, clients, c2s)
    /\ Chained(session, tick, past, s2c)
    /\ Exact(session, tick, world, past, clients)

-----------------------------------------------------------------------------
\* The operators of the module.

LEMMA Sizes == /\ ClientCount \in Nat \ {0} /\ RingCapacity \in Nat \ {0}
               /\ HistorySlack \in Nat \ {0} /\ Everywhere \in Nat
BY ReplicationConstants

LEMMA SessionSizes ==
    ASSUME NEW s \in Sessions
    PROVE  s.latency \in Nat /\ s.radius \in Nat /\ 2 * s.latency <= RingCapacity
BY SessionAssumption

LEMMA ClientNat == \A c \in Client : c \in Nat
BY Sizes DEF Client

LEMMA AfterParts ==
    ASSUME NEW t, NEW map
    PROVE  /\ \A x : x \in DOMAIN After(t, map) <=> x \in DOMAIN map /\ x > t
           /\ \A x \in DOMAIN After(t, map) : After(t, map)[x] = map[x]
           /\ After(t, map) = [x \in DOMAIN After(t, map) |-> After(t, map)[x]]
BY DEF After

LEMMA WithParts ==
    ASSUME NEW map, NEW t, NEW v
    PROVE  /\ \A x : x \in DOMAIN With(map, t, v) <=> x \in DOMAIN map \/ x = t
           /\ With(map, t, v)[t] = v
           /\ \A x \in DOMAIN map : x # t => With(map, t, v)[x] = map[x]
BY DEF With

\* Encoding a map against one of no larger domain, and applying it to that one.
LEMMA RoundTrip ==
    ASSUME NEW base, NEW current,
           base = [e \in DOMAIN base |-> base[e]],
           current = [e \in DOMAIN current |-> current[e]],
           DOMAIN base \subseteq DOMAIN current
    PROVE  ApplyDelta(base, EncodeDelta(base, current)) = current
<1> DEFINE delta == EncodeDelta(base, current)
<1>1. DOMAIN delta = {x \in DOMAIN current : x \notin DOMAIN base \/ base[x] # current[x]}
  BY DEF EncodeDelta
<1>2. \A e \in DOMAIN delta : delta[e] = current[e]
  BY DEF EncodeDelta
<1> HIDE DEF delta
<1>3. DOMAIN base \cup DOMAIN delta = DOMAIN current
  BY <1>1
<1>4. ApplyDelta(base, delta) = [e \in DOMAIN current |-> current[e]]
  BY <1>1, <1>2, <1>3 DEF ApplyDelta
<1> QED
  BY <1>4 DEF delta

LEMMA ViewOwn ==
    ASSUME NEW s \in Sessions, NEW w \in [Client -> Int], NEW c \in Client
    PROVE  /\ c \in DOMAIN View(s, w, c) /\ View(s, w, c)[c] = w[c]
           /\ DOMAIN View(s, w, c) \subseteq Client
           /\ \A e \in DOMAIN View(s, w, c) : View(s, w, c)[e] = w[e]
           /\ View(s, w, c) = [e \in DOMAIN View(s, w, c) |-> View(s, w, c)[e]]
<1>1. w[c] - w[c] = 0 /\ 0 <= s.radius /\ w[c] - w[c] <= s.radius
  BY SessionSizes
<1>2. w = [e \in DOMAIN w |-> w[e]] /\ DOMAIN w = Client
  OBVIOUS
<1>3. CASE s.radius >= Everywhere
  BY <1>2, <1>3 DEF View
<1>4. CASE ~(s.radius >= Everywhere)
  BY <1>1, <1>4 DEF View
<1> QED
  BY <1>3, <1>4

LEMMA VisibleIsView == \A w, c : Visible(w, c) = View(session, w, c)
BY DEF Visible, View, Near, AllVisible

-----------------------------------------------------------------------------
\* One tick.

Get(q, T) == IF T \in DOMAIN q THEN q[T] ELSE Nothing
Moved(w, in) == [c \in Client |-> IF c \in DOMAIN in THEN w[c] + in[c].move ELSE w[c]]
Applied(last, in) == [c \in Client |-> IF c \in DOMAIN in THEN in[c].tick ELSE last[c]]
Kept(s, T, old, w) == After(T - Span(s), With(old, T, w))
Pressed(T, cl, move) ==
    [cl EXCEPT !.ring = Push(@, T + 1, move), !.predicted = @ + move]

\* What arrives at the server in tick T.
ArrivesOK(s, T, in) ==
    IF T < s.latency THEN in = Nothing
    ELSE /\ DOMAIN in = Client
         /\ \A c \in Client : in[c].tick = T - s.latency + 1 /\ in[c].move \in Int

LEMMA FlightGoesOn ==
    ASSUME NEW s \in Sessions, NEW T \in Nat
    PROVE  /\ {d \in Flight(s, T) \cup {T + s.latency} : d > T} = Flight(s, T + 1)
           /\ T \in Flight(s, T) \cup {T + s.latency} <=> T >= s.latency
<1>1. s.latency \in Nat
  BY SessionSizes
<1> QED
  BY <1>1 DEF Flight

LEMMA WorldsStep ==
    ASSUME NEW s, NEW T, NEW w, NEW last, NEW base, NEW old, NEW in,
           WorldsOK(s, T, w, last, base, old), ArrivesOK(s, T, in)
    PROVE  WorldsOK(s, T + 1, Moved(w, in), Applied(last, in),
                    IF s.radius >= Everywhere THEN Moved(w, in) ELSE base,
                    Kept(s, T, old, Moved(w, in)))
<1>1. s \in Sessions /\ T \in Nat /\ s.latency \in Nat /\ HistorySlack \in Nat \ {0}
  BY SessionSizes, Sizes DEF WorldsOK
<1>2. Span(s) \in Nat \ {0}
  BY <1>1 DEF Span
<1>3. Moved(w, in) \in [Client -> Int]
  <2>1. CASE T < s.latency
    BY <2>1 DEF ArrivesOK, Moved, Nothing, WorldsOK
  <2>2. CASE ~(T < s.latency)
    BY <2>2 DEF ArrivesOK, Moved, WorldsOK
  <2> QED
    BY <2>1, <2>2
<1>4. Applied(last, in) = [c \in Client |-> Clip((T + 1) - s.latency)]
  <2>1. CASE T < s.latency
    <3>1. Clip(T - s.latency) = Clip((T + 1) - s.latency)
      BY <1>1, <2>1 DEF Clip
    <3> QED
      BY <2>1, <3>1 DEF ArrivesOK, Applied, Nothing, WorldsOK
  <2>2. CASE ~(T < s.latency)
    <3>1. T - s.latency + 1 = Clip((T + 1) - s.latency)
      BY <1>1, <2>2 DEF Clip
    <3> QED
      BY <2>2, <3>1 DEF ArrivesOK, Applied, WorldsOK
  <2> QED
    BY <2>1, <2>2
<1> PICK w2 : w2 = Moved(w, in)
  OBVIOUS
<1> PICK old2 : old2 = Kept(s, T, old, w2)
  OBVIOUS
<1>5. DOMAIN old2 = {u \in Nat : T - Span(s) < u /\ u < T + 1}
  <2>1. \A u : u \in DOMAIN old2 <=> (u \in DOMAIN old \/ u = T) /\ u > T - Span(s)
    BY AfterParts, WithParts DEF Kept
  <2>2. DOMAIN old = {u \in Nat : T - 1 - Span(s) < u /\ u < T}
    BY DEF WorldsOK
  <2> PICK k : k = Span(s)
    OBVIOUS
  <2>3. ASSUME NEW u
        PROVE  u \in DOMAIN old2 <=> u \in Nat /\ T - k < u /\ u < T + 1
    <3>1. u \in DOMAIN old2 <=> ((u \in Nat /\ T - 1 - k < u /\ u < T) \/ u = T) /\ u > T - k
      BY <2>1, <2>2
    <3> QED
      BY ONLY <1>1, <1>2, <3>1, k = Span(s)
  <2> QED
    BY <2>3
<1>6. \A u \in DOMAIN old2 : old2[u] = IF u = T THEN w2 ELSE old[u]
  BY AfterParts, WithParts DEF Kept
<1>7. \A u \in DOMAIN old2 : old2[u] \in [Client -> Int]
  BY <1>1, <1>2, <1>3, <1>5, <1>6 DEF WorldsOK
<1>8. old2[T] = w2
  BY <1>1, <1>2, <1>5, <1>6
<1>9. (T + 1) - 1 = T /\ T + 1 > 0 /\ T + 1 \in Nat
  BY <1>1
<1>10. s.radius >= Everywhere \/ base = Nothing
  BY DEF WorldsOK
<1> QED
  BY <1>1, <1>3, <1>4, <1>5, <1>7, <1>8, <1>9, <1>10 DEF WorldsOK

\* The client `now` is the client `cl` after it has pressed for `move` in tick T.
Presses(s, T, cl, move, now) ==
    /\ now.ring \in Ring
    /\ DOMAIN now.ring = {x \in Nat : Clip(T - 2 * s.latency) < x /\ x <= T + 1
                                       /\ (T + 1) - RingCapacity < x}
    /\ now.ring[T + 1] = move
    /\ \A x \in DOMAIN now.ring : x <= T => now.ring[x] = cl.ring[x]
    /\ now.predicted = cl.predicted + move
    /\ now.baseline = cl.baseline /\ now.applied = cl.applied

LEMMA PressedRing ==
    ASSUME NEW s \in Sessions, NEW T \in Nat, NEW old, NEW cls, ClientsOK(s, T, old, cls),
           NEW c \in Client, NEW move \in Int
    PROVE  Presses(s, T, cls[c], move, Pressed(T, cls[c], move))
<1>1. s.latency \in Nat /\ RingCapacity \in Nat \ {0}
  BY SessionSizes, Sizes
<1> PICK ring : ring = cls[c].ring
  OBVIOUS
<1> PICK r2 : r2 = Push(ring, T + 1, move)
  OBVIOUS
<1>2. ring \in Ring /\ DOMAIN ring = {x \in Nat : Clip(T - 2 * s.latency) < x /\ x <= T}
  BY DEF ClientsOK
<1> PICK wide : wide = With(ring, T + 1, move)
  OBVIOUS
<1>a. r2 = After((T + 1) - RingCapacity, wide)
  BY DEF Push
<1>b. \A x : x \in DOMAIN wide <=> x \in DOMAIN ring \/ x = T + 1
  BY WithParts
<1>c. \A x : x \in DOMAIN r2 <=> x \in DOMAIN wide /\ x > (T + 1) - RingCapacity
  BY <1>a, AfterParts
<1>3. \A x : x \in DOMAIN r2 <=> (x \in DOMAIN ring \/ x = T + 1) /\ x > (T + 1) - RingCapacity
  BY <1>1, <1>b, <1>c
<1>4. \A x \in DOMAIN r2 : r2[x] = IF x = T + 1 THEN move ELSE ring[x]
  BY <1>a, <1>b, <1>c, AfterParts, WithParts
<1>5. r2 = [x \in DOMAIN r2 |-> r2[x]]
  BY <1>a, AfterParts
<1>6. Clip(T - 2 * s.latency) < T + 1 /\ Clip(T - 2 * s.latency) \in Nat
  BY <1>1 DEF Clip
<1>7. DOMAIN r2 = {x \in Nat : Clip(T - 2 * s.latency) < x /\ x <= T + 1
                               /\ (T + 1) - RingCapacity < x}
  <2> PICK k : k = Clip(T - 2 * s.latency)
    OBVIOUS
  <2>1. \A x : x \in DOMAIN ring <=> x \in Nat /\ k < x /\ x <= T
    BY <1>2
  <2>2. k \in Nat /\ k < T + 1
    BY <1>6
  <2>3. ASSUME NEW x
        PROVE  x \in DOMAIN r2 <=> x \in Nat /\ k < x /\ x <= T + 1 /\ (T + 1) - RingCapacity < x
    <3>1. x \in Nat => (x <= T + 1 <=> x <= T \/ x = T + 1)
      OBVIOUS
    <3>2. x \in Nat => (x > (T + 1) - RingCapacity <=> (T + 1) - RingCapacity < x)
      BY <1>1
    <3> QED
      BY <1>3, <2>1, <2>2, <3>1, <3>2
  <2> QED
    BY <2>3
<1>8. T + 1 \in DOMAIN r2
  BY <1>1, <1>6, <1>7
<1>9. r2 \in Ring
  <2>1. \A x \in DOMAIN r2 : x \in Nat /\ r2[x] \in Int
    BY <1>2, <1>3, <1>4, RingMove
  <2>2. r2 \in [DOMAIN r2 -> Int] /\ DOMAIN r2 \in SUBSET Nat
    BY <1>5, <2>1
  <2> QED
    BY <2>2 DEF Ring
<1> PICK cl : cl = Pressed(T, cls[c], move)
  OBVIOUS
<1>10. cl = [ring |-> r2, predicted |-> cls[c].predicted + move,
             baseline |-> cls[c].baseline, applied |-> cls[c].applied]
  <2> PICK b, p, a : cls[c] = [ring |-> ring, predicted |-> p, baseline |-> b, applied |-> a]
    BY DEF ClientsOK
  <2> QED
    BY DEF Pressed
<1> QED
  BY <1>4, <1>7, <1>8, <1>9, <1>10 DEF Presses

LEMMA AfterRing ==
    ASSUME NEW r \in Ring, NEW t \in Int
    PROVE  After(t, r) \in Ring
<1>1. \A x \in DOMAIN After(t, r) : x \in Nat /\ After(t, r)[x] \in Int
  BY AfterParts, RingMove
<1>2. After(t, r) \in [DOMAIN After(t, r) -> Int] /\ DOMAIN After(t, r) \in SUBSET Nat
  BY <1>1, AfterParts
<1> QED
  BY <1>2 DEF Ring

\* Pressing a key moves every prediction that the ring allows by the same.
LEMMA PressedForeseen ==
    ASSUME NEW s \in Sessions, NEW T \in Nat, NEW old, NEW cls, ClientsOK(s, T, old, cls),
           NEW c \in Client, NEW move \in Int, NEW p \in Int, NEW acked \in 0..T,
           acked >= Clip(T - 2 * s.latency), acked >= (T + 1) - RingCapacity
    PROVE  Foreseen(Pressed(T, cls[c], move), p, acked, T + 1) = Foreseen(cls[c], p, acked, T) + move
<1> PICK ring : ring = cls[c].ring
  OBVIOUS
<1> PICK r2 : r2 = Pressed(T, cls[c], move).ring
  OBVIOUS
<1>1. /\ r2 \in Ring /\ r2[T + 1] = move
      /\ DOMAIN r2 = {x \in Nat : Clip(T - 2 * s.latency) < x /\ x <= T + 1
                                  /\ (T + 1) - RingCapacity < x}
      /\ \A x \in DOMAIN r2 : x <= T => r2[x] = ring[x]
  <2>1. Presses(s, T, cls[c], move, Pressed(T, cls[c], move))
    BY PressedRing
  <2> QED
    BY <2>1 DEF Presses
<1>2. ring \in Ring /\ DOMAIN ring = {x \in Nat : Clip(T - 2 * s.latency) < x /\ x <= T}
  BY DEF ClientsOK
<1>3. s.latency \in Nat /\ RingCapacity \in Nat \ {0} /\ Clip(T - 2 * s.latency) \in Nat
  BY SessionSizes, Sizes DEF Clip
<1>4. After(acked, r2) \in Ring /\ After(acked, ring) \in Ring
  BY <1>1, <1>2, AfterRing
<1>5. DOMAIN After(acked, r2) = {x \in Nat : acked < x /\ x <= T + 1}
  <2>1. \A x : x \in DOMAIN After(acked, r2) <=> x \in DOMAIN r2 /\ x > acked
    BY AfterParts
  <2> PICK k : k = Clip(T - 2 * s.latency)
    OBVIOUS
  <2>2. \A x : x \in DOMAIN r2 <=> x \in Nat /\ k < x /\ x <= T + 1 /\ (T + 1) - RingCapacity < x
    BY <1>1
  <2>3. k \in Nat /\ acked >= k /\ acked >= (T + 1) - RingCapacity /\ RingCapacity \in Nat
    BY <1>3
  <2>4. \A x : x \in DOMAIN After(acked, r2) <=> x \in Nat /\ acked < x /\ x <= T + 1
    BY <2>1, <2>2, <2>3
  <2> QED
    BY <2>4
<1>6. DOMAIN After(acked, ring) = {x \in Nat : acked < x /\ x <= T}
  <2>1. \A x : x \in DOMAIN After(acked, ring) <=> x \in DOMAIN ring /\ x > acked
    BY AfterParts
  <2> PICK k : k = Clip(T - 2 * s.latency)
    OBVIOUS
  <2>2. \A x : x \in DOMAIN ring <=> x \in Nat /\ k < x /\ x <= T
    BY <1>2
  <2>3. k \in Nat /\ acked >= k
    BY <1>3
  <2>4. \A x : x \in DOMAIN After(acked, ring) <=> x \in Nat /\ acked < x /\ x <= T
    BY <2>1, <2>2, <2>3
  <2> QED
    BY <2>4
<1>7. \A x \in DOMAIN After(acked, r2) : After(acked, r2)[x] = r2[x]
  BY AfterParts
<1>8. \A x \in DOMAIN After(acked, ring) : After(acked, ring)[x] = ring[x]
  BY AfterParts
<1>9. T + 1 \in DOMAIN After(acked, r2) /\ After(acked, r2)[T + 1] = move
  BY <1>1, <1>5, <1>7
<1>10. \A t \in 1..T : /\ t \in DOMAIN After(acked, r2) <=> t \in DOMAIN After(acked, ring)
                       /\ t \in DOMAIN After(acked, r2) =>
                            After(acked, r2)[t] = After(acked, ring)[t]
  <2> TAKE t \in 1..T
  <2>1. t \in DOMAIN After(acked, r2) <=> t \in DOMAIN After(acked, ring)
    BY <1>5, <1>6
  <2>2. ASSUME t \in DOMAIN After(acked, r2)
        PROVE  After(acked, r2)[t] = After(acked, ring)[t]
    <3>1. t \in DOMAIN r2 /\ t <= T
      BY <2>2, AfterParts
    <3> QED
      BY <1>1, <1>7, <1>8, <2>1, <2>2, <3>1
  <2> QED
    BY <2>1, <2>2
<1>11. Replayed(p, After(acked, r2), T) = Replayed(p, After(acked, ring), T)
  BY <1>4, <1>10, ReplayedSame
<1>12. Replayed(p, After(acked, r2), T + 1) = Replayed(p, After(acked, r2), T) + move
  BY <1>4, <1>9, ReplayedLast
<1> QED
  BY <1>11, <1>12 DEF Foreseen

\* An input that the server applies moves from the ring to the position.
LEMMA ServedForeseen ==
    ASSUME NEW cl, cl.ring \in Ring, NEW p \in Int, NEW x \in Nat \ {0}, NEW n \in Nat, x <= n,
           x \in DOMAIN cl.ring
    PROVE  Foreseen(cl, p, x - 1, n) = Foreseen(cl, p + cl.ring[x], x, n)
<1> PICK ring : ring = cl.ring
  OBVIOUS
<1>1. After(x - 1, ring) \in Ring /\ After(x, ring) \in Ring
  BY AfterRing
<1>2. \A y : y \in DOMAIN After(x - 1, ring) <=> y \in DOMAIN ring /\ y > x - 1
  BY AfterParts
<1>3. \A y : y \in DOMAIN After(x, ring) <=> y \in DOMAIN ring /\ y > x
  BY AfterParts
<1>4. \A y \in DOMAIN ring : y \in Nat
  BY RingMove
<1>5. x \in DOMAIN After(x - 1, ring) /\ x \in 1..n
  BY <1>2
<1>6. DOMAIN After(x, ring) = DOMAIN After(x - 1, ring) \ {x}
  BY <1>2, <1>3, <1>4
<1>7. \A t \in DOMAIN After(x, ring) : After(x, ring)[t] = After(x - 1, ring)[t]
  BY <1>6, AfterParts
<1>8. After(x - 1, ring)[x] = ring[x]
  BY <1>5, AfterParts
<1>9. Replayed(p, After(x - 1, ring), n) = Replayed(p + After(x - 1, ring)[x], After(x, ring), n)
  BY <1>1, <1>5, <1>6, <1>7, ReplayedFirst
<1> QED
  BY <1>8, <1>9 DEF Foreseen

\* The inputs of the tick: stamped with it, and with the snapshot last applied.
StampedOK(T, cls, in) ==
    /\ DOMAIN in = Client
    /\ \A c \in Client : in[c].tick = T + 1 /\ in[c].move \in Int /\ in[c].seen = cls[c].applied
Pressing(T, cls, in) == [c \in Client |-> Pressed(T, cls[c], in[c].move)]

\* The rings hold what is on its way, and the input that is just sent as well.
LEMMA RingHolds ==
    ASSUME NEW s, NEW T, NEW w, NEW last, NEW base, NEW old, WorldsOK(s, T, w, last, base, old),
           NEW cls, ClientsOK(s, T, old, cls), NEW up, InputsOK(s, T, cls, up),
           NEW in, StampedOK(T, cls, in), NEW c \in Client,
           NEW d \in Flight(s, T) \cup {T + s.latency}
    PROVE  LET m == With(up, T + s.latency, in)[d][c]
               ring == Pressing(T, cls, in)[c].ring
           IN  /\ d - s.latency + 1 \in DOMAIN ring
               /\ m.tick = d - s.latency + 1
               /\ m.move = ring[d - s.latency + 1]
               /\ m.seen = IF d - 2 * s.latency - 1 < 0 THEN -1 ELSE d - 2 * s.latency - 1
<1>1. s \in Sessions /\ T \in Nat /\ s.latency \in Nat /\ RingCapacity \in Nat \ {0}
      /\ 2 * s.latency <= RingCapacity
  BY SessionSizes, Sizes DEF WorldsOK
<1> PICK cl : cl = Pressing(T, cls, in)[c]
  OBVIOUS
<1>2. cl = Pressed(T, cls[c], in[c].move) /\ in[c].move \in Int /\ in[c].tick = T + 1
      /\ in[c].seen = cls[c].applied
  BY DEF Pressing, StampedOK
<1>3. /\ DOMAIN cl.ring = {x \in Nat : Clip(T - 2 * s.latency) < x /\ x <= T + 1
                                       /\ (T + 1) - RingCapacity < x}
      /\ cl.ring[T + 1] = in[c].move
      /\ \A x \in DOMAIN cl.ring : x <= T => cl.ring[x] = cls[c].ring[x]
  <2>1. Presses(s, T, cls[c], in[c].move, cl)
    BY <1>1, <1>2, PressedRing
  <2> QED
    BY ONLY <2>1 DEF Presses
<1>4. d \in Nat /\ d >= T /\ d >= s.latency /\ d <= T + s.latency
  BY <1>1 DEF Flight
<1>5. d - s.latency + 1 \in DOMAIN cl.ring
  <2>1. d - s.latency + 1 \in Nat /\ d - s.latency + 1 <= T + 1
    BY <1>1, <1>4
  <2>2. (T + 1) - RingCapacity < d - s.latency + 1
    <3>1. CASE s.latency = 0
      BY <1>1, <1>4, <3>1
    <3>2. CASE s.latency > 0
      BY <1>1, <1>4, <3>2
    <3> QED
      BY <1>1, <3>1, <3>2
  <2>3. Clip(T - 2 * s.latency) < d - s.latency + 1
    BY <1>1, <1>4 DEF Clip
  <2> QED
    BY <1>3, <2>1, <2>2, <2>3
<1> PICK m : m = With(up, T + s.latency, in)[d][c]
  OBVIOUS
<1>6. CASE d = T + s.latency
  <2>1. m = in[c]
    BY <1>6, WithParts
  <2>2. d - s.latency + 1 = T + 1 /\ d - 2 * s.latency - 1 = T - 1 - s.latency
    BY <1>1, <1>6
  <2>3. cls[c].applied = IF T - 1 - s.latency < 0 THEN -1 ELSE T - 1 - s.latency
    BY DEF ClientsOK
  <2>4. m.seen = IF d - 2 * s.latency - 1 < 0 THEN -1 ELSE d - 2 * s.latency - 1
    BY <1>2, <2>1, <2>2, <2>3
  <2> QED
    BY <1>2, <1>3, <1>5, <2>1, <2>2, <2>4
<1>7. CASE d # T + s.latency
  <2>1. d \in DOMAIN up
    BY <1>7 DEF InputsOK
  <2>2. m = up[d][c]
    BY <1>7, <2>1, WithParts
  <2>3. /\ m.tick = d - s.latency + 1
        /\ m.move = cls[c].ring[d - s.latency + 1]
        /\ m.seen = IF d - 2 * s.latency - 1 < 0 THEN -1 ELSE d - 2 * s.latency - 1
    BY <2>1, <2>2 DEF InputsOK
  <2>4. d - s.latency + 1 <= T
    BY <1>1, <1>4, <1>7
  <2> QED
    BY <1>3, <1>5, <2>3, <2>4
<1> QED
  BY <1>6, <1>7

LEMMA ArrivesNow ==
    ASSUME NEW s, NEW T, NEW w, NEW last, NEW base, NEW old, WorldsOK(s, T, w, last, base, old),
           NEW cls, ClientsOK(s, T, old, cls), NEW up, InputsOK(s, T, cls, up),
           NEW in, StampedOK(T, cls, in)
    PROVE  LET arrived == Get(With(up, T + s.latency, in), T)
           IN  /\ ArrivesOK(s, T, arrived)
               /\ T >= s.latency => \A c \in Client :
                    arrived[c].move = Pressing(T, cls, in)[c].ring[T - s.latency + 1]
<1>1. s \in Sessions /\ T \in Nat /\ s.latency \in Nat
  BY SessionSizes DEF WorldsOK
<1> PICK up2 : up2 = With(up, T + s.latency, in)
  OBVIOUS
<1>2. \A d : d \in DOMAIN up2 <=> d \in Flight(s, T) \cup {T + s.latency}
  BY WithParts DEF InputsOK
<1>3. T \in DOMAIN up2 <=> T >= s.latency
  BY <1>1, <1>2, FlightGoesOn
<1> PICK arrived : arrived = Get(up2, T)
  OBVIOUS
<1>4. CASE T < s.latency
  <2>1. arrived = Nothing
    BY <1>1, <1>3, <1>4 DEF Get
  <2> QED
    BY <1>1, <1>4, <2>1 DEF ArrivesOK
<1>5. CASE ~(T < s.latency)
  <2>1. T \in DOMAIN up2 /\ T \in Flight(s, T) \cup {T + s.latency} /\ T >= s.latency
    BY <1>1, <1>2, <1>3, <1>5
  <2>2. arrived = up2[T]
    BY <2>1 DEF Get
  <2>3. \A c \in Client : /\ arrived[c].tick = T - s.latency + 1
                          /\ arrived[c].move = Pressing(T, cls, in)[c].ring[T - s.latency + 1]
                          /\ T - s.latency + 1 \in DOMAIN Pressing(T, cls, in)[c].ring
    BY <2>1, <2>2, RingHolds
  <2>4. DOMAIN arrived = Client
    <3>1. CASE T = T + s.latency
      BY <2>2, <3>1, WithParts DEF StampedOK
    <3>2. CASE T # T + s.latency
      BY <2>1, <2>2, <3>2, WithParts DEF InputsOK
    <3> QED
      BY <3>1, <3>2
  <2>5. \A c \in Client : arrived[c].move \in Int
    <3> TAKE c \in Client
    <3>1. Pressing(T, cls, in)[c] = Pressed(T, cls[c], in[c].move) /\ in[c].move \in Int
      BY DEF Pressing, StampedOK
    <3>2. Pressing(T, cls, in)[c].ring \in Ring
      BY <1>1, <3>1, PressedRing DEF Presses
    <3> QED
      BY <2>3, <3>2, RingMove
  <2> QED
    BY <1>5, <2>3, <2>4, <2>5 DEF ArrivesOK
<1> QED
  BY <1>4, <1>5

\* The predictions after the server's part of the tick and the clients' first.
LEMMA ExactMidway ==
    ASSUME NEW s, NEW T, NEW w, NEW last, NEW base, NEW old, WorldsOK(s, T, w, last, base, old),
           NEW cls, ClientsOK(s, T, old, cls), NEW up, InputsOK(s, T, cls, up),
           NEW in, StampedOK(T, cls, in), Exact(s, T, w, old, cls), NEW c \in Client
    PROVE  LET mid == Pressing(T, cls, in)[c]
               served == Moved(w, Get(With(up, T + s.latency, in), T))
           IN  /\ mid.predicted = Foreseen(mid, served[c], Clip((T + 1) - s.latency), T + 1)
               /\ \A d \in Flight(s, T) :
                     mid.predicted =
                       Foreseen(mid, old[d - s.latency][c], Clip(d - 2 * s.latency + 1), T + 1)
<1>1. s \in Sessions /\ T \in Nat /\ s.latency \in Nat /\ RingCapacity \in Nat \ {0}
      /\ 2 * s.latency <= RingCapacity /\ HistorySlack \in Nat \ {0}
  BY SessionSizes, Sizes DEF WorldsOK
<1> PICK mid : mid = Pressing(T, cls, in)[c]
  OBVIOUS
<1> PICK arrived : arrived = Get(With(up, T + s.latency, in), T)
  OBVIOUS
<1> PICK move : move = in[c].move
  OBVIOUS
<1>2. mid = Pressed(T, cls[c], move) /\ move \in Int
  BY DEF Pressing, StampedOK
<1>3. /\ mid.ring \in Ring
      /\ DOMAIN mid.ring = {x \in Nat : Clip(T - 2 * s.latency) < x /\ x <= T + 1
                                        /\ (T + 1) - RingCapacity < x}
      /\ mid.predicted = cls[c].predicted + move
  <2>1. Presses(s, T, cls[c], move, mid)
    BY ONLY <1>1, <1>2, PressedRing, ClientsOK(s, T, old, cls), c \in Client
  <2> QED
    BY ONLY <2>1 DEF Presses
<1>4. ASSUME NEW p \in Int, NEW acked \in 0..T, acked >= Clip(T - 2 * s.latency),
             acked >= (T + 1) - RingCapacity, cls[c].predicted = Foreseen(cls[c], p, acked, T)
      PROVE  mid.predicted = Foreseen(mid, p, acked, T + 1)
  BY <1>1, <1>2, <1>3, <1>4, PressedForeseen
<1>5. ASSUME NEW d \in Flight(s, T)
      PROVE  mid.predicted = Foreseen(mid, old[d - s.latency][c], Clip(d - 2 * s.latency + 1), T + 1)
  <2>1. d \in Nat /\ T <= d /\ d < T + s.latency /\ s.latency <= d
    BY DEF Flight
  <2>2. d - s.latency \in DOMAIN old
    BY <1>1, <2>1 DEF WorldsOK, Span
  <2>3. old[d - s.latency][c] \in Int
    BY <2>2 DEF WorldsOK
  <2>4. /\ Clip(d - 2 * s.latency + 1) \in 0..T
        /\ Clip(d - 2 * s.latency + 1) >= Clip(T - 2 * s.latency)
        /\ Clip(d - 2 * s.latency + 1) >= (T + 1) - RingCapacity
    BY <1>1, <2>1 DEF Clip
  <2>5. cls[c].predicted = Foreseen(cls[c], old[d - s.latency][c], Clip(d - 2 * s.latency + 1), T)
    BY DEF Exact
  <2> QED
    BY <1>4, <2>3, <2>4, <2>5
<1>6. mid.predicted = Foreseen(mid, w[c], Clip(T - s.latency), T + 1)
  <2>1. w[c] \in Int
    BY DEF WorldsOK
  <2>2. /\ Clip(T - s.latency) \in 0..T
        /\ Clip(T - s.latency) >= Clip(T - 2 * s.latency)
    BY <1>1 DEF Clip
  <2>3. Clip(T - s.latency) >= (T + 1) - RingCapacity
    <3>1. CASE s.latency = 0
      BY <1>1, <3>1 DEF Clip
    <3>2. CASE s.latency > 0
      BY <1>1, <3>2 DEF Clip
    <3> QED
      BY <1>1, <3>1, <3>2
  <2>4. cls[c].predicted = Foreseen(cls[c], w[c], Clip(T - s.latency), T)
    BY DEF Exact
  <2> QED
    BY <1>4, <2>1, <2>2, <2>3, <2>4
<1>7. mid.predicted = Foreseen(mid, Moved(w, arrived)[c], Clip((T + 1) - s.latency), T + 1)
  <2>1. ArrivesOK(s, T, arrived)
    BY ArrivesNow
  <2>2. CASE T < s.latency
    <3>1. Moved(w, arrived)[c] = w[c]
      BY <2>1, <2>2 DEF ArrivesOK, Moved, Nothing
    <3>2. Clip((T + 1) - s.latency) = Clip(T - s.latency)
      BY <1>1, <2>2 DEF Clip
    <3> QED
      BY <1>6, <3>1, <3>2
  <2>3. CASE ~(T < s.latency)
    <3> PICK x : x = T - s.latency + 1
      OBVIOUS
    <3>1. x \in Nat \ {0} /\ x <= T + 1 /\ x - 1 = Clip(T - s.latency)
          /\ x = Clip((T + 1) - s.latency) /\ T >= s.latency
      BY <1>1, <2>3 DEF Clip
    <3>2. arrived[c].move = mid.ring[x]
      BY <3>1, ArrivesNow
    <3>3. Moved(w, arrived)[c] = w[c] + mid.ring[x]
      BY <2>1, <2>3, <3>2 DEF ArrivesOK, Moved
    <3>4. x \in DOMAIN mid.ring
      <4>1. T \in Flight(s, T) \cup {T + s.latency}
        BY <1>1, <3>1, FlightGoesOn
      <4> QED
        BY <4>1, RingHolds
    <3>5. Foreseen(mid, w[c], x - 1, T + 1) = Foreseen(mid, w[c] + mid.ring[x], x, T + 1)
      <4>1. w[c] \in Int /\ T + 1 \in Nat
        BY <1>1 DEF WorldsOK
      <4> QED
        BY <1>3, <3>1, <3>4, <4>1, ServedForeseen
    <3> QED
      BY <1>6, <3>1, <3>3, <3>5
  <2> QED
    BY <2>2, <2>3
<1> QED
  BY <1>5, <1>7

\* The snapshot of the tick, and a client that applies one.
Snapped(s, T, base, w, last) ==
    [c \in Client |->
       [tick |-> T, acked |-> last[c], full |-> ~(s.radius >= Everywhere),
        delta |-> EncodeDelta(IF s.radius >= Everywhere THEN base ELSE Nothing, View(s, w, c))]]
Snap(c, T, cl, m) ==
    LET full == Decoded(cl.baseline, m)
        ring == Unacked(cl.ring, m.acked)
    IN  [ring |-> ring, baseline |-> full, applied |-> m.tick,
         predicted |-> Replayed(IF c \in DOMAIN full THEN full[c] ELSE cl.predicted,
                                ring, T + 1)]

\* Each snapshot on its way, the one of the tick included, decodes from the one
\* before it.
LEMMA Linked ==
    ASSUME NEW s, NEW T, NEW w, NEW last, NEW base, NEW old, WorldsOK(s, T, w, last, base, old),
           NEW w2, NEW last2, NEW base2, NEW old2, old2 = Kept(s, T, old, w2),
           WorldsOK(s, T + 1, w2, last2, base2, old2),
           NEW down, Chained(s, T, old, down), NEW c \in Client,
           NEW d \in Flight(s, T) \cup {T + s.latency}
    PROVE  LET m == With(down, T + s.latency, Snapped(s, T, base, w2, last2))[d][c]
           IN  /\ m.tick = d - s.latency
               /\ m.acked = Clip(d - 2 * s.latency + 1)
               /\ Decoded(ViewAt(s, old, d - s.latency - 1, c), m) = View(s, old2[d - s.latency], c)
<1>1. s \in Sessions /\ T \in Nat /\ s.latency \in Nat /\ HistorySlack \in Nat \ {0}
  BY SessionSizes, Sizes DEF WorldsOK
<1> PICK snap : snap = Snapped(s, T, base, w2, last2)
  OBVIOUS
<1> PICK m : m = With(down, T + s.latency, snap)[d][c]
  OBVIOUS
<1>2. CASE d = T + s.latency
  <2>1. m = snap[c]
    BY <1>2, WithParts
  <2>2. d - s.latency = T /\ d - s.latency - 1 = T - 1 /\ d - 2 * s.latency + 1 = (T + 1) - s.latency
    BY <1>1, <1>2
  <2>3. m.tick = T /\ m.acked = last2[c] /\ last2[c] = Clip((T + 1) - s.latency)
    BY <2>1 DEF Snapped, WorldsOK
  <2>4. old2[T] = w2 /\ w2 \in [Client -> Int]
    <3>1. T + 1 > 0 /\ (T + 1) - 1 = T
      BY <1>1
    <3> QED
      BY <3>1 DEF WorldsOK
  <2>5. Decoded(ViewAt(s, old, T - 1, c), m) = View(s, w2, c)
    <3> PICK view : view = View(s, w2, c)
      OBVIOUS
    <3>1. view = [e \in DOMAIN view |-> view[e]] /\ DOMAIN view \subseteq Client
      BY <1>1, <2>4, ViewOwn
    <3>2. Nothing = [e \in DOMAIN Nothing |-> Nothing[e]] /\ DOMAIN Nothing = {}
      BY DEF Nothing
    <3>3. CASE s.radius >= Everywhere
      <4>0. snap[c].full = ~(s.radius >= Everywhere)
        BY Zenon DEF Snapped
      <4>1. ~m.full /\ m.delta = EncodeDelta(base, view)
        <5>1. ~m.full
          BY <2>1, <3>3, <4>0
        <5>2. m.delta = EncodeDelta(base, view)
          BY <2>1, <3>3 DEF Snapped
        <5> QED
          BY <5>1, <5>2
      <4>2. ViewAt(s, old, T - 1, c) = base
        <5>1. CASE T > 0
          <6>1. ~(T - 1 < 0)
            BY <1>1, <5>1
          <6>2. old[T - 1] = w /\ base = w
            BY <3>3, <5>1 DEF WorldsOK
          <6> QED
            BY <3>3, <6>1, <6>2 DEF ViewAt, View
        <5>2. CASE ~(T > 0)
          <6>1. T - 1 < 0
            BY <1>1, <5>2
          <6> QED
            BY <5>2, <6>1 DEF ViewAt, WorldsOK
        <5> QED
          BY <5>1, <5>2
      <4>3. base = [e \in DOMAIN base |-> base[e]] /\ DOMAIN base \subseteq DOMAIN view
        <5>1. view = w2 /\ DOMAIN w2 = Client
          BY <2>4, <3>3 DEF View
        <5>2. base = Nothing \/ base = w
          BY DEF WorldsOK
        <5>3. w = [e \in DOMAIN w |-> w[e]] /\ DOMAIN w = Client
          BY DEF WorldsOK
        <5> QED
          BY <3>2, <5>1, <5>2, <5>3
      <4>4. ApplyDelta(base, EncodeDelta(base, view)) = view
        BY <3>1, <4>3, RoundTrip
      <4> QED
        BY <4>1, <4>2, <4>4 DEF Decoded
    <3>4. CASE ~(s.radius >= Everywhere)
      <4>0. snap[c].full = ~(s.radius >= Everywhere)
        BY Zenon DEF Snapped
      <4>1. m.full /\ m.delta = EncodeDelta(Nothing, view)
        <5>1. m.full
          BY <2>1, <3>4, <4>0
        <5>2. m.delta = EncodeDelta(Nothing, view)
          BY <2>1, <3>4 DEF Snapped
        <5> QED
          BY <5>1, <5>2
      <4>2. ApplyDelta(Nothing, EncodeDelta(Nothing, view)) = view
        BY <3>1, <3>2, RoundTrip
      <4> QED
        BY <4>1, <4>2 DEF Decoded
    <3> QED
      BY <3>3, <3>4
  <2> QED
    BY <2>2, <2>3, <2>4, <2>5
<1>3. CASE d # T + s.latency
  <2>1. d \in Nat /\ T <= d /\ d < T + s.latency /\ s.latency <= d /\ d \in DOMAIN down
    BY <1>3 DEF Chained, Flight
  <2>2. m = down[d][c]
    BY <1>3, <2>1, WithParts
  <2>3. old2[d - s.latency] = old[d - s.latency]
    <3>1. d - s.latency \in DOMAIN old /\ d - s.latency # T /\ d - s.latency > T - Span(s)
      BY <1>1, <2>1 DEF WorldsOK, Span
    <3> QED
      BY <3>1, AfterParts, WithParts DEF Kept
  <2> QED
    BY <2>1, <2>2, <2>3 DEF Chained
<1> QED
  BY <1>2, <1>3

\* What is kept of the past shows the same.
LEMMA ViewKept ==
    ASSUME NEW s, NEW T, NEW w, NEW last, NEW base, NEW old, WorldsOK(s, T, w, last, base, old),
           NEW w2, NEW c, NEW u \in Int, u < T, u >= T - s.latency
    PROVE  /\ ViewAt(s, old, u, c) = ViewAt(s, Kept(s, T, old, w2), u, c)
           /\ u >= 0 => Kept(s, T, old, w2)[u] = old[u]
<1>1. s \in Sessions /\ T \in Nat /\ s.latency \in Nat /\ HistorySlack \in Nat \ {0}
  BY SessionSizes, Sizes DEF WorldsOK
<1>2. ASSUME u >= 0
      PROVE  Kept(s, T, old, w2)[u] = old[u]
  <2>1. u \in DOMAIN old /\ u # T /\ u > T - Span(s)
    BY <1>1, <1>2 DEF WorldsOK, Span
  <2> QED
    BY <2>1, AfterParts, WithParts DEF Kept
<1> QED
  BY <1>2 DEF ViewAt

\* A client that has reconciled predicts what it predicted before: the snapshot
\* and the inputs after it lead there.
LEMMA SnapKeeps ==
    ASSUME NEW s, NEW T, NEW w, NEW last, NEW base, NEW old, WorldsOK(s, T, w, last, base, old),
           NEW w2, NEW last2, NEW base2, NEW old2, old2 = Kept(s, T, old, w2),
           WorldsOK(s, T + 1, w2, last2, base2, old2),
           NEW down, Chained(s, T, old, down), NEW c \in Client,
           NEW cl, cl.ring \in Ring, cl.predicted \in Int,
           cl.baseline = ViewAt(s, old, T - 1 - s.latency, c),
           T >= s.latency,
           cl.predicted = Foreseen(cl, old2[T - s.latency][c], Clip(T - 2 * s.latency + 1), T + 1)
    PROVE  LET m == With(down, T + s.latency, Snapped(s, T, base, w2, last2))[T][c]
           IN  Snap(c, T, cl, m) =
                 [ring |-> After(Clip(T - 2 * s.latency + 1), cl.ring),
                  predicted |-> cl.predicted,
                  baseline |-> View(s, old2[T - s.latency], c),
                  applied |-> T - s.latency]
<1>1. s \in Sessions /\ T \in Nat /\ s.latency \in Nat /\ HistorySlack \in Nat \ {0}
  BY SessionSizes, Sizes DEF WorldsOK
<1> PICK m : m = With(down, T + s.latency, Snapped(s, T, base, w2, last2))[T][c]
  OBVIOUS
<1>2. T \in Flight(s, T) \cup {T + s.latency}
  BY <1>1, FlightGoesOn
<1>3. /\ m.tick = T - s.latency
      /\ m.acked = Clip(T - 2 * s.latency + 1)
      /\ Decoded(ViewAt(s, old, T - s.latency - 1, c), m) = View(s, old2[T - s.latency], c)
  BY <1>2, Linked
<1>4. T - s.latency - 1 = T - 1 - s.latency
  BY <1>1
<1>5. Decoded(cl.baseline, m) = View(s, old2[T - s.latency], c)
  BY <1>3, <1>4
<1>6. old2[T - s.latency] \in [Client -> Int]
  <2>1. T - s.latency \in DOMAIN old2
    BY <1>1 DEF WorldsOK, Span
  <2> QED
    BY <2>1 DEF WorldsOK
<1>7. c \in DOMAIN View(s, old2[T - s.latency], c)
      /\ View(s, old2[T - s.latency], c)[c] = old2[T - s.latency][c]
  BY <1>1, <1>6, ViewOwn
<1> QED
  BY <1>3, <1>5, <1>7 DEF Snap, Unacked, Foreseen

\* A client at the end of the tick: reconciled if a snapshot was due.
Reached(s, T, c, mid, m) == IF T >= s.latency THEN Snap(c, T, mid, m) ELSE mid

\* It predicts what it predicted before, and its ring goes on with the same moves.
Reconciles(s, T, old, c, mid, cl) ==
    /\ cl = [ring |-> cl.ring, predicted |-> mid.predicted,
             baseline |-> ViewAt(s, old, T - s.latency, c),
             applied |-> IF T - s.latency < 0 THEN -1 ELSE T - s.latency]
    /\ cl.ring \in Ring /\ mid.predicted \in Int
    /\ DOMAIN cl.ring = {x \in Nat : Clip((T + 1) - 2 * s.latency) < x /\ x <= T + 1}
    /\ \A x \in DOMAIN cl.ring : cl.ring[x] = mid.ring[x]
    /\ \A p \in Int, acked \in Nat : acked >= Clip((T + 1) - 2 * s.latency) =>
          Foreseen(cl, p, acked, T + 1) = Foreseen(mid, p, acked, T + 1)

LEMMA ClientStep ==
    ASSUME NEW s, NEW T, NEW w, NEW last, NEW base, NEW old, WorldsOK(s, T, w, last, base, old),
           NEW cls, ClientsOK(s, T, old, cls), NEW up, InputsOK(s, T, cls, up),
           NEW in, StampedOK(T, cls, in), Exact(s, T, w, old, cls),
           NEW down, Chained(s, T, old, down), NEW c \in Client,
           NEW w2, w2 = Moved(w, Get(With(up, T + s.latency, in), T)),
           NEW last2, NEW base2, NEW old2, old2 = Kept(s, T, old, w2),
           WorldsOK(s, T + 1, w2, last2, base2, old2),
           NEW mid, mid = Pressing(T, cls, in)[c],
           NEW cl, cl = Reached(s, T, c, mid,
                          With(down, T + s.latency, Snapped(s, T, base, w2, last2))[T][c])
    PROVE  Reconciles(s, T, old2, c, mid, cl)
<1>1. s \in Sessions /\ T \in Nat /\ s.latency \in Nat /\ RingCapacity \in Nat \ {0}
      /\ 2 * s.latency <= RingCapacity /\ HistorySlack \in Nat \ {0}
  BY SessionSizes, Sizes DEF WorldsOK
<1> PICK move : move = in[c].move
  OBVIOUS
<1>2. mid = Pressed(T, cls[c], move) /\ move \in Int
  BY DEF Pressing, StampedOK
<1>3. /\ mid.ring \in Ring
      /\ DOMAIN mid.ring = {x \in Nat : Clip(T - 2 * s.latency) < x /\ x <= T + 1
                                        /\ (T + 1) - RingCapacity < x}
      /\ mid.predicted = cls[c].predicted + move
      /\ mid.baseline = cls[c].baseline /\ mid.applied = cls[c].applied
  <2>1. Presses(s, T, cls[c], move, mid)
    BY ONLY <1>1, <1>2, PressedRing, ClientsOK(s, T, old, cls), c \in Client
  <2> QED
    BY ONLY <2>1 DEF Presses
<1>4. mid = [ring |-> mid.ring, predicted |-> mid.predicted, baseline |-> mid.baseline,
             applied |-> mid.applied]
  <2> PICK b, p, a, r : cls[c] = [ring |-> r, predicted |-> p, baseline |-> b, applied |-> a]
    BY DEF ClientsOK
  <2> QED
    BY <1>2 DEF Pressed
<1>5. mid.baseline = ViewAt(s, old, T - 1 - s.latency, c)
      /\ mid.applied = (IF T - 1 - s.latency < 0 THEN -1 ELSE T - 1 - s.latency)
      /\ mid.predicted \in Int
  BY <1>2, <1>3 DEF ClientsOK
<1>6. CASE T < s.latency
  <2>1. cl = mid
    BY <1>1, <1>6 DEF Reached
  <2>2. T - 1 - s.latency < 0 /\ T - s.latency < 0
    BY <1>1, <1>6
  <2>3. DOMAIN mid.ring = {x \in Nat : Clip((T + 1) - 2 * s.latency) < x /\ x <= T + 1}
    <3>1. Clip(T - 2 * s.latency) = 0 /\ Clip((T + 1) - 2 * s.latency) = 0
      BY <1>1, <1>6 DEF Clip
    <3>2. (T + 1) - RingCapacity <= 0 /\ (T + 1) - RingCapacity \in Int
      BY <1>1, <1>6
    <3>3. \A x \in Nat : 0 < x => (T + 1) - RingCapacity < x
      BY <3>2
    <3> QED
      BY <1>3, <3>1, <3>3
  <2>4. mid.baseline = ViewAt(s, old2, T - s.latency, c) /\ mid.applied = -1
    BY <1>5, <2>2 DEF ViewAt
  <2> QED
    BY <1>3, <1>4, <1>5, <2>1, <2>2, <2>3, <2>4 DEF Reconciles
<1>7. CASE ~(T < s.latency)
  <2> PICK k : k = Clip((T + 1) - 2 * s.latency)
    OBVIOUS
  <2>1. T >= s.latency /\ ~(T - s.latency < 0) /\ T - s.latency \in Int
        /\ T - 2 * s.latency + 1 = (T + 1) - 2 * s.latency /\ k \in Nat
    BY <1>1, <1>7 DEF Clip
  <2>2. mid.predicted = Foreseen(mid, old2[T - s.latency][c], k, T + 1)
    <3>1. CASE s.latency = 0
      <4>1. T - s.latency = T /\ (T + 1) - 2 * s.latency = (T + 1) - s.latency
        BY <1>1, <3>1
      <4>2. old2[T] = w2
        <5>1. T + 1 > 0 /\ (T + 1) - 1 = T
          BY <1>1
        <5> QED
          BY <5>1 DEF WorldsOK
      <4> QED
        BY <4>1, <4>2, ExactMidway
    <3>2. CASE s.latency # 0
      <4>1. T \in Flight(s, T)
        BY <1>1, <2>1, <3>2 DEF Flight
      <4>2. mid.predicted = Foreseen(mid, old[T - s.latency][c], Clip(T - 2 * s.latency + 1), T + 1)
        BY <4>1, ExactMidway
      <4>3. old2[T - s.latency] = old[T - s.latency]
        <5> PICK u : u = T - s.latency
          OBVIOUS
        <5>1. u \in Int /\ u < T /\ u >= T - s.latency /\ u >= 0
          BY <1>1, <2>1, <3>2
        <5>2. Kept(s, T, old, w2)[u] = old[u]
          BY <5>1, ViewKept
        <5> QED
          BY <5>2
      <4> QED
        BY <2>1, <4>2, <4>3
    <3> QED
      BY <3>1, <3>2
  <2>3. cl = [ring |-> After(k, mid.ring), predicted |-> mid.predicted,
              baseline |-> View(s, old2[T - s.latency], c), applied |-> T - s.latency]
    BY <1>3, <1>5, <2>1, <2>2, SnapKeeps DEF Reached
  <2>4. View(s, old2[T - s.latency], c) = ViewAt(s, old2, T - s.latency, c)
    BY <2>1 DEF ViewAt
  <2>5. cl.ring = After(k, mid.ring)
    BY <2>3
  <2>6. \A x : x \in DOMAIN cl.ring <=> x \in DOMAIN mid.ring /\ x > k
    BY <2>5, AfterParts
  <2>7. DOMAIN cl.ring = {x \in Nat : k < x /\ x <= T + 1}
    <3> PICK j : j = Clip(T - 2 * s.latency)
      OBVIOUS
    <3>1. j \in Nat /\ j <= k /\ (T + 1) - RingCapacity \in Int /\ (T + 1) - RingCapacity <= k
      BY <1>1 DEF Clip
    <3>2. \A x : x \in DOMAIN mid.ring <=> x \in Nat /\ j < x /\ x <= T + 1 /\ (T + 1) - RingCapacity < x
      BY <1>3
    <3>3. \A x : x \in DOMAIN cl.ring <=> x \in Nat /\ k < x /\ x <= T + 1
      BY <2>1, <2>6, <3>1, <3>2
    <3> QED
      BY <3>3
  <2>8. cl.ring \in Ring
    BY <1>3, <2>1, <2>5, AfterRing
  <2>9. ASSUME NEW p \in Int, NEW acked \in Nat, acked >= k
        PROVE  Foreseen(cl, p, acked, T + 1) = Foreseen(mid, p, acked, T + 1)
    <3> PICK r : r = cl.ring
      OBVIOUS
    <3>1. \A x : x \in DOMAIN After(acked, r) <=> x \in DOMAIN r /\ x > acked
      BY AfterParts
    <3>2. \A x : x \in DOMAIN After(acked, mid.ring) <=> x \in DOMAIN mid.ring /\ x > acked
      BY AfterParts
    <3>3. \A x \in DOMAIN After(acked, mid.ring) : x \in DOMAIN r
      BY <1>3, <2>1, <2>6, <2>9, <3>2, RingMove
    <3>4. \A x : x \in DOMAIN After(acked, r) <=> x \in DOMAIN After(acked, mid.ring)
      BY <2>6, <3>1, <3>2, <3>3
    <3>5. \A x \in DOMAIN After(acked, r) : After(acked, r)[x] = After(acked, mid.ring)[x]
      <4> SUFFICES ASSUME NEW x \in DOMAIN After(acked, r)
                   PROVE  After(acked, r)[x] = After(acked, mid.ring)[x]
        OBVIOUS
      <4>1. After(acked, r)[x] = r[x]
        BY AfterParts
      <4>2. After(acked, mid.ring)[x] = mid.ring[x]
        BY <3>4, AfterParts
      <4>3. x \in DOMAIN After(k, mid.ring) /\ r = After(k, mid.ring)
        BY <2>5, <3>1
      <4>4. r[x] = mid.ring[x]
        BY <4>3, AfterParts
      <4> QED
        BY <4>1, <4>2, <4>4
    <3>6. After(acked, r) \in Ring /\ After(acked, mid.ring) \in Ring /\ T + 1 \in Nat
      <4>1. r \in Ring /\ mid.ring \in Ring /\ acked \in Int /\ T + 1 \in Nat
        BY <1>1, <1>3, <2>8
      <4> QED
        BY ONLY <4>1, AfterRing
    <3>7. Replayed(p, After(acked, r), T + 1) = Replayed(p, After(acked, mid.ring), T + 1)
      <4> DEFINE a == After(acked, r)
                 b == After(acked, mid.ring)
      <4>1. /\ a \in Ring /\ b \in Ring /\ T + 1 \in Nat /\ p \in Int
            /\ \A t \in 1..T + 1 : (t \in DOMAIN a <=> t \in DOMAIN b) /\ (t \in DOMAIN a => a[t] = b[t])
        BY <2>9, <3>4, <3>5, <3>6
      <4> HIDE DEF a, b
      <4>2. Replayed(p, a, T + 1) = Replayed(p, b, T + 1)
        BY ONLY <4>1, ReplayedSame
      <4> QED
        BY <4>2 DEF a, b
    <3> QED
      BY <3>7 DEF Foreseen
  <2>10. \A x \in DOMAIN cl.ring : cl.ring[x] = mid.ring[x]
    BY <2>5, AfterParts
  <2>11. cl = [ring |-> cl.ring, predicted |-> mid.predicted,
               baseline |-> ViewAt(s, old2, T - s.latency, c),
               applied |-> IF T - s.latency < 0 THEN -1 ELSE T - s.latency]
    BY <2>1, <2>3, <2>4
  <2> QED
    BY <1>5, <2>7, <2>8, <2>9, <2>10, <2>11 DEF Reconciles
<1> QED
  BY <1>6, <1>7

LoopOK(s, T, w, last, base, old, cls, up, down) ==
    /\ WorldsOK(s, T, w, last, base, old)
    /\ ClientsOK(s, T, old, cls)
    /\ InputsOK(s, T, cls, up)
    /\ Chained(s, T, old, down)
    /\ Exact(s, T, w, old, cls)

LEMMA TickKeeps ==
    ASSUME NEW s, NEW T, NEW w, NEW last, NEW base, NEW old, NEW cls, NEW up, NEW down,
           LoopOK(s, T, w, last, base, old, cls, up, down),
           NEW in, StampedOK(T, cls, in),
           NEW up2, up2 = With(up, T + s.latency, in),
           NEW w2, w2 = Moved(w, Get(up2, T)),
           NEW last2, last2 = Applied(last, Get(up2, T)),
           NEW base2, base2 = IF s.radius >= Everywhere THEN w2 ELSE base,
           NEW old2, old2 = Kept(s, T, old, w2),
           NEW down2, down2 = With(down, T + s.latency, Snapped(s, T, base, w2, last2)),
           NEW cls2,
           cls2 = [c \in Client |-> Reached(s, T, c, Pressing(T, cls, in)[c], down2[T][c])]
    PROVE  LoopOK(s, T + 1, w2, last2, base2, old2, cls2, After(T, up2), After(T, down2))
<1>0. /\ WorldsOK(s, T, w, last, base, old) /\ ClientsOK(s, T, old, cls)
      /\ InputsOK(s, T, cls, up) /\ Chained(s, T, old, down) /\ Exact(s, T, w, old, cls)
  BY DEF LoopOK
<1>1. s \in Sessions /\ T \in Nat /\ s.latency \in Nat /\ HistorySlack \in Nat \ {0}
  BY <1>0, SessionSizes, Sizes DEF WorldsOK
<1>2. WorldsOK(s, T + 1, w2, last2, base2, old2)
  <2>1. ArrivesOK(s, T, Get(up2, T))
    BY <1>0, ArrivesNow
  <2> QED
    BY <1>0, <2>1, WorldsStep
<1>3. ASSUME NEW c \in Client
      PROVE  /\ cls2[c] = [ring |-> cls2[c].ring, predicted |-> cls2[c].predicted,
                           baseline |-> ViewAt(s, old2, T - s.latency, c),
                           applied |-> IF T - s.latency < 0 THEN -1 ELSE T - s.latency]
             /\ cls2[c].ring \in Ring /\ cls2[c].predicted \in Int
             /\ cls2[c].predicted = Pressing(T, cls, in)[c].predicted
             /\ DOMAIN cls2[c].ring = {x \in Nat : Clip((T + 1) - 2 * s.latency) < x /\ x <= T + 1}
             /\ \A x \in DOMAIN cls2[c].ring : cls2[c].ring[x] = Pressing(T, cls, in)[c].ring[x]
             /\ \A p \in Int, acked \in Nat : acked >= Clip((T + 1) - 2 * s.latency) =>
                   Foreseen(cls2[c], p, acked, T + 1)
                     = Foreseen(Pressing(T, cls, in)[c], p, acked, T + 1)
  <2> PICK mid : mid = Pressing(T, cls, in)[c]
    OBVIOUS
  <2> PICK cl : cl = Reached(s, T, c, mid, down2[T][c])
    OBVIOUS
  <2>1. cls2[c] = cl
    OBVIOUS
  <2>2. Reconciles(s, T, old2, c, mid, cl)
    <3>1. w2 = Moved(w, Get(With(up, T + s.latency, in), T))
      OBVIOUS
    <3>2. cl = Reached(s, T, c, mid,
                 With(down, T + s.latency, Snapped(s, T, base, w2, last2))[T][c])
      OBVIOUS
    <3>3. old2 = Kept(s, T, old, w2) /\ mid = Pressing(T, cls, in)[c] /\ c \in Client
          /\ StampedOK(T, cls, in)
      OBVIOUS
    <3> QED
      BY ONLY <1>0, <1>2, <3>1, <3>2, <3>3, ClientStep
  <2>3. cl.predicted = mid.predicted
    BY ONLY <2>2 DEF Reconciles
  <2> QED
    BY <2>1, <2>2, <2>3 DEF Reconciles
<1>4. (T + 1) - 1 - s.latency = T - s.latency
  BY <1>1
<1>5. ClientsOK(s, T + 1, old2, cls2)
  <2>1. DOMAIN cls2 = Client
    OBVIOUS
  <2> QED
    BY ONLY <1>3, <1>4, <2>1 DEF ClientsOK
<1>6. \A d : d \in Flight(s, T + 1) <=> d \in Flight(s, T) \cup {T + s.latency} /\ d > T
  BY <1>1, FlightGoesOn
<1>7. InputsOK(s, T + 1, cls2, After(T, up2))
  <2>1. \A d : d \in DOMAIN up2 <=> d \in Flight(s, T) \cup {T + s.latency}
    BY <1>0, WithParts DEF InputsOK
  <2>2. \A d : d \in DOMAIN After(T, up2) <=> d \in Flight(s, T + 1)
    BY <1>6, <2>1, AfterParts
  <2>3. DOMAIN After(T, up2) = Flight(s, T + 1)
    BY <2>2 DEF After, Flight
  <2>4. ASSUME NEW d \in DOMAIN After(T, up2)
        PROVE  /\ DOMAIN After(T, up2)[d] = Client
               /\ \A c \in Client :
                    /\ After(T, up2)[d][c].tick = d - s.latency + 1
                    /\ After(T, up2)[d][c].move = cls2[c].ring[d - s.latency + 1]
                    /\ After(T, up2)[d][c].seen =
                         IF d - 2 * s.latency - 1 < 0 THEN -1 ELSE d - 2 * s.latency - 1
    <3>1. d \in Flight(s, T) \cup {T + s.latency} /\ d \in Flight(s, T + 1)
      BY <1>6, <2>2
    <3>2. After(T, up2)[d] = up2[d]
      BY AfterParts
    <3>3. DOMAIN up2[d] = Client
      <4>1. CASE d = T + s.latency
        BY <4>1, WithParts DEF StampedOK
      <4>2. CASE d # T + s.latency
        BY <1>0, <3>1, <4>2, WithParts DEF InputsOK
      <4> QED
        BY <4>1, <4>2
    <3>4. ASSUME NEW c \in Client
          PROVE  /\ up2[d][c].tick = d - s.latency + 1
                 /\ up2[d][c].move = cls2[c].ring[d - s.latency + 1]
                 /\ up2[d][c].seen =
                      IF d - 2 * s.latency - 1 < 0 THEN -1 ELSE d - 2 * s.latency - 1
      <4>1. /\ up2[d][c].tick = d - s.latency + 1
            /\ up2[d][c].move = Pressing(T, cls, in)[c].ring[d - s.latency + 1]
            /\ up2[d][c].seen = IF d - 2 * s.latency - 1 < 0 THEN -1 ELSE d - 2 * s.latency - 1
        BY <1>0, <3>1, RingHolds
      <4>2. d - s.latency + 1 \in DOMAIN cls2[c].ring
        <5>1. d \in Nat /\ T + 1 <= d /\ d < T + 1 + s.latency /\ s.latency <= d
          BY <3>1 DEF Flight
        <5>2. d - s.latency + 1 \in Nat /\ d - s.latency + 1 <= T + 1
              /\ Clip((T + 1) - 2 * s.latency) < d - s.latency + 1
          BY <1>1, <5>1 DEF Clip
        <5> QED
          BY <1>3, <5>2
      <4> QED
        BY <1>3, <4>1, <4>2
    <3> QED
      BY <3>2, <3>3, <3>4
  <2> QED
    BY <2>3, <2>4 DEF InputsOK
<1>8. Chained(s, T + 1, old2, After(T, down2))
  <2>1. \A d : d \in DOMAIN down2 <=> d \in Flight(s, T) \cup {T + s.latency}
    BY <1>0, WithParts DEF Chained
  <2>2. \A d : d \in DOMAIN After(T, down2) <=> d \in Flight(s, T + 1)
    BY <1>6, <2>1, AfterParts
  <2>3. DOMAIN After(T, down2) = Flight(s, T + 1)
    BY <2>2 DEF After, Flight
  <2>4. ASSUME NEW d \in DOMAIN After(T, down2)
        PROVE  /\ DOMAIN After(T, down2)[d] = Client
               /\ \A c \in Client :
                    /\ After(T, down2)[d][c].tick = d - s.latency
                    /\ After(T, down2)[d][c].acked = Clip(d - 2 * s.latency + 1)
                    /\ Decoded(ViewAt(s, old2, d - s.latency - 1, c), After(T, down2)[d][c])
                         = View(s, old2[d - s.latency], c)
    <3>1. d \in Flight(s, T) \cup {T + s.latency} /\ d \in Flight(s, T + 1)
      BY <1>6, <2>2
    <3>2. After(T, down2)[d] = down2[d]
      BY AfterParts
    <3>3. DOMAIN down2[d] = Client
      <4>1. CASE d = T + s.latency
        BY <4>1, WithParts DEF Snapped
      <4>2. CASE d # T + s.latency
        BY <1>0, <3>1, <4>2, WithParts DEF Chained
      <4> QED
        BY <4>1, <4>2
    <3>4. ASSUME NEW c \in Client
          PROVE  /\ down2[d][c].tick = d - s.latency
                 /\ down2[d][c].acked = Clip(d - 2 * s.latency + 1)
                 /\ Decoded(ViewAt(s, old2, d - s.latency - 1, c), down2[d][c])
                      = View(s, old2[d - s.latency], c)
      <4>1. /\ down2[d][c].tick = d - s.latency
            /\ down2[d][c].acked = Clip(d - 2 * s.latency + 1)
            /\ Decoded(ViewAt(s, old, d - s.latency - 1, c), down2[d][c])
                 = View(s, old2[d - s.latency], c)
        BY <1>0, <1>2, <3>1, Linked
      <4> PICK u : u = d - s.latency - 1
        OBVIOUS
      <4>2. u \in Int /\ u < T /\ u >= T - s.latency
        <5>1. d \in Nat /\ T + 1 <= d /\ d < T + 1 + s.latency /\ s.latency <= d
          BY <3>1 DEF Flight
        <5> QED
          BY <1>1, <5>1
      <4>3. ViewAt(s, old, u, c) = ViewAt(s, old2, u, c)
        BY <1>0, <4>2, ViewKept
      <4> QED
        BY <4>1, <4>3
    <3> QED
      BY <3>2, <3>3, <3>4
  <2> QED
    BY <2>3, <2>4 DEF Chained
<1>9. Exact(s, T + 1, w2, old2, cls2)
  <2> SUFFICES ASSUME NEW c \in Client
               PROVE  /\ cls2[c].predicted = Foreseen(cls2[c], w2[c], Clip((T + 1) - s.latency), T + 1)
                      /\ \A d \in Flight(s, T + 1) :
                            cls2[c].predicted =
                              Foreseen(cls2[c], old2[d - s.latency][c],
                                       Clip(d - 2 * s.latency + 1), T + 1)
    BY DEF Exact
  <2> PICK mid : mid = Pressing(T, cls, in)[c]
    OBVIOUS
  <2>1. /\ mid.predicted = Foreseen(mid, w2[c], Clip((T + 1) - s.latency), T + 1)
        /\ \A d \in Flight(s, T) :
              mid.predicted =
                Foreseen(mid, old[d - s.latency][c], Clip(d - 2 * s.latency + 1), T + 1)
    BY <1>0, ExactMidway
  <2>2. /\ cls2[c].predicted = mid.predicted
        /\ \A p \in Int, acked \in Nat : acked >= Clip((T + 1) - 2 * s.latency) =>
              Foreseen(cls2[c], p, acked, T + 1) = Foreseen(mid, p, acked, T + 1)
    BY <1>3
  <2>3. cls2[c].predicted = Foreseen(cls2[c], w2[c], Clip((T + 1) - s.latency), T + 1)
    <3>1. w2[c] \in Int /\ Clip((T + 1) - s.latency) \in Nat
          /\ Clip((T + 1) - s.latency) >= Clip((T + 1) - 2 * s.latency)
      BY <1>1, <1>2 DEF WorldsOK, Clip
    <3> QED
      BY <2>1, <2>2, <3>1
  <2>4. ASSUME NEW d \in Flight(s, T + 1)
        PROVE  cls2[c].predicted =
                 Foreseen(cls2[c], old2[d - s.latency][c], Clip(d - 2 * s.latency + 1), T + 1)
    <3>1. d \in Nat /\ T + 1 <= d /\ d < T + 1 + s.latency /\ s.latency <= d
      BY DEF Flight
    <3>2. d - s.latency \in DOMAIN old2
      BY <1>1, <1>2, <3>1 DEF WorldsOK, Span
    <3>3. old2[d - s.latency][c] \in Int
      BY <1>2, <3>2 DEF WorldsOK
    <3>4. Clip(d - 2 * s.latency + 1) \in Nat
          /\ Clip(d - 2 * s.latency + 1) >= Clip((T + 1) - 2 * s.latency)
      BY <1>1, <3>1 DEF Clip
    <3>5. mid.predicted = Foreseen(mid, old2[d - s.latency][c], Clip(d - 2 * s.latency + 1), T + 1)
      <4>1. CASE d = T + s.latency
        <5>1. d - s.latency = T /\ d - 2 * s.latency + 1 = (T + 1) - s.latency
          BY <1>1, <4>1
        <5>2. old2[T] = w2
          <6>1. T + 1 > 0 /\ (T + 1) - 1 = T
            BY <1>1
          <6> QED
            BY <1>2, <6>1 DEF WorldsOK
        <5> QED
          BY <2>1, <5>1, <5>2
      <4>2. CASE d # T + s.latency
        <5> PICK u : u = d - s.latency
          OBVIOUS
        <5>1. u \in Int /\ u < T /\ u >= T - s.latency /\ u >= 0 /\ d \in Flight(s, T)
          BY <1>1, <1>6, <3>1, <4>2
        <5>2. old2[u] = old[u]
          BY <1>0, <5>1, ViewKept
        <5> QED
          BY <2>1, <5>1, <5>2
      <4> QED
        BY <4>1, <4>2
    <3> QED
      BY <2>2, <3>3, <3>4, <3>5
  <2> QED
    BY <2>3, <2>4
<1> QED
  BY <1>2, <1>5, <1>7, <1>8, <1>9 DEF LoopOK

-----------------------------------------------------------------------------
\* The invariant holds.

LEMMA NetInvIsLoop ==
    NetInv <=> LoopOK(session, tick, world, lastInput, prev, past, clients, c2s, s2c)
BY DEF NetInv, LoopOK

LEMMA NetStarts == InitNet => NetInv
<1> SUFFICES ASSUME InitNet
             PROVE  NetInv
  OBVIOUS
<1>1. session \in Sessions /\ session.latency \in Nat /\ HistorySlack \in Nat \ {0}
  BY SessionSizes, Sizes DEF InitNet
<1>2. tick = 0 /\ DOMAIN Nothing = {} /\ Nothing \in Ring
  BY DEF InitNet, Nothing, Ring
<1>3. Flight(session, 0) = {}
  BY <1>1 DEF Flight
<1>4. WorldsOK(session, tick, world, lastInput, prev, past)
  <2>1. \A c \in Client : Clip(0 - session.latency) = 0
    BY <1>1 DEF Clip
  <2>2. {u \in Nat : 0 - 1 - Span(session) < u /\ u < 0} = {}
    OBVIOUS
  <2> QED
    BY <1>1, <1>2, <2>1, <2>2 DEF WorldsOK, InitNet
<1>5. \A c \in Client : clients[c] = [ring |-> Nothing, predicted |-> 0, baseline |-> Nothing,
                                      applied |-> -1]
  BY DEF InitNet
<1>6. ClientsOK(session, tick, past, clients)
  <2>1. 0 - 1 - session.latency < 0
    BY <1>1
  <2>2. {x \in Nat : Clip(0 - 2 * session.latency) < x /\ x <= 0} = {}
    BY <1>1 DEF Clip
  <2>3. DOMAIN clients = Client
    BY DEF InitNet
  <2>4. \A c : ViewAt(session, past, 0 - 1 - session.latency, c) = Nothing
    BY <2>1 DEF ViewAt
  <2> QED
    BY <1>2, <1>5, <2>1, <2>2, <2>3, <2>4 DEF ClientsOK
<1>7. InputsOK(session, tick, clients, c2s)
  BY <1>2, <1>3 DEF InputsOK, InitNet
<1>8. Chained(session, tick, past, s2c)
  BY <1>2, <1>3 DEF Chained, InitNet
<1>9. Exact(session, tick, world, past, clients)
  <2> SUFFICES ASSUME NEW c \in Client
               PROVE  clients[c].predicted = Foreseen(clients[c], world[c], Clip(0 - session.latency), 0)
    BY <1>2, <1>3 DEF Exact
  <2>1. Clip(0 - session.latency) = 0
    BY <1>1 DEF Clip
  <2> PICK r : r = After(0, Nothing)
    OBVIOUS
  <2>2. r \in Ring
    BY <1>2, AfterRing
  <2>3. PICK at : Sums(at, 0, r) /\ \A n \in Nat : Replayed(0, r, n) = at[n]
    BY <2>2, ReplayedSums
  <2>4. Replayed(0, r, 0) = 0
    BY <2>3 DEF Sums
  <2>5. world[c] = 0
    BY DEF InitNet
  <2> QED
    BY <1>5, <2>1, <2>4, <2>5 DEF Foreseen
<1> QED
  BY <1>4, <1>6, <1>7, <1>8, <1>9 DEF NetInv

\* advance() is a tick as above.
LEMMA NetSteps ==
    ASSUME NetInv, NEW intents \in Intents,
           AdvanceNet(intents, Sending(intents), Served(Arrived(Sending(intents))))
    PROVE  NetInv'
<1> PICK s, T : s = session /\ T = tick
  OBVIOUS
<1> PICK w, last, base, old : w = world /\ last = lastInput /\ base = prev /\ old = past
  OBVIOUS
<1> PICK cls, up, down : cls = clients /\ up = c2s /\ down = s2c
  OBVIOUS
<1>1. LoopOK(s, T, w, last, base, old, cls, up, down)
  BY NetInvIsLoop
<1> PICK in : in = [c \in Client |-> Stamped(intents, c)]
  OBVIOUS
<1>2. StampedOK(T, cls, in)
  <2>1. \A c \in Client : intents[c].move \in Int
    BY ReplicationConstants DEF Intents
  <2> QED
    BY <2>1 DEF StampedOK, Stamped
<1> PICK up2 : up2 = With(up, T + s.latency, in)
  OBVIOUS
<1>3. up2 = Sending(intents)
  BY DEF Sending
<1> PICK arrived : arrived = Get(up2, T)
  OBVIOUS
<1>4. arrived = Arrived(Sending(intents))
  BY <1>3 DEF Get, Arrived
<1> PICK w2, last2 : w2 = Moved(w, arrived) /\ last2 = Applied(last, arrived)
  OBVIOUS
<1>5. Served(Arrived(Sending(intents))).world = w2 /\ Served(Arrived(Sending(intents))).last = last2
  BY <1>4 DEF Served, Moved, Applied
<1> PICK base2, old2 : base2 = (IF s.radius >= Everywhere THEN w2 ELSE base)
                       /\ old2 = Kept(s, T, old, w2)
  OBVIOUS
<1>6. base2 = (IF AllVisible THEN w2 ELSE prev) /\ old2 = Remembered(w2)
  BY DEF AllVisible, Remembered, Kept, Window, Span
<1> PICK snap : snap = Snapped(s, T, base, w2, last2)
  OBVIOUS
<1>7. snap = Snapshots(Served(Arrived(Sending(intents))))
  <2>1. \A c \in Client : Visible(w2, c) = View(s, w2, c)
    BY VisibleIsView
  <2>2. AllVisible <=> s.radius >= Everywhere
    BY DEF AllVisible
  <2> QED
    BY <1>5, <2>1, <2>2 DEF Snapped, Snapshots
<1> PICK down2 : down2 = With(down, T + s.latency, snap)
  OBVIOUS
<1> PICK cls2 : cls2 = [c \in Client |-> Reached(s, T, c, Pressing(T, cls, in)[c], down2[T][c])]
  OBVIOUS
<1>8. LoopOK(s, T + 1, w2, last2, base2, old2, cls2, After(T, up2), After(T, down2))
  BY <1>1, <1>2, TickKeeps
<1>9. Delivered(Predicted(intents), Arrived(down2)) = cls2
  <2>0. s \in Sessions /\ T \in Nat /\ s.latency \in Nat /\ Chained(s, T, old, down)
    BY <1>1, SessionSizes DEF LoopOK, WorldsOK
  <2>1. T \in DOMAIN down2 <=> T >= s.latency
    <3>1. \A d : d \in DOMAIN down2 <=> d \in Flight(s, T) \cup {T + s.latency}
      BY <2>0, WithParts DEF Chained
    <3> QED
      BY <2>0, <3>1, FlightGoesOn
  <2>2. T >= s.latency => DOMAIN down2[T] = Client
    <3>1. CASE T = T + s.latency
      BY <3>1, WithParts DEF Snapped
    <3>2. CASE T # T + s.latency
      <4>1. T >= s.latency => T \in DOMAIN down
        BY <2>0, <3>2 DEF Chained, Flight
      <4> QED
        BY <2>0, <3>2, <4>1, WithParts DEF Chained
    <3> QED
      BY <3>1, <3>2
  <2>3. ASSUME NEW c \in Client
        PROVE  Predicted(intents)[c] = Pressing(T, cls, in)[c]
    BY DEF Predicted, Pressing, Pressed, Stamped
  <2>4. ASSUME NEW c \in Client
        PROVE  Delivered(Predicted(intents), Arrived(down2))[c] = cls2[c]
    <3> PICK mid : mid = Pressing(T, cls, in)[c]
      OBVIOUS
    <3>1. CASE T >= s.latency
      <4>1. Arrived(down2) = down2[T] /\ c \in DOMAIN Arrived(down2)
        BY <2>1, <2>2, <3>1 DEF Arrived
      <4>2. Delivered(Predicted(intents), Arrived(down2))[c] = Reconciled(c, mid, down2[T][c])
        BY <2>3, <4>1 DEF Delivered
      <4>3. Reconciled(c, mid, down2[T][c]) = Snap(c, T, mid, down2[T][c])
        BY DEF Reconciled, Snap
      <4> QED
        BY <3>1, <4>2, <4>3 DEF Reached
    <3>2. CASE ~(T >= s.latency)
      <4>1. c \notin DOMAIN Arrived(down2)
        BY <2>1, <3>2 DEF Arrived, Nothing
      <4> QED
        BY <2>3, <3>2, <4>1 DEF Delivered, Reached
    <3> QED
      BY <3>1, <3>2
  <2> QED
    BY <2>4 DEF Delivered
<1>10. /\ session' = s /\ tick' = T + 1 /\ world' = w2 /\ lastInput' = last2
       /\ prev' = base2 /\ past' = old2
  BY <1>5, <1>6 DEF AdvanceNet
<1>11. clients' = cls2 /\ c2s' = After(T, up2) /\ s2c' = After(T, down2)
  BY <1>3, <1>7, <1>9 DEF AdvanceNet, Later
<1>12. LoopOK(session', tick', world', lastInput', prev', past', clients', c2s', s2c')
  BY <1>8, <1>10, <1>11
<1> QED
  BY <1>12 DEF NetInv, LoopOK

\* The replication loop of a match keeps its invariant, whatever the players do.
THEOREM LoopIsSound == Spec => []NetInv
<1>1. Init => NetInv
  BY NetStarts DEF Init
<1>2. NetInv /\ [Next]_vars => NetInv'
  <2> SUFFICES ASSUME NetInv, [Next]_vars
               PROVE  NetInv'
    OBVIOUS
  <2>1. CASE Next
    <3> PICK intents \in Intents : Advance(intents)
      BY <2>1 DEF Next
    <3>1. AdvanceNet(intents, Sending(intents), Served(Arrived(Sending(intents))))
      BY DEF Advance
    <3> QED
      BY <3>1, NetSteps
  <2>2. CASE UNCHANGED vars
    <3>1. LoopOK(session, tick, world, lastInput, prev, past, clients, c2s, s2c)
      BY NetInvIsLoop
    <3>2. LoopOK(session', tick', world', lastInput', prev', past', clients', c2s', s2c')
      BY <2>2, <3>1 DEF vars, net
    <3> QED
      BY <3>2 DEF NetInv, LoopOK
  <2> QED
    BY <2>1, <2>2
<1> QED
  BY <1>1, <1>2, PTL DEF Spec

-----------------------------------------------------------------------------
\* What follows from it.

LEMMA ViewIsOneBefore == NetInv => RewindsOneAfterTheView
<1> SUFFICES ASSUME NetInv, NEW d \in DOMAIN c2s, NEW c \in Client
             PROVE  ViewTick(d) = c2s[d][c].seen + 1
  BY DEF RewindsOneAfterTheView
<1>1. session.latency \in Nat /\ d \in Nat
  BY SessionSizes DEF NetInv, WorldsOK, InputsOK, Flight
<1>2. c2s[d][c].seen = IF d - 2 * session.latency - 1 < 0 THEN -1 ELSE d - 2 * session.latency - 1
  BY DEF NetInv, InputsOK
<1>3. ViewTick(d) = IF d >= 2 * session.latency THEN d - 2 * session.latency ELSE 0
  BY DEF ViewTick
<1> QED
  BY <1>1, <1>2, <1>3

LEMMA PredictionExact == NetInv => PredictionIsExact
<1> SUFFICES ASSUME NetInv, NEW c \in Client
             PROVE  clients[c].predicted = Replayed(world[c], OnTheWay(c), tick)
  BY DEF PredictionIsExact
<1>1. tick \in Nat /\ session.latency \in Nat /\ world[c] \in Int
  BY SessionSizes DEF NetInv, WorldsOK
<1> PICK ring, k : ring = clients[c].ring /\ k = Clip(tick - session.latency)
  OBVIOUS
<1>2. ring \in Ring /\ DOMAIN ring = {x \in Nat : Clip(tick - 2 * session.latency) < x /\ x <= tick}
  BY DEF NetInv, ClientsOK
<1>3. clients[c].predicted = Replayed(world[c], After(k, ring), tick)
  BY DEF NetInv, Exact, Foreseen
<1>4. k \in Nat /\ After(k, ring) \in Ring
  <2>1. k \in Nat
    BY <1>1 DEF Clip
  <2> QED
    BY <1>2, <2>1, AfterRing
<1>5. \A t : t \in DOMAIN After(k, ring) <=> t \in Nat /\ k < t /\ t <= tick
  <2> PICK j : j = Clip(tick - 2 * session.latency)
    OBVIOUS
  <2>1. j \in Nat /\ j <= k
    BY <1>1 DEF Clip
  <2>2. \A t : t \in DOMAIN ring <=> t \in Nat /\ j < t /\ t <= tick
    BY <1>2
  <2>3. \A t : t \in DOMAIN After(k, ring) <=> t \in DOMAIN ring /\ t > k
    BY AfterParts
  <2> QED
    BY <1>1, <1>4, <2>1, <2>2, <2>3
<1>6. \A d : d \in DOMAIN c2s <=> d \in Nat /\ tick <= d /\ d < tick + session.latency
                                  /\ session.latency <= d
  BY DEF NetInv, InputsOK, Flight
<1>7. \A d \in DOMAIN c2s : c2s[d][c].tick = d - session.latency + 1
                            /\ c2s[d][c].move = ring[d - session.latency + 1]
  BY DEF NetInv, InputsOK
<1>8. \A t : t \in DOMAIN OnTheWay(c) <=> t \in Nat /\ k < t /\ t <= tick
  <2> TAKE t
  <2>1. t \in DOMAIN OnTheWay(c) <=> \E d \in DOMAIN c2s : t = d - session.latency + 1
    BY <1>7 DEF OnTheWay
  <2>2. ASSUME NEW d \in DOMAIN c2s, t = d - session.latency + 1
        PROVE  t \in Nat /\ k < t /\ t <= tick
    BY <1>1, <1>6, <2>2 DEF Clip
  <2>3. ASSUME t \in Nat, k < t, t <= tick
        PROVE  \E d \in DOMAIN c2s : t = d - session.latency + 1
    <3> PICK d : d = t + session.latency - 1
      OBVIOUS
    <3>1. d \in Nat /\ tick <= d /\ d < tick + session.latency /\ session.latency <= d
          /\ t = d - session.latency + 1
      BY <1>1, <2>3 DEF Clip
    <3> QED
      BY <1>6, <3>1
  <2> QED
    BY <2>1, <2>2, <2>3
<1>9. ASSUME NEW t \in DOMAIN OnTheWay(c)
      PROVE  OnTheWay(c)[t] = ring[t]
  <2> PICK d : d = CHOOSE x \in DOMAIN c2s : c2s[x][c].tick = t
    OBVIOUS
  <2>1. \E x \in DOMAIN c2s : c2s[x][c].tick = t
    BY DEF OnTheWay
  <2>2. d \in DOMAIN c2s /\ c2s[d][c].tick = t
    BY <2>1
  <2>3. OnTheWay(c)[t] = c2s[d][c].move
    BY <2>1 DEF OnTheWay
  <2>4. d - session.latency + 1 = t
    BY <1>7, <2>2
  <2> QED
    BY <1>7, <2>2, <2>3, <2>4
<1>10. \A t \in DOMAIN OnTheWay(c) : t \in DOMAIN After(k, ring) /\ After(k, ring)[t] = ring[t]
  BY <1>5, <1>8, AfterParts
<1>11. OnTheWay(c) \in Ring
  <2>1. \A t \in DOMAIN OnTheWay(c) : t \in Nat /\ OnTheWay(c)[t] \in Int
    BY <1>4, <1>8, <1>9, <1>10, RingMove
  <2>2. OnTheWay(c) \in [DOMAIN OnTheWay(c) -> Int]
    BY <2>1 DEF OnTheWay
  <2> QED
    BY <2>1, <2>2 DEF Ring
<1>12. \A t \in 1..tick : /\ t \in DOMAIN After(k, ring) <=> t \in DOMAIN OnTheWay(c)
                          /\ t \in DOMAIN After(k, ring) => After(k, ring)[t] = OnTheWay(c)[t]
  BY <1>5, <1>8, <1>9, <1>10
<1>13. Replayed(world[c], After(k, ring), tick) = Replayed(world[c], OnTheWay(c), tick)
  BY <1>1, <1>4, <1>11, <1>12, ReplayedSame
<1> QED
  BY <1>3, <1>13

LEMMA BaselineFollowing == NetInv => BaselineFollows
<1> SUFFICES ASSUME NetInv, tick > 0, NEW c \in Client
             PROVE  DecodedBy(s2c, c, tick + session.latency, clients[c].baseline)
                      = Visible(world, c)
  BY DEF BaselineFollows
<1> PICK s, T, old, q : s = session /\ T = tick /\ old = past /\ q = s2c
  OBVIOUS
<1> PICK b : b = clients[c].baseline
  OBVIOUS
<1>1. s \in Sessions /\ T \in Nat /\ T > 0 /\ s.latency \in Nat
  BY SessionSizes DEF NetInv, WorldsOK
<1>2. Chained(s, T, old, q) /\ b = ViewAt(s, old, T - 1 - s.latency, c)
  BY DEF NetInv, ClientsOK
<1>3. \A d : d \in DOMAIN q <=> d \in Nat /\ T <= d /\ d < T + s.latency /\ s.latency <= d
  BY <1>2 DEF Chained, Flight
<1> DEFINE Known(d) == IF d < T THEN b
                       ELSE IF d < T + s.latency THEN ViewAt(s, old, d - s.latency, c)
                            ELSE ViewAt(s, old, T - 1, c)
           Next1(h, d) == LET before == IF d = 0 THEN b ELSE h[d - 1]
                          IN  IF d \in DOMAIN q THEN Decoded(before, q[d][c]) ELSE before
           Eq(h) == h = [d \in Nat |-> Next1(h, d)]
           allKnown == [d \in Nat |-> Known(d)]
           base == CHOOSE h : Eq(h)
<1>4. ASSUME NEW d \in Nat, d # 0
      PROVE  Known(d) = IF d \in DOMAIN q THEN Decoded(Known(d - 1), q[d][c]) ELSE Known(d - 1)
  <2>1. CASE d < T
    BY <1>1, <1>3, <2>1
  <2>2. CASE d >= T /\ d < T + s.latency
    <3>1. Known(d) = ViewAt(s, old, d - s.latency, c)
      BY <1>1, <2>2
    <3>2. Known(d - 1) = ViewAt(s, old, d - s.latency - 1, c)
      <4>1. CASE d = T
        <5>1. d - 1 < T /\ d - s.latency - 1 = T - 1 - s.latency
          BY <1>1, <4>1
        <5> QED
          BY <1>2, <5>1
      <4>2. CASE d # T
        <5>1. ~(d - 1 < T) /\ d - 1 < T + s.latency /\ (d - 1) - s.latency = d - s.latency - 1
          BY <1>1, <2>2, <4>2
        <5> QED
          BY <5>1
      <4> QED
        BY <4>1, <4>2
    <3>3. CASE d >= s.latency
      <4>1. d \in DOMAIN q
        BY <1>3, <2>2, <3>3
      <4>2. Decoded(ViewAt(s, old, d - s.latency - 1, c), q[d][c]) = View(s, old[d - s.latency], c)
        BY <1>2, <4>1 DEF Chained
      <4>3. ~(d - s.latency < 0)
        BY <1>1, <3>3
      <4> QED
        BY <3>1, <3>2, <4>1, <4>2, <4>3 DEF ViewAt
    <3>4. CASE ~(d >= s.latency)
      <4>1. d \notin DOMAIN q /\ d - s.latency < 0 /\ d - s.latency - 1 < 0
        BY <1>1, <1>3, <3>4
      <4> QED
        BY <3>1, <3>2, <4>1 DEF ViewAt
    <3> QED
      BY <3>3, <3>4
  <2>3. CASE d >= T + s.latency
    <3>1. d \notin DOMAIN q /\ Known(d) = ViewAt(s, old, T - 1, c)
      BY <1>1, <1>3, <2>3
    <3>2. Known(d - 1) = ViewAt(s, old, T - 1, c)
      <4>1. CASE d - 1 < T
        <5>1. T - 1 - s.latency = T - 1
          BY <1>1, <2>3, <4>1
        <5> QED
          BY <1>2, <4>1, <5>1
      <4>2. CASE ~(d - 1 < T)
        <5>1. d - 1 < T + s.latency => (d - 1) - s.latency = T - 1
          BY <1>1, <2>3
        <5> QED
          BY <4>2, <5>1
      <4> QED
        BY <4>1, <4>2
    <3> QED
      BY <3>1, <3>2
  <2> QED
    BY <1>1, <2>1, <2>2, <2>3
<1>5. Known(0) = b /\ 0 \notin DOMAIN q
  BY <1>1, <1>3
<1> HIDE DEF Known
<1>6. \A d \in Nat : Known(d) = Next1(allKnown, d)
  <2> TAKE d \in Nat
  <2>1. CASE d = 0
    BY <1>5, <2>1
  <2>2. CASE d # 0
    <3>1. allKnown[d - 1] = Known(d - 1)
      BY <2>2
    <3> QED
      BY <1>4, <2>2, <3>1
  <2> QED
    BY <2>1, <2>2
<1>7. Eq(allKnown)
  BY <1>6
<1>8. Eq(base)
  BY <1>7
<1>9. DecodedBy(q, c, T + s.latency, b) = base[T + s.latency]
  BY DEF DecodedBy
<1> HIDE DEF base
<1>10. base[0] = b
  BY <1>5, <1>8
<1>11. \A d \in Nat \ {0} :
          base[d] = IF d \in DOMAIN q THEN Decoded(base[d - 1], q[d][c]) ELSE base[d - 1]
  BY <1>8
<1> DEFINE S == {d \in Nat : base[d] = Known(d)}
<1>12. S = Nat
  <2>1. 0 \in S
    BY <1>5, <1>10
  <2>2. ASSUME NEW d \in S
        PROVE  d + 1 \in S
    <3>1. d + 1 \in Nat \ {0} /\ (d + 1) - 1 = d /\ base[d] = Known(d)
      OBVIOUS
    <3> QED
      BY <1>4, <1>11, <3>1
  <2> HIDE DEF S
  <2>3. S \in SUBSET Nat
    BY DEF S
  <2> QED
    BY <2>1, <2>2, <2>3, Numbers
<1>13. base[T + s.latency] = Known(T + s.latency)
  BY <1>1, <1>12
<1>14. Known(T + s.latency) = View(s, old[T - 1], c)
  <2>1. ~(T + s.latency < T) /\ ~(T + s.latency < T + s.latency) /\ ~(T - 1 < 0)
    BY <1>1
  <2> QED
    BY <2>1 DEF Known, ViewAt
<1>15. old[T - 1] = world
  BY <1>1 DEF NetInv, WorldsOK
<1> QED
  BY <1>9, <1>13, <1>14, <1>15, VisibleIsView

\* What a client predicts for itself is what the server will reach with the
\* inputs on their way, for any latency, ring and number of clients.
THEOREM PredictionAlwaysExact == Spec => []PredictionIsExact
BY LoopIsSound, PredictionExact, PTL

\* With the snapshots on their way applied, a client has what it may see of the
\* server's world: the two ends of the delta encoding never part.
THEOREM BaselineAlwaysFollows == Spec => []BaselineFollows
BY LoopIsSound, BaselineFollowing, PTL

\* For any latency, ring and number of clients, a shot is tested in the world of the
\* tick after the snapshot its shooter had applied last, and in no other.
THEOREM ShotsRewindOneAfterTheView == Spec => []RewindsOneAfterTheView
BY LoopIsSound, ViewIsOneBefore, PTL

-----------------------------------------------------------------------------
\* The players.

Timers == UNION {[D -> 1..RespawnDelay] : D \in SUBSET Client}

\* The players whose health and Dead component agree.
Fit == {p \in [health : [Client -> 0..MaxHealth], dead : Timers, frags : [Client -> Nat],
               deaths : [Client -> Nat], spawn : [Client -> Int]] :
          \A c \in Client : p.health[c] = 0 <=> c \in DOMAIN p.dead}

\* From p to q nobody revives, and who died was alive and is dead.
Since(p, q) ==
    /\ DOMAIN p.dead \subseteq DOMAIN q.dead
    /\ \A c \in Client :
          \/ q.deaths[c] = p.deaths[c]
          \/ q.deaths[c] = p.deaths[c] + 1 /\ c \notin DOMAIN p.dead /\ c \in DOMAIN q.dead

LEMMA MatchSizes ==
    /\ MaxHealth \in Nat \ {0} /\ Damage \in Nat \ {0} /\ RespawnDelay \in Nat \ {0}
    /\ SpawnPoints \in Seq(Int) /\ Nobody \notin Client
BY MatchAssumption

LEMMA FitParts ==
    ASSUME NEW p \in Fit
    PROVE  /\ p.health \in [Client -> 0..MaxHealth] /\ p.dead \in [DOMAIN p.dead -> 1..RespawnDelay]
           /\ DOMAIN p.dead \subseteq Client
           /\ p.frags \in [Client -> Nat] /\ p.deaths \in [Client -> Nat]
           /\ p.spawn \in [Client -> Int]
           /\ \A c \in Client : p.health[c] = 0 <=> c \in DOMAIN p.dead
BY DEF Fit, Timers

\* The farthest of some spawn points is one of them.
LEMMA FarthestIsAPoint ==
    ASSUME NEW hp \in [Client -> Nat], NEW at \in [Client -> Int], NEW v \in Client,
           SpawnPoints # <<>>
    PROVE  FarthestSpawn(hp, at, v) \in DOMAIN SpawnPoints
<1> DEFINE others == {c \in Client \ {v} : hp[c] > 0}
<1> PICK n : n = Len(SpawnPoints)
  OBVIOUS
<1>1. n \in Nat \ {0} /\ DOMAIN SpawnPoints = 1..n /\ \A i \in 1..n : SpawnPoints[i] \in Int
  BY MatchSizes
<1>2. CASE others = {}
  BY <1>1, <1>2 DEF FarthestSpawn
<1>3. CASE others # {}
  <2> DEFINE gaps(i) == {Distance(at[c], SpawnPoints[i]) : c \in others}
  <2> PICK f : f = [i \in 1..n |-> Lowest(gaps(i))]
    OBVIOUS
  <2>1. ASSUME NEW i \in 1..n
        PROVE  f[i] \in Int
    <3>1. gaps(i) \in SUBSET Nat
      <4> SUFFICES ASSUME NEW c \in others
                   PROVE  Distance(at[c], SpawnPoints[i]) \in Nat
        OBVIOUS
      <4>1. at[c] \in Int /\ SpawnPoints[i] \in Int
        BY <1>1
      <4> QED
        BY <4>1 DEF Distance
    <3>2. gaps(i) # {}
      BY <1>3
    <3> HIDE DEF gaps
    <3>3. Lowest(gaps(i)) \in Nat
      BY <3>1, <3>2, LowestIn
    <3> QED
      BY <3>3
  <2>2. PICK i \in 1..n : \A j \in 1..n : f[j] <= f[i]
    BY <1>1, <2>1, Highest
  <2> PICK best : best = {k \in 1..n : \A j \in 1..n : f[j] <= f[k]}
    OBVIOUS
  <2>3. best \in SUBSET Nat /\ best # {} /\ best \subseteq DOMAIN SpawnPoints
    <3>1. best \subseteq 1..n /\ i \in best
      BY <2>2
    <3>2. 1..n \in SUBSET Nat /\ 1..n = DOMAIN SpawnPoints
      BY <1>1
    <3> QED
      BY ONLY <3>1, <3>2
  <2>4. FarthestSpawn(hp, at, v) = Lowest(best)
    BY <1>1, <1>3 DEF FarthestSpawn
  <2> QED
    BY <2>3, <2>4, LowestIn
<1> QED
  BY <1>2, <1>3

\* A hit leaves the players fit, whoever it reaches.
LEMMA HitKeeps ==
    ASSUME NEW p \in Fit, NEW a \in Client, NEW v \in Client, NEW at \in [Client -> Int]
    PROVE  LET q == ApplyHit(p, [attacker |-> a, victim |-> v], at)
           IN  q \in Fit /\ Since(p, q)
<1> PICK hit : hit = [attacker |-> a, victim |-> v]
  OBVIOUS
<1> PICK q : q = ApplyHit(p, hit, at)
  OBVIOUS
<1> SUFFICES q \in Fit /\ Since(p, q)
  OBVIOUS
<1>1. CASE ~CanBeHurt(p, v)
  BY <1>1, FitParts DEF ApplyHit, Since
<1>2. CASE CanBeHurt(p, v)
  <2> PICK left : left = IF p.health[v] > Damage THEN p.health[v] - Damage ELSE 0
    OBVIOUS
  <2> PICK hp : hp = [p.health EXCEPT ![v] = left]
    OBVIOUS
  <2> PICK gone : gone = DOMAIN p.dead \cup (IF left = 0 THEN {v} ELSE {})
    OBVIOUS
  <2> PICK timers : timers = [c \in gone |-> IF c \in DOMAIN p.dead THEN p.dead[c] ELSE RespawnDelay]
    OBVIOUS
  <2> PICK fr : fr = CreditKill(p, hit, left = 0)
    OBVIOUS
  <2> PICK kills : kills = IF left = 0 THEN [p.deaths EXCEPT ![v] = @ + 1] ELSE p.deaths
    OBVIOUS
  <2> PICK sp : sp = IF left = 0 /\ SpawnPoints # <<>>
                     THEN [p.spawn EXCEPT ![v] = SpawnPoints[FarthestSpawn(hp, at, v)]]
                     ELSE p.spawn
    OBVIOUS
  <2>1. q = [health |-> hp, dead |-> timers, frags |-> fr, deaths |-> kills, spawn |-> sp]
    BY <1>2 DEF ApplyHit
  <2>a. /\ p.health \in [Client -> 0..MaxHealth] /\ p.dead \in [DOMAIN p.dead -> 1..RespawnDelay]
        /\ DOMAIN p.dead \subseteq Client
        /\ p.frags \in [Client -> Nat] /\ p.deaths \in [Client -> Nat]
    BY FitParts
  <2>b. hit.attacker = a /\ hit.victim = v
    OBVIOUS
  <2>2. v \notin DOMAIN p.dead /\ left \in 0..MaxHealth /\ hp \in [Client -> 0..MaxHealth]
    <3>1. v \notin DOMAIN p.dead /\ p.health[v] \in 0..MaxHealth
      BY <1>2, <2>a DEF CanBeHurt
    <3>2. left \in 0..MaxHealth
      BY ONLY <3>1, MatchSizes,
              left = IF p.health[v] > Damage THEN p.health[v] - Damage ELSE 0
    <3> QED
      BY ONLY <2>a, <3>1, <3>2, hp = [p.health EXCEPT ![v] = left]
  <2>3. timers \in [gone -> 1..RespawnDelay] /\ gone \subseteq Client
    <3>1. RespawnDelay \in 1..RespawnDelay
      BY MatchSizes
    <3>2. gone \subseteq Client
      BY <2>a
    <3> QED
      BY ONLY <2>a, <3>1, <3>2,
              timers = [c \in gone |-> IF c \in DOMAIN p.dead THEN p.dead[c] ELSE RespawnDelay]
  <2>4. fr \in [Client -> Nat]
    BY ONLY <2>a, <2>b, a \in Client, fr = CreditKill(p, hit, left = 0) DEF CreditKill
  <2>5. kills \in [Client -> Nat]
    BY ONLY <2>a, v \in Client,
            kills = IF left = 0 THEN [p.deaths EXCEPT ![v] = @ + 1] ELSE p.deaths
  <2>6. sp \in [Client -> Int]
    <3>1. hp \in [Client -> Nat]
      BY <2>2, MatchSizes
    <3>2. SpawnPoints # <<>> => SpawnPoints[FarthestSpawn(hp, at, v)] \in Int
      <4> SUFFICES ASSUME SpawnPoints # <<>>
                   PROVE  SpawnPoints[FarthestSpawn(hp, at, v)] \in Int
        OBVIOUS
      <4>1. FarthestSpawn(hp, at, v) \in DOMAIN SpawnPoints
        BY <3>1, FarthestIsAPoint
      <4>2. \A i \in DOMAIN SpawnPoints : SpawnPoints[i] \in Int
        BY MatchSizes
      <4> QED
        BY <4>1, <4>2
    <3> QED
      BY <3>2, FitParts
  <2>7. \A c \in Client : hp[c] = 0 <=> c \in gone
    BY <1>2, <2>2, FitParts
  <2>8. q \in Fit
    <3>1. timers \in Timers
      BY <2>3 DEF Timers
    <3>2. DOMAIN timers = gone
      BY <2>3
    <3>3. q \in [health : [Client -> 0..MaxHealth], dead : Timers, frags : [Client -> Nat],
                  deaths : [Client -> Nat], spawn : [Client -> Int]]
      BY ONLY <2>1, <2>2, <2>4, <2>5, <2>6, <3>1
    <3>4. q.health = hp /\ q.dead = timers
      BY ONLY <2>1
    <3> QED
      BY ONLY <2>7, <3>2, <3>3, <3>4 DEF Fit
  <2>9. Since(p, q)
    <3>1. DOMAIN q.dead = gone /\ q.deaths = kills
      BY <2>1, <2>3
    <3>2. CASE left = 0
      <4>1. \A c \in Client : kills[c] = IF c = v THEN p.deaths[c] + 1 ELSE p.deaths[c]
        BY <3>2, FitParts
      <4> QED
        BY <2>2, <3>1, <3>2, <4>1 DEF Since
    <3>3. CASE left # 0
      BY <3>1, <3>3 DEF Since
    <3> QED
      BY <3>2, <3>3
  <2> QED
    BY <2>8, <2>9
<1> QED
  BY <1>1, <1>2

\* So do all the hits of a tick, and nobody dies twice in them.
LEMMA HitsKeep ==
    ASSUME NEW start \in Fit,
           start = [health |-> health, dead |-> dead, frags |-> frags,
                    deaths |-> deaths, spawn |-> spawn],
           NEW at \in [Client -> Int], NEW hits,
           \A c \in DOMAIN hits : c \in Client /\ hits[c] \in Client
    PROVE  AfterHits(hits, at) \in Fit /\ Since(start, AfterHits(hits, at))
<1> DEFINE next(c, p) ==
             IF Live /\ c \in DOMAIN hits
             THEN ApplyHit(p, [attacker |-> c, victim |-> hits[c]], at) ELSE p
           Eq(f) == f = [c \in Nat |->
             IF c = 0 THEN [health |-> health, dead |-> dead, frags |-> frags,
                            deaths |-> deaths, spawn |-> spawn]
             ELSE IF Live /\ c \in DOMAIN hits
                  THEN ApplyHit(f[c - 1], [attacker |-> c, victim |-> hits[c]], at)
                  ELSE f[c - 1]]
           run == CHOOSE f : Eq(f)
<1> PICK S : S = {p \in Fit : Since(start, p)}
  OBVIOUS
<1>1. start \in S
  BY FitParts DEF Since
<1>2. ASSUME NEW c \in Nat, NEW p \in S
      PROVE  next(c, p) \in S
  <2>1. CASE Live /\ c \in DOMAIN hits
    <3> PICK q : q = next(c, p)
      OBVIOUS
    <3>1. q \in Fit /\ Since(p, q)
      BY <2>1, HitKeeps
    <3>2. Since(start, q)
      BY <3>1, FitParts DEF Since
    <3> QED
      BY <3>1, <3>2
  <2>2. CASE ~(Live /\ c \in DOMAIN hits)
    BY <2>2
  <2> QED
    BY <2>1, <2>2
<1> HIDE DEF next
<1> PICK step : step = [c \in Nat |-> [p \in S |-> next(c, p)]]
  OBVIOUS
<1>3. step \in [Nat -> [S -> S]]
  BY <1>2
<1>4. PICK f : Iterates(f, S, start, step)
  BY <1>1, <1>3, Recursion
<1>5. \A c \in Nat \ {0} : c - 1 \in Nat /\ f[c - 1] \in S /\ f[c] = next(c, f[c - 1])
  <2> TAKE c \in Nat \ {0}
  <2>1. c - 1 \in Nat /\ c \in Nat
    OBVIOUS
  <2>2. f[c - 1] \in S /\ f[c] = step[c][f[c - 1]]
    BY <1>4, <2>1 DEF Iterates
  <2>3. step[c] = [p \in S |-> next(c, p)]
    BY <2>1
  <2> QED
    BY <2>1, <2>2, <2>3
<1>6. Eq(f)
  BY <1>4, <1>5 DEF Iterates, next
<1>7. Eq(run)
  BY <1>6
<1>8. AfterHits(hits, at) = run[ClientCount]
  BY DEF AfterHits
<1> HIDE DEF run
<1>9. run[0] = start /\ \A c \in Nat \ {0} : run[c] = next(c, run[c - 1])
  BY <1>7 DEF next
<1> HIDE DEF Eq
<1>10. {c \in Nat : run[c] \in S} = Nat
  <2> PICK R : R = {c \in Nat : run[c] \in S}
    OBVIOUS
  <2>1. 0 \in R
    BY <1>1, <1>9
  <2>2. ASSUME NEW c \in R
        PROVE  c + 1 \in R
    <3>1. (c + 1) \in Nat \ {0} /\ (c + 1) - 1 = c /\ run[c] \in S
      OBVIOUS
    <3>2. run[c + 1] = next(c + 1, run[c])
      BY <1>9, <3>1
    <3> QED
      BY <1>2, <3>1, <3>2
  <2>3. R \in SUBSET Nat
    OBVIOUS
  <2> QED
    BY <2>1, <2>2, <2>3, Numbers
<1>11. run[ClientCount] \in S
  BY <1>10, Sizes
<1> QED
  BY <1>8, <1>11

\* Hits are between clients.
LEMMA HitsAreClients ==
    ASSUME NetInv, NEW intents
    PROVE  LET hits == Served(Arrived(Sending(intents))).hits
           IN  \A c \in DOMAIN hits : c \in Client /\ hits[c] \in Client
<1> PICK in : in = Arrived(Sending(intents))
  OBVIOUS
<1> PICK hits : hits = Served(in).hits
  OBVIOUS
<1>1. DOMAIN in \subseteq Client
  <2> PICK up2 : up2 = Sending(intents)
    OBVIOUS
  <2> PICK now : now = tick + session.latency
    OBVIOUS
  <2> PICK sent : sent = [c \in Client |-> Stamped(intents, c)]
    OBVIOUS
  <2>1. up2 = With(c2s, now, sent)
    BY DEF Sending
  <2>2. CASE tick \in DOMAIN up2
    <3>1. in = up2[tick]
      BY <2>2 DEF Arrived
    <3>2. tick = now => DOMAIN in = Client
      BY <2>1, <3>1, WithParts
    <3>3. tick # now => tick \in DOMAIN c2s /\ in = c2s[tick]
      BY <2>1, <2>2, <3>1, WithParts
    <3>4. \A d \in DOMAIN c2s : DOMAIN c2s[d] = Client
      BY DEF NetInv, InputsOK
    <3> QED
      BY <3>2, <3>3, <3>4
  <2>3. CASE tick \notin DOMAIN up2
    BY <2>3 DEF Arrived, Nothing
  <2> QED
    BY <2>2, <2>3
<1> SUFFICES ASSUME NEW c \in DOMAIN hits
             PROVE  c \in Client /\ hits[c] \in Client
  OBVIOUS
<1>2. c \in DOMAIN in /\ Hit(c, in[c]) # {} /\ hits[c] = Lowest(Hit(c, in[c]))
  BY DEF Served
<1>3. Hit(c, in[c]) \subseteq Client
  BY DEF Hit, Victims
<1>4. Hit(c, in[c]) \in SUBSET Nat
  BY <1>3, ClientNat
<1>5. Lowest(Hit(c, in[c])) \in Hit(c, in[c])
  BY <1>2, <1>4, LowestIn
<1> QED
  BY <1>1, <1>2, <1>3, <1>5

\* Somebody leads.
LEMMA LeaderIsAClient ==
    ASSUME NEW score \in [Client -> Nat]
    PROVE  Leader(score) \in Client
<1> PICK best : best = {c \in Client : \A d \in Client : score[d] <= score[c]}
  OBVIOUS
<1>1. \E c \in Client : \A d \in Client : score[d] <= score[c]
  <2>1. score \in [1..ClientCount -> Int]
    BY DEF Client
  <2> QED
    BY <2>1, Sizes, Highest DEF Client
<1>2. best \in SUBSET Nat /\ best # {} /\ best \subseteq Client
  BY <1>1, ClientNat
<1> QED
  BY <1>2, LowestIn DEF Leader

Player == [health |-> health, dead |-> dead, frags |-> frags, deaths |-> deaths, spawn |-> spawn]

PhaseOK ==
    /\ phase \in {"Warmup", "Active", "Intermission"}
    /\ phaseTime \in Nat /\ matchTime \in Nat /\ round \in Nat
    /\ winner \in Client \cup {Nobody}

Inv ==
    /\ NetInv /\ PhaseOK /\ Player \in Fit
    /\ shown \in [Client -> Int] /\ tick <= MaxTick

LEMMA PhaseKeeps ==
    ASSUME PhaseOK, NEW score \in [Client -> Nat], TickMatch(score)
    PROVE  PhaseOK'
<1>1. Leader(score) \in Client
  BY LeaderIsAClient
<1> QED
  BY <1>1 DEF PhaseOK, TickMatch, Enter, Stay

\* The players after the respawns of a tick.
LEMMA RespawnKeeps ==
    ASSUME NEW p \in Fit, NEW at \in [Client -> Int], Respawned(p, at),
           frags' = p.frags, deaths' = p.deaths, spawn' = p.spawn
    PROVE  Player' \in Fit /\ shown' \in [Client -> Int]
<1> PICK ready : ready = {c \in DOMAIN p.dead : p.dead[c] <= 1}
  OBVIOUS
<1>1. /\ health' = Healed(p, ready)
      /\ shown' = [c \in Client |-> IF c \in ready THEN p.spawn[c] ELSE at[c]]
      /\ dead' = [c \in DOMAIN p.dead \ ready |-> p.dead[c] - 1]
  BY DEF Respawned
<1>2. health' \in [Client -> 0..MaxHealth]
  BY <1>1, FitParts, MatchSizes DEF Healed
<1>3. dead' \in [DOMAIN p.dead \ ready -> 1..RespawnDelay]
  <2>1. ASSUME NEW c \in DOMAIN p.dead \ ready
        PROVE  p.dead[c] - 1 \in 1..RespawnDelay
    <3>1. p.dead[c] \in 1..RespawnDelay /\ ~(p.dead[c] <= 1)
      BY FitParts
    <3> QED
      BY <3>1, MatchSizes
  <2> QED
    BY <1>1, <2>1
<1>4. DOMAIN dead' \subseteq Client /\ dead' \in Timers
  BY <1>3, FitParts DEF Timers
<1>5. \A c \in Client : health'[c] = 0 <=> c \in DOMAIN dead'
  <2> TAKE c \in Client
  <2>1. c \in ready => health'[c] = MaxHealth /\ c \notin DOMAIN dead'
    BY <1>1 DEF Healed
  <2>2. c \notin ready => health'[c] = p.health[c] /\ (c \in DOMAIN dead' <=> c \in DOMAIN p.dead)
    BY <1>1 DEF Healed
  <2> QED
    BY <2>1, <2>2, FitParts, MatchSizes
<1>6. p.frags \in [Client -> Nat] /\ p.deaths \in [Client -> Nat] /\ p.spawn \in [Client -> Int]
  BY FitParts
<1>7. Player' \in Fit
  BY <1>2, <1>4, <1>5, <1>6 DEF Player, Fit
<1>8. shown' \in [Client -> Int]
  BY <1>1, <1>6
<1> QED
  BY <1>7, <1>8

\* What a tick makes of the players: those its hits left, and the respawns.
LEMMA AdvanceParts ==
    ASSUME Inv, NEW intents \in Intents, Advance(intents)
    PROVE  LET served == Served(Arrived(Sending(intents)))
               p == AfterHits(served.hits, served.world)
           IN  /\ p \in Fit /\ Since(Player, p)
               /\ NetInv' /\ served.world \in [Client -> Int]
               /\ Respawned(p, served.world) /\ TickMatch(p.frags)
               /\ frags' = p.frags /\ deaths' = p.deaths /\ spawn' = p.spawn
               /\ tick' = tick + 1 /\ tick < MaxTick
<1> PICK served : served = Served(Arrived(Sending(intents)))
  OBVIOUS
<1> PICK p : p = AfterHits(served.hits, served.world)
  OBVIOUS
<1>1. NetInv /\ Player \in Fit
  BY DEF Inv
<1>2. AdvanceNet(intents, Sending(intents), served)
  BY DEF Advance
<1>3. NetInv' /\ tick' = tick + 1 /\ world' = served.world
  BY <1>1, <1>2, NetSteps DEF AdvanceNet
<1>4. served.world \in [Client -> Int]
  BY <1>3 DEF NetInv, WorldsOK
<1>5. \A c \in DOMAIN served.hits : c \in Client /\ served.hits[c] \in Client
  BY <1>1, HitsAreClients
<1>6. p \in Fit /\ Since(Player, p)
  BY <1>1, <1>4, <1>5, HitsKeep DEF Player
<1>7. /\ Respawned(p, served.world) /\ TickMatch(p.frags) /\ tick < MaxTick
      /\ frags' = p.frags /\ deaths' = p.deaths /\ spawn' = p.spawn
  BY DEF Advance
<1> QED
  BY <1>3, <1>4, <1>6, <1>7

\* The whole invariant of a match.
THEOREM MatchIsSound == Spec => []Inv
<1>1. Init => Inv
  <2> SUFFICES ASSUME Init
               PROVE  Inv
    OBVIOUS
  <2>1. NetInv /\ tick = 0
    BY NetStarts DEF Init, InitNet
  <2>2. MaxTick \in Nat
    BY MatchAssumption
  <2>3. PhaseOK
    BY DEF Init, PhaseOK
  <2>4. \A c \in Client : DefaultSpawn(c) \in Int
    BY ClientNat DEF DefaultSpawn
  <2>5. health \in [Client -> 0..MaxHealth] /\ \A c \in Client : health[c] # 0
    BY MatchSizes DEF Init
  <2>6. DOMAIN dead = {} /\ dead \in [{} -> 1..RespawnDelay]
    BY DEF Init
  <2>7. dead \in Timers
    BY <2>6 DEF Timers
  <2>8. frags \in [Client -> Nat] /\ deaths \in [Client -> Nat]
    BY DEF Init
  <2>9. spawn \in [Client -> Int] /\ shown \in [Client -> Int]
    BY <2>4 DEF Init
  <2>10. Player \in Fit
    BY <2>5, <2>6, <2>7, <2>8, <2>9 DEF Player, Fit
  <2> QED
    BY <2>1, <2>2, <2>3, <2>9, <2>10 DEF Inv
<1>2. Inv /\ [Next]_vars => Inv'
  <2> SUFFICES ASSUME Inv, [Next]_vars
               PROVE  Inv'
    OBVIOUS
  <2>1. CASE Next
    <3> PICK intents \in Intents : Advance(intents)
      BY <2>1 DEF Next
    <3> PICK served : served = Served(Arrived(Sending(intents)))
      OBVIOUS
    <3> PICK p : p = AfterHits(served.hits, served.world)
      OBVIOUS
    <3>1. /\ p \in Fit
          /\ NetInv' /\ served.world \in [Client -> Int]
          /\ Respawned(p, served.world) /\ TickMatch(p.frags)
          /\ frags' = p.frags /\ deaths' = p.deaths /\ spawn' = p.spawn
          /\ tick' = tick + 1 /\ tick < MaxTick
      BY AdvanceParts
    <3>2. Player' \in Fit /\ shown' \in [Client -> Int]
      BY <3>1, RespawnKeeps
    <3>3. PhaseOK'
      BY <3>1, PhaseKeeps, FitParts DEF Inv
    <3>4. tick' <= MaxTick
      <4>1. tick \in Nat /\ MaxTick \in Nat
        BY MatchAssumption DEF Inv, NetInv, WorldsOK
      <4> QED
        BY <3>1, <4>1
    <3> QED
      BY <3>1, <3>2, <3>3, <3>4 DEF Inv
  <2>2. CASE UNCHANGED vars
    <3>1. UNCHANGED <<session, tick, world, lastInput, prev, past, clients, c2s, s2c>>
      BY <2>2 DEF vars, net
    <3>2. LoopOK(session, tick, world, lastInput, prev, past, clients, c2s, s2c)
      BY NetInvIsLoop DEF Inv
    <3>3. NetInv'
      BY <3>1, <3>2 DEF NetInv, LoopOK
    <3>4. Player' \in Fit /\ PhaseOK'
      BY <2>2 DEF vars, players, match, Inv, Player, PhaseOK
    <3> QED
      BY <2>2, <3>1, <3>3, <3>4 DEF Inv, vars, players
  <2> QED
    BY <2>1, <2>2
<1> QED
  BY <1>1, <1>2, PTL DEF Spec

LEMMA StateInRange == Inv => TypeOK
<1> SUFFICES ASSUME Inv
             PROVE  TypeOK
  OBVIOUS
<1>1. Player \in Fit /\ PhaseOK /\ NetInv /\ shown \in [Client -> Int] /\ tick <= MaxTick
  BY DEF Inv
<1>2. session \in Sessions /\ tick \in Nat /\ world \in [Client -> Int]
  BY <1>1 DEF NetInv, WorldsOK
<1> PICK l : l = session.latency
  OBVIOUS
<1>3. l \in Nat /\ 2 * l <= RingCapacity /\ MaxTick \in Nat
  BY <1>2, SessionSizes, MatchAssumption
<1>4. lastInput \in [Client -> 0..MaxTick]
  <2>1. lastInput = [c \in Client |-> Clip(tick - l)]
    BY <1>1 DEF NetInv, WorldsOK
  <2>2. Clip(tick - l) \in 0..MaxTick
    BY <1>1, <1>2, <1>3 DEF Clip
  <2> QED
    BY <2>1, <2>2
<1>5. DOMAIN past \subseteq tick - Window..tick - 1
  <2>1. DOMAIN past = {u \in Nat : tick - 1 - (2 * l + HistorySlack) < u /\ u < tick}
    BY <1>1 DEF NetInv, WorldsOK, Span
  <2>2. Window = 2 * l + HistorySlack
    BY DEF Window
  <2> QED
    BY <1>2, <1>3, <2>1, <2>2, Sizes
<1>6. \A c \in Client : DOMAIN clients[c].ring \subseteq tick - RingCapacity + 1..tick
  <2> TAKE c \in Client
  <2>1. DOMAIN clients[c].ring = {x \in Nat : Clip(tick - 2 * l) < x /\ x <= tick}
    BY <1>1 DEF NetInv, ClientsOK
  <2> QED
    BY <1>2, <1>3, <2>1, Sizes DEF Clip
<1>7. /\ health \in [Client -> 0..MaxHealth] /\ DOMAIN dead \subseteq Client
      /\ frags \in [Client -> Nat] /\ deaths \in [Client -> Nat] /\ spawn \in [Client -> Int]
  BY <1>1, FitParts DEF Player
<1> QED
  BY <1>1, <1>2, <1>3, <1>4, <1>5, <1>6, <1>7 DEF TypeOK, PhaseOK

\* A player has no health just as long as it has the Dead component, and never
\* for longer than the delay, for any players, weapons and rules.
THEOREM DeadWithoutHealthEver == Spec => []DeadWithoutHealth
<1>1. Inv => DeadWithoutHealth
  <2> SUFFICES ASSUME Inv
               PROVE  DeadWithoutHealth
    OBVIOUS
  <2>1. Player \in Fit
    BY DEF Inv
  <2>2. /\ \A c \in Client : health[c] = 0 <=> c \in DOMAIN dead
        /\ dead \in [DOMAIN dead -> 1..RespawnDelay]
    BY <2>1, FitParts DEF Player
  <2> QED
    BY <2>2, StateInRange DEF DeadWithoutHealth
<1> QED
  BY <1>1, MatchIsSound, PTL

\* However many shots reach a player in a tick, it dies once for each life.
THEOREM OneDeathPerLifeEver == Spec => OneDeathPerLife
<1>1. Inv /\ [Next]_vars => [\A c \in Client :
         deaths'[c] # deaths[c] => c \notin DOMAIN dead /\ deaths'[c] = deaths[c] + 1]_vars
  <2> SUFFICES ASSUME Inv, Next, NEW c \in Client, deaths'[c] # deaths[c]
               PROVE  c \notin DOMAIN dead /\ deaths'[c] = deaths[c] + 1
    OBVIOUS
  <2> PICK intents \in Intents : Advance(intents)
    BY DEF Next
  <2> PICK served : served = Served(Arrived(Sending(intents)))
    OBVIOUS
  <2> PICK p : p = AfterHits(served.hits, served.world)
    OBVIOUS
  <2>1. Since(Player, p) /\ deaths' = p.deaths
    BY AdvanceParts
  <2> QED
    BY <2>1 DEF Since, Player
<1> QED
  BY <1>1, MatchIsSound, PTL DEF Spec, OneDeathPerLife
=============================================================================
