--------------------------- MODULE IpcServerProofs ---------------------------
(***************************************************************************)
(* Proofs about IpcServer, for any panels, scripts and broadcasts: that a   *)
(* stopped server keeps no more than a broadcast for each thread that was   *)
(* in the middle of one, that no panel is cut off before it has got every  *)
(* answer it is owed, and that panels get the broadcasts, and the callback  *)
(* the messages, once and in order (PanelInv).  All but the first are       *)
(* stated by filtering sequences, so the first part is about Only(), which  *)
(* does, by induction over sequences.                                       *)
(***************************************************************************)
EXTENDS IpcServer, FiniteSetTheorems, SequenceTheorems, WellFoundedInduction, TLAPS

-----------------------------------------------------------------------------
\* Numbers and recursion.

Least(S) == CHOOSE x \in S : \A y \in S : x <= y

LEMMA LeastIn ==
    ASSUME NEW S \in SUBSET Nat, S # {}
    PROVE  /\ Least(S) \in S
           /\ \A y \in S : Least(S) <= y
<1> DEFINE R == {ss \in Nat \X Nat : ss[1] < ss[2]}
<1>1. IsWellFoundedOn(R, Nat)
  BY NatLessThanWellFounded DEF OpToRel
<1>2. \A x, y \in Nat : <<y, x>> \notin R => x <= y
  OBVIOUS
<1> HIDE DEF R
<1>3. PICK x \in S : \A y \in S : <<y, x>> \notin R
  BY <1>1, WFMin
<1>4. \A y \in S : x <= y
  BY <1>2, <1>3
<1> QED
  BY <1>4 DEF Least

\* A set of numbers that has 0 and with each number the next is all of Nat.
LEMMA Numbers ==
    ASSUME NEW S \in SUBSET Nat, 0 \in S, \A n \in S : n + 1 \in S
    PROVE  S = Nat
<1> SUFFICES ASSUME Nat \ S # {}
             PROVE  FALSE
  OBVIOUS
<1> PICK k : k = Least(Nat \ S)
  OBVIOUS
<1>1. k \in Nat /\ k \notin S /\ \A y \in Nat \ S : k <= y
  BY LeastIn
<1>2. k # 0
  BY <1>1
<1>3. k - 1 \in Nat /\ k - 1 < k
  BY <1>1, <1>2
<1>4. k - 1 \in S
  BY <1>1, <1>3
<1>5. (k - 1) + 1 = k
  BY <1>1
<1> QED
  BY <1>1, <1>4, <1>5

Iterates(f, S, a, step) ==
    f \in [Nat -> S] /\ f[0] = a /\ \A i \in Nat \ {0} : f[i] = step[i][f[i - 1]]

\* A function is defined by its value at 0 and how each value follows from the
\* one before.
LEMMA Recursion ==
    ASSUME NEW S, NEW a \in S, NEW step \in [Nat -> [S -> S]]
    PROVE  \E f : Iterates(f, S, a, step)
<1> DEFINE G(m, f) == /\ f \in [0..m -> S] /\ f[0] = a
                      /\ \A i \in 1..m : f[i] = step[i][f[i - 1]]
           E == {m \in Nat : \E f : G(m, f)}
<1>1. E = Nat
  <2>1. 0 \in E
    <3>1. G(0, [i \in 0..0 |-> a])
      OBVIOUS
    <3> QED
      BY <3>1
  <2>2. ASSUME NEW m \in E
        PROVE  m + 1 \in E
    <3>1. PICK f : G(m, f)
      OBVIOUS
    <3> DEFINE g == [i \in 0..m + 1 |-> IF i = m + 1 THEN step[m + 1][f[m]] ELSE f[i]]
    <3>2. m \in Nat /\ m \in 0..m /\ f[m] \in S
      BY <3>1
    <3>3. step[m + 1][f[m]] \in S
      BY <3>2
    <3>4. g \in [0..m + 1 -> S]
      BY <3>1, <3>2, <3>3
    <3>5. g[0] = a
      BY <3>1, <3>2
    <3>6. ASSUME NEW i \in 1..m + 1
          PROVE  g[i] = step[i][g[i - 1]]
      <4>1. CASE i = m + 1
        <5>1. m # m + 1 /\ m \in 0..m + 1 /\ i - 1 = m /\ i \in 0..m + 1
          BY <3>2, <4>1
        <5> QED
          BY <4>1, <5>1
      <4>2. CASE i # m + 1
        <5>1. i \in 1..m /\ i \in 0..m + 1 /\ i - 1 \in 0..m + 1 /\ i - 1 # m + 1
          BY <3>2, <4>2
        <5> QED
          BY <3>1, <4>2, <5>1
      <4> QED
        BY <4>1, <4>2
    <3> HIDE DEF g
    <3>7. G(m + 1, g)
      BY <3>4, <3>5, <3>6
    <3> QED
      BY <3>2, <3>7
  <2> HIDE DEF E
  <2>3. E \in SUBSET Nat
    BY DEF E
  <2> QED
    BY <2>1, <2>2, <2>3, Numbers
<1>2. ASSUME NEW m \in Nat, NEW n \in Nat, NEW f, NEW g, G(m, f), G(n, g)
      PROVE  \A i \in Nat : i <= m /\ i <= n => f[i] = g[i]
  <2> DEFINE A == {i \in Nat : i <= m /\ i <= n => f[i] = g[i]}
  <2>1. 0 \in A
    BY <1>2
  <2>2. ASSUME NEW i \in A
        PROVE  i + 1 \in A
    <3> SUFFICES ASSUME i + 1 <= m, i + 1 <= n
                 PROVE  f[i + 1] = g[i + 1]
      OBVIOUS
    <3>1. i + 1 \in 1..m /\ i + 1 \in 1..n /\ (i + 1) - 1 = i /\ f[i] = g[i]
      OBVIOUS
    <3>2. f[i + 1] = step[i + 1][f[i]]
      BY <1>2, <3>1
    <3>3. g[i + 1] = step[i + 1][g[i]]
      BY <1>2, <3>1
    <3> QED
      BY <3>1, <3>2, <3>3
  <2> HIDE DEF A
  <2>3. A \in SUBSET Nat
    BY DEF A
  <2>4. A = Nat
    BY <2>1, <2>2, <2>3, Numbers
  <2> QED
    BY <2>4 DEF A
<1> DEFINE ch == [m \in Nat |-> CHOOSE f : G(m, f)]
<1>3. \A m \in Nat : G(m, ch[m])
  BY <1>1
<1> HIDE DEF ch
<1> DEFINE h == [m \in Nat |-> ch[m][m]]
<1>4. h \in [Nat -> S]
  BY <1>3
<1>5. h[0] = a
  BY <1>3
<1>6. ASSUME NEW i \in Nat, i # 0
      PROVE  h[i] = step[i][h[i - 1]]
  <2>1. i - 1 \in Nat /\ i \in 1..i /\ i - 1 <= i /\ i - 1 <= i - 1
    BY <1>6
  <2>2. G(i, ch[i]) /\ G(i - 1, ch[i - 1])
    BY <1>3, <2>1
  <2> HIDE DEF G
  <2>3. ch[i][i - 1] = ch[i - 1][i - 1]
    BY <1>2, <2>1, <2>2
  <2> USE DEF G
  <2>4. ch[i][i] = step[i][ch[i][i - 1]]
    BY <2>1, <2>2
  <2> QED
    BY <2>1, <2>3, <2>4
<1>7. Iterates(h, S, a, step)
  BY <1>4, <1>5, <1>6 DEF Iterates
<1> QED
  BY <1>7


-----------------------------------------------------------------------------
\* Sequences, and what Only() takes of them.

\* A set of sequences that has the empty one and with each sequence all that are
\* longer by one is all of Seq.
LEMMA Sequences ==
    ASSUME NEW A, NEW P \in SUBSET Seq(A), <<>> \in P,
           \A s \in P : \A x \in A : Append(s, x) \in P
    PROVE  P = Seq(A)
<1> DEFINE N == {n \in Nat : \A s \in Seq(A) : Len(s) = n => s \in P}
<1>1. 0 \in N
  BY EmptySeq
<1>2. ASSUME NEW n \in N PROVE n + 1 \in N
  <2> SUFFICES ASSUME NEW s \in Seq(A), Len(s) = n + 1 PROVE s \in P
    OBVIOUS
  <2>1. s # <<>>
    BY EmptySeq
  <2>2. PICK t \in Seq(A), x \in A : s = Append(t, x)
    BY <2>1, SequenceEmptyOrAppend
  <2>3. Len(t) \in Nat /\ Len(s) = Len(t) + 1
    BY <2>2, AppendProperties, LenProperties
  <2>4. t \in P
    BY <2>3
  <2> QED
    BY <2>2, <2>4
<1> HIDE DEF N
<1>3. N = Nat
  <2>1. N \in SUBSET Nat
    BY DEF N
  <2> QED
    BY <1>1, <1>2, <2>1, Numbers
<1>4. ASSUME NEW s \in Seq(A) PROVE s \in P
  <2>1. Len(s) \in N
    BY <1>3, LenProperties
  <2> QED
    BY <2>1 DEF N
<1> QED
  BY <1>4

\* The sequences that Only() takes the last of.
Takes(f, S, q) ==
    /\ f[0] = <<>>
    /\ \A n \in Nat \ {0} : f[n] = IF q[n] \in S THEN Append(f[n - 1], q[n]) ELSE f[n - 1]

LEMMA OnlyTakes ==
    ASSUME NEW S, NEW q
    PROVE  \E f : Takes(f, S, q) /\ Only(S, q) = f[Len(q)]
<1> DEFINE A == {q[n] : n \in Nat}
           Eq(f) == f = [n \in Nat |-> IF n = 0 THEN <<>>
                           ELSE IF q[n] \in S THEN Append(f[n - 1], q[n]) ELSE f[n - 1]]
           g == CHOOSE f : Eq(f)
<1> PICK step : step = [n \in Nat |-> [s \in Seq(A) |-> IF q[n] \in S THEN Append(s, q[n]) ELSE s]]
  OBVIOUS
<1>1. step \in [Nat -> [Seq(A) -> Seq(A)]]
  <2>1. \A n \in Nat : q[n] \in A
    OBVIOUS
  <2> HIDE DEF A
  <2>2. \A n \in Nat : \A s \in Seq(A) : Append(s, q[n]) \in Seq(A)
    BY <2>1, AppendProperties
  <2> QED
    BY <2>2
<1>2. <<>> \in Seq(A)
  BY EmptySeq
<1> HIDE DEF A
<1>3. PICK f : Iterates(f, Seq(A), <<>>, step)
  BY <1>1, <1>2, Recursion
<1>4. \A n \in Nat \ {0} : n - 1 \in Nat /\ f[n - 1] \in Seq(A)
  BY <1>3 DEF Iterates
<1>5. Eq(f)
  BY <1>3, <1>4 DEF Iterates
<1>6. Eq(g)
  BY <1>5
<1>7. Only(S, q) = g[Len(q)]
  BY DEF Only
<1> HIDE DEF g
<1>8. Takes(g, S, q)
  BY <1>6 DEF Takes
<1> QED
  BY <1>7, <1>8

LEMMA OnlyEmpty == \A S : Only(S, <<>>) = <<>>
<1> TAKE S
<1>1. PICK f : Takes(f, S, <<>>) /\ Only(S, <<>>) = f[Len(<<>>)]
  BY OnlyTakes
<1>2. Len(<<>>) = 0
  BY EmptySeq
<1> QED
  BY <1>1, <1>2 DEF Takes

LEMMA OnlyAppend ==
    ASSUME NEW S, NEW A, NEW q \in Seq(A), NEW x \in A
    PROVE  Only(S, Append(q, x)) = IF x \in S THEN Append(Only(S, q), x) ELSE Only(S, q)
<1> DEFINE r == Append(q, x)
<1>1. /\ r \in Seq(A) /\ Len(q) \in Nat /\ Len(r) = Len(q) + 1 /\ r[Len(q) + 1] = x
      /\ \A i \in 1..Len(q) : r[i] = q[i]
  BY AppendProperties, LenProperties
<1>2. PICK f : Takes(f, S, q) /\ Only(S, q) = f[Len(q)]
  BY OnlyTakes
<1>3. PICK g : Takes(g, S, r) /\ Only(S, r) = g[Len(r)]
  BY OnlyTakes
<1> HIDE DEF r
<1> DEFINE N == {i \in Nat : i <= Len(q) => f[i] = g[i]}
<1>4. 0 \in N
  BY <1>2, <1>3 DEF Takes
<1>5. ASSUME NEW i \in N PROVE i + 1 \in N
  <2> SUFFICES ASSUME i + 1 <= Len(q) PROVE f[i + 1] = g[i + 1]
    OBVIOUS
  <2>1. i + 1 \in Nat \ {0} /\ (i + 1) - 1 = i /\ f[i] = g[i] /\ r[i + 1] = q[i + 1]
    BY <1>1
  <2>2. f[i + 1] = IF q[i + 1] \in S THEN Append(f[i], q[i + 1]) ELSE f[i]
    BY <1>2, <2>1 DEF Takes
  <2>3. g[i + 1] = IF q[i + 1] \in S THEN Append(g[i], q[i + 1]) ELSE g[i]
    BY <1>3, <2>1 DEF Takes
  <2> QED
    BY <2>1, <2>2, <2>3
<1> HIDE DEF N
<1>6. N = Nat
  <2>1. N \in SUBSET Nat
    BY DEF N
  <2> QED
    BY <1>4, <1>5, <2>1, Numbers
<1>7. f[Len(q)] = g[Len(q)]
  BY <1>1, <1>6 DEF N
<1>8. Len(q) + 1 \in Nat \ {0} /\ (Len(q) + 1) - 1 = Len(q)
  BY <1>1
<1>9. g[Len(q) + 1] = IF x \in S THEN Append(g[Len(q)], x) ELSE g[Len(q)]
  BY <1>1, <1>3, <1>8 DEF Takes
<1> QED
  BY <1>1, <1>2, <1>3, <1>7, <1>9 DEF r

LEMMA OnlyType ==
    ASSUME NEW S, NEW A, NEW q \in Seq(A)
    PROVE  Only(S, q) \in Seq(A \cap S)
<1> DEFINE P == {s \in Seq(A) : Only(S, s) \in Seq(A \cap S)}
<1>1. <<>> \in P
  BY OnlyEmpty, EmptySeq
<1>2. ASSUME NEW s \in P, NEW x \in A PROVE Append(s, x) \in P
  <2>1. s \in Seq(A) /\ Only(S, s) \in Seq(A \cap S) /\ Append(s, x) \in Seq(A)
    BY AppendProperties
  <2>2. x \in S => Append(Only(S, s), x) \in Seq(A \cap S)
    BY <2>1, AppendProperties
  <2>3. Only(S, Append(s, x)) = IF x \in S THEN Append(Only(S, s), x) ELSE Only(S, s)
    BY <2>1, OnlyAppend
  <2> QED
    BY <2>1, <2>2, <2>3
<1>3. P \in SUBSET Seq(A)
  OBVIOUS
<1> HIDE DEF P
<1>4. P = Seq(A)
  BY <1>1, <1>2, <1>3, Sequences
<1> QED
  BY <1>4 DEF P

LEMMA OnlyNone ==
    ASSUME NEW S, NEW A, NEW q \in Seq(A), A \cap S = {}
    PROVE  Only(S, q) = <<>>
<1>1. Only(S, q) \in Seq({})
  BY OnlyType
<1> SUFFICES ASSUME Only(S, q) # <<>> PROVE FALSE
  OBVIOUS
<1>2. Head(Only(S, q)) \in {}
  BY <1>1, HeadTailProperties
<1> QED
  BY <1>2

LEMMA OnlyAll ==
    ASSUME NEW S, NEW A, NEW q \in Seq(A), A \subseteq S
    PROVE  Only(S, q) = q
<1> DEFINE P == {s \in Seq(A) : Only(S, s) = s}
<1>1. <<>> \in P
  BY OnlyEmpty, EmptySeq
<1>2. ASSUME NEW s \in P, NEW x \in A PROVE Append(s, x) \in P
  <2>1. s \in Seq(A) /\ Only(S, s) = s /\ Append(s, x) \in Seq(A) /\ x \in S
    BY AppendProperties
  <2>2. Only(S, Append(s, x)) = Append(s, x)
    BY <2>1, OnlyAppend
  <2> QED
    BY <2>1, <2>2
<1>3. P \in SUBSET Seq(A)
  OBVIOUS
<1> HIDE DEF P
<1>4. P = Seq(A)
  BY <1>1, <1>2, <1>3, Sequences
<1> QED
  BY <1>4 DEF P

LEMMA AppendLast ==
    ASSUME NEW A, NEW s \in Seq(A), NEW t \in Seq(A), NEW x \in A
    PROVE  s \o Append(t, x) = Append(s \o t, x)
<1>1. <<x>> \in Seq(A)
  OBVIOUS
<1>2. s \o t \in Seq(A)
  BY ConcatProperties
<1>3. Append(t, x) = t \o <<x>> /\ Append(s \o t, x) = (s \o t) \o <<x>>
  BY <1>2, AppendIsConcat
<1> QED
  BY <1>1, <1>3, ConcatAssociative

LEMMA OnlyConcat ==
    ASSUME NEW S, NEW A, NEW s \in Seq(A), NEW t \in Seq(A)
    PROVE  Only(S, s \o t) = Only(S, s) \o Only(S, t)
<1> DEFINE P == {r \in Seq(A) : Only(S, s \o r) = Only(S, s) \o Only(S, r)}
<1>0. \A q \in Seq(A) : Only(S, q) \in Seq(A \cap S)
  BY OnlyType
<1>1. <<>> \in P
  <2>1. s \o <<>> = s /\ Only(S, s) \o <<>> = Only(S, s)
    BY <1>0, ConcatEmptySeq
  <2> QED
    BY <2>1, OnlyEmpty, EmptySeq
<1>2. ASSUME NEW r \in P, NEW x \in A PROVE Append(r, x) \in P
  <2>1. /\ r \in Seq(A) /\ Append(r, x) \in Seq(A) /\ s \o r \in Seq(A)
        /\ Only(S, s \o r) = Only(S, s) \o Only(S, r)
        /\ s \o Append(r, x) = Append(s \o r, x)
    <3>1. r \in Seq(A) /\ Only(S, s \o r) = Only(S, s) \o Only(S, r)
      OBVIOUS
    <3> HIDE DEF P
    <3>2. Append(r, x) \in Seq(A) /\ s \o r \in Seq(A)
      BY <3>1, AppendProperties, ConcatProperties
    <3>3. s \o Append(r, x) = Append(s \o r, x)
      BY <3>1, AppendLast
    <3> QED
      BY <3>1, <3>2, <3>3
  <2>2. Only(S, Append(s \o r, x)) =
          IF x \in S THEN Append(Only(S, s \o r), x) ELSE Only(S, s \o r)
    <3> PICK q \in Seq(A) : q = s \o r
      BY <2>1
    <3>0. q \in Seq(A) /\ x \in A
      OBVIOUS
    <3>1. Only(S, Append(q, x)) = IF x \in S THEN Append(Only(S, q), x) ELSE Only(S, q)
      BY ONLY <3>0, OnlyAppend
    <3> QED
      BY <3>1
  <2>3. Only(S, Append(r, x)) = IF x \in S THEN Append(Only(S, r), x) ELSE Only(S, r)
    BY <2>1, OnlyAppend
  <2>4. x \in S => Only(S, s) \o Append(Only(S, r), x) = Append(Only(S, s) \o Only(S, r), x)
    BY <1>0, <2>1, AppendLast
  <2>5. Only(S, s \o Append(r, x)) = Only(S, s) \o Only(S, Append(r, x))
    BY ONLY <2>1, <2>2, <2>3, <2>4
  <2> QED
    BY <2>1, <2>5
<1>3. P \in SUBSET Seq(A)
  OBVIOUS
<1> HIDE DEF P
<1>4. P = Seq(A)
  BY <1>1, <1>2, <1>3, Sequences
<1> QED
  BY <1>4 DEF P

LEMMA RangeOfAppend ==
    ASSUME NEW A, NEW q \in Seq(A), NEW x \in A
    PROVE  Range(Append(q, x)) = Range(q) \cup {x}
<1>1. q \in Seq(A) /\ <<x>> \in Seq(A)
  OBVIOUS
<1>2. Append(q, x) = q \o <<x>>
  BY AppendIsConcat
<1>3. Range(<<x>>) = {x}
  BY DEF Range
<1>4. Range(q \o <<x>>) = Range(q) \cup Range(<<x>>)
  BY ONLY <1>1, RangeConcatenation, ZenonT(40)
<1> QED
  BY <1>2, <1>3, <1>4

LEMMA OnlyRange ==
    ASSUME NEW S, NEW A, NEW q \in Seq(A)
    PROVE  Range(Only(S, q)) = Range(q) \cap S
<1> DEFINE P == {s \in Seq(A) : Range(Only(S, s)) = Range(s) \cap S}
<1>1. <<>> \in P
  <2>1. Range(<<>>) = {}
    BY DEF Range
  <2> QED
    BY <2>1, OnlyEmpty, EmptySeq
<1>2. ASSUME NEW s \in P, NEW x \in A PROVE Append(s, x) \in P
  <2>1. /\ s \in Seq(A) /\ Range(Only(S, s)) = Range(s) \cap S /\ Append(s, x) \in Seq(A)
        /\ Only(S, s) \in Seq(A \cap S)
    BY AppendProperties, OnlyType
  <2>2. Only(S, Append(s, x)) = IF x \in S THEN Append(Only(S, s), x) ELSE Only(S, s)
    BY <2>1, OnlyAppend
  <2>3. Range(Append(s, x)) = Range(s) \cup {x}
    BY <2>1, RangeOfAppend
  <2>4. x \in S => Range(Append(Only(S, s), x)) = Range(Only(S, s)) \cup {x}
    BY <2>1, RangeOfAppend
  <2>5. Range(Only(S, Append(s, x))) = Range(Append(s, x)) \cap S
    BY <2>1, <2>2, <2>3, <2>4
  <2> QED
    BY <2>1, <2>5
<1>3. P \in SUBSET Seq(A)
  OBVIOUS
<1> HIDE DEF P
<1>4. P = Seq(A)
  BY <1>1, <1>2, <1>3, Sequences
<1> QED
  BY <1>4 DEF P

\* Each element once.
Distinct(q) == \A i, j \in DOMAIN q : q[i] = q[j] => i = j

LEMMA DistinctAppend ==
    ASSUME NEW A, NEW q \in Seq(A), NEW x \in A
    PROVE  Distinct(Append(q, x)) <=> Distinct(q) /\ x \notin Range(q)
<1> DEFINE r == Append(q, x)
<1>1. /\ r \in Seq(A) /\ Len(q) \in Nat /\ Len(r) = Len(q) + 1 /\ r[Len(q) + 1] = x
      /\ \A i \in 1..Len(q) : r[i] = q[i]
      /\ DOMAIN r = 1..Len(r) /\ DOMAIN q = 1..Len(q)
  BY AppendProperties, LenProperties
<1> HIDE DEF r
<1>2. ASSUME Distinct(r) PROVE Distinct(q) /\ x \notin Range(q)
  <2>1. \A i \in DOMAIN q : i \in DOMAIN r /\ r[i] = q[i] /\ i # Len(q) + 1
    BY <1>1
  <2>2. Len(q) + 1 \in DOMAIN r
    BY <1>1
  <2> QED
    BY <1>1, <1>2, <2>1, <2>2 DEF Distinct, Range
<1>3. ASSUME Distinct(q), x \notin Range(q) PROVE Distinct(r)
  <2>1. ASSUME NEW i \in DOMAIN r, i # Len(q) + 1 PROVE i \in DOMAIN q /\ r[i] = q[i] /\ r[i] # x
    BY <1>1, <1>3, <2>1 DEF Range
  <2> SUFFICES ASSUME NEW i \in DOMAIN r, NEW j \in DOMAIN r, r[i] = r[j] PROVE i = j
    BY DEF Distinct
  <2> QED
    BY <1>1, <1>3, <2>1 DEF Distinct
<1> QED
  BY <1>2, <1>3 DEF r

LEMMA OnlyDistinct ==
    ASSUME NEW S, NEW A, NEW q \in Seq(A), Distinct(q)
    PROVE  Distinct(Only(S, q))
<1> DEFINE P == {s \in Seq(A) : Distinct(s) => Distinct(Only(S, s))}
<1>1. <<>> \in P
  <2>1. Distinct(<<>>)
    BY DEF Distinct
  <2> QED
    BY <2>1, OnlyEmpty, EmptySeq
<1>2. ASSUME NEW s \in P, NEW x \in A PROVE Append(s, x) \in P
  <2>1. /\ s \in Seq(A) /\ Append(s, x) \in Seq(A)
        /\ Only(S, s) \in Seq(A) /\ Range(Only(S, s)) = Range(s) \cap S
    <3>1. Only(S, s) \in Seq(A \cap S) /\ A \cap S \subseteq A
      BY OnlyType
    <3>2. Only(S, s) \in Seq(A)
      BY <3>1, SeqMonotonic
    <3> QED
      BY <3>2, OnlyRange, AppendProperties
  <2>2. Only(S, Append(s, x)) = IF x \in S THEN Append(Only(S, s), x) ELSE Only(S, s)
    BY <2>1, OnlyAppend
  <2>3. Distinct(Append(s, x)) <=> Distinct(s) /\ x \notin Range(s)
    BY <2>1, DistinctAppend
  <2>4. Distinct(Append(Only(S, s), x)) <=> Distinct(Only(S, s)) /\ x \notin Range(Only(S, s))
    BY <2>1, DistinctAppend
  <2> QED
    BY <2>1, <2>2, <2>3, <2>4
<1>3. P \in SUBSET Seq(A)
  OBVIOUS
<1> HIDE DEF P
<1>4. P = Seq(A)
  BY <1>1, <1>2, <1>3, Sequences
<1> QED
  BY <1>4 DEF P

\* What FlattenSeq() joins.
Joins(h, A, n, ss) ==
    /\ h \in [Nat -> Seq(A)] /\ h[0] = <<>>
    /\ \A i \in 1..n : h[i] = h[i - 1] \o ss[i]

LEMMA FlattenParts ==
    ASSUME NEW A, NEW n \in Nat, NEW ss \in [1..n -> Seq(A)]
    PROVE  \E h : Joins(h, A, n, ss) /\ FlattenSeq(ss) = h[n]
<1>0. ss \in Seq(Seq(A)) /\ Len(ss) = n
  BY LenProperties
<1> PICK step : step = [i \in Nat |-> [s \in Seq(A) |-> IF i \in 1..n THEN s \o ss[i] ELSE s]]
  OBVIOUS
<1>1. step \in [Nat -> [Seq(A) -> Seq(A)]]
  <2>1. \A i \in 1..n : \A s \in Seq(A) : s \o ss[i] \in Seq(A)
    BY ConcatProperties
  <2> QED
    BY <2>1
<1>2. PICK h : Iterates(h, Seq(A), <<>>, step)
  BY <1>1, Recursion, EmptySeq
<1>3. /\ h \in [Nat -> Seq(A)] /\ h[0] = <<>>
      /\ \A i \in 1..n : h[i] = h[i - 1] \o ss[i]
  <2>1. h \in [Nat -> Seq(A)] /\ h[0] = <<>>
    BY <1>2 DEF Iterates
  <2>2. ASSUME NEW i \in 1..n PROVE h[i] = h[i - 1] \o ss[i]
    <3>1. i \in Nat /\ i \in Nat \ {0} /\ i - 1 \in Nat
      OBVIOUS
    <3>2. h[i - 1] \in Seq(A) /\ h[i] = step[i][h[i - 1]]
      BY <1>2, <2>1, <3>1 DEF Iterates
    <3> QED
      BY <3>1, <3>2
  <2> QED
    BY <2>1, <2>2
<1>4. CASE n = 0
  <2>1. ss = <<>>
    BY <1>0, <1>4, SeqEqual, EmptySeq
  <2> QED
    BY <1>0, <1>3, <1>4, <2>1 DEF FlattenSeq, Joins
<1>5. CASE n # 0
  <2> DEFINE Eq(f) == f = [i \in 1..n |-> IF i = 1 THEN ss[i] ELSE f[i - 1] \o ss[i]]
             g == CHOOSE f : Eq(f)
             k == [i \in 1..n |-> h[i]]
  <2>1. Eq(k)
    <3>1. ASSUME NEW i \in 1..n PROVE h[i] = IF i = 1 THEN ss[i] ELSE k[i - 1] \o ss[i]
      <4>1. CASE i = 1
        <5>1. h[1] = <<>> \o ss[1] /\ ss[1] \in Seq(A)
          <6>1. 1 \in 1..n /\ 1 - 1 = 0
            BY <4>1
          <6> QED
            BY <1>3, <6>1
        <5> QED
          BY <4>1, <5>1, ConcatEmptySeq
      <4>2. CASE i # 1
        <5>1. i - 1 \in 1..n
          BY <4>2
        <5> QED
          BY <1>3, <4>2, <5>1
      <4> QED
        BY <4>1, <4>2
    <3> QED
      BY <3>1
  <2>2. Eq(g)
    BY <2>1
  <2>3. FlattenSeq(ss) = g[n]
    BY <1>0, <1>5 DEF FlattenSeq
  <2> HIDE DEF g
  <2> DEFINE N == {i \in Nat : i + 1 <= n => g[i + 1] = h[i + 1]}
  <2>4. 0 \in N
    <3> SUFFICES ASSUME 1 <= n PROVE g[1] = h[1]
      OBVIOUS
    <3>1. h[1] = <<>> \o ss[1] /\ ss[1] \in Seq(A)
      <4>1. 1 \in 1..n /\ 1 - 1 = 0
        OBVIOUS
      <4> QED
        BY <1>3, <4>1
    <3> QED
      BY <2>2, <3>1, ConcatEmptySeq
  <2>5. ASSUME NEW i \in N PROVE i + 1 \in N
    <3> SUFFICES ASSUME i + 2 <= n PROVE g[i + 2] = h[i + 2]
      OBVIOUS
    <3>1. i + 2 \in 1..n /\ i + 2 # 1 /\ (i + 2) - 1 = i + 1 /\ g[i + 1] = h[i + 1]
      OBVIOUS
    <3>2. g[i + 2] = g[i + 1] \o ss[i + 2]
      BY <2>2, <3>1
    <3> QED
      BY <1>3, <3>1, <3>2
  <2> HIDE DEF N
  <2>6. N = Nat
    <3>1. N \in SUBSET Nat
      BY DEF N
    <3> QED
      BY <2>4, <2>5, <3>1, Numbers
  <2>7. n - 1 \in N /\ (n - 1) + 1 = n
    BY <1>5, <2>6
  <2>8. g[n] = h[n]
    BY <2>7 DEF N
  <2> QED
    BY <1>3, <2>3, <2>8 DEF Joins
<1> QED
  BY <1>4, <1>5

LEMMA FlattenOnly ==
    ASSUME NEW S, NEW A, NEW n \in Nat, NEW ss \in [1..n -> Seq(A)], NEW k \in Nat \ {0},
           \A i \in 1..n : i # k => Only(S, ss[i]) = <<>>
    PROVE  /\ FlattenSeq(ss) \in Seq(A)
           /\ Only(S, FlattenSeq(ss)) = IF k <= n THEN Only(S, ss[k]) ELSE <<>>
<1>1. PICK h : Joins(h, A, n, ss) /\ FlattenSeq(ss) = h[n]
  BY FlattenParts
<1> DEFINE taken(i) == IF k <= i THEN Only(S, ss[k]) ELSE <<>>
           N == {i \in Nat : i <= n => Only(S, h[i]) = taken(i)}
<1>2. 0 \in N
  BY <1>1, OnlyEmpty DEF Joins
<1>3. ASSUME NEW i \in N PROVE i + 1 \in N
  <2> SUFFICES ASSUME i + 1 <= n PROVE Only(S, h[i + 1]) = taken(i + 1)
    OBVIOUS
  <2>1. i \in Nat /\ Only(S, h[i]) = taken(i)
    OBVIOUS
  <2> HIDE DEF N
  <2>2. i + 1 \in 1..n /\ (i + 1) - 1 = i
    BY <2>1
  <2>3. h[i] \in Seq(A) /\ ss[i + 1] \in Seq(A) /\ h[i + 1] = h[i] \o ss[i + 1]
    BY <1>1, <2>1, <2>2 DEF Joins
  <2> HIDE DEF taken
  <2>4. Only(S, h[i + 1]) = Only(S, h[i]) \o Only(S, ss[i + 1])
    BY <2>3, OnlyConcat
  <2>5. Only(S, h[i]) \in Seq(A \cap S) /\ Only(S, ss[i + 1]) \in Seq(A \cap S)
    BY <2>3, OnlyType
  <2>6. /\ Only(S, h[i]) \o <<>> = Only(S, h[i])
        /\ <<>> \o Only(S, ss[i + 1]) = Only(S, ss[i + 1])
    BY <2>5, ConcatEmptySeq
  <2>7. CASE k = i + 1
    <3>1. taken(i) = <<>> /\ taken(i + 1) = Only(S, ss[i + 1])
      BY <2>1, <2>7 DEF taken
    <3> QED
      BY <2>1, <2>4, <2>6, <3>1
  <2>8. CASE k # i + 1
    <3>1. Only(S, ss[i + 1]) = <<>> /\ taken(i + 1) = taken(i)
      BY <2>1, <2>2, <2>8 DEF taken
    <3> QED
      BY <2>1, <2>4, <2>6, <3>1
  <2> QED
    BY <2>7, <2>8
<1> HIDE DEF N
<1>4. N = Nat
  <2>1. N \in SUBSET Nat
    BY DEF N
  <2> QED
    BY <1>2, <1>3, <2>1, Numbers
<1>5. n \in N
  BY <1>4
<1>6. Only(S, h[n]) = taken(n)
  BY <1>5 DEF N
<1>7. h[n] \in Seq(A)
  BY <1>1 DEF Joins
<1> QED
  BY <1>1, <1>6, <1>7

\* What comes after a while.
LEMMA AfterAll ==
    ASSUME NEW A, NEW q \in Seq(A) PROVE After(q, Len(q)) = <<>>
<1>1. Len(q) + 1 \in Int /\ Len(q) \in Int /\ Len(q) < Len(q) + 1
  BY LenProperties
<1> QED
  BY <1>1, SubSeqEmpty DEF After

LEMMA AfterConcat ==
    ASSUME NEW A, NEW q \in Seq(A), NEW r \in Seq(A), NEW n \in Nat, n <= Len(q)
    PROVE  /\ After(q \o r, n) = After(q, n) \o r
           /\ After(q, n) \in Seq(A)
<1>1. /\ q \o r \in Seq(A) /\ Len(q) \in Nat /\ Len(r) \in Nat /\ Len(q \o r) = Len(q) + Len(r)
      /\ \A i \in 1 .. Len(q) + Len(r) : (q \o r)[i] = IF i <= Len(q) THEN q[i] ELSE r[i - Len(q)]
      /\ \A i \in 1..Len(q) : q[i] \in A
      /\ \A i \in 1..Len(r) : r[i] \in A
  BY ConcatProperties, LenProperties, ElementOfSeq
<1> DEFINE a == SubSeq(q, n + 1, Len(q))
           b == SubSeq(q \o r, n + 1, Len(q) + Len(r))
<1>2. /\ a \in Seq(A) /\ Len(a) = Len(q) - n
      /\ \A i \in 1..Len(q) - n : a[i] = q[n + i]
  <2>1. \A i \in n + 1..Len(q) : q[i] \in A
    BY <1>1
  <2>2. /\ a \in Seq(A) /\ Len(a) = IF n + 1 <= Len(q) THEN (Len(q) - (n + 1)) + 1 ELSE 0
        /\ \A i \in 1..(Len(q) - (n + 1)) + 1 : a[i] = q[((n + 1) + i) - 1]
    BY <1>1, <2>1, SubSeqProperties
  <2> HIDE DEF a
  <2>3. \A i \in 1..Len(q) - n : i \in 1..(Len(q) - (n + 1)) + 1 /\ ((n + 1) + i) - 1 = n + i
    BY <1>1
  <2>4. Len(a) = Len(q) - n
    BY <1>1, <2>2
  <2>5. \A i \in 1..Len(q) - n : a[i] = q[n + i]
    BY <2>2, <2>3
  <2> QED
    BY <2>2, <2>4, <2>5
<1>3. /\ b \in Seq(A) /\ Len(b) = Len(q) + Len(r) - n
      /\ \A i \in 1..Len(q) + Len(r) - n : b[i] = (q \o r)[n + i]
  <2> DEFINE m == Len(q) + Len(r)
  <2>1. \A i \in n + 1..m : (q \o r)[i] \in A
    BY <1>1, ElementOfSeq
  <2>2. /\ b \in Seq(A) /\ Len(b) = IF n + 1 <= m THEN (m - (n + 1)) + 1 ELSE 0
        /\ \A i \in 1..(m - (n + 1)) + 1 : b[i] = (q \o r)[((n + 1) + i) - 1]
    BY <1>1, <2>1, SubSeqProperties
  <2> HIDE DEF b
  <2>3. m \in Nat /\ n <= m
    BY <1>1
  <2> HIDE DEF m
  <2>4. \A i \in 1..m - n : i \in 1..(m - (n + 1)) + 1 /\ ((n + 1) + i) - 1 = n + i
    BY <2>3
  <2>5. Len(b) = m - n
    BY <2>2, <2>3
  <2>6. \A i \in 1..m - n : b[i] = (q \o r)[n + i]
    BY <2>2, <2>4
  <2> QED
    BY <2>2, <2>5, <2>6 DEF m
<1> HIDE DEF a, b
<1>4. /\ a \o r \in Seq(A) /\ Len(a \o r) = Len(a) + Len(r)
      /\ \A i \in 1 .. Len(a) + Len(r) : (a \o r)[i] = IF i <= Len(a) THEN a[i] ELSE r[i - Len(a)]
  BY <1>2, ConcatProperties
<1>5. ASSUME NEW i \in 1..Len(b) PROVE b[i] = (a \o r)[i]
  <2>1. /\ i \in 1..Len(q) + Len(r) - n /\ n + i \in 1..Len(q) + Len(r) /\ i \in 1..Len(a) + Len(r)
        /\ i \in Nat
    BY <1>1, <1>2, <1>3
  <2>2. CASE i <= Len(q) - n
    <3>1. i \in 1..Len(q) - n /\ n + i <= Len(q) /\ i <= Len(a)
      BY <1>1, <1>2, <2>1, <2>2
    <3> QED
      BY <1>1, <1>2, <1>3, <1>4, <2>1, <3>1
  <2>3. CASE ~(i <= Len(q) - n)
    <3>1. ~(n + i <= Len(q)) /\ ~(i <= Len(a)) /\ (n + i) - Len(q) = i - Len(a)
      BY <1>1, <1>2, <2>1, <2>3
    <3> QED
      BY <1>1, <1>3, <1>4, <2>1, <3>1
  <2> QED
    BY <2>2, <2>3
<1>6. Len(b) = Len(a \o r)
  BY <1>1, <1>2, <1>3, <1>4
<1>7. b = a \o r
  BY <1>3, <1>4, <1>5, <1>6, SeqEqual
<1> QED
  BY <1>1, <1>2, <1>7 DEF After, a, b

LEMMA PrefixConcat ==
    ASSUME NEW A, NEW s \in Seq(A), NEW t \in Seq(A), NEW r \in Seq(A), IsPrefix(s, t)
    PROVE  IsPrefix(s, t \o r)
<1>1. /\ Len(s) \in Nat /\ Len(t) \in Nat /\ Len(r) \in Nat /\ Len(s) <= Len(t)
      /\ SubSeq(s, 1, Len(s)) = SubSeq(t, 1, Len(s)) /\ Len(t \o r) = Len(t) + Len(r)
  BY LenProperties, ConcatProperties DEF IsPrefix
<1>2. SubSeq(t \o r, 1, Len(s)) = SubSeq(t, 1, Len(s))
  <2>1. CASE Len(s) = 0
    <3>1. SubSeq(t \o r, 1, 0) = <<>> /\ SubSeq(t, 1, 0) = <<>>
      BY SubSeqEmpty
    <3> QED
      BY <2>1, <3>1
  <2>2. CASE Len(s) # 0
    <3>1. 1 \in 1..Len(t) /\ Len(s) \in 1..Len(t)
      BY <1>1, <2>2
    <3> QED
      BY <3>1, SubSeqOfConcat1
  <2> QED
    BY <2>1, <2>2
<1> QED
  BY <1>1, <1>2 DEF IsPrefix

LEMMA PrefixSelf ==
    ASSUME NEW A, NEW s \in Seq(A) PROVE IsPrefix(s, s)
BY LenProperties DEF IsPrefix

LEMMA PrefixThrough ==
    ASSUME NEW A, NEW s \in Seq(A), NEW t \in Seq(A), NEW r \in Seq(A), IsPrefix(s, t), IsPrefix(t, r)
    PROVE  IsPrefix(s, r)
<1>1. /\ Len(s) \in Nat /\ Len(t) \in Nat /\ Len(r) \in Nat /\ Len(s) <= Len(t) /\ Len(t) <= Len(r)
      /\ SubSeq(s, 1, Len(s)) = SubSeq(t, 1, Len(s)) /\ SubSeq(t, 1, Len(t)) = SubSeq(r, 1, Len(t))
  BY LenProperties DEF IsPrefix
<1>2. SubSeq(t, 1, Len(s)) = SubSeq(r, 1, Len(s))
  <2>1. CASE Len(s) = 0
    <3>1. SubSeq(r, 1, 0) = <<>> /\ SubSeq(t, 1, 0) = <<>>
      BY SubSeqEmpty
    <3> QED
      BY <2>1, <3>1
  <2>2. CASE Len(s) # 0
    <3>1. 1 \in 1..Len(t) /\ Len(t) \in 1..Len(t) /\ 1 \in 1..Len(r) /\ Len(t) \in 1..Len(r)
          /\ 1 \in 1..Len(t) - 1 + 1 /\ Len(s) \in 1..Len(t) - 1 + 1
          /\ 1 + 1 - 1 = 1 /\ 1 + Len(s) - 1 = Len(s)
      BY <1>1, <2>2
    <3>2. SubSeq(SubSeq(t, 1, Len(t)), 1, Len(s)) = SubSeq(t, 1 + 1 - 1, 1 + Len(s) - 1)
      BY <3>1, SubSeqOfSubSeq
    <3>3. SubSeq(SubSeq(r, 1, Len(t)), 1, Len(s)) = SubSeq(r, 1 + 1 - 1, 1 + Len(s) - 1)
      BY <3>1, SubSeqOfSubSeq
    <3> QED
      BY <1>1, <3>1, <3>2, <3>3
  <2> QED
    BY <2>1, <2>2
<1> QED
  BY <1>1, <1>2 DEF IsPrefix

-----------------------------------------------------------------------------
\* The I/O thread lives from start() to the end of stop(), the two queues are
\* empty in between but for late broadcasts, and of a connection that is cut no
\* end is open.
Casting == {t \in Caster : casting[t] # None}

Lives ==
  /\ io \in {"none", "round", "serve", "done"}
  /\ stopping => ~running
  /\ io # "none" => running \/ stopping

Queues ==
  /\ pending \in Seq(Range(Broadcasts))
  /\ casting \in [Caster -> Range(Broadcasts) \cup {None}]
  /\ casts \in Nat
  /\ StaleIsBounded

Ends ==
  /\ link \in [Peer -> {"none", "queued", "open", "cut"}]
  /\ there \subseteq Peer
  /\ \A p \in there : link[p] # "cut"

IInv == Lives /\ Queues /\ Ends

LEMMA InitHolds == ASSUME IsFiniteSet(Caster) PROVE Init => IInv
<1> SUFFICES ASSUME Init PROVE IInv
  OBVIOUS
<1>1. Cardinality(Casting) = 0
  <2>1. Casting = {}
    BY DEF Init, Casting
  <2> QED
    BY <2>1, FS_EmptySet
<1>2. Cardinality(Caster) \in Nat
  BY FS_CardinalityType
<1> QED
  BY <1>1, <1>2 DEF Init, IInv, Lives, Queues, Ends, StaleIsBounded, Casting

\* The I/O thread.
LEMMA LivesKept == Lives /\ [Next]_vars => Lives'
<1> SUFFICES ASSUME Lives, [Next]_vars PROVE Lives'
  OBVIOUS
<1>1. ASSUME UNCHANGED <<running, stopping, io>> PROVE Lives'
  BY <1>1 DEF Lives
<1>2. ASSUME NEW p \in Peer, Connect(p) \/ PeerSends(p) \/ Vanish(p) PROVE Lives'
  BY <1>1, <1>2 DEF Connect, PeerSends, Vanish, server
<1>3. ASSUME Engine PROVE Lives'
  BY <1>1, <1>3 DEF Engine, Start, StopBegins, StopEnds, Pump, Idle, Lives, server
<1>4. ASSUME NEW t \in Caster, CastBegins(t) \/ CastQueues(t) PROVE Lives'
  BY <1>1, <1>4 DEF CastBegins, CastQueues, server
<1>5. ASSUME Io PROVE Lives'
  BY <1>5 DEF Io, IoRound, IoServe, Lives
<1>6. CASE UNCHANGED vars
  BY <1>1, <1>6 DEF vars, server
<1> QED
  BY <1>2, <1>3, <1>4, <1>5, <1>6 DEF Next

\* The queues.
LEMMA QueuesKept ==
    ASSUME IsFiniteSet(Caster), Lives, Queues, [Next]_vars
    PROVE  Queues'
<1>0. /\ Casting \subseteq Caster /\ IsFiniteSet(Casting) /\ Cardinality(Casting) \in Nat
      /\ Cardinality(Casting) <= Cardinality(Caster) /\ Cardinality(Caster) \in Nat
  BY FS_Subset, FS_CardinalityType DEF Casting
<1>1. ASSUME UNCHANGED <<casting, casts>>, pending' \in {pending, <<>>},
             \/ running'
             \/ stopping'
             \/ inbound' = <<>> /\ pending' = <<>>
             \/ running' = running /\ stopping' = stopping /\ inbound' \in {inbound, <<>>}
      PROVE  Queues'
  <2>1. Casting' = Casting
    BY <1>1 DEF Casting
  <2>2. pending' \in Seq(Range(Broadcasts)) /\ Len(pending') <= Len(pending)
    <3>1. <<>> \in Seq(Range(Broadcasts)) /\ Len(<<>>) = 0
      OBVIOUS
    <3>2. pending \in Seq(Range(Broadcasts)) /\ Len(pending) \in Nat
      BY DEF Queues
    <3>3. CASE pending' = pending
      BY <3>2, <3>3
    <3>4. CASE pending' = <<>>
      BY <3>1, <3>2, <3>4
    <3> QED
      BY <1>1, <3>3, <3>4
  <2>3. pending' = <<>> => Len(pending') = 0
    OBVIOUS
  <2>4. Len(pending') \in Nat /\ Len(pending) \in Nat
    BY <2>2 DEF Queues
  <2> QED
    BY <1>0, <1>1, <2>1, <2>2, <2>3, <2>4 DEF Queues, StaleIsBounded, Casting
<1>2. ASSUME NEW p \in Peer, Connect(p) \/ PeerSends(p) \/ Vanish(p) PROVE Queues'
  BY <1>1, <1>2 DEF Connect, PeerSends, Vanish, server, queues
<1>3. ASSUME Start \/ StopBegins \/ StopEnds \/ Pump PROVE Queues'
  BY <1>1, <1>3 DEF Start, StopBegins, StopEnds, Cleared, Pump, server, queues
<1>4. ASSUME NEW t \in Caster, CastBegins(t) PROVE Queues'
  <2>1. /\ running' /\ pending' = pending /\ casts' = casts + 1
        /\ casting' = [casting EXCEPT ![t] = Broadcasts[casts + 1]]
        /\ casts + 1 \in DOMAIN Broadcasts
    BY <1>4, BroadcastAssumption DEF CastBegins, server, Queues
  <2>2. Broadcasts[casts + 1] \in Range(Broadcasts)
    BY <2>1 DEF Range
  <2> QED
    BY <2>1, <2>2 DEF Queues, StaleIsBounded
<1>5. ASSUME NEW t \in Caster, CastQueues(t) PROVE Queues'
  <2>1. /\ casting[t] # None /\ pending' = Append(pending, casting[t])
        /\ casting' = [casting EXCEPT ![t] = None]
        /\ UNCHANGED <<running, stopping, inbound, casts>>
    BY <1>5 DEF CastQueues, server
  <2>2. pending' \in Seq(Range(Broadcasts)) /\ Len(pending') = Len(pending) + 1
    BY <2>1 DEF Queues
  <2>3. casting' \in [Caster -> Range(Broadcasts) \cup {None}]
    BY <2>1 DEF Queues
  <2>4. Casting' = Casting \ {t} /\ t \in Casting
    BY <2>1 DEF Casting, Queues
  <2>5. Cardinality(Casting') = Cardinality(Casting) - 1
    BY <1>0, <2>4, FS_RemoveElement
  <2>6. Len(pending) \in Nat
    BY DEF Queues
  <2> QED
    BY <1>0, <2>1, <2>2, <2>3, <2>5, <2>6 DEF Queues, StaleIsBounded, Casting
<1>6. ASSUME Io PROVE Queues'
  <2>1. running \/ stopping
    BY <1>6 DEF Io, IoRound, IoServe, Lives
  <2>2. /\ UNCHANGED <<casting, casts, running, stopping>> /\ pending' \in {pending, <<>>}
    BY <1>6 DEF Io, IoRound, IoServe, queues
  <2> QED
    BY <1>1, <2>1, <2>2
<1>7. CASE UNCHANGED vars
  BY <1>1, <1>7 DEF vars, server, queues
<1> QED
  BY <1>2, <1>3, <1>4, <1>5, <1>6, <1>7 DEF Next, Engine

\* The ends of the connections.
LEMMA ConnectionsEnd ==
    ASSUME Ends, NEW l \in [Peer -> {"none", "queued", "open", "cut"}], Connections(l)
    PROVE  Ends'
BY DEF Ends, Connections

LEMMA RangeOfLink ==
    ASSUME Ends
    PROVE  /\ \A s : CutOff(s) \in [Peer -> {"none", "queued", "open", "cut"}]
           /\ Reaped \in [Peer -> {"none", "queued", "open", "cut"}]
           /\ \A p : [Reaped EXCEPT ![p] = "open"] \in [Peer -> {"none", "queued", "open", "cut"}]
BY DEF Ends, CutOff, Reaped

LEMMA EndsKept == Ends /\ [Next]_vars => Ends'
<1> SUFFICES ASSUME Ends, [Next]_vars PROVE Ends'
  OBVIOUS
<1>1. ASSUME UNCHANGED <<link, there>> PROVE Ends'
  BY <1>1 DEF Ends
<1>2. ASSUME NEW p \in Peer, Connect(p) PROVE Ends'
  BY <1>2 DEF Connect, Ends
<1>3. ASSUME NEW p \in Peer, PeerSends(p) \/ Vanish(p) PROVE Ends'
  BY <1>3 DEF PeerSends, Vanish, Ends
<1>4. ASSUME StopEnds PROVE Ends'
  BY <1>4, ConnectionsEnd, RangeOfLink DEF StopEnds
<1>5. ASSUME Start \/ StopBegins \/ Pump \/ IoServe PROVE Ends'
  BY <1>1, <1>5 DEF Start, StopBegins, Pump, IoServe, wire
<1>6. ASSUME NEW t \in Caster, CastBegins(t) \/ CastQueues(t) PROVE Ends'
  BY <1>1, <1>6 DEF CastBegins, CastQueues, wire
<1>7. ASSUME IoRound PROVE Ends'
  <2>1. \/ \E p : Connections([Reaped EXCEPT ![p] = "open"])
        \/ Connections(Reaped)
        \/ Connections(CutOff("open"))
    BY <1>7 DEF IoRound, Closed
  <2> QED
    BY <2>1, ConnectionsEnd, RangeOfLink
<1>8. CASE UNCHANGED vars
  BY <1>1, <1>8 DEF vars, wire
<1> QED
  BY <1>2, <1>3, <1>4, <1>5, <1>6, <1>7, <1>8 DEF Next, Engine, Io

LEMMA Invariance == ASSUME IsFiniteSet(Caster) PROVE Spec => []IInv
<1>1. Init => IInv
  BY InitHolds
<1>2. IInv /\ [Next]_vars => IInv'
  BY LivesKept, QueuesKept, EndsKept DEF IInv
<1> QED
  BY <1>1, <1>2, PTL DEF Spec

\* A stopped server keeps no message, and of the broadcasts at most one for each
\* thread that was in the middle of broadcast() as stop() cleared the queues.
THEOREM StaleAlwaysBounded == ASSUME IsFiniteSet(Caster) PROVE Spec => []StaleIsBounded
BY Invariance, PTL DEF IInv, Queues

-----------------------------------------------------------------------------
\* What the panels and the callback are given.

Client(p) == [shook : BOOLEAN, closing : BOOLEAN, rx : Seq(Range(Script[p])), tx : Seq(Frame)]

\* The clients, and everything in its range.
Shape ==
  /\ clients \in Seq(Peer) /\ Distinct(clients)
  /\ Range(clients) = {p \in Peer : link[p] = "open"}
  /\ ready.r \subseteq Range(clients) /\ ready.w \subseteq Range(clients)
  /\ \A p \in ready.r : p \in there => up[p] # <<>>
  /\ io \in {"none", "done"} => clients = <<>> /\ ~running

Typed ==
  /\ pending \in Seq(Range(Broadcasts)) /\ aired \in Seq(Range(Broadcasts))
  /\ inbound \in Seq(Message) /\ heard \in Seq(Message)
  /\ DOMAIN up = Peer /\ DOMAIN down = Peer /\ DOMAIN sent = Peer
  /\ \A p \in Peer : /\ client[p] \in Client(p) /\ down[p] \in Seq(Frame)
                     /\ up[p] \in Seq(Range(Script[p])) /\ sent[p] \in 0..Len(Script[p])

\* Of a peer that is not connected, or not yet, nothing is kept.
Fresh ==
  \A p \in Peer : p \notin Range(clients) => client[p] = NewClient /\ down[p] = <<>>

\* What has been read of a peer and how the rest of it is on its way; and a client
\* is to be closed when what it said is over, or when it is gone.
Over(q) == \E i \in DOMAIN q : q[i] \in Closers
Stream(p) ==
  /\ Len(up[p]) <= sent[p]
  /\ SubSeq(Script[p], 1, sent[p]) = ReadOf(p) \o up[p]
  /\ link[p] \in {"none", "queued"} => Len(up[p]) = sent[p]
  /\ p \in Range(clients) /\ ~client[p].closing =>
       client[p].rx = <<>> /\ (~client[p].shook => Len(up[p]) = sent[p])
  /\ p \in Range(clients) =>
       /\ client[p].shook => ReadOf(p) # <<>>
       /\ Over(ReadOf(p)) => client[p].closing
       /\ p \in there /\ client[p].closing => Over(ReadOf(p))
Streams == \A p \in Peer : Stream(p)

\* What the callback was or will be given.
Given(p) == From(p, heard \o inbound)
Hears(p) ==
  /\ ~client[p].shook /\ link[p] # "cut" => Given(p) = <<>>
  /\ client[p].shook /\ hooked =>
       IF p \in there \/ ~client[p].closing THEN Given(p) = DataOf(Talk(ReadOf(p)))
       ELSE IsPrefix(Given(p), DataOf(Talk(ReadOf(p))))
Hearing == \A p \in Peer : Hears(p)

\* What a panel got or will be sent of the broadcasts.
Gets(p) ==
  LET got == Casts(down[p]) \o Casts(client[p].tx) IN
  /\ ~client[p].shook => got = <<>>
  /\ client[p].shook =>
       /\ since[p] \in Nat /\ since[p] <= Len(aired)
       /\ p \in there => IsPrefix(got, After(aired, since[p]))
       /\ p \in there /\ ~client[p].closing => got = After(aired, since[p])
\* What it got or will be sent of the answers.
Pays(p) ==
  p \in there =>
    Only(Replies, down[p]) \o Only(Replies, client[p].tx) = Owed(Talk(ReadOf(p)))
Getting == \A p \in Range(clients) : Gets(p) /\ Pays(p)

PanelInv == Shape /\ Typed /\ Fresh /\ Streams /\ Hearing /\ Getting

\* What a conversation holds, and where it is over.
LEMMA TalkParts ==
    ASSUME NEW A, NEW q \in Seq(A)
    PROVE  /\ ~Over(q) => Talk(q) = q
           /\ Over(q) => \E n \in 1..Len(q) : /\ q[n] \in Closers /\ Talk(q) = SubSeq(q, 1, n)
                                              /\ \A i \in 1..n - 1 : q[i] \notin Closers
<1> DEFINE I == {i \in 1..Len(q) : q[i] \in Closers}
<1>1. Len(q) \in Nat /\ DOMAIN q = 1..Len(q)
  BY LenProperties
<1>2. CASE ~Over(q)
  <2>1. SelectInSeq(q, LAMBDA i : i \in Closers) = 0
    BY <1>1, <1>2 DEF SelectInSeq, Over
  <2> QED
    BY <1>2, <2>1 DEF Talk
<1>3. CASE Over(q)
  <2> DEFINE m == Min(I)
  <2>1. I # {} /\ I \in SUBSET Nat
    BY <1>1, <1>3 DEF Over
  <2>2. m = Least(I)
    BY DEF Min, Least
  <2>3. SelectInSeq(q, LAMBDA i : i \in Closers) = m
    BY <2>1 DEF SelectInSeq
  <2> HIDE DEF m, I
  <2>4. m \in I /\ \A i \in I : m <= i
    BY <2>1, <2>2, LeastIn
  <2> USE DEF I
  <2>5. m \in 1..Len(q) /\ q[m] \in Closers /\ m # 0
    BY <2>4
  <2>6. Talk(q) = SubSeq(q, 1, m)
    BY <2>3, <2>5 DEF Talk
  <2>7. \A i \in 1..m - 1 : q[i] \notin Closers
    BY <1>1, <2>4
  <2> QED
    BY <1>3, <2>5, <2>6, <2>7
<1> QED
  BY <1>2, <1>3

LEMMA TalkIs ==
    ASSUME NEW A, NEW q \in Seq(A), NEW n \in 1..Len(q), q[n] \in Closers,
           \A i \in 1..n - 1 : q[i] \notin Closers
    PROVE  Over(q) /\ Talk(q) = SubSeq(q, 1, n)
<1>1. Len(q) \in Nat /\ DOMAIN q = 1..Len(q)
  BY LenProperties
<1>2. Over(q)
  BY <1>1 DEF Over
<1>3. PICK m \in 1..Len(q) : /\ q[m] \in Closers /\ Talk(q) = SubSeq(q, 1, m)
                             /\ \A i \in 1..m - 1 : q[i] \notin Closers
  BY <1>2, TalkParts
<1>4. m = n
  <2>1. ~(m < n) /\ ~(n < m)
    BY <1>1, <1>3
  <2> QED
    BY <1>1, <2>1
<1> QED
  BY <1>2, <1>3, <1>4

LEMMA TalkEnds ==
    ASSUME NEW A, NEW q \in Seq(A)
    PROVE  /\ Talk(q) \in Seq(A)
           /\ Over(q) => Talk(q) # <<>> /\ Last(Talk(q)) \in Closers
<1>1. Len(q) \in Nat /\ \A i \in 1..Len(q) : q[i] \in A
  BY LenProperties, ElementOfSeq
<1>2. CASE ~Over(q)
  BY <1>2, TalkParts
<1>3. CASE Over(q)
  <2>1. PICK n \in 1..Len(q) : q[n] \in Closers /\ Talk(q) = SubSeq(q, 1, n)
    BY <1>3, TalkParts
  <2>2. \A i \in 1..n : q[i] \in A
    BY <1>1
  <2>3. /\ SubSeq(q, 1, n) \in Seq(A) /\ Len(SubSeq(q, 1, n)) = IF 1 <= n THEN (n - 1) + 1 ELSE 0
        /\ \A i \in 1..(n - 1) + 1 : SubSeq(q, 1, n)[i] = q[(1 + i) - 1]
    BY <1>1, <2>2, SubSeqProperties
  <2> DEFINE t == Talk(q)
  <2> HIDE DEF t
  <2>4. n \in Nat /\ n \in 1..(n - 1) + 1 /\ (1 + n) - 1 = n /\ n # 0 /\ t = SubSeq(q, 1, n)
    BY <1>1, <2>1 DEF t
  <2>5. t \in Seq(A) /\ Len(t) = n /\ t[n] = q[n]
    BY <2>3, <2>4
  <2>6. t # <<>>
    BY <2>4, <2>5, EmptySeq
  <2>7. Last(t) \in Closers
    BY <2>1, <2>5 DEF Last
  <2> QED
    BY <2>5, <2>6, <2>7 DEF t
<1> QED
  BY <1>2, <1>3

LEMMA TalkConcat ==
    ASSUME NEW A, NEW q \in Seq(A), NEW r \in Seq(A)
    PROVE  /\ Over(q \o r) <=> Over(q) \/ Over(r)
           /\ Talk(q \o r) = IF Over(q) THEN Talk(q) ELSE q \o Talk(r)
<1> DEFINE s == q \o r
<1>1. /\ s \in Seq(A) /\ Len(q) \in Nat /\ Len(r) \in Nat /\ Len(s) = Len(q) + Len(r)
      /\ \A i \in 1..Len(s) : s[i] = IF i <= Len(q) THEN q[i] ELSE r[i - Len(q)]
      /\ DOMAIN s = 1..Len(s) /\ DOMAIN q = 1..Len(q) /\ DOMAIN r = 1..Len(r)
  BY ConcatProperties, LenProperties
<1>2. CASE Over(q)
  <2>1. PICK n \in 1..Len(q) : /\ q[n] \in Closers /\ Talk(q) = SubSeq(q, 1, n)
                               /\ \A i \in 1..n - 1 : q[i] \notin Closers
    BY <1>2, TalkParts
  <2> HIDE DEF s
  <2>2. n \in 1..Len(s) /\ s[n] = q[n]
    BY <1>1
  <2>3. \A i \in 1..n - 1 : s[i] \notin Closers
    BY <1>1, <2>1
  <2>4. Over(s) /\ Talk(s) = SubSeq(s, 1, n)
    BY <1>1, <2>1, <2>2, <2>3, TalkIs
  <2>5. SubSeq(q \o r, 1, n) = SubSeq(q, 1, n)
    <3>1. 1 \in 1..Len(q)
      BY <1>1
    <3> QED
      BY <3>1, SubSeqOfConcat1
  <2> QED
    BY <1>2, <2>1, <2>4, <2>5 DEF s
<1>3. CASE ~Over(q) /\ Over(r)
  <2>1. PICK n \in 1..Len(r) : /\ r[n] \in Closers /\ Talk(r) = SubSeq(r, 1, n)
                               /\ \A i \in 1..n - 1 : r[i] \notin Closers
    BY <1>3, TalkParts
  <2> HIDE DEF s
  <2> DEFINE m == Len(q) + n
  <2>2. m \in 1..Len(s) /\ s[m] = r[n] /\ m \in Nat
    BY <1>1
  <2>3. ASSUME NEW i \in 1..m - 1 PROVE s[i] \notin Closers
    <3>1. CASE i <= Len(q)
      BY <1>1, <1>3, <3>1 DEF Over
    <3>2. CASE ~(i <= Len(q))
      <4>1. i - Len(q) \in 1..n - 1 /\ i \in 1..Len(s)
        BY <1>1, <3>2
      <4> QED
        BY <1>1, <2>1, <3>2, <4>1
    <3> QED
      BY <3>1, <3>2
  <2>4. Over(s) /\ Talk(s) = SubSeq(s, 1, m)
    <3> HIDE DEF m
    <3> QED
      BY <1>1, <2>1, <2>2, <2>3, TalkIs
  <2>5. SubSeq(s, 1, m) = q \o SubSeq(r, 1, n)
    <3>1. SubSeq(s, Len(q) + 1, m) = SubSeq(r, 1, n)
      <4>1. Len(q) + 1 \in Len(q) + 1..Len(q) + Len(r) /\ m \in Len(q) + 1..Len(q) + Len(r)
        BY <1>1
      <4>2. (Len(q) + 1) - Len(q) = 1 /\ m - Len(q) = n
        BY <1>1
      <4>3. SubSeq(q \o r, Len(q) + 1, m) = SubSeq(r, (Len(q) + 1) - Len(q), m - Len(q))
        <5> HIDE DEF m
        <5> QED
          BY <4>1, SubSeqOfConcat2
      <4> QED
        BY <4>2, <4>3 DEF s
    <3>2. SubSeq(s, 1, Len(q)) = q
      <4>1. CASE Len(q) = 0
        <5>1. q = <<>> /\ SubSeq(s, 1, 0) = <<>>
          BY <4>1, EmptySeq, SubSeqEmpty
        <5> QED
          BY <4>1, <5>1
      <4>2. CASE Len(q) # 0
        <5>1. 1 \in 1..Len(q) /\ Len(q) \in 1..Len(q)
          BY <1>1, <4>2
        <5>2. SubSeq(q \o r, 1, Len(q)) = SubSeq(q, 1, Len(q))
          BY <5>1, SubSeqOfConcat1
        <5>3. SubSeq(q, 1, Len(q)) = q
          BY SubSeqFull
        <5> QED
          BY <5>2, <5>3 DEF s
      <4> QED
        BY <4>1, <4>2
    <3>3. SubSeq(s, 1, Len(q)) \o SubSeq(s, Len(q) + 1, m) = SubSeq(s, 1, m)
      <4>1. 1 \in 1..Len(s) + 1 /\ Len(q) \in 1 - 1..Len(s) /\ m \in Len(q)..Len(s)
        BY <1>1, <2>2
      <4> HIDE DEF m
      <4> QED
        BY <1>1, <4>1, ConcatAdjacentSubSeq
    <3> QED
      BY <3>1, <3>2, <3>3
  <2> QED
    BY <1>3, <2>1, <2>4, <2>5 DEF s
<1>4. CASE ~Over(q) /\ ~Over(r)
  <2>1. ~Over(s)
    <3> SUFFICES ASSUME NEW i \in 1..Len(s) PROVE s[i] \notin Closers
      BY <1>1 DEF Over
    <3> HIDE DEF s
    <3>1. CASE i <= Len(q)
      BY <1>1, <1>4, <3>1 DEF Over
    <3>2. CASE ~(i <= Len(q))
      <4>1. i - Len(q) \in 1..Len(r)
        BY <1>1, <3>2
      <4> QED
        BY <1>1, <1>4, <3>2, <4>1 DEF Over
    <3> QED
      BY <3>1, <3>2
  <2>2. Talk(s) = s
    <3> HIDE DEF s
    <3> QED
      BY <1>1, <2>1, TalkParts
  <2>3. Talk(r) = r
    BY <1>4, TalkParts
  <2> QED
    BY <1>4, <2>1, <2>2, <2>3
<1> QED
  BY <1>2, <1>3, <1>4

LEMMA TalkOne ==
    ASSUME NEW h
    PROVE  (Over(<<h>>) <=> h \in Closers) /\ (h \in Closers => Talk(<<h>>) = <<h>>)
<1> PICK e : e = <<h>>
  OBVIOUS
<1>1. e \in Seq({h}) /\ Len(e) = 1 /\ e[1] = h /\ DOMAIN e = {1}
  OBVIOUS
<1>2. Over(e) <=> h \in Closers
  BY <1>1 DEF Over
<1>3. ASSUME h \in Closers PROVE Talk(e) = e
  <2>1. 1 \in 1..Len(e) /\ \A i \in 1..1 - 1 : e[i] \notin Closers
    BY <1>1
  <2>2. Talk(e) = SubSeq(e, 1, Len(e))
    BY <1>1, <1>3, <2>1, TalkIs
  <2> QED
    BY <1>1, <2>2, SubSeqFull
<1> QED
  BY <1>2, <1>3

LEMMA TalkNothing == \A q : Over(<<>>) = FALSE /\ Talk(<<>>) = <<>> /\ SubSeq(q, 1, 0) = <<>>
<1>1. DOMAIN <<>> = {}
  OBVIOUS
<1>2. ~Over(<<>>)
  BY <1>1 DEF Over
<1>3. Talk(<<>>) = <<>>
  <2>1. <<>> \in Seq({})
    BY EmptySeq
  <2> QED
    BY <1>2, <2>1, TalkParts
<1>4. ASSUME NEW q PROVE SubSeq(q, 1, 0) = <<>>
  <2>1. 1 \in Int /\ 0 \in Int /\ 0 < 1
    OBVIOUS
  <2> QED
    BY <2>1, SubSeqEmpty
<1> QED
  BY <1>2, <1>3, <1>4

\* What was said before is the beginning of what has been said after.
LEMMA TalkGrows ==
    ASSUME NEW A, NEW q \in Seq(A), NEW r \in Seq(A)
    PROVE  /\ Over(q) => Over(q \o r) /\ Talk(q \o r) = Talk(q)
           /\ IsPrefix(DataOf(Talk(q)), DataOf(Talk(q \o r)))
<1>1. /\ Talk(q) \in Seq(A) /\ Talk(r) \in Seq(A)
      /\ Over(q \o r) <=> Over(q) \/ Over(r)
      /\ Talk(q \o r) = IF Over(q) THEN Talk(q) ELSE q \o Talk(r)
  <2>1. Talk(q) \in Seq(A) /\ Talk(r) \in Seq(A)
    BY TalkEnds
  <2>2. /\ Over(q \o r) <=> Over(q) \/ Over(r)
        /\ Talk(q \o r) = IF Over(q) THEN Talk(q) ELSE q \o Talk(r)
    BY TalkConcat
  <2> QED
    BY <2>1, <2>2
<1>2. CASE Over(q)
  <2>1. DataOf(Talk(q)) \in Seq(A \cap Message)
    BY <1>1, OnlyType DEF DataOf
  <2> QED
    BY <1>1, <1>2, <2>1, PrefixSelf
<1>3. CASE ~Over(q)
  <2>1. Talk(q) = q
    BY <1>3, TalkParts
  <2> PICK t \in Seq(A) : t = Talk(r)
    BY <1>1
  <2>2. Only(Message, q \o t) = Only(Message, q) \o Only(Message, t)
    <3>1. t \in Seq(A)
      OBVIOUS
    <3> QED
      BY ONLY <3>1, OnlyConcat
  <2>3. Only(Message, q) \in Seq(A \cap Message) /\ Only(Message, t) \in Seq(A \cap Message)
    BY OnlyType
  <2>4. IsPrefix(Only(Message, q), Only(Message, q))
    BY <2>3, PrefixSelf
  <2>5. IsPrefix(Only(Message, q), Only(Message, q) \o Only(Message, t))
    BY <2>3, <2>4, PrefixConcat
  <2> QED
    BY <1>1, <1>3, <2>1, <2>2, <2>5 DEF DataOf
<1> QED
  BY <1>2, <1>3

LEMMA OnlySame ==
    ASSUME NEW S, NEW T, NEW A, NEW q \in Seq(A), A \cap S = A \cap T
    PROVE  Only(S, q) = Only(T, q)
<1> DEFINE P == {s \in Seq(A) : Only(S, s) = Only(T, s)}
<1>1. <<>> \in P
  BY OnlyEmpty, EmptySeq
<1>2. ASSUME NEW s \in P, NEW x \in A PROVE Append(s, x) \in P
  <2>1. s \in Seq(A) /\ Only(S, s) = Only(T, s) /\ Append(s, x) \in Seq(A) /\ (x \in S <=> x \in T)
    BY AppendProperties
  <2>2. /\ Only(S, Append(s, x)) = IF x \in S THEN Append(Only(S, s), x) ELSE Only(S, s)
        /\ Only(T, Append(s, x)) = IF x \in T THEN Append(Only(T, s), x) ELSE Only(T, s)
    BY <2>1, OnlyAppend
  <2> QED
    BY <2>1, <2>2
<1>3. P \in SUBSET Seq(A)
  OBVIOUS
<1> HIDE DEF P
<1>4. P = Seq(A)
  BY <1>1, <1>2, <1>3, Sequences
<1> QED
  BY <1>4 DEF P

\* What is left to do of a queue, and what was done, when its first goes.
LEMMA OnlyMoves ==
    ASSUME NEW S, NEW A, NEW s \in Seq(A), NEW d \in Seq(A), s # <<>>
    PROVE  Only(S, Append(d, Head(s))) \o Only(S, Tail(s)) = Only(S, d) \o Only(S, s)
<1> DEFINE h == Head(s)
           t == Tail(s)
           a == <<h>>
<1>1. h \in A /\ t \in Seq(A) /\ a \in Seq(A) /\ s = a \o t
  <2>1. h \in A /\ t \in Seq(A)
    BY HeadTailProperties
  <2>2. s = a \o t
    OBVIOUS
  <2> QED
    BY <2>1, <2>2
<1>2. Append(d, h) = d \o a
  BY <1>1, AppendIsConcat
<1> HIDE DEF h, t, a
<1>3. /\ Only(S, d \o a) = Only(S, d) \o Only(S, a) /\ Only(S, s) = Only(S, a) \o Only(S, t)
      /\ Only(S, d) \in Seq(A \cap S) /\ Only(S, a) \in Seq(A \cap S) /\ Only(S, t) \in Seq(A \cap S)
  BY <1>1, OnlyConcat, OnlyType
<1>4. (Only(S, d) \o Only(S, a)) \o Only(S, t) = Only(S, d) \o (Only(S, a) \o Only(S, t))
  <2>1. /\ Only(S, d) \in Seq(A \cap S) /\ Only(S, a) \in Seq(A \cap S) /\ Only(S, t) \in Seq(A \cap S)
    BY <1>3
  <2> QED
    BY ONLY <2>1, ConcatAssociative, SMTT(30)
<1> QED
  BY <1>2, <1>3, <1>4 DEF h, t

LEMMA SeqOfLength ==
    ASSUME NEW C, NEW n \in Nat, NEW f \in [1..n -> C]
    PROVE  f \in Seq(C) /\ Len(f) = n
OBVIOUS

\* What is owed for a conversation.
Mapped(f, s) == [i \in DOMAIN s |-> f[s[i]]]

LEMMA MapConcat ==
    ASSUME NEW B, NEW C, NEW f, \A b \in B : f[b] \in C, NEW u \in Seq(B), NEW v \in Seq(B)
    PROVE  /\ Mapped(f, u \o v) = Mapped(f, u) \o Mapped(f, v)
           /\ Mapped(f, u) \in Seq(C)
<1> DEFINE w == u \o v
           a == [i \in DOMAIN u |-> f[u[i]]]
           b == [i \in DOMAIN v |-> f[v[i]]]
           c == [i \in DOMAIN w |-> f[w[i]]]
<1>1. /\ w \in Seq(B) /\ Len(u) \in Nat /\ Len(v) \in Nat /\ Len(w) = Len(u) + Len(v)
      /\ \A i \in 1..Len(u) + Len(v) : w[i] = IF i <= Len(u) THEN u[i] ELSE v[i - Len(u)]
      /\ DOMAIN w = 1..Len(w) /\ DOMAIN u = 1..Len(u) /\ DOMAIN v = 1..Len(v)
      /\ \A i \in 1..Len(u) : u[i] \in B
      /\ \A i \in 1..Len(v) : v[i] \in B
      /\ \A i \in 1..Len(w) : w[i] \in B
  <2>1. w \in Seq(B) /\ Len(w) = Len(u) + Len(v)
    BY ConcatProperties
  <2> QED
    BY <2>1, ConcatProperties, LenProperties, ElementOfSeq
<1>2. /\ a \in Seq(C) /\ Len(a) = Len(u) /\ b \in Seq(C) /\ Len(b) = Len(v)
      /\ c \in Seq(C) /\ Len(c) = Len(w)
  <2>1. a \in [1..Len(u) -> C]
    BY <1>1
  <2>2. b \in [1..Len(v) -> C]
    BY <1>1
  <2>3. c \in [1..Len(w) -> C]
    <3> HIDE DEF w
    <3> QED
      BY <1>1
  <2>4. Len(w) \in Nat
    BY <1>1
  <2> HIDE DEF w, a, b, c
  <2> QED
    BY <1>1, <2>1, <2>2, <2>3, <2>4, SeqOfLength
<1>3. /\ a \o b \in Seq(C) /\ Len(a \o b) = Len(a) + Len(b)
      /\ \A i \in 1..Len(a) + Len(b) : (a \o b)[i] = IF i <= Len(a) THEN a[i] ELSE b[i - Len(a)]
  <2> HIDE DEF a, b
  <2> QED
    BY <1>2, ConcatProperties
<1>4. ASSUME NEW i \in 1..Len(c) PROVE c[i] = (a \o b)[i]
  <2>1. i \in 1..Len(a) + Len(b) /\ i \in DOMAIN w /\ c[i] = f[w[i]]
    BY <1>1, <1>2
  <2>2. CASE i <= Len(u)
    <3>1. i \in DOMAIN u /\ w[i] = u[i] /\ a[i] = f[u[i]]
      BY <1>1, <1>2, <2>1, <2>2
    <3> HIDE DEF a, b, c, w
    <3> QED
      BY <1>2, <1>3, <2>1, <2>2, <3>1
  <2>3. CASE ~(i <= Len(u))
    <3>1. i - Len(u) \in DOMAIN v /\ w[i] = v[i - Len(u)]
      <4> HIDE DEF a, b, c, w
      <4> QED
        BY <1>1, <1>2, <2>1, <2>3
    <3>2. b[i - Len(u)] = f[v[i - Len(u)]]
      BY <3>1
    <3> HIDE DEF a, b, c, w
    <3> QED
      BY <1>2, <1>3, <2>1, <2>3, <3>1, <3>2
  <2> QED
    BY <2>2, <2>3
<1> HIDE DEF a, b, c
<1>5. c = a \o b
  BY <1>1, <1>2, <1>3, <1>4, SeqEqual
<1> QED
  BY <1>2, <1>5 DEF Mapped, a, b, c, w

LEMMA OwesWhat ==
    /\ DOMAIN Owes = {"hello", "keyless", "stranger", "ping", "bye"}
    /\ \A x \in DOMAIN Owes : Owes[x] \in Replies
    /\ Owes["hello"] = "101" /\ Owes["keyless"] = "400" /\ Owes["stranger"] = "401"
    /\ Owes["ping"] = "pong" /\ Owes["bye"] = "bye"
BY DEF Owes, Replies

LEMMA OwedConcat ==
    ASSUME NEW A, NEW s \in Seq(A), NEW t \in Seq(A)
    PROVE  Owed(s \o t) = Owed(s) \o Owed(t) /\ Owed(s) \in Seq(Replies)
<1> DEFINE D == DOMAIN Owes
           u == Only(D, s)
           v == Only(D, t)
<1>1. u \in Seq(A \cap D) /\ v \in Seq(A \cap D) /\ Only(D, s \o t) = u \o v
  BY OnlyType, OnlyConcat
<1>2. \A b \in A \cap D : Owes[b] \in Replies
  BY OwesWhat
<1> HIDE DEF D, u, v
<1>3. Mapped(Owes, u \o v) = Mapped(Owes, u) \o Mapped(Owes, v) /\ Mapped(Owes, u) \in Seq(Replies)
  BY ONLY <1>1, <1>2, MapConcat
<1> QED
  BY <1>1, <1>3 DEF Owed, Mapped, D, u, v

LEMMA OwedNothing == Owed(<<>>) = <<>>
<1>1. Only(DOMAIN Owes, <<>>) = <<>>
  BY OnlyEmpty
<1> QED
  BY <1>1 DEF Owed

LEMMA OwedOne ==
    ASSUME NEW x \in DOMAIN Owes
    PROVE  Owed(<<x>>) = <<Owes[x]>>
<1>1. <<x>> \in Seq(DOMAIN Owes)
  OBVIOUS
<1>2. Only(DOMAIN Owes, <<x>>) = <<x>>
  BY <1>1, OnlyAll
<1>3. [i \in DOMAIN <<x>> |-> Owes[<<x>>[i]]] = <<Owes[x]>>
  OBVIOUS
<1> QED
  BY <1>2, <1>3 DEF Owed

\* Of what comes after the request, pings and the goodbye are answered.
LEMMA OwedLater ==
    ASSUME NEW A, A \subseteq Control \cup Message, NEW f \in Seq(A)
    PROVE  LET asked == Only({"ping", "bye"}, f) IN
           [i \in DOMAIN asked |-> Answers[asked[i]]] = Owed(f)
<1> DEFINE asked == Only({"ping", "bye"}, f)
<1>1. A \cap {"ping", "bye"} = A \cap DOMAIN Owes
  BY OwesWhat, MessageAssumption DEF Requests, Control
<1>2. asked = Only(DOMAIN Owes, f)
  BY <1>1, OnlySame
<1>3. asked \in Seq(A \cap {"ping", "bye"})
  BY OnlyType
<1> HIDE DEF asked
<1>4. \A i \in DOMAIN asked : asked[i] \in {"ping", "bye"}
  <2>1. DOMAIN asked = 1..Len(asked)
    BY <1>3, LenProperties
  <2> QED
    BY <1>3, <2>1, ElementOfSeq
<1>5. Answers["ping"] = "pong" /\ Answers["bye"] = "bye"
  BY DEF Answers
<1>6. \A i \in DOMAIN asked : Answers[asked[i]] = Owes[asked[i]]
  BY <1>4, <1>5, OwesWhat
<1> QED
  BY <1>2, <1>6 DEF Owed, asked

\* One client in a round of the I/O thread.

LEMMA ScriptItems ==
    ASSUME NEW p \in Peer
    PROVE  /\ Script[p] \in Seq(Range(Script[p]))
           /\ Range(Script[p]) \subseteq Requests \cup Control \cup Message
BY ScriptAssumption, SeqOfRange, RangeOfSeq

LEMMA ClientParts ==
    ASSUME NEW p, NEW cl \in Client(p)
    PROVE  /\ cl.shook \in BOOLEAN /\ cl.closing \in BOOLEAN
           /\ cl.rx \in Seq(Range(Script[p])) /\ cl.tx \in Seq(Frame)
BY DEF Client

LEMMA ClientEqual ==
    ASSUME NEW p, NEW cl \in Client(p), NEW d \in Client(p),
           cl.shook = d.shook, cl.closing = d.closing, cl.rx = d.rx, cl.tx = d.tx
    PROVE  cl = d
BY DEF Client

LEMMA NewClientType == ASSUME NEW p PROVE NewClient \in Client(p)
BY EmptySeq DEF NewClient, Client

ReceivedAs(p, reset, r) ==
    /\ r \in Client(p) /\ r.shook = client[p].shook /\ (client[p].closing => r.closing)
    /\ r.tx = IF p \in Range(clients) /\ Tuned(p) THEN client[p].tx \o pending ELSE client[p].tx
    /\ ~r.closing =>
         r.rx = IF p \in ready.r THEN client[p].rx \o up[p] ELSE client[p].rx
    /\ p \notin ready.r => r.closing = client[p].closing /\ r.rx = client[p].rx
    /\ p \in ready.r => (r.closing <=> client[p].closing \/ up[p] = <<>> \/ p \in reset)

LEMMA ReceivedParts ==
    ASSUME Typed, NEW p \in Peer, NEW reset
    PROVE  ReceivedAs(p, reset, Received(p, reset))
<1> DEFINE cl == client[p]
           d == Drained(p)
           r == Received(p, reset)
<1>1. /\ cl \in Client(p) /\ up[p] \in Seq(Range(Script[p]))
      /\ cl.shook \in BOOLEAN /\ cl.closing \in BOOLEAN
      /\ cl.rx \in Seq(Range(Script[p])) /\ cl.tx \in Seq(Frame)
  BY ClientParts DEF Typed
<1>2. pending \in Seq(Frame) /\ cl.tx \o pending \in Seq(Frame)
  <2>1. pending \in Seq(Range(Broadcasts)) /\ Range(Broadcasts) \subseteq Frame
    BY DEF Typed, Frame
  <2>2. pending \in Seq(Frame)
    BY <2>1, SeqMonotonic
  <2> QED
    BY <1>1, <2>2, ConcatProperties
<1>3. cl.rx \o up[p] \in Seq(Range(Script[p]))
  BY <1>1, ConcatProperties
<1>4. /\ d \in Client(p) /\ d.shook = cl.shook /\ d.closing = cl.closing /\ d.rx = cl.rx
      /\ d.tx = IF p \in Range(clients) /\ Tuned(p) THEN cl.tx \o pending ELSE cl.tx
  BY <1>1, <1>2 DEF Drained, Client
<1>5. r = IF p \notin ready.r THEN d
          ELSE IF up[p] = <<>> \/ p \in reset THEN [d EXCEPT !.closing = TRUE]
          ELSE [d EXCEPT !.rx = cl.rx \o up[p]]
  BY <1>4 DEF Received
<1> HIDE DEF cl, d, r
<1>6. CASE p \notin ready.r
  BY <1>4, <1>5, <1>6 DEF ReceivedAs, cl, r
<1>7. CASE p \in ready.r /\ (up[p] = <<>> \/ p \in reset)
  <2>1. r = [d EXCEPT !.closing = TRUE]
    BY <1>5, <1>7
  <2>2. r \in Client(p) /\ r.shook = d.shook /\ r.closing = TRUE /\ r.rx = d.rx /\ r.tx = d.tx
    BY <1>4, <2>1 DEF Client
  <2> QED
    BY <1>4, <1>7, <2>2 DEF ReceivedAs, cl, r
<1>8. CASE p \in ready.r /\ ~(up[p] = <<>> \/ p \in reset)
  <2>1. r = [d EXCEPT !.rx = cl.rx \o up[p]]
    BY <1>5, <1>8
  <2>2. /\ r \in Client(p) /\ r.shook = d.shook /\ r.closing = d.closing
        /\ r.rx = cl.rx \o up[p] /\ r.tx = d.tx
    BY <1>3, <1>4, <2>1 DEF Client
  <2> QED
    BY <1>4, <1>8, <2>2 DEF ReceivedAs, cl, r
<1> QED
  BY <1>6, <1>7, <1>8

ShakenAs(p, cl, k) ==
    /\ k \in Client(p) /\ (cl.shook => k.shook) /\ (cl.closing => k.closing)
    /\ cl.shook \/ cl.closing \/ cl.rx = <<>> => k = cl
    /\ ~cl.shook /\ ~cl.closing /\ cl.rx # <<>> =>
         /\ k.rx = Tail(cl.rx) /\ \E a \in Replies : k.tx = Append(cl.tx, a)
         /\ Head(cl.rx) \in Requests => k.tx = Append(cl.tx, Owes[Head(cl.rx)])
         /\ (k.shook <=> Head(cl.rx) = "hello") /\ (k.closing <=> Head(cl.rx) # "hello")

LEMMA ShakenParts ==
    ASSUME NEW p, NEW cl \in Client(p)
    PROVE  ShakenAs(p, cl, Shaken(cl))
<1> DEFINE k == Shaken(cl)
<1>1. /\ cl.shook \in BOOLEAN /\ cl.closing \in BOOLEAN
      /\ cl.rx \in Seq(Range(Script[p])) /\ cl.tx \in Seq(Frame)
  BY ClientParts
<1>2. CASE cl.shook \/ cl.closing \/ cl.rx = <<>>
  <2>1. k = cl
    BY <1>2 DEF Shaken
  <2> HIDE DEF k
  <2> QED
    BY <1>2, <2>1 DEF ShakenAs, k
<1>3. CASE ~(cl.shook \/ cl.closing \/ cl.rx = <<>>)
  <2>1. Tail(cl.rx) \in Seq(Range(Script[p]))
    BY <1>1, <1>3, HeadTailProperties
  <2>2. \A a \in Replies : a \in Frame /\ Append(cl.tx, a) \in Seq(Frame)
    BY <1>1, AppendProperties DEF Frame
  <2>3. {"101", "400", "401"} \subseteq Replies
    BY DEF Replies
  <2>4. CASE Head(cl.rx) = "hello"
    <3>1. k = [cl EXCEPT !.rx = Tail(cl.rx), !.tx = Append(cl.tx, "101"), !.shook = TRUE]
      BY <1>3, <2>4 DEF Shaken
    <3> HIDE DEF k
    <3>2. /\ k \in Client(p) /\ k.rx = Tail(cl.rx) /\ k.tx = Append(cl.tx, "101")
          /\ k.shook = TRUE /\ k.closing = cl.closing
      BY <2>1, <2>2, <2>3, <3>1 DEF Client
    <3> QED
      BY <1>3, <2>3, <2>4, <3>2, OwesWhat DEF ShakenAs, k
  <2>5. CASE Head(cl.rx) # "hello"
    <3> PICK a \in Replies : a = IF Head(cl.rx) = "keyless" THEN "400" ELSE "401"
      BY <2>3
    <3>1. k = [cl EXCEPT !.rx = Tail(cl.rx), !.closing = TRUE, !.tx = Append(cl.tx, a)]
      BY <1>3, <2>5 DEF Shaken
    <3> HIDE DEF k
    <3>2. /\ k \in Client(p) /\ k.rx = Tail(cl.rx) /\ k.tx = Append(cl.tx, a)
          /\ k.shook = cl.shook /\ k.closing = TRUE
      BY <2>1, <2>2, <3>1 DEF Client
    <3>3. Head(cl.rx) \in Requests => a = Owes[Head(cl.rx)]
      BY <2>5, OwesWhat DEF Requests
    <3> QED
      BY <1>3, <2>5, <3>2, <3>3 DEF ShakenAs, k
  <2> QED
    BY <2>4, <2>5
<1> QED
  BY <1>2, <1>3

FramesAs(p, cl, f) ==
    /\ f \in Seq(Range(Script[p])) /\ (~cl.shook \/ cl.closing => f = <<>>)
    /\ cl.shook /\ ~cl.closing => f = cl.rx \/ (f # <<>> /\ Last(f) = "bye")
    /\ SubSeq(cl.rx, Len(f) + 1, Len(cl.rx)) \in Seq(Range(Script[p]))
    /\ f = cl.rx \/ cl.rx = <<>> => SubSeq(cl.rx, Len(f) + 1, Len(cl.rx)) = <<>>

LEMMA FramesParts ==
    ASSUME NEW p, NEW cl \in Client(p)
    PROVE  FramesAs(p, cl, Frames(cl))
<1> DEFINE f == Frames(cl)
           I == {i \in 1..Len(cl.rx) : cl.rx[i] = "bye"}
<1>1. /\ cl.rx \in Seq(Range(Script[p])) /\ Len(cl.rx) \in Nat
      /\ \A i \in 1..Len(cl.rx) : cl.rx[i] \in Range(Script[p])
  BY ClientParts, LenProperties, ElementOfSeq
<1>2. /\ f \in Seq(Range(Script[p])) /\ (~cl.shook \/ cl.closing => f = <<>>)
      /\ cl.shook /\ ~cl.closing => f = cl.rx \/ (f # <<>> /\ Last(f) = "bye")
  <2>1. CASE ~cl.shook \/ cl.closing
    BY <2>1, EmptySeq DEF Frames
  <2>2. CASE ~(~cl.shook \/ cl.closing) /\ I = {}
    <3>1. SelectInSeq(cl.rx, LAMBDA i : i = "bye") = 0
      BY <2>2 DEF SelectInSeq
    <3>2. f = cl.rx
      BY <2>2, <3>1 DEF Frames
    <3> QED
      BY <1>1, <2>2, <3>2
  <2>3. CASE ~(~cl.shook \/ cl.closing) /\ I # {}
    <3> DEFINE m == Min(I)
    <3>1. m \in I
      <4>1. Least(I) \in I
        <5>1. I \in SUBSET Nat
          OBVIOUS
        <5> QED
          BY <2>3, <5>1, LeastIn
      <4>2. m = Least(I)
        BY DEF Min, Least
      <4> QED
        BY <4>1, <4>2
    <3>2. SelectInSeq(cl.rx, LAMBDA i : i = "bye") = m
      BY <2>3 DEF SelectInSeq
    <3> HIDE DEF m
    <3>3. m \in 1..Len(cl.rx) /\ m # 0 /\ cl.rx[m] = "bye"
      BY <3>1
    <3>4. f = SubSeq(cl.rx, 1, m)
      BY <2>3, <3>2, <3>3 DEF Frames
    <3> HIDE DEF f
    <3>5. /\ f \in Seq(Range(Script[p])) /\ Len(f) = m /\ f[m] = "bye"
      <4>1. \A i \in 1..m : cl.rx[i] \in Range(Script[p])
        BY <1>1, <3>3
      <4>2. /\ f \in Seq(Range(Script[p])) /\ Len(f) = IF 1 <= m THEN (m - 1) + 1 ELSE 0
            /\ \A i \in 1..(m - 1) + 1 : f[i] = cl.rx[(1 + i) - 1]
        BY <1>1, <3>3, <3>4, <4>1, SubSeqProperties
      <4>3. m \in Nat /\ 1 <= m /\ (m - 1) + 1 = m /\ (1 + m) - 1 = m
        BY <3>3
      <4> QED
        BY <3>3, <4>2, <4>3
    <3>6. f # <<>>
      BY <3>3, <3>5, EmptySeq
    <3>7. Last(f) = "bye"
      BY <3>5 DEF Last
    <3> QED
      BY <2>3, <3>5, <3>6, <3>7
  <2> QED
    BY <2>1, <2>2, <2>3
<1> HIDE DEF f
<1>3. Len(f) \in Nat /\ (f = cl.rx => Len(f) = Len(cl.rx))
  BY <1>2, LenProperties
<1>4. SubSeq(cl.rx, Len(f) + 1, Len(cl.rx)) \in Seq(Range(Script[p]))
  <2>1. \A i \in Len(f) + 1..Len(cl.rx) : cl.rx[i] \in Range(Script[p])
    BY <1>1, <1>3
  <2> QED
    BY <1>1, <1>3, <2>1, SubSeqProperties
<1>5. ASSUME f = cl.rx \/ cl.rx = <<>> PROVE SubSeq(cl.rx, Len(f) + 1, Len(cl.rx)) = <<>>
  <2>1. Len(cl.rx) < Len(f) + 1
    BY <1>1, <1>3, <1>5, EmptySeq
  <2> QED
    BY <1>1, <1>3, <2>1, SubSeqEmpty
<1> QED
  BY <1>2, <1>4, <1>5 DEF FramesAs, f

ParsedAs(p, cl, q) ==
    /\ q \in Client(p) /\ q.shook = cl.shook /\ (cl.closing => q.closing)
    /\ \E a \in Seq(Replies) : q.tx = cl.tx \o a
    /\ cl.rx = <<>> => q.rx = <<>>
    /\ ~q.closing /\ cl.shook => q.rx = <<>> /\ Frames(cl) = cl.rx
    /\ ~cl.shook => q.closing = cl.closing /\ q.tx = cl.tx
    /\ cl.closing => q.tx = cl.tx

LEMMA ParsedParts ==
    ASSUME NEW p, NEW cl \in Client(p)
    PROVE  ParsedAs(p, cl, Parsed(cl))
<1> DEFINE f == Frames(cl)
           b == Only({"ping", "bye"}, f)
           a == [i \in DOMAIN b |-> Answers[b[i]]]
           q == Parsed(cl)
           rest == SubSeq(cl.rx, Len(f) + 1, Len(cl.rx))
           ends == cl.closing \/ (f # <<>> /\ Last(f) = "bye")
<1>1. FramesAs(p, cl, f)
  BY FramesParts
<1>2. /\ cl.shook \in BOOLEAN /\ cl.closing \in BOOLEAN
      /\ cl.rx \in Seq(Range(Script[p])) /\ cl.tx \in Seq(Frame)
  BY ClientParts
<1>3. q = [cl EXCEPT !.rx = rest, !.tx = cl.tx \o a, !.closing = ends]
  BY DEF Parsed
<1> HIDE DEF f, q
<1>4. a \in Seq(Replies) /\ (f = <<>> => a = <<>>)
  <2>1. b \in Seq(Range(Script[p]) \cap {"ping", "bye"})
    BY <1>1, OnlyType DEF FramesAs
  <2>2. Len(b) \in Nat /\ DOMAIN b = 1..Len(b) /\ \A i \in 1..Len(b) : b[i] \in {"ping", "bye"}
    BY <2>1, LenProperties, ElementOfSeq
  <2>3. f = <<>> => Len(b) = 0
    BY OnlyEmpty, EmptySeq
  <2> HIDE DEF b
  <2>4. Answers["ping"] \in Replies /\ Answers["bye"] \in Replies
    BY DEF Answers, Replies
  <2>5. a \in [1..Len(b) -> Replies]
    BY <2>2, <2>4
  <2>6. a \in Seq(Replies) /\ Len(a) = Len(b)
    BY <2>2, <2>5
  <2>7. f = <<>> => a = <<>>
    BY <2>3, <2>6, EmptySeq
  <2> QED
    BY <2>6, <2>7
<1> HIDE DEF a, b
<1>5. cl.tx \o a \in Seq(Frame)
  <2>1. a \in Seq(Frame)
    BY <1>4, SeqMonotonic DEF Frame
  <2> QED
    BY <1>2, <2>1, ConcatProperties
<1>6. rest \in Seq(Range(Script[p]))
  BY <1>1 DEF FramesAs
<1>7. ends \in BOOLEAN
  OBVIOUS
<1> HIDE DEF rest, ends
<1>8. /\ q \in Client(p) /\ q.shook = cl.shook /\ q.rx = rest /\ q.tx = cl.tx \o a
      /\ q.closing = ends
  BY <1>2, <1>3, <1>5, <1>6, <1>7 DEF Client
<1>9. /\ cl.closing => ends
      /\ cl.rx = <<>> => rest = <<>>
      /\ ~ends /\ cl.shook => rest = <<>> /\ f = cl.rx
      /\ ~cl.shook => ends = cl.closing
      /\ ~cl.shook \/ cl.closing => f = <<>>
  BY <1>1, <1>2 DEF FramesAs, ends, rest
<1>10. ~cl.shook \/ cl.closing => cl.tx \o a = cl.tx
  BY <1>2, <1>4, <1>9, ConcatEmptySeq
<1> QED
  BY <1>4, <1>8, <1>9, <1>10 DEF ParsedAs, f, q

\* The frames of a client are what it says that counts, and each is answered.
LEMMA FramesTalk ==
    ASSUME NEW p, NEW cl \in Client(p), cl.shook, ~cl.closing,
           NEW A, A \subseteq Control \cup Message, cl.rx \in Seq(A)
    PROVE  LET f == Frames(cl) IN
           f = Talk(cl.rx) /\ (f # <<>> /\ Last(f) = "bye" <=> Over(cl.rx))
<1> DEFINE x == cl.rx
           f == Frames(cl)
           I == {i \in 1..Len(x) : x[i] = "bye"}
<1>1. Len(x) \in Nat /\ DOMAIN x = 1..Len(x) /\ \A i \in 1..Len(x) : x[i] \in A
  BY LenProperties, ElementOfSeq
<1>2. \A i \in 1..Len(x) : x[i] \in Closers <=> x[i] = "bye"
  <2>1. "stranger" \notin A /\ "keyless" \notin A
    BY MessageAssumption DEF Requests, Control
  <2> QED
    BY <1>1, <2>1 DEF Closers
<1>3. CASE I = {}
  <2>1. SelectInSeq(x, LAMBDA i : i = "bye") = 0
    BY <1>3 DEF SelectInSeq
  <2>2. f = x
    BY <2>1 DEF Frames
  <2>3. ~Over(x)
    BY <1>1, <1>2, <1>3 DEF Over
  <2>4. Talk(x) = x
    BY <2>3, TalkParts
  <2>5. ~(x # <<>> /\ Last(x) = "bye")
    <3> SUFFICES ASSUME x # <<>> PROVE Last(x) # "bye"
      OBVIOUS
    <3>1. Len(x) \in 1..Len(x)
      BY <1>1, EmptySeq
    <3> QED
      BY <1>3, <3>1 DEF Last
  <2> QED
    BY <2>2, <2>3, <2>4, <2>5
<1>4. CASE I # {}
  <2> DEFINE m == Min(I)
  <2>1. I \in SUBSET Nat
    BY <1>1
  <2>2. m = Least(I)
    BY DEF Min, Least
  <2>3. SelectInSeq(x, LAMBDA i : i = "bye") = m
    BY <1>4 DEF SelectInSeq
  <2> HIDE DEF m, I
  <2>4. m \in I /\ \A i \in I : m <= i
    BY <1>4, <2>1, <2>2, LeastIn
  <2> USE DEF I
  <2>5. m \in 1..Len(x) /\ x[m] = "bye" /\ m # 0
    BY <2>4
  <2>6. f = SubSeq(x, 1, m)
    BY <2>3, <2>5 DEF Frames
  <2>7. \A i \in 1..m - 1 : x[i] \notin Closers
    BY <1>1, <1>2, <2>4
  <2>8. x[m] \in Closers
    BY <1>2, <2>5
  <2>9. Over(x) /\ Talk(x) = SubSeq(x, 1, m)
    <3> HIDE DEF x
    <3>1. x \in Seq(A)
      BY DEF x
    <3> QED
      BY <2>5, <2>7, <2>8, <3>1, TalkIs
  <2>10. Talk(x) # <<>> /\ Last(Talk(x)) = "bye"
    <3>1. Talk(x) \in Seq(A) /\ Talk(x) # <<>> /\ Last(Talk(x)) \in Closers
      BY <2>9, TalkEnds
    <3>2. Last(Talk(x)) \in A
      <4> DEFINE t == Talk(x)
      <4> HIDE DEF t
      <4>1. t \in Seq(A) /\ t # <<>>
        BY <3>1 DEF t
      <4>2. Len(t) \in 1..Len(t)
        BY <4>1, LenProperties, EmptySeq
      <4>3. Last(t) \in A
        BY <4>1, <4>2, ElementOfSeq DEF Last
      <4> QED
        BY <4>3 DEF t
    <3>3. "stranger" \notin A /\ "keyless" \notin A
      BY MessageAssumption DEF Requests, Control
    <3> QED
      BY <3>1, <3>2, <3>3 DEF Closers
  <2> QED
    BY <2>6, <2>9, <2>10
<1> QED
  BY <1>3, <1>4

LEMMA ParsedTalk ==
    ASSUME NEW p, NEW cl \in Client(p), cl.shook, ~cl.closing,
           NEW A, A \subseteq Control \cup Message, cl.rx \in Seq(A)
    PROVE  /\ Parsed(cl).tx = cl.tx \o Owed(Talk(cl.rx))
           /\ Parsed(cl).closing <=> Over(cl.rx)
           /\ Surfaced(cl) = DataOf(Talk(cl.rx))
<1> DEFINE f == Frames(cl)
           asked == Only({"ping", "bye"}, f)
           a == [i \in DOMAIN asked |-> Answers[asked[i]]]
           rest == SubSeq(cl.rx, Len(f) + 1, Len(cl.rx))
           ends == cl.closing \/ (f # <<>> /\ Last(f) = "bye")
<1>1. f = Talk(cl.rx) /\ (f # <<>> /\ Last(f) = "bye" <=> Over(cl.rx))
  BY FramesTalk
<1>2. f \in Seq(A)
  BY <1>1, TalkEnds
<1>3. Parsed(cl) = [cl EXCEPT !.rx = rest, !.tx = cl.tx \o a, !.closing = ends]
  BY DEF Parsed
<1> HIDE DEF f
<1>4. a = Owed(f)
  BY <1>2, OwedLater
<1> HIDE DEF rest, a, ends
<1>5. Parsed(cl).tx = cl.tx \o a /\ Parsed(cl).closing = ends
  BY <1>3 DEF Client
<1> QED
  BY <1>1, <1>4, <1>5 DEF ends, Surfaced, DataOf, f

WrittenAs(p, cl, reset, w) ==
    /\ w \in Client(p) /\ w.shook = cl.shook /\ w.rx = cl.rx /\ (cl.closing => w.closing)
    /\ p \notin reset => w.closing = cl.closing
    /\ ~Sends(p, cl) => w = cl
    /\ Sends(p, cl) => cl.tx # <<>> /\ w.tx = IF p \in reset THEN cl.tx ELSE Tail(cl.tx)

LEMMA WrittenParts ==
    ASSUME NEW p, NEW cl \in Client(p), NEW reset
    PROVE  WrittenAs(p, cl, reset, Written(p, cl, reset))
<1> DEFINE w == Written(p, cl, reset)
<1>1. /\ cl.shook \in BOOLEAN /\ cl.closing \in BOOLEAN
      /\ cl.rx \in Seq(Range(Script[p])) /\ cl.tx \in Seq(Frame)
  BY ClientParts
<1>2. CASE ~Sends(p, cl)
  BY <1>2 DEF Written, WrittenAs
<1>3. CASE Sends(p, cl) /\ p \in reset
  <2>1. w = [cl EXCEPT !.closing = TRUE] /\ cl.tx # <<>>
    BY <1>3 DEF Written, Sends
  <2> HIDE DEF w
  <2>2. w \in Client(p) /\ w.shook = cl.shook /\ w.rx = cl.rx /\ w.tx = cl.tx /\ w.closing = TRUE
    BY <2>1 DEF Client
  <2> QED
    BY <1>3, <2>1, <2>2 DEF WrittenAs, w
<1>4. CASE Sends(p, cl) /\ p \notin reset
  <2>1. w = [cl EXCEPT !.tx = Tail(cl.tx)] /\ cl.tx # <<>>
    BY <1>4 DEF Written, Sends
  <2>2. Tail(cl.tx) \in Seq(Frame)
    BY <1>1, <2>1, HeadTailProperties
  <2> HIDE DEF w
  <2>3. /\ w \in Client(p) /\ w.shook = cl.shook /\ w.rx = cl.rx /\ w.tx = Tail(cl.tx)
        /\ w.closing = cl.closing
    BY <2>1, <2>2 DEF Client
  <2> QED
    BY <1>4, <2>1, <2>3 DEF WrittenAs, w
<1> QED
  BY <1>2, <1>3, <1>4

\* A client through all four.
Round(p, reset, r, k, q, w) ==
    /\ ReceivedAs(p, reset, r) /\ ShakenAs(p, r, k) /\ ParsedAs(p, k, q) /\ q = Parsed(k)
    /\ WrittenAs(p, q, reset, w)
    /\ client'[p] = w
    /\ down'[p] = IF Sends(p, q) /\ p \in there THEN Append(down[p], Head(q.tx)) ELSE down[p]
    /\ since'[p] = IF k.shook /\ ~client[p].shook THEN Len(aired') ELSE since[p]

\* A round of the I/O thread as a whole.
Rounds(reset, rr, k, q) ==
    /\ reset \subseteq Range(clients) \ there
    /\ \A p \in Peer : Round(p, reset, rr[p], k[p], q[p], client'[p])
    /\ inbound' = inbound \o FlattenSeq([i \in DOMAIN clients |-> Surfaced(k[clients[i]])])
    /\ DOMAIN down' = Peer

LEMMA RoundsDone ==
    ASSUME Typed, IoServe
    PROVE  \E reset, rr, k, q : Rounds(reset, rr, k, q)
<1> PICK reset \in SUBSET (Range(clients) \ there) :
         LET shaken == [p \in Peer |-> Shaken(Received(p, reset))]
             parsed == [p \in Peer |-> Parsed(shaken[p])]
         IN  /\ inbound' = inbound \o
                   FlattenSeq([i \in DOMAIN clients |-> Surfaced(shaken[clients[i]])])
             /\ since' = [p \in Peer |->
                   IF shaken[p].shook /\ ~client[p].shook THEN Len(aired') ELSE since[p]]
             /\ client' = [p \in Peer |-> Written(p, parsed[p], reset)]
             /\ down' = [p \in Peer |->
                   IF Sends(p, parsed[p]) /\ p \in there
                   THEN Append(down[p], Head(parsed[p].tx)) ELSE down[p]]
  BY DEF IoServe
<1> DEFINE rr == [p \in Peer |-> Received(p, reset)]
           k == [p \in Peer |-> Shaken(Received(p, reset))]
           q == [p \in Peer |-> Parsed(k[p])]
<1>1. ASSUME NEW p \in Peer PROVE Round(p, reset, rr[p], k[p], q[p], client'[p])
  <2>1. ReceivedAs(p, reset, rr[p])
    BY ReceivedParts
  <2>2. ShakenAs(p, rr[p], k[p])
    <3>1. rr[p] \in Client(p)
      BY <2>1 DEF ReceivedAs
    <3>2. k[p] = Shaken(rr[p])
      OBVIOUS
    <3> HIDE DEF rr, k
    <3> QED
      BY <3>1, <3>2, ShakenParts
  <2>3. ParsedAs(p, k[p], q[p])
    <3>1. k[p] \in Client(p)
      BY <2>2 DEF ShakenAs
    <3>2. q[p] = Parsed(k[p])
      OBVIOUS
    <3> HIDE DEF k, q
    <3> QED
      BY <3>1, <3>2, ParsedParts
  <2>4. WrittenAs(p, q[p], reset, client'[p])
    <3>1. q[p] \in Client(p)
      BY <2>3 DEF ParsedAs
    <3>2. client'[p] = Written(p, q[p], reset)
      OBVIOUS
    <3> HIDE DEF k, q
    <3> QED
      BY <3>1, <3>2, WrittenParts
  <2>0. q[p] = Parsed(k[p])
    OBVIOUS
  <2>5. /\ down'[p] = IF Sends(p, q[p]) /\ p \in there THEN Append(down[p], Head(q[p].tx)) ELSE down[p]
        /\ since'[p] = IF k[p].shook /\ ~client[p].shook THEN Len(aired') ELSE since[p]
    OBVIOUS
  <2> HIDE DEF rr, k, q
  <2> QED
    BY <2>0, <2>1, <2>2, <2>3, <2>4, <2>5 DEF Round
<1>2. /\ inbound' = inbound \o FlattenSeq([i \in DOMAIN clients |-> Surfaced(k[clients[i]])])
      /\ DOMAIN down' = Peer
  OBVIOUS
<1> HIDE DEF rr, k, q
<1>3. Rounds(reset, rr, k, q)
  BY <1>1, <1>2 DEF Rounds
<1> QED
  BY <1>3

\* What a round reads of a client.
LEMMA RoundReads ==
    ASSUME Typed, NEW p \in Peer, Stream(p), IoServe
    PROVE  /\ ReadOf(p) \in Seq(Range(Script[p])) /\ ReadOf(p)' \in Seq(Range(Script[p]))
           /\ ReadOf(p)' = IF p \in ready.r THEN ReadOf(p) \o up[p] ELSE ReadOf(p)
           /\ \E g \in Seq(Range(Script[p])) : ReadOf(p)' = ReadOf(p) \o g
<1> DEFINE I == Range(Script[p])
           Q == ReadOf(p)
           Q1 == ReadOf(p)'
           u == up[p]
<1>1. /\ u \in Seq(I) /\ Len(u) \in Nat /\ sent[p] \in 0..Len(Script[p]) /\ Script[p] \in Seq(I)
      /\ Len(Script[p]) \in Nat
  BY ScriptItems, LenProperties DEF Typed
<1>2. Q \in Seq(I)
  <2>1. \A i \in 1..sent[p] - Len(u) : Script[p][i] \in I
    BY <1>1, ElementOfSeq
  <2> QED
    BY <1>1, <2>1, SubSeqProperties DEF ReadOf
<1>3. Q1 = IF p \in ready.r THEN Q \o u ELSE Q
  <2>1. sent' = sent /\ up'[p] = IF p \in ready.r THEN <<>> ELSE up[p]
    BY DEF IoServe
  <2>2. p \in ready.r => sent'[p] - Len(up'[p]) = sent[p]
    BY <1>1, <2>1, EmptySeq
  <2> QED
    BY <2>1, <2>2 DEF ReadOf, Stream
<1>4. \E g \in Seq(I) : Q1 = Q \o g
  <2>1. Q = Q \o <<>> /\ <<>> \in Seq(I)
    BY <1>2, ConcatEmptySeq, EmptySeq
  <2> QED
    BY <1>1, <1>3, <2>1
<1>5. Q1 \in Seq(I)
  BY <1>1, <1>2, <1>3, ConcatProperties
<1> QED
  BY <1>2, <1>3, <1>4, <1>5

\* What is read of a client in a round, k, is surfaced and, q, answered.
Says(p, k, q) ==
  \E said \in Seq(Range(Script[p])) :
     /\ Talk(ReadOf(p)') = ReadOf(p) \o said
     /\ Only(Replies, q.tx) = Only(Replies, client[p].tx) \o Owed(said)
     /\ Surfaced(k) = DataOf(said)

\* What a round makes of what a client says.
LEMMA RoundTalk ==
    ASSUME Shape, Typed, NEW p \in Range(clients), p \in Peer, Stream(p), IoServe,
           ~client[p].closing, NEW reset, p \in there => p \notin reset,
           NEW r, NEW k, NEW q, NEW w, Round(p, reset, r, k, q, w)
    PROVE  /\ r.closing =>
                p \notin there /\ Surfaced(k) = <<>> /\ (k.shook <=> client[p].shook)
           /\ ~r.closing =>
                /\ q.closing <=> Over(ReadOf(p)')
                /\ Says(p, k, q)
           /\ q.shook => ReadOf(p)' # <<>>
           /\ Talk(ReadOf(p)) = ReadOf(p)
<1> DEFINE I == Range(Script[p])
           Q == ReadOf(p)
           Q1 == ReadOf(p)'
           u == up[p]
           tx == client[p].tx
           A == I \cap (Control \cup Message)
<1>1. /\ client[p] \in Client(p) /\ r \in Client(p) /\ k \in Client(p) /\ q \in Client(p)
      /\ tx \in Seq(Frame) /\ r.tx \in Seq(Frame) /\ k.tx \in Seq(Frame) /\ q.tx \in Seq(Frame)
  <2>1. client[p] \in Client(p) /\ r \in Client(p) /\ k \in Client(p) /\ q \in Client(p)
    BY DEF Typed, Round, ReceivedAs, ShakenAs, ParsedAs
  <2> QED
    BY <2>1, ClientParts
<1>2. /\ u \in Seq(I) /\ Len(u) \in Nat /\ sent[p] \in 0..Len(Script[p]) /\ Script[p] \in Seq(I)
      /\ Len(Script[p]) \in Nat
  BY ScriptItems, LenProperties DEF Typed
<1>3. Q \in Seq(I)
  BY RoundReads
<1>4. /\ SubSeq(Script[p], 1, sent[p]) = Q \o u
      /\ client[p].rx = <<>> /\ (~client[p].shook => Len(u) = sent[p])
      /\ (client[p].shook => Q # <<>>) /\ ~Over(Q)
  BY DEF Stream
<1>5. Q1 = IF p \in ready.r THEN Q \o u ELSE Q
  BY RoundReads
<1>6. Talk(Q) = Q
  BY <1>3, <1>4, TalkParts
<1>7. \E g \in Seq(I) : Q1 = Q \o g
  BY RoundReads
<1>9. ~client[p].shook => Q = <<>> /\ Q1 = IF p \in ready.r THEN u ELSE <<>>
  <2> SUFFICES ASSUME ~client[p].shook PROVE Q = <<>> /\ Q1 = IF p \in ready.r THEN u ELSE <<>>
    OBVIOUS
  <2>1. sent[p] - Len(u) = 0
    BY <1>2, <1>4
  <2>2. Q = <<>>
    BY <2>1, SubSeqEmpty DEF ReadOf
  <2> QED
    BY <1>2, <1>5, <2>2, ConcatEmptySeq
\* Every item but the first is a frame.
<1>10. \A n \in 2..Len(Script[p]) : Script[p][n] \in A
  <2>1. DOMAIN Script[p] = 1..Len(Script[p])
    BY <1>2, LenProperties
  <2>2. ASSUME NEW n \in 2..Len(Script[p]) PROVE Script[p][n] \in A
    <3>1. n \in DOMAIN Script[p] /\ n # 1
      BY <2>1
    <3>2. Script[p][n] \notin Requests /\ Script[p][n] \in I
      BY <1>2, <2>1, <3>1, ScriptAssumption, ElementOfSeq
    <3> QED
      BY <3>2, ScriptItems
  <2> QED
    BY <2>2
<1>11. client[p].shook => u \in Seq(A)
  <2> SUFFICES ASSUME client[p].shook PROVE u \in Seq(A)
    OBVIOUS
  <2> DEFINE n == sent[p] - Len(u)
             s == SubSeq(Script[p], 1, sent[p])
  <2>1. Len(Q) \in Nat /\ Len(Q) # 0
    BY <1>3, <1>4, LenProperties, EmptySeq
  <2>2. /\ Len(s) = sent[p] /\ \A i \in 1..sent[p] : s[i] = Script[p][i]
    <3>1. \A i \in 1..sent[p] : Script[p][i] \in I
      BY <1>2, ElementOfSeq
    <3>2. /\ Len(s) = IF 1 <= sent[p] THEN (sent[p] - 1) + 1 ELSE 0
          /\ \A i \in 1..(sent[p] - 1) + 1 : s[i] = Script[p][(1 + i) - 1]
      BY <1>2, <3>1, SubSeqProperties
    <3> HIDE DEF s
    <3>3. sent[p] \in Nat
      BY <1>2
    <3>4. Len(s) = sent[p]
      BY <3>2, <3>3
    <3>5. \A i \in 1..sent[p] : i \in 1..(sent[p] - 1) + 1 /\ (1 + i) - 1 = i
      BY <3>3
    <3> QED
      BY <3>2, <3>4, <3>5
  <2> HIDE DEF s
  <2>3. /\ s = Q \o u /\ Len(s) = Len(Q) + Len(u)
        /\ \A i \in 1..Len(Q) + Len(u) : s[i] = IF i <= Len(Q) THEN Q[i] ELSE u[i - Len(Q)]
    <3>1. s = Q \o u
      BY <1>4 DEF s
    <3> QED
      BY <1>2, <1>3, <3>1, ConcatProperties
  <2>4. ASSUME NEW i \in 1..Len(u) PROVE u[i] \in A
    <3> DEFINE j == Len(Q) + i
    <3>1. j \in 2..Len(Script[p]) /\ j \in 1..sent[p] /\ j \in 1..Len(Q) + Len(u) /\ ~(j <= Len(Q))
          /\ j - Len(Q) = i
      BY <1>2, <2>1, <2>2, <2>3
    <3> HIDE DEF j, A
    <3>2. u[i] = Script[p][j]
      BY <2>2, <2>3, <3>1
    <3> QED
      BY <1>10, <3>1, <3>2
  <2> HIDE DEF A
  <2>5. u \in [1..Len(u) -> A]
    <3>1. u \in [1..Len(u) -> I]
      BY <1>2, LenProperties
    <3> QED
      BY <2>4, <3>1
  <2> QED
    BY <1>2, <2>5, SeqOfLength
<1>12. A \subseteq Control \cup Message /\ A \subseteq I
  OBVIOUS
<1>13. Only(Replies, r.tx) = Only(Replies, tx)
  <2>1. pending \in Seq(Range(Broadcasts)) /\ Range(Broadcasts) \subseteq Frame
    BY DEF Typed, Frame
  <2>2. pending \in Seq(Frame)
    BY <2>1, SeqMonotonic
  <2>3. Only(Replies, pending) = <<>>
    BY <2>1, BroadcastAssumption, OnlyNone
  <2>4. Only(Replies, tx \o pending) = Only(Replies, tx) \o Only(Replies, pending)
    BY ONLY <1>1, <2>2, OnlyConcat
  <2>5. Only(Replies, tx) \in Seq(Frame \cap Replies)
    BY <1>1, OnlyType
  <2>6. Only(Replies, tx) \o <<>> = Only(Replies, tx)
    BY <2>5, ConcatEmptySeq
  <2>7. r.tx = tx \o pending \/ r.tx = tx
    BY DEF Round, ReceivedAs
  <2> QED
    BY <2>3, <2>4, <2>6, <2>7
<1>14. Only(Replies, tx) \in Seq(Frame \cap Replies) /\ Only(Replies, k.tx) \in Seq(Frame \cap Replies)
  BY <1>1, OnlyType
<1> HIDE DEF I, Q, Q1, u, tx, A
<1>15. ~r.closing => r.rx = IF p \in ready.r THEN u ELSE <<>>
  <2> SUFFICES ASSUME ~r.closing PROVE r.rx = IF p \in ready.r THEN u ELSE <<>>
    OBVIOUS
  <2>1. r.rx = IF p \in ready.r THEN <<>> \o u ELSE <<>>
    BY <1>4 DEF Round, ReceivedAs, u
  <2> QED
    BY <1>2, <2>1, ConcatEmptySeq
<1>16. ~r.closing /\ p \in ready.r => u # <<>>
  BY DEF Round, ReceivedAs, u
<1>17. (r.shook <=> client[p].shook) /\ (k.shook <=> q.shook)
  BY DEF Round, ReceivedAs, ParsedAs
\* Nothing is done with a client that is not upgraded or is to be closed.
<1>18. ASSUME ~k.shook \/ k.closing
       PROVE  /\ Surfaced(k) = <<>> /\ q.tx = k.tx /\ (q.closing <=> k.closing)
  <2>1. Frames(k) = <<>>
    BY <1>18 DEF Frames
  <2>2. Surfaced(k) = <<>>
    BY <2>1, OnlyEmpty DEF Surfaced
  <2> QED
    BY <1>1, <1>18, <2>2, ClientParts DEF Round, ParsedAs
<1>19. ASSUME r.closing
       PROVE  p \notin there /\ Surfaced(k) = <<>> /\ (k.shook <=> client[p].shook)
  <2>1. k = r
    BY <1>19 DEF Round, ShakenAs
  <2>2. p \in ready.r /\ (u = <<>> \/ p \in reset)
    BY <1>1, <1>19, ClientParts DEF Round, ReceivedAs, u
  <2>3. p \notin there
    BY <2>2 DEF Shape, u
  <2> QED
    BY <1>17, <1>18, <1>19, <2>1, <2>3
<1> DEFINE Said(said) == /\ Talk(Q1) = Q \o said
                         /\ Only(Replies, q.tx) = Only(Replies, tx) \o Owed(said)
                         /\ Surfaced(k) = DataOf(said)
<1>20. Owed(<<>>) = <<>> /\ DataOf(<<>>) = <<>> /\ <<>> \in Seq(I) /\ Q \o <<>> = Q
       /\ Only(Replies, tx) \o <<>> = Only(Replies, tx)
  BY <1>3, <1>14, OwedNothing, OnlyEmpty, EmptySeq, ConcatEmptySeq DEF DataOf
\* The client is upgraded already.
<1>21. ASSUME ~r.closing, client[p].shook
       PROVE  (q.closing <=> Over(Q1)) /\ \E said \in Seq(I) : Said(said)
  <2>1. k = r /\ k.shook /\ ~k.closing
    BY <1>17, <1>21 DEF Round, ShakenAs
  <2>2. k.rx \in Seq(A)
    BY <1>11, <1>15, <1>21, <2>1, EmptySeq
  <2>3. /\ q.tx = k.tx \o Owed(Talk(k.rx)) /\ (q.closing <=> Over(k.rx))
        /\ Surfaced(k) = DataOf(Talk(k.rx))
    <3>1. q = Parsed(k)
      BY DEF Round
    <3> QED
      BY <1>1, <1>12, <2>1, <2>2, <3>1, ParsedTalk
  <2>4. k.rx \in Seq(I) /\ Talk(k.rx) \in Seq(I)
    <3>1. k.rx \in Seq(I)
      BY <1>12, <2>2, SeqMonotonic
    <3> QED
      BY <3>1, TalkEnds
  <2>5. Q1 = Q \o k.rx
    BY <1>5, <1>15, <1>20, <1>21, <2>1 DEF Q1, Q, u
  <2>6. (Over(Q1) <=> Over(k.rx)) /\ Talk(Q1) = Q \o Talk(k.rx)
    BY <1>3, <1>4, <2>4, <2>5, TalkConcat
  <2>7. Only(Replies, q.tx) = Only(Replies, tx) \o Owed(Talk(k.rx))
    <3>1. Owed(Talk(k.rx)) \in Seq(Replies)
      BY <2>4, OwedConcat
    <3> PICK o \in Seq(Replies) : o = Owed(Talk(k.rx))
      BY <3>1
    <3>2. o \in Seq(Frame) /\ Only(Replies, o) = o
      <4>1. o \in Seq(Frame)
        BY SeqMonotonic DEF Frame
      <4> QED
        BY <4>1, OnlyAll
    <3>3. Only(Replies, k.tx \o o) = Only(Replies, k.tx) \o Only(Replies, o)
      <4>1. k.tx \in Seq(Frame) /\ o \in Seq(Frame)
        BY ONLY <1>1, <3>2
      <4> QED
        BY ONLY <4>1, OnlyConcat
    <3> QED
      BY <1>13, <2>1, <2>3, <3>2, <3>3
  <2>8. Said(Talk(k.rx))
    BY <2>3, <2>6, <2>7
  <2> HIDE DEF Said
  <2> QED
    BY <2>3, <2>4, <2>6, <2>8
\* Nothing has come of its request.
<1>22. ASSUME ~r.closing, ~client[p].shook, p \notin ready.r
       PROVE  (q.closing <=> Over(Q1)) /\ (\E said \in Seq(I) : Said(said)) /\ ~k.shook
  <2>1. k = r
    BY <1>15, <1>22 DEF Round, ShakenAs
  <2>2. ~k.shook /\ ~k.closing
    BY <1>17, <1>22, <2>1
  <2>3. Surfaced(k) = <<>> /\ q.tx = k.tx /\ ~q.closing
    BY <1>18, <2>2
  <2>4. Q1 = Q
    BY <1>5, <1>22 DEF Q1, Q
  <2>5. Said(<<>>)
    BY <1>6, <1>13, <1>20, <2>1, <2>3, <2>4 DEF Q
  <2> HIDE DEF Said
  <2> QED
    BY <1>4, <1>20, <2>2, <2>3, <2>4, <2>5
\* Its request has come.
<1>23. ASSUME ~r.closing, ~client[p].shook, p \in ready.r
       PROVE  (q.closing <=> Over(Q1)) /\ (\E said \in Seq(I) : Said(said)) /\ Q1 # <<>>
  <2> DEFINE h == Head(u)
             t == Tail(u)
  <2>1. u # <<>> /\ Q = <<>> /\ Q1 = u /\ r.rx = u /\ u = SubSeq(Script[p], 1, sent[p])
    <3>1. u # <<>> /\ Q = <<>> /\ Q1 = u /\ r.rx = u
      BY <1>9, <1>15, <1>16, <1>23 DEF Q, Q1, u
    <3>2. <<>> \o u = u
      BY <1>2, ConcatEmptySeq
    <3> QED
      BY <1>4, <3>1, <3>2 DEF Q
  <2>2. sent[p] \in 1..Len(Script[p]) /\ 1 \in 1..Len(Script[p])
    <3>1. sent[p] # 0
      <4> SUFFICES ASSUME sent[p] = 0 PROVE FALSE
        OBVIOUS
      <4>1. u = <<>>
        BY <2>1, SubSeqEmpty
      <4> QED
        BY <2>1, <4>1
    <3> QED
      BY <1>2, <3>1
  <2>3. h = Script[p][1] /\ t = SubSeq(Script[p], 2, sent[p])
    <3>1. /\ Head(SubSeq(Script[p], 1, sent[p])) = Script[p][1]
          /\ Tail(SubSeq(Script[p], 1, sent[p])) = SubSeq(Script[p], 1 + 1, sent[p])
      BY <1>2, <2>2, HeadTailOfSubSeq
    <3>2. 1 + 1 = 2
      OBVIOUS
    <3> QED
      BY ONLY <2>1, <3>1, <3>2
  <2>4. h \in Requests
    <3>1. 1 \in DOMAIN Script[p]
      BY <1>2, <2>2, LenProperties
    <3> QED
      BY <2>3, <3>1, ScriptAssumption
  <2>5. h \in I /\ <<h>> \in Seq(I) /\ u = <<h>> \o t /\ t \in Seq(I)
    <3>1. h \in I /\ t \in Seq(I)
      BY <1>2, <2>1, HeadTailProperties
    <3>2. u = <<h>> \o t
      <4>1. u \in Seq(I) /\ u # <<>>
        BY ONLY <1>2, <2>1
      <4> QED
        BY ONLY <4>1
    <3> QED
      BY <3>1, <3>2
  <2>6. t \in Seq(A)
    <3>1. \A i \in 2..sent[p] : Script[p][i] \in A
      BY <1>2, <1>10, <2>2
    <3>2. 2 \in Int /\ sent[p] \in Int
      BY <1>2
    <3>3. SubSeq(Script[p], 2, sent[p]) \in Seq(A)
      BY <3>1, <3>2, SubSeqProperties
    <3> QED
      BY <2>3, <3>3
  <2>7. h \in DOMAIN Owes /\ DataOf(<<h>>) = <<>>
    <3>1. <<h>> \in Seq({h}) /\ {h} \cap Message = {}
      BY <2>4, MessageAssumption
    <3> QED
      BY <2>4, <3>1, OnlyNone, OwesWhat DEF DataOf, Requests
  <2>8. /\ k.rx = t /\ k.tx = Append(r.tx, Owes[h])
        /\ (k.shook <=> h = "hello") /\ (k.closing <=> h # "hello")
    BY <1>17, <1>23, <2>1, <2>4 DEF Round, ShakenAs
  <2> HIDE DEF h, t
  <2>9. Only(Replies, k.tx) = Only(Replies, tx) \o Owed(<<h>>)
    <3> PICK a \in Replies : a = Owes[h]
      BY <2>7, OwesWhat
    <3>1. Owed(<<h>>) = <<a>>
      BY <2>7, OwedOne
    <3>2. <<a>> \in Seq(Frame) /\ a \in Frame /\ Only(Replies, <<a>>) = <<a>>
      <4>1. <<a>> \in Seq(Replies) /\ a \in Frame
        BY DEF Frame
      <4>2. <<a>> \in Seq(Frame)
        BY <4>1
      <4>3. Only(Replies, <<a>>) = <<a>>
        BY <4>1, OnlyAll
      <4> QED
        BY <4>1, <4>2, <4>3
    <3>3. k.tx = r.tx \o <<a>>
      BY <1>1, <2>8, <3>2, AppendIsConcat
    <3>4. Only(Replies, r.tx \o <<a>>) = Only(Replies, r.tx) \o Only(Replies, <<a>>)
      BY ONLY <1>1, <3>2, OnlyConcat
    <3> QED
      BY <1>13, <3>1, <3>2, <3>3, <3>4
  <2>10. CASE h # "hello"
    <3>1. Over(<<h>>) /\ Talk(<<h>>) = <<h>>
      <4>1. h \in Closers
        BY <2>4, <2>10 DEF Closers, Requests
      <4> QED
        BY <4>1, TalkOne
    <3>2. Over(Q1) /\ Talk(Q1) = <<h>>
      <4> PICK e \in Seq(I) : e = <<h>>
        BY <2>5
      <4>1. (Over(e \o t) <=> Over(e) \/ Over(t)) /\ Talk(e \o t) = IF Over(e) THEN Talk(e) ELSE e \o Talk(t)
        <5>1. e \in Seq(I) /\ t \in Seq(I)
          BY <2>5
        <5> QED
          BY ONLY <5>1, TalkConcat
      <4> QED
        BY <2>1, <2>5, <3>1, <4>1
    <3>3. k.closing /\ Surfaced(k) = <<>> /\ q.tx = k.tx /\ q.closing
      <4>1. k.closing
        BY <2>8, <2>10
      <4> QED
        BY <1>18, <4>1
    <3>4. <<>> \o <<h>> = <<h>>
      BY <2>5, ConcatEmptySeq
    <3>5. Said(<<h>>)
      BY <2>1, <2>7, <2>9, <3>2, <3>3, <3>4
    <3> HIDE DEF Said
    <3> QED
      BY <2>1, <2>5, <3>2, <3>3, <3>5
  <2>11. CASE h = "hello"
    <3>1. ~Over(<<h>>)
      BY <2>11, TalkOne DEF Closers
    <3>2. (Over(Q1) <=> Over(t)) /\ Talk(Q1) = <<h>> \o Talk(t)
      <4> PICK e \in Seq(I) : e = <<h>>
        BY <2>5
      <4>1. (Over(e \o t) <=> Over(e) \/ Over(t)) /\ Talk(e \o t) = IF Over(e) THEN Talk(e) ELSE e \o Talk(t)
        <5>1. e \in Seq(I) /\ t \in Seq(I)
          BY <2>5
        <5> QED
          BY ONLY <5>1, TalkConcat
      <4> QED
        BY <2>1, <2>5, <3>1, <4>1
    <3>3. k.shook /\ ~k.closing
      BY <2>8, <2>11
    <3>4. /\ q.tx = k.tx \o Owed(Talk(t)) /\ (q.closing <=> Over(t)) /\ Surfaced(k) = DataOf(Talk(t))
      <4>1. q = Parsed(k) /\ k.rx \in Seq(A)
        BY <2>6, <2>8 DEF Round
      <4> QED
        BY <1>1, <1>12, <2>8, <3>3, <4>1, ParsedTalk
    <3> DEFINE said == <<h>> \o Talk(t)
    <3>5. Talk(t) \in Seq(I) /\ said \in Seq(I)
      BY <2>5, TalkEnds, ConcatProperties
    <3>6. DataOf(said) = DataOf(Talk(t))
      <4>1. Only(Message, said) = Only(Message, <<h>>) \o Only(Message, Talk(t))
        BY ONLY <2>5, <3>5, OnlyConcat
      <4>2. Only(Message, Talk(t)) \in Seq(I \cap Message)
        BY <3>5, OnlyType
      <4>3. <<>> \o Only(Message, Talk(t)) = Only(Message, Talk(t))
        BY <4>2, ConcatEmptySeq
      <4> QED
        BY <2>7, <4>1, <4>3 DEF DataOf
    <3>7. Only(Replies, q.tx) = Only(Replies, tx) \o Owed(said)
      <4>1. Owed(said) = Owed(<<h>>) \o Owed(Talk(t)) /\ Owed(<<h>>) \in Seq(Replies)
            /\ Owed(Talk(t)) \in Seq(Replies)
        BY <2>5, <3>5, OwedConcat
      <4> PICK o \in Seq(Replies), a \in Seq(Replies) : o = Owed(Talk(t)) /\ a = Owed(<<h>>)
        BY <4>1
      <4>2. o \in Seq(Frame) /\ Only(Replies, o) = o
        <5>1. o \in Seq(Frame)
          BY SeqMonotonic DEF Frame
        <5> QED
          BY <5>1, OnlyAll
      <4>3. Only(Replies, k.tx \o o) = Only(Replies, k.tx) \o Only(Replies, o)
        <5>1. k.tx \in Seq(Frame) /\ o \in Seq(Frame)
          BY ONLY <1>1, <4>2
        <5> QED
          BY ONLY <5>1, OnlyConcat
      <4>4. (Only(Replies, tx) \o a) \o o = Only(Replies, tx) \o (a \o o)
        <5>1. Only(Replies, tx) \in Seq(Replies)
          <6>1. Frame \cap Replies \subseteq Replies
            OBVIOUS
          <6> QED
            BY <1>14, <6>1, SeqMonotonic
        <5>2. o \in Seq(Replies) /\ a \in Seq(Replies)
          OBVIOUS
        <5> QED
          BY ONLY <5>1, <5>2, ConcatAssociative, SMTT(30)
      <4> QED
        BY <2>9, <3>4, <4>1, <4>2, <4>3, <4>4
    <3>8. Talk(Q1) = Q \o said
      BY <2>1, <3>2, <3>5, ConcatEmptySeq
    <3> HIDE DEF said
    <3>9. Said(said)
      BY <3>4, <3>6, <3>7, <3>8
    <3> HIDE DEF Said
    <3> QED
      BY <2>1, <3>2, <3>4, <3>5, <3>9
  <2> QED
    BY <2>10, <2>11
<1>24. q.shook => Q1 # <<>>
  <2> SUFFICES ASSUME q.shook PROVE Q1 # <<>>
    OBVIOUS
  <2>1. CASE client[p].shook
    <3>1. PICK g \in Seq(I) : Q1 = Q \o g
      BY <1>7 DEF I, Q, Q1
    <3> QED
      BY <1>3, <1>4, <2>1, <3>1, ConcatEqualIffEmpty
  <2>2. CASE ~client[p].shook
    BY <1>17, <1>19, <1>22, <1>23, <2>2
  <2> QED
    BY <2>1, <2>2
<1>25. ~r.closing => (q.closing <=> Over(Q1)) /\ \E said \in Seq(I) : Said(said)
  BY <1>21, <1>22, <1>23
<1>26. (\E said \in Seq(I) : Said(said)) => Says(p, k, q)
  BY DEF Says, Said, I, Q, Q1, tx
<1> QED
  BY <1>6, <1>19, <1>24, <1>25, <1>26 DEF Q, Q1

\* What is read of a client, and that it is parsed to the end.
LEMMA RoundStream ==
    ASSUME Shape, Typed, NEW p \in Peer, Stream(p), IoServe,
           NEW reset, p \in there => p \notin reset, NEW r, NEW k, NEW q, NEW w, Round(p, reset, r, k, q, w)
    PROVE  Stream(p)'
<1>1. /\ sent' = sent /\ link' = link /\ clients' = clients
      /\ up'[p] = IF p \in ready.r THEN <<>> ELSE up[p]
  BY DEF IoServe
<1>2. /\ up[p] \in Seq(Range(Script[p])) /\ Len(up[p]) \in Nat /\ sent[p] \in 0..Len(Script[p])
      /\ Script[p] \in Seq(Range(Script[p])) /\ Len(<<>>) = 0 /\ Len(Script[p]) \in Nat
  BY ScriptItems, LenProperties, EmptySeq DEF Typed
<1>3. p \in ready.r => ReadOf(p)' = SubSeq(Script[p], 1, sent[p])
  <2> SUFFICES ASSUME p \in ready.r PROVE ReadOf(p)' = SubSeq(Script[p], 1, sent[p])
    OBVIOUS
  <2>1. sent'[p] - Len(up'[p]) = sent[p]
    BY <1>1, <1>2
  <2> QED
    BY <2>1 DEF ReadOf
<1>4. p \notin ready.r => ReadOf(p)' = ReadOf(p)
  BY <1>1 DEF ReadOf
<1>5. Len(up'[p]) <= sent'[p]
  BY <1>1, <1>2 DEF Stream
<1>6. SubSeq(Script[p], 1, sent'[p]) = ReadOf(p)' \o up'[p]
  <2>1. CASE p \in ready.r
    <3>1. SubSeq(Script[p], 1, sent[p]) \in Seq(Range(Script[p]))
      <4>1. \A i \in 1..sent[p] : Script[p][i] \in Range(Script[p])
        BY <1>2, ElementOfSeq
      <4> QED
        BY <1>2, <4>1, SubSeqProperties
    <3> QED
      BY <1>1, <1>3, <2>1, <3>1, ConcatEmptySeq
  <2>2. CASE p \notin ready.r
    BY <1>1, <1>4, <2>2 DEF Stream
  <2> QED
    BY <2>1, <2>2
<1>7. ASSUME link'[p] \in {"none", "queued"} PROVE Len(up'[p]) = sent'[p]
  <2>1. p \notin ready.r
    BY <1>1, <1>7 DEF Shape
  <2> QED
    BY <1>1, <1>7, <2>1 DEF Stream
<1>8. ASSUME p \in Range(clients), ~w.closing
      PROVE  w.rx = <<>> /\ (~w.shook => Len(up'[p]) = sent'[p])
  <2>1. /\ ~q.closing /\ ~k.closing /\ ~r.closing /\ ~client[p].closing
        /\ w.rx = q.rx /\ w.shook = q.shook /\ q.shook = k.shook
    BY <1>8 DEF Round, ReceivedAs, ShakenAs, ParsedAs, WrittenAs
  <2>2. client[p].rx = <<>> /\ (~client[p].shook => Len(up[p]) = sent[p])
    BY <1>8, <2>1 DEF Stream
  <2>3. r.rx = IF p \in ready.r THEN up[p] ELSE <<>>
    <3>1. r.rx = IF p \in ready.r THEN <<>> \o up[p] ELSE <<>>
      BY <2>1, <2>2 DEF Round, ReceivedAs
    <3> QED
      BY <1>2, <3>1, ConcatEmptySeq
  <2>4. CASE k.shook
    BY <2>1, <2>4 DEF Round, ParsedAs
  <2>5. CASE ~k.shook
    <3>1. r.rx = <<>> /\ k = r /\ ~client[p].shook
      BY <2>1, <2>5 DEF Round, ShakenAs, ReceivedAs
    <3>2. w.rx = <<>>
      BY <2>1, <3>1 DEF Round, ParsedAs
    <3>3. Len(up'[p]) = sent'[p]
      BY <1>1, <1>2, <2>2, <2>3, <3>1
    <3> QED
      BY <3>2, <3>3
  <2> QED
    BY <2>4, <2>5
<1>9. ASSUME p \in Range(clients)
      PROVE  /\ w.shook => ReadOf(p)' # <<>>
             /\ Over(ReadOf(p)') => w.closing
             /\ p \in there /\ w.closing => Over(ReadOf(p)')
  <2>1. /\ w.shook = q.shook /\ (q.shook <=> k.shook) /\ (r.shook <=> client[p].shook)
        /\ (client[p].closing => r.closing) /\ (r.closing => w.closing) /\ (q.closing => w.closing)
        /\ (p \in there => w.closing = q.closing) /\ (r.closing => k = r)
    BY DEF Round, ReceivedAs, ShakenAs, ParsedAs, WrittenAs
  <2>2. PICK g \in Seq(Range(Script[p])) : ReadOf(p)' = ReadOf(p) \o g
    BY RoundReads
  <2>3. ReadOf(p) \in Seq(Range(Script[p]))
    BY RoundReads
  <2>4. CASE client[p].closing
    <3>1. w.closing /\ (w.shook => client[p].shook)
      BY <2>1, <2>4
    <3>2. w.shook => ReadOf(p)' # <<>>
      BY <1>9, <2>2, <2>3, <3>1, ConcatEqualIffEmpty DEF Stream
    <3>3. p \in there => Over(ReadOf(p)')
      BY <1>9, <2>2, <2>3, <2>4, TalkGrows DEF Stream
    <3> QED
      BY <3>1, <3>2, <3>3
  <2>5. CASE ~client[p].closing
    <3>1. /\ r.closing => p \notin there
          /\ ~r.closing => (q.closing <=> Over(ReadOf(p)'))
          /\ q.shook => ReadOf(p)' # <<>>
      BY <1>9, <2>5, RoundTalk
    <3> QED
      BY <2>1, <3>1
  <2> QED
    BY <2>4, <2>5
<1>10. w = client'[p] /\ there' = there
  BY DEF Round, IoServe
<1> QED
  BY <1>1, <1>5, <1>6, <1>7, <1>8, <1>9, <1>10 DEF Stream

\* The messages of p among those that a round takes in.
LEMMA RoundMessages ==
    ASSUME Shape, Typed, NEW reset, NEW rr, NEW k, NEW q, Rounds(reset, rr, k, q), NEW p \in Peer
    PROVE  /\ inbound' \in Seq(Message)
           /\ From(p, inbound') = From(p, inbound) \o
                (IF p \in Range(clients) THEN Surfaced(k[p]) ELSE <<>>)
<1> DEFINE n == Len(clients)
           ss == [i \in 1..n |-> Surfaced(k[clients[i]])]
           A == Range(Script[p])
<1>1. n \in Nat /\ DOMAIN clients = 1..n /\ \A i \in 1..n : clients[i] \in Peer
  BY LenProperties, ElementOfSeq DEF Shape
<1>2. \A c \in Peer : Surfaced(k[c]) \in Seq(Range(Script[c]) \cap Message)
  <2> TAKE c \in Peer
  <2>1. k[c] \in Client(c)
    BY DEF Rounds, Round, ShakenAs
  <2>2. Frames(k[c]) \in Seq(Range(Script[c]))
    BY <2>1, FramesParts DEF FramesAs
  <2> QED
    BY <2>2, OnlyType DEF Surfaced
<1>3. \A c \in Peer : Surfaced(k[c]) \in Seq(Message)
  <2> TAKE c \in Peer
  <2>1. Range(Script[c]) \cap Message \subseteq Message
    OBVIOUS
  <2> QED
    BY <1>2, <2>1, SeqMonotonic
<1>4. ss \in [1..n -> Seq(Message)]
  BY <1>1, <1>3
<1>5. \A c \in Peer : c # p => Only(A, Surfaced(k[c])) = <<>>
  <2> TAKE c \in Peer
  <2> SUFFICES ASSUME c # p PROVE Only(A, Surfaced(k[c])) = <<>>
    OBVIOUS
  <2>1. Range(Script[c]) \cap Message \cap A = {}
    BY MessageAssumption
  <2>2. Surfaced(k[c]) \in Seq(Range(Script[c]) \cap Message)
    BY <1>2
  <2> HIDE DEF A
  <2> QED
    BY ONLY <2>1, <2>2, OnlyNone
<1>6. Only(A, Surfaced(k[p])) = Surfaced(k[p])
  <2>1. Range(Script[p]) \cap Message \subseteq A
    OBVIOUS
  <2> QED
    BY <1>2, <2>1, OnlyAll
<1>7. inbound' = inbound \o FlattenSeq(ss)
  BY <1>1 DEF Rounds
<1> HIDE DEF A
<1>8. /\ FlattenSeq(ss) \in Seq(Message)
      /\ Only(A, FlattenSeq(ss)) = IF p \in Range(clients) THEN Surfaced(k[p]) ELSE <<>>
  <2>1. ASSUME NEW j \in Nat \ {0}, \A i \in 1..n : i # j => clients[i] # p
        PROVE  /\ FlattenSeq(ss) \in Seq(Message)
               /\ Only(A, FlattenSeq(ss)) = IF j <= n THEN Only(A, ss[j]) ELSE <<>>
    <3>1. \A i \in 1..n : i # j => Only(A, ss[i]) = <<>>
      BY <1>1, <1>5, <2>1
    <3> HIDE DEF ss, n
    <3> QED
      BY <1>1, <1>4, <3>1, FlattenOnly
  <2>2. CASE p \in Range(clients)
    <3>1. PICK j \in 1..n : clients[j] = p
      BY <1>1, <2>2 DEF Range
    <3>2. \A i \in 1..n : i # j => clients[i] # p
      BY <1>1, <3>1 DEF Shape, Distinct
    <3>3. j \in Nat \ {0} /\ j <= n /\ ss[j] = Surfaced(k[p])
      BY <1>1, <3>1
    <3> HIDE DEF ss
    <3> QED
      BY <1>6, <2>1, <2>2, <3>2, <3>3
  <2>3. CASE p \notin Range(clients)
    <3>1. \A i \in 1..n : clients[i] # p
      BY <1>1, <2>3 DEF Range
    <3>2. n + 1 \in Nat \ {0} /\ ~(n + 1 <= n)
      BY <1>1
    <3> HIDE DEF ss
    <3> QED
      BY <2>1, <2>3, <3>1, <3>2
  <2> QED
    BY <2>2, <2>3
<1> HIDE DEF ss
<1>9. inbound \in Seq(Message)
  BY DEF Typed
<1>10. Only(A, inbound') = Only(A, inbound) \o Only(A, FlattenSeq(ss))
  BY <1>7, <1>8, <1>9, OnlyConcat
<1>11. inbound' \in Seq(Message)
  BY <1>7, <1>8, <1>9, ConcatProperties
<1> QED
  BY <1>8, <1>10, <1>11 DEF From, A

LEMMA GivenParts ==
    ASSUME NEW p, NEW h \in Seq(Message), NEW i \in Seq(Message)
    PROVE  /\ From(p, h \o i) = From(p, h) \o From(p, i)
           /\ From(p, h) \in Seq(Message) /\ From(p, i) \in Seq(Message)
<1>1. From(p, h \o i) = From(p, h) \o From(p, i)
  BY OnlyConcat DEF From
<1>2. /\ From(p, h) \in Seq(Message \cap Range(Script[p]))
      /\ From(p, i) \in Seq(Message \cap Range(Script[p]))
  BY OnlyType DEF From
<1>3. Message \cap Range(Script[p]) \subseteq Message
  OBVIOUS
<1> QED
  BY <1>1, <1>2, <1>3, SeqMonotonic

\* What is heard of a client follows what is read of it.
LEMMA RoundHears ==
    ASSUME Shape, Typed, Fresh, NEW p \in Peer, Stream(p), Hears(p), IoServe,
           NEW reset, NEW rr, NEW kk, NEW qq, Rounds(reset, rr, kk, qq)
    PROVE  Hears(p)'
<1> DEFINE r == rr[p]
           k == kk[p]
           q == qq[p]
           w == client'[p]
           x == IF p \in Range(clients) THEN Surfaced(k) ELSE <<>>
           I == Range(Script[p])
<1>1. Round(p, reset, r, k, q, w)
  BY DEF Rounds
<1>2. /\ inbound' \in Seq(Message) /\ From(p, inbound') = From(p, inbound) \o x
  BY RoundMessages
<1>3. k \in Client(p) /\ FramesAs(p, k, Frames(k))
  <2>1. k \in Client(p)
    BY <1>1 DEF Round, ShakenAs
  <2> QED
    BY <2>1, FramesParts
<1>4. x \in Seq(Message)
  <2>1. Surfaced(k) \in Seq(I \cap Message)
    BY <1>3, OnlyType DEF Surfaced, FramesAs
  <2>2. I \cap Message \subseteq Message
    OBVIOUS
  <2>3. Surfaced(k) \in Seq(Message)
    BY <2>1, <2>2, SeqMonotonic
  <2> QED
    BY <2>3, EmptySeq
<1> HIDE DEF r, k, q, w, x
<1>5. Given(p)' = Given(p) \o x
  <2>1. heard' = heard /\ heard \in Seq(Message) /\ inbound \in Seq(Message)
    BY DEF IoServe, Typed
  <2> DEFINE h == From(p, heard)
             i == From(p, inbound)
  <2>2. /\ From(p, heard \o inbound') = h \o From(p, inbound')
        /\ From(p, heard \o inbound) = h \o i
        /\ h \in Seq(Message) /\ i \in Seq(Message)
    BY <1>2, <2>1, GivenParts
  <2> HIDE DEF h, i
  <2>3. h \o (i \o x) = (h \o i) \o x
    BY ONLY <1>4, <2>2, ConcatAssociative, SMTT(30)
  <2>4. From(p, inbound') = i \o x
    BY <1>2 DEF i
  <2> QED
    BY <2>1, <2>2, <2>3, <2>4 DEF Given, From
<1>6. Given(p) \in Seq(Message)
  <2>1. heard \o inbound \in Seq(Message)
    BY ConcatProperties DEF Typed
  <2>2. Given(p) \in Seq(Message \cap I)
    BY <2>1, OnlyType DEF Given, From
  <2>3. Message \cap I \subseteq Message
    OBVIOUS
  <2> QED
    BY <2>2, <2>3, SeqMonotonic
<1>7. UNCHANGED <<link, hooked>>
  BY DEF IoServe
<1>8. /\ (client[p].shook => w.shook) /\ (w.shook <=> k.shook)
      /\ (client[p].closing => r.closing) /\ (r.closing => w.closing /\ k = r)
      /\ (r.shook <=> client[p].shook)
  BY <1>1 DEF Round, ReceivedAs, ShakenAs, ParsedAs, WrittenAs
<1> DEFINE Q == ReadOf(p)
           Q1 == ReadOf(p)'
<1>9. ASSUME ~w.shook, link'[p] # "cut" PROVE Given(p)' = <<>>
  <2>1. Given(p) = <<>>
    BY <1>7, <1>8, <1>9 DEF Hears
  <2>2. Surfaced(k) = <<>>
    BY <1>3, <1>8, <1>9, OnlyEmpty DEF FramesAs, Surfaced
  <2> QED
    BY <1>4, <1>5, <2>1, <2>2, ConcatEmptySeq DEF x
<1>10. ASSUME w.shook, hooked'
       PROVE  IF p \in there \/ ~w.closing THEN Given(p)' = DataOf(Talk(Q1))
              ELSE IsPrefix(Given(p)', DataOf(Talk(Q1)))
  <2>1. p \in Range(clients)
    <3> SUFFICES ASSUME p \notin Range(clients) PROVE FALSE
      OBVIOUS
    <3>1. /\ client[p].shook = FALSE /\ client[p].rx = <<>> /\ p \notin ready.r
      BY DEF Fresh, NewClient, Shape
    <3>2. r.rx = <<>> /\ ~r.shook
      <4>1. r.closing \/ r.rx = <<>>
        BY <1>1, <3>1 DEF Round, ReceivedAs
      <4>2. r.rx = client[p].rx
        BY <1>1, <3>1 DEF Round, ReceivedAs
      <4> QED
        BY <1>8, <3>1, <4>2
    <3>3. ~k.shook
      BY <1>1, <3>2 DEF Round, ShakenAs
    <3> QED
      BY <1>8, <1>10, <3>3
  <2>2. p \in there => p \notin reset
    BY DEF Rounds
  <2>3. x = Surfaced(k)
    BY <2>1 DEF x
  <2>4. Q \in Seq(I)
    BY RoundReads
  <2> PICK g \in Seq(I) : Q1 = Q \o g
    BY RoundReads
  <2>5. /\ Over(Q) => Talk(Q1) = Talk(Q)
        /\ IsPrefix(DataOf(Talk(Q)), DataOf(Talk(Q1)))
    BY <2>4, TalkGrows
  <2>6. DataOf(Talk(Q)) \in Seq(Message) /\ DataOf(Talk(Q1)) \in Seq(Message)
    <3>1. Q1 \in Seq(I)
      BY RoundReads
    <3>2. Talk(Q) \in Seq(I) /\ Talk(Q1) \in Seq(I)
      BY <2>4, <3>1, TalkEnds
    <3>3. DataOf(Talk(Q)) \in Seq(I \cap Message) /\ DataOf(Talk(Q1)) \in Seq(I \cap Message)
      BY <3>2, OnlyType DEF DataOf
    <3>4. I \cap Message \subseteq Message
      OBVIOUS
    <3> QED
      BY <3>3, <3>4, SeqMonotonic
\* Nothing more is heard of a client that is to be closed.
  <2>7. CASE r.closing
    <3>1. w.closing /\ client[p].shook
      BY <1>8, <1>10, <2>7
    <3>2. x = <<>>
      <4>1. Frames(k) = <<>>
        BY <1>8, <2>7 DEF Frames
      <4> QED
        BY <2>3, <4>1, OnlyEmpty DEF Surfaced
    <3>3. Given(p)' = Given(p)
      BY <1>5, <1>6, <3>2, ConcatEmptySeq
    <3>4. CASE client[p].closing
      <4>1. CASE p \in there
        <5>1. Over(Q) /\ Given(p) = DataOf(Talk(Q))
          BY <1>7, <1>10, <2>1, <3>1, <3>4, <4>1 DEF Stream, Hears
        <5> QED
          BY <2>5, <3>3, <4>1, <5>1
      <4>2. CASE p \notin there
        <5>1. IsPrefix(Given(p), DataOf(Talk(Q)))
          BY <1>7, <1>10, <3>1, <3>4, <4>2 DEF Hears
        <5>2. IsPrefix(Given(p), DataOf(Talk(Q1)))
          BY <1>6, <2>5, <2>6, <5>1, PrefixThrough
        <5> QED
          BY <3>1, <3>3, <4>2, <5>2
      <4> QED
        BY <4>1, <4>2
    <3>5. CASE ~client[p].closing
      <4>1. p \notin there
        BY <1>1, <2>1, <2>2, <2>7, <3>5, RoundTalk
      <4>2. Given(p) = DataOf(Talk(Q))
        BY <1>7, <1>10, <3>1, <3>5 DEF Hears
      <4> QED
        BY <2>5, <3>1, <3>3, <4>1, <4>2
    <3> QED
      BY <3>4, <3>5
  <2>8. CASE ~r.closing
    <3>1. ~client[p].closing
      BY <1>8, <2>8
    <3> DEFINE Said(said) == Talk(Q1) = Q \o said /\ Surfaced(k) = DataOf(said)
    <3>a. Says(p, k, q)
      BY <1>1, <2>1, <2>2, <2>8, <3>1, RoundTalk
    <3>b. \E said \in Seq(I) : Said(said)
      BY <3>a DEF Says
    <3>2. PICK said \in Seq(I) : Said(said)
      BY <3>b
    <3>3. Given(p) = DataOf(Q)
      <4>1. CASE client[p].shook
        <5>1. Talk(Q) = Q
          BY <1>1, <2>1, <2>2, <3>1, RoundTalk
        <5> QED
          BY <1>7, <1>10, <3>1, <4>1, <5>1 DEF Hears
      <4>2. CASE ~client[p].shook
        <5>1. link[p] = "open"
          BY <2>1 DEF Shape
        <5>2. Given(p) = <<>>
          BY <4>2, <5>1 DEF Hears
        <5>3. Len(up[p]) = sent[p] /\ sent[p] \in Nat
          BY <2>1, <3>1, <4>2 DEF Stream, Typed
        <5>4. sent[p] - Len(up[p]) = 0
          BY <5>3
        <5>5. Q = <<>>
          BY <5>4, SubSeqEmpty DEF ReadOf
        <5> QED
          BY <5>2, <5>5, OnlyEmpty DEF DataOf
      <4> QED
        BY <4>1, <4>2
    <3>4. DataOf(Q \o said) = DataOf(Q) \o DataOf(said)
      <4> PICK z \in Seq(I) : z = Q
        BY <2>4
      <4>1. Only(Message, z \o said) = Only(Message, z) \o Only(Message, said)
        <5>1. z \in Seq(I) /\ said \in Seq(I)
          OBVIOUS
        <5> QED
          BY ONLY <5>1, OnlyConcat
      <4> QED
        BY <4>1 DEF DataOf
    <3>5. Given(p)' = DataOf(Talk(Q1))
          BY <1>5, <2>3, <3>2, <3>3, <3>4 DEF Said
    <3> QED
      BY <2>6, <3>5, PrefixSelf
  <2> QED
    BY <2>7, <2>8
<1>11. there' = there
  BY DEF IoServe
<1> QED
  BY <1>9, <1>10, <1>11 DEF Hears, w

\* Casts() of what is sent.
LEMMA CastsParts ==
    ASSUME NEW s \in Seq(Frame), NEW t \in Seq(Frame)
    PROVE  /\ Casts(s \o t) = Casts(s) \o Casts(t)
           /\ Casts(s) \in Seq(Range(Broadcasts)) /\ Casts(t) \in Seq(Range(Broadcasts))
<1>1. Casts(s \o t) = Casts(s) \o Casts(t)
  BY OnlyConcat DEF Casts
<1>2. /\ Casts(s) \in Seq(Frame \cap Range(Broadcasts))
      /\ Casts(t) \in Seq(Frame \cap Range(Broadcasts))
  BY OnlyType DEF Casts
<1>3. Frame \cap Range(Broadcasts) \subseteq Range(Broadcasts)
  OBVIOUS
<1> QED
  BY <1>1, <1>2, <1>3, SeqMonotonic

LEMMA CastsReplies ==
    ASSUME NEW s \in Seq(Frame), NEW t \in Seq(Replies)
    PROVE  Casts(s \o t) = Casts(s)
<1>1. t \in Seq(Frame)
  BY SeqMonotonic DEF Frame
<1>2. Casts(t) = <<>>
  BY BroadcastAssumption, OnlyNone DEF Casts
<1>3. Casts(s \o t) = Casts(s) \o Casts(t) /\ Casts(s) \in Seq(Range(Broadcasts))
  BY <1>1, CastsParts
<1> QED
  BY <1>2, <1>3, ConcatEmptySeq

LEMMA CastsTail ==
    ASSUME NEW s \in Seq(Frame), NEW d \in Seq(Frame), s # <<>>
    PROVE  /\ Casts(Append(d, Head(s))) \o Casts(Tail(s)) = Casts(d) \o Casts(s)
           /\ Casts(s) = <<>> => Casts(Tail(s)) = <<>>
           /\ Append(d, Head(s)) \in Seq(Frame) /\ Tail(s) \in Seq(Frame)
<1> DEFINE h == Head(s)
           t == Tail(s)
           a == <<h>>
<1>1. h \in Frame /\ t \in Seq(Frame) /\ a \in Seq(Frame) /\ s = a \o t
  <2>1. h \in Frame /\ t \in Seq(Frame)
    BY HeadTailProperties
  <2>2. s = a \o t
    OBVIOUS
  <2> QED
    BY <2>1, <2>2
<1>2. Append(d, h) = d \o a /\ Append(d, h) \in Seq(Frame)
  BY <1>1, AppendIsConcat, AppendProperties
<1> HIDE DEF h, t, a
<1>3. /\ Casts(d \o a) = Casts(d) \o Casts(a) /\ Casts(s) = Casts(a) \o Casts(t)
      /\ Casts(d) \in Seq(Range(Broadcasts)) /\ Casts(a) \in Seq(Range(Broadcasts))
      /\ Casts(t) \in Seq(Range(Broadcasts))
  BY <1>1, CastsParts
<1>4. (Casts(d) \o Casts(a)) \o Casts(t) = Casts(d) \o (Casts(a) \o Casts(t))
  <2>1. /\ Casts(d) \in Seq(Range(Broadcasts)) /\ Casts(a) \in Seq(Range(Broadcasts))
        /\ Casts(t) \in Seq(Range(Broadcasts))
    BY <1>3
  <2> QED
    BY ONLY <2>1, ConcatAssociative, SMTT(30)
<1>5. Casts(s) = <<>> => Casts(t) = <<>>
  <2>1. /\ Len(Casts(a) \o Casts(t)) = Len(Casts(a)) + Len(Casts(t))
        /\ Len(Casts(a)) \in Nat /\ Len(Casts(t)) \in Nat
    BY <1>3, ConcatProperties, LenProperties
  <2>2. Casts(s) = <<>> => Len(Casts(t)) = 0
    BY <1>3, <2>1, EmptySeq
  <2> QED
    BY <1>3, <2>2, EmptySeq
<1> QED
  BY <1>1, <1>2, <1>3, <1>4, <1>5 DEF h, t

\* What a client is sent follows what goes out.
LEMMA RoundGets ==
    ASSUME Shape, Typed, NEW p \in Range(clients), p \in Peer, Gets(p), IoServe,
           NEW reset, p \in there => p \notin reset,
           NEW r, NEW k, NEW q, NEW w, Round(p, reset, r, k, q, w)
    PROVE  Gets(p)' /\ down'[p] \in Seq(Frame)
<1> DEFINE B == Range(Broadcasts)
           out == Casts(down[p])
           tx == Casts(client[p].tx)
           out1 == Casts(down'[p])
           tx1 == Casts(w.tx)
<1>1. /\ client[p] \in Client(p) /\ r \in Client(p) /\ k \in Client(p) /\ q \in Client(p)
      /\ w \in Client(p)
      /\ client[p].tx \in Seq(Frame) /\ r.tx \in Seq(Frame) /\ k.tx \in Seq(Frame)
      /\ q.tx \in Seq(Frame) /\ w.tx \in Seq(Frame) /\ down[p] \in Seq(Frame)
  <2>1. /\ client[p] \in Client(p) /\ r \in Client(p) /\ k \in Client(p) /\ q \in Client(p)
        /\ w \in Client(p) /\ down[p] \in Seq(Frame)
    BY DEF Typed, Round, ReceivedAs, ShakenAs, ParsedAs, WrittenAs
  <2> QED
    BY <2>1, ClientParts
<1>2. /\ (client[p].shook <=> r.shook) /\ (r.shook => k.shook) /\ (k.shook <=> q.shook)
      /\ (q.shook <=> w.shook)
      /\ (client[p].closing => r.closing) /\ (r.closing => k.closing)
      /\ (k.closing => q.closing) /\ (q.closing => w.closing)
  BY DEF Round, ReceivedAs, ShakenAs, ParsedAs, WrittenAs
<1>3. Casts(q.tx) = Casts(r.tx)
  <2>1. Casts(q.tx) = Casts(k.tx)
    <3>1. PICK a \in Seq(Replies) : q.tx = k.tx \o a
      BY DEF Round, ParsedAs
    <3> QED
      BY <1>1, <3>1, CastsReplies
  <2>2. Casts(k.tx) = Casts(r.tx)
    <3>1. CASE k = r
      BY <3>1
    <3>2. CASE k # r
      <4>1. PICK a \in Replies : k.tx = Append(r.tx, a)
        BY <3>2 DEF Round, ShakenAs
      <4>2. a \in Frame /\ <<a>> \in Seq(Replies)
        BY DEF Frame
      <4>3. k.tx = r.tx \o <<a>>
        BY <1>1, <4>1, <4>2, AppendIsConcat
      <4> QED
        BY <1>1, <4>2, <4>3, CastsReplies
    <3> QED
      BY <3>1, <3>2
  <2> QED
    BY <2>1, <2>2
<1>4. pending \in Seq(Frame) /\ Casts(pending) = pending /\ pending \in Seq(B) /\ aired \in Seq(B)
  <2>1. pending \in Seq(B) /\ aired \in Seq(B) /\ B \subseteq Frame
    BY DEF Typed, Frame
  <2> QED
    BY <2>1, SeqMonotonic, OnlyAll DEF Casts
<1>5. /\ out \in Seq(B) /\ tx \in Seq(B) /\ Casts(r.tx) \in Seq(B)
  BY <1>1, CastsParts
<1>6. /\ Tuned(p) => Casts(r.tx) = tx \o pending
      /\ ~Tuned(p) => Casts(r.tx) = tx
  <2>1. r.tx = IF Tuned(p) THEN client[p].tx \o pending ELSE client[p].tx
    BY DEF Round, ReceivedAs
  <2>2. Casts(client[p].tx \o pending) = tx \o pending
    <3>1. Casts(client[p].tx \o pending) = Casts(client[p].tx) \o Casts(pending)
      BY ONLY <1>1, <1>4, CastsParts
    <3> QED
      BY <1>4, <3>1
  <2> QED
    BY <2>1, <2>2
<1>7. /\ p \in there => out1 \o tx1 = out \o Casts(r.tx)
      /\ p \notin there => out1 = out
      /\ Casts(r.tx) = <<>> => tx1 = <<>>
      /\ down'[p] \in Seq(Frame)
  <2>1. CASE ~Sends(p, q)
    <3>1. down'[p] = down[p] /\ w = q
      BY <2>1 DEF Round, WrittenAs
    <3> QED
      BY <1>1, <1>3, <3>1
  <2>2. CASE Sends(p, q)
    <3>1. /\ q.tx # <<>> /\ w.tx = IF p \in reset THEN q.tx ELSE Tail(q.tx)
          /\ down'[p] = IF p \in there THEN Append(down[p], Head(q.tx)) ELSE down[p]
      BY <2>2 DEF Round, WrittenAs
    <3>2. /\ Casts(Append(down[p], Head(q.tx))) \o Casts(Tail(q.tx)) = out \o Casts(q.tx)
          /\ Casts(q.tx) = <<>> => Casts(Tail(q.tx)) = <<>>
          /\ Append(down[p], Head(q.tx)) \in Seq(Frame)
      BY <1>1, <3>1, CastsTail
    <3> QED
      BY <1>1, <1>3, <3>1, <3>2
  <2> QED
    BY <2>1, <2>2
<1>8. aired' = aired \o pending /\ there' = there
  BY DEF IoServe
<1>9. since'[p] = IF k.shook /\ ~client[p].shook THEN Len(aired') ELSE since[p]
  BY DEF Round
<1>10. aired' \in Seq(B) /\ Len(aired') = Len(aired) + Len(pending) /\ Len(aired) \in Nat
       /\ Len(pending) \in Nat /\ Len(aired') \in Nat /\ Len(aired) <= Len(aired')
  <2>1. aired' \in Seq(B) /\ Len(aired') = Len(aired) + Len(pending)
    BY <1>4, <1>8, ConcatProperties
  <2>2. Len(aired) \in Nat /\ Len(pending) \in Nat
    BY <1>4, LenProperties
  <2> QED
    BY <2>1, <2>2
<1>11. client'[p] = w
  BY DEF Round
<1> HIDE DEF B
<1> DEFINE got == out \o tx
           got1 == out1 \o tx1
<1>12. /\ ~client[p].shook => got = <<>>
       /\ client[p].shook => /\ since[p] \in Nat /\ since[p] <= Len(aired)
                             /\ p \in there => IsPrefix(got, After(aired, since[p]))
                             /\ p \in there /\ ~client[p].closing => got = After(aired, since[p])
  BY DEF Gets
<1> HIDE DEF out, tx, out1, tx1
<1>13. got \in Seq(B)
  BY <1>5, ConcatProperties
<1>14. ASSUME ~w.shook PROVE got1 = <<>>
  <2>1. ~client[p].shook /\ ~Tuned(p)
    BY <1>2, <1>14 DEF Tuned
  <2>2. out = <<>> /\ tx = <<>>
    BY <1>5, <1>12, <2>1, ConcatEqualIffEmpty
  <2>3. Casts(r.tx) = <<>>
    BY <1>6, <2>1, <2>2
  <2>4. <<>> \o <<>> = <<>>
    BY EmptySeq, ConcatEmptySeq
  <2> QED
    BY <1>7, <2>2, <2>3, <2>4
<1>15. ASSUME w.shook, ~client[p].shook
       PROVE  /\ since'[p] \in Nat /\ since'[p] <= Len(aired')
              /\ p \in there => got1 = After(aired', since'[p])
  <2>1. since'[p] = Len(aired')
    BY <1>2, <1>9, <1>15
  <2>2. ~Tuned(p)
    BY <1>15 DEF Tuned
  <2>3. After(aired', since'[p]) = <<>>
    BY <1>10, <2>1, AfterAll
  <2>4. p \in there => got1 = <<>>
    BY <1>6, <1>7, <1>12, <1>15, <2>2
  <2>5. since'[p] \in Nat /\ since'[p] <= Len(aired')
    BY <1>10, <2>1
  <2> QED
    BY <2>3, <2>4, <2>5
<1>16. ASSUME w.shook, client[p].shook
       PROVE  /\ since'[p] \in Nat /\ since'[p] <= Len(aired')
              /\ p \in there => IsPrefix(got1, After(aired', since'[p]))
              /\ p \in there /\ ~w.closing => got1 = After(aired', since'[p])
  <2>1. since'[p] = since[p] /\ since[p] \in Nat /\ since[p] <= Len(aired)
    BY <1>9, <1>12, <1>16
  <2>0. since'[p] \in Nat /\ since'[p] <= Len(aired')
    BY <1>10, <2>1
  <2>2. /\ After(aired', since'[p]) = After(aired, since[p]) \o pending
        /\ After(aired, since[p]) \in Seq(B)
    <3>1. since[p] \in Nat /\ since[p] <= Len(aired) /\ aired \in Seq(B) /\ pending \in Seq(B)
      BY <1>4, <2>1
    <3>2. After(aired \o pending, since[p]) = After(aired, since[p]) \o pending
      BY ONLY <3>1, AfterConcat
    <3>3. After(aired, since[p]) \in Seq(B)
      BY ONLY <3>1, AfterConcat
    <3> QED
      BY <1>8, <2>1, <3>2, <3>3
  <2>3. CASE client[p].closing
    <3>1. w.closing /\ ~Tuned(p)
      BY <1>2, <2>3 DEF Tuned
    <3>2. p \in there => got1 = got
      BY <1>6, <1>7, <3>1
    <3>3. p \in there => IsPrefix(got, After(aired, since[p]) \o pending)
      BY <1>4, <1>12, <1>13, <1>16, <2>2, PrefixConcat
    <3> QED
      BY <2>0, <2>2, <3>1, <3>2, <3>3
  <2>4. CASE ~client[p].closing
    <3>1. Tuned(p)
      BY <1>16, <2>4 DEF Tuned
    <3>2. p \in there => got1 = out \o (tx \o pending)
      BY <1>6, <1>7, <3>1
    <3>3. out \o (tx \o pending) = got \o pending
      <4>1. out \in Seq(B) /\ tx \in Seq(B) /\ pending \in Seq(B)
        BY <1>4, <1>5
      <4> QED
        BY ONLY <4>1, ConcatAssociative, SMTT(30)
    <3>4. p \in there => got1 = After(aired', since'[p])
      BY <1>12, <1>16, <2>2, <2>4, <3>2, <3>3
    <3>5. After(aired', since'[p]) \in Seq(B)
      BY <1>4, <2>2, ConcatProperties
    <3>6. IsPrefix(After(aired', since'[p]), After(aired', since'[p]))
      BY <3>5, PrefixSelf
    <3> QED
      BY <2>0, <3>4, <3>6
  <2> QED
    BY <2>3, <2>4
<1>17. CASE w.shook /\ ~client[p].shook
  <2>1. After(aired', since'[p]) = <<>>
    <3>1. since'[p] = Len(aired')
      BY <1>2, <1>9, <1>17
    <3> QED
      BY <1>10, <3>1, AfterAll
  <2>2. IsPrefix(<<>>, <<>>)
    BY EmptySeq, PrefixSelf
  <2>3. p \in there => IsPrefix(got1, After(aired', since'[p]))
    BY <1>15, <1>17, <2>1, <2>2
  <2> QED
    BY <1>7, <1>8, <1>11, <1>15, <1>17, <2>3 DEF Gets, out1, tx1
<1>18. CASE w.shook /\ client[p].shook
  BY <1>7, <1>8, <1>11, <1>16, <1>18 DEF Gets, out1, tx1
<1>19. CASE ~w.shook
  BY <1>7, <1>11, <1>14, <1>19 DEF Gets, out1, tx1
<1> QED
  BY <1>17, <1>18, <1>19

\* What a client is answered follows what it says.
LEMMA RoundPays ==
    ASSUME Shape, Typed, NEW p \in Range(clients), p \in Peer, Stream(p), Pays(p), IoServe,
           NEW reset, p \in there => p \notin reset,
           NEW r, NEW k, NEW q, NEW w, Round(p, reset, r, k, q, w)
    PROVE  Pays(p)'
<1>0. there' = there /\ client'[p] = w
  BY DEF IoServe, Round
<1> SUFFICES ASSUME p \in there
             PROVE  Only(Replies, down'[p]) \o Only(Replies, w.tx) = Owed(Talk(ReadOf(p)'))
  BY <1>0 DEF Pays
<1> DEFINE I == Range(Script[p])
           Q == ReadOf(p)
           Q1 == ReadOf(p)'
           out == Only(Replies, down[p])
           tx == Only(Replies, client[p].tx)
<1>1. /\ q \in Client(p) /\ q.tx \in Seq(Frame) /\ client[p].tx \in Seq(Frame) /\ down[p] \in Seq(Frame)
  <2>1. client[p] \in Client(p) /\ q \in Client(p) /\ down[p] \in Seq(Frame)
    BY DEF Typed, Round, ParsedAs
  <2> QED
    BY <2>1, ClientParts
<1>2. out \o tx = Owed(Talk(Q))
  BY DEF Pays
<1>3. out \in Seq(Replies) /\ tx \in Seq(Replies)
  <2>1. out \in Seq(Frame \cap Replies) /\ tx \in Seq(Frame \cap Replies)
    BY <1>1, OnlyType
  <2>2. Frame \cap Replies \subseteq Replies
    OBVIOUS
  <2> HIDE DEF out, tx
  <2> QED
    BY <2>1, <2>2, SeqMonotonic
<1>4. Only(Replies, down'[p]) \o Only(Replies, w.tx) = out \o Only(Replies, q.tx)
  <2>1. CASE ~Sends(p, q)
    BY <2>1 DEF Round, WrittenAs
  <2>2. CASE Sends(p, q)
    <3>1. /\ q.tx # <<>> /\ w.tx = Tail(q.tx) /\ down'[p] = Append(down[p], Head(q.tx))
      BY <2>2 DEF Round, WrittenAs
    <3> QED
      BY <1>1, <3>1, OnlyMoves
  <2> QED
    BY <2>1, <2>2
<1>5. Q \in Seq(I)
  BY RoundReads
<1> HIDE DEF out, tx
<1>6. CASE client[p].closing
  <2>1. q.tx = client[p].tx
    <3>1. r.closing /\ r.tx = client[p].tx /\ k = r /\ q.tx = k.tx
      BY <1>6 DEF Round, ReceivedAs, ShakenAs, ParsedAs, Tuned
    <3> QED
      BY <3>1
  <2> PICK g \in Seq(I) : Q1 = Q \o g
    BY RoundReads
  <2>2. Over(Q)
    BY <1>6 DEF Stream
  <2>3. Talk(Q1) = Talk(Q)
    BY <1>5, <2>2, TalkGrows
  <2> QED
    BY <1>2, <1>4, <2>1, <2>3 DEF tx
<1>7. CASE ~client[p].closing
  <2>1. ~r.closing /\ Talk(Q) = Q
    BY <1>7, RoundTalk
  <2>2. PICK said \in Seq(I) : /\ Talk(Q1) = Q \o said
                               /\ Only(Replies, q.tx) = tx \o Owed(said)
    BY <1>7, <2>1, RoundTalk DEF tx, Says
  <2>3. Owed(Q \o said) = Owed(Q) \o Owed(said) /\ Owed(said) \in Seq(Replies)
    <3>1. Q \in Seq(I) /\ said \in Seq(I)
      BY <1>5
    <3> HIDE DEF Q, I
    <3> QED
      BY ONLY <3>1, OwedConcat
  <2>4. (out \o tx) \o Owed(said) = out \o (tx \o Owed(said))
    BY ONLY <1>3, <2>3, ConcatAssociative, SMTT(30)
  <2> QED
    BY <1>2, <1>4, <2>1, <2>2, <2>3, <2>4
<1> QED
  BY <1>6, <1>7

-----------------------------------------------------------------------------
\* Every step.

LEMMA ServeKeeps ==
    ASSUME PanelInv, IoServe
    PROVE  PanelInv'
<1>0. Shape /\ Typed /\ Fresh /\ Streams /\ Hearing /\ Getting
  BY DEF PanelInv
<1> PICK reset, rr, kk, qq : Rounds(reset, rr, kk, qq)
  BY <1>0, RoundsDone
<1>1. /\ io' = "round" /\ ready' = NoSets /\ pending' = <<>> /\ aired' = aired \o pending
      /\ up' = [p \in Peer |-> IF p \in ready.r THEN <<>> ELSE up[p]]
      /\ UNCHANGED <<running, clients, link, there, sent, heard>>
  BY DEF IoServe
<1>2. \A p \in Peer : Round(p, reset, rr[p], kk[p], qq[p], client'[p])
  BY DEF Rounds
<1>3. ASSUME NEW p \in Peer, p \notin Range(clients)
      PROVE  client'[p] = NewClient /\ down'[p] = <<>>
  <2> DEFINE r == rr[p]
             k == kk[p]
             q == qq[p]
             w == client'[p]
  <2>1. Round(p, reset, r, k, q, w)
    BY <1>2
  <2> HIDE DEF r, k, q, w
  <2>2. /\ client[p].shook = FALSE /\ client[p].closing = FALSE /\ client[p].rx = <<>>
        /\ client[p].tx = <<>> /\ p \notin ready.r /\ p \notin ready.w /\ down[p] = <<>>
    BY <1>0, <1>3 DEF Fresh, NewClient, Shape
  <2>3. r.shook = FALSE /\ r.closing = FALSE /\ r.rx = <<>> /\ r.tx = <<>>
    BY <1>3, <2>1, <2>2 DEF Round, ReceivedAs
  <2>4. k = r
    BY <2>1, <2>3 DEF Round, ShakenAs
  <2>5. q.shook = FALSE /\ q.closing = FALSE /\ q.rx = <<>> /\ q.tx = <<>>
    BY <2>1, <2>3, <2>4 DEF Round, ParsedAs
  <2>6. w = q /\ w \in Client(p) /\ down'[p] = down[p]
    BY <2>1, <2>2 DEF Round, WrittenAs, Sends
  <2>7. w = NewClient
    <3>1. /\ NewClient.shook = FALSE /\ NewClient.closing = FALSE
          /\ NewClient.rx = <<>> /\ NewClient.tx = <<>>
      BY DEF NewClient
    <3> QED
      BY <2>5, <2>6, <3>1, ClientEqual, NewClientType
  <2> QED
    BY <2>2, <2>6, <2>7 DEF w
<1>4. ASSUME NEW p \in Range(clients) PROVE Gets(p)' /\ Pays(p)' /\ down'[p] \in Seq(Frame)
  <2>1. p \in Peer /\ Stream(p)
    BY <1>0 DEF Shape, Streams
  <2>2. /\ Gets(p) /\ Pays(p) /\ Round(p, reset, rr[p], kk[p], qq[p], client'[p])
        /\ p \in there => p \notin reset
    BY <1>0, <1>2, <2>1 DEF Getting, Rounds
  <2> QED
    BY <1>0, <2>1, <2>2, RoundGets, RoundPays
<1>5. inbound' \in Seq(Message)
  <2>1. CASE Peer = {}
    <3>1. clients = <<>>
      <4>1. Len(clients) = 0
        <5> SUFFICES ASSUME Len(clients) # 0 PROVE FALSE
          OBVIOUS
        <5>1. clients \in Seq(Peer) /\ 1 \in 1..Len(clients)
          BY <1>0, LenProperties DEF Shape
        <5>2. clients[1] \in Peer
          BY <5>1, ElementOfSeq
        <5> QED
          BY <2>1, <5>2
      <4> QED
        BY <1>0, <4>1, EmptySeq DEF Shape
    <3> DEFINE ss == [i \in DOMAIN clients |-> Surfaced(kk[clients[i]])]
    <3>2. ss \in [1..0 -> Seq(Message)]
      BY <3>1
    <3>3. inbound' = inbound \o FlattenSeq(ss)
      BY DEF Rounds
    <3> HIDE DEF ss
    <3>4. PICK h : Joins(h, Message, 0, ss) /\ FlattenSeq(ss) = h[0]
      BY <3>2, FlattenParts
    <3>5. FlattenSeq(ss) = <<>> /\ inbound \in Seq(Message)
      BY <1>0, <3>4 DEF Joins, Typed
    <3> QED
      BY <3>3, <3>5, ConcatEmptySeq
  <2>2. CASE Peer # {}
    BY <1>0, <2>2, RoundMessages
  <2> QED
    BY <2>1, <2>2
<1>6. Shape'
  BY <1>0, <1>1 DEF Shape, NoSets, Distinct
<1>7. Typed'
  <2>1. aired' \in Seq(Range(Broadcasts)) /\ pending' \in Seq(Range(Broadcasts))
    BY <1>0, <1>1, ConcatProperties, EmptySeq DEF Typed
  <2>2. DOMAIN up' = Peer /\ DOMAIN down' = Peer /\ DOMAIN sent' = Peer /\ heard' \in Seq(Message)
    BY <1>0, <1>1 DEF Typed, Rounds
  <2>3. ASSUME NEW p \in Peer
        PROVE  /\ client'[p] \in Client(p) /\ down'[p] \in Seq(Frame)
               /\ up'[p] \in Seq(Range(Script[p])) /\ sent'[p] \in 0..Len(Script[p])
    <3>1. client'[p] \in Client(p)
      BY <1>2 DEF Round, WrittenAs
    <3>2. down'[p] \in Seq(Frame)
      <4>1. CASE p \in Range(clients)
        BY <1>4, <4>1
      <4>2. CASE p \notin Range(clients)
        BY <1>3, <4>2, EmptySeq
      <4> QED
        BY <4>1, <4>2
    <3>3. up'[p] \in Seq(Range(Script[p])) /\ sent'[p] \in 0..Len(Script[p])
      BY <1>0, <1>1, EmptySeq DEF Typed
    <3> QED
      BY <3>1, <3>2, <3>3
  <2> QED
    BY <1>5, <2>1, <2>2, <2>3 DEF Typed, Client, Frame
<1>8. Fresh'
  BY <1>1, <1>3 DEF Fresh
<1>9. Streams'
  <2>1. ASSUME NEW p \in Peer PROVE Stream(p)'
    <3>1. /\ Stream(p) /\ Round(p, reset, rr[p], kk[p], qq[p], client'[p])
          /\ p \in there => p \notin reset
      BY <1>0, <1>2 DEF Streams, Rounds
    <3> QED
      BY <1>0, <3>1, RoundStream
  <2> QED
    BY <2>1 DEF Streams
<1>10. Hearing'
  <2>1. ASSUME NEW p \in Peer PROVE Hears(p)'
    <3>1. Stream(p) /\ Hears(p)
      BY <1>0 DEF Streams, Hearing
    <3> QED
      BY <1>0, <3>1, RoundHears
  <2> QED
    BY <2>1 DEF Hearing
<1>11. Getting'
  BY <1>1, <1>4 DEF Getting
<1> QED
  BY <1>6, <1>7, <1>8, <1>9, <1>10, <1>11 DEF PanelInv

\* Connections that are opened or cut.
LEMMA NothingYet == Casts(<<>>) \o Casts(<<>>) = <<>>
<1>1. Casts(<<>>) = <<>>
  BY OnlyEmpty DEF Casts
<1> QED
  BY <1>1, ConcatEmptySeq, EmptySeq

LEMMA Rewired ==
    ASSUME PanelInv, NEW l, Connections(l), clients' \in Seq(Peer),
           Range(clients') = {p \in Peer : l[p] = "open"},
           \A p \in Peer : l[p] # "cut" => l[p] = link[p] \/ (link[p] = "queued" /\ l[p] = "open"),
           \A p \in Peer : client'[p] = IF p \in Range(clients) /\ p \in Range(clients')
                                        THEN client[p] ELSE NewClient,
           UNCHANGED <<aired, heard, hooked>>,
           pending' \in Seq(Range(Broadcasts)),
           inbound' = inbound \/ (inbound' = <<>> /\ clients' = <<>>)
    PROVE  Typed' /\ Fresh' /\ Streams' /\ Hearing' /\ Getting'
<1>0. Shape /\ Typed /\ Fresh /\ Streams /\ Hearing /\ Getting
  BY DEF PanelInv
<1>1. /\ link' = l /\ there' \subseteq there
      /\ DOMAIN up' = Peer /\ DOMAIN down' = Peer /\ DOMAIN sent' = Peer
      /\ \A p \in Peer : l[p] = "cut" => up'[p] = <<>> /\ down'[p] = <<>> /\ sent'[p] = 0
      /\ \A p \in Peer : l[p] # "cut" => /\ up'[p] = up[p] /\ down'[p] = down[p]
                                         /\ sent'[p] = sent[p] /\ since'[p] = since[p]
  BY DEF Connections
<1>2. ASSUME NEW p \in Peer
      PROVE  /\ p \in Range(clients) <=> link[p] = "open"
             /\ p \in Range(clients') <=> l[p] = "open"
             /\ l[p] # "cut" => link[p] # "cut"
             /\ p \in Range(clients) /\ l[p] # "cut" => p \in Range(clients')
             /\ p \notin Range(clients) => client[p] = NewClient /\ down[p] = <<>>
             /\ p \in Range(clients') /\ p \notin Range(clients) => link[p] = "queued"
  BY <1>0 DEF Shape, Fresh
<1>3. Typed'
  <2>1. inbound' \in Seq(Message) /\ heard' \in Seq(Message) /\ aired' \in Seq(Range(Broadcasts))
    BY <1>0, EmptySeq DEF Typed
  <2>2. ASSUME NEW p \in Peer
        PROVE  /\ client'[p] \in Client(p) /\ down'[p] \in Seq(Frame)
               /\ up'[p] \in Seq(Range(Script[p])) /\ sent'[p] \in 0..Len(Script[p])
    <3>1. client'[p] \in Client(p)
      BY <1>0, NewClientType DEF Typed
    <3>2. Len(Script[p]) \in Nat
      BY ScriptItems, LenProperties
    <3>3. CASE l[p] = "cut"
      <4>1. up'[p] = <<>> /\ down'[p] = <<>> /\ sent'[p] = 0
        BY <1>1, <3>3
      <4>2. 0 \in 0..Len(Script[p])
        BY <3>2
      <4> QED
        BY <3>1, <4>1, <4>2, EmptySeq
    <3>4. CASE l[p] # "cut"
      BY <1>0, <1>1, <3>1, <3>4 DEF Typed
    <3> QED
      BY <3>3, <3>4
  <2> QED
    BY <1>1, <2>1, <2>2 DEF Typed, Client, Frame
<1>4. Fresh'
  <2> SUFFICES ASSUME NEW p \in Peer, p \notin Range(clients')
               PROVE  client'[p] = NewClient /\ down'[p] = <<>>
    BY DEF Fresh
  <2> QED
    BY <1>1, <1>2
<1>5. ASSUME NEW p \in Peer PROVE Stream(p)'
  <2>1. Stream(p)
    BY <1>0 DEF Streams
  <2>2. CASE l[p] = "cut"
    <3>1. /\ up'[p] = <<>> /\ sent'[p] = 0 /\ Len(<<>>) = 0 /\ p \notin Range(clients')
          /\ link'[p] = "cut"
      BY <1>1, <1>2, <2>2, EmptySeq
    <3>2. SubSeq(Script[p], 1, 0) = <<>> /\ <<>> \o <<>> = <<>>
      BY SubSeqEmpty, ConcatEmptySeq, EmptySeq
    <3>3. ReadOf(p)' = <<>>
      <4>1. Len(up'[p]) = 0 /\ sent'[p] - 0 = 0
        BY <3>1
      <4> QED
        BY <3>2, <4>1 DEF ReadOf
    <3> QED
      BY <3>1, <3>2, <3>3 DEF Stream
  <2>3. CASE l[p] # "cut"
    <3>1. up'[p] = up[p] /\ sent'[p] = sent[p] /\ link'[p] = l[p]
      BY <1>1, <2>3
    <3>2. ReadOf(p)' = ReadOf(p)
      BY <3>1 DEF ReadOf
    <3>3. l[p] \in {"none", "queued"} => Len(up[p]) = sent[p]
      BY <2>1, <2>3 DEF Stream
    <3>4. ASSUME p \in Range(clients'), ~client'[p].closing
          PROVE  client'[p].rx = <<>> /\ (~client'[p].shook => Len(up[p]) = sent[p])
      <4>1. CASE p \in Range(clients)
        BY <2>1, <3>4, <4>1 DEF Stream
      <4>2. CASE p \notin Range(clients)
        <5>1. client'[p].rx = <<>> /\ link[p] = "queued"
          BY <1>2, <3>4, <4>2 DEF NewClient
        <5> QED
          BY <2>1, <5>1 DEF Stream
      <4> QED
        BY <4>1, <4>2
    <3>5. ASSUME p \in Range(clients')
          PROVE  /\ client'[p].shook => ReadOf(p) # <<>>
                 /\ Over(ReadOf(p)) => client'[p].closing
                 /\ p \in there' /\ client'[p].closing => Over(ReadOf(p))
      <4>1. CASE p \in Range(clients)
        BY <1>1, <2>1, <3>5, <4>1 DEF Stream
      <4>2. CASE p \notin Range(clients)
        <5>1. client'[p].shook = FALSE /\ client'[p].closing = FALSE /\ link[p] = "queued"
          BY <1>2, <3>5, <4>2 DEF NewClient
        <5>2. ReadOf(p) = <<>> /\ ~Over(ReadOf(p))
          <6>1. sent[p] - Len(up[p]) = 0
            <7>1. sent[p] \in 0..Len(Script[p]) /\ Len(Script[p]) \in Nat
              BY <1>0, ScriptItems, LenProperties DEF Typed
            <7> QED
              BY <2>1, <5>1, <7>1 DEF Stream
          <6> QED
            BY <6>1, TalkNothing DEF ReadOf
        <5> QED
          BY <5>1, <5>2
      <4> QED
        BY <4>1, <4>2
    <3> QED
      BY <2>1, <3>1, <3>2, <3>3, <3>4, <3>5 DEF Stream
  <2> QED
    BY <2>2, <2>3
<1>6. ASSUME NEW p \in Peer PROVE Hears(p)'
  <2>1. Hears(p) /\ NewClient.shook = FALSE
    BY <1>0 DEF Hearing, NewClient
  <2>2. ASSUME ~client'[p].shook, l[p] # "cut" PROVE Given(p)' = <<>>
    <3>1. ~client[p].shook
      BY <1>2, <2>1, <2>2
    <3>2. Given(p) = <<>>
      BY <1>2, <2>1, <2>2, <3>1 DEF Hears
    <3>3. CASE inbound' = inbound
      BY <3>2, <3>3 DEF Given, From
    <3>4. CASE inbound' = <<>>
      <4>1. heard \in Seq(Message) /\ inbound \in Seq(Message) /\ heard' = heard
        BY <1>0 DEF Typed
      <4>2. /\ From(p, heard) \o From(p, inbound) = <<>>
            /\ From(p, heard) \in Seq(Message) /\ From(p, inbound) \in Seq(Message)
        BY <3>2, <4>1, GivenParts DEF Given
      <4>3. From(p, heard) = <<>>
        <5>1. /\ Len(From(p, heard) \o From(p, inbound)) = Len(From(p, heard)) + Len(From(p, inbound))
              /\ Len(From(p, heard)) \in Nat /\ Len(From(p, inbound)) \in Nat
          BY <4>2, ConcatProperties, LenProperties
        <5>2. Len(From(p, heard)) = 0
          BY <4>2, <5>1, EmptySeq
        <5> QED
          BY <4>2, <5>2, EmptySeq
      <4>4. heard \o <<>> = heard
        BY <4>1, ConcatEmptySeq
      <4> QED
        BY <3>4, <4>1, <4>3, <4>4 DEF Given, From
    <3> QED
      BY <3>3, <3>4
  <2>3. ASSUME client'[p].shook, hooked'
        PROVE  IF p \in there' \/ ~client'[p].closing THEN Given(p)' = DataOf(Talk(ReadOf(p)'))
               ELSE IsPrefix(Given(p)', DataOf(Talk(ReadOf(p)')))
    <3>1. p \in Range(clients) /\ p \in Range(clients') /\ client'[p] = client[p]
      BY <2>1, <2>3
    <3>2. l[p] = "open" /\ inbound' = inbound
      <4>1. clients' # <<>>
        BY <3>1 DEF Range
      <4> QED
        BY <1>2, <3>1, <4>1
    <3>3. ReadOf(p)' = ReadOf(p)
      <4>1. up'[p] = up[p] /\ sent'[p] = sent[p]
        BY <1>1, <3>2
      <4> QED
        BY <4>1 DEF ReadOf
    <3>4. IF p \in there \/ ~client[p].closing THEN Given(p) = DataOf(Talk(ReadOf(p)))
          ELSE IsPrefix(Given(p), DataOf(Talk(ReadOf(p))))
      BY <1>1, <2>1, <2>3, <3>1, <3>2 DEF Hears
    <3>5. Given(p)' = Given(p)
      BY <1>1, <3>2 DEF Given, From
    <3>6. p \in there' <=> p \in there
      BY <3>2 DEF Connections
    <3> QED
      BY <3>1, <3>3, <3>4, <3>5, <3>6
  <2> QED
    BY <1>1, <2>2, <2>3 DEF Hears
<1>7. ASSUME NEW p \in Range(clients') PROVE Gets(p)' /\ Pays(p)'
  <2>1. /\ p \in Peer /\ l[p] = "open" /\ down'[p] = down[p] /\ since'[p] = since[p]
        /\ up'[p] = up[p] /\ sent'[p] = sent[p] /\ ReadOf(p)' = ReadOf(p)
    <3>1. p \in Peer /\ l[p] = "open" /\ down'[p] = down[p] /\ since'[p] = since[p]
      BY <1>1
    <3>2. up'[p] = up[p] /\ sent'[p] = sent[p]
      BY <1>1, <3>1
    <3> QED
      BY <3>1, <3>2 DEF ReadOf
  <2>2. CASE p \in Range(clients)
    <3>1. client'[p] = client[p] /\ Gets(p) /\ Pays(p)
      BY <1>0, <2>1, <2>2 DEF Getting
    <3> QED
      BY <1>1, <2>1, <3>1 DEF Gets, Pays
  <2>3. CASE p \notin Range(clients)
    <3>1. client'[p].shook = FALSE /\ client'[p].tx = <<>> /\ down'[p] = <<>>
      BY <1>2, <2>1, <2>3 DEF NewClient
    <3>2. Owed(Talk(ReadOf(p)')) = <<>>
      <4>1. link[p] = "queued" /\ sent[p] \in 0..Len(Script[p]) /\ Len(Script[p]) \in Nat
        BY <1>0, <1>2, <2>1, <2>3, ScriptItems, LenProperties DEF Typed
      <4>2. sent[p] - Len(up[p]) = 0
        BY <1>0, <2>1, <4>1 DEF Streams, Stream
      <4> QED
        BY <2>1, <4>2, TalkNothing, OwedNothing DEF ReadOf
    <3>3. Only(Replies, <<>>) \o Only(Replies, <<>>) = <<>>
      BY OnlyEmpty, ConcatEmptySeq, EmptySeq
    <3> QED
      BY <3>1, <3>2, <3>3, NothingYet DEF Gets, Pays
  <2> QED
    BY <2>2, <2>3
<1> QED
  BY <1>3, <1>4, <1>5, <1>6, <1>7 DEF Streams, Hearing, Getting

LEMMA KeptParts ==
    ASSUME Shape
    PROVE  /\ Kept \in Seq(Peer) /\ Distinct(Kept)
           /\ Range(Kept) = {p \in Range(clients) : ~Finished(p)}
<1> DEFINE S == {p \in Peer : ~Finished(p)}
<1>1. clients \in Seq(Peer) /\ Distinct(clients) /\ Range(clients) \subseteq Peer
  BY RangeOfSeq DEF Shape
<1> HIDE DEF S
<1>2. Only(S, clients) \in Seq(Peer \cap S) /\ Peer \cap S \subseteq Peer
  BY <1>1, OnlyType
<1>3. Only(S, clients) \in Seq(Peer)
  BY <1>2, SeqMonotonic
<1>4. Distinct(Only(S, clients)) /\ Range(Only(S, clients)) = Range(clients) \cap S
  BY <1>1, OnlyDistinct, OnlyRange
<1> QED
  BY <1>1, <1>3, <1>4 DEF Kept, S

LEMMA RoundKeeps ==
    ASSUME PanelInv, Ends, IoRound
    PROVE  PanelInv'
<1>0. Shape /\ Typed /\ link \in [Peer -> {"none", "queued", "open", "cut"}]
  BY DEF PanelInv, Ends
<1>1. /\ UNCHANGED <<running, aired, heard, hooked, inbound>>
      /\ pending' \in Seq(Range(Broadcasts))
  BY <1>0 DEF IoRound, queues, Typed
<1>2. /\ Range(clients) = {p \in Peer : link[p] = "open"}
      /\ Kept \in Seq(Peer) /\ Distinct(Kept) /\ Range(Kept) = {p \in Range(clients) : ~Finished(p)}
  BY <1>0, KeptParts DEF Shape
<1>3. \A p \in Peer : /\ Reaped[p] = IF p \in Range(clients) /\ Finished(p) THEN "cut" ELSE link[p]
                      /\ CutOff("open")[p] = IF link[p] = "open" THEN "cut" ELSE link[p]
  BY DEF Reaped, CutOff
<1>4. {p \in Peer : Reaped[p] = "open"} = Range(Kept)
  BY <1>2, <1>3
<1>5. CASE running /\ Backlog # {}
  <2>1. PICK c \in Backlog : /\ clients' = Append(Kept, c)
                             /\ Connections([Reaped EXCEPT ![c] = "open"])
    BY <1>5 DEF IoRound
  <2>2. /\ io' = "serve" /\ ready' = [r |-> Readable, w |-> Unsent]
        /\ client' = [p \in Peer |-> IF p \in Range(Kept) THEN client[p] ELSE NewClient]
    BY <1>5 DEF IoRound
  <2>3. c \in Peer /\ link[c] = "queued" /\ c \notin Range(clients) /\ c \notin Range(Kept)
    BY <1>2 DEF Backlog
  <2> DEFINE l == [Reaped EXCEPT ![c] = "open"]
  <2>4. \A p \in Peer : l[p] = IF p = c THEN "open" ELSE Reaped[p]
    BY <2>3 DEF Reaped
  <2>5. Connections(l)
    BY <2>1
  <2> HIDE DEF l
  <2>6. /\ clients' \in Seq(Peer) /\ Range(clients') = Range(Kept) \cup {c} /\ Distinct(clients')
    BY <1>2, <2>1, <2>3, AppendProperties, RangeOfAppend, DistinctAppend
  <2>7. Range(clients') = {p \in Peer : l[p] = "open"}
    BY <1>4, <2>3, <2>4, <2>6
  <2>8. \A p \in Peer : l[p] # "cut" => l[p] = link[p] \/ (link[p] = "queued" /\ l[p] = "open")
    BY <1>3, <2>3, <2>4
  <2>9. \A p \in Peer : client'[p] = IF p \in Range(clients) /\ p \in Range(clients')
                                     THEN client[p] ELSE NewClient
    BY <1>2, <2>2, <2>3, <2>6
  <2>10. Shape'
    <3>1. link' = l
      BY <2>5 DEF Connections
    <3>2. /\ ready'.r \subseteq Range(Kept) /\ ready'.w \subseteq Range(Kept)
          /\ \A p \in ready'.r : p \in there' => up'[p] # <<>>
      BY <1>2, <2>2, <2>4, <2>5, <1>3 DEF Readable, Unsent, Connections
    <3> QED
      BY <2>2, <2>6, <2>7, <3>1, <3>2 DEF Shape, Distinct
  <2> QED
    BY <1>1, <2>5, <2>6, <2>7, <2>8, <2>9, <2>10, Rewired DEF PanelInv
<1>6. CASE running /\ Backlog = {}
  <2>1. /\ io' = "serve" /\ ready' = [r |-> Readable, w |-> Unsent]
        /\ client' = [p \in Peer |-> IF p \in Range(Kept) THEN client[p] ELSE NewClient]
        /\ clients' = Kept /\ Connections(Reaped)
    BY <1>6 DEF IoRound
  <2>2. Shape'
    <3>1. link' = Reaped
      BY <2>1 DEF Connections
    <3>2. /\ ready'.r \subseteq Range(Kept) /\ ready'.w \subseteq Range(Kept)
          /\ \A p \in ready'.r : p \in there' => up'[p] # <<>>
      BY <1>2, <1>3, <2>1 DEF Readable, Unsent, Connections
    <3> QED
      BY <1>2, <1>4, <2>1, <3>1, <3>2 DEF Shape, Distinct
  <2>3. \A p \in Peer : Reaped[p] # "cut" =>
           Reaped[p] = link[p] \/ (link[p] = "queued" /\ Reaped[p] = "open")
    BY <1>3
  <2>4. \A p \in Peer : client'[p] = IF p \in Range(clients) /\ p \in Range(clients')
                                     THEN client[p] ELSE NewClient
    BY <1>2, <2>1
  <2>5. clients' \in Seq(Peer) /\ Range(clients') = {p \in Peer : Reaped[p] = "open"}
    BY <1>2, <1>4, <2>1
  <2> HIDE DEF PanelInv
  <2> QED
    BY <1>1, <2>1, <2>2, <2>3, <2>4, <2>5, Rewired DEF PanelInv
<1>7. CASE ~running
  <2>1. /\ io' = "done" /\ ready' = NoSets /\ clients' = <<>>
        /\ client' = [p \in Peer |-> NewClient] /\ Connections(CutOff("open"))
    BY <1>7 DEF IoRound, Closed
  <2>2. clients' \in Seq(Peer) /\ Distinct(clients') /\ Range(clients') = {}
    BY <2>1, EmptySeq DEF Distinct, Range
  <2>3. {p \in Peer : CutOff("open")[p] = "open"} = {}
    BY <1>3
  <2>4. Shape'
    <3>1. link' = CutOff("open")
      BY <2>1 DEF Connections
    <3> QED
      BY <1>1, <1>7, <2>1, <2>2, <2>3, <3>1 DEF Shape, Distinct, NoSets
  <2>5. \A p \in Peer : CutOff("open")[p] # "cut" =>
           CutOff("open")[p] = link[p] \/ (link[p] = "queued" /\ CutOff("open")[p] = "open")
    BY <1>3
  <2>6. \A p \in Peer : client'[p] = IF p \in Range(clients) /\ p \in Range(clients')
                                     THEN client[p] ELSE NewClient
    BY <2>1, <2>2
  <2> QED
    BY <1>1, <2>1, <2>2, <2>3, <2>4, <2>5, <2>6, Rewired DEF PanelInv
<1> QED
  BY <1>5, <1>6, <1>7

LEMMA StopKeeps ==
    ASSUME PanelInv, StopEnds
    PROVE  PanelInv'
<1>0. Shape /\ Typed /\ Fresh
  BY DEF PanelInv
<1>1. /\ io = "done" /\ io' = "none" /\ pending' = <<>> /\ inbound' = <<>>
      /\ Connections(CutOff("queued"))
      /\ UNCHANGED <<running, ready, clients, client, hooked, aired, heard>>
  BY DEF StopEnds, Cleared
<1>2. clients = <<>> /\ ~running /\ Range(clients) = {} /\ clients \in Seq(Peer)
      /\ Range(clients) = {p \in Peer : link[p] = "open"}
  BY <1>0, <1>1 DEF Shape, Range
<1>3. \A p \in Peer : CutOff("queued")[p] = IF link[p] = "queued" THEN "cut" ELSE link[p]
  BY DEF CutOff
<1>4. Range(clients') = {p \in Peer : CutOff("queued")[p] = "open"}
  BY <1>1, <1>2, <1>3
<1>5. Shape'
  <2>1. link' = CutOff("queued")
    BY <1>1 DEF Connections
  <2> QED
    BY <1>0, <1>1, <1>2, <1>4, <2>1 DEF Shape, Distinct
<1>6. \A p \in Peer : CutOff("queued")[p] # "cut" =>
         CutOff("queued")[p] = link[p] \/ (link[p] = "queued" /\ CutOff("queued")[p] = "open")
  BY <1>3
<1>7. \A p \in Peer : client'[p] = IF p \in Range(clients) /\ p \in Range(clients')
                                   THEN client[p] ELSE NewClient
  BY <1>0, <1>1, <1>2 DEF Fresh
<1>8. pending' \in Seq(Range(Broadcasts)) /\ clients' \in Seq(Peer) /\ clients' = <<>>
  BY <1>1, <1>2, EmptySeq
<1> QED
  BY <1>1, <1>4, <1>5, <1>6, <1>7, <1>8, Rewired DEF PanelInv

LEMMA Undisturbed ==
    ASSUME PanelInv, pending' \in Seq(Range(Broadcasts)), there' \subseteq there,
           UNCHANGED <<clients, client, inbound, heard, hooked, aired, link, sent, up, down, since>>,
           Shape'
    PROVE  PanelInv'
<1>0. Typed /\ Fresh /\ Streams /\ Hearing /\ Getting
  BY DEF PanelInv
<1>1. Typed'
  BY <1>0 DEF Typed, Client, Frame
<1>2. Fresh'
  BY <1>0 DEF Fresh
<1>3. ASSUME NEW p \in Peer PROVE Stream(p)'
  BY <1>0 DEF Streams, Stream, ReadOf
<1>4. ASSUME NEW p \in Peer PROVE Hears(p)'
  <2>1. Hears(p) /\ Given(p)' = Given(p) /\ ReadOf(p)' = ReadOf(p)
    BY <1>0 DEF Hearing, Given, From, ReadOf
  <2>2. IsPrefix(Given(p), Given(p))
    <3>1. heard \o inbound \in Seq(Message)
      BY <1>0, ConcatProperties DEF Typed
    <3>2. Given(p) \in Seq(Message)
      BY <3>1, GivenParts DEF Given
    <3> QED
      BY <3>2, PrefixSelf
  <2> HIDE DEF Given
  <2> QED
    BY <2>1, <2>2 DEF Hears
<1>5. ASSUME NEW p \in Range(clients) PROVE Gets(p)' /\ Pays(p)'
  BY <1>0 DEF Getting, Gets, Pays, ReadOf
<1> QED
  BY <1>1, <1>2, <1>3, <1>4, <1>5 DEF PanelInv, Streams, Hearing, Getting

LEMMA ConnectKeeps ==
    ASSUME PanelInv, Ends, NEW c \in Peer, Connect(c)
    PROVE  PanelInv'
<1>0. Shape /\ Typed /\ Fresh /\ Streams /\ Hearing /\ Getting /\ DOMAIN link = Peer
  BY DEF PanelInv, Ends
<1>1. /\ link[c] = "none" /\ link' = [link EXCEPT ![c] = "queued"] /\ there' = there \cup {c}
      /\ UNCHANGED <<clients, client, ready, io, running, pending, inbound, heard, hooked, aired,
                     sent, up, down, since>>
  BY DEF Connect, server, queues, history
<1>2. c \notin Range(clients)
  BY <1>0, <1>1 DEF Shape
<1>3. Shape'
  <2>1. {p \in Peer : link'[p] = "open"} = {p \in Peer : link[p] = "open"}
    BY <1>0, <1>1
  <2> QED
    BY <1>0, <1>1, <2>1 DEF Shape, Distinct
<1>4. Typed' /\ Fresh'
  BY <1>0, <1>1 DEF Typed, Client, Frame, Fresh
<1>5. ASSUME NEW p \in Peer PROVE Stream(p)' /\ Hears(p)'
  <2>1. Stream(p) /\ Hears(p)
    BY <1>0 DEF Streams, Hearing
  <2>2. /\ link'[p] \in {"none", "queued"} => link[p] \in {"none", "queued"}
        /\ link'[p] # "cut" => link[p] # "cut"
    BY <1>0, <1>1
  <2>3. Given(p)' = Given(p) /\ ReadOf(p)' = ReadOf(p)
    BY <1>1 DEF Given, From, ReadOf
  <2>4. p # c => (p \in there' <=> p \in there)
    BY <1>1
  <2>5. p = c => p \notin Range(clients) /\ client[p].shook = FALSE
    BY <1>0, <1>2 DEF Fresh, NewClient
  <2>6. Stream(p)'
    BY <1>1, <2>1, <2>2, <2>3, <2>4, <2>5 DEF Stream
  <2>7. Hears(p)'
    BY <1>1, <2>1, <2>2, <2>3, <2>4, <2>5 DEF Hears
  <2> QED
    BY <2>6, <2>7
<1>6. ASSUME NEW p \in Range(clients) PROVE Gets(p)' /\ Pays(p)'
  <2>1. p # c /\ (p \in there' <=> p \in there) /\ Gets(p) /\ Pays(p)
    BY <1>0, <1>1, <1>2 DEF Getting
  <2> QED
    BY <1>1, <2>1 DEF Gets, Pays, ReadOf
<1> QED
  BY <1>1, <1>3, <1>4, <1>5, <1>6 DEF PanelInv, Streams, Hearing, Getting

LEMMA SendKeeps ==
    ASSUME PanelInv, NEW c \in Peer, PeerSends(c)
    PROVE  PanelInv'
<1>0. Shape /\ Typed /\ Fresh /\ Streams /\ Hearing /\ Getting
  BY DEF PanelInv
<1> DEFINE I == Range(Script[c])
           s == Script[c]
           n == sent[c]
           u == up[c]
           x == Script[c][sent[c] + 1]
<1>1. /\ link[c] \in {"queued", "open"} /\ n < Len(s)
      /\ sent' = [sent EXCEPT ![c] = @ + 1] /\ up' = [up EXCEPT ![c] = Append(@, x)]
      /\ UNCHANGED <<clients, client, ready, io, running, pending, inbound, heard, hooked, aired,
                     link, there, down, since>>
  BY DEF PeerSends, server, queues, history
<1>2. /\ s \in Seq(I) /\ Len(s) \in Nat /\ n \in 0..Len(s) /\ u \in Seq(I) /\ Len(u) \in Nat
      /\ DOMAIN up = Peer /\ DOMAIN sent = Peer
  BY <1>0, ScriptItems, LenProperties DEF Typed
<1>3. n + 1 \in 1..Len(s) /\ x \in I
  BY <1>1, <1>2, ElementOfSeq
<1>4. /\ Append(u, x) \in Seq(I) /\ Len(Append(u, x)) = Len(u) + 1 /\ Append(u, x) = u \o <<x>>
      /\ <<x>> \in Seq(I)
  BY <1>2, <1>3, AppendProperties, AppendIsConcat
<1>5. up'[c] = Append(u, x) /\ sent'[c] = n + 1
  BY <1>1, <1>2
<1>6. ASSUME NEW p \in Peer, p # c PROVE up'[p] = up[p] /\ sent'[p] = sent[p]
  BY <1>1, <1>2, <1>6
<1>7. Stream(c) /\ Hears(c)
  BY <1>0 DEF Streams, Hearing
<1>8. SubSeq(s, 1, n + 1) = SubSeq(s, 1, n) \o <<x>>
  <2>1. 1 \in 1..Len(s) /\ n + 1 \in 1..Len(s) /\ (n + 1) - 1 = n
    BY <1>2, <1>3
  <2> HIDE DEF s, n
  <2>2. SubSeq(s, 1, n + 1) = SubSeq(s, 1, (n + 1) - 1) \o <<s[n + 1]>>
    BY <1>2, <2>1, SubSeqRecursiveSecond
  <2> QED
    BY <2>1, <2>2 DEF s, n
<1>9. ReadOf(c)' = ReadOf(c)
  <2>1. sent'[c] - Len(up'[c]) = n - Len(u)
    BY <1>2, <1>4, <1>5
  <2> QED
    BY <2>1 DEF ReadOf
<1>10. ReadOf(c) \in Seq(I)
  <2>1. \A i \in 1..n - Len(u) : s[i] \in I
    BY <1>2, ElementOfSeq
  <2> QED
    BY <1>2, <2>1, SubSeqProperties DEF ReadOf
<1>11. Stream(c)'
  <2>1. Len(up'[c]) <= sent'[c] /\ (Len(u) = n => Len(up'[c]) = sent'[c])
    BY <1>2, <1>4, <1>5, <1>7 DEF Stream
  <2>2. SubSeq(s, 1, n) = ReadOf(c) \o u
    BY <1>7 DEF Stream
  <2>3. (ReadOf(c) \o u) \o <<x>> = ReadOf(c) \o (u \o <<x>>)
    <3>1. ReadOf(c) \in Seq(I) /\ u \in Seq(I) /\ <<x>> \in Seq(I)
      BY <1>2, <1>4, <1>10
    <3> HIDE DEF I, u, x
    <3> QED
      BY ONLY <3>1, ConcatAssociative, SMTT(30)
  <2>4. SubSeq(s, 1, sent'[c]) = ReadOf(c)' \o up'[c]
    BY <1>4, <1>5, <1>8, <1>9, <2>2, <2>3
  <2> QED
    BY <1>1, <1>7, <1>9, <2>1, <2>4 DEF Stream
<1>12. Hears(c)'
  BY <1>1, <1>7, <1>9 DEF Hears, Given, From
<1> HIDE DEF I, s, n, u, x
<1>13. ASSUME NEW p \in Peer PROVE Stream(p)' /\ Hears(p)'
  <2>1. CASE p = c
    BY <1>11, <1>12, <2>1
  <2>2. CASE p # c
    <3>1. Stream(p) /\ Hears(p) /\ up'[p] = up[p] /\ sent'[p] = sent[p]
      BY <1>0, <1>6, <2>2 DEF Streams, Hearing
    <3>2. ReadOf(p)' = ReadOf(p)
      BY <3>1 DEF ReadOf
    <3> QED
      BY <1>1, <3>1, <3>2 DEF Stream, Hears, Given, From
  <2> QED
    BY <2>1, <2>2
<1>14. Typed'
  <2>1. ASSUME NEW p \in Peer
        PROVE up'[p] \in Seq(Range(Script[p])) /\ sent'[p] \in 0..Len(Script[p])
    <3>1. CASE p = c
      <4>1. n + 1 \in 0..Len(s)
        BY <1>2, <1>3
      <4> QED
        BY <1>4, <1>5, <3>1, <4>1 DEF s, I
    <3>2. CASE p # c
      BY <1>0, <1>6, <3>2 DEF Typed
    <3> QED
      BY <3>1, <3>2
  <2> QED
    BY <1>0, <1>1, <2>1 DEF Typed, Client, Frame
<1>15. ASSUME NEW p \in Range(clients) PROVE Gets(p)' /\ Pays(p)'
  <2>1. p \in Peer /\ Gets(p) /\ Pays(p)
    BY <1>0 DEF Getting, Shape
  <2>2. ReadOf(p)' = ReadOf(p)
    BY <1>6, <1>9, <2>1 DEF ReadOf
  <2> QED
    BY <1>1, <2>1, <2>2 DEF Gets, Pays
<1>16. Shape' /\ Fresh'
  <2>1. Append(u, x) # <<>>
    BY <1>2, <1>4, EmptySeq
  <2>2. \A p \in ready.r : p \in there => up'[p] # <<>>
    BY <1>0, <1>5, <1>6, <2>1 DEF Shape
  <2> QED
    BY <1>0, <1>1, <2>2 DEF Shape, Distinct, Fresh
<1> QED
  BY <1>1, <1>13, <1>14, <1>15, <1>16 DEF PanelInv, Streams, Hearing, Getting

LEMMA PumpKeeps ==
    ASSUME PanelInv, Pump
    PROVE  PanelInv'
<1>0. Shape /\ Typed /\ Fresh /\ Streams /\ Hearing /\ Getting
  BY DEF PanelInv
<1>1. /\ inbound' = <<>> /\ heard' = IF hooked THEN heard \o inbound ELSE heard
      /\ UNCHANGED <<clients, client, ready, io, running, pending, hooked, aired,
                     link, there, sent, up, down, since>>
  BY DEF Pump, server, wire
<1>2. /\ heard \in Seq(Message) /\ inbound \in Seq(Message) /\ heard \o inbound \in Seq(Message)
      /\ <<>> \in Seq(Message) /\ heard \o <<>> = heard
      /\ (heard \o inbound) \o <<>> = heard \o inbound
  <2>1. heard \in Seq(Message) /\ inbound \in Seq(Message) /\ heard \o inbound \in Seq(Message)
    BY <1>0, ConcatProperties DEF Typed
  <2> QED
    BY <2>1, ConcatEmptySeq, EmptySeq
<1>3. Shape' /\ Fresh'
  BY <1>0, <1>1 DEF Shape, Distinct, Fresh
<1>4. Typed'
  BY <1>0, <1>1, <1>2 DEF Typed, Client, Frame
<1>5. ASSUME NEW p \in Peer PROVE Stream(p)' /\ Hears(p)'
  <2>1. Stream(p) /\ Hears(p)
    BY <1>0 DEF Streams, Hearing
  <2>2. Stream(p)' /\ ReadOf(p)' = ReadOf(p)
    BY <1>1, <2>1 DEF Stream, ReadOf
  <2>3. CASE hooked
    <3>1. Given(p)' = Given(p)
      BY <1>1, <1>2, <2>3 DEF Given, From
    <3> QED
      BY <1>1, <2>1, <2>2, <3>1 DEF Hears
  <2>4. CASE ~hooked
    <3>1. Given(p)' = From(p, heard)
      BY <1>1, <1>2, <2>4 DEF Given, From
    <3>2. Given(p) = <<>> => From(p, heard) = <<>>
      <4>1. /\ Given(p) = From(p, heard) \o From(p, inbound)
            /\ From(p, heard) \in Seq(Message) /\ From(p, inbound) \in Seq(Message)
        BY <1>2, GivenParts DEF Given
      <4>2. /\ Len(Given(p)) = Len(From(p, heard)) + Len(From(p, inbound))
            /\ Len(From(p, heard)) \in Nat /\ Len(From(p, inbound)) \in Nat
        BY <4>1, ConcatProperties, LenProperties
      <4>3. Given(p) = <<>> => Len(From(p, heard)) = 0
        BY <4>2, EmptySeq
      <4> QED
        BY <4>1, <4>3, EmptySeq
    <3> QED
      BY <1>1, <2>1, <2>2, <2>4, <3>1, <3>2 DEF Hears
  <2> QED
    BY <2>3, <2>4
<1>6. ASSUME NEW p \in Range(clients) PROVE Gets(p)' /\ Pays(p)'
  BY <1>0, <1>1 DEF Getting, Gets, Pays, ReadOf
<1> QED
  BY <1>1, <1>3, <1>4, <1>5, <1>6 DEF PanelInv, Streams, Hearing, Getting

LEMMA StartKeeps ==
    ASSUME PanelInv, Lives, Start
    PROVE  PanelInv'
<1>0. Shape /\ Typed /\ Fresh /\ Streams /\ Hearing /\ Getting
  BY DEF PanelInv
<1>1. /\ ~stopping /\ ~running /\ io' = "round" /\ aired' = <<>>
      /\ UNCHANGED <<clients, client, ready, pending, inbound, heard, hooked,
                     link, there, sent, up, down, since>>
  BY DEF Start, Idle, wire
<1>2. clients = <<>> /\ Range(clients) = {}
  <2>1. io = "none"
    BY <1>1 DEF Lives
  <2> QED
    BY <1>0, <2>1 DEF Shape, Range
<1>3. Shape' /\ Fresh'
  BY <1>0, <1>1 DEF Shape, Distinct, Fresh
<1>4. Typed'
  BY <1>0, <1>1, EmptySeq DEF Typed, Client, Frame
<1>5. ASSUME NEW p \in Peer PROVE Stream(p)' /\ Hears(p)'
  BY <1>0, <1>1 DEF Streams, Hearing, Stream, Hears, ReadOf, Given, From
<1>6. Getting'
  BY <1>1, <1>2 DEF Getting
<1> QED
  BY <1>3, <1>4, <1>5, <1>6 DEF PanelInv, Streams, Hearing

LEMMA PanelKeeps ==
    ASSUME PanelInv, Lives, Queues, Ends, [Next]_vars
    PROVE  PanelInv'
<1>0. Shape /\ Typed
  BY DEF PanelInv
<1>1. CASE UNCHANGED vars
  BY <1>0, <1>1, Undisturbed DEF vars, server, queues, wire, history, Shape, Distinct, Typed
<1>2. ASSUME NEW p \in Peer, Vanish(p) PROVE PanelInv'
  BY <1>0, <1>2, Undisturbed DEF Vanish, server, queues, history, Shape, Distinct, Typed
<1>3. ASSUME NEW p \in Peer, Connect(p) \/ PeerSends(p) PROVE PanelInv'
  BY <1>3, ConnectKeeps, SendKeeps
<1>4. CASE StopBegins
  BY <1>0, <1>4, Undisturbed DEF StopBegins, queues, wire, history, Shape, Distinct, Typed
<1>5. CASE Start \/ StopEnds \/ Pump
  BY <1>5, StartKeeps, StopKeeps, PumpKeeps
<1>6. ASSUME NEW t \in Caster, CastBegins(t) PROVE PanelInv'
  BY <1>0, <1>6, Undisturbed DEF CastBegins, server, wire, history, Shape, Distinct, Typed
<1>7. ASSUME NEW t \in Caster, CastQueues(t) PROVE PanelInv'
  <2>1. casting[t] \in Range(Broadcasts) /\ pending' = Append(pending, casting[t])
    BY <1>7 DEF CastQueues, Queues
  <2>2. pending' \in Seq(Range(Broadcasts))
    BY <1>0, <2>1, AppendProperties DEF Typed
  <2> QED
    BY <1>0, <1>7, <2>2, Undisturbed DEF CastQueues, server, wire, history, Shape, Distinct
<1>8. CASE Io
  BY <1>8, RoundKeeps, ServeKeeps DEF Io
<1> QED
  BY <1>1, <1>2, <1>3, <1>4, <1>5, <1>6, <1>7, <1>8 DEF Next, Engine

LEMMA PanelStarts == Init => PanelInv
<1> SUFFICES ASSUME Init PROVE PanelInv
  OBVIOUS
<1>1. /\ clients = <<>> /\ ready = NoSets /\ ~running /\ client = [p \in Peer |-> NewClient]
      /\ pending = <<>> /\ inbound = <<>> /\ heard = <<>> /\ aired = <<>>
      /\ link = [p \in Peer |-> "none"] /\ sent = [p \in Peer |-> 0]
      /\ up = [p \in Peer |-> <<>>] /\ down = [p \in Peer |-> <<>>]
  BY DEF Init
<1>2. clients \in Seq(Peer) /\ Distinct(clients) /\ Range(clients) = {}
  BY <1>1, EmptySeq DEF Distinct, Range
<1>3. Shape
  BY <1>1, <1>2 DEF Shape, NoSets
<1>4. Typed
  <2>1. \A p \in Peer : Len(Script[p]) \in Nat
    BY ScriptItems, LenProperties
  <2> QED
    BY <1>1, <2>1, NewClientType, EmptySeq DEF Typed
<1>5. Fresh
  BY <1>1 DEF Fresh
<1>6. ASSUME NEW p \in Peer PROVE Stream(p) /\ Hears(p)
  <2>1. up[p] = <<>> /\ sent[p] = 0 /\ Len(<<>>) = 0 /\ <<>> \o <<>> = <<>>
    BY <1>1, EmptySeq, ConcatEmptySeq
  <2>2. SubSeq(Script[p], 1, 0) = <<>>
    BY SubSeqEmpty
  <2>3. ReadOf(p) = <<>>
    <3>1. Len(up[p]) = 0 /\ sent[p] - 0 = 0
      BY <2>1
    <3> QED
      BY <2>2, <3>1 DEF ReadOf
  <2>4. Stream(p)
    BY <1>2, <2>1, <2>2, <2>3 DEF Stream
  <2>5. client[p].shook = FALSE /\ Given(p) = <<>>
    BY <1>1, <2>1, OnlyEmpty DEF NewClient, Given, From
  <2> QED
    BY <2>4, <2>5 DEF Hears
<1> QED
  BY <1>2, <1>3, <1>4, <1>5, <1>6 DEF PanelInv, Streams, Hearing, Getting

\* The invariant of the whole server holds in every state.
THEOREM ServerIsSound == ASSUME IsFiniteSet(Caster) PROVE Spec => [](IInv /\ PanelInv)
<1>1. Init => PanelInv
  BY PanelStarts
<1>2. IInv /\ PanelInv /\ [Next]_vars => PanelInv'
  BY PanelKeeps DEF IInv
<1> QED
  BY <1>1, <1>2, Invariance, PTL DEF Spec

LEMMA SoundIsTyped == IInv /\ PanelInv => TypeOK
<1> SUFFICES ASSUME IInv, PanelInv PROVE TypeOK
  OBVIOUS
<1>1. Shape /\ Typed /\ Lives
  BY DEF IInv, PanelInv
<1>2. \A p \in Peer : client[p].tx \in Seq(Frame)
  BY <1>1, ClientParts DEF Typed
<1> QED
  BY <1>1, <1>2 DEF TypeOK, Shape, Typed, Lives, Distinct

\* Every panel gets every broadcast that goes out from its upgrade on, once and in
\* order, until its connection is being closed; one that was not upgraded gets none.
THEOREM NoBroadcastMissedEver ==
    ASSUME IsFiniteSet(Caster) PROVE Spec => []NoBroadcastMissed
<1>1. IInv /\ PanelInv => NoBroadcastMissed
  BY SoundIsTyped DEF NoBroadcastMissed, PanelInv, Getting, Gets
<1> QED
  BY <1>1, ServerIsSound, PTL

\* The callback is given each message of a panel once and in the panel's order, all
\* that was read of it up to its goodbye and nothing after it, however the stream was
\* cut into chunks; of a panel that is gone, maybe less; and of one that was refused,
\* nothing.
THEOREM HeardInOrderEver ==
    ASSUME IsFiniteSet(Caster) PROVE Spec => []HeardInOrder
<1>1. ASSUME PanelInv PROVE HeardInOrder
  <2> SUFFICES ASSUME NEW p \in Range(clients)
               PROVE  LET got == From(p, heard) \o From(p, inbound)
                          said == DataOf(Talk(ReadOf(p)))
                      IN  IF ~client[p].shook THEN got = <<>>
                          ELSE hooked /\ running =>
                                 IF p \in there \/ ~client[p].closing THEN got = said
                                 ELSE IsPrefix(got, said)
    BY DEF HeardInOrder
  <2>1. p \in Peer /\ link[p] = "open" /\ Hears(p)
    BY <1>1 DEF PanelInv, Shape, Hearing
  <2>2. Given(p) = From(p, heard) \o From(p, inbound)
    BY <1>1, GivenParts DEF PanelInv, Typed, Given
  <2> QED
    BY <2>1, <2>2 DEF Hears
<1> QED
  BY <1>1, ServerIsSound, PTL

\* Who is cut off in a round has said its last, and what it got are the answers.
LEMMA CutIsAnswered ==
    ASSUME IInv, PanelInv, [Next]_vars,
           NEW p \in Range(clients), link'[p] = "cut", running, p \in there
    PROVE  LET said == Talk(ReadOf(p))
           IN  /\ said # <<>> /\ Last(said) \in Closers
               /\ Only(Replies, down[p]) = Owed(said)
<1>0. /\ Lives /\ Ends /\ Shape /\ Typed /\ p \in Peer /\ link[p] # "cut"
      /\ Stream(p) /\ Pays(p)
  BY DEF IInv, Ends, PanelInv, Shape, Streams, Getting
<1>1. Finished(p)
  <2>1. link' # link
    BY <1>0
  <2>2. ASSUME NEW q \in Peer, Connect(q) PROVE FALSE
    BY <1>0, <2>2 DEF Connect, Ends
  <2>3. ASSUME StopEnds PROVE FALSE
    BY <1>0, <2>3 DEF StopEnds, Lives
  <2>4. CASE IoRound
    <3>1. \/ \E q \in Peer : link' = [Reaped EXCEPT ![q] = "open"]
          \/ link' = Reaped
      BY <2>4 DEF IoRound, Connections, Backlog
    <3>2. Reaped[p] = "cut"
      BY <1>0, <3>1 DEF Reaped
    <3> QED
      BY <1>0, <3>2 DEF Reaped
  <2> QED
    BY <2>1, <2>2, <2>3, <2>4 DEF Next, Engine, Io, PeerSends, Vanish, Start, StopBegins, Pump,
       CastBegins, CastQueues, IoServe, wire, vars
<1>2. client[p].closing /\ client[p].tx = <<>>
  BY <1>1 DEF Finished
<1>3. Over(ReadOf(p))
  BY <1>0, <1>2 DEF Stream
<1>4. ReadOf(p) \in Seq(Range(Script[p]))
  <2>1. /\ Script[p] \in Seq(Range(Script[p])) /\ Len(Script[p]) \in Nat
        /\ sent[p] \in 0..Len(Script[p]) /\ Len(up[p]) \in Nat
    BY <1>0, ScriptItems, LenProperties DEF Typed
  <2>2. \A i \in 1..sent[p] - Len(up[p]) : Script[p][i] \in Range(Script[p])
    BY <2>1, ElementOfSeq
  <2> QED
    BY <2>1, <2>2, SubSeqProperties DEF ReadOf
<1>5. Only(Replies, down[p]) = Owed(Talk(ReadOf(p)))
  <2>1. Only(Replies, down[p]) \o Only(Replies, <<>>) = Owed(Talk(ReadOf(p)))
    BY <1>0, <1>2 DEF Pays
  <2>2. Only(Replies, down[p]) \in Seq(Frame \cap Replies)
    BY <1>0, OnlyType DEF Typed
  <2> QED
    BY <2>1, <2>2, OnlyEmpty, ConcatEmptySeq
<1> QED
  BY <1>3, <1>4, <1>5, TalkEnds

\* A running server cuts off a panel that is still there only after it has refused it
\* or the panel has said goodbye, and the panel has got every answer by then, once
\* each and in order.
THEOREM AlwaysAnswered == ASSUME IsFiniteSet(Caster) PROVE Spec => Answered
<1>1. IInv /\ PanelInv /\ [Next]_vars =>
        [\A p \in Range(clients) :
           link'[p] = "cut" /\ running /\ p \in there =>
             LET said == Talk(ReadOf(p))
             IN  /\ said # <<>> /\ Last(said) \in Closers
                 /\ Only(Replies, down[p]) = Owed(said)]_vars
  BY CutIsAnswered
<1> QED
  BY <1>1, ServerIsSound, PTL DEF Spec, Answered
=============================================================================
