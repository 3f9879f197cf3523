-------------------------- MODULE SchedulerLemmas ---------------------------
(***************************************************************************)
(* What the steps of Scheduler do to the parts of its invariant.           *)
(*                                                                         *)
(* A step of a thread changes the top frame of its stack from e to f and may*)
(* put g on it (Swap).  Each part of the invariant gets a lemma that says  *)
(* what f, g and the slots, fibers or names that move must satisfy for the *)
(* part to hold again.  CoreStep puts the parts together; it and the lemmas*)
(* after it are what the proofs of SchedulerProofs cite.                   *)
(***************************************************************************)
EXTENDS SchedulerInv

-----------------------------------------------------------------------------
\* Sequences and linked lists.

\* Queues.
LEMMA AppendQ ==
    ASSUME NEW S, NEW q \in Seq(S), NEW x \in S
    PROVE  /\ Append(q, x) \in Seq(S) /\ Len(Append(q, x)) = Len(q) + 1
           /\ Range(Append(q, x)) = Range(q) \cup {x}
           /\ Distinct(q) /\ x \notin Range(q) => Distinct(Append(q, x))
<1> DEFINE s == Append(q, x)
<1>1. /\ s \in Seq(S) /\ Len(s) = Len(q) + 1 /\ s[Len(q) + 1] = x
      /\ \A i \in 1..Len(q) : s[i] = q[i]
      /\ Len(q) \in Nat /\ DOMAIN q = 1..Len(q) /\ DOMAIN s = 1..Len(q) + 1
  BY AppendProperties, LenProperties
<1> HIDE DEF s
<1>2. Range(s) = Range(q) \cup {x}
  <2>1. ASSUME NEW y \in Range(s) PROVE y \in Range(q) \cup {x}
    <3>1. PICK i \in 1..Len(q) + 1 : s[i] = y
      BY <2>1, <1>1 DEF Range
    <3> QED
      BY <3>1, <1>1 DEF Range
  <2>2. ASSUME NEW y \in Range(q) PROVE y \in Range(s)
    <3>1. PICK i \in 1..Len(q) : q[i] = y
      BY <2>2, <1>1 DEF Range
    <3> QED
      BY <3>1, <1>1 DEF Range
  <2>3. x \in Range(s)
    BY <1>1 DEF Range
  <2> QED
    BY <2>1, <2>2, <2>3
<1>3. ASSUME Distinct(q), x \notin Range(q) PROVE Distinct(s)
  BY <1>1, <1>3 DEF Distinct, Range
<1> QED
  BY <1>1, <1>2, <1>3 DEF s

\* What taking the front of a queue leaves.
LEMMA TailQ ==
    ASSUME NEW S, NEW q \in Seq(S), q # <<>>
    PROVE  /\ Tail(q) \in Seq(S) /\ Head(q) \in S /\ Head(q) \in Range(q)
           /\ Len(Tail(q)) = Len(q) - 1
           /\ Distinct(q) => Range(Tail(q)) = Range(q) \ {Head(q)} /\ Distinct(Tail(q))
<1> DEFINE s == Tail(q)
           x == Head(q)
<1>1. /\ s \in Seq(S) /\ x \in S /\ Len(s) = Len(q) - 1 /\ x = q[1]
      /\ \A i \in 1..Len(q) - 1 : s[i] = q[i + 1]
      /\ Len(q) \in Nat \ {0} /\ DOMAIN q = 1..Len(q) /\ DOMAIN s = 1..Len(q) - 1
  BY HeadTailProperties, LenProperties, EmptySeq
<1>2. x \in Range(q)
  BY <1>1 DEF Range
<1> HIDE DEF s, x
<1>3. ASSUME Distinct(q) PROVE Range(s) = Range(q) \ {x} /\ Distinct(s)
  <2>1. ASSUME NEW y \in Range(s) PROVE y \in Range(q) \ {x}
    <3>1. PICK i \in 1..Len(q) - 1 : s[i] = y
      BY <2>1, <1>1 DEF Range
    <3>2. i + 1 \in 1..Len(q) /\ 1 \in 1..Len(q) /\ i + 1 # 1 /\ q[i + 1] = y
      BY <3>1, <1>1
    <3> QED
      BY <3>2, <1>1, <1>3 DEF Range, Distinct
  <2>2. ASSUME NEW y \in Range(q) \ {x} PROVE y \in Range(s)
    <3>1. PICK i \in 1..Len(q) : q[i] = y
      BY <2>2, <1>1 DEF Range
    <3>2. i - 1 \in 1..Len(q) - 1 /\ i = (i - 1) + 1
      BY <3>1, <1>1
    <3>3. s[i - 1] = y
      BY <3>1, <3>2, <1>1
    <3> QED
      BY <3>3, <3>2, <1>1 DEF Range
  <2>3. Distinct(s)
    <3> SUFFICES ASSUME NEW m \in 1..Len(q) - 1, NEW n \in 1..Len(q) - 1, s[m] = s[n] PROVE m = n
      BY <1>1 DEF Distinct
    <3>1. q[m + 1] = q[n + 1] /\ m + 1 \in 1..Len(q) /\ n + 1 \in 1..Len(q)
      BY <1>1
    <3>2. m + 1 = n + 1
      BY <3>1, <1>1, <1>3 DEF Distinct
    <3> QED
      BY <3>2
  <2> QED
    BY <2>1, <2>2, <2>3
<1> QED
  BY <1>1, <1>2, <1>3 DEF s, x

\* What taking the back of a queue leaves.
LEMMA FrontQ ==
    ASSUME NEW S, NEW q \in Seq(S), q # <<>>
    PROVE  /\ Front(q) \in Seq(S) /\ Last(q) \in S /\ Last(q) \in Range(q)
           /\ Len(Front(q)) = Len(q) - 1 /\ \A i \in 1..Len(q) - 1 : Front(q)[i] = q[i]
           /\ Distinct(q) => Range(Front(q)) = Range(q) \ {Last(q)} /\ Distinct(Front(q))
<1> DEFINE s == Front(q)
           x == Last(q)
<1>1. Len(q) \in Nat \ {0} /\ DOMAIN q = 1..Len(q) /\ \A i \in 1..Len(q) : q[i] \in S
  BY LenProperties, EmptySeq, ElementOfSeq
<1>2. /\ s \in Seq(S) /\ x \in S /\ Len(s) = Len(q) - 1 /\ x = q[Len(q)]
      /\ \A i \in 1..Len(q) - 1 : s[i] = q[i]
  <2>1. \A i \in 1..Len(q) - 1 : q[i] \in S
    BY <1>1
  <2>2. /\ SubSeq(q, 1, Len(q) - 1) \in Seq(S)
        /\ Len(SubSeq(q, 1, Len(q) - 1)) = IF 1 <= Len(q) - 1 THEN Len(q) - 1 - 1 + 1 ELSE 0
        /\ \A i \in 1..Len(q) - 1 - 1 + 1 : SubSeq(q, 1, Len(q) - 1)[i] = q[1 + i - 1]
    BY <2>1, <1>1, SubSeqProperties
  <2> QED
    BY <2>2, <1>1 DEF Front, Last
<1>3. DOMAIN s = 1..Len(q) - 1
  BY <1>2, <1>1, LenProperties
<1>4. x \in Range(q)
  BY <1>1, <1>2 DEF Range
<1> HIDE DEF s, x
<1>5. ASSUME Distinct(q) PROVE Range(s) = Range(q) \ {x} /\ Distinct(s)
  <2>1. ASSUME NEW y \in Range(s) PROVE y \in Range(q) \ {x}
    <3>1. PICK i \in 1..Len(q) - 1 : s[i] = y
      BY <2>1, <1>3 DEF Range
    <3>2. i \in 1..Len(q) /\ Len(q) \in 1..Len(q) /\ i # Len(q)
      <4>1. Len(q) \in Nat \ {0} /\ i \in 1..Len(q) - 1
        BY <1>1, <3>1
      <4> QED
        BY <4>1
    <3>3. q[i] = y
      BY <3>1, <1>2
    <3> QED
      BY <3>2, <3>3, <1>1, <1>2, <1>5 DEF Range, Distinct
  <2>2. ASSUME NEW y \in Range(q) \ {x} PROVE y \in Range(s)
    <3>1. PICK i \in 1..Len(q) : q[i] = y
      BY <2>2, <1>1 DEF Range
    <3>2. i \in 1..Len(q) - 1
      BY <3>1, <1>1, <1>2
    <3> QED
      BY <3>1, <3>2, <1>2, <1>3 DEF Range
  <2>3. Distinct(s)
    <3> SUFFICES ASSUME NEW m \in 1..Len(q) - 1, NEW n \in 1..Len(q) - 1, s[m] = s[n] PROVE m = n
      BY <1>3 DEF Distinct
    <3>1. m \in 1..Len(q) /\ n \in 1..Len(q) /\ q[m] = q[n]
      BY <1>1, <1>2
    <3> QED
      BY <3>1, <1>1, <1>5 DEF Distinct
  <2> QED
    BY <2>1, <2>2, <2>3
<1> QED
  BY <1>1, <1>2, <1>4, <1>5 DEF s, x

-----------------------------------------------------------------------------
\* Linked lists.  Nothing starts at what is not in S.
LEMMA NoMembers ==
    ASSUME NEW S, NEW head, head \notin S, NEW link
    PROVE  Members(S, head, link) = {}
BY DEF Members

\* The members of a linked list are of its kind.
LEMMA MembersIn ==
    ASSUME NEW S, NEW head, NEW link
    PROVE  Members(S, head, link) \subseteq S
BY DEF Members

\* The members are closed under the link.
LEMMA MembersFollow ==
    ASSUME NEW S, NEW head, NEW link, NEW x \in Members(S, head, link), link[x] \in S
    PROVE  link[x] \in Members(S, head, link)
BY DEF Members

\* A set that holds the head and is closed under the links holds the list.
LEMMA MembersLeast ==
    ASSUME NEW S, NEW head \in S, NEW link, NEW T \in SUBSET S,
           head \in T, \A y \in T : link[y] \in S => link[y] \in T
    PROVE  Members(S, head, link) \subseteq T
BY DEF Members

\* A list that is not empty holds its head.
LEMMA HeadMember ==
    ASSUME NEW S, NEW head \in S, NEW link
    PROVE  head \in Members(S, head, link)
BY DEF Members

\* What follows a member is part of the list.
LEMMA MembersAfter ==
    ASSUME NEW S, NEW head, NEW link, NEW x \in Members(S, head, link)
    PROVE  Members(S, link[x], link) \subseteq Members(S, head, link)
<1>1. CASE link[x] \notin S
  BY <1>1, NoMembers
<1>2. CASE link[x] \in S
  <2> DEFINE T == Members(S, head, link)
  <2>1. T \in SUBSET S /\ link[x] \in T /\ \A y \in T : link[y] \in S => link[y] \in T
    BY <1>2, MembersIn, MembersFollow
  <2> HIDE DEF T
  <2>2. Members(S, link[x], link) \subseteq T
    BY <2>1, <1>2, MembersLeast
  <2> QED
    BY <2>2 DEF T
<1> QED
  BY <1>1, <1>2

\* A list is its head and what follows it.
LEMMA MembersUnfold ==
    ASSUME NEW S, NEW head \in S, NEW link
    PROVE  Members(S, head, link) = {head} \cup Members(S, link[head], link)
<1> DEFINE T == {head} \cup Members(S, link[head], link)
<1>1. T \in SUBSET S
  BY MembersIn
<1>2. ASSUME NEW y \in T, link[y] \in S PROVE link[y] \in T
  <2>1. CASE y = head
    BY <2>1, <1>2, HeadMember
  <2>2. CASE y \in Members(S, link[head], link)
    BY <2>2, <1>2, MembersFollow
  <2> QED
    BY <2>1, <2>2
<1>3. head \in T
  OBVIOUS
<1>4. head \in Members(S, head, link)
  BY HeadMember
<1>5. Members(S, link[head], link) \subseteq Members(S, head, link)
  BY <1>4, MembersAfter
<1> HIDE DEF T
<1>6. Members(S, head, link) \subseteq T
  BY <1>1, <1>2, <1>3, MembersLeast
<1> QED
  BY <1>4, <1>5, <1>6 DEF T

\* The link of one that is not a member may change.
LEMMA MembersSame ==
    ASSUME NEW S, NEW head, NEW link, NEW other, NEW x,
           x \notin Members(S, head, link), \A y \in S \ {x} : other[y] = link[y]
    PROVE  Members(S, head, other) = Members(S, head, link)
<1>1. CASE head \notin S
  BY <1>1, NoMembers
<1>2. CASE head \in S
  <2> DEFINE M == Members(S, head, link)
             N == Members(S, head, other)
  <2>1. M \subseteq S /\ head \in M /\ \A y \in M : link[y] \in S => link[y] \in M
    BY <1>2, MembersIn, MembersFollow, HeadMember
  <2>2. N \subseteq S /\ head \in N /\ \A y \in N : other[y] \in S => other[y] \in N
    BY <1>2, MembersIn, MembersFollow, HeadMember
  <2>3. N \subseteq M
    <3>1. M \in SUBSET S /\ \A y \in M : other[y] \in S => other[y] \in M
      BY <2>1
    <3> HIDE DEF M
    <3> QED
      BY <3>1, <2>1, <1>2, MembersLeast
  <2>4. x \notin N
    BY <2>3
  <2>5. M \subseteq N
    <3>1. N \in SUBSET S /\ \A y \in N : link[y] \in S => link[y] \in N
      BY <2>2, <2>4
    <3> HIDE DEF N
    <3> QED
      BY <3>1, <2>2, <1>2, MembersLeast
  <2> QED
    BY <2>3, <2>5
<1> QED
  BY <1>1, <1>2

-----------------------------------------------------------------------------
\* The constants, and the program that runs.
LEMMA Sizes ==
    /\ JobPool \in Nat \ {0} /\ IsFiniteSet(Id) /\ Id \subseteq Nat
    /\ 0 \notin Id /\ Closed \notin Id /\ 0 # Closed
    /\ External \notin Worker /\ (\A f \in Fiber : f \notin Worker /\ f # External)
    /\ None \notin Fiber /\ Shut \notin Fiber /\ None # Shut
    /\ External \in Contexts /\ Worker \subseteq Contexts /\ Fiber \subseteq Contexts
    /\ Thread = Worker \cup {External}
<1>1. JobPool \in Nat \ {0} /\ External \notin Worker /\ Fiber \cap (Worker \cup {External}) = {}
      /\ None \notin Fiber /\ Shut \notin Fiber
  BY SizeAssumption, NameAssumption
<1>2. IsFiniteSet(1..JobPool)
  BY <1>1, FS_Interval
<1> QED
  BY <1>1, <1>2 DEF Id, Closed, None, Shut, Contexts, Thread

\* What ProgramAssumption says of the program: a job is submitted by one call of
\* one job, and a call uses only handles its caller has.
LEMMA Programmed ==
    ASSUME program \in Programs
    PROVE  /\ "main" \in Job /\ None \notin Job /\ Task \subseteq Job
           /\ program.calls \in [Job -> Seq(CallsOf(Task))]
           /\ program.given \in [Job -> SUBSET Job] /\ program.pool \in [Job -> {0, 1}]
           /\ program.given["main"] = {} /\ Fibers \in BOOLEAN
           /\ \A j \in Job : \A n \in DOMAIN program.calls[j] : Uses(program, j, n)
           /\ \A i, j \in Job : \A m \in DOMAIN program.calls[i], n \in DOMAIN program.calls[j] :
                 Submits(CallAt(i, m)) \cap Submits(CallAt(j, n)) # {} => i = j /\ m = n
<1>1. WellFormed(program)
  BY ProgramAssumption
<1> QED
  BY <1>1 DEF WellFormed, Job, Task, None, Fibers, CallAt

-----------------------------------------------------------------------------
\* Frames.
LEMMA FrameKinds ==
    ASSUME NEW f \in Frame
    PROVE  /\ f # Blank
           /\ f.k \in {"body", "submit", "pfor", "help", "finish", "join"}
           /\ f.k = "body" <=> f \in BodyFrame
           /\ f.k = "submit" <=> f \in SubmitFrame
           /\ f.k = "pfor" <=> f \in ChunkFrame
           /\ f.k = "help" <=> f \in HelpFrame
           /\ f.k = "finish" <=> f \in FinishFrame
           /\ f.k = "join" <=> f = Join
BY DEF Frame, BodyFrame, SubmitFrame, ChunkFrame, HelpFrame, FinishFrame, Join, Blank

\* FrameAt reads a stack, and Blank above it.
LEMMA FrameAtIn ==
    ASSUME Shapes, NEW c \in Contexts, NEW i \in Pos
    PROVE  /\ FrameAt(c, i) \in Frame \cup {Blank}
           /\ FrameAt(c, i) = Blank <=> Len(stack[c]) < i
           /\ FrameAt(c, i) # Blank => stack[c][i] = FrameAt(c, i) /\ i \in 1..Len(stack[c])
<1>1. stack[c] \in Seq(Frame) /\ DOMAIN stack[c] = 1..Len(stack[c]) /\ Len(stack[c]) \in Nat
  BY LenProperties DEF Shapes
<1>2. CASE i \in DOMAIN stack[c]
  <2>1. stack[c][i] \in Frame
    BY <1>1, <1>2, ElementOfSeq
  <2>2. stack[c][i] # Blank
    BY <2>1, FrameKinds
  <2> QED
    BY <1>1, <1>2, <2>1, <2>2 DEF FrameAt, Pos
<1>3. CASE i \notin DOMAIN stack[c]
  BY <1>1, <1>3 DEF FrameAt, Pos
<1> QED
  BY <1>2, <1>3

\* A context is busy when its stack is not empty.
LEMMA BusyIs ==
    ASSUME Shapes, NEW c \in Contexts
    PROVE  Busy(c) <=> stack[c] # <<>>
<1>1. stack[c] \in Seq(Frame) /\ Len(stack[c]) \in Nat
  BY LenProperties DEF Shapes
<1>2. stack[c] # <<>> => Len(stack[c]) \in Nat \ {0}
  BY <1>1, EmptySeq
<1>3. stack[c] = <<>> => Len(stack[c]) = 0
  BY EmptySeq
<1>4. 1 \in Pos
  BY DEF Pos
<1> QED
  BY <1>1, <1>2, <1>3, <1>4, FrameAtIn DEF Busy

\* The frame e on top of the stack d that thread t runs, at place n.
OnTop(t, d, n, e) ==
    /\ on[t] = d /\ d \in Contexts /\ n \in Pos /\ n = Len(stack[d])
    /\ FrameAt(d, n) = e /\ FrameAt(d, n + 1) = Blank /\ e \in Frame
    /\ Top(t) = e /\ Frames(t) # <<>>

\* A thread in a frame of some kind has that frame on top.
LEMMA HasTop ==
    ASSUME Shapes, NEW t \in Thread, NEW kind, In(t, kind)
    PROVE  \E d, n, e : OnTop(t, d, n, e) /\ e.k = kind
<1> DEFINE d == on[t]
           n == Len(stack[d])
           e == Top(t)
<1>1. d \in Contexts /\ stack[d] \in Seq(Frame) /\ stack[d] # <<>> /\ e.k = kind
  BY DEF Shapes, In, Frames, Thread, Contexts
<1>2. n \in Nat \ {0} /\ DOMAIN stack[d] = 1..n
  BY <1>1, EmptySeq, LenProperties
<1>3. e = stack[d][n]
  BY DEF Top, Last, Frames
<1>4. n \in 1..n /\ n + 1 \notin 1..n /\ n \in Pos
  <2>1. ASSUME NEW m \in Nat \ {0} PROVE m \in 1..m /\ m + 1 \notin 1..m
    OBVIOUS
  <2>2. n \in Nat \ {0}
    BY <1>2
  <2> HIDE DEF n
  <2> QED
    BY <2>1, <2>2 DEF Pos
<1>5. e \in Frame
  BY <1>1, <1>2, <1>3, <1>4, ElementOfSeq
<1>6. FrameAt(d, n) = e /\ FrameAt(d, n + 1) = Blank
  BY <1>2, <1>3, <1>4 DEF FrameAt
<1>7. OnTop(t, d, n, e) /\ e.k = kind
  BY <1>1, <1>4, <1>5, <1>6 DEF OnTop, Frames
<1> QED
  BY <1>7

\* A step changes the frames at n and n + 1 of stack d, and no other.
Stacked(d, n, f, g) ==
    /\ stack' \in [Contexts -> Seq(Frame)]
    /\ \A c \in Contexts, i \in Pos :
          FrameAt(c, i)' = IF c = d /\ i = n THEN f ELSE IF c = d /\ i = n + 1 THEN g ELSE FrameAt(c, i)

\* An update of a stack, as the one or two frames that it changes.
LEMMA Stacking ==
    ASSUME Shapes, NEW d \in Contexts, NEW n \in Pos, NEW s \in Seq(Frame), NEW f, NEW g,
           stack' = [stack EXCEPT ![d] = s],
           \A i \in Pos : (IF i \in DOMAIN s THEN s[i] ELSE Blank)
               = IF i = n THEN f ELSE IF i = n + 1 THEN g ELSE FrameAt(d, i)
    PROVE  Stacked(d, n, f, g)
<1>1. stack \in [Contexts -> Seq(Frame)]
  BY DEF Shapes
<1>2. stack' \in [Contexts -> Seq(Frame)]
  BY <1>1
<1>3. ASSUME NEW c \in Contexts, NEW i \in Pos
      PROVE  FrameAt(c, i)' = IF c = d /\ i = n THEN f ELSE IF c = d /\ i = n + 1 THEN g ELSE FrameAt(c, i)
  <2>1. CASE c = d
    BY <2>1, <1>1 DEF FrameAt
  <2>2. CASE c # d
    BY <2>2, <1>1 DEF FrameAt
  <2> QED
    BY <2>1, <2>2
<1> QED
  BY <1>2, <1>3 DEF Stacked

\* The stack below its top frame.
LEMMA TopFront ==
    ASSUME Shapes, NEW t, NEW d, NEW n, NEW e, OnTop(t, d, n, e)
    PROVE  /\ Frames(t) = stack[d] /\ stack[d] \in Seq(Frame) /\ DOMAIN stack[d] = 1..n /\ n \in Nat
           /\ Front(stack[d]) \in Seq(Frame) /\ Len(Front(stack[d])) = n - 1
           /\ DOMAIN Front(stack[d]) = 1..n-1
           /\ \A i \in 1..n-1 : Front(stack[d])[i] = FrameAt(d, i)
           /\ \A i \in Pos : i > n => FrameAt(d, i) = Blank
<1>1. Frames(t) = stack[d] /\ stack[d] \in Seq(Frame) /\ stack[d] # <<>> /\ n = Len(stack[d]) /\ n \in Pos
  BY DEF Shapes, OnTop, Frames
<1>2. DOMAIN stack[d] = 1..n /\ n \in Nat
  BY <1>1, LenProperties
<1>3. /\ Front(stack[d]) \in Seq(Frame) /\ Len(Front(stack[d])) = n - 1
      /\ \A i \in 1..n-1 : Front(stack[d])[i] = stack[d][i]
  BY <1>1, FrontQ
<1>4. DOMAIN Front(stack[d]) = 1..n-1
  BY <1>3, LenProperties
<1>5. \A i \in 1..n-1 : i \in 1..n
  BY <1>2
<1> QED
  BY <1>1, <1>2, <1>3, <1>4, <1>5 DEF FrameAt, Pos

\* Replace changes the top frame and nothing else.
LEMMA Replaces ==
    ASSUME Shapes, NEW t \in Thread, NEW d, NEW n, NEW e, OnTop(t, d, n, e),
           NEW f \in Frame, Replace(t, f)
    PROVE  Stacked(d, n, f, Blank)
<1> DEFINE s == Append(Front(stack[d]), f)
<1>1. /\ stack[d] \in Seq(Frame) /\ n \in Nat /\ d \in Contexts /\ n \in Pos /\ on[t] = d
      /\ Front(stack[d]) \in Seq(Frame) /\ Len(Front(stack[d])) = n - 1
      /\ \A i \in 1..n-1 : Front(stack[d])[i] = FrameAt(d, i)
      /\ \A i \in Pos : i > n => FrameAt(d, i) = Blank
      /\ Frames(t) = stack[d]
  <2>1. d \in Contexts /\ n \in Pos /\ on[t] = d
    BY DEF OnTop
  <2> QED
    BY <2>1, TopFront
<1>2. stack' = [stack EXCEPT ![d] = s]
  BY <1>1 DEF Replace, Becomes
<1>3. /\ s \in Seq(Frame) /\ Len(s) = n /\ s[n] = f
      /\ \A i \in 1..n-1 : s[i] = FrameAt(d, i)
  <2>1. /\ s \in Seq(Frame) /\ Len(s) = (n - 1) + 1 /\ s[(n - 1) + 1] = f
        /\ \A i \in 1..n-1 : s[i] = Front(stack[d])[i]
    BY <1>1, AppendProperties
  <2> HIDE DEF s
  <2>2. (n - 1) + 1 = n
    BY <1>1
  <2> QED
    BY <1>1, <2>1, <2>2
<1>4. DOMAIN s = 1..n
  BY <1>3, LenProperties
<1> HIDE DEF s
<1>5. ASSUME NEW i \in Pos
      PROVE  (IF i \in DOMAIN s THEN s[i] ELSE Blank)
                 = IF i = n THEN f ELSE IF i = n + 1 THEN Blank ELSE FrameAt(d, i)
  <2>1. i \in Nat \ {0} /\ n \in Nat \ {0}
    BY <1>1 DEF Pos
  <2>2. CASE i < n
    BY <2>1, <2>2, <1>3, <1>4
  <2>3. CASE i = n
    BY <2>1, <2>3, <1>3, <1>4
  <2>4. CASE i > n
    BY <2>1, <2>4, <1>1, <1>4
  <2> QED
    BY <2>1, <2>2, <2>3, <2>4
<1>6. \A i \in Pos : (IF i \in DOMAIN s THEN s[i] ELSE Blank)
                        = IF i = n THEN f ELSE IF i = n + 1 THEN Blank ELSE FrameAt(d, i)
  BY <1>5
<1>7. d \in Contexts /\ n \in Pos /\ s \in Seq(Frame)
  BY <1>1, <1>3
<1> QED
  BY <1>2, <1>6, <1>7, Stacking

\* Call changes the top frame and puts one on it.
LEMMA Calls1 ==
    ASSUME Shapes, NEW t \in Thread, NEW d, NEW n, NEW e, OnTop(t, d, n, e),
           NEW f \in Frame, NEW g \in Frame, Call(t, f, g)
    PROVE  Stacked(d, n, f, g)
<1> DEFINE q == Append(Front(stack[d]), f)
           s == q \o <<g>>
<1>1. /\ stack[d] \in Seq(Frame) /\ n \in Nat /\ d \in Contexts /\ n \in Pos /\ on[t] = d
      /\ Front(stack[d]) \in Seq(Frame) /\ Len(Front(stack[d])) = n - 1
      /\ \A i \in 1..n-1 : Front(stack[d])[i] = FrameAt(d, i)
      /\ \A i \in Pos : i > n => FrameAt(d, i) = Blank
      /\ Frames(t) = stack[d]
  <2>1. d \in Contexts /\ n \in Pos /\ on[t] = d
    BY DEF OnTop
  <2> QED
    BY <2>1, TopFront
<1>2. stack' = [stack EXCEPT ![d] = s]
  BY <1>1 DEF Call, Becomes
<1>3. /\ q \in Seq(Frame) /\ Len(q) = n /\ q[n] = f
      /\ \A i \in 1..n-1 : q[i] = FrameAt(d, i)
  <2>1. /\ q \in Seq(Frame) /\ Len(q) = (n - 1) + 1 /\ q[(n - 1) + 1] = f
        /\ \A i \in 1..n-1 : q[i] = Front(stack[d])[i]
    BY <1>1, AppendProperties
  <2> HIDE DEF q
  <2>2. (n - 1) + 1 = n
    BY <1>1
  <2> QED
    BY <1>1, <2>1, <2>2
<1>4. s = Append(q, g)
  BY <1>3, AppendIsConcat
<1> HIDE DEF q, s
<1>5. s \in Seq(Frame) /\ Len(s) = n + 1 /\ s[n + 1] = g /\ \A i \in 1..n : s[i] = q[i]
  BY <1>3, <1>4, AppendProperties
<1>6. DOMAIN s = 1..n+1
  BY <1>5, LenProperties
<1>7. ASSUME NEW i \in Pos
      PROVE  (IF i \in DOMAIN s THEN s[i] ELSE Blank)
                 = IF i = n THEN f ELSE IF i = n + 1 THEN g ELSE FrameAt(d, i)
  <2>1. i \in Nat \ {0} /\ n \in Nat \ {0}
    BY <1>1 DEF Pos
  <2>2. CASE i < n
    BY <2>1, <2>2, <1>3, <1>5, <1>6
  <2>3. CASE i = n
    BY <2>1, <2>3, <1>3, <1>5, <1>6
  <2>4. CASE i = n + 1
    BY <2>1, <2>4, <1>5, <1>6
  <2>5. CASE i > n + 1
    BY <2>1, <2>5, <1>1, <1>6
  <2> QED
    BY <2>1, <2>2, <2>3, <2>4, <2>5
<1>8. s \in Seq(Frame) /\ d \in Contexts /\ n \in Pos
  BY <1>1, <1>5
<1> QED
  BY <1>2, <1>7, <1>8, Stacking

\* Return takes the top frame off.
LEMMA Returns ==
    ASSUME Shapes, NEW t \in Thread, NEW d, NEW n, NEW e, OnTop(t, d, n, e), Return(t)
    PROVE  Stacked(d, n, Blank, Blank)
<1> DEFINE s == Front(stack[d])
<1>1. /\ stack[d] \in Seq(Frame) /\ n \in Nat /\ d \in Contexts /\ n \in Pos /\ on[t] = d
      /\ s \in Seq(Frame) /\ DOMAIN s = 1..n-1
      /\ \A i \in 1..n-1 : s[i] = FrameAt(d, i)
      /\ \A i \in Pos : i > n => FrameAt(d, i) = Blank
      /\ Frames(t) = stack[d]
  <2>1. d \in Contexts /\ n \in Pos /\ on[t] = d
    BY DEF OnTop
  <2> QED
    BY <2>1, TopFront
<1>2. stack' = [stack EXCEPT ![d] = s]
  BY <1>1 DEF Return, Becomes
<1> HIDE DEF s
<1>5. ASSUME NEW i \in Pos
      PROVE  (IF i \in DOMAIN s THEN s[i] ELSE Blank)
                 = IF i = n THEN Blank ELSE IF i = n + 1 THEN Blank ELSE FrameAt(d, i)
  <2>1. i \in Nat \ {0} /\ n \in Nat \ {0}
    BY <1>1 DEF Pos
  <2>2. CASE i < n
    BY <2>1, <2>2, <1>1
  <2>3. CASE i >= n
    BY <2>1, <2>3, <1>1
  <2> QED
    BY <2>1, <2>2, <2>3
<1> QED
  BY <1>1, <1>2, <1>5, Stacking

\* A job starts on an empty stack.
LEMMA Starts ==
    ASSUME Shapes, NEW d \in Contexts, ~Busy(d), NEW f \in Frame,
           stack' = [stack EXCEPT ![d] = <<f>>]
    PROVE  Stacked(d, 1, f, Blank)
<1>1. stack[d] = <<>>
  BY BusyIs
<1>2. <<f>> \in Seq(Frame) /\ DOMAIN <<f>> = 1..1 /\ <<f>>[1] = f
  OBVIOUS
<1>3. \A i \in Pos : FrameAt(d, i) = Blank
  BY <1>1, EmptySeq, FrameAtIn DEF Pos
<1>4. ASSUME NEW i \in Pos
      PROVE  (IF i \in DOMAIN <<f>> THEN <<f>>[i] ELSE Blank)
                 = IF i = 1 THEN f ELSE IF i = 1 + 1 THEN Blank ELSE FrameAt(d, i)
  BY <1>2, <1>3 DEF Pos
<1>5. 1 \in Pos
  BY DEF Pos
<1> QED
  BY <1>2, <1>4, <1>5, Stacking

\* Nothing on the stacks changes.
LEMMA Still ==
    ASSUME UNCHANGED stack
    PROVE  \A c, i : FrameAt(c, i)' = FrameAt(c, i)
BY DEF FrameAt

-----------------------------------------------------------------------------
\* Tokens are told apart by what they say.
LEMMA Tokens ==
    /\ \A u, v : /\ OnDeque(u) = OnDeque(v) => u = v
                 /\ OnInject(u) = OnInject(v) => u = v
                 /\ OnList(u) = OnList(v) => u = v
    /\ \A k, c, i, l, d, j : Held(k, c, i) = Held(l, d, j) => k = l /\ c = d /\ i = j
    /\ \A c, i, d, j : Drained(c, i) = Drained(d, j) => c = d /\ i = j
    /\ Unused[1] = "unused" /\ \A v : OnDeque(v)[1] = "deque"
    /\ \A v : OnInject(v)[1] = "inject" /\ OnList(v)[1] = "list"
    /\ \A c, i : Drained(c, i)[1] = "enqueue"
    /\ \A k, c, i : Held(k, c, i)[1] = k
BY DEF Unused, OnDeque, OnInject, OnList, Drained, Held

\* The tokens a slot can have.
LEMMA TokenOf ==
    /\ Unused \in Token
    /\ \A v \in Worker : OnDeque(v) \in Token
    /\ \A p \in {0, 1} : OnInject(p) \in Token
    /\ \A d \in Id : OnList(d) \in Token
    /\ \A c \in Contexts, i \in Pos : Drained(c, i) \in Token
    /\ \A k \in Holders, c \in Contexts, i \in Pos : Held(k, c, i) \in Token
BY DEF Token

\* The tag of a token tells which one it is.
LEMMA TokenTags ==
    ASSUME NEW x \in Token
    PROVE  /\ x[1] \in {"unused", "deque", "inject", "list", "enqueue", "submit", "body", "finish"}
           /\ x[1] = "unused" <=> x = Unused
           /\ x[1] = "deque" => \E v \in Worker : x = OnDeque(v)
           /\ x[1] = "inject" => \E p \in {0, 1} : x = OnInject(p)
           /\ x[1] = "list" => \E d \in Id : x = OnList(d)
           /\ x[1] = "enqueue" => \E c \in Contexts, i \in Pos : x = Drained(c, i)
           /\ x[1] \in Holders => \E c \in Contexts, i \in Pos : x = Held(x[1], c, i)
<1>1. CASE x = Unused
  BY <1>1, Tokens DEF Holders
<1>2. CASE \E v \in Worker : x = OnDeque(v)
  BY <1>2, Tokens DEF Holders
<1>3. CASE \E p \in {0, 1} : x = OnInject(p)
  BY <1>3, Tokens DEF Holders
<1>4. CASE \E d \in Id : x = OnList(d)
  BY <1>4, Tokens DEF Holders
<1>5. CASE \E c \in Contexts, i \in Pos : x = Drained(c, i)
  BY <1>5, Tokens DEF Holders
<1>6. CASE \E k \in Holders, c \in Contexts, i \in Pos : x = Held(k, c, i)
  BY <1>6, Tokens DEF Holders
<1> QED
  BY <1>1, <1>2, <1>3, <1>4, <1>5, <1>6 DEF Token

-----------------------------------------------------------------------------
\* Taking a job from a queue, and putting one into a queue.
QueueTypes ==
    /\ deque \in [Worker -> Seq(Id)] /\ inject \in [{0, 1} -> Seq(Id)]
    /\ \A v \in Worker : Len(deque[v]) <= DequeCapacity

\* The owner takes a job: the queue w is in loses id; no other queue holds it.
LEMMA Taken ==
    ASSUME QueueTypes, NEW w, Queued(w), NEW self, NEW id \in Id, TryGetJob(self, self, id)
    PROVE  /\ w[id][1] \in {"deque", "inject"}
           /\ QueueTypes'
           /\ \A v \in Worker : Range(deque'[v]) = Range(deque[v]) \ {id} /\ Distinct(deque'[v])
           /\ \A p \in {0, 1} : Range(inject'[p]) = Range(inject[p]) \ {id} /\ Distinct(inject'[p])
<1> DEFINE Goal == /\ w[id][1] \in {"deque", "inject"}
                   /\ QueueTypes'
                   /\ \A v \in Worker : Range(deque'[v]) = Range(deque[v]) \ {id} /\ Distinct(deque'[v])
                   /\ \A p \in {0, 1} : Range(inject'[p]) = Range(inject[p]) \ {id} /\ Distinct(inject'[p])
<1>1. /\ \A v \in Worker : deque[v] \in Seq(Id) /\ Distinct(deque[v]) /\ Len(deque[v]) \in Nat
                           /\ (id \in Range(deque[v]) <=> w[id] = OnDeque(v))
      /\ \A p \in {0, 1} : inject[p] \in Seq(Id) /\ Distinct(inject[p])
                           /\ (id \in Range(inject[p]) <=> w[id] = OnInject(p))
  BY LenProperties DEF QueueTypes, Queued
<1>2. ASSUME NEW v \in Worker, NEW q \in Seq(Id), id \in Range(deque[v]), deque' = [deque EXCEPT ![v] = q],
             UNCHANGED inject, Range(q) = Range(deque[v]) \ {id}, Distinct(q), Len(q) = Len(deque[v]) - 1
      PROVE  Goal
  <2>1. w[id] = OnDeque(v) /\ w[id][1] = "deque"
    BY <1>1, <1>2, Tokens
  <2>2. \A u \in Worker : u # v => id \notin Range(deque[u])
    <3>1. \A u \in Worker : OnDeque(u) = OnDeque(v) => u = v
      BY Tokens
    <3> QED
      BY <3>1, <2>1, <1>1
  <2>3. \A p \in {0, 1} : id \notin Range(inject[p])
    BY <2>1, <1>1, Tokens
  <2>4. \A u \in Worker : deque'[u] = IF u = v THEN q ELSE deque[u]
    BY <1>2 DEF QueueTypes
  <2>5. QueueTypes'
    <3>1. Len(q) <= DequeCapacity
      BY <1>1, <1>2, SizeAssumption DEF QueueTypes
    <3> QED
      BY <3>1, <1>2, <2>4 DEF QueueTypes
  <2>6. \A u \in Worker : Range(deque'[u]) = Range(deque[u]) \ {id} /\ Distinct(deque'[u])
    BY <2>2, <2>4, <1>1, <1>2
  <2>7. \A p \in {0, 1} : Range(inject'[p]) = Range(inject[p]) \ {id} /\ Distinct(inject'[p])
    BY <2>3, <1>1, <1>2
  <2> QED
    BY <2>1, <2>5, <2>6, <2>7
<1>3. ASSUME NEW p \in {0, 1}, inject[p] # <<>>, id = Head(inject[p]), UNCHANGED deque,
             inject' = [inject EXCEPT ![p] = Tail(@)]
      PROVE  Goal
  <2> DEFINE q == Tail(inject[p])
  <2>1. q \in Seq(Id) /\ id \in Range(inject[p]) /\ Range(q) = Range(inject[p]) \ {id} /\ Distinct(q)
    BY <1>1, <1>3, TailQ
  <2>2. inject' = [inject EXCEPT ![p] = q]
    BY <1>3
  <2> HIDE DEF q
  <2>3. w[id] = OnInject(p) /\ w[id][1] = "inject"
    BY <1>1, <2>1, Tokens
  <2>4. \A o \in {0, 1} : o # p => id \notin Range(inject[o])
    BY <2>3, <1>1, Tokens
  <2>5. \A v \in Worker : id \notin Range(deque[v])
    BY <2>3, <1>1, Tokens
  <2>6. \A o \in {0, 1} : inject'[o] = IF o = p THEN q ELSE inject[o]
    BY <2>2 DEF QueueTypes
  <2>7. QueueTypes'
    BY <1>3, <2>1, <2>2, <2>6 DEF QueueTypes
  <2>8. \A o \in {0, 1} : Range(inject'[o]) = Range(inject[o]) \ {id} /\ Distinct(inject'[o])
    BY <2>1, <2>4, <2>6, <1>1
  <2>9. \A v \in Worker : Range(deque'[v]) = Range(deque[v]) \ {id} /\ Distinct(deque'[v])
    BY <2>5, <1>1, <1>3
  <2> QED
    BY <2>3, <2>7, <2>8, <2>9
<1> HIDE DEF Goal
<1>4. ASSUME PopOwn(self, self, id) PROVE Goal
  <2> DEFINE q == Front(deque[self])
  <2>1. self \in Worker /\ deque[self] # <<>> /\ id = Last(deque[self]) /\ UNCHANGED inject
        /\ deque' = [deque EXCEPT ![self] = q]
    BY <1>4 DEF PopOwn, Popped, HasOwn
  <2>2. deque[self] \in Seq(Id) /\ Distinct(deque[self])
    BY <1>1, <2>1
  <2>3. /\ q \in Seq(Id) /\ id \in Range(deque[self])
        /\ Range(q) = Range(deque[self]) \ {id} /\ Distinct(q)
        /\ Len(q) = Len(deque[self]) - 1
    BY <2>1, <2>2, FrontQ
  <2> HIDE DEF q
  <2> QED
    BY <2>1, <2>3, <1>2
<1>5. ASSUME PopInject(id) PROVE Goal
  BY <1>5, <1>3 DEF PopInject
<1>6. ASSUME StealFrom(self, id) PROVE Goal
  <2>1. PICK v \in Worker \ {self} : deque[v] # <<>> /\ id = Head(deque[v]) /\ UNCHANGED inject
        /\ deque' = [deque EXCEPT ![v] = Tail(deque[v])]
    BY <1>6 DEF StealFrom
  <2> DEFINE q == Tail(deque[v])
  <2>2. deque[v] \in Seq(Id) /\ Distinct(deque[v])
    BY <1>1, <2>1
  <2>3. /\ q \in Seq(Id) /\ id \in Range(deque[v])
        /\ Range(q) = Range(deque[v]) \ {id} /\ Distinct(q)
        /\ Len(q) = Len(deque[v]) - 1
    BY <2>1, <2>2, TailQ
  <2>4. deque' = [deque EXCEPT ![v] = q]
    BY <2>1
  <2> HIDE DEF q
  <2> QED
    BY <2>1, <2>3, <2>4, <1>2
<1> QED
  BY <1>4, <1>5, <1>6 DEF TryGetJob, Goal

\* The queue that an id is put into is the only one that gains it.
LEMMA Enqueued ==
    ASSUME QueueTypes, NEW w, Queued(w), NEW t, NEW id \in Id, w[id][1] \notin {"deque", "inject"},
           EnqueueReady(t, id), program.pool[slots[id].job] \in {0, 1}
    PROVE  /\ QueueTypes'
           /\ \E x \in Token :
                /\ x[1] \in {"deque", "inject"}
                /\ \A v \in Worker : /\ Distinct(deque'[v])
                                     /\ Range(deque'[v]) = Range(deque[v]) \cup {y \in {id} : x = OnDeque(v)}
                /\ \A p \in {0, 1} : /\ Distinct(inject'[p])
                                     /\ Range(inject'[p]) = Range(inject[p]) \cup {y \in {id} : x = OnInject(p)}
<1>1. /\ \A v \in Worker : deque[v] \in Seq(Id) /\ Distinct(deque[v]) /\ id \notin Range(deque[v]) /\ Len(deque[v]) \in Nat
      /\ \A p \in {0, 1} : inject[p] \in Seq(Id) /\ Distinct(inject[p]) /\ id \notin Range(inject[p])
  BY LenProperties, Tokens DEF QueueTypes, Queued
<1>2. CASE FitsOwn(t, id)
  <2> DEFINE q == Append(deque[t], id)
  <2>1. t \in Worker /\ Len(deque[t]) < DequeCapacity /\ deque' = [deque EXCEPT ![t] = q] /\ UNCHANGED inject
    BY <1>2 DEF FitsOwn, EnqueueReady
  <2>2. q \in Seq(Id) /\ Len(q) = Len(deque[t]) + 1 /\ Range(q) = Range(deque[t]) \cup {id} /\ Distinct(q)
    BY <1>1, <2>1, AppendQ
  <2> HIDE DEF q
  <2>3. \A v \in Worker : deque'[v] = IF v = t THEN q ELSE deque[v]
    BY <2>1 DEF QueueTypes
  <2>4. QueueTypes'
    <3>1. Len(q) <= DequeCapacity
      BY <1>1, <2>1, <2>2, SizeAssumption
    <3> QED
      BY <3>1, <2>1, <2>2, <2>3 DEF QueueTypes
  <2>5. OnDeque(t) \in Token /\ OnDeque(t)[1] = "deque"
    BY <2>1, Tokens, TokenOf
  <2>6. \A v \in Worker : OnDeque(t) = OnDeque(v) <=> v = t
    BY Tokens
  <2>7. \A p \in {0, 1} : OnDeque(t) # OnInject(p)
    BY Tokens
  <2>8. \A v \in Worker : Distinct(deque'[v])
                          /\ Range(deque'[v]) = Range(deque[v]) \cup {y \in {id} : OnDeque(t) = OnDeque(v)}
    BY <2>2, <2>3, <2>6, <1>1
  <2>9. \A p \in {0, 1} : Distinct(inject'[p])
                          /\ Range(inject'[p]) = Range(inject[p]) \cup {y \in {id} : OnDeque(t) = OnInject(p)}
    BY <2>1, <2>7, <1>1
  <2> QED
    BY <2>4, <2>5, <2>8, <2>9
<1>3. CASE ~FitsOwn(t, id)
  <2> DEFINE o == program.pool[slots[id].job]
             q == Append(inject[o], id)
  <2>1. o \in {0, 1} /\ inject' = [inject EXCEPT ![o] = q] /\ UNCHANGED deque
    BY <1>3 DEF EnqueueReady
  <2> HIDE DEF o
  <2>2. q \in Seq(Id) /\ Range(q) = Range(inject[o]) \cup {id} /\ Distinct(q)
    BY <1>1, <2>1, AppendQ
  <2> HIDE DEF q
  <2>3. \A p \in {0, 1} : inject'[p] = IF p = o THEN q ELSE inject[p]
    BY <2>1 DEF QueueTypes
  <2>4. QueueTypes'
    BY <2>1, <2>2, <2>3 DEF QueueTypes
  <2>5. OnInject(o) \in Token /\ OnInject(o)[1] = "inject"
    BY <2>1, Tokens, TokenOf
  <2>6. \A p \in {0, 1} : OnInject(o) = OnInject(p) <=> p = o
    BY Tokens
  <2>7. \A v \in Worker : OnInject(o) # OnDeque(v)
    BY Tokens
  <2>8. \A p \in {0, 1} : Distinct(inject'[p])
                          /\ Range(inject'[p]) = Range(inject[p]) \cup {y \in {id} : OnInject(o) = OnInject(p)}
    BY <2>2, <2>3, <2>6, <1>1
  <2>9. \A v \in Worker : Distinct(deque'[v])
                          /\ Range(deque'[v]) = Range(deque[v]) \cup {y \in {id} : OnInject(o) = OnDeque(v)}
    BY <2>1, <2>7, <1>1
  <2> QED
    BY <2>4, <2>5, <2>8, <2>9
<1> QED
  BY <1>2, <1>3

NextOf == [i \in Id |-> slots[i].next]

\* The list of dependents, as the members of a linked list.
LEMMA DependentsAre ==
    /\ \A head : Dependents(head) = Members(Id, head, NextOf)
    /\ \A head : Dependents(head)' = Members(Id, head, NextOf')
BY DEF Dependents, NextOf

\* A step that changes the frame on top of a stack from e to f, and puts g on it.
Swap(d, n, e, f, g) ==
    /\ d \in Contexts /\ n \in Pos
    /\ FrameAt(d, n) = e /\ FrameAt(d, n + 1) = Blank
    /\ Stacked(d, n, f, g)

\* What f and g hold, and the list they drain, is what e did.
HoldSame(e, f, g) ==
    /\ Draining(f) = Draining(e) /\ Draining(g) = 0
    /\ \A id \in Id, k \in Holders : (Holds(f, k, id) <=> Holds(e, k, id)) /\ ~Holds(g, k, id)

\* An empty list and a closed one have no members.
LEMMA DrainNone == Dependents(0) = {} /\ Dependents(Closed) = {}
BY NoMembers, Sizes DEF Dependents

\* A missing frame holds, drains, wakes and asks for nothing.
LEMMA BlankHolds ==
    /\ Draining(Blank) = 0 /\ HolderOK(Blank) /\ Waking(Blank) = None
    /\ \A id \in Id, k \in Holders : ~Holds(Blank, k, id)
    /\ \A j : ~Asks(Blank, j)
BY DEF Blank, Draining, HolderOK, Waking, Holds, Holders, Asks

\* A step that moves no slot keeps every slot where it is.
LEMMA PlacedQuiet ==
    ASSUME NEW w, Placed(w), NEW d, NEW n, NEW e, NEW f, NEW g, Swap(d, n, e, f, g),
           UNCHANGED <<program, slots, deque, inject, begun, live>>,
           \A j \in Task : j \in ended' <=> j \in ended,
           HoldSame(e, f, g), HolderOK(f), HolderOK(g)
    PROVE  Placed(w)'
<1>1. \A c \in Contexts, i \in Pos :
         FrameAt(c, i)' = IF c = d /\ i = n THEN f ELSE IF c = d /\ i = n + 1 THEN g ELSE FrameAt(c, i)
  BY DEF Swap, Stacked
<1>2. d \in Contexts /\ n \in Pos /\ FrameAt(d, n) = e /\ FrameAt(d, n + 1) = Blank /\ n + 1 \in Pos /\ n # n + 1
  BY DEF Swap, Pos
<1>3. NextOf' = NextOf /\ \A head : Dependents(head) = Members(Id, head, NextOf)
  BY DependentsAre DEF NextOf
<1>4. Queued(w)'
  BY DEF Placed, Queued
<1>5. Listed(w)'
  <2>1. \A x, id \in Id : id \in Members(Id, slots'[x].dependents, NextOf') <=> w[id] = OnList(x)
    BY <1>3 DEF Placed, Listed
  <2>2. ASSUME NEW c \in Contexts, NEW i \in Pos, NEW id \in Id
        PROVE  id \in Members(Id, Draining(FrameAt(c, i)'), NextOf') <=> w[id] = Drained(c, i)
    <3>1. id \in Members(Id, Draining(FrameAt(c, i)), NextOf') <=> w[id] = Drained(c, i)
      BY <1>3 DEF Placed, Listed
    <3>2. CASE c = d /\ i = n
      BY <3>1, <3>2, <1>1, <1>2, <1>3 DEF HoldSame
    <3>3. CASE c = d /\ i = n + 1
      BY <3>1, <3>3, <1>1, <1>2, <1>3, BlankHolds DEF HoldSame
    <3>4. CASE ~(c = d /\ i = n) /\ ~(c = d /\ i = n + 1)
      BY <3>1, <3>4, <1>1, <1>3
    <3> QED
      BY <3>2, <3>3, <3>4
  <2>3. \A id \in Id : w[id][1] \in {"list", "enqueue"} => id \notin Members(Id, slots'[id].next, NextOf')
    BY <1>3 DEF Placed, Listed
  <2> QED
    BY <2>1, <2>2, <2>3, DependentsAre DEF Listed, Dependents, NextOf
<1>6. Carried(w)'
  <2>1. ASSUME NEW c \in Contexts, NEW i \in Pos, NEW id \in Id, NEW k \in Holders
        PROVE  Holds(FrameAt(c, i)', k, id) <=> w[id] = Held(k, c, i)
    <3>1. Holds(FrameAt(c, i), k, id) <=> w[id] = Held(k, c, i)
      BY DEF Placed, Carried
    <3>2. CASE c = d /\ i = n
      BY <3>1, <3>2, <1>1, <1>2 DEF HoldSame
    <3>3. CASE c = d /\ i = n + 1
      BY <3>1, <3>3, <1>1, <1>2, BlankHolds DEF HoldSame
    <3>4. CASE ~(c = d /\ i = n) /\ ~(c = d /\ i = n + 1)
      BY <3>1, <3>4, <1>1
    <3> QED
      BY <3>2, <3>3, <3>4
  <2> QED
    BY <2>1 DEF Carried
<1>7. Alive(w)'
  <2>1. ASSUME NEW id \in Id PROVE SlotOK(id, w[id][1])'
    <3>1. SlotOK(id, w[id][1])
      BY DEF Placed, Alive
    <3> DEFINE x == w[id][1]
    <3> HIDE DEF x
    <3>2. SlotOK(id, x)
      BY <3>1 DEF x
    <3>3. SlotOK(id, x)'
      BY <3>2 DEF SlotOK, IsClosed, IsShut, FreshSlot, Task, Job
    <3> QED
      BY <3>3 DEF x
  <2>2. ASSUME NEW c \in Contexts, NEW i \in Pos PROVE HolderOK(FrameAt(c, i))'
    <3>1. HolderOK(FrameAt(c, i)')
      BY <1>1 DEF Placed, Alive
    <3> QED
      BY <3>1 DEF HolderOK, IsClosed, IsShut
  <2> QED
    BY <2>1, <2>2 DEF Alive
<1>8. w \in [Id -> Token] /\ live' = Cardinality(InUse(w))
  BY DEF Placed
<1> QED
  BY <1>4, <1>5, <1>6, <1>7, <1>8 DEF Placed, InUse

\* A step that changes no queue, slot or stack keeps every slot where it is.
LEMMA PlacedStill ==
    ASSUME NEW w, Placed(w), UNCHANGED <<program, slots, deque, inject, begun, live, ended, stack>>
    PROVE  Placed(w)'
<1>1. \A c, i : FrameAt(c, i)' = FrameAt(c, i)
  BY Still
<1>2. \A head : Dependents(head)' = Dependents(head)
  BY DEF Dependents
<1>3. Queued(w)'
  BY DEF Placed, Queued
<1>4. Listed(w)'
  BY <1>1, <1>2 DEF Placed, Listed, Dependents
<1>5. Carried(w)'
  BY <1>1 DEF Placed, Carried
<1>6. Alive(w)'
  <2>1. \A id \in Id : SlotOK(id, w[id][1])
    BY DEF Placed, Alive
  <2>2. \A id \in Id : \A x : SlotOK(id, x)' <=> SlotOK(id, x)
    BY DEF SlotOK, IsClosed, IsShut, FreshSlot, Task, Job
  <2>3. \A c \in Contexts, i \in Pos : HolderOK(FrameAt(c, i))'
    BY <1>1 DEF Placed, Alive, HolderOK, IsClosed, IsShut
  <2> QED
    BY <2>1, <2>2, <2>3 DEF Alive
<1> QED
  BY <1>3, <1>4, <1>5, <1>6 DEF Placed, InUse

\* The slots that f and g hold are those that w2 gives them; the other frames
\* hold what they held.
HoldMove(w, w2, d, n, f, g) ==
    /\ \A x \in Id, k \in Holders : Holds(f, k, x) <=> w2[x] = Held(k, d, n)
    /\ \A x \in Id, k \in Holders : Holds(g, k, x) <=> w2[x] = Held(k, d, n + 1)
    /\ \A x \in Id, c \in Contexts, i \in Pos, k \in Holders :
          ~(c = d /\ i = n) /\ ~(c = d /\ i = n + 1) =>
              (w2[x] = Held(k, c, i) <=> w[x] = Held(k, c, i))

\* The frames that hold a slot, when a step changes two frames and moves some slots.
LEMMA CarriedMove ==
    ASSUME NEW w, NEW w2, Carried(w), NEW d, NEW n, NEW e, NEW f, NEW g, Swap(d, n, e, f, g),
           HoldMove(w, w2, d, n, f, g)
    PROVE  Carried(w2)'
<1>1. \A c \in Contexts, i \in Pos :
         FrameAt(c, i)' = IF c = d /\ i = n THEN f ELSE IF c = d /\ i = n + 1 THEN g ELSE FrameAt(c, i)
  BY DEF Swap, Stacked
<1>2. n # n + 1
  BY DEF Swap, Pos
<1>3. ASSUME NEW c \in Contexts, NEW i \in Pos, NEW x \in Id, NEW k \in Holders
      PROVE  Holds(FrameAt(c, i)', k, x) <=> w2[x] = Held(k, c, i)
  <2>1. CASE c = d /\ i = n
    BY <2>1, <1>1, <1>2 DEF HoldMove
  <2>2. CASE c = d /\ i = n + 1
    BY <2>2, <1>1, <1>2 DEF HoldMove
  <2>3. CASE ~(c = d /\ i = n) /\ ~(c = d /\ i = n + 1)
    BY <2>3, <1>1 DEF Carried, HoldMove
  <2> QED
    BY <2>1, <2>2, <2>3
<1> QED
  BY <1>3 DEF Carried

\* What leaves a list is what f no longer drains.
ListMove(w, w2, d, n, f, g) ==
    /\ \A x \in Id : w2[x] = w[x] \/ (w2[x][1] \notin {"list", "enqueue"} /\ w[x][1] # "list")
    /\ \A x \in Id, c \in Contexts, i \in Pos : w[x] = Drained(c, i) =>
          w2[x] = w[x] \/ (c = d /\ i = n)
    /\ \A x \in Id : x \in Dependents(Draining(f)) <=> w2[x] = Drained(d, n)
    /\ Draining(g) = 0

\* The lists of dependents, when a step changes no link.
LEMMA ListedMove ==
    ASSUME NEW w, NEW w2, Listed(w), NEW d, NEW n, NEW e, NEW f, NEW g, Swap(d, n, e, f, g),
           NextOf' = NextOf, \A x \in Id : slots'[x].dependents = slots[x].dependents,
           ListMove(w, w2, d, n, f, g)
    PROVE  Listed(w2)'
<1> USE DEF ListMove
<1>1. \A c \in Contexts, i \in Pos :
         FrameAt(c, i)' = IF c = d /\ i = n THEN f ELSE IF c = d /\ i = n + 1 THEN g ELSE FrameAt(c, i)
  BY DEF Swap, Stacked
<1>2. n # n + 1 /\ n + 1 \in Pos /\ d \in Contexts /\ FrameAt(d, n + 1) = Blank
  BY DEF Swap, Pos
<1>3. \A head : Dependents(head) = Members(Id, head, NextOf')
  BY DependentsAre
<1>4. \A x \in Id : w2[x][1] = "list" => w2[x] = w[x]
  OBVIOUS
<1>5. \A x, y \in Id : y \in Members(Id, slots'[x].dependents, NextOf') <=> w2[y] = OnList(x)
  <2>1. \A x, y \in Id : y \in Members(Id, slots'[x].dependents, NextOf') <=> w[y] = OnList(x)
    BY <1>3 DEF Listed
  <2>2. \A x, y \in Id : w2[y] = OnList(x) <=> w[y] = OnList(x)
    BY <1>4, Tokens
  <2> QED
    BY <2>1, <2>2
<1>6. ASSUME NEW c \in Contexts, NEW i \in Pos, NEW x \in Id
      PROVE  x \in Members(Id, Draining(FrameAt(c, i)'), NextOf') <=> w2[x] = Drained(c, i)
  <2>1. x \in Members(Id, Draining(FrameAt(c, i)), NextOf') <=> w[x] = Drained(c, i)
    BY <1>3 DEF Listed
  <2>2. w2[x] = Drained(c, i) => w2[x] = w[x]
    BY Tokens
  <2>3. CASE c = d /\ i = n
    BY <2>3, <1>1, <1>3
  <2>4. CASE c = d /\ i = n + 1
    <3>1. FrameAt(c, i)' = g /\ FrameAt(c, i) = Blank
      BY <2>4, <1>1, <1>2
    <3>2. Members(Id, 0, NextOf') = {}
      BY NoMembers, Sizes
    <3>3. w[x] # Drained(c, i)
      BY <2>1, <3>1, <3>2, BlankHolds
    <3> QED
      BY <3>1, <3>2, <3>3, <2>2
  <2>5. CASE ~(c = d /\ i = n) /\ ~(c = d /\ i = n + 1)
    BY <2>1, <2>2, <2>5, <1>1
  <2> QED
    BY <2>3, <2>4, <2>5
<1>7. \A x \in Id : w2[x][1] \in {"list", "enqueue"} => x \notin Members(Id, slots'[x].next, NextOf')
  <2>1. ASSUME NEW x \in Id, w2[x][1] \in {"list", "enqueue"} PROVE w[x][1] \in {"list", "enqueue"}
    BY <2>1
  <2>2. \A x \in Id : slots'[x].next = slots[x].next
    <3>1. \A x \in Id : NextOf[x] = slots[x].next /\ NextOf'[x] = slots'[x].next
      BY DEF NextOf
    <3> QED
      BY <3>1
  <2> QED
    BY <2>1, <2>2, <1>3 DEF Listed
<1> QED
  BY <1>5, <1>6, <1>7, DependentsAre DEF Listed, Dependents, NextOf

\* Nothing goes into a queue or comes from one.
QueueMove(w, w2) ==
    \A x \in Id : w2[x] = w[x] \/ (w2[x][1] \notin {"deque", "inject"} /\ w[x][1] \notin {"deque", "inject"})

\* The queues, when a step changes none and moves no slot into or out of one.
LEMMA QueuedSame ==
    ASSUME NEW w, NEW w2, Queued(w), UNCHANGED <<deque, inject>>, QueueMove(w, w2)
    PROVE  Queued(w2)'
<1> USE DEF QueueMove
<1>1. \A x \in Id : \A v : (w2[x] = OnDeque(v) <=> w[x] = OnDeque(v)) /\ (w2[x] = OnInject(v) <=> w[x] = OnInject(v))
  BY Tokens
<1> QED
  BY <1>1 DEF Queued

\* A slot changes only in the hands of the frame on top.
SlotSame(x) ==
    /\ slots'[x].job = slots[x].job
    /\ slots'[x].dependents = Closed <=> slots[x].dependents = Closed
    /\ slots'[x].waiters = Shut <=> slots[x].waiters = Shut

SlotMove(w, d, n) ==
    \A x \in Id : SlotSame(x) \/ (\A k \in Holders, c \in Contexts, i \in Pos :
                                     w[x] = Held(k, c, i) => c = d /\ i = n)

\* The phases of slots and frames, when a step moves some slots.
LEMMA AliveMove ==
    ASSUME Shapes, NEW w, Alive(w), Carried(w), NEW w2,
           NEW d, NEW n, NEW e, NEW f, NEW g, Swap(d, n, e, f, g),
           \A x \in Id : SlotOK(x, w2[x][1])', HolderOK(f)', HolderOK(g)',
           SlotMove(w, d, n)
    PROVE  Alive(w2)'
<1>1. \A c \in Contexts, i \in Pos :
         FrameAt(c, i)' = IF c = d /\ i = n THEN f ELSE IF c = d /\ i = n + 1 THEN g ELSE FrameAt(c, i)
  BY DEF Swap, Stacked
<1>2. ASSUME NEW c \in Contexts, NEW i \in Pos PROVE HolderOK(FrameAt(c, i))'
  <2>1. CASE c = d /\ i = n
    BY <2>1, <1>1 DEF HolderOK, IsClosed, IsShut
  <2>2. CASE c = d /\ i = n + 1
    <3>1. FrameAt(c, i)' = g
      BY <2>2, <1>1 DEF Swap, Pos
    <3> QED
      BY <3>1 DEF HolderOK, IsClosed, IsShut
  <2>3. CASE ~(c = d /\ i = n) /\ ~(c = d /\ i = n + 1)
    <3>1. PICK u : u = FrameAt(c, i)
      OBVIOUS
    <3>2. FrameAt(c, i)' = u /\ HolderOK(u) /\ u \in Frame \cup {Blank}
      BY <3>1, <2>3, <1>1, FrameAtIn DEF Alive
    <3>3. CASE u.k \in Holders /\ u.id # 0
      <4>1. u.id \in Id
        <5>1. u \in Frame
          BY <3>2, <3>3 DEF Blank, Holders
        <5> QED
          BY <5>1, <3>3, FrameKinds DEF BodyFrame, SubmitFrame, FinishFrame, Holders
      <4>2. w[u.id] = Held(u.k, c, i)
        BY <3>1, <3>3, <4>1 DEF Carried, Holds
      <4>3. SlotSame(u.id)
        BY <4>1, <4>2, <3>3, <2>3 DEF SlotMove
      <4> QED
        BY <3>2, <4>3 DEF HolderOK, IsClosed, IsShut, SlotSame
    <3>4. CASE ~(u.k \in Holders /\ u.id # 0)
      <4>1. u.k = "finish" => u.id # 0
        <5>1. u.k = "finish" => u \in Frame
          BY <3>2 DEF Blank
        <5> QED
          BY <5>1, FrameKinds, Sizes DEF FinishFrame
      <4> QED
        BY <3>2, <3>4, <4>1 DEF HolderOK, Holders
    <3> QED
      BY <3>3, <3>4
  <2> QED
    BY <2>1, <2>2, <2>3
<1> QED
  BY <1>2 DEF Alive

JobsApart == \A x, y \in Id : slots[x].job = slots[y].job /\ slots[x].job \in Task => x = y

\* The slots in use can be counted.
LEMMA InUseIs ==
    ASSUME NEW w
    PROVE  IsFiniteSet(InUse(w)) /\ Cardinality(InUse(w)) \in Nat
<1>1. IsFiniteSet(InUse(w))
  BY Sizes, FS_Subset DEF InUse
<1> QED
  BY <1>1, FS_CardinalityType

\* A token that moves.
LEMMA MoveToken ==
    ASSUME NEW w \in [Id -> Token], NEW id \in Id, NEW x \in Token
    PROVE  /\ [w EXCEPT ![id] = x] \in [Id -> Token]
           /\ \A y \in Id : [w EXCEPT ![id] = x][y] = IF y = id THEN x ELSE w[y]
OBVIOUS

\* The count of slots in use, when one slot moves.
LEMMA InUseMove ==
    ASSUME NEW w \in [Id -> Token], NEW id \in Id, NEW w2 \in [Id -> Token],
           \A y \in Id : y # id => w2[y] = w[y]
    PROVE  Cardinality(InUse(w2)) = IF w[id] # Unused /\ w2[id] = Unused THEN Cardinality(InUse(w)) - 1
                                    ELSE IF w[id] = Unused /\ w2[id] # Unused THEN Cardinality(InUse(w)) + 1
                                    ELSE Cardinality(InUse(w))
<1>1. IsFiniteSet(InUse(w))
  BY InUseIs
<1>2. CASE w[id] # Unused /\ w2[id] = Unused
  <2>1. InUse(w2) = InUse(w) \ {id} /\ id \in InUse(w)
    BY <1>2 DEF InUse
  <2> QED
    BY <2>1, <1>1, <1>2, FS_RemoveElement
<1>3. CASE w[id] = Unused /\ w2[id] # Unused
  <2>1. InUse(w2) = InUse(w) \cup {id} /\ id \notin InUse(w)
    BY <1>3 DEF InUse
  <2> QED
    BY <2>1, <1>1, <1>3, FS_AddElement
<1>4. CASE w[id] = Unused <=> w2[id] = Unused
  <2>1. InUse(w2) = InUse(w)
    BY <1>4 DEF InUse
  <2> QED
    BY <2>1, <1>4
<1> QED
  BY <1>2, <1>3, <1>4

\* The frame at m is the body of id.
TakeMove(e, f, g, n, m, id) ==
    /\ m \in {n, n + 1}
    /\ Draining(e) = 0 /\ Draining(f) = 0 /\ Draining(g) = 0
    /\ \A x \in Id, k \in Holders : Holds(f, k, x) <=> Holds(e, k, x) \/ (m = n /\ k = "body" /\ x = id)
    /\ \A x \in Id, k \in Holders : Holds(g, k, x) <=> (m = n + 1 /\ k = "body" /\ x = id)
    /\ HolderOK(f) /\ HolderOK(g)

\* try_get_job takes a slot off a queue and the frame of its body holds it.
LEMMA PlacedTake ==
    ASSUME Shapes, NEW w, Placed(w), JobsApart,
           NEW d, NEW n, NEW e, NEW f, NEW g, Swap(d, n, e, f, g),
           NEW self, NEW id \in Id, TryGetJob(self, self, id), Begin(id),
           UNCHANGED <<program, slots, live, ended>>, NEW m, TakeMove(e, f, g, n, m, id),
           NEW w2, w2 = [w EXCEPT ![id] = Held("body", d, m)]
    PROVE  Placed(w2)' /\ w[id][1] \in {"deque", "inject"}
<1> USE DEF TakeMove
<1>1. w \in [Id -> Token] /\ Queued(w) /\ Listed(w) /\ Carried(w) /\ Alive(w) /\ live = Cardinality(InUse(w))
  BY DEF Placed
<1>2. QueueTypes
  BY DEF Shapes, QueueTypes
<1>3. /\ w[id][1] \in {"deque", "inject"} /\ QueueTypes'
      /\ \A v \in Worker : Range(deque'[v]) = Range(deque[v]) \ {id} /\ Distinct(deque'[v])
      /\ \A p \in {0, 1} : Range(inject'[p]) = Range(inject[p]) \ {id} /\ Distinct(inject'[p])
  BY <1>1, <1>2, Taken
<1>4. d \in Contexts /\ n \in Pos /\ m \in Pos /\ n # n + 1
  BY DEF Swap, Pos
<1>5. Held("body", d, m) \in Token
  BY <1>4, TokenOf DEF Holders
<1>6. w2 \in [Id -> Token] /\ \A y \in Id : w2[y] = IF y = id THEN Held("body", d, m) ELSE w[y]
  BY <1>1, <1>5, MoveToken
<1>7. w2[id] = Held("body", d, m) /\ w2[id][1] = "body" /\ w[id] # Unused /\ w2[id] # Unused
  BY <1>3, <1>6, Tokens
<1>8. Queued(w2)'
  <2>1. \A v \in Worker : \A x \in Id : x \in Range(deque'[v]) <=> w2[x] = OnDeque(v)
    BY <1>1, <1>3, <1>6, <1>7, Tokens DEF Queued
  <2>2. \A p \in {0, 1} : \A x \in Id : x \in Range(inject'[p]) <=> w2[x] = OnInject(p)
    BY <1>1, <1>3, <1>6, <1>7, Tokens DEF Queued
  <2> QED
    BY <2>1, <2>2, <1>3 DEF Queued
<1>9. Listed(w2)'
  <2>1. NextOf' = NextOf /\ \A x \in Id : slots'[x].dependents = slots[x].dependents
    BY DEF NextOf
  <2>2. \A x \in Id : w2[x] = w[x] \/ (w2[x][1] \notin {"list", "enqueue"} /\ w[x][1] # "list")
    BY <1>3, <1>6, <1>7
  <2>3. \A x \in Id, c \in Contexts, i \in Pos : w[x] = Drained(c, i) =>
               w2[x] = w[x] \/ (c = d /\ i = n)
    BY <1>3, <1>6, Tokens
  <2>4. \A x \in Id : x \in Dependents(Draining(f)) <=> w2[x] = Drained(d, n)
    <3>1. \A x \in Id : x \in Dependents(Draining(e)) <=> w[x] = Drained(d, n)
      BY <1>1, <1>4 DEF Swap, Listed
    <3>2. \A x \in Id : w2[x] = Drained(d, n) <=> w[x] = Drained(d, n)
      BY <1>3, <1>6, <1>7, Tokens
    <3> QED
      BY <3>1, <3>2
  <2>5. ListMove(w, w2, d, n, f, g)
    BY <2>2, <2>3, <2>4 DEF ListMove
  <2> QED
    BY <2>1, <2>5, <1>1, ListedMove
<1>10. Carried(w2)'
  <2>1. \A x \in Id, k \in Holders : Holds(e, k, x) <=> w[x] = Held(k, d, n)
    BY <1>1, <1>4 DEF Carried, Swap
  <2>2. \A k \in Holders : \A c, i : w[id] # Held(k, c, i)
    BY <1>3, Tokens DEF Holders
  <2>3. \A x \in Id, k \in Holders : w[x] # Held(k, d, n + 1)
    <3>1. n + 1 \in Pos /\ FrameAt(d, n + 1) = Blank
      BY <1>4 DEF Pos, Swap
    <3> QED
      BY <3>1, <1>1, <1>4, BlankHolds DEF Carried
  <2>4. \A k, c, i : w2[id] = Held(k, c, i) <=> k = "body" /\ c = d /\ i = m
    BY <1>7, Tokens
  <2>5. \A x \in Id, k \in Holders : Holds(f, k, x) <=> w2[x] = Held(k, d, n)
    BY <2>1, <2>2, <2>4, <1>6
  <2>6. \A x \in Id, k \in Holders : Holds(g, k, x) <=> w2[x] = Held(k, d, n + 1)
    BY <2>3, <2>4, <1>6, <1>4
  <2>7. \A x \in Id, c \in Contexts, i \in Pos, k \in Holders :
               ~(c = d /\ i = n) /\ ~(c = d /\ i = n + 1) =>
                   (w2[x] = Held(k, c, i) <=> w[x] = Held(k, c, i))
    BY <2>2, <2>4, <1>6
  <2>8. HoldMove(w, w2, d, n, f, g)
    BY <2>5, <2>6, <2>7 DEF HoldMove
  <2> QED
    BY <2>8, <1>1, CarriedMove
<1>11. Alive(w2)'
  <2>1. SlotOK(id, w[id][1]) /\ w[id][1] # "unused"
    BY <1>1, <1>3 DEF Alive
  <2>2. slots[id].gen # 0 /\ slots[id].job \in Task /\ begun[slots[id].job] = 0
        /\ slots[id].job \notin ended /\ ~IsClosed(id) /\ ~IsShut(id) /\ slots[id].job # None
    BY <2>1, <1>3, Programmed DEF SlotOK, Task, Shapes
  <2>3. begun' = [begun EXCEPT ![slots[id].job] = begun[slots[id].job] + 1]
    BY <2>2 DEF Begin
  <2>4. \A j \in Job : begun'[j] = IF j = slots[id].job THEN 1 ELSE begun[j]
    BY <2>2, <2>3 DEF Shapes
  <2>5. Task' = Task /\ Task \subseteq Job
    BY DEF Task, Job
  <2>6. SlotOK(id, w2[id][1])'
    BY <2>2, <2>4, <2>5, <1>7 DEF SlotOK, IsClosed, IsShut, FreshSlot
  <2>7. ASSUME NEW x \in Id, x # id PROVE SlotOK(x, w2[x][1])'
    <3>1. SlotOK(x, w[x][1]) /\ w2[x] = w[x]
      BY <2>7, <1>1, <1>6 DEF Alive
    <3>2. slots[x].job \in Task => slots[x].job # slots[id].job
      BY <2>7, <2>2 DEF JobsApart
    <3> QED
      BY <3>1, <3>2, <2>4, <2>5 DEF SlotOK, IsClosed, IsShut, FreshSlot
  <2>8. \A x \in Id : SlotOK(x, w2[x][1])'
    BY <2>6, <2>7
  <2>9. HolderOK(f)' /\ HolderOK(g)' /\ SlotMove(w, d, n)
    BY DEF HolderOK, IsClosed, IsShut, SlotSame, SlotMove
  <2> QED
    BY <2>8, <2>9, <1>1, AliveMove
<1>12. live' = Cardinality(InUse(w2))
  BY <1>1, <1>6, <1>7, InUseMove
<1> QED
  BY <1>3, <1>6, <1>8, <1>9, <1>10, <1>11, <1>12 DEF Placed, InUse

\* A slot that is in no queue goes into one: that of a frame submitting it, or the
\* next one that a frame drains.
EnqueueMove(e, f, id) ==
    /\ \A x \in Id, k \in Holders : Holds(f, k, x) <=> Holds(e, k, x) /\ x # id
    /\ \A x \in Id : x \in Dependents(Draining(f)) <=> x \in Dependents(Draining(e)) /\ x # id
    /\ HolderOK(f)

\* enqueue_ready puts a slot on the worker's own deque or, when that is full or
\* the caller is no worker, on a queue of the pool.
LEMMA PlacedEnqueue ==
    ASSUME Shapes, NEW w, Placed(w), NEW d, NEW n, NEW e, NEW f, Swap(d, n, e, f, Blank),
           NEW t, NEW id \in Id, w[id] \in {Held("submit", d, n), Drained(d, n)}, EnqueueReady(t, id),
           UNCHANGED <<program, slots, live, begun, ended>>, EnqueueMove(e, f, id)
    PROVE  \E x \in Token : /\ x[1] \in {"deque", "inject"}
                            /\ Placed([w EXCEPT ![id] = x])'
<1> USE DEF EnqueueMove
<1>1. w \in [Id -> Token] /\ Queued(w) /\ Listed(w) /\ Carried(w) /\ Alive(w) /\ live = Cardinality(InUse(w))
  BY DEF Placed
<1>2. QueueTypes /\ w[id][1] \in {"submit", "enqueue"}
  BY Tokens DEF Shapes, QueueTypes
<1>3. program.pool[slots[id].job] \in {0, 1}
  <2>1. SlotOK(id, w[id][1])
    BY <1>1 DEF Alive
  <2>2. slots[id].job \in Task
    BY <2>1, <1>2 DEF SlotOK
  <2> QED
    BY <2>2, Programmed DEF Shapes
<1>4. PICK x \in Token :
        /\ x[1] \in {"deque", "inject"}
        /\ \A v \in Worker : /\ Distinct(deque'[v])
                             /\ Range(deque'[v]) = Range(deque[v]) \cup {y \in {id} : x = OnDeque(v)}
        /\ \A p \in {0, 1} : /\ Distinct(inject'[p])
                             /\ Range(inject'[p]) = Range(inject[p]) \cup {y \in {id} : x = OnInject(p)}
  <2>1. w[id][1] \notin {"deque", "inject"}
    BY <1>2
  <2> QED
    BY <2>1, <1>1, <1>2, <1>3, Enqueued
<1>5. PICK w2 : w2 = [w EXCEPT ![id] = x]
  OBVIOUS
<1>6. w2 \in [Id -> Token] /\ \A y \in Id : w2[y] = IF y = id THEN x ELSE w[y]
  BY <1>1, <1>5, MoveToken
<1>7. d \in Contexts /\ n \in Pos
  BY DEF Swap
<1>8. Queued(w2)'
  <2>1. \A v \in Worker : \A y \in Id : y \in Range(deque'[v]) <=> w2[y] = OnDeque(v)
    BY <1>1, <1>2, <1>4, <1>6, Tokens DEF Queued
  <2>2. \A p \in {0, 1} : \A y \in Id : y \in Range(inject'[p]) <=> w2[y] = OnInject(p)
    BY <1>1, <1>2, <1>4, <1>6, Tokens DEF Queued
  <2> QED
    BY <2>1, <2>2, <1>4 DEF Queued
<1>9. Listed(w2)'
  <2>1. NextOf' = NextOf /\ \A y \in Id : slots'[y].dependents = slots[y].dependents
    BY DEF NextOf
  <2>2. \A y \in Id : w2[y] = w[y] \/ (w2[y][1] \notin {"list", "enqueue"} /\ w[y][1] # "list")
    BY <1>2, <1>4, <1>6
  <2>3. \A y \in Id, c \in Contexts, i \in Pos : w[y] = Drained(c, i) => w2[y] = w[y] \/ (c = d /\ i = n)
    BY <1>6, Tokens
  <2>4. \A y \in Id : y \in Dependents(Draining(f)) <=> w2[y] = Drained(d, n)
    <3>1. \A y \in Id : y \in Dependents(Draining(e)) <=> w[y] = Drained(d, n)
      BY <1>1, <1>7 DEF Swap, Listed
    <3>2. x # Drained(d, n)
      BY <1>4, Tokens
    <3> QED
      BY <3>1, <3>2, <1>6
  <2>5. ListMove(w, w2, d, n, f, Blank)
    BY <2>2, <2>3, <2>4, BlankHolds DEF ListMove
  <2> QED
    BY <2>1, <2>5, <1>1, ListedMove
<1>10. Carried(w2)'
  <2>1. \A y \in Id, k \in Holders : Holds(e, k, y) <=> w[y] = Held(k, d, n)
    BY <1>1, <1>7 DEF Carried, Swap
  <2>2. \A k \in Holders : \A c, i : x # Held(k, c, i)
    BY <1>4, Tokens DEF Holders
  <2>3. \A y \in Id, k \in Holders : w[y] # Held(k, d, n + 1)
    <3>1. n + 1 \in Pos /\ FrameAt(d, n + 1) = Blank
      BY <1>7 DEF Pos, Swap
    <3> QED
      BY <3>1, <1>1, <1>7, BlankHolds DEF Carried
  <2>4. \A k \in Holders : \A c, i : w[id] = Held(k, c, i) => c = d /\ i = n
    <3>1. CASE w[id] = Held("submit", d, n)
      BY <3>1, Tokens
    <3>2. CASE w[id] = Drained(d, n)
      <4>1. \A k \in Holders : \A c, i : Held(k, c, i) # Drained(d, n)
        BY DEF Held, Drained, Holders
      <4> QED
        BY <3>2, <4>1
    <3> QED
      BY <3>1, <3>2
  <2>5. \A y \in Id, k \in Holders : Holds(f, k, y) <=> w2[y] = Held(k, d, n)
    BY <2>1, <2>2, <1>6
  <2>6. \A y \in Id, k \in Holders : Holds(Blank, k, y) <=> w2[y] = Held(k, d, n + 1)
    BY <2>2, <2>3, <1>6, BlankHolds
  <2>7. \A y \in Id, c \in Contexts, i \in Pos, k \in Holders :
               ~(c = d /\ i = n) /\ ~(c = d /\ i = n + 1) =>
                   (w2[y] = Held(k, c, i) <=> w[y] = Held(k, c, i))
    BY <2>2, <2>4, <1>6
  <2>8. HoldMove(w, w2, d, n, f, Blank)
    BY <2>5, <2>6, <2>7 DEF HoldMove
  <2> QED
    BY <2>8, <1>1, CarriedMove
<1>11. Alive(w2)'
  <2>1. \A y, z : SlotOK(y, z)' <=> SlotOK(y, z)
    BY DEF SlotOK, IsClosed, IsShut, FreshSlot, Task, Job
  <2>2. SlotOK(id, x[1])
    <3>1. SlotOK(id, w[id][1])
      BY <1>1 DEF Alive
    <3> QED
      BY <3>1, <1>2, <1>4 DEF SlotOK
  <2>3. \A y \in Id : SlotOK(y, w2[y][1])'
    BY <2>1, <2>2, <1>1, <1>6 DEF Alive
  <2>4. HolderOK(f)' /\ HolderOK(Blank)' /\ SlotMove(w, d, n)
    BY BlankHolds DEF HolderOK, IsClosed, IsShut, SlotSame, SlotMove
  <2> QED
    BY <2>3, <2>4, <1>1, AliveMove
<1>12. live' = Cardinality(InUse(w2))
  <2>1. w[id] # Unused /\ w2[id] # Unused
    BY <1>2, <1>4, <1>6, Tokens
  <2> QED
    BY <2>1, <1>1, <1>6, InUseMove
<1>13. Placed(w2)'
  BY <1>6, <1>8, <1>9, <1>10, <1>11, <1>12 DEF Placed, InUse
<1> QED
  BY <1>4, <1>5, <1>13

\* The links of what is on no list may change.
LEMMA Relinked ==
    ASSUME NEW w \in [Id -> Token], Listed(w), NEW id \in Id, w[id][1] \notin {"list", "enqueue"},
           \A y \in Id \ {id} : NextOf'[y] = NextOf[y]
    PROVE  /\ \A x \in Id : Members(Id, slots[x].dependents, NextOf') = Dependents(slots[x].dependents)
           /\ \A c \in Contexts, i \in Pos :
                 Members(Id, Draining(FrameAt(c, i)), NextOf') = Dependents(Draining(FrameAt(c, i)))
           /\ \A x \in Id : w[x][1] \in {"list", "enqueue"} =>
                 Members(Id, slots[x].next, NextOf') = Dependents(slots[x].next)
<1>1. \A head : id \notin Dependents(head) => Members(Id, head, NextOf') = Dependents(head)
  <2> TAKE head
  <2> HAVE id \notin Dependents(head)
  <2>1. id \notin Members(Id, head, NextOf) /\ Dependents(head) = Members(Id, head, NextOf)
    BY DependentsAre
  <2> QED
    BY <2>1, MembersSame
<1>2. \A x \in Id : id \notin Dependents(slots[x].dependents)
  BY Tokens DEF Listed
<1>3. \A c \in Contexts, i \in Pos : id \notin Dependents(Draining(FrameAt(c, i)))
  BY Tokens DEF Listed
<1>4. ASSUME NEW x \in Id, w[x][1] \in {"list", "enqueue"} PROVE id \notin Dependents(slots[x].next)
  <2>1. \A head : x \in Dependents(head) => Dependents(slots[x].next) \subseteq Dependents(head)
    <3> TAKE head
    <3> HAVE x \in Dependents(head)
    <3>1. x \in Members(Id, head, NextOf)
      BY DependentsAre
    <3>2. Members(Id, NextOf[x], NextOf) \subseteq Members(Id, head, NextOf)
      BY <3>1, MembersAfter
    <3> QED
      BY <3>2, DependentsAre DEF NextOf
  <2>2. CASE w[x][1] = "list"
    <3>1. PICK d \in Id : w[x] = OnList(d)
      BY <2>2, TokenTags
    <3> QED
      BY <3>1, <2>1, <1>2 DEF Listed
  <2>3. CASE w[x][1] = "enqueue"
    <3>1. PICK c \in Contexts, i \in Pos : w[x] = Drained(c, i)
      BY <2>3, TokenTags
    <3> QED
      BY <3>1, <2>1, <1>3 DEF Listed
  <2> QED
    BY <1>4, <2>2, <2>3
<1> QED
  BY <1>1, <1>2, <1>3, <1>4

\* The lists after a step, one by one.
ListsAre(w2, d, n, f) ==
    /\ \A x, y \in Id : y \in Members(Id, slots'[x].dependents, NextOf') <=> w2[y] = OnList(x)
    /\ \A y \in Id : y \in Members(Id, Draining(f), NextOf') <=> w2[y] = Drained(d, n)
    /\ \A y \in Id : w2[y] # Drained(d, n + 1)
    /\ \A c \in Contexts, i \in Pos, y \in Id : ~(c = d /\ i = n) /\ ~(c = d /\ i = n + 1) =>
          (y \in Members(Id, Draining(FrameAt(c, i)), NextOf') <=> w2[y] = Drained(c, i))
    /\ \A x \in Id : w2[x][1] \in {"list", "enqueue"} => x \notin Members(Id, slots'[x].next, NextOf')

\* The lists of dependents, when a step changes links.
LEMMA ListedAre ==
    ASSUME NEW d, NEW n, NEW e, NEW f, NEW g, Swap(d, n, e, f, g), Draining(g) = 0,
           NEW w2, ListsAre(w2, d, n, f)
    PROVE  Listed(w2)'
<1> USE DEF ListsAre
<1>1. \A c \in Contexts, i \in Pos :
         FrameAt(c, i)' = IF c = d /\ i = n THEN f ELSE IF c = d /\ i = n + 1 THEN g ELSE FrameAt(c, i)
  BY DEF Swap, Stacked
<1>2. n # n + 1
  BY DEF Swap, Pos
<1>3. ASSUME NEW c \in Contexts, NEW i \in Pos, NEW y \in Id
      PROVE  y \in Members(Id, Draining(FrameAt(c, i)'), NextOf') <=> w2[y] = Drained(c, i)
  <2>1. CASE c = d /\ i = n
    BY <2>1, <1>1
  <2>2. CASE c = d /\ i = n + 1
    <3>1. Members(Id, 0, NextOf') = {}
      BY NoMembers, Sizes
    <3> QED
      BY <3>1, <2>2, <1>1, <1>2
  <2>3. CASE ~(c = d /\ i = n) /\ ~(c = d /\ i = n + 1)
    BY <2>3, <1>1
  <2> QED
    BY <2>1, <2>2, <2>3
<1>4. /\ \A x, y \in Id : y \in Members(Id, slots'[x].dependents, NextOf') <=> w2[y] = OnList(x)
      /\ \A x \in Id : w2[x][1] \in {"list", "enqueue"} => x \notin Members(Id, slots'[x].next, NextOf')
  OBVIOUS
<1> HIDE DEF ListsAre
<1> QED
  BY <1>3, <1>4, DependentsAre DEF Listed, Dependents, NextOf

\* What is known of the slot in the hands of the frame on top.
LEMMA HeldBy ==
    ASSUME NEW w, Placed(w), NEW d, NEW n, NEW e, NEW f, NEW g, Swap(d, n, e, f, g),
           e.k \in Holders, e.id \in Id
    PROVE  /\ w[e.id] = Held(e.k, d, n) /\ w[e.id][1] = e.k /\ SlotOK(e.id, e.k) /\ HolderOK(e)
           /\ slots[e.id].gen # 0
           /\ \A x \in Id, k \in Holders : Holds(e, k, x) <=> x = e.id /\ k = e.k
           /\ \A x \in Id, k \in Holders : w[x] = Held(k, d, n) => x = e.id /\ k = e.k
           /\ \A x \in Id, k \in Holders : w[x] # Held(k, d, n + 1)
           /\ \A x \in Id : w[x] # Drained(d, n + 1)
<1>1. d \in Contexts /\ n \in Pos /\ FrameAt(d, n) = e /\ n + 1 \in Pos /\ FrameAt(d, n + 1) = Blank
  BY DEF Swap, Pos
<1>2. \A x \in Id, k \in Holders : Holds(e, k, x) <=> w[x] = Held(k, d, n)
  BY <1>1 DEF Placed, Carried
<1>3. \A x \in Id, k \in Holders : Holds(e, k, x) <=> x = e.id /\ k = e.k
  BY DEF Holds
<1>4. w[e.id] = Held(e.k, d, n) /\ w[e.id][1] = e.k
  BY <1>2, <1>3, Tokens
<1>5. SlotOK(e.id, w[e.id][1]) /\ HolderOK(e)
  BY <1>1 DEF Placed, Alive
<1>6. slots[e.id].gen # 0
  BY <1>4, <1>5 DEF SlotOK, Holders
<1>7. \A x \in Id, k \in Holders : w[x] # Held(k, d, n + 1)
  BY <1>1, BlankHolds DEF Placed, Carried
<1>8. \A x \in Id : w[x] # Drained(d, n + 1)
  BY <1>1, BlankHolds, DrainNone DEF Placed, Listed
<1> QED
  BY <1>2, <1>3, <1>4, <1>5, <1>6, <1>7, <1>8

-----------------------------------------------------------------------------
\* The job's function returns: its slot is to be finished.
LEMMA PlacedEnds ==
    ASSUME Shapes, NEW w, Placed(w), JobsApart,
           NEW d, NEW n, NEW e, NEW f, Swap(d, n, e, f, Blank),
           e.k = "body", e.id \in Id, f = Finish(e.id), ended' = ended \cup {e.job},
           UNCHANGED <<program, slots, deque, inject, live, begun>>,
           NEW w2, w2 = [w EXCEPT ![e.id] = Held("finish", d, n)]
    PROVE  Placed(w2)'
<1> DEFINE id == e.id
<1>1. w \in [Id -> Token] /\ Queued(w) /\ Listed(w) /\ Carried(w) /\ Alive(w) /\ live = Cardinality(InUse(w))
  BY DEF Placed
<1>2. d \in Contexts /\ n \in Pos /\ n # n + 1
  BY DEF Swap, Pos
<1>3. /\ w[id] = Held("body", d, n) /\ w[id][1] = "body" /\ SlotOK(id, "body") /\ HolderOK(e)
      /\ slots[id].gen # 0
      /\ \A x \in Id, k \in Holders : w[x] = Held(k, d, n) => x = id
      /\ \A x \in Id, k \in Holders : w[x] # Held(k, d, n + 1)
  BY HeldBy DEF Holders
<1>4. Held("finish", d, n) \in Token
  BY <1>2, TokenOf DEF Holders
<1>5. w2 \in [Id -> Token] /\ \A y \in Id : w2[y] = IF y = id THEN Held("finish", d, n) ELSE w[y]
  BY <1>1, <1>4, MoveToken
<1>6. w2[id] = Held("finish", d, n) /\ w2[id][1] = "finish" /\ w[id] # Unused /\ w2[id] # Unused
  BY <1>3, <1>5, Tokens
<1>7. Queued(w2)'
  <2>1. QueueMove(w, w2)
    BY <1>3, <1>5, <1>6 DEF QueueMove
  <2> QED
    BY <2>1, <1>1, QueuedSame
<1>8. Listed(w2)'
  <2>1. NextOf' = NextOf /\ \A x \in Id : slots'[x].dependents = slots[x].dependents
    BY DEF NextOf
  <2>2. Draining(f) = 0 /\ Draining(e) = 0
    BY DEF Finish, Draining
  <2>3. \A x \in Id : x \in Dependents(Draining(f)) <=> w2[x] = Drained(d, n)
    <3>1. \A x \in Id : w[x] # Drained(d, n)
      BY <1>1, <1>2, <2>2, DrainNone DEF Swap, Listed
    <3>2. Held("finish", d, n) # Drained(d, n)
      BY DEF Held, Drained
    <3> QED
      BY <3>1, <3>2, <2>2, <1>5, DrainNone
  <2>4. \A x \in Id : w2[x] = w[x] \/ (w2[x][1] \notin {"list", "enqueue"} /\ w[x][1] # "list")
    BY <1>3, <1>5, <1>6
  <2>5. \A x \in Id, c \in Contexts, i \in Pos : w[x] = Drained(c, i) => w2[x] = w[x]
    BY <1>3, <1>5, Tokens
  <2>6. ListMove(w, w2, d, n, f, Blank)
    BY <2>3, <2>4, <2>5, BlankHolds DEF ListMove
  <2> QED
    BY <2>1, <2>6, <1>1, ListedMove
<1>9. Carried(w2)'
  <2>1. \A k, c, i : w[id] = Held(k, c, i) => c = d /\ i = n
    BY <1>3, Tokens
  <2>2. \A k, c, i : w2[id] = Held(k, c, i) <=> k = "finish" /\ c = d /\ i = n
    BY <1>6, Tokens
  <2>3. \A x \in Id, k \in Holders : Holds(f, k, x) <=> x = id /\ k = "finish"
    BY DEF Holds, Finish
  <2>4. \A x \in Id, k \in Holders : Holds(f, k, x) <=> w2[x] = Held(k, d, n)
    BY <2>2, <2>3, <1>3, <1>5
  <2>5. \A x \in Id, k \in Holders : Holds(Blank, k, x) <=> w2[x] = Held(k, d, n + 1)
    BY <2>2, <1>2, <1>3, <1>5, BlankHolds
  <2>6. \A x \in Id, c \in Contexts, i \in Pos, k \in Holders :
               ~(c = d /\ i = n) /\ ~(c = d /\ i = n + 1) =>
                   (w2[x] = Held(k, c, i) <=> w[x] = Held(k, c, i))
    BY <2>1, <2>2, <1>5
  <2>7. HoldMove(w, w2, d, n, f, Blank)
    BY <2>4, <2>5, <2>6 DEF HoldMove
  <2> QED
    BY <2>7, <1>1, CarriedMove
<1>10. Alive(w2)'
  <2>1. e.job = slots[id].job /\ slots[id].job \in Task
    BY <1>3 , Sizes DEF HolderOK, SlotOK
  <2>2. Task' = Task
    BY DEF Task, Job
  <2>3. SlotOK(id, w2[id][1])'
    BY <1>3, <1>6, <2>1, <2>2 DEF SlotOK, IsClosed, IsShut, FreshSlot
  <2>4. ASSUME NEW x \in Id, x # id PROVE SlotOK(x, w2[x][1])'
    <3>1. SlotOK(x, w[x][1]) /\ w2[x] = w[x]
      BY <2>4, <1>1, <1>5 DEF Alive
    <3>2. slots[x].job \in Task => slots[x].job # e.job
      BY <2>4, <2>1 DEF JobsApart
    <3> QED
      BY <3>1, <3>2, <2>2 DEF SlotOK, IsClosed, IsShut, FreshSlot
  <2>5. \A x \in Id : SlotOK(x, w2[x][1])'
    BY <2>3, <2>4
  <2>6. HolderOK(f)' /\ HolderOK(Blank)' /\ SlotMove(w, d, n)
    <3>1. ~IsClosed(id) /\ ~IsShut(id)
      BY <1>3 DEF SlotOK
    <3> QED
      BY <3>1, BlankHolds DEF HolderOK, IsClosed, IsShut, SlotSame, SlotMove, Finish
  <2> QED
    BY <2>5, <2>6, <1>1, AliveMove
<1>11. live' = Cardinality(InUse(w2))
  BY <1>1, <1>5, <1>6, InUseMove
<1> QED
  BY <1>5, <1>7, <1>8, <1>9, <1>10, <1>11 DEF Placed, InUse

\* finish_job() ends: the slot is used no more.
LEMMA PlacedFree ==
    ASSUME Shapes, NEW w, Placed(w), NEW d, NEW n, NEW e, Swap(d, n, e, Blank, Blank),
           e.k = "finish", e.id \in Id, e.pc = "live", live' = live - 1,
           UNCHANGED <<program, slots, deque, inject, ended, begun>>,
           NEW w2, w2 = [w EXCEPT ![e.id] = Unused]
    PROVE  Placed(w2)'
<1> DEFINE id == e.id
<1>1. w \in [Id -> Token] /\ Queued(w) /\ Listed(w) /\ Carried(w) /\ Alive(w) /\ live = Cardinality(InUse(w))
  BY DEF Placed
<1>2. d \in Contexts /\ n \in Pos /\ n # n + 1
  BY DEF Swap, Pos
<1>3. /\ w[id] = Held("finish", d, n) /\ w[id][1] = "finish" /\ SlotOK(id, "finish") /\ HolderOK(e)
      /\ slots[id].gen # 0
      /\ \A x \in Id, k \in Holders : w[x] = Held(k, d, n) => x = id
      /\ \A x \in Id, k \in Holders : w[x] # Held(k, d, n + 1)
  BY HeldBy DEF Holders
<1>4. Unused \in Token
  BY TokenOf
<1>5. w2 \in [Id -> Token] /\ \A y \in Id : w2[y] = IF y = id THEN Unused ELSE w[y]
  BY <1>1, <1>4, MoveToken
<1>6. w2[id] = Unused /\ w2[id][1] = "unused" /\ w[id] # Unused
  BY <1>3, <1>5, Tokens
<1>7. Queued(w2)'
  <2>1. QueueMove(w, w2)
    BY <1>3, <1>5, <1>6 DEF QueueMove
  <2> QED
    BY <2>1, <1>1, QueuedSame
<1>8. Listed(w2)'
  <2>1. NextOf' = NextOf /\ \A x \in Id : slots'[x].dependents = slots[x].dependents
    BY DEF NextOf
  <2>2. Draining(Blank) = 0 /\ Draining(e) = 0
    BY BlankHolds DEF Draining
  <2>3. \A x \in Id : x \in Dependents(Draining(Blank)) <=> w2[x] = Drained(d, n)
    <3>1. \A x \in Id : w[x] # Drained(d, n)
      BY <1>1, <1>2, <2>2, DrainNone DEF Swap, Listed
    <3>2. Unused # Drained(d, n)
      BY DEF Unused, Drained
    <3> QED
      BY <3>1, <3>2, <2>2, <1>5, DrainNone
  <2>4. \A x \in Id : w2[x] = w[x] \/ (w2[x][1] \notin {"list", "enqueue"} /\ w[x][1] # "list")
    BY <1>3, <1>5, <1>6
  <2>5. \A x \in Id, c \in Contexts, i \in Pos : w[x] = Drained(c, i) => w2[x] = w[x]
    BY <1>3, <1>5, Tokens
  <2>6. ListMove(w, w2, d, n, Blank, Blank)
    BY <2>3, <2>4, <2>5, BlankHolds DEF ListMove
  <2> QED
    BY <2>1, <2>6, <1>1, ListedMove
<1>9. Carried(w2)'
  <2>1. \A k, c, i : w[id] = Held(k, c, i) => c = d /\ i = n
    BY <1>3, Tokens
  <2>2. \A k \in Holders : \A c, i : w2[id] # Held(k, c, i)
    BY <1>6, Tokens DEF Holders
  <2>4. \A x \in Id, k \in Holders : Holds(Blank, k, x) <=> w2[x] = Held(k, d, n)
    BY <2>2, <1>3, <1>5, BlankHolds
  <2>5. \A x \in Id, k \in Holders : Holds(Blank, k, x) <=> w2[x] = Held(k, d, n + 1)
    BY <2>2, <1>3, <1>5, BlankHolds
  <2>6. \A x \in Id, c \in Contexts, i \in Pos, k \in Holders :
               ~(c = d /\ i = n) /\ ~(c = d /\ i = n + 1) =>
                   (w2[x] = Held(k, c, i) <=> w[x] = Held(k, c, i))
    BY <2>1, <2>2, <1>5
  <2>7. HoldMove(w, w2, d, n, Blank, Blank)
    BY <2>4, <2>5, <2>6 DEF HoldMove
  <2> QED
    BY <2>7, <1>1, CarriedMove
<1>10. Alive(w2)'
  <2>1. \A y, z : SlotOK(y, z)' <=> SlotOK(y, z)
    BY DEF SlotOK, IsClosed, IsShut, FreshSlot, Task, Job
  <2>2. SlotOK(id, "unused")
    BY <1>3 DEF SlotOK, HolderOK
  <2>3. \A y \in Id : SlotOK(y, w2[y][1])'
    BY <2>1, <2>2, <1>1, <1>5, <1>6 DEF Alive
  <2>4. HolderOK(Blank)' /\ SlotMove(w, d, n)
    BY BlankHolds DEF HolderOK, IsClosed, IsShut, SlotSame, SlotMove
  <2> QED
    BY <2>3, <2>4, <1>1, AliveMove
<1>11. live' = Cardinality(InUse(w2))
  BY <1>1, <1>5, <1>6, InUseMove
<1> QED
  BY <1>5, <1>7, <1>8, <1>9, <1>10, <1>11 DEF Placed, InUse

\* A slot gets a job.
LEMMA PlacedAlloc ==
    ASSUME Shapes, NEW w, Placed(w), NEW d, NEW n, NEW e, NEW f, Swap(d, n, e, f, Blank),
           e.k = "submit", e.id = 0, f.k = "submit", f.job = e.job, NEW id \in Id, f.id = id,
           NEW x, slots' = [slots EXCEPT ![id] = x], live' = live + 1, ~Occupied(id),
           x.gen \in Nat \ {0}, x.job = e.job, x.job \in Task, x.dependents = 0, x.waiters = None,
           begun[e.job] = 0, e.job \notin ended,
           UNCHANGED <<program, deque, inject, ended, begun>>,
           NEW w2, w2 = [w EXCEPT ![id] = Held("submit", d, n)]
    PROVE  Placed(w2)' /\ w[id] = Unused
<1>1. w \in [Id -> Token] /\ Queued(w) /\ Listed(w) /\ Carried(w) /\ Alive(w) /\ live = Cardinality(InUse(w))
  BY DEF Placed
<1>2. d \in Contexts /\ n \in Pos /\ n # n + 1 /\ n + 1 \in Pos /\ FrameAt(d, n) = e /\ FrameAt(d, n + 1) = Blank
  BY DEF Swap, Pos
<1>3. w[id] = Unused /\ w[id][1] = "unused"
  <2>1. SlotOK(id, w[id][1])
    BY <1>1 DEF Alive
  <2>2. w[id] \in Token
    BY <1>1
  <2>3. w[id][1] # "finish"
    <3> SUFFICES ASSUME w[id][1] = "finish" PROVE FALSE
      OBVIOUS
    <3>1. PICK c \in Contexts, i \in Pos : w[id] = Held("finish", c, i)
      BY <2>2, TokenTags DEF Holders
    <3>2. FrameAt(c, i).k = "finish" /\ FrameAt(c, i).id = id
      BY <3>1, <1>1 DEF Carried, Holders, Holds
    <3>3. FrameAt(c, i) # Blank
      BY <3>2 DEF Blank
    <3>4. i \in DOMAIN stack[c] /\ stack[c][i] = FrameAt(c, i)
      BY <3>3 DEF FrameAt
    <3>5. Finishes(id)
      BY <3>2, <3>4 DEF Finishes
    <3>6. slots[id].gen = 0
      BY <3>5, <2>1 DEF Occupied, SlotOK
    <3> QED
      BY <3>6, <2>1 DEF SlotOK
  <2>4. w[id][1] = "unused"
    <3>1. CASE slots[id].gen = 0
      BY <3>1, <2>1 DEF SlotOK
    <3>2. CASE slots[id].gen # 0
      BY <3>2, <2>1, <2>3 DEF SlotOK, Occupied
    <3> QED
      BY <3>1, <3>2
  <2> QED
    BY <2>2, <2>4, TokenTags
<1>4. Held("submit", d, n) \in Token
  BY <1>2, TokenOf DEF Holders
<1>5. w2 \in [Id -> Token] /\ \A y \in Id : w2[y] = IF y = id THEN Held("submit", d, n) ELSE w[y]
  BY <1>1, <1>4, MoveToken
<1>6. w2[id] = Held("submit", d, n) /\ w2[id][1] = "submit" /\ w2[id] # Unused
  BY <1>5, Tokens
<1>7. slots' \in [Id -> {slots'[y] : y \in Id}] /\ slots'[id] = x /\ \A y \in Id : y # id => slots'[y] = slots[y]
  BY DEF Shapes
<1>8. Queued(w2)'
  <2>1. QueueMove(w, w2)
    BY <1>3, <1>5, <1>6 DEF QueueMove
  <2> QED
    BY <2>1, <1>1, QueuedSame
<1>9. Listed(w2)'
  <2>1. \A y \in Id \ {id} : NextOf'[y] = NextOf[y]
    BY <1>7 DEF NextOf
  <2>2. /\ \A y \in Id : Members(Id, slots[y].dependents, NextOf') = Dependents(slots[y].dependents)
        /\ \A c \in Contexts, i \in Pos :
              Members(Id, Draining(FrameAt(c, i)), NextOf') = Dependents(Draining(FrameAt(c, i)))
        /\ \A y \in Id : w[y][1] \in {"list", "enqueue"} =>
              Members(Id, slots[y].next, NextOf') = Dependents(slots[y].next)
    <3>1. w[id][1] \notin {"list", "enqueue"}
      BY <1>3
    <3> QED
      BY <3>1, <2>1, <1>1, Relinked
  <2>3. Members(Id, 0, NextOf') = {}
    BY NoMembers, Sizes
  <2>4. Draining(f) = 0 /\ Draining(e) = 0 /\ Draining(Blank) = 0
    BY BlankHolds DEF Draining
  <2>5. \A y \in Id : w[y] # OnList(id)
    <3>1. slots[id].dependents \in {0, Closed}
      <4>1. SlotOK(id, "unused")
        BY <1>1, <1>3 DEF Alive
      <4> QED
        BY <4>1 DEF SlotOK, FreshSlot, IsClosed
    <3>2. Dependents(slots[id].dependents) = {}
      BY <3>1, DrainNone
    <3> QED
      BY <3>2, <1>1 DEF Listed
  <2>6. \A y \in Id : w[y] # Drained(d, n) /\ w[y] # Drained(d, n + 1)
    BY <1>1, <1>2, <2>4, DrainNone DEF Listed
  <2>7. \A y \in Id : \A u : (w2[y] = OnList(u) <=> w[y] = OnList(u))
    BY <1>3, <1>5, <1>6, Tokens
  <2>8. \A y \in Id : \A c, i : (w2[y] = Drained(c, i) <=> w[y] = Drained(c, i))
    BY <1>3, <1>5, <1>6, Tokens
  <2>9. \A u, y \in Id : y \in Members(Id, slots'[u].dependents, NextOf') <=> w2[y] = OnList(u)
    <3> TAKE u, y \in Id
    <3>1. CASE u = id
      BY <3>1, <2>3, <2>5, <2>7, <1>7
    <3>2. CASE u # id
      BY <3>2, <2>2, <2>7, <1>1, <1>7 DEF Listed
    <3> QED
      BY <3>1, <3>2
  <2>10. \A y \in Id : y \in Members(Id, Draining(f), NextOf') <=> w2[y] = Drained(d, n)
    BY <2>3, <2>4, <2>6, <2>8
  <2>11. \A y \in Id : w2[y] # Drained(d, n + 1)
    BY <2>6, <2>8
  <2>12. \A c \in Contexts, i \in Pos, y \in Id :
            y \in Members(Id, Draining(FrameAt(c, i)), NextOf') <=> w2[y] = Drained(c, i)
    BY <2>2, <2>8, <1>1 DEF Listed
  <2>13. ASSUME NEW y \in Id, w2[y][1] \in {"list", "enqueue"}
         PROVE  y \notin Members(Id, slots'[y].next, NextOf')
    <3>1. y # id /\ w[y] = w2[y] /\ slots'[y] = slots[y]
      BY <2>13, <1>5, <1>6, <1>7
    <3> QED
      BY <3>1, <2>2, <2>13, <1>1 DEF Listed
  <2>14. ListsAre(w2, d, n, f)
    BY <2>9, <2>10, <2>11, <2>12, <2>13 DEF ListsAre
  <2> QED
    BY <2>4, <2>14, ListedAre
<1>10. Carried(w2)'
  <2>1. \A y \in Id, k \in Holders : ~Holds(e, k, y)
    BY Sizes DEF Holds
  <2>2. \A y \in Id, k \in Holders : w[y] # Held(k, d, n) /\ w[y] # Held(k, d, n + 1)
    BY <2>1, <1>1, <1>2, BlankHolds DEF Carried
  <2>3. \A k, c, i : w2[id] = Held(k, c, i) <=> k = "submit" /\ c = d /\ i = n
    BY <1>6, Tokens
  <2>4. \A k \in Holders : \A c, i : w[id] # Held(k, c, i)
    BY <1>3, Tokens DEF Holders
  <2>5. \A y \in Id, k \in Holders : Holds(f, k, y) <=> y = id /\ k = "submit"
    BY DEF Holds
  <2>6. \A y \in Id, k \in Holders : Holds(f, k, y) <=> w2[y] = Held(k, d, n)
    BY <2>2, <2>3, <2>5, <1>5
  <2>7. \A y \in Id, k \in Holders : Holds(Blank, k, y) <=> w2[y] = Held(k, d, n + 1)
    BY <2>2, <2>3, <1>2, <1>5, BlankHolds
  <2>8. \A y \in Id, c \in Contexts, i \in Pos, k \in Holders :
               ~(c = d /\ i = n) /\ ~(c = d /\ i = n + 1) =>
                   (w2[y] = Held(k, c, i) <=> w[y] = Held(k, c, i))
    BY <2>3, <2>4, <1>5
  <2>9. HoldMove(w, w2, d, n, f, Blank)
    BY <2>6, <2>7, <2>8 DEF HoldMove
  <2> QED
    BY <2>9, <1>1, CarriedMove
<1>11. Alive(w2)'
  <2>1. Task' = Task /\ Closed # 0 /\ None # Shut
    BY Sizes DEF Task, Job
  <2>2. SlotOK(id, "submit")'
    BY <2>1, <1>7 DEF SlotOK, IsClosed, IsShut
  <2>3. ASSUME NEW y \in Id, y # id PROVE SlotOK(y, w2[y][1])'
    <3>1. SlotOK(y, w[y][1]) /\ w2[y] = w[y] /\ slots'[y] = slots[y]
      BY <2>3, <1>1, <1>5, <1>7 DEF Alive
    <3> QED
      BY <3>1, <2>1 DEF SlotOK, IsClosed, IsShut, FreshSlot
  <2>4. \A y \in Id : SlotOK(y, w2[y][1])'
    BY <2>2, <2>3, <1>6
  <2>5. HolderOK(f)' /\ HolderOK(Blank)'
    BY <1>7, BlankHolds DEF HolderOK, Blank
  <2>6. SlotMove(w, d, n)
    <3>1. \A k \in Holders : \A c, i : w[id] # Held(k, c, i)
      BY <1>3, Tokens DEF Holders
    <3> QED
      BY <3>1, <1>7 DEF SlotMove, SlotSame
  <2> QED
    BY <2>4, <2>5, <2>6, <1>1, AliveMove
<1>12. live' = Cardinality(InUse(w2))
  BY <1>1, <1>3, <1>5, <1>6, InUseMove
<1> QED
  BY <1>3, <1>5, <1>8, <1>9, <1>10, <1>11, <1>12 DEF Placed, InUse

MoveTo(w, w2, id, x) == w2 = [w EXCEPT ![id] = x]

LinkSlots(id, v) ==
    slots' = [slots EXCEPT ![id].next = slots[v].dependents, ![v].dependents = id]

\* Putting a slot at the head of another's list changes one link and one head.
LEMMA LinkFields ==
    ASSUME Shapes, NEW id \in Id, NEW v \in Id, v # id, ~IsClosed(v), LinkSlots(id, v)
    PROVE  \A y \in Id : /\ slots'[y].job = slots[y].job /\ slots'[y].gen = slots[y].gen
                         /\ slots'[y].waiters = slots[y].waiters /\ slots'[y].group = slots[y].group
                         /\ slots'[y].next = IF y = id THEN slots[v].dependents ELSE slots[y].next
                         /\ slots'[y].dependents = IF y = v THEN id ELSE slots[y].dependents
                         /\ y # id /\ y # v => slots'[y] = slots[y]
                         /\ slots'[y] \in SlotShape
<1>1. \A y \in Id : slots[y] \in SlotShape
  BY DEF Shapes
<1>2. slots[v].dependents \in {0} \cup Id
  <2>1. slots[v].dependents \in {0, Closed} \cup Id
    BY <1>1 DEF SlotShape
  <2> QED
    BY <2>1 DEF IsClosed
<1> TAKE y \in Id
<1>3. CASE y = v
  <2>1. slots'[y] = [slots[y] EXCEPT !.dependents = id]
    BY <1>3 DEF LinkSlots, Shapes
  <2>2. PICK r : r = slots[y]
    OBVIOUS
  <2>3. r \in SlotShape
    BY <1>1, <2>2
  <2>4. PICK q : q = slots'[y]
    OBVIOUS
  <2>5. q = [r EXCEPT !.dependents = id]
    BY <2>1, <2>2, <2>4
  <2>6. /\ q.job = r.job /\ q.gen = r.gen /\ q.waiters = r.waiters /\ q.group = r.group
        /\ q.next = r.next /\ q.dependents = id
    BY <2>3, <2>5 DEF SlotShape
  <2>7. q \in SlotShape
    BY <2>3, <2>5 DEF SlotShape
  <2> QED
    BY <2>2, <2>4, <2>6, <2>7, <1>3
<1>4. CASE y = id
  <2>1. slots'[y] = [slots[y] EXCEPT !.next = slots[v].dependents]
    BY <1>4 DEF LinkSlots, Shapes
  <2>2. PICK r : r = slots[y]
    OBVIOUS
  <2>3. r \in SlotShape
    BY <1>1, <2>2
  <2>4. PICK q : q = slots'[y]
    OBVIOUS
  <2>0. PICK h : h = slots[v].dependents
    OBVIOUS
  <2>5. q = [r EXCEPT !.next = h]
    BY <2>1, <2>2, <2>4, <2>0
  <2>6. /\ q.job = r.job /\ q.gen = r.gen /\ q.waiters = r.waiters /\ q.group = r.group
        /\ q.next = h /\ q.dependents = r.dependents
    BY <2>3, <2>5 DEF SlotShape
  <2>7. q \in SlotShape
    BY <2>0, <2>3, <2>5, <1>2 DEF SlotShape
  <2> QED
    BY <2>0, <2>2, <2>4, <2>6, <2>7, <1>4
<1>5. CASE y # v /\ y # id
  BY <1>1, <1>5 DEF LinkSlots, Shapes
<1> QED
  BY <1>3, <1>4, <1>5

\* A job goes on the list of the one it depends on.
LEMMA PlacedLink ==
    ASSUME Shapes, NEW w, Placed(w), NEW d, NEW n, NEW e, Swap(d, n, e, Blank, Blank),
           e.k = "submit", e.id \in Id, NEW v \in Id, v # e.id, slots[v].gen # 0, ~IsClosed(v),
           LinkSlots(e.id, v),
           UNCHANGED <<program, deque, inject, ended, begun, live>>,
           NEW w2, MoveTo(w, w2, e.id, OnList(v))
    PROVE  Placed(w2)'
<1> DEFINE id == e.id
           hd == slots[v].dependents
<1>1. w \in [Id -> Token] /\ Queued(w) /\ Listed(w) /\ Carried(w) /\ Alive(w) /\ live = Cardinality(InUse(w))
  BY DEF Placed
<1>2. d \in Contexts /\ n \in Pos /\ n # n + 1 /\ n + 1 \in Pos /\ FrameAt(d, n) = e /\ FrameAt(d, n + 1) = Blank
  BY DEF Swap, Pos
<1>3. /\ w[id] = Held("submit", d, n) /\ w[id][1] = "submit" /\ SlotOK(id, "submit")
      /\ slots[id].gen # 0
      /\ \A y \in Id, k \in Holders : w[y] = Held(k, d, n) => y = id
      /\ \A y \in Id, k \in Holders : w[y] # Held(k, d, n + 1)
      /\ \A y \in Id : w[y] # Drained(d, n + 1)
  BY HeldBy DEF Holders
<1>4. OnList(v) \in Token
  BY TokenOf
<1>5. w2 \in [Id -> Token] /\ \A y \in Id : w2[y] = IF y = id THEN OnList(v) ELSE w[y]
  BY <1>1, <1>4, MoveToken DEF MoveTo
<1>6. w2[id] = OnList(v) /\ w2[id][1] = "list" /\ w2[id] # Unused /\ w[id] # Unused
  BY <1>3, <1>5, Tokens
<1>7. /\ \A y \in Id : /\ slots'[y].job = slots[y].job /\ slots'[y].gen = slots[y].gen
                       /\ slots'[y].waiters = slots[y].waiters
                       /\ slots'[y].next = IF y = id THEN hd ELSE slots[y].next
                       /\ slots'[y].dependents = IF y = v THEN id ELSE slots[y].dependents
      /\ hd # Closed /\ id # Closed
  <2>1. hd # Closed /\ id # Closed
    BY Sizes DEF IsClosed
  <2> QED
    BY <2>1, LinkFields
<1> HIDE DEF hd
<1>8. Queued(w2)'
  <2>1. QueueMove(w, w2)
    BY <1>3, <1>5, <1>6 DEF QueueMove
  <2> QED
    BY <2>1, <1>1, QueuedSame
<1>9. Listed(w2)'
  <2>1. /\ \A y \in Id \ {id} : NextOf'[y] = NextOf[y]
        /\ NextOf'[id] = hd
    BY <1>7 DEF NextOf
  <2>2. /\ \A y \in Id : Members(Id, slots[y].dependents, NextOf') = Dependents(slots[y].dependents)
        /\ \A c \in Contexts, i \in Pos :
              Members(Id, Draining(FrameAt(c, i)), NextOf') = Dependents(Draining(FrameAt(c, i)))
        /\ \A y \in Id : w[y][1] \in {"list", "enqueue"} =>
              Members(Id, slots[y].next, NextOf') = Dependents(slots[y].next)
    <3>1. w[id][1] \notin {"list", "enqueue"}
      BY <1>3
    <3> QED
      BY <3>1, <2>1, <1>1, Relinked
  <2>3. Members(Id, 0, NextOf') = {}
    BY NoMembers, Sizes
  <2>4. Draining(e) = 0 /\ Draining(Blank) = 0
    BY BlankHolds DEF Draining
  <2>5. Members(Id, id, NextOf') = {id} \cup Dependents(hd) /\ Members(Id, hd, NextOf') = Dependents(hd)
    BY <2>1, <2>2, MembersUnfold DEF hd
  <2>6. \A y \in Id : w[y] # Drained(d, n)
    BY <1>1, <1>2, <2>4, DrainNone DEF Listed
  <2>7. \A y \in Id : \A u : w2[y] = OnList(u) <=> w[y] = OnList(u) \/ (y = id /\ u = v)
    <3>1. \A u : w[id] # OnList(u) /\ (w2[id] = OnList(u) <=> u = v)
      BY <1>3, <1>6, Tokens
    <3> QED
      BY <3>1, <1>5
  <2>8. \A y \in Id : \A c, i : (w2[y] = Drained(c, i) <=> w[y] = Drained(c, i))
    BY <1>3, <1>5, <1>6, Tokens
  <2>9. \A u, y \in Id : y \in Members(Id, slots'[u].dependents, NextOf') <=> w2[y] = OnList(u)
    <3> TAKE u, y \in Id
    <3>1. CASE u = v
      <4>1. slots'[u].dependents = id
        BY <3>1, <1>7
      <4>2. y \in Dependents(hd) <=> w[y] = OnList(v)
        BY <1>1 DEF Listed, hd
      <4> QED
        BY <4>1, <4>2, <3>1, <2>5, <2>7
    <3>2. CASE u # v
      <4>1. slots'[u].dependents = slots[u].dependents
        BY <3>2, <1>7
      <4>2. y \in Dependents(slots[u].dependents) <=> w[y] = OnList(u)
        BY <1>1 DEF Listed
      <4> QED
        BY <4>1, <4>2, <3>2, <2>2, <2>7
    <3> QED
      BY <3>1, <3>2
  <2>10. \A y \in Id : y \in Members(Id, Draining(Blank), NextOf') <=> w2[y] = Drained(d, n)
    BY <2>3, <2>4, <2>6, <2>8
  <2>11. \A y \in Id : w2[y] # Drained(d, n + 1)
    BY <1>3, <2>8
  <2>12. \A c \in Contexts, i \in Pos, y \in Id :
            y \in Members(Id, Draining(FrameAt(c, i)), NextOf') <=> w2[y] = Drained(c, i)
    BY <2>2, <2>8, <1>1 DEF Listed
  <2>13. ASSUME NEW y \in Id, w2[y][1] \in {"list", "enqueue"}
         PROVE  y \notin Members(Id, slots'[y].next, NextOf')
    <3>1. CASE y = id
      <4>1. w[id] # OnList(v)
        BY <1>3, Tokens
      <4>2. id \notin Dependents(hd)
        BY <4>1, <1>1 DEF Listed, hd
      <4>3. slots'[y].next = hd
        BY <3>1, <1>7
      <4> QED
        BY <3>1, <4>2, <4>3, <2>5
    <3>2. CASE y # id
      <4>1. w[y] = w2[y] /\ slots'[y].next = slots[y].next
        BY <2>13, <3>2, <1>5, <1>7
      <4> QED
        BY <4>1, <2>2, <2>13, <1>1 DEF Listed
    <3> QED
      BY <3>1, <3>2
  <2>14. ListsAre(w2, d, n, Blank)
    <3>1. \A y \in Id : w2[y][1] \in {"list", "enqueue"} => y \notin Members(Id, slots'[y].next, NextOf')
      BY <2>13
    <3> HIDE DEF id
    <3> QED
      BY <2>9, <2>10, <2>11, <2>12, <3>1 DEF ListsAre
  <2> QED
    BY <2>4, <2>14, ListedAre
<1>10. Carried(w2)'
  <2>1. \A k \in Holders : \A c, i : w2[id] # Held(k, c, i)
    BY <1>6, Tokens DEF Holders
  <2>2. \A k, c, i : w[id] = Held(k, c, i) => c = d /\ i = n
    BY <1>3, Tokens
  <2>3. \A y \in Id, k \in Holders : Holds(Blank, k, y) <=> w2[y] = Held(k, d, n)
    BY <2>1, <1>3, <1>5, BlankHolds
  <2>4. \A y \in Id, k \in Holders : Holds(Blank, k, y) <=> w2[y] = Held(k, d, n + 1)
    BY <2>1, <1>3, <1>5, BlankHolds
  <2>5. \A y \in Id, c \in Contexts, i \in Pos, k \in Holders :
               ~(c = d /\ i = n) /\ ~(c = d /\ i = n + 1) =>
                   (w2[y] = Held(k, c, i) <=> w[y] = Held(k, c, i))
    BY <2>1, <2>2, <1>5
  <2>6. HoldMove(w, w2, d, n, Blank, Blank)
    BY <2>3, <2>4, <2>5 DEF HoldMove
  <2> QED
    BY <2>6, <1>1, CarriedMove
<1>11. Alive(w2)'
  <2>1. Task' = Task
    BY DEF Task, Job
  <2>2. \A y \in Id : SlotSame(y)
    BY <1>7 DEF SlotSame, IsClosed
  <2>3. ASSUME NEW y \in Id, SlotOK(y, w[y][1]), slots[y].gen # 0 PROVE SlotOK(y, w[y][1])'
    <3>1. slots'[y].job = slots[y].job /\ slots'[y].gen = slots[y].gen
          /\ (IsClosed(y)' <=> IsClosed(y)) /\ (IsShut(y)' <=> IsShut(y))
      BY <2>2, <1>7 DEF IsClosed, IsShut, SlotSame
    <3> QED
      BY <3>1, <2>1, <2>3 DEF SlotOK
  <2>4. ASSUME NEW y \in Id PROVE SlotOK(y, w2[y][1])'
    <3>1. SlotOK(y, w[y][1])
      BY <1>1 DEF Alive
    <3>2. CASE y = id
      <4>1. SlotOK(id, "submit")'
        BY <2>3, <3>1, <3>2, <1>3
      <4> QED
        BY <3>2, <4>1, <1>6 DEF SlotOK
    <3>3. CASE y # id /\ slots[y].gen # 0
      BY <2>3, <3>1, <3>3, <1>5
    <3>4. CASE y # id /\ slots[y].gen = 0
      <4>1. slots'[y] = slots[y]
        BY <3>4, LinkFields
      <4> QED
        BY <3>1, <3>4, <4>1, <1>5 DEF SlotOK, FreshSlot, IsClosed, IsShut
    <3> QED
      BY <3>2, <3>3, <3>4
  <2>5. HolderOK(Blank)' /\ SlotMove(w, d, n)
    BY <2>2 DEF HolderOK, Blank, SlotMove
  <2> QED
    BY <2>4, <2>5, <1>1, AliveMove
<1>12. live' = Cardinality(InUse(w2))
  BY <1>1, <1>5, <1>6, InUseMove
<1> QED
  BY <1>5, <1>8, <1>9, <1>10, <1>11, <1>12 DEF Placed, InUse

\* Slots with one field changed.
DependentsSet(id, x) == slots' = [slots EXCEPT ![id].dependents = x]
WaitersSet(id, x) == slots' = [slots EXCEPT ![id].waiters = x]

\* Setting the dependents of a slot changes nothing else.
LEMMA DependentsFields ==
    ASSUME Shapes, NEW id \in Id, NEW x \in {0, Closed} \cup Id, DependentsSet(id, x)
    PROVE  /\ slots' \in [Id -> SlotShape]
           /\ \A y \in Id : /\ slots'[y].job = slots[y].job /\ slots'[y].gen = slots[y].gen
                            /\ slots'[y].waiters = slots[y].waiters /\ slots'[y].group = slots[y].group
                            /\ slots'[y].next = slots[y].next
                            /\ slots'[y].dependents = IF y = id THEN x ELSE slots[y].dependents
           /\ \A y \in Id : y # id => slots'[y] = slots[y]
<1>1. PICK r : r = slots[id]
  OBVIOUS
<1>2. PICK q : q = [r EXCEPT !.dependents = x]
  OBVIOUS
<1>3. r \in SlotShape
  BY <1>1 DEF Shapes
<1>4. /\ q.job = r.job /\ q.gen = r.gen /\ q.waiters = r.waiters /\ q.group = r.group
      /\ q.next = r.next /\ q.dependents = x /\ q \in SlotShape
  BY <1>2, <1>3 DEF SlotShape
<1>5. slots' = [slots EXCEPT ![id] = q]
  BY <1>1, <1>2 DEF DependentsSet
<1>6. \A y \in Id : slots'[y] = IF y = id THEN q ELSE slots[y]
  BY <1>5 DEF Shapes
<1>7. slots' \in [Id -> SlotShape]
  BY <1>4, <1>5 DEF Shapes
<1> QED
  BY <1>1, <1>4, <1>6, <1>7

\* Setting the waiters of a slot changes nothing else.
LEMMA WaitersFields ==
    ASSUME Shapes, NEW id \in Id, NEW x \in {None, Shut} \cup Fiber, WaitersSet(id, x)
    PROVE  /\ slots' \in [Id -> SlotShape]
           /\ \A y \in Id : /\ slots'[y].job = slots[y].job /\ slots'[y].gen = slots[y].gen
                            /\ slots'[y].dependents = slots[y].dependents /\ slots'[y].group = slots[y].group
                            /\ slots'[y].next = slots[y].next
                            /\ slots'[y].waiters = IF y = id THEN x ELSE slots[y].waiters
           /\ \A y \in Id : y # id => slots'[y] = slots[y]
<1>1. PICK r : r = slots[id]
  OBVIOUS
<1>2. PICK q : q = [r EXCEPT !.waiters = x]
  OBVIOUS
<1>3. r \in SlotShape
  BY <1>1 DEF Shapes
<1>4. /\ q.job = r.job /\ q.gen = r.gen /\ q.dependents = r.dependents /\ q.group = r.group
      /\ q.next = r.next /\ q.waiters = x /\ q \in SlotShape
  BY <1>2, <1>3 DEF SlotShape
<1>5. slots' = [slots EXCEPT ![id] = q]
  BY <1>1, <1>2 DEF WaitersSet
<1>6. \A y \in Id : slots'[y] = IF y = id THEN q ELSE slots[y]
  BY <1>5 DEF Shapes
<1>7. slots' \in [Id -> SlotShape]
  BY <1>4, <1>5 DEF Shapes
<1> QED
  BY <1>1, <1>4, <1>6, <1>7

\* finish_job() takes the list of its dependents.
LEMMA PlacedClose ==
    ASSUME Shapes, NEW w, Placed(w), NEW d, NEW n, NEW e, NEW f, Swap(d, n, e, f, Blank),
           e.k = "finish", e.id \in Id, e.pc = "dependents", f.k = "finish", f.id = e.id,
           f.cur = slots[e.id].dependents, f.pc = (IF f.cur \in {0, Closed} THEN "waiters" ELSE "enqueue"),
           DependentsSet(e.id, Closed),
           UNCHANGED <<program, deque, inject, ended, begun, live>>,
           NEW w2, w2 = [x \in Id |-> IF w[x] = OnList(e.id) THEN Drained(d, n) ELSE w[x]]
    PROVE  Placed(w2)'
<1> DEFINE id == e.id
<1>1. w \in [Id -> Token] /\ Queued(w) /\ Listed(w) /\ Carried(w) /\ Alive(w) /\ live = Cardinality(InUse(w))
  BY DEF Placed
<1>2. d \in Contexts /\ n \in Pos /\ n # n + 1 /\ n + 1 \in Pos /\ FrameAt(d, n) = e /\ FrameAt(d, n + 1) = Blank
  BY DEF Swap, Pos
<1>3. /\ w[id] = Held("finish", d, n) /\ w[id][1] = "finish" /\ SlotOK(id, "finish") /\ HolderOK(e)
      /\ slots[id].gen # 0
      /\ \A y \in Id, k \in Holders : Holds(e, k, y) <=> y = id /\ k = "finish"
      /\ \A y \in Id : w[y] # Drained(d, n + 1)
  BY HeldBy DEF Holders
<1>4. Drained(d, n) \in Token /\ \A y : OnList(y) # Drained(d, n)
  BY <1>2, TokenOf, Tokens
<1>5. w2 \in [Id -> Token]
  BY <1>1, <1>4
<1>6. \A y \in Id : w2[y] = IF w[y] = OnList(id) THEN Drained(d, n) ELSE w[y]
  OBVIOUS
<1>7. /\ \A y \in Id : /\ slots'[y].job = slots[y].job /\ slots'[y].gen = slots[y].gen
                       /\ slots'[y].waiters = slots[y].waiters /\ slots'[y].next = slots[y].next
                       /\ slots'[y].dependents = IF y = id THEN Closed ELSE slots[y].dependents
      /\ \A y \in Id : y # id => slots'[y] = slots[y]
  <2> HIDE DEF id
  <2>1. PICK c : c = Closed /\ c \in {0, Closed} \cup Id
    OBVIOUS
  <2>2. id \in Id /\ DependentsSet(id, c)
    BY <2>1 DEF id
  <2>3. /\ \A y \in Id : /\ slots'[y].job = slots[y].job /\ slots'[y].gen = slots[y].gen
                         /\ slots'[y].waiters = slots[y].waiters /\ slots'[y].next = slots[y].next
                         /\ slots'[y].dependents = IF y = id THEN c ELSE slots[y].dependents
        /\ \A y \in Id : y # id => slots'[y] = slots[y]
    BY <2>1, <2>2, DependentsFields
  <2> QED
    BY <2>1, <2>3
<1>8. \A y \in Id : w2[y] = w[y] \/ (w2[y][1] = "enqueue" /\ w[y][1] = "list")
  BY <1>6, Tokens
<1>9. NextOf' = NextOf
  BY <1>7 DEF NextOf
<1>10. Queued(w2)'
  <2>1. QueueMove(w, w2)
    BY <1>8 DEF QueueMove
  <2> QED
    BY <2>1, <1>1, QueuedSame
<1>11. \A y \in Id : w[y] # Drained(d, n) /\ w2[y] # Drained(d, n + 1)
  <2>1. Draining(e) = 0
    BY DEF Draining
  <2>2. \A y \in Id : w[y] # Drained(d, n)
    BY <2>1, <1>1, <1>2, DrainNone DEF Listed
  <2>3. Drained(d, n) # Drained(d, n + 1)
    BY <1>2, Tokens
  <2> QED
    BY <2>2, <2>3, <1>3, <1>6
<1>12. Listed(w2)'
  <2>1. \A u, y \in Id : y \in Members(Id, slots'[u].dependents, NextOf') <=> w2[y] = OnList(u)
    <3> TAKE u, y \in Id
    <3>1. CASE u = id
      <4>1. Members(Id, Closed, NextOf') = {}
        BY NoMembers, Sizes
      <4>2. w2[y] # OnList(u)
        BY <3>1, <1>4, <1>6
      <4> QED
        BY <4>1, <4>2, <3>1, <1>7
    <3>2. CASE u # id
      <4>1. slots'[u].dependents = slots[u].dependents
        BY <3>2, <1>7
      <4>2. y \in Dependents(slots[u].dependents) <=> w[y] = OnList(u)
        BY <1>1 DEF Listed
      <4>3. w2[y] = OnList(u) <=> w[y] = OnList(u)
        BY <3>2, <1>4, <1>6, Tokens
      <4> QED
        BY <4>1, <4>2, <4>3, <1>9, DependentsAre
    <3> QED
      BY <3>1, <3>2
  <2>2. \A y \in Id : y \in Members(Id, Draining(f), NextOf') <=> w2[y] = Drained(d, n)
    <3>1. Dependents(Draining(f)) = Dependents(slots[id].dependents)
      <4>1. CASE f.cur \in {0, Closed}
        BY <4>1, DrainNone DEF Draining
      <4>2. CASE f.cur \notin {0, Closed}
        BY <4>2 DEF Draining
      <4> QED
        BY <4>1, <4>2
    <3>2. \A y \in Id : y \in Dependents(slots[id].dependents) <=> w[y] = OnList(id)
      BY <1>1 DEF Listed
    <3>3. \A y \in Id : w2[y] = Drained(d, n) <=> w[y] = OnList(id)
      BY <1>6, <1>11
    <3> QED
      BY <3>1, <3>2, <3>3, <1>9, DependentsAre
  <2>3. \A c \in Contexts, i \in Pos, y \in Id : ~(c = d /\ i = n) =>
            (y \in Members(Id, Draining(FrameAt(c, i)), NextOf') <=> w2[y] = Drained(c, i))
    <3> TAKE c \in Contexts, i \in Pos, y \in Id
    <3> HAVE ~(c = d /\ i = n)
    <3>1. y \in Dependents(Draining(FrameAt(c, i))) <=> w[y] = Drained(c, i)
      BY <1>1 DEF Listed
    <3>2. w2[y] = Drained(c, i) <=> w[y] = Drained(c, i)
      <4>1. Drained(d, n) # Drained(c, i) /\ OnList(id) # Drained(c, i)
        BY Tokens
      <4> QED
        BY <4>1, <1>6
    <3> QED
      BY <3>1, <3>2, <1>9, DependentsAre
  <2>4. ASSUME NEW y \in Id, w2[y][1] \in {"list", "enqueue"}
        PROVE  y \notin Members(Id, slots'[y].next, NextOf')
    <3>1. w[y][1] \in {"list", "enqueue"}
      BY <2>4, <1>8
    <3>2. y \notin Dependents(slots[y].next)
      BY <3>1, <1>1 DEF Listed
    <3> QED
      BY <3>2, <1>7, <1>9, DependentsAre
  <2>5. ListsAre(w2, d, n, f)
    BY <2>1, <2>2, <2>3, <2>4, <1>11 DEF ListsAre
  <2> QED
    BY <2>5, BlankHolds, ListedAre
<1>13. Carried(w2)'
  <2>1. \A y \in Id, k \in Holders : \A c, i : w2[y] = Held(k, c, i) <=> w[y] = Held(k, c, i)
    <3>1. \A k \in Holders : \A c, i : Held(k, c, i) # Drained(d, n) /\ Held(k, c, i) # OnList(id)
      BY DEF Held, Drained, OnList, Holders
    <3> QED
      BY <3>1, <1>6
  <2>2. \A y \in Id, k \in Holders : Holds(f, k, y) <=> Holds(e, k, y)
    BY DEF Holds
  <2>3. \A y \in Id, k \in Holders : Holds(f, k, y) <=> w2[y] = Held(k, d, n)
    BY <2>1, <2>2, <1>1, <1>2 DEF Carried
  <2>4. \A y \in Id, k \in Holders : Holds(Blank, k, y) <=> w2[y] = Held(k, d, n + 1)
    BY <2>1, <1>1, <1>2 DEF Carried
  <2>5. HoldMove(w, w2, d, n, f, Blank)
    BY <2>1, <2>3, <2>4 DEF HoldMove
  <2> QED
    BY <2>5, <1>1, CarriedMove
<1>14. Alive(w2)'
  <2>1. Task' = Task
    BY DEF Task, Job
  <2>2. ~IsClosed(id) /\ ~IsShut(id)
    BY <1>3 DEF HolderOK
  <2>3. ASSUME NEW y \in Id PROVE SlotOK(y, w2[y][1])'
    <3>1. SlotOK(y, w[y][1])
      BY <1>1 DEF Alive
    <3>2. CASE y = id
      <4>1. w2[y][1] = "finish"
        BY <3>2, <1>3, <1>8
      <4>2. SlotOK(id, "finish")'
        BY <2>1, <1>3, <1>7 DEF SlotOK
      <4> QED
        BY <3>2, <4>1, <4>2 DEF SlotOK
    <3>3. CASE y # id
      <4>1. slots'[y] = slots[y]
        BY <3>3, <1>7
      <4>2. PICK a, b : a = w[y][1] /\ b = w2[y][1]
        OBVIOUS
      <4>3. a = b \/ (a = "list" /\ b = "enqueue")
        BY <4>2, <1>8
      <4>4. SlotOK(y, a)
        BY <3>1, <4>2
      <4>5. SlotOK(y, b)'
        BY <4>1, <4>3, <4>4, <2>1 DEF SlotOK, FreshSlot, IsClosed, IsShut
      <4> QED
        BY <4>2, <4>5 DEF SlotOK, IsClosed, IsShut
    <3> QED
      BY <3>2, <3>3
  <2>4. HolderOK(f)'
    <3>1. IsClosed(id)' /\ ~IsShut(id)'
      BY <2>2, <1>7 DEF IsClosed, IsShut
    <3> QED
      BY <3>1 DEF HolderOK
  <2>5. HolderOK(Blank)'
    BY DEF HolderOK, Blank
  <2>6. SlotMove(w, d, n)
    <3>1. \A k \in Holders : \A c, i : w[id] = Held(k, c, i) => c = d /\ i = n
      BY <1>3, Tokens
    <3> QED
      BY <3>1, <1>7 DEF SlotMove, SlotSame
  <2> QED
    BY <2>3, <2>4, <2>5, <2>6, <1>1, AliveMove
<1>15. live' = Cardinality(InUse(w2))
  <2>1. Drained(d, n) # Unused /\ \A y : OnList(y) # Unused
    BY Tokens
  <2>2. InUse(w2) = InUse(w)
    BY <2>1, <1>6 DEF InUse
  <2> QED
    BY <2>2, <1>1
<1> QED
  BY <1>5, <1>10, <1>12, <1>13, <1>14, <1>15 DEF Placed, InUse

\* The list of waiting fibers of a slot changes.
LEMMA PlacedWaiters ==
    ASSUME Shapes, NEW w, Placed(w), NEW d, NEW n, NEW e, NEW f, Swap(d, n, e, f, Blank),
           UNCHANGED <<program, deque, inject, begun, live, ended>>,
           HoldSame(e, f, Blank), HolderOK(f)',
           NEW id \in Id, NEW x \in {None, Shut} \cup Fiber, WaitersSet(id, x), slots[id].gen # 0,
           \/ x # Shut /\ ~IsShut(id)
           \/ x = Shut /\ w[id] = Held("finish", d, n)
    PROVE  Placed(w)'
<1>1. w \in [Id -> Token] /\ Queued(w) /\ Listed(w) /\ Carried(w) /\ Alive(w) /\ live = Cardinality(InUse(w))
  BY DEF Placed
<1>2. d \in Contexts /\ n \in Pos /\ n # n + 1 /\ n + 1 \in Pos /\ FrameAt(d, n) = e /\ FrameAt(d, n + 1) = Blank
  BY DEF Swap, Pos
<1>3. /\ \A y \in Id : /\ slots'[y].job = slots[y].job /\ slots'[y].gen = slots[y].gen
                       /\ slots'[y].dependents = slots[y].dependents /\ slots'[y].next = slots[y].next
                       /\ slots'[y].waiters = IF y = id THEN x ELSE slots[y].waiters
      /\ \A y \in Id : y # id => slots'[y] = slots[y]
  BY WaitersFields
<1>4. NextOf' = NextOf
  BY <1>3 DEF NextOf
<1>5. Queued(w)'
  BY <1>1 DEF Queued
<1>6. Listed(w)'
  <2>1. \A c \in Contexts, i \in Pos, y \in Id :
            y \in Members(Id, Draining(FrameAt(c, i)), NextOf') <=> w[y] = Drained(c, i)
    BY <1>1, <1>4, DependentsAre DEF Listed
  <2>2. Draining(f) = Draining(e)
    BY DEF HoldSame
  <2>3. Members(Id, 0, NextOf') = {}
    BY NoMembers, Sizes
  <2>4. \A y \in Id : y \in Members(Id, Draining(f), NextOf') <=> w[y] = Drained(d, n)
    BY <2>1, <2>2, <1>2
  <2>5. \A y \in Id : w[y] # Drained(d, n + 1)
    BY <2>1, <2>3, <1>2, BlankHolds
  <2>6. \A u, y \in Id : y \in Members(Id, slots'[u].dependents, NextOf') <=> w[y] = OnList(u)
    <3>1. \A u \in Id : slots'[u].dependents = slots[u].dependents
      BY <1>3
    <3> QED
      BY <3>1, <1>1, <1>4, DependentsAre DEF Listed
  <2>7. \A y \in Id : w[y][1] \in {"list", "enqueue"} => y \notin Members(Id, slots'[y].next, NextOf')
    <3>1. \A u \in Id : slots'[u].next = slots[u].next
      BY <1>3
    <3> QED
      BY <3>1, <1>1, <1>4, DependentsAre DEF Listed
  <2>8. ListsAre(w, d, n, f)
    BY <2>1, <2>4, <2>5, <2>6, <2>7 DEF ListsAre
  <2> QED
    BY <2>8, BlankHolds, ListedAre
<1>7. Carried(w)'
  <2>1. \A y \in Id, k \in Holders : Holds(f, k, y) <=> w[y] = Held(k, d, n)
    BY <1>1, <1>2 DEF Carried, HoldSame
  <2>2. \A y \in Id, k \in Holders : Holds(Blank, k, y) <=> w[y] = Held(k, d, n + 1)
    BY <1>1, <1>2 DEF Carried
  <2>3. HoldMove(w, w, d, n, f, Blank)
    BY <2>1, <2>2 DEF HoldMove
  <2> QED
    BY <2>3, <1>1, CarriedMove
<1>8. Alive(w)'
  <2>1. Task' = Task
    BY DEF Task, Job
  <2>2. \A y \in Id : (IsClosed(y)' <=> IsClosed(y)) /\ (y # id => (IsShut(y)' <=> IsShut(y)))
    BY <1>3 DEF IsClosed, IsShut
  <2>3. IsShut(id)' <=> x = Shut
    BY <1>3 DEF IsShut
  <2>4. ASSUME NEW y \in Id PROVE SlotOK(y, w[y][1])'
    <3>1. SlotOK(y, w[y][1])
      BY <1>1 DEF Alive
    <3>2. CASE y = id
      <4>1. x = Shut => w[y][1] = "finish"
        <5>1. Held("finish", d, n)[1] = "finish"
          BY Tokens
        <5> QED
          BY <5>1, <3>2, Sizes
      <4>2. PICK a : a = w[y][1]
        OBVIOUS
      <4>3. SlotOK(y, a) /\ (x = Shut => a = "finish") /\ (x # Shut => ~IsShut(y))
        BY <3>1, <3>2, <4>1, <4>2
      <4>4. SlotOK(y, a)'
        BY <3>2, <4>3, <2>1, <2>2, <2>3, <1>3 DEF SlotOK
      <4> QED
        BY <4>2, <4>4 DEF SlotOK, IsClosed, IsShut
    <3>3. CASE y # id
      <4>1. slots'[y] = slots[y]
        BY <3>3, <1>3
      <4> QED
        BY <3>1, <4>1, <2>1 DEF SlotOK, FreshSlot, IsClosed, IsShut
    <3> QED
      BY <3>2, <3>3
  <2>5. HolderOK(Blank)'
    BY DEF HolderOK, Blank
  <2>6. SlotMove(w, d, n)
    <3>1. w[id] = Held("finish", d, n) => \A k \in Holders : \A c, i : w[id] = Held(k, c, i) => c = d /\ i = n
      BY Tokens
    <3>2. \A y \in Id : y # id => SlotSame(y)
      BY <1>3 DEF SlotSame
    <3>3. x # Shut /\ ~IsShut(id) => SlotSame(id)
      BY <1>3 DEF SlotSame, IsShut
    <3> QED
      BY <3>1, <3>2, <3>3 DEF SlotMove
  <2> QED
    BY <2>4, <2>5, <2>6, <1>1, AliveMove
<1>9. live' = Cardinality(InUse(w))
  BY <1>1
<1> QED
  BY <1>1, <1>5, <1>6, <1>7, <1>8, <1>9 DEF Placed, InUse

-----------------------------------------------------------------------------
\* Fibers.  Spots are told apart by what they say.
LEMMA Spots ==
    /\ \A u, v : /\ RunBy(u) = RunBy(v) => u = v
                 /\ LeftBy(u) = LeftBy(v) => u = v
                 /\ WaitsOn(u) = WaitsOn(v) => u = v
    /\ \A c, i, d, j : Resuming(c, i) = Resuming(d, j) => c = d /\ i = j
    /\ Nowhere[1] = "nowhere" /\ Free[1] = "free" /\ Ready[1] = "resumable"
    /\ \A v : RunBy(v)[1] = "on" /\ LeftBy(v)[1] = "left" /\ WaitsOn(v)[1] = "list"
    /\ \A c, i : Resuming(c, i)[1] = "resume"
BY DEF Nowhere, Free, Ready, RunBy, LeftBy, WaitsOn, Resuming

\* The spots a fiber can be in.
LEMMA SpotOf ==
    /\ Nowhere \in Spot /\ Free \in Spot /\ Ready \in Spot
    /\ \A v \in Worker : RunBy(v) \in Spot /\ LeftBy(v) \in Spot
    /\ \A d \in Id : WaitsOn(d) \in Spot
    /\ \A c \in Contexts, i \in Pos : Resuming(c, i) \in Spot
BY DEF Spot

\* The tag of a spot tells which one it is.
LEMMA SpotTags ==
    ASSUME NEW x \in Spot
    PROVE  /\ x[1] \in {"nowhere", "free", "resumable", "on", "left", "list", "resume"}
           /\ x[1] = "nowhere" <=> x = Nowhere
           /\ x[1] = "free" <=> x = Free
           /\ x[1] = "resumable" <=> x = Ready
           /\ x[1] = "on" => \E v \in Worker : x = RunBy(v)
           /\ x[1] = "left" => \E v \in Worker : x = LeftBy(v)
           /\ x[1] = "list" => \E d \in Id : x = WaitsOn(d)
           /\ x[1] = "resume" => \E c \in Contexts, i \in Pos : x = Resuming(c, i)
<1>1. CASE x \in {Nowhere, Free, Ready}
  BY <1>1, Spots
<1>2. CASE \E v \in Worker : x = RunBy(v)
  BY <1>2, Spots
<1>3. CASE \E v \in Worker : x = LeftBy(v)
  BY <1>3, Spots
<1>4. CASE \E d \in Id : x = WaitsOn(d)
  BY <1>4, Spots
<1>5. CASE \E c \in Contexts, i \in Pos : x = Resuming(c, i)
  BY <1>5, Spots
<1> QED
  BY <1>1, <1>2, <1>3, <1>4, <1>5 DEF Spot

\* The parts of Parked.
Pools(s) ==
    /\ s \in [Fiber -> Spot]
    /\ Distinct(resumable)
    /\ \A f \in Fiber : ~Fibers <=> s[f] = Nowhere
    /\ \A f \in Fiber : f \in free <=> s[f] = Free
    /\ \A f \in Fiber, v \in Worker : on[v] = f <=> s[f] = RunBy(v)
    /\ \A f \in Fiber, v \in Worker : ~NothingPending(v) /\ pending[v].fiber = f <=> s[f] = LeftBy(v)
    /\ \A f \in Fiber : f \in Range(resumable) <=> s[f] = Ready

WaitLists(s) ==
    /\ \A f \in Fiber, d \in Id : f \in Waiters(slots[d].waiters) <=> s[f] = WaitsOn(d)
    /\ \A f \in Fiber, c \in Contexts, i \in Pos :
          f \in Waiters(Waking(FrameAt(c, i))) <=> s[f] = Resuming(c, i)
    /\ \A f \in Fiber : s[f][1] \in {"list", "resume"} => f \notin Waiters(next[f])

BusyOK(s) ==
    /\ \A f \in Fiber : s[f][1] \in {"nowhere", "free"} => ~Busy(f)
    /\ \A f \in Fiber : s[f][1] \in {"resumable", "on", "list", "resume"} => Busy(f)

\* Parked in three parts: pools, wait lists, and whether a parked stack is empty.
LEMMA ParkedParts ==
    ASSUME NEW s
    PROVE  Parked(s) <=> Pools(s) /\ WaitLists(s) /\ BusyOK(s)
<1>1. Parked(s) => Pools(s)
  BY DEF Parked, Pools
<1>2. Parked(s) => WaitLists(s)
  BY DEF Parked, WaitLists
<1>3. Parked(s) => BusyOK(s)
  BY DEF Parked, BusyOK
<1>4. ASSUME Pools(s), WaitLists(s), BusyOK(s) PROVE Parked(s)
  <2>1. s \in [Fiber -> Spot] /\ Distinct(resumable)
    BY <1>4 DEF Pools
  <2> SUFFICES ASSUME NEW f \in Fiber
               PROVE  /\ ~Fibers <=> s[f] = Nowhere
                      /\ f \in free <=> s[f] = Free
                      /\ \A v \in Worker : on[v] = f <=> s[f] = RunBy(v)
                      /\ \A v \in Worker : ~NothingPending(v) /\ pending[v].fiber = f <=> s[f] = LeftBy(v)
                      /\ f \in Range(resumable) <=> s[f] = Ready
                      /\ \A d \in Id : f \in Waiters(slots[d].waiters) <=> s[f] = WaitsOn(d)
                      /\ \A c \in Contexts, i \in Pos :
                            f \in Waiters(Waking(FrameAt(c, i))) <=> s[f] = Resuming(c, i)
                      /\ s[f][1] \in {"list", "resume"} => f \notin Waiters(next[f])
                      /\ s[f][1] \in {"nowhere", "free"} => ~Busy(f)
                      /\ s[f][1] \in {"resumable", "on", "list", "resume"} => Busy(f)
    BY <2>1 DEF Parked
  <2>2. /\ ~Fibers <=> s[f] = Nowhere
        /\ f \in free <=> s[f] = Free
        /\ \A v \in Worker : on[v] = f <=> s[f] = RunBy(v)
        /\ \A v \in Worker : ~NothingPending(v) /\ pending[v].fiber = f <=> s[f] = LeftBy(v)
        /\ f \in Range(resumable) <=> s[f] = Ready
    BY <1>4 DEF Pools
  <2>3. /\ \A d \in Id : f \in Waiters(slots[d].waiters) <=> s[f] = WaitsOn(d)
        /\ \A c \in Contexts, i \in Pos :
              f \in Waiters(Waking(FrameAt(c, i))) <=> s[f] = Resuming(c, i)
        /\ s[f][1] \in {"list", "resume"} => f \notin Waiters(next[f])
    BY <1>4 DEF WaitLists
  <2>4. /\ s[f][1] \in {"nowhere", "free"} => ~Busy(f)
        /\ s[f][1] \in {"resumable", "on", "list", "resume"} => Busy(f)
    BY <1>4 DEF BusyOK
  <2> QED
    BY <2>2, <2>3, <2>4
<1> QED
  BY <1>1, <1>2, <1>3, <1>4

\* The same of the next state.
LEMMA ParkedPartsNext ==
    ASSUME NEW s, Pools(s)', WaitLists(s)', BusyOK(s)'
    PROVE  Parked(s)'
BY ParkedParts, PTL

\* Whether a stack is busy after a step.
LEMMA BusyAfter ==
    ASSUME NEW d, NEW n, NEW e, NEW f, NEW g, Swap(d, n, e, f, g)
    PROVE  \A c \in Contexts : Busy(c)' <=> IF c = d /\ n = 1 THEN f # Blank ELSE Busy(c)
<1>1. \A c \in Contexts, i \in Pos :
         FrameAt(c, i)' = IF c = d /\ i = n THEN f ELSE IF c = d /\ i = n + 1 THEN g ELSE FrameAt(c, i)
  BY DEF Swap, Stacked
<1>2. 1 \in Pos /\ 1 # n + 1
  BY DEF Swap, Pos
<1> QED
  BY <1>1, <1>2 DEF Busy

\* The list of waiters, as the members of a linked list.
LEMMA WaitersAre ==
    /\ \A head : Waiters(head) = Members(Fiber, head, next)
    /\ \A head : Waiters(head)' = Members(Fiber, head, next')
    /\ Waiters(None) = {} /\ Waiters(Shut) = {}
    /\ Members(Fiber, None, next') = {} /\ Members(Fiber, Shut, next') = {}
BY NoMembers, Sizes DEF Waiters

\* The lists of fibers after a step, one by one.
WaitListsAre(s, d, n, f) ==
    /\ \A x \in Fiber, y \in Id : x \in Members(Fiber, slots'[y].waiters, next') <=> s[x] = WaitsOn(y)
    /\ \A x \in Fiber : x \in Members(Fiber, Waking(f), next') <=> s[x] = Resuming(d, n)
    /\ \A x \in Fiber : s[x] # Resuming(d, n + 1)
    /\ \A x \in Fiber, c \in Contexts, i \in Pos : ~(c = d /\ i = n) /\ ~(c = d /\ i = n + 1) =>
          (x \in Members(Fiber, Waking(FrameAt(c, i)), next') <=> s[x] = Resuming(c, i))
    /\ \A x \in Fiber : s[x][1] \in {"list", "resume"} => x \notin Members(Fiber, next'[x], next')

\* The wait lists, when a step changes one of them.
LEMMA WaitListsNext ==
    ASSUME NEW d, NEW n, NEW e, NEW f, NEW g, Swap(d, n, e, f, g), Waking(g) = None,
           NEW s, WaitListsAre(s, d, n, f)
    PROVE  WaitLists(s)'
<1>1. \A c \in Contexts, i \in Pos :
         FrameAt(c, i)' = IF c = d /\ i = n THEN f ELSE IF c = d /\ i = n + 1 THEN g ELSE FrameAt(c, i)
  BY DEF Swap, Stacked
<1>2. n # n + 1
  BY DEF Swap, Pos
<1>3. ASSUME NEW x \in Fiber, NEW c \in Contexts, NEW i \in Pos
      PROVE  x \in Members(Fiber, Waking(FrameAt(c, i)'), next') <=> s[x] = Resuming(c, i)
  <2>1. CASE c = d /\ i = n
    BY <2>1, <1>1 DEF WaitListsAre
  <2>2. CASE c = d /\ i = n + 1
    BY <2>2, <1>1, <1>2, WaitersAre DEF WaitListsAre
  <2>3. CASE ~(c = d /\ i = n) /\ ~(c = d /\ i = n + 1)
    BY <2>3, <1>1 DEF WaitListsAre
  <2> QED
    BY <2>1, <2>2, <2>3
<1>4. /\ \A x \in Fiber, y \in Id : x \in Members(Fiber, slots'[y].waiters, next') <=> s[x] = WaitsOn(y)
      /\ \A x \in Fiber : s[x][1] \in {"list", "resume"} => x \notin Members(Fiber, next'[x], next')
  BY DEF WaitListsAre
<1> QED
  BY <1>3, <1>4 DEF WaitLists, Waiters

\* No fiber enters or leaves a list.
SpotsKept(s, s2) ==
    \A x \in Fiber : s2[x] = s[x] \/ (s2[x][1] \notin {"list", "resume"} /\ s[x][1] \notin {"list", "resume"})

NobodyWaits(y) == slots[y].waiters \in {None, Shut} /\ slots'[y].waiters \in {None, Shut}

\* The wait lists, when a step changes no link.
LEMMA WaitListsSame ==
    ASSUME NEW s, NEW s2, WaitLists(s), NEW d, NEW n, NEW e, NEW f, NEW g, Swap(d, n, e, f, g),
           Waking(f) = Waking(e), Waking(g) = None, next' = next,
           \A y \in Id : slots'[y].waiters = slots[y].waiters \/ NobodyWaits(y), SpotsKept(s, s2)
    PROVE  WaitLists(s2)'
<1>1. /\ \A x \in Fiber : \A y : s2[x] = WaitsOn(y) <=> s[x] = WaitsOn(y)
      /\ \A x \in Fiber : \A c, i : s2[x] = Resuming(c, i) <=> s[x] = Resuming(c, i)
      /\ \A x \in Fiber : s2[x][1] \in {"list", "resume"} => s[x][1] \in {"list", "resume"}
  BY Spots DEF SpotsKept
<1>2. d \in Contexts /\ n \in Pos /\ n + 1 \in Pos /\ FrameAt(d, n) = e /\ FrameAt(d, n + 1) = Blank
  BY DEF Swap, Pos
<1>3. \A head : Waiters(head) = Members(Fiber, head, next')
  BY WaitersAre
<1>4. \A x \in Fiber, y \in Id : x \in Members(Fiber, slots'[y].waiters, next') <=> s2[x] = WaitsOn(y)
  <2>1. ASSUME NEW y \in Id
        PROVE  Members(Fiber, slots'[y].waiters, next') = Waiters(slots[y].waiters)
    <3>1. CASE slots'[y].waiters = slots[y].waiters
      BY <3>1, <1>3
    <3>2. CASE NobodyWaits(y)
      BY <3>2, WaitersAre DEF NobodyWaits
    <3> QED
      BY <3>1, <3>2
  <2> QED
    BY <1>1, <2>1 DEF WaitLists
<1>5. \A x \in Fiber, c \in Contexts, i \in Pos :
          x \in Members(Fiber, Waking(FrameAt(c, i)), next') <=> s2[x] = Resuming(c, i)
  BY <1>1, <1>3 DEF WaitLists
<1>6. \A x \in Fiber : x \in Members(Fiber, Waking(f), next') <=> s2[x] = Resuming(d, n)
  BY <1>2, <1>5
<1>7. \A x \in Fiber : s2[x] # Resuming(d, n + 1)
  BY <1>2, <1>5, BlankHolds, WaitersAre
<1>8. \A x \in Fiber : s2[x][1] \in {"list", "resume"} => x \notin Members(Fiber, next'[x], next')
  BY <1>1, <1>3 DEF WaitLists
<1>9. WaitListsAre(s2, d, n, f)
  BY <1>4, <1>5, <1>6, <1>7, <1>8 DEF WaitListsAre
<1> QED
  BY <1>9, WaitListsNext

\* A step that moves no fiber keeps every fiber where it is.
LEMMA ParkedQuiet ==
    ASSUME NEW s, Parked(s), NEW d, NEW n, NEW e, NEW f, NEW g, Swap(d, n, e, f, g),
           Waking(f) = Waking(e), Waking(g) = None,
           UNCHANGED <<program, on, pending, resumable, free, next>>,
           \A y \in Id : slots'[y].waiters = slots[y].waiters \/ NobodyWaits(y),
           d \in Fiber /\ n = 1 => f # Blank /\ e # Blank
    PROVE  Parked(s)'
<1>1. Pools(s) /\ WaitLists(s) /\ BusyOK(s)
  BY ParkedParts
<1>2. Pools(s)'
  BY <1>1 DEF Pools, NothingPending, Fibers
<1>3. WaitLists(s)'
  <2>1. SpotsKept(s, s)
    BY DEF SpotsKept
  <2> QED
    BY <2>1, <1>1, WaitListsSame
<1>4. BusyOK(s)'
  <2>1. \A x \in Fiber : Busy(x)' <=> Busy(x)
    <3>1. \A c \in Contexts : Busy(c)' <=> IF c = d /\ n = 1 THEN f # Blank ELSE Busy(c)
      BY BusyAfter
    <3>2. d \in Fiber /\ n = 1 => f # Blank /\ Busy(d)
      BY DEF Swap, Busy
    <3> QED
      BY <3>1, <3>2, Sizes
  <2> QED
    BY <2>1, <1>1 DEF BusyOK
<1> QED
  BY <1>2, <1>3, <1>4, ParkedPartsNext

\* The spots, when one fiber moves.
LEMMA MoveSpot ==
    ASSUME NEW s \in [Fiber -> Spot], NEW x \in Fiber, NEW y \in Spot, NEW s2, MoveTo(s, s2, x, y)
    PROVE  s2 \in [Fiber -> Spot] /\ \A f \in Fiber : s2[f] = IF f = x THEN y ELSE s[f]
BY DEF MoveTo

\* The stacks of fibers stay busy or empty.
BusySame == \A x \in Fiber : Busy(x)' <=> Busy(x)

\* A step that neither starts nor empties a stack leaves the same fibers busy.
LEMMA BusyKept ==
    ASSUME NEW d, NEW n, NEW e, NEW f, NEW g, Swap(d, n, e, f, g),
           d \in Fiber /\ n = 1 => f # Blank /\ e # Blank
    PROVE  BusySame
<1>1. \A c \in Contexts : Busy(c)' <=> IF c = d /\ n = 1 THEN f # Blank ELSE Busy(c)
  BY BusyAfter
<1>2. d \in Fiber /\ n = 1 => f # Blank /\ Busy(d)
  BY DEF Swap, Busy
<1> QED
  BY <1>1, <1>2, Sizes DEF BusySame

\* A worker leaves the fiber it runs.
LEMMA ParkedLeave ==
    ASSUME NEW s, Parked(s), NEW t \in Worker, NEW x \in Fiber, on[t] = x, NothingPending(t),
           NEW n, NEW e, NEW f, NEW g, Swap(x, n, e, f, g),
           Waking(f) = Waking(e), Waking(g) = None,
           on \in [Thread -> Contexts], pending \in [Worker -> PendingShape],
           on' = [on EXCEPT ![t] = t], NEW p, pending' = [pending EXCEPT ![t] = p],
           p.kind # "none", p.fiber = x,
           UNCHANGED <<program, resumable, free, next>>,
           \A y \in Id : slots'[y].waiters = slots[y].waiters,
           NEW s2, MoveTo(s, s2, x, LeftBy(t))
    PROVE  Parked(s2)'
<1>1. Pools(s) /\ WaitLists(s) /\ BusyOK(s)
  BY ParkedParts
<1>2. s \in [Fiber -> Spot] /\ s[x] = RunBy(t) /\ LeftBy(t) \in Spot
  BY <1>1, SpotOf DEF Pools
<1>3. s2 \in [Fiber -> Spot] /\ \A y \in Fiber : s2[y] = IF y = x THEN LeftBy(t) ELSE s[y]
  BY <1>2, MoveSpot
<1>4. \A v \in Worker : /\ on'[v] = IF v = t THEN t ELSE on[v]
                        /\ pending'[v] = IF v = t THEN p ELSE pending[v]
  BY Sizes
<1>5. Pools(s2)'
  <2>1. /\ \A y \in Fiber : ~Fibers <=> s2[y] = Nowhere
        /\ \A y \in Fiber : y \in free <=> s2[y] = Free
        /\ \A y \in Fiber : y \in Range(resumable) <=> s2[y] = Ready
    BY <1>1, <1>2, <1>3, Spots DEF Pools
  <2>2. \A y \in Fiber, v \in Worker : on'[v] = y <=> s2[y] = RunBy(v)
    <3> TAKE y \in Fiber, v \in Worker
    <3>1. on[v] = y <=> s[y] = RunBy(v)
      BY <1>1 DEF Pools
    <3>2. LeftBy(t) # RunBy(v) /\ (RunBy(v) = RunBy(t) => v = t) /\ t \notin Fiber
      BY Spots, Sizes
    <3> QED
      BY <3>1, <3>2, <1>2, <1>3, <1>4
  <2>3. \A y \in Fiber, v \in Worker : pending'[v].kind # "none" /\ pending'[v].fiber = y <=> s2[y] = LeftBy(v)
    <3> TAKE y \in Fiber, v \in Worker
    <3>1. pending[v].kind # "none" /\ pending[v].fiber = y <=> s[y] = LeftBy(v)
      BY <1>1 DEF Pools, NothingPending
    <3>2. (LeftBy(v) = LeftBy(t) => v = t) /\ RunBy(t) # LeftBy(v) /\ pending[t].kind = "none"
      BY Spots DEF NothingPending
    <3> QED
      BY <3>1, <3>2, <1>2, <1>3, <1>4
  <2> QED
    BY <2>1, <2>2, <2>3, <1>1, <1>3 DEF Pools, NothingPending, Fibers
<1>6. WaitLists(s2)'
  <2>1. SpotsKept(s, s2)
    BY <1>2, <1>3, Spots DEF SpotsKept
  <2> QED
    BY <2>1, <1>1, WaitListsSame
<1>7. BusyOK(s2)'
  <2>1. \A y \in Fiber : y # x => (Busy(y)' <=> Busy(y))
    BY BusyAfter, Sizes
  <2>2. s2[x][1] = "left"
    BY <1>3, Spots
  <2> QED
    BY <2>1, <2>2, <1>1, <1>3 DEF BusyOK
<1> QED
  BY <1>5, <1>6, <1>7, ParkedPartsNext

\* What a worker left pending is settled: the fiber is free again.
LEMMA ParkedRecycle ==
    ASSUME NEW s, Parked(s), NEW v \in Worker, NEW x \in Fiber, pending[v].fiber = x, ~NothingPending(v),
           ~Busy(x), NEW d, NEW n, NEW e, NEW f, NEW g, Swap(d, n, e, f, g), BusySame,
           Waking(f) = Waking(e), Waking(g) = None,
           pending \in [Worker -> PendingShape], Settled(v), free' = free \cup {x},
           UNCHANGED <<program, slots, on, resumable, next>>,
           NEW s2, MoveTo(s, s2, x, Free)
    PROVE  Parked(s2)'
<1>1. Pools(s) /\ WaitLists(s) /\ BusyOK(s)
  BY ParkedParts
<1>2. s \in [Fiber -> Spot] /\ s[x] = LeftBy(v) /\ Free \in Spot
  BY <1>1, SpotOf DEF Pools
<1>3. s2 \in [Fiber -> Spot] /\ \A y \in Fiber : s2[y] = IF y = x THEN Free ELSE s[y]
  BY <1>2, MoveSpot
<1>4. \A u \in Worker : pending'[u] = IF u = v THEN [kind |-> "none"] ELSE pending[u]
  BY DEF Settled
<1>5. Pools(s2)'
  <2>1. /\ \A y \in Fiber : ~Fibers <=> s2[y] = Nowhere
        /\ \A y \in Fiber : y \in free' <=> s2[y] = Free
        /\ \A y \in Fiber : y \in Range(resumable) <=> s2[y] = Ready
    BY <1>1, <1>2, <1>3, Spots DEF Pools
  <2>2. \A y \in Fiber, u \in Worker : on[u] = y <=> s2[y] = RunBy(u)
    <3> TAKE y \in Fiber, u \in Worker
    <3>1. on[u] = y <=> s[y] = RunBy(u)
      BY <1>1 DEF Pools
    <3>2. LeftBy(v) # RunBy(u) /\ Free # RunBy(u)
      BY Spots
    <3> QED
      BY <3>1, <3>2, <1>2, <1>3
  <2>3. \A y \in Fiber, u \in Worker : pending'[u].kind # "none" /\ pending'[u].fiber = y <=> s2[y] = LeftBy(u)
    <3> TAKE y \in Fiber, u \in Worker
    <3>1. pending[u].kind # "none" /\ pending[u].fiber = y <=> s[y] = LeftBy(u)
      BY <1>1 DEF Pools, NothingPending
    <3>2. (LeftBy(u) = LeftBy(v) => u = v) /\ Free # LeftBy(u)
      BY Spots
    <3>3. u = v => (s[y] = LeftBy(u) => y = x)
      BY <3>1
    <3> QED
      BY <3>1, <3>2, <3>3, <1>2, <1>3, <1>4
  <2> QED
    BY <2>1, <2>2, <2>3, <1>1, <1>3 DEF Pools, NothingPending, Fibers
<1>6. WaitLists(s2)'
  <2>1. SpotsKept(s, s2)
    BY <1>2, <1>3, Spots DEF SpotsKept
  <2> QED
    BY <2>1, <1>1, WaitListsSame
<1>7. BusyOK(s2)'
  <2>1. s2[x][1] = "free"
    BY <1>3, Spots
  <2> QED
    BY <2>1, <1>1, <1>3 DEF BusyOK, BusySame
<1> QED
  BY <1>5, <1>6, <1>7, ParkedPartsNext

\* The fiber may run again at once.
LEMMA ParkedReady ==
    ASSUME NEW s, Parked(s), NEW v \in Worker, NEW x \in Fiber, pending[v].fiber = x, ~NothingPending(v),
           Busy(x), NEW d, NEW n, NEW e, NEW f, NEW g, Swap(d, n, e, f, g), BusySame,
           Waking(f) = Waking(e), Waking(g) = None, resumable \in Seq(Fiber),
           pending \in [Worker -> PendingShape], Settled(v), resumable' = Append(resumable, x),
           UNCHANGED <<program, slots, on, free, next>>,
           NEW s2, MoveTo(s, s2, x, Ready)
    PROVE  Parked(s2)'
<1>1. Pools(s) /\ WaitLists(s) /\ BusyOK(s)
  BY ParkedParts
<1>2. s \in [Fiber -> Spot] /\ s[x] = LeftBy(v) /\ Ready \in Spot
  BY <1>1, SpotOf DEF Pools
<1>3. s2 \in [Fiber -> Spot] /\ \A y \in Fiber : s2[y] = IF y = x THEN Ready ELSE s[y]
  BY <1>2, MoveSpot
<1>4. \A u \in Worker : pending'[u] = IF u = v THEN [kind |-> "none"] ELSE pending[u]
  BY DEF Settled
<1>0. Range(resumable') = Range(resumable) \cup {x} /\ Distinct(resumable')
  <2>1. x \notin Range(resumable) /\ Distinct(resumable)
    BY <1>1, <1>2, Spots DEF Pools
  <2> QED
    BY <2>1, AppendQ
<1>5. Pools(s2)'
  <2>1. /\ \A y \in Fiber : ~Fibers <=> s2[y] = Nowhere
        /\ \A y \in Fiber : y \in free <=> s2[y] = Free
        /\ \A y \in Fiber : y \in Range(resumable') <=> s2[y] = Ready
    BY <1>0, <1>1, <1>2, <1>3, Spots DEF Pools
  <2>2. \A y \in Fiber, u \in Worker : on[u] = y <=> s2[y] = RunBy(u)
    <3> TAKE y \in Fiber, u \in Worker
    <3>1. on[u] = y <=> s[y] = RunBy(u)
      BY <1>1 DEF Pools
    <3>2. LeftBy(v) # RunBy(u) /\ Ready # RunBy(u)
      BY Spots
    <3> QED
      BY <3>1, <3>2, <1>2, <1>3
  <2>3. \A y \in Fiber, u \in Worker : pending'[u].kind # "none" /\ pending'[u].fiber = y <=> s2[y] = LeftBy(u)
    <3> TAKE y \in Fiber, u \in Worker
    <3>1. pending[u].kind # "none" /\ pending[u].fiber = y <=> s[y] = LeftBy(u)
      BY <1>1 DEF Pools, NothingPending
    <3>2. (LeftBy(u) = LeftBy(v) => u = v) /\ Ready # LeftBy(u)
      BY Spots
    <3>3. u = v => (s[y] = LeftBy(u) => y = x)
      BY <3>1
    <3> QED
      BY <3>1, <3>2, <3>3, <1>2, <1>3, <1>4
  <2> QED
    BY <1>0, <2>1, <2>2, <2>3, <1>3 DEF Pools, NothingPending, Fibers
<1>6. WaitLists(s2)'
  <2>1. SpotsKept(s, s2)
    BY <1>2, <1>3, Spots DEF SpotsKept
  <2> QED
    BY <2>1, <1>1, WaitListsSame
<1>7. BusyOK(s2)'
  <2>1. s2[x][1] = "resumable"
    BY <1>3, Spots
  <2> QED
    BY <2>1, <1>1, <1>3 DEF BusyOK, BusySame
<1> QED
  BY <1>5, <1>6, <1>7, ParkedPartsNext

\* A worker goes on with a fiber.
LEMMA ParkedResume ==
    ASSUME NEW s, Parked(s), NEW v \in Worker, on[v] = v, resumable \in Seq(Fiber), resumable # <<>>,
           NEW x, x = Head(resumable), resumable' = Tail(resumable), on' = [on EXCEPT ![v] = x],
           NEW d, NEW n, NEW e, NEW f, NEW g, Swap(d, n, e, f, g), BusySame,
           Waking(f) = Waking(e), Waking(g) = None, on \in [Thread -> Contexts],
           UNCHANGED <<program, slots, pending, free, next>>,
           NEW s2, MoveTo(s, s2, x, RunBy(v))
    PROVE  Parked(s2)' /\ x \in Fiber /\ s[x] = Ready
<1>1. Pools(s) /\ WaitLists(s) /\ BusyOK(s)
  BY ParkedParts
<1>0. x \in Fiber /\ x \in Range(resumable) /\ Range(resumable') = Range(resumable) \ {x} /\ Distinct(resumable')
  BY <1>1, TailQ DEF Pools
<1>2. s \in [Fiber -> Spot] /\ s[x] = Ready /\ RunBy(v) \in Spot
  BY <1>0, <1>1, SpotOf DEF Pools
<1>3. s2 \in [Fiber -> Spot] /\ \A y \in Fiber : s2[y] = IF y = x THEN RunBy(v) ELSE s[y]
  BY <1>0, <1>2, MoveSpot
<1>4. \A u \in Worker : on'[u] = IF u = v THEN x ELSE on[u]
  BY Sizes
<1>5. Pools(s2)'
  <2>1. /\ \A y \in Fiber : ~Fibers <=> s2[y] = Nowhere
        /\ \A y \in Fiber : y \in free <=> s2[y] = Free
        /\ \A y \in Fiber : y \in Range(resumable') <=> s2[y] = Ready
    BY <1>0, <1>1, <1>2, <1>3, Spots DEF Pools
  <2>2. \A y \in Fiber, u \in Worker : on'[u] = y <=> s2[y] = RunBy(u)
    <3> TAKE y \in Fiber, u \in Worker
    <3>1. on[u] = y <=> s[y] = RunBy(u)
      BY <1>1 DEF Pools
    <3>2. Ready # RunBy(u) /\ (RunBy(u) = RunBy(v) => u = v) /\ v \notin Fiber
      BY Spots, Sizes
    <3> QED
      BY <3>1, <3>2, <1>0, <1>2, <1>3, <1>4
  <2>3. \A y \in Fiber, u \in Worker : pending[u].kind # "none" /\ pending[u].fiber = y <=> s2[y] = LeftBy(u)
    <3> TAKE y \in Fiber, u \in Worker
    <3>1. pending[u].kind # "none" /\ pending[u].fiber = y <=> s[y] = LeftBy(u)
      BY <1>1 DEF Pools, NothingPending
    <3>2. RunBy(v) # LeftBy(u) /\ Ready # LeftBy(u)
      BY Spots
    <3> QED
      BY <3>1, <3>2, <1>2, <1>3
  <2> QED
    BY <1>0, <2>1, <2>2, <2>3, <1>3 DEF Pools, NothingPending, Fibers
<1>6. WaitLists(s2)'
  <2>1. SpotsKept(s, s2)
    BY <1>2, <1>3, Spots DEF SpotsKept
  <2> QED
    BY <2>1, <1>1, WaitListsSame
<1>7. BusyOK(s2)'
  <2>1. s2[x][1] = "on" /\ Busy(x)
    BY <1>0, <1>1, <1>2, <1>3, Spots DEF BusyOK
  <2> QED
    BY <2>1, <1>1, <1>3 DEF BusyOK, BusySame
<1> QED
  BY <1>0, <1>2, <1>5, <1>6, <1>7, ParkedPartsNext

\* A worker starts a job in a free fiber.
LEMMA ParkedStart ==
    ASSUME NEW s, Parked(s), NEW v \in Worker, on[v] = v, NEW x \in Fiber, x \in free,
           free' = free \ {x}, on' = [on EXCEPT ![v] = x],
           NEW e, NEW f, NEW g, Swap(x, 1, e, f, g), f # Blank,
           Waking(f) = Waking(e), Waking(g) = None, on \in [Thread -> Contexts],
           UNCHANGED <<program, slots, pending, resumable, next>>,
           NEW s2, MoveTo(s, s2, x, RunBy(v))
    PROVE  Parked(s2)'
<1>1. Pools(s) /\ WaitLists(s) /\ BusyOK(s)
  BY ParkedParts
<1>2. s \in [Fiber -> Spot] /\ s[x] = Free /\ RunBy(v) \in Spot
  BY <1>1, SpotOf DEF Pools
<1>3. s2 \in [Fiber -> Spot] /\ \A y \in Fiber : s2[y] = IF y = x THEN RunBy(v) ELSE s[y]
  BY <1>2, MoveSpot
<1>4. \A u \in Worker : on'[u] = IF u = v THEN x ELSE on[u]
  BY Sizes
<1>5. Pools(s2)'
  <2>1. /\ \A y \in Fiber : ~Fibers <=> s2[y] = Nowhere
        /\ \A y \in Fiber : y \in free' <=> s2[y] = Free
        /\ \A y \in Fiber : y \in Range(resumable) <=> s2[y] = Ready
    BY <1>1, <1>2, <1>3, Spots DEF Pools
  <2>2. \A y \in Fiber, u \in Worker : on'[u] = y <=> s2[y] = RunBy(u)
    <3> TAKE y \in Fiber, u \in Worker
    <3>1. on[u] = y <=> s[y] = RunBy(u)
      BY <1>1 DEF Pools
    <3>2. Free # RunBy(u) /\ (RunBy(u) = RunBy(v) => u = v) /\ v \notin Fiber
      BY Spots, Sizes
    <3> QED
      BY <3>1, <3>2, <1>2, <1>3, <1>4
  <2>3. \A y \in Fiber, u \in Worker : pending[u].kind # "none" /\ pending[u].fiber = y <=> s2[y] = LeftBy(u)
    <3> TAKE y \in Fiber, u \in Worker
    <3>1. pending[u].kind # "none" /\ pending[u].fiber = y <=> s[y] = LeftBy(u)
      BY <1>1 DEF Pools, NothingPending
    <3>2. RunBy(v) # LeftBy(u) /\ Free # LeftBy(u)
      BY Spots
    <3> QED
      BY <3>1, <3>2, <1>2, <1>3
  <2> QED
    BY <2>1, <2>2, <2>3, <1>1, <1>3 DEF Pools, NothingPending, Fibers
<1>6. WaitLists(s2)'
  <2>1. SpotsKept(s, s2)
    BY <1>2, <1>3, Spots DEF SpotsKept
  <2> QED
    BY <2>1, <1>1, WaitListsSame
<1>7. BusyOK(s2)'
  <2>1. \A y \in Fiber : Busy(y)' <=> IF y = x THEN TRUE ELSE Busy(y)
    BY BusyAfter, Sizes
  <2>2. s2[x][1] = "on"
    BY <1>3, Spots
  <2> QED
    BY <2>1, <2>2, <1>1, <1>3 DEF BusyOK
<1> QED
  BY <1>5, <1>6, <1>7, ParkedPartsNext

\* The link of a fiber on no list may change.
LEMMA WaitersRelinked ==
    ASSUME NEW s \in [Fiber -> Spot], WaitLists(s), NEW x \in Fiber, s[x][1] \notin {"list", "resume"},
           \A y \in Fiber \ {x} : next'[y] = next[y]
    PROVE  /\ \A y \in Id : Members(Fiber, slots[y].waiters, next') = Waiters(slots[y].waiters)
           /\ \A c \in Contexts, i \in Pos :
                 Members(Fiber, Waking(FrameAt(c, i)), next') = Waiters(Waking(FrameAt(c, i)))
           /\ \A y \in Fiber : s[y][1] \in {"list", "resume"} =>
                 Members(Fiber, next[y], next') = Waiters(next[y])
<1>1. \A head : x \notin Waiters(head) => Members(Fiber, head, next') = Waiters(head)
  <2> TAKE head
  <2> HAVE x \notin Waiters(head)
  <2>1. x \notin Members(Fiber, head, next) /\ Waiters(head) = Members(Fiber, head, next)
    BY WaitersAre
  <2> QED
    BY <2>1, MembersSame
<1>2. \A y \in Id : x \notin Waiters(slots[y].waiters)
  BY Spots DEF WaitLists
<1>3. \A c \in Contexts, i \in Pos : x \notin Waiters(Waking(FrameAt(c, i)))
  BY Spots DEF WaitLists
<1>4. ASSUME NEW y \in Fiber, s[y][1] \in {"list", "resume"} PROVE x \notin Waiters(next[y])
  <2>1. \A head : y \in Waiters(head) => Waiters(next[y]) \subseteq Waiters(head)
    <3> TAKE head
    <3> HAVE y \in Waiters(head)
    <3>1. y \in Members(Fiber, head, next)
      BY WaitersAre
    <3>2. Members(Fiber, next[y], next) \subseteq Members(Fiber, head, next)
      BY <3>1, MembersAfter
    <3> QED
      BY <3>2, WaitersAre
  <2>2. CASE s[y][1] = "list"
    <3>1. PICK d \in Id : s[y] = WaitsOn(d)
      BY <2>2, SpotTags
    <3> QED
      BY <3>1, <2>1, <1>2 DEF WaitLists
  <2>3. CASE s[y][1] = "resume"
    <3>1. PICK c \in Contexts, i \in Pos : s[y] = Resuming(c, i)
      BY <2>3, SpotTags
    <3> QED
      BY <3>1, <2>1, <1>3 DEF WaitLists
  <2> QED
    BY <1>4, <2>2, <2>3
<1> QED
  BY <1>1, <1>2, <1>3, <1>4

LinkSet(x, y) == next' = [next EXCEPT ![x] = y]

\* The fiber goes on the list of the job that it waits for.
LEMMA ParkedEnlist ==
    ASSUME Shapes, NEW s, Parked(s), NEW v \in Worker, NEW x \in Fiber, pending[v].fiber = x, ~NothingPending(v),
           Busy(x), NEW d, NEW n, Swap(d, n, Blank, Blank, Blank), BusySame,
           NEW id \in Id, WaitersSet(id, x), LinkSet(x, slots[id].waiters),
           Settled(v), UNCHANGED <<program, on, free, resumable>>,
           NEW s2, MoveTo(s, s2, x, WaitsOn(id))
    PROVE  Parked(s2)'
<1>1. Pools(s) /\ WaitLists(s) /\ BusyOK(s)
  BY ParkedParts
<1>2. s \in [Fiber -> Spot] /\ s[x] = LeftBy(v) /\ WaitsOn(id) \in Spot /\ s[x][1] = "left"
  BY <1>1, SpotOf, Spots DEF Pools
<1>3. s2 \in [Fiber -> Spot] /\ \A y \in Fiber : s2[y] = IF y = x THEN WaitsOn(id) ELSE s[y]
  BY <1>2, MoveSpot
<1>4. \A u \in Worker : pending'[u] = IF u = v THEN [kind |-> "none"] ELSE pending[u]
  BY DEF Settled, Shapes
<1>5. Pools(s2)'
  <2>1. /\ \A y \in Fiber : ~Fibers <=> s2[y] = Nowhere
        /\ \A y \in Fiber : y \in free <=> s2[y] = Free
        /\ \A y \in Fiber : y \in Range(resumable) <=> s2[y] = Ready
    BY <1>1, <1>2, <1>3, Spots DEF Pools
  <2>2. \A y \in Fiber, u \in Worker : on[u] = y <=> s2[y] = RunBy(u)
    <3> TAKE y \in Fiber, u \in Worker
    <3>1. on[u] = y <=> s[y] = RunBy(u)
      BY <1>1 DEF Pools
    <3>2. LeftBy(v) # RunBy(u) /\ WaitsOn(id) # RunBy(u)
      BY Spots
    <3> QED
      BY <3>1, <3>2, <1>2, <1>3
  <2>3. \A y \in Fiber, u \in Worker : pending'[u].kind # "none" /\ pending'[u].fiber = y <=> s2[y] = LeftBy(u)
    <3> TAKE y \in Fiber, u \in Worker
    <3>1. pending[u].kind # "none" /\ pending[u].fiber = y <=> s[y] = LeftBy(u)
      BY <1>1 DEF Pools, NothingPending
    <3>2. (LeftBy(u) = LeftBy(v) => u = v) /\ WaitsOn(id) # LeftBy(u)
      BY Spots
    <3>3. u = v => (s[y] = LeftBy(u) => y = x)
      BY <3>1
    <3> QED
      BY <3>1, <3>2, <3>3, <1>2, <1>3, <1>4
  <2> QED
    BY <2>1, <2>2, <2>3, <1>1, <1>3 DEF Pools, NothingPending, Fibers
<1>6. WaitLists(s2)'
  <2> DEFINE hd == slots[id].waiters
  <2>1. /\ \A y \in Fiber \ {x} : next'[y] = next[y]
        /\ next'[x] = hd
    BY DEF Shapes, LinkSet
  <2>2. /\ \A y \in Id : Members(Fiber, slots[y].waiters, next') = Waiters(slots[y].waiters)
        /\ \A c \in Contexts, i \in Pos :
              Members(Fiber, Waking(FrameAt(c, i)), next') = Waiters(Waking(FrameAt(c, i)))
        /\ \A y \in Fiber : s[y][1] \in {"list", "resume"} =>
              Members(Fiber, next[y], next') = Waiters(next[y])
    <3>1. s[x][1] \notin {"list", "resume"}
      BY <1>2
    <3> QED
      BY <3>1, <2>1, <1>1, <1>2, WaitersRelinked
  <2>3. \A y \in Id : slots'[y].waiters = IF y = id THEN x ELSE slots[y].waiters
    BY WaitersFields
  <2>4. Members(Fiber, hd, next') = Waiters(hd)
    BY <2>2
  <2>5. Members(Fiber, x, next') = {x} \cup Waiters(hd)
    BY <2>1, <2>4, MembersUnfold
  <2> HIDE DEF hd
  <2>6. \A y \in Fiber : \A u : s2[y] = WaitsOn(u) <=> s[y] = WaitsOn(u) \/ (y = x /\ u = id)
    <3>1. \A u : s[x] # WaitsOn(u) /\ (WaitsOn(id) = WaitsOn(u) => u = id)
      BY <1>2, Spots
    <3> QED
      BY <3>1, <1>3
  <2>7. \A y \in Fiber : \A c, i : s2[y] = Resuming(c, i) <=> s[y] = Resuming(c, i)
    <3>1. \A c, i : s[x] # Resuming(c, i) /\ WaitsOn(id) # Resuming(c, i)
      BY <1>2, Spots
    <3> QED
      BY <3>1, <1>3
  <2>8. \A y \in Fiber, u \in Id : y \in Members(Fiber, slots'[u].waiters, next') <=> s2[y] = WaitsOn(u)
    <3> TAKE y \in Fiber, u \in Id
    <3>0. y \in Waiters(slots[u].waiters) <=> s[y] = WaitsOn(u)
      BY <1>1 DEF WaitLists
    <3>1. CASE u = id
      <4>1. slots'[u].waiters = x /\ hd = slots[u].waiters
        BY <3>1, <2>3 DEF hd
      <4> QED
        BY <4>1, <3>0, <3>1, <2>5, <2>6
    <3>2. CASE u # id
      <4>1. slots'[u].waiters = slots[u].waiters
        BY <3>2, <2>3
      <4> QED
        BY <4>1, <3>0, <3>2, <2>2, <2>6
    <3> QED
      BY <3>1, <3>2
  <2>9. \A y \in Fiber, c \in Contexts, i \in Pos :
            y \in Members(Fiber, Waking(FrameAt(c, i)), next') <=> s2[y] = Resuming(c, i)
    BY <2>2, <2>7, <1>1 DEF WaitLists
  <2>10. d \in Contexts /\ n \in Pos /\ n + 1 \in Pos /\ FrameAt(d, n) = Blank /\ FrameAt(d, n + 1) = Blank
    BY DEF Swap, Pos
  <2>11. /\ \A y \in Fiber : y \in Members(Fiber, Waking(Blank), next') <=> s2[y] = Resuming(d, n)
         /\ \A y \in Fiber : s2[y] # Resuming(d, n + 1)
    BY <2>9, <2>10, BlankHolds, WaitersAre
  <2>12. ASSUME NEW y \in Fiber, s2[y][1] \in {"list", "resume"}
         PROVE  y \notin Members(Fiber, next'[y], next')
    <3>1. CASE y = x
      <4>1. x \notin Waiters(hd)
        BY <1>1, <1>2, Spots DEF WaitLists, hd
      <4> QED
        BY <3>1, <4>1, <2>1, <2>4
    <3>2. CASE y # x
      <4>1. s2[y] = s[y] /\ next'[y] = next[y]
        BY <3>2, <2>1, <1>3
      <4> QED
        BY <4>1, <2>2, <2>12, <1>1 DEF WaitLists
    <3> QED
      BY <3>1, <3>2
  <2>13. WaitListsAre(s2, d, n, Blank)
    BY <2>8, <2>9, <2>11, <2>12 DEF WaitListsAre
  <2> QED
    BY <2>13, BlankHolds, WaitListsNext
<1>7. BusyOK(s2)'
  <2>1. s2[x][1] = "list"
    BY <1>3, Spots
  <2> QED
    BY <2>1, <1>1, <1>3 DEF BusyOK, BusySame
<1> QED
  BY <1>5, <1>6, <1>7, ParkedPartsNext

\* finish_job() takes the list of fibers that wait for its job.
LEMMA ParkedShut ==
    ASSUME Shapes, NEW s, Parked(s), NEW d, NEW n, NEW e, NEW f, Swap(d, n, e, f, Blank), BusySame,
           e.k = "finish", e.id \in Id, e.pc # "resume", f.k = "finish",
           f.cur = slots[e.id].waiters, f.pc = (IF f.cur \in {None, Shut} THEN "group" ELSE "resume"),
           WaitersSet(e.id, Shut), UNCHANGED <<program, on, pending, resumable, free, next>>,
           NEW s2, s2 = [x \in Fiber |-> IF s[x] = WaitsOn(e.id) THEN Resuming(d, n) ELSE s[x]]
    PROVE  Parked(s2)'
<1> DEFINE id == e.id
<1>1. Pools(s) /\ WaitLists(s) /\ BusyOK(s)
  BY ParkedParts
<1>2. d \in Contexts /\ n \in Pos /\ n # n + 1 /\ n + 1 \in Pos /\ FrameAt(d, n) = e /\ FrameAt(d, n + 1) = Blank
  BY DEF Swap, Pos
<1>3. s \in [Fiber -> Spot] /\ Resuming(d, n) \in Spot /\ Resuming(d, n)[1] = "resume"
  BY <1>1, <1>2, SpotOf, Spots DEF Pools
<1>4. s2 \in [Fiber -> Spot] /\ \A y \in Fiber : s2[y] = IF s[y] = WaitsOn(id) THEN Resuming(d, n) ELSE s[y]
  BY <1>3
<1>5. \A y \in Fiber : s2[y] = s[y] \/ (s2[y][1] = "resume" /\ s[y][1] = "list")
  BY <1>3, <1>4, Spots
<1>6. Pools(s2)'
  <2>1. /\ \A y \in Fiber : s2[y] = Nowhere <=> s[y] = Nowhere
        /\ \A y \in Fiber : s2[y] = Free <=> s[y] = Free
        /\ \A y \in Fiber : s2[y] = Ready <=> s[y] = Ready
        /\ \A y \in Fiber : \A v : s2[y] = RunBy(v) <=> s[y] = RunBy(v)
        /\ \A y \in Fiber : \A v : s2[y] = LeftBy(v) <=> s[y] = LeftBy(v)
    BY <1>5, Spots
  <2> QED
    BY <2>1, <1>1, <1>4 DEF Pools, NothingPending, Fibers
<1>7. \A y \in Id : slots'[y].waiters = IF y = id THEN Shut ELSE slots[y].waiters
  <2>1. Shut \in {None, Shut} \cup Fiber
    OBVIOUS
  <2> HIDE DEF id
  <2>2. id \in Id /\ WaitersSet(id, Shut)
    BY DEF id
  <2> QED
    BY <2>1, <2>2, WaitersFields
<1>8. \A y \in Fiber : s[y] # Resuming(d, n) /\ s2[y] # Resuming(d, n + 1)
  <2>1. Waking(e) = None
    BY DEF Waking
  <2>2. \A y \in Fiber : s[y] # Resuming(d, n) /\ s[y] # Resuming(d, n + 1)
    BY <2>1, <1>1, <1>2, BlankHolds, WaitersAre DEF WaitLists
  <2>3. Resuming(d, n) # Resuming(d, n + 1)
    BY <1>2, Spots
  <2> QED
    BY <2>2, <2>3, <1>4
<1>9. WaitLists(s2)'
  <2>1. \A y \in Fiber, u \in Id : y \in Members(Fiber, slots'[u].waiters, next') <=> s2[y] = WaitsOn(u)
    <3> TAKE y \in Fiber, u \in Id
    <3>1. CASE u = id
      <4>1. s2[y] # WaitsOn(u)
        <5>1. Resuming(d, n) # WaitsOn(u)
          BY Spots
        <5> QED
          BY <5>1, <3>1, <1>4
      <4> QED
        BY <4>1, <3>1, <1>7, WaitersAre
    <3>2. CASE u # id
      <4>1. slots'[u].waiters = slots[u].waiters
        BY <3>2, <1>7
      <4>2. y \in Waiters(slots[u].waiters) <=> s[y] = WaitsOn(u)
        BY <1>1 DEF WaitLists
      <4>3. s2[y] = WaitsOn(u) <=> s[y] = WaitsOn(u)
        <5>1. Resuming(d, n) # WaitsOn(u) /\ (WaitsOn(id) = WaitsOn(u) => u = id)
          BY Spots
        <5> QED
          BY <5>1, <3>2, <1>4
      <4> QED
        BY <4>1, <4>2, <4>3, WaitersAre
    <3> QED
      BY <3>1, <3>2
  <2>2. \A y \in Fiber : y \in Members(Fiber, Waking(f), next') <=> s2[y] = Resuming(d, n)
    <3>1. Waiters(Waking(f)) = Waiters(slots[id].waiters)
      <4>1. CASE f.cur \in {None, Shut}
        <5>1. Waking(f) = None
          BY <4>1 DEF Waking
        <5> QED
          BY <4>1, <5>1, WaitersAre
      <4>2. CASE f.cur \notin {None, Shut}
        BY <4>2 DEF Waking
      <4> QED
        BY <4>1, <4>2
    <3>2. \A y \in Fiber : y \in Waiters(slots[id].waiters) <=> s[y] = WaitsOn(id)
      BY <1>1 DEF WaitLists
    <3>3. \A y \in Fiber : s2[y] = Resuming(d, n) <=> s[y] = WaitsOn(id)
      BY <1>4, <1>8
    <3> QED
      BY <3>1, <3>2, <3>3, WaitersAre
  <2>3. \A y \in Fiber, c \in Contexts, i \in Pos : ~(c = d /\ i = n) =>
            (y \in Members(Fiber, Waking(FrameAt(c, i)), next') <=> s2[y] = Resuming(c, i))
    <3> TAKE y \in Fiber, c \in Contexts, i \in Pos
    <3> HAVE ~(c = d /\ i = n)
    <3>1. y \in Waiters(Waking(FrameAt(c, i))) <=> s[y] = Resuming(c, i)
      BY <1>1 DEF WaitLists
    <3>2. s2[y] = Resuming(c, i) <=> s[y] = Resuming(c, i)
      <4>1. Resuming(d, n) # Resuming(c, i) /\ WaitsOn(id) # Resuming(c, i)
        BY Spots
      <4> QED
        BY <4>1, <1>4
    <3> QED
      BY <3>1, <3>2, WaitersAre
  <2>4. ASSUME NEW y \in Fiber, s2[y][1] \in {"list", "resume"}
        PROVE  y \notin Members(Fiber, next'[y], next')
    <3>1. s[y][1] \in {"list", "resume"}
      BY <2>4, <1>5
    <3>2. y \notin Waiters(next[y])
      BY <3>1, <1>1 DEF WaitLists
    <3> QED
      BY <3>2, WaitersAre
  <2>5. WaitListsAre(s2, d, n, f)
    BY <2>1, <2>2, <2>3, <2>4, <1>8 DEF WaitListsAre
  <2> QED
    BY <2>5, BlankHolds, WaitListsNext
<1>10. BusyOK(s2)'
  <2>1. ASSUME NEW y \in Fiber
        PROVE  /\ s2[y][1] \in {"nowhere", "free"} => s[y][1] \in {"nowhere", "free"}
               /\ s2[y][1] \in {"resumable", "on", "list", "resume"} => s[y][1] \in {"resumable", "on", "list", "resume"}
    BY <1>5
  <2> QED
    BY <2>1, <1>1 DEF BusyOK, BusySame
<1> QED
  BY <1>6, <1>9, <1>10, ParkedPartsNext

\* finish_job() wakes the next fiber of its list.
LEMMA ParkedWake ==
    ASSUME Shapes, NEW s, Parked(s), NEW d, NEW n, NEW e, NEW f, Swap(d, n, e, f, Blank), BusySame,
           e.k = "finish", e.pc = "resume", e.cur \in Fiber, f.k = "finish",
           f.cur = next[e.cur], f.pc = (IF f.cur \in {None, Shut} THEN "group" ELSE "resume"),
           resumable' = Append(resumable, e.cur),
           UNCHANGED <<program, slots, on, pending, free, next>>,
           NEW s2, MoveTo(s, s2, e.cur, Ready)
    PROVE  Parked(s2)' /\ s[e.cur] = Resuming(d, n)
<1> DEFINE x == e.cur
<1>1. Pools(s) /\ WaitLists(s) /\ BusyOK(s)
  BY ParkedParts
<1>2. d \in Contexts /\ n \in Pos /\ n # n + 1 /\ n + 1 \in Pos /\ FrameAt(d, n) = e /\ FrameAt(d, n + 1) = Blank
  BY DEF Swap, Pos
<1>3. Waking(e) = x
  BY DEF Waking
<1>4. Waiters(x) = {x} \cup Waiters(next[x]) /\ \A y \in Fiber : y \in Waiters(x) <=> s[y] = Resuming(d, n)
  <2>1. Members(Fiber, x, next) = {x} \cup Members(Fiber, next[x], next)
    BY MembersUnfold
  <2> QED
    BY <2>1, <1>1, <1>2, <1>3, WaitersAre DEF WaitLists
<1>5. s \in [Fiber -> Spot] /\ Ready \in Spot /\ s[x] = Resuming(d, n) /\ s[x][1] = "resume"
  BY <1>1, <1>4, SpotOf, Spots DEF Pools
<1>6. s2 \in [Fiber -> Spot] /\ \A y \in Fiber : s2[y] = IF y = x THEN Ready ELSE s[y]
  BY <1>5, MoveSpot
<1>7. Waiters(Waking(f)) = Waiters(x) \ {x}
  <2>1. x \notin Waiters(next[x])
    BY <1>1, <1>5 DEF WaitLists
  <2>2. Waiters(Waking(f)) = Waiters(next[x])
    <3>1. CASE f.cur \in {None, Shut}
      <4>1. Waking(f) = None
        BY <3>1 DEF Waking
      <4> QED
        BY <3>1, <4>1, WaitersAre
    <3>2. CASE f.cur \notin {None, Shut}
      BY <3>2 DEF Waking
    <3> QED
      BY <3>1, <3>2
  <2> QED
    BY <2>1, <2>2, <1>4
<1>8. Range(resumable') = Range(resumable) \cup {x} /\ Distinct(resumable')
  <2>1. x \notin Range(resumable) /\ Distinct(resumable) /\ resumable \in Seq(Fiber)
    BY <1>1, <1>5, Spots DEF Pools, Shapes
  <2> QED
    BY <2>1, AppendQ
<1>9. Pools(s2)'
  <2>1. /\ \A y \in Fiber : s2[y] = Nowhere <=> s[y] = Nowhere
        /\ \A y \in Fiber : s2[y] = Free <=> s[y] = Free
        /\ \A y \in Fiber : s2[y] = Ready <=> s[y] = Ready \/ y = x
    BY <1>5, <1>6, Spots
  <2>2. /\ \A y \in Fiber : \A v : s2[y] = RunBy(v) <=> s[y] = RunBy(v)
        /\ \A y \in Fiber : \A v : s2[y] = LeftBy(v) <=> s[y] = LeftBy(v)
    BY <1>5, <1>6, Spots
  <2> QED
    BY <2>1, <2>2, <1>1, <1>6, <1>8 DEF Pools, NothingPending, Fibers
<1>10. WaitLists(s2)'
  <2>1. \A y \in Fiber, u \in Id : y \in Members(Fiber, slots'[u].waiters, next') <=> s2[y] = WaitsOn(u)
    <3> TAKE y \in Fiber, u \in Id
    <3>1. y \in Waiters(slots[u].waiters) <=> s[y] = WaitsOn(u)
      BY <1>1 DEF WaitLists
    <3>2. s2[y] = WaitsOn(u) <=> s[y] = WaitsOn(u)
      <4>1. s[x] # WaitsOn(u) /\ Ready # WaitsOn(u)
        BY <1>5, Spots
      <4> QED
        BY <4>1, <1>6
    <3> QED
      BY <3>1, <3>2, WaitersAre
  <2>2. \A y \in Fiber : y \in Members(Fiber, Waking(f), next') <=> s2[y] = Resuming(d, n)
    <3>1. Ready # Resuming(d, n)
      BY Spots
    <3> QED
      BY <3>1, <1>4, <1>6, <1>7, WaitersAre
  <2>3. \A y \in Fiber, c \in Contexts, i \in Pos : ~(c = d /\ i = n) =>
            (y \in Members(Fiber, Waking(FrameAt(c, i)), next') <=> s2[y] = Resuming(c, i))
    <3> TAKE y \in Fiber, c \in Contexts, i \in Pos
    <3> HAVE ~(c = d /\ i = n)
    <3>1. y \in Waiters(Waking(FrameAt(c, i))) <=> s[y] = Resuming(c, i)
      BY <1>1 DEF WaitLists
    <3>2. s2[y] = Resuming(c, i) <=> s[y] = Resuming(c, i)
      <4>1. Resuming(d, n) # Resuming(c, i) /\ Ready # Resuming(c, i)
        BY Spots
      <4> QED
        BY <4>1, <1>5, <1>6
    <3> QED
      BY <3>1, <3>2, WaitersAre
  <2>4. \A y \in Fiber : s2[y] # Resuming(d, n + 1)
    <3>1. \A y \in Fiber : s[y] # Resuming(d, n + 1)
      BY <1>1, <1>2, BlankHolds, WaitersAre DEF WaitLists
    <3>2. Ready # Resuming(d, n + 1)
      BY Spots
    <3> QED
      BY <3>1, <3>2, <1>6
  <2>5. ASSUME NEW y \in Fiber, s2[y][1] \in {"list", "resume"}
        PROVE  y \notin Members(Fiber, next'[y], next')
    <3>1. y # x
      BY <2>5, <1>6, Spots
    <3>2. s[y][1] \in {"list", "resume"}
      BY <2>5, <3>1, <1>6
    <3>3. y \notin Waiters(next[y])
      BY <3>2, <1>1 DEF WaitLists
    <3> QED
      BY <3>3, WaitersAre
  <2>6. WaitListsAre(s2, d, n, f)
    BY <2>1, <2>2, <2>3, <2>4, <2>5 DEF WaitListsAre
  <2> QED
    BY <2>6, BlankHolds, WaitListsNext
<1>11. BusyOK(s2)'
  <2>1. Busy(x)
    BY <1>1, <1>5 DEF BusyOK
  <2>2. s2[x][1] = "resumable"
    BY <1>6, Spots
  <2> QED
    BY <2>1, <2>2, <1>1, <1>6 DEF BusyOK, BusySame
<1> QED
  BY <1>5, <1>9, <1>10, <1>11, ParkedPartsNext

-----------------------------------------------------------------------------
\* Names.  Stages are told apart by what they say.
LEMMA Stages ==
    /\ \A u, v : InSlot(u) = InSlot(v) => u = v
    /\ \A c, i, d, j : Asked(c, i) = Asked(d, j) => c = d /\ i = j
    /\ New[1] = "new" /\ Gone[1] = "gone" /\ TheMain[1] = "main"
    /\ \A u : InSlot(u)[1] = "slot" /\ \A c, i : Asked(c, i)[1] = "asked"
BY DEF New, Gone, TheMain, InSlot, Asked

\* The stages a job's name can be in.
LEMMA StageOf ==
    /\ New \in Stage /\ Gone \in Stage /\ TheMain \in Stage
    /\ \A u \in Id : InSlot(u) \in Stage
    /\ \A c \in Contexts, i \in Pos : Asked(c, i) \in Stage
BY DEF Stage

\* The tag of a stage tells which one it is.
LEMMA StageTags ==
    ASSUME NEW x \in Stage
    PROVE  /\ x[1] \in {"new", "gone", "main", "slot", "asked"}
           /\ x[1] = "new" <=> x = New
           /\ x[1] = "gone" <=> x = Gone
           /\ x[1] = "slot" => \E u \in Id : x = InSlot(u)
           /\ x[1] = "asked" => \E c \in Contexts, i \in Pos : x = Asked(c, i)
<1>1. CASE x \in {New, Gone, TheMain}
  BY <1>1, Stages
<1>2. CASE \E u \in Id : x = InSlot(u)
  BY <1>2, Stages
<1>3. CASE \E c \in Contexts, i \in Pos : x = Asked(c, i)
  BY <1>3, Stages
<1> QED
  BY <1>1, <1>2, <1>3 DEF Stage

\* The calls of a program.
LEMMA CallTypes ==
    ASSUME Shapes, NEW j \in Job, NEW n \in DOMAIN program.calls[j]
    PROVE  LET c == CallAt(j, n)
           IN  /\ c.op \in {"submit", "wait", "pfor", "stop"}
               /\ c.op = "submit" => c.job \in Task /\ c.dep \in Task \cup {None}
               /\ c.op = "wait" => c.job \in Task /\ c = Wait(c.job)
               /\ c.op = "pfor" => c.chunks \in Seq(Task)
               /\ Submits(c) \subseteq Task
               /\ Uses(program, j, n) /\ n \in Pos
<1> DEFINE c == CallAt(j, n)
<1>1. program.calls[j] \in Seq(CallsOf(Task)) /\ Uses(program, j, n)
  BY Programmed DEF Shapes
<1>2. c \in CallsOf(Task) /\ n \in Pos
  BY <1>1 DEF CallAt, Pos
<1> HIDE DEF c
<1>3. /\ c.op \in {"submit", "wait", "pfor", "stop"}
      /\ c.op = "submit" => c.job \in Task /\ c.dep \in Task \cup {None}
      /\ c.op = "wait" => c.job \in Task /\ c = Wait(c.job)
      /\ c.op = "pfor" => c.chunks \in Seq(Task)
  BY <1>2 DEF CallsOf, None, Wait
<1>4. Submits(c) \subseteq Task
  <2>1. CASE c.op = "submit"
    BY <2>1, <1>3 DEF Submits
  <2>2. CASE c.op = "pfor"
    <3>1. Range(c.chunks) \subseteq Task
      BY <2>2, <1>3 DEF Range
    <3> QED
      BY <2>2, <3>1 DEF Submits
  <2>3. CASE c.op \notin {"submit", "pfor"}
    BY <2>3 DEF Submits
  <2> QED
    BY <2>1, <2>2, <2>3
<1> QED
  BY <1>1, <1>2, <1>3, <1>4 DEF c

\* No two slots are one job's.
LEMMA NamesApart ==
    ASSUME NEW h, Named(h)
    PROVE  JobsApart
BY Stages DEF Named, JobsApart

\* No two frames carry out the same job.
LEMMA BodiesApart ==
    ASSUME Shapes, Stacks, NEW w, Placed(w), JobsApart,
           NEW c1 \in Contexts, NEW i1 \in Pos, NEW c2 \in Contexts, NEW i2 \in Pos,
           FrameAt(c1, i1).k = "body", FrameAt(c2, i2).k = "body",
           FrameAt(c1, i1).job = FrameAt(c2, i2).job
    PROVE  c1 = c2 /\ i1 = i2
<1>1. PICK u, v : u = FrameAt(c1, i1) /\ v = FrameAt(c2, i2)
  OBVIOUS
<1>2. u \in BodyFrame /\ v \in BodyFrame
  <2>1. u # Blank /\ v # Blank
    BY <1>1 DEF Blank
  <2> QED
    BY <1>1, <2>1, FrameAtIn, FrameKinds
<1>3. ASSUME NEW c \in Contexts, NEW i \in Pos, NEW x, x = FrameAt(c, i), x \in BodyFrame
      PROVE  /\ x.id = 0 => c = External /\ i = 1 /\ x.job = "main"
             /\ x.id # 0 => /\ x.id \in Id /\ w[x.id] = Held("body", c, i)
                            /\ x.job = slots[x.id].job /\ x.job \in Task
  <2>1. x.k = "body" /\ x.id \in {0} \cup Id
    BY <1>3 DEF BodyFrame
  <2>2. x.id = 0 => c = External /\ i = 1 /\ x.job = "main"
    BY <1>3, <2>1 DEF Stacks
  <2>3. ASSUME x.id # 0
        PROVE  /\ x.id \in Id /\ w[x.id] = Held("body", c, i)
               /\ x.job = slots[x.id].job /\ x.job \in Task
    <3>1. x.id \in Id /\ w[x.id] = Held("body", c, i)
      BY <1>3, <2>1, <2>3 DEF Placed, Carried, Holds, Holders
    <3>2. x.job = slots[x.id].job
      BY <1>3, <2>1, <2>3 DEF Placed, Alive, HolderOK
    <3>3. slots[x.id].job \in Task
      <4>1. w[x.id][1] = "body"
        BY <3>1, Tokens
      <4>2. SlotOK(x.id, w[x.id][1])
        BY <3>1 DEF Placed, Alive
      <4> QED
        BY <4>1, <4>2 DEF SlotOK
    <3> QED
      BY <3>1, <3>2, <3>3
  <2> QED
    BY <2>2, <2>3
<1>4. /\ u.id = 0 => c1 = External /\ i1 = 1 /\ u.job = "main"
      /\ u.id # 0 => /\ u.id \in Id /\ w[u.id] = Held("body", c1, i1)
                     /\ u.job = slots[u.id].job /\ u.job \in Task
  BY <1>1, <1>2, <1>3
<1>5. /\ v.id = 0 => c2 = External /\ i2 = 1 /\ v.job = "main"
      /\ v.id # 0 => /\ v.id \in Id /\ w[v.id] = Held("body", c2, i2)
                     /\ v.job = slots[v.id].job /\ v.job \in Task
  BY <1>1, <1>2, <1>3
<1>6. u.job = v.job /\ "main" \notin Task
  BY <1>1 DEF Task
<1>7. CASE u.id = 0
  BY <1>4, <1>5, <1>6, <1>7
<1>8. CASE u.id # 0
  <2>1. v.id # 0
    BY <1>4, <1>5, <1>6, <1>8
  <2>2. u.id = v.id
    BY <1>4, <1>5, <1>6, <1>8, <2>1 DEF JobsApart
  <2> QED
    BY <1>4, <1>5, <1>8, <2>1, <2>2, Tokens
<1> QED
  BY <1>7, <1>8

\* The parts of Named after a step.
SlotNames(h) == \A id \in Id, j \in Task : slots'[id].job = j <=> h[j] = InSlot(id)

AskMove(h, h2, d, n, f, g) ==
    \A j \in Task :
        /\ Asks(f, j) <=> h2[j] = Asked(d, n)
        /\ Asks(g, j) <=> h2[j] = Asked(d, n + 1)
        /\ \A c \in Contexts, i \in Pos : ~(c = d /\ i = n) /\ ~(c = d /\ i = n + 1) =>
              (h2[j] = Asked(c, i) <=> h[j] = Asked(c, i))

FrameFuture(h, f) ==
    /\ f.k = "pfor" => Distinct(f.list)
    /\ f.k = "body" => Unasked(h, f.job, f.pc)

FutureMove(h, d, n, f, g) ==
    /\ FrameFuture(h, f) /\ FrameFuture(h, g)
    /\ \A c \in Contexts, i \in Pos : ~(c = d /\ i = n) /\ ~(c = d /\ i = n + 1) =>
          FrameFuture(h, FrameAt(c, i))

JobsMove(h) ==
    /\ \A j \in Task :
          /\ h[j] # TheMain
          /\ h[j][1] \in {"new", "asked"} => begun'[j] = 0 /\ j \notin ended' /\ handle'[j] = NoHandle
          /\ h[j] = Gone => begun'[j] = 1 /\ j \in ended'
          /\ begun'[j] = 0 => Unasked(h, j, 1)
    /\ begun'["main"] = 0 /\ handle'["main"] = NoHandle

\* The stages of the jobs, when a step changes two frames and some names.
LEMMA NamedMove ==
    ASSUME NEW h, Named(h), NEW h2 \in [Job -> Stage], h2["main"] = TheMain, UNCHANGED program,
           NEW d, NEW n, NEW e, NEW f, NEW g, Swap(d, n, e, f, g),
           SlotNames(h2), AskMove(h, h2, d, n, f, g), FutureMove(h2, d, n, f, g), JobsMove(h2)
    PROVE  Named(h2)'
<1>1. \A c \in Contexts, i \in Pos :
         FrameAt(c, i)' = IF c = d /\ i = n THEN f ELSE IF c = d /\ i = n + 1 THEN g ELSE FrameAt(c, i)
  BY DEF Swap, Stacked
<1>2. n # n + 1
  BY DEF Swap, Pos
<1>3. Task' = Task /\ Job' = Job
  BY DEF Task, Job
<1>4. \A j, m : Unasked(h2, j, m)' <=> Unasked(h2, j, m)
  BY DEF Unasked, CallAt
<1>5. ASSUME NEW c \in Contexts, NEW i \in Pos
      PROVE  /\ \A j \in Task : Asks(FrameAt(c, i)', j) <=> h2[j] = Asked(c, i)
             /\ FrameFuture(h2, FrameAt(c, i)')
  <2>1. CASE c = d /\ i = n
    BY <2>1, <1>1, <1>2 DEF AskMove, FutureMove
  <2>2. CASE c = d /\ i = n + 1
    BY <2>2, <1>1, <1>2 DEF AskMove, FutureMove
  <2>3. CASE ~(c = d /\ i = n) /\ ~(c = d /\ i = n + 1)
    <3>1. FrameAt(c, i)' = FrameAt(c, i) /\ FrameFuture(h2, FrameAt(c, i))
      BY <2>3, <1>1 DEF FutureMove
    <3>2. \A j \in Task : Asks(FrameAt(c, i), j) <=> h2[j] = Asked(c, i)
      BY <2>3 DEF AskMove, Named
    <3> QED
      BY <3>1, <3>2
  <2> QED
    BY <2>1, <2>2, <2>3
<1>6. \A c \in Contexts, i \in Pos :
          /\ \A j \in Task : Asks(FrameAt(c, i)', j) <=> h2[j] = Asked(c, i)
          /\ FrameAt(c, i)'.k = "pfor" => Distinct(FrameAt(c, i)'.list)
          /\ FrameAt(c, i)'.k = "body" => Unasked(h2, FrameAt(c, i)'.job, FrameAt(c, i)'.pc)
  BY <1>5 DEF FrameFuture
<1>7. \A id \in Id, j \in Task' : slots'[id].job = j <=> h2[j] = InSlot(id)
  BY <1>3 DEF SlotNames
<1>8. /\ \A j \in Task' :
             /\ h2[j] # TheMain
             /\ h2[j][1] \in {"new", "asked"} => begun'[j] = 0 /\ j \notin ended' /\ handle'[j] = NoHandle
             /\ h2[j] = Gone => begun'[j] = 1 /\ j \in ended'
             /\ begun'[j] = 0 => Unasked(h2, j, 1)'
      /\ begun'["main"] = 0 /\ handle'["main"] = NoHandle
  BY <1>3, <1>4 DEF JobsMove
<1> QED
  BY <1>3, <1>6, <1>7, <1>8 DEF Named, Unasked, CallAt

\* What is recorded of a job changes while it has a slot.
HistoryMove(h) ==
    /\ \A j \in Task :
          /\ \/ begun'[j] = begun[j] /\ (j \in ended' <=> j \in ended) /\ handle'[j] = handle[j]
             \/ \E id \in Id : h[j] = InSlot(id)
          /\ begun'[j] = 0 => begun[j] = 0
    /\ begun'["main"] = 0 /\ handle'["main"] = NoHandle

\* The history of the jobs stays true to their stages when none of them changes.
LEMMA JobsQuiet ==
    ASSUME NEW h, Named(h), HistoryMove(h)
    PROVE  JobsMove(h)
BY Stages DEF Named, HistoryMove, JobsMove

\* A step that begins, ends and hands out nothing keeps the history.
LEMMA HistorySame ==
    ASSUME NEW h, Named(h), UNCHANGED <<begun, ended, handle>>
    PROVE  HistoryMove(h)
BY DEF HistoryMove, Named

\* The part of Named about one frame.
LEMMA NamedFrames ==
    ASSUME NEW h, Named(h)
    PROVE  \A c \in Contexts, i \in Pos : FrameFuture(h, FrameAt(c, i))
BY DEF Named, FrameFuture

\* The frames on top ask for what they asked for.
FrameQuiet(h, e, f, g) ==
    /\ \A j \in Task : (Asks(f, j) <=> Asks(e, j)) /\ ~Asks(g, j)
    /\ FrameFuture(h, f) /\ FrameFuture(h, g)

\* A step that asks for no slot and frees none keeps every name where it is.
LEMMA NamedQuiet ==
    ASSUME NEW h, Named(h), UNCHANGED program,
           NEW d, NEW n, NEW e, NEW f, NEW g, Swap(d, n, e, f, g),
           \A id \in Id : slots'[id].job = slots[id].job,
           FrameQuiet(h, e, f, g), HistoryMove(h)
    PROVE  Named(h)'
<1>1. d \in Contexts /\ n \in Pos /\ n + 1 \in Pos /\ FrameAt(d, n) = e /\ FrameAt(d, n + 1) = Blank
  BY DEF Swap, Pos
<1>2. SlotNames(h)
  BY DEF Named, SlotNames
<1>3. AskMove(h, h, d, n, f, g)
  <2>1. \A j \in Task : (Asks(e, j) <=> h[j] = Asked(d, n)) /\ h[j] # Asked(d, n + 1)
    BY <1>1, BlankHolds DEF Named
  <2> QED
    BY <2>1 DEF AskMove, FrameQuiet
<1>4. FutureMove(h, d, n, f, g)
  BY NamedFrames DEF FutureMove, FrameQuiet
<1>5. JobsMove(h)
  BY JobsQuiet
<1>6. h \in [Job -> Stage] /\ h["main"] = TheMain
  BY DEF Named
<1> QED
  BY <1>2, <1>3, <1>4, <1>5, <1>6, NamedMove

\* A call asks for its jobs, which nobody has asked for.
AskedBy(h, h2, S, x) == h2 = [j \in Job |-> IF j \in S THEN x ELSE h[j]]

\* A call asks for the slots of the jobs it submits, which nobody has asked for before.
LEMMA NamedAsk ==
    ASSUME Shapes, Stacks, NEW w, Placed(w), NEW h, Named(h), UNCHANGED <<program, slots, begun, ended, handle>>,
           NEW d, NEW n, NEW e, NEW f, NEW g, Swap(d, n, e, f, g), e.k = "body",
           NEW pc, pc = e.pc, pc \in DOMAIN program.calls[e.job], f.k = "body", f.job = e.job, f.pc = pc + 1,
           NEW S, S = Submits(CallAt(e.job, pc)),
           \A j \in Task : Asks(g, j) <=> j \in S, FrameFuture(h, g), g.k # "body",
           NEW h2, AskedBy(h, h2, S, Asked(d, n + 1))
    PROVE  Named(h2)' /\ \A j \in S : j \in Task /\ h[j] = New
<1>1. d \in Contexts /\ n \in Pos /\ n + 1 \in Pos /\ n # n + 1 /\ FrameAt(d, n) = e /\ FrameAt(d, n + 1) = Blank
  BY DEF Swap, Pos
<1>2. e \in BodyFrame /\ e.job \in Job
  <2>1. e # Blank
    BY DEF Blank
  <2>2. e \in BodyFrame
    BY <1>1, <2>1, FrameAtIn, FrameKinds
  <2> QED
    BY <2>2 DEF BodyFrame
<1>3. S \subseteq Task /\ pc \in Pos
  BY <1>2, CallTypes
<1>4. \A j \in S : h[j] = New
  <2>1. Unasked(h, e.job, e.pc)
    BY <1>1 DEF Named
  <2> QED
    BY <2>1, <1>3 DEF Unasked, Pos
<1>5. h \in [Job -> Stage] /\ h["main"] = TheMain /\ Task \subseteq Job /\ "main" \in Job
  BY Programmed DEF Named, Shapes
<1>6. \A j \in Job : h2[j] = IF j \in S THEN Asked(d, n + 1) ELSE h[j]
  BY DEF AskedBy
<1>7. Asked(d, n + 1) \in Stage
  BY <1>1, StageOf
<1>8. h2 \in [Job -> Stage] /\ h2["main"] = TheMain
  <2>1. "main" \notin S
    BY <1>3 DEF Task
  <2> QED
    BY <2>1, <1>5, <1>6, <1>7 DEF AskedBy
<1>9. SlotNames(h2)
  <2>1. \A j, id : New # InSlot(id) /\ Asked(d, n + 1) # InSlot(id)
    BY Stages
  <2> QED
    BY <2>1, <1>4, <1>5, <1>6 DEF SlotNames, Named
<1>10. AskMove(h, h2, d, n, f, g)
  <2> SUFFICES ASSUME NEW j \in Task
               PROVE  /\ Asks(f, j) <=> h2[j] = Asked(d, n)
                      /\ Asks(g, j) <=> h2[j] = Asked(d, n + 1)
                      /\ \A c \in Contexts, i \in Pos : ~(c = d /\ i = n) /\ ~(c = d /\ i = n + 1) =>
                            (h2[j] = Asked(c, i) <=> h[j] = Asked(c, i))
    BY DEF AskMove
  <2>1. \A c, i : New # Asked(c, i) /\ (Asked(c, i) = Asked(d, n + 1) => c = d /\ i = n + 1)
    BY Stages
  <2>2. ~Asks(f, j) /\ ~Asks(e, j)
    BY DEF Asks
  <2>3. h[j] # Asked(d, n) /\ h[j] # Asked(d, n + 1)
    BY <2>2, <1>1, BlankHolds DEF Named
  <2> QED
    BY <2>1, <2>2, <2>3, <1>1, <1>4, <1>5, <1>6
<1>11. ASSUME NEW i \in Job, NEW m \in DOMAIN program.calls[i], NEW k \in Submits(CallAt(i, m)), k \in S
       PROVE  i = e.job /\ m = pc
  <2>1. Submits(CallAt(i, m)) \cap Submits(CallAt(e.job, pc)) # {}
    BY <1>11
  <2>2. \A j \in Job : \A a \in DOMAIN program.calls[i], b \in DOMAIN program.calls[j] :
            Submits(CallAt(i, a)) \cap Submits(CallAt(j, b)) # {} => i = j /\ a = b
    BY Programmed DEF Shapes
  <2> QED
    BY <2>1, <2>2, <1>2
<1>12. ASSUME NEW i \in Job, NEW m, Unasked(h, i, m), i = e.job => m \in Int /\ m > pc
       PROVE  Unasked(h2, i, m)
  <2> SUFFICES ASSUME NEW l \in DOMAIN program.calls[i], l >= m, NEW k \in Submits(CallAt(i, l))
               PROVE  h2[k] = New
    BY DEF Unasked
  <2>1. h[k] = New /\ k \in Task
    BY <1>12, CallTypes DEF Unasked
  <2>2. k \notin S
    <3>1. k \in S => i = e.job /\ l = pc
      BY <1>11
    <3> QED
      BY <3>1, <1>3, <1>12 DEF Pos
  <2> QED
    BY <2>1, <2>2, <1>5, <1>6
<1>13. \A c \in Contexts, i \in Pos : FrameAt(c, i).k = "body" => FrameAt(c, i).job \in Job
  <2> TAKE c \in Contexts, i \in Pos
  <2> HAVE FrameAt(c, i).k = "body"
  <2>1. FrameAt(c, i) \in BodyFrame
    <3>1. FrameAt(c, i) # Blank
      BY DEF Blank
    <3> QED
      BY <3>1, FrameAtIn, FrameKinds
  <2> QED
    BY <2>1 DEF BodyFrame
<1>14. FutureMove(h2, d, n, f, g)
  <2>1. Unasked(h2, f.job, f.pc)
    <3>1. Unasked(h, e.job, e.pc)
      BY <1>1 DEF Named
    <3>2. Unasked(h, e.job, pc + 1)
      <4>1. \A m \in DOMAIN program.calls[e.job] : m >= pc + 1 => m >= pc
        <5>1. program.calls[e.job] \in Seq(CallsOf(Task))
          BY <1>2, Programmed DEF Shapes
        <5>2. \A m \in DOMAIN program.calls[e.job] : m \in Nat
          BY <5>1
        <5> QED
          BY <5>2, <1>3 DEF Pos
      <4> QED
        BY <3>1, <4>1 DEF Unasked
    <3>3. pc + 1 \in Int /\ pc + 1 > pc
      BY <1>3 DEF Pos
    <3> QED
      BY <3>2, <3>3, <1>2, <1>12
  <2>2. ASSUME NEW c \in Contexts, NEW i \in Pos, ~(c = d /\ i = n), FrameAt(c, i).k = "body"
        PROVE  Unasked(h2, FrameAt(c, i).job, FrameAt(c, i).pc)
    <3>1. FrameAt(c, i).job # e.job
      <4>1. JobsApart
        BY NamesApart
      <4> QED
        BY <4>1, <2>2, <1>1, BodiesApart
    <3>2. Unasked(h, FrameAt(c, i).job, FrameAt(c, i).pc) /\ FrameAt(c, i).job \in Job
      BY <2>2, <1>13 DEF Named
    <3> QED
      BY <3>1, <3>2, <1>12
  <2>3. FrameFuture(h2, f)
    BY <2>1 DEF FrameFuture
  <2>4. FrameFuture(h2, g)
    BY DEF FrameFuture
  <2>5. ASSUME NEW c \in Contexts, NEW i \in Pos, ~(c = d /\ i = n)
        PROVE  FrameFuture(h2, FrameAt(c, i))
    <3>1. FrameFuture(h, FrameAt(c, i))
      BY NamedFrames
    <3> QED
      BY <3>1, <2>2, <2>5 DEF FrameFuture
  <2> QED
    BY <2>3, <2>4, <2>5 DEF FutureMove
<1>15. JobsMove(h2)
  <2> SUFFICES ASSUME NEW j \in Task
               PROVE  /\ h2[j] # TheMain
                      /\ h2[j][1] \in {"new", "asked"} => begun'[j] = 0 /\ j \notin ended' /\ handle'[j] = NoHandle
                      /\ h2[j] = Gone => begun'[j] = 1 /\ j \in ended'
                      /\ begun'[j] = 0 => Unasked(h2, j, 1)
    BY DEF JobsMove, Named
  <2>1. /\ h[j] # TheMain
        /\ h[j][1] \in {"new", "asked"} => begun'[j] = 0 /\ j \notin ended' /\ handle'[j] = NoHandle
        /\ h[j] = Gone => begun'[j] = 1 /\ j \in ended'
        /\ begun'[j] = 0 => Unasked(h, j, 1)
    BY DEF Named
  <2>2. h2[j] = IF j \in S THEN Asked(d, n + 1) ELSE h[j]
    BY <1>5, <1>6
  <2>3. j \in S => h[j][1] = "new" /\ h2[j][1] = "asked" /\ h2[j] # TheMain /\ h2[j] # Gone
    BY <2>2, <1>4, Stages
  <2>4. begun[j] = 0 => j # e.job
    <3> SUFFICES ASSUME j = e.job PROVE begun[j] = 1
      OBVIOUS
    <3>1. e.id # 0
      BY <1>1 DEF Stacks, Task
    <3>2. e.id \in Id /\ e.k \in Holders
      BY <3>1, <1>2 DEF BodyFrame, Holders
    <3>3. SlotOK(e.id, "body") /\ HolderOK(e) /\ slots[e.id].gen # 0
      BY <3>2, HeldBy
    <3> QED
      BY <3>1, <3>3 DEF SlotOK, HolderOK
  <2> QED
    BY <2>1, <2>2, <2>3, <2>4, <1>5, <1>12
<1> QED
  BY <1>3, <1>4, <1>8, <1>9, <1>10, <1>14, <1>15, NamedMove

\* Jobs that are not new stay so: what may still be submitted is new.
LEMMA UnaskedKept ==
    ASSUME NEW h, NEW h2, \A j \in Task : h[j] = New => h2[j] = New, Shapes,
           NEW i \in Job, NEW m, Unasked(h, i, m)
    PROVE  Unasked(h2, i, m)
<1> SUFFICES ASSUME NEW l \in DOMAIN program.calls[i], l >= m, NEW k \in Submits(CallAt(i, l))
             PROVE  h2[k] = New
  BY DEF Unasked
<1>1. h[k] = New /\ k \in Task
  BY CallTypes DEF Unasked
<1> QED
  BY <1>1

\* What a frame has still to submit stays new while no name is asked for.
LEMMA FramesKept ==
    ASSUME NEW h, NEW h2, Named(h), \A j \in Task : h[j] = New => h2[j] = New, Shapes,
           NEW c \in Contexts, NEW i \in Pos
    PROVE  FrameFuture(h2, FrameAt(c, i))
<1>1. PICK f : f = FrameAt(c, i)
  OBVIOUS
<1>2. FrameFuture(h, f) /\ f \in Frame \cup {Blank}
  BY <1>1, NamedFrames, FrameAtIn
<1>3. CASE f.k = "body"
  <2>1. f \in BodyFrame
    BY <1>2, <1>3, FrameKinds DEF Blank
  <2>2. f.job \in Job
    BY <2>1 DEF BodyFrame
  <2> QED
    BY <1>1, <1>2, <1>3, <2>2, UnaskedKept DEF FrameFuture
<1>4. CASE f.k # "body"
  BY <1>1, <1>2, <1>4 DEF FrameFuture
<1> QED
  BY <1>3, <1>4

\* parallel_for() submits its next chunk.
LEMMA NamedChunk ==
    ASSUME Shapes, NEW h, Named(h), UNCHANGED <<program, slots, begun, ended, handle>>,
           NEW d, NEW n, NEW e, NEW f, NEW g, Swap(d, n, e, f, g), e.k = "pfor", e.list \in Seq(Task),
           e.list # <<>>, f.k = "pfor", f.list = Tail(e.list),
           NEW j0, j0 = Head(e.list), g.k = "submit", g.id = 0, g.job = j0,
           NEW h2, MoveTo(h, h2, j0, Asked(d, n + 1))
    PROVE  Named(h2)' /\ j0 \in Task /\ h[j0] = Asked(d, n)
<1>1. d \in Contexts /\ n \in Pos /\ n + 1 \in Pos /\ n # n + 1 /\ FrameAt(d, n) = e /\ FrameAt(d, n + 1) = Blank
  BY DEF Swap, Pos
<1>2. Distinct(e.list)
  BY <1>1 DEF Named
<1>3. j0 \in Task /\ j0 \in Range(e.list) /\ Range(f.list) = Range(e.list) \ {j0} /\ Distinct(f.list)
  BY <1>2, TailQ
<1>4. \A j \in Task : Asks(e, j) <=> j \in Range(e.list)
  BY DEF Asks
<1>5. h[j0] = Asked(d, n)
  BY <1>1, <1>3, <1>4 DEF Named
<1>6. h \in [Job -> Stage] /\ h["main"] = TheMain /\ Task \subseteq Job /\ "main" \in Job /\ "main" # j0
  BY <1>3, Programmed DEF Named, Shapes, Task
<1>7. h2 \in [Job -> Stage] /\ \A j \in Job : h2[j] = IF j = j0 THEN Asked(d, n + 1) ELSE h[j]
  BY <1>1, <1>3, <1>6, StageOf DEF MoveTo
<1>8. h2["main"] = TheMain
  BY <1>6, <1>7
<1>9. \A j \in Task : h[j] = New => h2[j] = New
  <2>1. Asked(d, n) # New
    BY Stages
  <2> QED
    BY <2>1, <1>5, <1>6, <1>7
<1>10. SlotNames(h2)
  <2>1. \A id : Asked(d, n) # InSlot(id) /\ Asked(d, n + 1) # InSlot(id)
    BY Stages
  <2> QED
    BY <2>1, <1>5, <1>6, <1>7 DEF SlotNames, Named
<1>11. AskMove(h, h2, d, n, f, g)
  <2> SUFFICES ASSUME NEW j \in Task
               PROVE  /\ Asks(f, j) <=> h2[j] = Asked(d, n)
                      /\ Asks(g, j) <=> h2[j] = Asked(d, n + 1)
                      /\ \A c \in Contexts, i \in Pos : ~(c = d /\ i = n) /\ ~(c = d /\ i = n + 1) =>
                            (h2[j] = Asked(c, i) <=> h[j] = Asked(c, i))
    BY DEF AskMove
  <2>1. \A c, i : (Asked(c, i) = Asked(d, n) => c = d /\ i = n) /\ (Asked(c, i) = Asked(d, n + 1) => c = d /\ i = n + 1)
    BY Stages
  <2>2. (Asks(f, j) <=> j \in Range(e.list) /\ j # j0) /\ (Asks(g, j) <=> j = j0)
    BY <1>3 DEF Asks
  <2>3. (h[j] = Asked(d, n) <=> j \in Range(e.list)) /\ h[j] # Asked(d, n + 1)
    BY <1>1, <1>4, BlankHolds DEF Named
  <2>4. Asked(d, n) # Asked(d, n + 1)
    BY <2>1, <1>1
  <2>5. h2[j] = IF j = j0 THEN Asked(d, n + 1) ELSE h[j]
    BY <1>6, <1>7
  <2> QED
    BY <2>1, <2>2, <2>3, <2>4, <2>5, <1>5
<1>12. FutureMove(h2, d, n, f, g)
  <2>1. FrameFuture(h2, f) /\ FrameFuture(h2, g)
    BY <1>3 DEF FrameFuture
  <2> QED
    BY <2>1, <1>9, FramesKept DEF FutureMove
<1>13. JobsMove(h2)
  <2> SUFFICES ASSUME NEW j \in Task
               PROVE  /\ h2[j] # TheMain
                      /\ h2[j][1] \in {"new", "asked"} => begun'[j] = 0 /\ j \notin ended' /\ handle'[j] = NoHandle
                      /\ h2[j] = Gone => begun'[j] = 1 /\ j \in ended'
                      /\ begun'[j] = 0 => Unasked(h2, j, 1)
    BY DEF JobsMove, Named
  <2>1. /\ h[j] # TheMain
        /\ h[j][1] \in {"new", "asked"} => begun'[j] = 0 /\ j \notin ended' /\ handle'[j] = NoHandle
        /\ h[j] = Gone => begun'[j] = 1 /\ j \in ended'
        /\ begun'[j] = 0 => Unasked(h, j, 1)
    BY DEF Named
  <2>2. h2[j] = IF j = j0 THEN Asked(d, n + 1) ELSE h[j]
    BY <1>6, <1>7
  <2>3. j = j0 => h[j][1] = "asked" /\ h2[j][1] = "asked" /\ h2[j] # TheMain /\ h2[j] # Gone
    BY <2>2, <1>5, Stages
  <2>4. begun'[j] = 0 => Unasked(h2, j, 1)
    BY <2>1, <1>6, <1>9, UnaskedKept
  <2> QED
    BY <2>1, <2>2, <2>3, <2>4
<1> QED
  BY <1>3, <1>5, <1>7, <1>8, <1>10, <1>11, <1>12, <1>13, NamedMove

\* A slot gets a job: the one it had before is gone.
Renamed(h, h2, j0, id) ==
    h2 = [j \in Job |-> IF j = j0 THEN InSlot(id) ELSE IF h[j] = InSlot(id) THEN Gone ELSE h[j]]

\* allocate_slot gives the slot to the job and its former job's name is gone.
LEMMA NamedAlloc ==
    ASSUME Shapes, NEW w, Placed(w), NEW h, Named(h), UNCHANGED <<program, begun, ended, handle>>,
           NEW d, NEW n, NEW e, NEW f, Swap(d, n, e, f, Blank),
           e.k = "submit", e.id = 0, NEW j0 \in Task, e.job = j0, NEW id \in Id, w[id] = Unused,
           f.k = "submit", f.id = id, slots'[id].job = j0, \A y \in Id : y # id => slots'[y] = slots[y],
           NEW h2, Renamed(h, h2, j0, id)
    PROVE  Named(h2)' /\ h[j0] = Asked(d, n)
<1>1. d \in Contexts /\ n \in Pos /\ n + 1 \in Pos /\ n # n + 1 /\ FrameAt(d, n) = e /\ FrameAt(d, n + 1) = Blank
  BY DEF Swap, Pos
<1>2. \A j \in Task : Asks(e, j) <=> j = j0
  BY DEF Asks
<1>3. \A j \in Task : h[j] = Asked(d, n) <=> j = j0
  BY <1>1, <1>2 DEF Named
<1>4. h \in [Job -> Stage] /\ h["main"] = TheMain /\ Task \subseteq Job /\ "main" \in Job /\ "main" # j0
  BY Programmed DEF Named, Shapes, Task
<1>5. h[j0] = Asked(d, n) /\ h[j0] # InSlot(id) /\ TheMain # InSlot(id)
  BY <1>3, Stages
<1>6. \A j \in Job : h2[j] = IF j = j0 THEN InSlot(id) ELSE IF h[j] = InSlot(id) THEN Gone ELSE h[j]
  BY DEF Renamed
<1>7. h2 \in [Job -> Stage] /\ h2["main"] = TheMain
  BY <1>4, <1>5, <1>6, StageOf DEF Renamed
<1>8. \A j \in Task : h[j] = New => h2[j] = New
  <2>1. Asked(d, n) # New /\ InSlot(id) # New
    BY Stages
  <2> QED
    BY <2>1, <1>3, <1>4, <1>6
<1>9. SlotNames(h2)
  <2> SUFFICES ASSUME NEW u \in Id, NEW j \in Task PROVE slots'[u].job = j <=> h2[j] = InSlot(u)
    BY DEF SlotNames
  <2>1. slots[u].job = j <=> h[j] = InSlot(u)
    BY DEF Named
  <2>2. (InSlot(id) = InSlot(u) => id = u) /\ Gone # InSlot(u) /\ Asked(d, n) # InSlot(u)
    BY Stages
  <2>3. h2[j] = IF j = j0 THEN InSlot(id) ELSE IF h[j] = InSlot(id) THEN Gone ELSE h[j]
    BY <1>4, <1>6
  <2>4. CASE u = id
    <3>1. slots'[u].job = j <=> j = j0
      BY <2>4
    <3>2. h2[j] = InSlot(u) <=> j = j0
      BY <2>2, <2>3, <2>4
    <3> QED
      BY <3>1, <3>2
  <2>5. CASE u # id
    <3>1. slots'[u].job = j <=> h[j] = InSlot(u)
      BY <2>1, <2>5
    <3>2. h2[j] = InSlot(u) <=> h[j] = InSlot(u)
      BY <2>2, <2>3, <2>5, <1>5
    <3> QED
      BY <3>1, <3>2
  <2> QED
    BY <2>4, <2>5
<1>10. AskMove(h, h2, d, n, f, Blank)
  <2> SUFFICES ASSUME NEW j \in Task
               PROVE  /\ Asks(f, j) <=> h2[j] = Asked(d, n)
                      /\ Asks(Blank, j) <=> h2[j] = Asked(d, n + 1)
                      /\ \A c \in Contexts, i \in Pos : ~(c = d /\ i = n) /\ ~(c = d /\ i = n + 1) =>
                            (h2[j] = Asked(c, i) <=> h[j] = Asked(c, i))
    BY DEF AskMove
  <2>1. \A c, i : /\ Asked(c, i) = Asked(d, n) => c = d /\ i = n
                  /\ Asked(c, i) # InSlot(id) /\ Asked(c, i) # Gone
    BY Stages
  <2>2. ~Asks(f, j) /\ ~Asks(Blank, j)
    BY Sizes, BlankHolds DEF Asks
  <2>3. (h[j] = Asked(d, n) <=> j = j0) /\ h[j] # Asked(d, n + 1)
    BY <1>1, <1>3, BlankHolds DEF Named
  <2>4. h2[j] = IF j = j0 THEN InSlot(id) ELSE IF h[j] = InSlot(id) THEN Gone ELSE h[j]
    BY <1>4, <1>6
  <2> QED
    BY <2>1, <2>2, <2>3, <2>4
<1>11. FutureMove(h2, d, n, f, Blank)
  <2>1. FrameFuture(h2, f) /\ FrameFuture(h2, Blank)
    BY DEF FrameFuture, Blank
  <2> QED
    BY <2>1, <1>8, FramesKept DEF FutureMove
<1>12. JobsMove(h2)
  <2> SUFFICES ASSUME NEW j \in Task
               PROVE  /\ h2[j] # TheMain
                      /\ h2[j][1] \in {"new", "asked"} => begun'[j] = 0 /\ j \notin ended' /\ handle'[j] = NoHandle
                      /\ h2[j] = Gone => begun'[j] = 1 /\ j \in ended'
                      /\ begun'[j] = 0 => Unasked(h2, j, 1)
    BY DEF JobsMove, Named
  <2>1. /\ h[j] # TheMain
        /\ h[j][1] \in {"new", "asked"} => begun'[j] = 0 /\ j \notin ended' /\ handle'[j] = NoHandle
        /\ h[j] = Gone => begun'[j] = 1 /\ j \in ended'
        /\ begun'[j] = 0 => Unasked(h, j, 1)
    BY DEF Named
  <2>2. h2[j] = IF j = j0 THEN InSlot(id) ELSE IF h[j] = InSlot(id) THEN Gone ELSE h[j]
    BY <1>4, <1>6
  <2>3. h[j] = InSlot(id) => begun'[j] = 1 /\ j \in ended'
    <3> SUFFICES ASSUME h[j] = InSlot(id) PROVE begun[j] = 1 /\ j \in ended
      OBVIOUS
    <3>1. slots[id].job = j
      BY DEF Named
    <3>2. SlotOK(id, "unused")
      <4>1. w[id][1] = "unused"
        BY Tokens
      <4> QED
        BY <4>1 DEF Placed, Alive
    <3>3. slots[id].gen # 0
      <4>1. slots[id].gen = 0 => slots[id].job = None
        BY <3>2 DEF SlotOK, FreshSlot
      <4> QED
        BY <4>1, <3>1, Programmed DEF Shapes
    <3> QED
      BY <3>1, <3>2, <3>3 DEF SlotOK
  <2>4. begun'[j] = 0 => Unasked(h2, j, 1)
    BY <2>1, <1>4, <1>8, UnaskedKept
  <2>5. /\ Gone[1] = "gone" /\ InSlot(id)[1] = "slot" /\ Gone # TheMain /\ InSlot(id) # TheMain
        /\ InSlot(id) # Gone
    BY Stages
  <2> QED
    BY <2>1, <2>2, <2>3, <2>4, <2>5
<1> QED
  BY <1>5, <1>7, <1>9, <1>10, <1>11, <1>12, NamedMove

-----------------------------------------------------------------------------
\* Handles.  The parts of Handled.
HandleOK(h, j) ==
    \/ handle[j] = NoHandle
    \/ /\ handle[j].id \in Id
       /\ \/ h[j] = InSlot(handle[j].id) /\ handle[j].gen = slots[handle[j].id].gen
          \/ h[j] = Gone /\ handle[j].gen < slots[handle[j].id].gen
LapOK(id) == slots[id].gen # 0 => \E m \in 1..alloc-1 : SlotOf(m) = id /\ slots[id].gen = GenOf(m)
SubmitOK(f, hs) ==
    f.k = "submit" =>
        /\ hs[f.job] = NoHandle
        /\ f.dep # None => hs[f.dep] # NoHandle
        /\ f.pc = "link" => hs[f.dep].id # f.id

\* Handled by jobs, slots and frames.
LEMMA HandledParts ==
    ASSUME NEW h
    PROVE  Handled(h) <=> /\ \A j \in Job : HandleOK(h, j)
                          /\ \A id \in Id : LapOK(id)
                          /\ \A c \in Contexts, i \in Pos : SubmitOK(FrameAt(c, i), handle)
BY DEF Handled, HandleOK, LapOK, SubmitOK

\* The frames other than the two on top keep what they know.
SubmitsMove(d, n) ==
    \A c \in Contexts, i \in Pos : ~(c = d /\ i = n) /\ ~(c = d /\ i = n + 1) =>
        SubmitOK(FrameAt(c, i), handle')

\* The handles, when a step changes two frames.
LEMMA HandledMove ==
    ASSUME NEW h, UNCHANGED program, NEW d, NEW n, NEW e, NEW f, NEW g, Swap(d, n, e, f, g),
           \A j \in Job : HandleOK(h, j)', \A id \in Id : LapOK(id)',
           SubmitOK(f, handle'), SubmitOK(g, handle'), SubmitsMove(d, n)
    PROVE  Handled(h)'
<1>1. \A c \in Contexts, i \in Pos :
         FrameAt(c, i)' = IF c = d /\ i = n THEN f ELSE IF c = d /\ i = n + 1 THEN g ELSE FrameAt(c, i)
  BY DEF Swap, Stacked
<1>2. ASSUME NEW c \in Contexts, NEW i \in Pos
      PROVE  SubmitOK(FrameAt(c, i), handle)'
  <2>1. PICK x : x = FrameAt(c, i)'
    OBVIOUS
  <2>2. SubmitOK(x, handle')
    BY <2>1, <1>1 DEF SubmitsMove
  <2> QED
    BY <2>1, <2>2 DEF SubmitOK
<1>3. \A j \in Job' : HandleOK(h, j)'
  BY DEF Job
<1>4. Contexts' = Contexts /\ Pos' = Pos /\ Id' = Id
  BY DEF Contexts, Pos, Id
<1> QED
  BY <1>2, <1>3, <1>4 DEF Handled, HandleOK, LapOK, SubmitOK

\* No handle is returned and no slot taken.
LEMMA HandledQuiet ==
    ASSUME NEW h, Handled(h), NEW h2,
           \A j \in Job : h2[j] = h[j] \/ handle[j] = NoHandle,
           UNCHANGED <<program, alloc, handle>>, \A id \in Id : slots'[id].gen = slots[id].gen,
           NEW d, NEW n, NEW e, NEW f, NEW g, Swap(d, n, e, f, g),
           SubmitOK(f, handle), SubmitOK(g, handle)
    PROVE  Handled(h2)'
<1>1. ASSUME NEW j \in Job
      PROVE  HandleOK(h2, j)'
  <2>1. HandleOK(h, j)
    BY HandledParts
  <2> QED
    BY <2>1 DEF HandleOK
<1>2. ASSUME NEW id \in Id
      PROVE  LapOK(id)'
  <2>1. LapOK(id)
    BY HandledParts
  <2> QED
    BY <2>1 DEF LapOK
<1>3. SubmitsMove(d, n)
  BY HandledParts DEF SubmitsMove
<1> QED
  BY <1>1, <1>2, <1>3, HandledMove

\* The jobs that two calls submit are not the same.
LEMMA SubmitsApart ==
    ASSUME NEW w, Placed(w), NEW h, Named(h), Shapes,
           NEW c \in Contexts, NEW i \in Pos, NEW d \in Contexts, NEW n \in Pos,
           FrameAt(c, i).k = "submit", FrameAt(d, n).k = "submit",
           FrameAt(c, i).job = FrameAt(d, n).job
    PROVE  c = d /\ i = n
<1>1. PICK x, y : x = FrameAt(c, i) /\ y = FrameAt(d, n)
  OBVIOUS
<1>2. x \in SubmitFrame /\ y \in SubmitFrame
  BY <1>1, FrameAtIn, FrameKinds DEF Blank
<1>3. x.job \in Task /\ x.job = y.job /\ x.id \in {0} \cup Id /\ y.id \in {0} \cup Id
  BY <1>1, <1>2 DEF SubmitFrame
<1>4. /\ x.id = 0 => h[x.job] = Asked(c, i)
      /\ y.id = 0 => h[x.job] = Asked(d, n)
  BY <1>1, <1>3 DEF Named, Asks
<1>5. /\ x.id \in Id => w[x.id] = Held("submit", c, i) /\ x.job = slots[x.id].job
      /\ y.id \in Id => w[y.id] = Held("submit", d, n) /\ y.job = slots[y.id].job
  <2>1. Carried(w) /\ HolderOK(x) /\ HolderOK(y)
    BY <1>1 DEF Placed, Alive
  <2>2. x.job = slots[x.id].job \/ x.id = 0
    BY <2>1, <1>1 DEF HolderOK
  <2>3. y.job = slots[y.id].job \/ y.id = 0
    BY <2>1, <1>1 DEF HolderOK
  <2>4. "submit" \in Holders
    BY DEF Holders
  <2>5. x.id \in Id => w[x.id] = Held("submit", c, i)
    BY <2>1, <2>4, <1>1 DEF Carried, Holds
  <2>6. y.id \in Id => w[y.id] = Held("submit", d, n)
    BY <2>1, <2>4, <1>1 DEF Carried, Holds
  <2> QED
    BY <2>2, <2>3, <2>5, <2>6, Sizes
<1>6. /\ x.id \in Id => h[x.job] = InSlot(x.id)
      /\ y.id \in Id => h[x.job] = InSlot(y.id)
  BY <1>3, <1>5 DEF Named
<1> QED
  BY <1>3, <1>4, <1>5, <1>6, Stages, Tokens

\* submit() returns its handle.
LEMMA HandledSet ==
    ASSUME Shapes, NEW w, Placed(w), NEW h, Named(h), Handled(h),
           NEW d, NEW n, NEW e, Swap(d, n, e, Blank, Blank), e.k = "submit", e.id \in Id,
           NEW x, x = [id |-> e.id, gen |-> slots[e.id].gen], MoveTo(handle, handle', e.job, x),
           UNCHANGED <<program, alloc>>, \A id \in Id : slots'[id].gen = slots[id].gen
    PROVE  Handled(h)'
<1>1. d \in Contexts /\ n \in Pos /\ FrameAt(d, n) = e /\ e \in SubmitFrame
  BY FrameAtIn, FrameKinds DEF Swap, Blank
<1>2. e.job \in Task /\ e.job \in Job
  BY <1>1, Programmed DEF SubmitFrame, Shapes
<1>3. \A j \in Job : handle'[j] = IF j = e.job THEN x ELSE handle[j]
  BY <1>2 DEF Shapes, MoveTo
<1>4. h[e.job] = InSlot(e.id)
  <2>1. e.job = slots[e.id].job
    BY <1>1, Sizes DEF Placed, Alive, HolderOK
  <2> QED
    BY <2>1, <1>2 DEF Named
<1>5. handle[e.job] = NoHandle
  BY <1>1, HandledParts DEF SubmitOK
<1>6. ASSUME NEW j \in Job
      PROVE  HandleOK(h, j)'
  <2>1. HandleOK(h, j)
    BY HandledParts
  <2>2. x.id = e.id /\ x.gen = slots[e.id].gen
    OBVIOUS
  <2> QED
    BY <2>1, <2>2, <1>3, <1>4 DEF HandleOK
<1>7. ASSUME NEW id \in Id
      PROVE  LapOK(id)'
  <2>1. LapOK(id)
    BY HandledParts
  <2> QED
    BY <2>1 DEF LapOK
<1>8. SubmitsMove(d, n)
  <2> SUFFICES ASSUME NEW c \in Contexts, NEW i \in Pos, ~(c = d /\ i = n), NEW y, y = FrameAt(c, i), y.k = "submit"
               PROVE  SubmitOK(y, handle')
    BY DEF SubmitsMove, SubmitOK
  <2>1. SubmitOK(y, handle) /\ y \in SubmitFrame
    BY HandledParts, FrameAtIn, FrameKinds DEF Blank
  <2>2. y.job \in Job /\ (y.dep # None => y.dep \in Job) /\ (y.pc = "link" => y.dep # None)
    BY <2>1, Programmed DEF SubmitFrame, Shapes
  <2>3. y.job # e.job
    BY <1>1, SubmitsApart
  <2>4. x # NoHandle
    BY Sizes DEF NoHandle
  <2> QED
    BY <2>1, <2>2, <2>3, <2>4, <1>3, <1>5 DEF SubmitOK
<1>9. SubmitOK(Blank, handle')
  BY DEF SubmitOK, Blank
<1> QED
  BY <1>6, <1>7, <1>8, <1>9, HandledMove

\* Laps of the ring.
LEMMA Quotient == \A n \in Int, q \in Nat \ {0} : n \div q \in Int /\ n = q * (n \div q) + (n % q)
OBVIOUS

\* A product with a positive factor is monotonic.
LEMMA NextLap ==
    ASSUME NEW q \in Nat \ {0}, NEW a \in Int, NEW b \in Int, q * a < q * b
    PROVE  a < b
OBVIOUS

\* The slots come round: a later allocation of the same slot is of a later lap.
LEMMA LapsGrow ==
    ASSUME NEW a \in Nat, NEW b \in Nat, a < b, SlotOf(a) = SlotOf(b)
    PROVE  GenOf(a) < GenOf(b)
<1>1. JobPool \in Nat \ {0}
  BY Sizes
<1>2. a % JobPool \in Int /\ b % JobPool \in Int
  BY <1>1
<1>3. a % JobPool = b % JobPool
  BY <1>2 DEF SlotOf
<1> DEFINE u == a \div JobPool
           v == b \div JobPool
<1>4. u \in Int /\ v \in Int /\ a = JobPool * u + (a % JobPool) /\ b = JobPool * v + (b % JobPool)
  BY <1>1, Quotient
<1> HIDE DEF u, v
<1>5. JobPool * u \in Int /\ JobPool * v \in Int
  BY <1>1, <1>4
<1>6. JobPool * u < JobPool * v
  BY <1>2, <1>3, <1>4, <1>5
<1>7. u < v
  BY <1>1, <1>4, <1>6, NextLap
<1> QED
  BY <1>4, <1>7 DEF u, v, GenOf

\* The slot and the generation of an allocation are in range.
LEMMA LapTypes ==
    ASSUME NEW a \in Nat
    PROVE  SlotOf(a) \in Id /\ GenOf(a) \in Nat \ {0}
<1>1. JobPool \in Nat \ {0}
  BY Sizes
<1>2. a % JobPool \in 0..JobPool-1
  BY <1>1
<1>3. a \div JobPool \in Nat
  BY <1>1
<1> QED
  BY <1>1, <1>2, <1>3 DEF SlotOf, GenOf, Id

\* A slot is taken for a job.
LEMMA HandledAlloc ==
    ASSUME Shapes, NEW w, Placed(w), NEW h, Named(h), Handled(h), UNCHANGED <<program, handle>>,
           NEW d, NEW n, NEW e, NEW f, Swap(d, n, e, f, Blank),
           e.k = "submit", NEW id, id = SlotOf(alloc), alloc' = alloc + 1,
           f.k = "submit", f.job = e.job, f.dep = e.dep, f.pc # "link",
           slots'[id].gen = GenOf(alloc), \A y \in Id : y # id => slots'[y] = slots[y],
           NEW h2, Renamed(h, h2, e.job, id)
    PROVE  Handled(h2)'
<1>1. d \in Contexts /\ n \in Pos /\ FrameAt(d, n) = e /\ e \in SubmitFrame
  BY FrameAtIn, FrameKinds DEF Swap, Blank
<1>2. alloc \in Nat /\ id \in Id /\ GenOf(alloc) \in Nat \ {0}
  BY LapTypes DEF Shapes, Pos
<1>3. \A j \in Job : h2[j] = IF j = e.job THEN InSlot(id) ELSE IF h[j] = InSlot(id) THEN Gone ELSE h[j]
  BY DEF Renamed
<1>4. SubmitOK(e, handle)
  BY <1>1, HandledParts
<1>5. slots[id].gen \in Nat /\ slots[id].gen < GenOf(alloc)
  <2>1. slots[id].gen \in Nat
    BY <1>2 DEF Shapes, SlotShape
  <2>2. LapOK(id)
    BY <1>2, HandledParts
  <2>3. CASE slots[id].gen # 0
    <3>1. PICK m \in 1..alloc-1 : SlotOf(m) = id /\ slots[id].gen = GenOf(m)
      BY <2>2, <2>3 DEF LapOK
    <3>2. m \in Nat /\ m < alloc
      BY <1>2
    <3> QED
      BY <2>1, <3>1, <3>2, <1>2, LapsGrow
  <2> QED
    BY <2>1, <2>3, <1>2
<1>6. ASSUME NEW j \in Job
      PROVE  HandleOK(h2, j)'
  <2>1. HandleOK(h, j)
    BY HandledParts
  <2>2. j = e.job => handle[j] = NoHandle
    BY <1>4 DEF SubmitOK
  <2>3. handle[j] # NoHandle => handle[j].gen \in Nat /\ handle[j].id \in Id /\ slots[handle[j].id].gen \in Nat
    <3>1. handle[j] \in HandleShape
      BY DEF Shapes
    <3>2. handle[j] # NoHandle => handle[j].id \in Id
      BY <2>1 DEF HandleOK
    <3>3. \A y \in Id : slots[y].gen \in Nat
      BY DEF Shapes, SlotShape
    <3> QED
      BY <3>1, <3>2, <3>3 DEF HandleShape
  <2>4. CASE handle[j] # NoHandle /\ handle[j].id = id
    <3>1. h2[j] = Gone
      <4>1. Gone # InSlot(id)
        BY Stages
      <4> QED
        BY <4>1, <2>1, <2>2, <2>4, <1>3 DEF HandleOK
    <3>2. handle[j].gen <= slots[id].gen
      BY <2>1, <2>3, <2>4, <1>5 DEF HandleOK
    <3> QED
      BY <3>1, <3>2, <2>3, <2>4, <1>2, <1>5 DEF HandleOK
  <2>5. CASE handle[j] # NoHandle /\ handle[j].id # id
    <3>1. h2[j] = h[j]
      <4>1. \A y : InSlot(y) = InSlot(id) => y = id
        BY Stages
      <4>2. Gone # InSlot(id)
        BY Stages
      <4> QED
        BY <4>1, <4>2, <2>1, <2>2, <2>5, <1>3 DEF HandleOK
    <3> QED
      BY <3>1, <2>1, <2>3, <2>5 DEF HandleOK
  <2>6. CASE handle[j] = NoHandle
    BY <2>6 DEF HandleOK
  <2> QED
    BY <2>4, <2>5, <2>6
<1>7. ASSUME NEW y \in Id
      PROVE  LapOK(y)'
  <2>1. LapOK(y)
    BY HandledParts
  <2>2. \A m \in 1..alloc-1 : m \in 1..alloc'-1
    BY <1>2
  <2>3. alloc \in 1..alloc'-1
    BY <1>2 DEF Shapes, Pos
  <2>4. CASE y = id
    BY <2>3, <2>4 DEF LapOK
  <2>5. CASE y # id
    BY <2>1, <2>2, <2>5 DEF LapOK
  <2> QED
    BY <2>4, <2>5
<1>8. SubmitsMove(d, n)
  BY HandledParts DEF SubmitsMove
<1>9. SubmitOK(Blank, handle') /\ SubmitOK(f, handle')
  BY <1>4 DEF SubmitOK, Blank
<1> QED
  BY <1>6, <1>7, <1>8, <1>9, HandledMove

-----------------------------------------------------------------------------
\* The handles a job has.
Knows(j, n) == \A k \in Job : HasHandle(program, j, n, k) => handle[k] # NoHandle
KnowsNext(j, n) == \A k \in Job : HasHandle(program, j, n, k) => handle'[k] # NoHandle
HandlesStay == \A k \in Job : handle[k] # NoHandle => handle'[k] = handle[k]
Past(f, g) == IF g.k = "submit" THEN f.pc - 1 ELSE f.pc
KnowsAt(f, g) == f.k = "body" => Knows(f.job, Past(f, g))
KnowsAtNext(f, g) == f.k = "body" => KnowsNext(f.job, Past(f, g))

\* What the frames on top know, and the one below them.
KnownHere(d, n, f, g) ==
    /\ KnowsAtNext(f, g) /\ KnowsAtNext(g, Blank)
    /\ n - 1 \in Pos => KnowsAtNext(FrameAt(d, n - 1), f)
Given(h, k) == \A g \in program.given[k] : handle'[g] # NoHandle

\* The handles that jobs have, when a step hands out some and changes two frames.
LEMMA KnownMove ==
    ASSUME NEW h, Known(h), NEW h2, UNCHANGED program, HandlesStay, Shapes,
           \A k \in Task : h2[k] # New => h[k] # New \/ Given(h, k),
           NEW d, NEW n, NEW e, NEW f, NEW g, Swap(d, n, e, f, g), KnownHere(d, n, f, g)
    PROVE  Known(h2)'
<1>1. \A c \in Contexts, i \in Pos :
         FrameAt(c, i)' = IF c = d /\ i = n THEN f ELSE IF c = d /\ i = n + 1 THEN g ELSE FrameAt(c, i)
  BY DEF Swap, Stacked
<1>2. d \in Contexts /\ n \in Pos /\ FrameAt(d, n) = e /\ FrameAt(d, n + 1) = Blank
  BY DEF Swap
<1>3. ASSUME NEW c \in Contexts, NEW i \in Pos, NEW x, x = FrameAt(c, i)', x.k = "body",
             NEW y, y = FrameAt(c, i + 1)', NEW k \in Job, HasHandle(program, x.job, Past(x, y), k)
      PROVE  handle'[k] # NoHandle
  <2>1. i \in Nat /\ n \in Nat /\ i + 1 \in Pos
    BY <1>2 DEF Pos
  <2>2. CASE c = d /\ i = n
    <3>1. x = f /\ y = g
      BY <1>1, <1>2, <1>3, <2>1, <2>2
    <3> QED
      BY <3>1, <1>3 DEF KnownHere, KnowsAtNext, KnowsNext
  <2>3. CASE c = d /\ i = n + 1
    <3>1. x = g
      BY <1>1, <1>2, <1>3, <2>1, <2>3
    <3>2. y = Blank
      <4>1. FrameAt(d, i + 1) = Blank
        <5>1. Len(stack[d]) < i /\ Len(stack[d]) \in Nat
          BY <1>2, <2>1, <2>3, FrameAtIn DEF Shapes
        <5> QED
          BY <5>1, <2>1, <1>2, FrameAtIn
      <4> QED
        BY <4>1, <1>1, <1>2, <1>3, <2>1, <2>3
    <3> QED
      BY <3>1, <3>2, <1>3 DEF KnownHere, KnowsAtNext, KnowsNext
  <2>4. CASE c = d /\ i = n - 1
    <3>1. n - 1 \in Pos /\ x = FrameAt(d, n - 1) /\ y = f
      BY <1>1, <1>2, <1>3, <2>1, <2>4
    <3> QED
      BY <3>1, <1>3 DEF KnownHere, KnowsAtNext, KnowsNext
  <2>5. CASE ~(c = d /\ i = n) /\ ~(c = d /\ i = n + 1) /\ ~(c = d /\ i = n - 1)
    <3>1. x = FrameAt(c, i) /\ y = FrameAt(c, i + 1)
      BY <1>1, <1>3, <2>1, <2>5
    <3>2. handle[k] # NoHandle
      BY <3>1, <1>3 DEF Known, Past
    <3> QED
      BY <3>2 DEF HandlesStay
  <2> QED
    BY <2>2, <2>3, <2>4, <2>5
<1>4. ASSUME NEW k \in Task, h2[k] # New
      PROVE  \A g1 \in program.given[k] : handle'[g1] # NoHandle
  <2>1. CASE h[k] # New
    <3>1. \A g1 \in program.given[k] : handle[g1] # NoHandle /\ g1 \in Job
      BY <2>1, Programmed DEF Known, Shapes, Task
    <3> QED
      BY <3>1 DEF HandlesStay
  <2>2. CASE Given(h, k)
    BY <2>2 DEF Given
  <2> QED
    BY <1>4, <2>1, <2>2
<1>5. ASSUME NEW c \in Contexts, NEW i \in Pos
      PROVE  LET x == FrameAt(c, i)'
                 m == IF FrameAt(c, i + 1)'.k = "submit" THEN x.pc - 1 ELSE x.pc
             IN  x.k = "body" => \A k \in Job : HasHandle(program, x.job, m, k) => handle'[k] # NoHandle
  <2>1. PICK x, y : x = FrameAt(c, i)' /\ y = FrameAt(c, i + 1)'
    OBVIOUS
  <2>2. x.k = "body" => \A k \in Job : HasHandle(program, x.job, Past(x, y), k) => handle'[k] # NoHandle
    BY <1>3, <2>1
  <2> QED
    BY <2>1, <2>2 DEF Past
<1>6. Contexts' = Contexts /\ Pos' = Pos /\ Job' = Job /\ Task' = Task /\ program' = program
  BY DEF Contexts, Pos, Job, Task
<1> QED
  BY <1>4, <1>5, <1>6 DEF Known

\* The handles that a call adds.
LEMMA HandleMore ==
    ASSUME NEW p, NEW j, NEW a, NEW b, NEW k, HasHandle(p, j, a, k), \A m \in 1..a-1 : m \in 1..b-1 \/ m = b
    PROVE  HasHandle(p, j, b, k) \/ (p.calls[j][b].op = "submit" /\ p.calls[j][b].job = k)
BY DEF HasHandle

\* A call that submits nothing gives no handle.
LEMMA KnowsOn ==
    ASSUME Shapes, NEW j \in Job, NEW n \in Pos, n \in DOMAIN program.calls[j] => CallAt(j, n).op # "submit",
           n \in DOMAIN program.calls[j],
           Knows(j, n)
    PROVE  Knows(j, n + 1)
<1> SUFFICES ASSUME NEW k \in Job, HasHandle(program, j, n + 1, k) PROVE handle[k] # NoHandle
  BY DEF Knows
<1>1. \A m \in 1..(n + 1)-1 : m \in 1..n-1 \/ m = n
  BY DEF Pos
<1>2. HasHandle(program, j, n, k) \/ program.calls[j][n].op = "submit"
  BY <1>1, HandleMore
<1> QED
  BY <1>2 DEF Knows, CallAt

\* A job knows at the start what it was given.
LEMMA KnowsFirst ==
    ASSUME NEW h, Known(h), NEW j \in Task, h[j] # New
    PROVE  Knows(j, 1)
BY DEF Known, Knows, HasHandle

\* A call that returns has returned its handle.
LEMMA KnowsSubmitted ==
    ASSUME Shapes, NEW j \in Job, NEW n, n - 1 \in Pos, n - 1 \in DOMAIN program.calls[j], NEW k0,
           CallAt(j, n - 1).job = k0, Knows(j, n - 1), HandlesStay, handle'[k0] # NoHandle
    PROVE  KnowsNext(j, n)
<1> SUFFICES ASSUME NEW k \in Job, HasHandle(program, j, n, k) PROVE handle'[k] # NoHandle
  BY DEF KnowsNext
<1>1. \A m \in 1..n-1 : m \in 1..n-1-1 \/ m = n - 1
  BY DEF Pos
<1>2. CASE HasHandle(program, j, n - 1, k)
  BY <1>2 DEF Knows, HandlesStay
<1>3. CASE k = k0
  BY <1>3
<1>4. HasHandle(program, j, n - 1, k) \/ k = k0
  BY <1>1 DEF HasHandle, CallAt
<1> QED
  BY <1>2, <1>3, <1>4

\* A job keeps the handles it has.
LEMMA KnowsStays ==
    ASSUME HandlesStay, NEW j, NEW n, Knows(j, n)
    PROVE  KnowsNext(j, n)
BY DEF HandlesStay, Knows, KnowsNext

\* The part of Known about one frame.
LEMMA KnownFrames ==
    ASSUME NEW h, Known(h)
    PROVE  \A c \in Contexts, i \in Pos : KnowsAt(FrameAt(c, i), FrameAt(c, i + 1))
BY DEF Known, KnowsAt, Knows, Past

\* No handle is returned, and the frame on top stays as it is.
LEMMA KnownSame ==
    ASSUME NEW h, Known(h), UNCHANGED <<program, handle>>, Shapes,
           NEW d, NEW n, NEW e, NEW f, NEW g, Swap(d, n, e, f, g),
           f.k = "submit" <=> e.k = "submit", KnowsAt(f, g), KnowsAt(g, Blank)
    PROVE  KnownHere(d, n, f, g) /\ HandlesStay
<1>1. HandlesStay
  BY DEF HandlesStay
<1>2. \A x, y : KnowsAt(x, y) => KnowsAtNext(x, y)
  BY <1>1, KnowsStays DEF KnowsAt, KnowsAtNext
<1>3. n - 1 \in Pos => KnowsAt(FrameAt(d, n - 1), f)
  <2>1. n \in Pos /\ d \in Contexts /\ FrameAt(d, n) = e
    BY DEF Swap
  <2>2. n - 1 \in Pos => KnowsAt(FrameAt(d, n - 1), FrameAt(d, n - 1 + 1))
    BY <2>1, KnownFrames
  <2>3. n - 1 + 1 = n
    BY <2>1 DEF Pos
  <2>4. Past(FrameAt(d, n - 1), f) = Past(FrameAt(d, n - 1), e)
    BY DEF Past
  <2> QED
    BY <2>1, <2>2, <2>3, <2>4 DEF KnowsAt
<1> QED
  BY <1>1, <1>2, <1>3 DEF KnownHere

-----------------------------------------------------------------------------
\* Stacks: what stands on what.

\* What stands on what, for the handles hs.
InCallOf(hs, j, n, g) ==
    /\ n \in DOMAIN program.calls[j]
    /\ \/ /\ g.k = "submit" /\ CallAt(j, n).op = "submit" /\ g.group = None
          /\ g.job = CallAt(j, n).job /\ g.dep = CallAt(j, n).dep
       \/ g.k = "pfor" /\ CallAt(j, n).op = "pfor" /\ g.job = j
       \/ /\ g.k = "help" /\ CallAt(j, n).op = "wait"
          /\ g.until = hs[CallAt(j, n).job] /\ g.until # NoHandle
       \/ g.k = "help" /\ CallAt(j, n).op = "pfor" /\ g.until = [group |-> j]
       \/ g.k = "join" /\ CallAt(j, n).op = "stop"
AboveOf(hs, f, g) ==
    \/ g = Blank
    \/ f.k = "body" /\ f.pc > 1 /\ InCallOf(hs, f.job, f.pc - 1, g)
    \/ f.k = "pfor" /\ g.k = "submit" /\ g.group = f.job /\ g.dep = None
    \/ f.k \in {"help", "submit"} /\ g.k \in {"body", "finish"} /\ g.id # 0

\* f goes on where e was: the same call further on, or nothing.
Follows(e, f) ==
    \/ f = Blank
    \/ /\ f.k = e.k
       /\ e.k = "submit" => f.job = e.job /\ f.dep = e.dep /\ f.group = e.group
       /\ e.k = "pfor" => f.job = e.job
       /\ e.k = "help" => f.until = e.until
       /\ e.k \in {"body", "finish"} => f.id = e.id
       /\ e.k = "body" => f.job = e.job
    \/ e.k = "body" /\ f.k = "finish" /\ f.id = e.id /\ f.id # 0
    \/ e.k = "pfor" /\ f.k = "help" /\ f.until = [group |-> e.job]

\* Above with the handles as a parameter.
LEMMA AboveIs == \A f, g : AboveOf(handle, f, g) <=> Above(f, g)
BY DEF AboveOf, Above, InCallOf, InCall

\* What stood on a frame may stand on the frame that follows it.
LEMMA AboveFollows ==
    ASSUME NEW e, NEW f, Follows(e, f), e # Blank, NEW x, NEW hs, AboveOf(hs, x, e)
    PROVE  AboveOf(hs, x, f)
<1>1. CASE f = Blank
  BY <1>1 DEF AboveOf
<1>2. CASE f # Blank /\ x.k = "body" /\ x.pc > 1 /\ InCallOf(hs, x.job, x.pc - 1, e)
  <2>1. InCallOf(hs, x.job, x.pc - 1, f)
    BY <1>2 DEF InCallOf, Follows
  <2> QED
    BY <2>1, <1>2 DEF AboveOf
<1>3. CASE f # Blank /\ x.k = "pfor" /\ e.k = "submit" /\ e.group = x.job /\ e.dep = None
  BY <1>3 DEF Follows, AboveOf
<1>4. CASE f # Blank /\ x.k \in {"help", "submit"} /\ e.k \in {"body", "finish"} /\ e.id # 0
  BY <1>4 DEF Follows, AboveOf
<1> QED
  BY <1>1, <1>2, <1>3, <1>4 DEF AboveOf

\* What stands on a frame may stand there when more handles are known.
LEMMA AboveStays ==
    ASSUME Shapes, HandlesStay, NEW x \in Frame \cup {Blank}, NEW y, Above(x, y)
    PROVE  AboveOf(handle', x, y)
<1>1. AboveOf(handle, x, y)
  BY AboveIs
<1>2. CASE x.k = "body" /\ x.pc > 1 /\ InCallOf(handle, x.job, x.pc - 1, y)
  <2>1. x.job \in Job /\ x.pc - 1 \in DOMAIN program.calls[x.job]
    BY <1>2, FrameKinds DEF InCallOf, Blank, BodyFrame
  <2>2. CallAt(x.job, x.pc - 1).op = "wait" => CallAt(x.job, x.pc - 1).job \in Job
    BY <2>1, CallTypes DEF Task
  <2>3. InCallOf(handle', x.job, x.pc - 1, y)
    BY <2>2, <1>2 DEF InCallOf, HandlesStay
  <2> QED
    BY <2>3, <1>2 DEF AboveOf
<1> QED
  BY <1>1, <1>2 DEF AboveOf

\* The nesting of frames, when a step changes two frames.
LEMMA NestedMove ==
    ASSUME Shapes, Nested, UNCHANGED program, HandlesStay,
           NEW d, NEW n, NEW e, NEW f, NEW g, Swap(d, n, e, f, g),
           n - 1 \in Pos => Follows(e, f) /\ e # Blank, AboveOf(handle', f, g)
    PROVE  Nested'
<1>1. \A c \in Contexts, i \in Pos :
         FrameAt(c, i)' = IF c = d /\ i = n THEN f ELSE IF c = d /\ i = n + 1 THEN g ELSE FrameAt(c, i)
  BY DEF Swap, Stacked
<1>2. d \in Contexts /\ n \in Pos /\ FrameAt(d, n) = e /\ FrameAt(d, n + 1) = Blank
  BY DEF Swap
<1>3. ASSUME NEW c \in Contexts, NEW i \in Pos, NEW x, x = FrameAt(c, i)', NEW y, y = FrameAt(c, i + 1)'
      PROVE  AboveOf(handle', x, y)
  <2>1. i \in Nat /\ n \in Nat /\ i + 1 \in Pos
    BY <1>2 DEF Pos
  <2>2. CASE c = d /\ i = n
    <3>1. x = f /\ y = g
      BY <1>1, <1>2, <1>3, <2>1, <2>2
    <3> QED
      BY <3>1
  <2>3. CASE c = d /\ i = n + 1
    <3>1. y = Blank
      <4>1. FrameAt(d, i + 1) = Blank
        <5>1. Len(stack[d]) < i /\ Len(stack[d]) \in Nat
          BY <1>2, <2>1, <2>3, FrameAtIn DEF Shapes
        <5> QED
          BY <5>1, <2>1, <1>2, FrameAtIn
      <4> QED
        BY <4>1, <1>1, <1>2, <1>3, <2>1, <2>3
    <3> QED
      BY <3>1 DEF AboveOf
  <2>4. CASE c = d /\ i = n - 1
    <3>1. n - 1 \in Pos /\ x = FrameAt(d, n - 1) /\ y = f
      BY <1>1, <1>2, <1>3, <2>1, <2>4
    <3>2. Above(FrameAt(d, n - 1), e) /\ FrameAt(d, n - 1) \in Frame \cup {Blank}
      <4>1. Above(FrameAt(d, n - 1), FrameAt(d, n - 1 + 1))
        BY <3>1, <1>2 DEF Nested
      <4>2. n - 1 + 1 = n
        BY <2>1
      <4> QED
        BY <4>1, <4>2, <3>1, <1>2, FrameAtIn
    <3>3. AboveOf(handle', FrameAt(d, n - 1), e)
      BY <3>2, AboveStays
    <3> QED
      BY <3>1, <3>3, AboveFollows
  <2>5. CASE ~(c = d /\ i = n) /\ ~(c = d /\ i = n + 1) /\ ~(c = d /\ i = n - 1)
    <3>1. x = FrameAt(c, i) /\ y = FrameAt(c, i + 1)
      BY <1>1, <1>3, <2>1, <2>5
    <3>2. Above(x, y) /\ x \in Frame \cup {Blank}
      BY <3>1, FrameAtIn DEF Nested
    <3> QED
      BY <3>2, AboveStays
  <2> QED
    BY <2>2, <2>3, <2>4, <2>5
<1>4. ASSUME NEW c \in Contexts, NEW i \in Pos
      PROVE  Above(FrameAt(c, i), FrameAt(c, i + 1))'
  <2>1. PICK x, y : x = FrameAt(c, i)' /\ y = FrameAt(c, i + 1)'
    OBVIOUS
  <2>2. AboveOf(handle', x, y)
    BY <1>3, <2>1
  <2>3. \A j, m : InCallOf(handle', j, m, y) => InCall(j, m, FrameAt(c, i + 1))'
    BY <2>1 DEF InCallOf, InCall, CallAt
  <2>4. InCall(x.job, x.pc - 1, FrameAt(c, i + 1))'
            <=> InCall(FrameAt(c, i).job, FrameAt(c, i).pc - 1, FrameAt(c, i + 1))'
    BY <2>1
  <2>5. y = Blank => Above(FrameAt(c, i), FrameAt(c, i + 1))'
    BY <2>1 DEF Above, Blank
  <2>6. x.k = "body" /\ x.pc > 1 /\ InCallOf(handle', x.job, x.pc - 1, y)
            => Above(FrameAt(c, i), FrameAt(c, i + 1))'
    BY <2>1, <2>3, <2>4 DEF Above
  <2>7. \/ x.k = "pfor" /\ y.k = "submit" /\ y.group = x.job /\ y.dep = None
        \/ x.k \in {"help", "submit"} /\ y.k \in {"body", "finish"} /\ y.id # 0
        => Above(FrameAt(c, i), FrameAt(c, i + 1))'
    BY <2>1 DEF Above
  <2>8. \/ y = Blank
        \/ x.k = "body" /\ x.pc > 1 /\ InCallOf(handle', x.job, x.pc - 1, y)
        \/ x.k = "pfor" /\ y.k = "submit" /\ y.group = x.job /\ y.dep = None
        \/ x.k \in {"help", "submit"} /\ y.k \in {"body", "finish"} /\ y.id # 0
    BY <2>2 DEF AboveOf
  <2> QED
    BY <2>5, <2>6, <2>7, <2>8
<1> QED
  BY <1>4 DEF Nested, Contexts, Pos, Thread

-----------------------------------------------------------------------------
\* The frames that stacks start with.
FramesOK ==
    /\ \A c \in Contexts : Based(c)
    /\ \A c \in Contexts, i \in Pos :
          FrameAt(c, i).k = "body" /\ FrameAt(c, i).id = 0 =>
              c = External /\ i = 1 /\ FrameAt(c, i).job = "main"

BasedBy(c, f) ==
    f # Blank => IF c = External THEN f.k = "body" /\ f.id = 0 ELSE f.k \in {"body", "finish"} /\ f.id # 0

\* The bottom frames, when a step changes two frames.
LEMMA FramesMove ==
    ASSUME Shapes, FramesOK, NEW d, NEW n, NEW e, NEW f, NEW g, Swap(d, n, e, f, g),
           n = 1 => BasedBy(d, f),
           f.k = "body" /\ f.id = 0 => d = External /\ n = 1 /\ f.job = "main",
           ~(g.k = "body" /\ g.id = 0)
    PROVE  FramesOK'
<1>1. \A c \in Contexts, i \in Pos :
         FrameAt(c, i)' = IF c = d /\ i = n THEN f ELSE IF c = d /\ i = n + 1 THEN g ELSE FrameAt(c, i)
  BY DEF Swap, Stacked
<1>2. d \in Contexts /\ n \in Pos /\ n + 1 # 1 /\ 1 \in Pos
  BY DEF Swap, Pos
<1>3. ASSUME NEW c \in Contexts
      PROVE  Based(c)'
  <2>1. PICK x : x = FrameAt(c, 1)'
    OBVIOUS
  <2>2. BasedBy(c, FrameAt(c, 1))
    BY DEF FramesOK, Based, Busy, BasedBy
  <2>3. x = IF c = d /\ 1 = n THEN f ELSE FrameAt(c, 1)
    BY <1>1, <1>2, <2>1
  <2>4. BasedBy(c, x)
    BY <2>2, <2>3
  <2> QED
    BY <2>1, <2>4 DEF Based, Busy, BasedBy
<1>4. ASSUME NEW c \in Contexts, NEW i \in Pos
      PROVE  FrameAt(c, i)'.k = "body" /\ FrameAt(c, i)'.id = 0 =>
                 c = External /\ i = 1 /\ FrameAt(c, i)'.job = "main"
  BY <1>1, <1>2 DEF FramesOK
<1>5. Contexts' = Contexts /\ Pos' = Pos
  BY DEF Contexts, Pos, Thread
<1> QED
  BY <1>3, <1>4, <1>5 DEF FramesOK

\* A frame that goes on where e was.
LEMMA FramesFollow ==
    ASSUME Shapes, FramesOK, NEW d, NEW n, NEW e, NEW f, NEW g, Swap(d, n, e, f, g), e # Blank,
           Follows(e, f), ~(g.k = "body" /\ g.id = 0)
    PROVE  FramesOK'
<1>1. d \in Contexts /\ n \in Pos /\ FrameAt(d, n) = e
  BY DEF Swap
<1>2. n = 1 => BasedBy(d, e)
  BY <1>1 DEF FramesOK, Based, Busy, BasedBy
<1>3. e.k = "body" /\ e.id = 0 => d = External /\ n = 1 /\ e.job = "main"
  BY <1>1 DEF FramesOK
<1>4. n = 1 => BasedBy(d, f)
  BY <1>2 DEF BasedBy, Follows
<1>5. f.k = "body" /\ f.id = 0 => d = External /\ n = 1 /\ f.job = "main"
  BY <1>3 DEF Follows, Blank
<1> QED
  BY <1>4, <1>5, FramesMove

-----------------------------------------------------------------------------
\* Threads, fibers and whose stacks are busy.
SwitchOK ==
    /\ on[External] = External
    /\ \A v \in Worker : on[v] \in {v} \cup Fiber
    /\ ~Fibers => free = {} /\ resumable = <<>> /\ (\A v \in Worker : on[v] = v)
    /\ \A v \in Worker : on[v] # v => NothingPending(v) /\ ~Busy(v) /\ Busy(on[v])
    /\ \A v \in Worker : ~NothingPending(v) => ~Busy(v)
    /\ \A v \in exited : on[v] = v /\ NothingPending(v) /\ ~Busy(v)
    /\ \A f \in free : ~Busy(f)
    /\ \A v \in Worker : pending[v].kind = "recycle" => ~Busy(pending[v].fiber)
    /\ \A v \in Worker : pending[v].kind = "park" =>
          Busy(pending[v].fiber) /\ slots[pending[v].id].gen # 0

\* Stacks in two parts: where threads are, and what stacks start with.
LEMMA StacksParts == Stacks <=> SwitchOK /\ FramesOK
BY DEF Stacks, SwitchOK, FramesOK

\* The same of the next state.
LEMMA StacksPartsNext ==
    ASSUME SwitchOK', FramesOK'
    PROVE  Stacks'
BY StacksParts, PTL

GensKept == \A id \in Id : slots[id].gen # 0 => slots'[id].gen # 0

\* What a worker may have left to settle.
LEMMA PendingShapes ==
    ASSUME Shapes, NEW v \in Worker
    PROVE  /\ pending[v].kind \in {"none", "recycle", "park"}
           /\ ~NothingPending(v) => pending[v].fiber \in Fiber
           /\ pending[v].kind = "park" => pending[v].id \in Id
BY DEF Shapes, PendingShape, NothingPending

\* Its parts after a step.
LEMMA SwitchNext ==
    ASSUME on'[External] = External, \A v \in Worker : on'[v] \in {v} \cup Fiber,
           ~(Fibers)' => free' = {} /\ resumable' = <<>> /\ (\A v \in Worker : on'[v] = v),
           \A v \in Worker : \A x : x = on'[v] /\ x # v => NothingPending(v)' /\ ~Busy(v)' /\ Busy(x)',
           \A v \in Worker : ~NothingPending(v)' => ~Busy(v)',
           \A v \in exited' : on'[v] = v /\ NothingPending(v)' /\ ~Busy(v)',
           \A f \in free' : ~Busy(f)',
           \A v \in Worker : \A x : x = pending'[v].fiber /\ pending'[v].kind = "recycle" => ~Busy(x)',
           \A v \in Worker : \A x, y : x = pending'[v].fiber /\ y = pending'[v].id /\ pending'[v].kind = "park" =>
               Busy(x)' /\ slots'[y].gen # 0
    PROVE  SwitchOK'
BY DEF SwitchOK, Busy, FrameAt

\* No thread changes its stack, and the stacks that were busy are busy.
LEMMA SwitchQuiet ==
    ASSUME Shapes, SwitchOK, UNCHANGED <<program, on, pending, exited>>,
           free' \subseteq free, resumable = <<>> => (resumable' = <<>> \/ Fibers),
           \A c \in Worker \cup Fiber : Busy(c)' <=> Busy(c), GensKept
    PROVE  SwitchOK'
<1>1. \A v \in Worker : on[v] # v => on[v] \in Fiber
  BY DEF SwitchOK
<1>2. \A v \in Worker : NothingPending(v)' <=> NothingPending(v)
  BY DEF NothingPending
<1>3. \A v \in Worker : ~NothingPending(v) => pending[v].fiber \in Fiber
  BY PendingShapes
<1>4. \A v \in Worker : pending[v].kind = "park" => pending[v].id \in Id /\ ~NothingPending(v)
  BY PendingShapes DEF NothingPending
<1>5. \A v \in Worker : pending[v].kind = "recycle" => ~NothingPending(v)
  BY DEF NothingPending
<1>6. exited \subseteq Worker /\ free \subseteq Fiber
  BY DEF Shapes
<1>7. (Fibers)' = Fibers
  BY DEF Fibers
<1>8. ASSUME NEW v \in Worker, NEW x, x = pending[v].fiber, NEW y, y = pending[v].id, pending[v].kind = "park"
      PROVE  Busy(x)' /\ slots'[y].gen # 0
  BY <1>3, <1>4, <1>8 DEF SwitchOK, GensKept
<1>9. ASSUME NEW v \in Worker, NEW x, x = on[v], x # v
      PROVE  NothingPending(v)' /\ ~Busy(v)' /\ Busy(x)'
  BY <1>1, <1>2, <1>9 DEF SwitchOK
<1>10. ASSUME NEW v \in Worker, NEW x, x = pending[v].fiber, pending[v].kind = "recycle"
       PROVE  ~Busy(x)'
  BY <1>3, <1>5, <1>10 DEF SwitchOK
<1>11. \A v \in Worker : ~NothingPending(v)' => ~Busy(v)'
  BY <1>2 DEF SwitchOK
<1>12. \A v \in exited' : on'[v] = v /\ NothingPending(v)' /\ ~Busy(v)'
  BY <1>2, <1>6 DEF SwitchOK
<1>13. \A f \in free' : ~Busy(f)'
  BY <1>6 DEF SwitchOK
<1>14. ~(Fibers)' => free' = {} /\ resumable' = <<>> /\ (\A v \in Worker : on'[v] = v)
  BY <1>7 DEF SwitchOK
<1>15. on'[External] = External /\ \A v \in Worker : on'[v] \in {v} \cup Fiber
  BY DEF SwitchOK
<1> QED
  BY <1>8, <1>9, <1>10, <1>11, <1>12, <1>13, <1>14, <1>15, SwitchNext

\* The stack d becomes or ceases to be busy only when n = 1.
LEMMA BusyStays ==
    ASSUME NEW d, NEW n, NEW e, NEW f, NEW g, Swap(d, n, e, f, g),
           n = 1 => (f # Blank <=> e # Blank) \/ d = External
    PROVE  \A c \in Contexts \ {External} : Busy(c)' <=> Busy(c)
<1>1. \A c \in Contexts : Busy(c)' <=> IF c = d /\ n = 1 THEN f # Blank ELSE Busy(c)
  BY BusyAfter
<1>2. FrameAt(d, n) = e
  BY DEF Swap
<1> QED
  BY <1>1, <1>2 DEF Busy

-----------------------------------------------------------------------------
\* What a frame on top says of its stack.
LEMMA TopBusy ==
    ASSUME Shapes, NEW t, NEW d, NEW n, NEW e, OnTop(t, d, n, e)
    PROVE  Busy(d)
<1>1. d \in Contexts /\ n \in Pos /\ FrameAt(d, n) = e /\ e # Blank
  BY FrameKinds DEF OnTop
<1>2. n \in 1..Len(stack[d]) /\ Len(stack[d]) \in Nat
  BY <1>1, FrameAtIn DEF Shapes
<1>3. ~(Len(stack[d]) < 1) /\ 1 \in Pos
  BY <1>2 DEF Pos
<1> QED
  BY <1>1, <1>3, FrameAtIn DEF Busy

\* A frame that is not the first of its stack is that of a call; none is above it.
LEMMA LiveSlots ==
    ASSUME NEW w, Placed(w), NEW id \in Id, w[id] # Unused
    PROVE  live > 0
<1>1. id \in InUse(w) /\ IsFiniteSet(InUse(w)) /\ live = Cardinality(InUse(w))
  BY InUseIs DEF InUse, Placed
<1>2. Cardinality(InUse(w)) # 0
  BY <1>1, FS_EmptySet
<1> QED
  BY <1>1, <1>2, FS_CardinalityType

\* A busy stack other than main's is that of a live job.
LEMMA BusyLive ==
    ASSUME Shapes, FramesOK, NEW w, Placed(w), NEW c \in Contexts, c # External, Busy(c)
    PROVE  live > 0
<1>1. PICK x : x = FrameAt(c, 1)
  OBVIOUS
<1>2. x.k \in {"body", "finish"} /\ x.id # 0 /\ x # Blank /\ 1 \in Pos
  BY <1>1 DEF FramesOK, Based, Busy, Pos
<1>3. x.id \in Id
  <2>1. x \in Frame
    BY <1>1, <1>2, FrameAtIn
  <2> QED
    BY <2>1, <1>2, FrameKinds DEF BodyFrame, FinishFrame
<1>4. w[x.id] = Held(x.k, c, 1)
  BY <1>1, <1>2, <1>3 DEF Placed, Carried, Holds, Holders
<1>5. w[x.id] # Unused
  BY <1>2, <1>4, Tokens
<1> QED
  BY <1>3, <1>5, LiveSlots

\* Once a worker has left, and on main's stack once stop() was called, only the
\* end of main is still to come.
LEMMA OnlyMainLeft ==
    ASSUME Shapes, Stopped, FramesOK, SwitchOK, NEW w, Placed(w),
           NEW t \in Thread, NEW d, NEW n, NEW e, OnTop(t, d, n, e),
           exited # {} \/ (stopping /\ d = External)
    PROVE  /\ d = External /\ stopping
           /\ (e.k = "body" /\ e.pc > Len(program.calls["main"])) \/ e.k = "join"
<1>1. d = External
  <2>1. d # External => live > 0
    BY TopBusy, BusyLive DEF OnTop
  <2> QED
    BY <2>1 DEF Stopped, Shapes
<1>2. stopping
  BY DEF Stopped
<1>3. n \in Pos /\ FrameAt(External, n) = e /\ e # Blank
  BY <1>1, FrameKinds DEF OnTop
<1>4. n = 1 => e.k = "body"
  BY <1>3 DEF FramesOK, Based, Busy, Contexts, Thread
<1>5. \/ n = 1 /\ e.pc > Len(program.calls["main"])
      \/ n = 2 /\ e.k = "join"
  BY <1>2, <1>3 DEF Stopped
<1> QED
  BY <1>1, <1>2, <1>4, <1>5

\* Nothing is left after stop(), when a step changes two frames.
LEMMA StoppedMove ==
    ASSUME Stopped, UNCHANGED <<program, stopping, exited>>, live' = live \/ exited = {},
           NEW d, NEW n, NEW e, NEW f, NEW g, Swap(d, n, e, f, g),
           d = External /\ stopping => f = Blank /\ g = Blank
    PROVE  Stopped'
<1>1. \A c \in Contexts, i \in Pos :
         FrameAt(c, i)' = IF c = d /\ i = n THEN f ELSE IF c = d /\ i = n + 1 THEN g ELSE FrameAt(c, i)
  BY DEF Swap, Stacked
<1>2. External \in Contexts
  BY Sizes
<1>3. ASSUME stopping, NEW i \in Pos
      PROVE  \/ FrameAt(External, i)' = Blank
             \/ i = 1 /\ FrameAt(External, i)'.pc > Len(program.calls["main"])
             \/ i = 2 /\ FrameAt(External, i)'.k = "join"
  <2>1. FrameAt(External, i)' = FrameAt(External, i) \/ FrameAt(External, i)' = Blank
    BY <1>1, <1>2, <1>3
  <2> QED
    BY <2>1, <1>3 DEF Stopped
<1> QED
  BY <1>3 DEF Stopped, Pos

-----------------------------------------------------------------------------
\* parallel_for().  The parts of Counted.
Counts(r) ==
    /\ r \in [Task -> Job \cup {None}]
    /\ \A j \in Job : IsFiniteSet(ChunksOf(r, j)) /\ remaining[j] = Cardinality(ChunksOf(r, j))

CountFrame(r, f, g, S) ==
    /\ f.k = "pfor" => \A k \in Range(f.list) : r[k] = f.job
    /\ f.k = "submit" /\ f.group # None => r[f.job] = f.group
    /\ f.k = "body" => \A j \in Job : Looping(g, j) =>
          \A k \in Range(CallAt(j, f.pc - 1).chunks) : r[k] = j \/ k \in S
CountFrames(r) == \A c \in Contexts, i \in Pos : CountFrame(r, FrameAt(c, i), FrameAt(c, i + 1), ended)
CountSlots(w, r) ==
    \A id \in Id :
          /\ w[id] # Unused /\ slots[id].group # None
          /\ \A c \in Contexts, i \in Pos :
                Holds(FrameAt(c, i), "finish", id) => FrameAt(c, i).pc # "live"
          => r[slots[id].job] = slots[id].group
Loops(r) == \A k \in Task : r[k] # None => \E c \in Contexts, i \in Pos : Looping(FrameAt(c, i), r[k])

\* Counted in parts: the counters, the frames, the slots and the loops.
LEMMA CountedParts ==
    ASSUME NEW w, NEW h, NEW r
    PROVE  Counted(w, h, r) <=> /\ Counts(r) /\ CountFrames(r) /\ CountSlots(w, r) /\ Loops(r)
                                /\ \A k \in Task : h[k] = New => r[k] = None
<1>1. Counted(w, h, r) => Counts(r)
  BY DEF Counted, Counts
<1>2. Counted(w, h, r) => CountFrames(r)
  BY DEF Counted, CountFrames, CountFrame
<1>3. Counted(w, h, r) => CountSlots(w, r) /\ Loops(r) /\ \A k \in Task : h[k] = New => r[k] = None
  BY DEF Counted, CountSlots, Loops
<1>4. ASSUME Counts(r), CountFrames(r), CountSlots(w, r), Loops(r), \A k \in Task : h[k] = New => r[k] = None
      PROVE  Counted(w, h, r)
  BY <1>4 DEF Counted, Counts, CountFrames, CountFrame, CountSlots, Loops
<1> QED
  BY <1>1, <1>2, <1>3, <1>4

\* The same of the next state.
LEMMA CountedPartsNext ==
    ASSUME NEW w, NEW h, NEW r, Counts(r)', CountFrames(r)', CountSlots(w, r)', Loops(r)',
           UNCHANGED program, \A k \in Task : h[k] = New => r[k] = None
    PROVE  Counted(w, h, r)'
<1>1. (\A k \in Task : h[k] = New => r[k] = None)'
  BY DEF Task, Job
<1> QED
  BY <1>1, CountedParts, PTL

\* Only a loop that submits its chunks or waits for them counts them.
LEMMA LoopingIs ==
    /\ \A j : ~Looping(Blank, j)
    /\ \A f, j : f.k \notin {"pfor", "help"} => ~Looping(f, j)
BY DEF Looping, Blank

\* The frames after a step.
CountsOn(r2, d, n, e, f, g) ==
    /\ \A c \in Contexts, i \in Pos : ~(c = d /\ i = n) /\ ~(c = d /\ i = n + 1) =>
          CountFrame(r2, FrameAt(c, i), FrameAt(c, i + 1), ended')
    /\ CountFrame(r2, f, g, ended') /\ CountFrame(r2, g, Blank, ended')
    /\ \A j \in Job : Looping(f, j) => Looping(e, j)

\* The chunks that frames stand for, when a step changes two frames.
LEMMA CountFramesMove ==
    ASSUME Shapes, NEW r, NEW r2, CountFrames(r), UNCHANGED program,
           NEW d, NEW n, NEW e, NEW f, NEW g, Swap(d, n, e, f, g), CountsOn(r2, d, n, e, f, g)
    PROVE  CountFrames(r2)'
<1>1. \A c \in Contexts, i \in Pos :
         FrameAt(c, i)' = IF c = d /\ i = n THEN f ELSE IF c = d /\ i = n + 1 THEN g ELSE FrameAt(c, i)
  BY DEF Swap, Stacked
<1>2. d \in Contexts /\ n \in Pos /\ FrameAt(d, n) = e /\ FrameAt(d, n + 1) = Blank
  BY DEF Swap
<1>3. ASSUME NEW c \in Contexts, NEW i \in Pos, NEW x, x = FrameAt(c, i)', NEW y, y = FrameAt(c, i + 1)'
      PROVE  CountFrame(r2, x, y, ended')
  <2>1. i \in Nat /\ n \in Nat /\ i + 1 \in Pos
    BY <1>2 DEF Pos
  <2>2. CASE c = d /\ i = n
    <3>1. x = f /\ y = g
      BY <1>1, <1>2, <1>3, <2>1, <2>2
    <3> QED
      BY <3>1 DEF CountsOn
  <2>3. CASE c = d /\ i = n + 1
    <3>1. x = g
      BY <1>1, <1>2, <1>3, <2>1, <2>3
    <3>2. y = Blank
      <4>1. FrameAt(d, i + 1) = Blank
        <5>1. Len(stack[d]) < i /\ Len(stack[d]) \in Nat
          BY <1>2, <2>1, <2>3, FrameAtIn DEF Shapes
        <5> QED
          BY <5>1, <2>1, <1>2, FrameAtIn
      <4> QED
        BY <4>1, <1>1, <1>2, <1>3, <2>1, <2>3
    <3> QED
      BY <3>1, <3>2 DEF CountsOn
  <2>4. CASE c = d /\ i = n - 1
    <3>1. x = FrameAt(d, i) /\ y = f /\ i + 1 = n
      BY <1>1, <1>2, <1>3, <2>1, <2>4
    <3>3. CountFrame(r2, FrameAt(d, i), e, ended')
      BY <3>1, <1>2, <2>1, <2>4 DEF CountsOn
    <3>4. CountFrame(r2, FrameAt(d, i), f, ended')
      BY <3>3 DEF CountsOn, CountFrame
    <3> QED
      BY <3>1, <3>4
  <2>5. CASE ~(c = d /\ i = n) /\ ~(c = d /\ i = n + 1) /\ ~(c = d /\ i = n - 1)
    <3>1. x = FrameAt(c, i) /\ y = FrameAt(c, i + 1)
      BY <1>1, <1>3, <2>1, <2>5
    <3> QED
      BY <3>1, <2>5 DEF CountsOn
  <2> QED
    BY <2>2, <2>3, <2>4, <2>5
<1>4. ASSUME NEW c \in Contexts, NEW i \in Pos
      PROVE  CountFrame(r2, FrameAt(c, i), FrameAt(c, i + 1), ended)'
  <2>1. PICK x, y : x = FrameAt(c, i)' /\ y = FrameAt(c, i + 1)'
    OBVIOUS
  <2>2. CountFrame(r2, x, y, ended')
    BY <1>3, <2>1
  <2> QED
    BY <2>1, <2>2 DEF CountFrame, CallAt, Looping, Job
<1> QED
  BY <1>4 DEF CountFrames, Contexts, Pos, Thread

\* The slots after a step: what is counted was counted before, or is now.
SlotsOn(w, w2, r, r2, e, f) ==
    \A id \in Id : w2[id] # Unused /\ slots'[id].group # None =>
        \/ r2[slots'[id].job] = slots'[id].group
        \/ Holds(f, "finish", id) /\ f.pc = "live"
        \/ /\ w[id] # Unused /\ slots'[id].group = slots[id].group /\ slots'[id].job = slots[id].job
           /\ r2[slots[id].job] = r[slots[id].job]
           /\ ~(Holds(e, "finish", id) /\ e.pc = "live")

\* The chunks that slots stand for, when a step moves some slots.
LEMMA CountSlotsMove ==
    ASSUME NEW w, NEW w2, NEW r, NEW r2, CountSlots(w, r), UNCHANGED program,
           NEW d, NEW n, NEW e, NEW f, NEW g, Swap(d, n, e, f, g), SlotsOn(w, w2, r, r2, e, f)
    PROVE  CountSlots(w2, r2)'
<1>1. \A c \in Contexts, i \in Pos :
         FrameAt(c, i)' = IF c = d /\ i = n THEN f ELSE IF c = d /\ i = n + 1 THEN g ELSE FrameAt(c, i)
  BY DEF Swap, Stacked
<1>2. d \in Contexts /\ n \in Pos /\ n + 1 # n /\ n + 1 \in Pos /\ FrameAt(d, n) = e /\ FrameAt(d, n + 1) = Blank
  BY DEF Swap, Pos
<1>3. ASSUME NEW id \in Id, w2[id] # Unused, slots'[id].group # None,
             \A c \in Contexts, i \in Pos : Holds(FrameAt(c, i)', "finish", id) => FrameAt(c, i)'.pc # "live"
      PROVE  r2[slots'[id].job] = slots'[id].group
  <2>1. ~(Holds(f, "finish", id) /\ f.pc = "live")
    BY <1>1, <1>2, <1>3
  <2>2. CASE /\ w[id] # Unused /\ slots'[id].group = slots[id].group /\ slots'[id].job = slots[id].job
             /\ r2[slots[id].job] = r[slots[id].job]
             /\ ~(Holds(e, "finish", id) /\ e.pc = "live")
    <3>1. ASSUME NEW c \in Contexts, NEW i \in Pos, Holds(FrameAt(c, i), "finish", id)
          PROVE  FrameAt(c, i).pc # "live"
      <4>1. ~Holds(Blank, "finish", id)
        BY DEF Holds, Blank
      <4> QED
        BY <4>1, <3>1, <1>1, <1>2, <1>3, <2>2
    <3> QED
      BY <3>1, <2>2, <1>3 DEF CountSlots
  <2> QED
    BY <2>1, <2>2, <1>3 DEF SlotsOn
<1>4. Contexts' = Contexts /\ Pos' = Pos
  BY DEF Contexts, Pos, Thread
<1>5. ASSUME NEW id \in Id, w2[id] # Unused, slots'[id].group # None,
             \A c \in Contexts, i \in Pos : (Holds(FrameAt(c, i), "finish", id) => FrameAt(c, i).pc # "live")'
      PROVE  r2[slots'[id].job] = slots'[id].group
  <2>1. \A c \in Contexts, i \in Pos : Holds(FrameAt(c, i)', "finish", id) => FrameAt(c, i)'.pc # "live"
    BY <1>5 DEF Holds
  <2> QED
    BY <2>1, <1>3, <1>5
<1> QED
  BY <1>4, <1>5 DEF CountSlots, Unused

\* The loops that still count, when a step changes two frames.
LEMMA LoopsMove ==
    ASSUME NEW r, NEW r2, Loops(r), UNCHANGED program, Counts(r),
           NEW d, NEW n, NEW e, NEW f, NEW g, Swap(d, n, e, f, g),
           \A k \in Task : r2[k] # None =>
               \/ r2[k] = r[k] /\ (Looping(e, r[k]) => Looping(f, r[k]) \/ Looping(g, r[k]))
               \/ Looping(g, r2[k])
    PROVE  Loops(r2)'
<1>1. \A c \in Contexts, i \in Pos :
         FrameAt(c, i)' = IF c = d /\ i = n THEN f ELSE IF c = d /\ i = n + 1 THEN g ELSE FrameAt(c, i)
  BY DEF Swap, Stacked
<1>2. d \in Contexts /\ n \in Pos /\ n + 1 # n /\ n + 1 \in Pos /\ FrameAt(d, n) = e /\ FrameAt(d, n + 1) = Blank
  BY DEF Swap, Pos
<1>3. ASSUME NEW k \in Task, r2[k] # None
      PROVE  \E c \in Contexts, i \in Pos : Looping(FrameAt(c, i)', r2[k])
  <2>1. CASE Looping(g, r2[k])
    BY <2>1, <1>1, <1>2
  <2>2. CASE r2[k] = r[k] /\ (Looping(e, r[k]) => Looping(f, r[k]) \/ Looping(g, r[k]))
    <3>1. PICK c \in Contexts, i \in Pos : Looping(FrameAt(c, i), r[k])
      BY <1>3, <2>2 DEF Loops
    <3>2. ~(c = d /\ i = n + 1)
      BY <3>1, <1>2, LoopingIs
    <3>3. CASE c = d /\ i = n
      <4>1. Looping(f, r[k]) \/ Looping(g, r[k])
        BY <3>1, <3>3, <2>2, <1>2
      <4> QED
        BY <4>1, <2>2, <1>1, <1>2
    <3>4. CASE ~(c = d /\ i = n)
      <4>1. FrameAt(c, i)' = FrameAt(c, i)
        BY <3>2, <3>4, <1>1
      <4> QED
        BY <4>1, <3>1, <2>2
    <3> QED
      BY <3>3, <3>4
  <2> QED
    BY <1>3, <2>1, <2>2
<1>4. ASSUME NEW k \in Task, r2[k] # None
      PROVE  \E c \in Contexts, i \in Pos : Looping(FrameAt(c, i), r2[k])'
  BY <1>3, <1>4 DEF Looping
<1>5. Contexts' = Contexts /\ Pos' = Pos /\ Task' = Task
  BY DEF Contexts, Pos, Thread, Task, Job
<1> QED
  BY <1>4, <1>5 DEF Loops

\* A step that takes no slot and gives none back counts the same.
LEMMA SlotsOnSame ==
    ASSUME NEW w, NEW w2, NEW r, NEW e, NEW f,
           \A id \in Id : /\ slots'[id].group = slots[id].group /\ slots'[id].job = slots[id].job
                          /\ w2[id] # Unused => w[id] # Unused,
           ~(e.k = "finish" /\ e.pc = "live")
    PROVE  SlotsOn(w, w2, r, r, e, f)
BY DEF SlotsOn, Holds

\* No counter changes, and no loop ends that still counts a job.
CountedHere(r, e, f, g) ==
    /\ CountFrame(r, f, g, ended') /\ CountFrame(r, g, Blank, ended')
    /\ \A j \in Job : Looping(f, j) => Looping(e, j)
    /\ \A j \in Job : Looping(e, j) => Looping(f, j) \/ ChunksOf(r, j) = {}

\* A step that counts nothing down keeps the counts.
LEMMA CountedQuiet ==
    ASSUME Shapes, NEW w, NEW h, NEW r, Counted(w, h, r), UNCHANGED <<program, remaining>>, ended \subseteq ended',
           NEW d, NEW n, NEW e, NEW f, NEW g, Swap(d, n, e, f, g), CountedHere(r, e, f, g),
           NEW w2, SlotsOn(w, w2, r, r, e, f),
           NEW h2, \A k \in Task : h2[k] = New => h[k] = New
    PROVE  Counted(w2, h2, r)'
<1>1. /\ Counts(r) /\ CountFrames(r) /\ CountSlots(w, r) /\ Loops(r)
      /\ \A k \in Task : h[k] = New => r[k] = None
  BY CountedParts
<1>2. CountsOn(r, d, n, e, f, g)
  BY <1>1 DEF CountedHere, CountsOn, CountFrame, CountFrames
<1>3. CountFrames(r)'
  BY <1>1, <1>2, CountFramesMove
<1>4. CountSlots(w2, r)'
  BY <1>1, CountSlotsMove
<1>5. Counts(r)'
  BY <1>1 DEF Counts, ChunksOf, Task, Job
<1>6. Loops(r)'
  <2>1. ASSUME NEW k \in Task, r[k] # None
        PROVE  Looping(e, r[k]) => Looping(f, r[k])
    <3>1. r[k] \in Job
      BY <1>1, <2>1 DEF Counts
    <3>2. k \in ChunksOf(r, r[k])
      BY DEF ChunksOf
    <3> QED
      BY <3>1, <3>2 DEF CountedHere
  <2> QED
    BY <2>1, <1>1, LoopsMove
<1>7. \A k \in Task : h2[k] = New => r[k] = None
  BY <1>1
<1> QED
  BY <1>3, <1>4, <1>5, <1>6, <1>7, CountedPartsNext

\* A queue without repetition has as many elements as places.
LEMMA CountDistinct ==
    ASSUME NEW S, NEW q \in Seq(S), Distinct(q)
    PROVE  IsFiniteSet(Range(q)) /\ Cardinality(Range(q)) = Len(q)
<1>1. q \in [1..Len(q) -> Range(q)] /\ DOMAIN q = 1..Len(q)
  BY DEF Range
<1>2. q \in Surjection(1..Len(q), Range(q))
  BY <1>1 DEF Surjection, Range
<1>3. q \in Injection(1..Len(q), Range(q))
  <2>1. \A a, b \in 1..Len(q) : q[a] = q[b] => a = b
    BY <1>1 DEF Distinct
  <2> QED
    BY <1>1, <2>1 DEF Injection, IsInjective
<1>4. ExistsBijection(1..Len(q), Range(q))
  BY <1>2, <1>3 DEF Bijection, ExistsBijection
<1>5. Len(q) \in Nat
  OBVIOUS
<1> QED
  BY <1>4, <1>5, FS_CountingElements, FS_NatBijection

\* A loop of job j stands on the body of j.
LEMMA LoopBelow ==
    ASSUME Shapes, Nested, FramesOK, NEW c \in Contexts, NEW i \in Pos, NEW j \in Job,
           Looping(FrameAt(c, i), j)
    PROVE  /\ i - 1 \in Pos /\ FrameAt(c, i - 1).k = "body" /\ FrameAt(c, i - 1).job = j
           /\ FrameAt(c, i - 1).pc - 1 \in DOMAIN program.calls[j]
           /\ CallAt(j, FrameAt(c, i - 1).pc - 1).op = "pfor"
<1>1. PICK x : x = FrameAt(c, i)
  OBVIOUS
<1>2. x.k \in {"pfor", "help"} /\ x # Blank
  BY <1>1 DEF Looping, Blank
<1>3. i # 1
  BY <1>1, <1>2 DEF FramesOK, Based, Busy
<1>4. i - 1 \in Pos /\ i - 1 + 1 = i
  BY <1>3 DEF Pos
<1>5. PICK y : y = FrameAt(c, i - 1)
  OBVIOUS
<1>6. Above(y, x)
  <2>1. Above(FrameAt(c, i - 1), FrameAt(c, i - 1 + 1))
    BY <1>4 DEF Nested
  <2> QED
    BY <2>1, <1>1, <1>4, <1>5
<1>7. y.k = "body" /\ InCall(y.job, y.pc - 1, x)
  BY <1>2, <1>6 DEF Above
<1>8. x.k = "pfor" => y.job = j
  BY <1>1, <1>7 DEF InCall, Looping
<1>9. x.k = "help" => y.job = j
  <2> SUFFICES ASSUME x.k = "help" PROVE y.job = j
    OBVIOUS
  <2>1. x.until = [group |-> j]
    BY <1>1 DEF Looping
  <2>2. x.until # handle[CallAt(y.job, y.pc - 1).job] \/ CallAt(y.job, y.pc - 1).op # "wait"
    <3> SUFFICES ASSUME CallAt(y.job, y.pc - 1).op = "wait" PROVE x.until # handle[CallAt(y.job, y.pc - 1).job]
      OBVIOUS
    <3>1. y.job \in Job /\ y.pc - 1 \in DOMAIN program.calls[y.job]
      BY <1>4, <1>5, <1>7, FrameAtIn, FrameKinds DEF InCall, Blank, BodyFrame
    <3>2. CallAt(y.job, y.pc - 1).job \in Job
      BY <3>1, CallTypes DEF Task
    <3>3. handle[CallAt(y.job, y.pc - 1).job] \in HandleShape
      BY <3>2 DEF Shapes
    <3> QED
      BY <3>3, <2>1 DEF HandleShape
  <2>3. x.until = [group |-> y.job]
    BY <1>7, <2>2 DEF InCall
  <2> QED
    BY <2>1, <2>3
<1>10. CallAt(y.job, y.pc - 1).op = "pfor" /\ y.pc - 1 \in DOMAIN program.calls[y.job]
  <2> SUFFICES ASSUME x.k = "help", CallAt(y.job, y.pc - 1).op = "wait" PROVE FALSE
    BY <1>2, <1>7 DEF InCall
  <2>1. x.until = [group |-> j]
    BY <1>1 DEF Looping
  <2>2. x.until = handle[CallAt(y.job, y.pc - 1).job]
    BY <1>7 DEF InCall
  <2>3. CallAt(y.job, y.pc - 1).job \in Job
    <3>1. y.job \in Job /\ y.pc - 1 \in DOMAIN program.calls[y.job]
      BY <1>4, <1>5, <1>7, FrameAtIn, FrameKinds DEF InCall, Blank, BodyFrame
    <3> QED
      BY <3>1, CallTypes DEF Task
  <2>4. handle[CallAt(y.job, y.pc - 1).job] \in HandleShape
    BY <2>3 DEF Shapes
  <2> QED
    BY <2>1, <2>2, <2>4 DEF HandleShape
<1> QED
  BY <1>2, <1>4, <1>5, <1>7, <1>8, <1>9, <1>10

Grouped(r, r2, S, j) == r2 = [k \in Task |-> IF k \in S THEN j ELSE r[k]]

\* A parallel_for() begins: it counts its chunks.
LEMMA CountedLoop ==
    ASSUME Shapes, Stacks, Nested, NEW w, Placed(w), NEW h, Named(h), NEW r, Counted(w, h, r),
           UNCHANGED <<program, slots, ended>>,
           NEW d, NEW n, NEW e, NEW f, NEW g, Swap(d, n, e, f, g), e.k = "body", f.k = "body", f.job = e.job,
           f.pc = e.pc + 1, e.pc \in DOMAIN program.calls[e.job],
           NEW list, list = CallAt(e.job, e.pc).chunks, CallAt(e.job, e.pc).op = "pfor",
           g.k = "pfor", g.job = e.job, g.list = list,
           MoveTo(remaining, remaining', e.job, Len(list)),
           NEW h2, \A k \in Task : h2[k] = New => h[k] = New /\ k \notin Range(list),
           \A k \in Range(list) : h[k] = New,
           NEW r2, Grouped(r, r2, Range(list), e.job)
    PROVE  Counted(w, h2, r2)'
<1>1. /\ Counts(r) /\ CountFrames(r) /\ CountSlots(w, r) /\ Loops(r)
      /\ \A k \in Task : h[k] = New => r[k] = None
  BY CountedParts
<1>2. d \in Contexts /\ n \in Pos /\ FrameAt(d, n) = e /\ FrameAt(d, n + 1) = Blank /\ n + 1 \in Pos
  BY DEF Swap, Pos
<1>3. e.job \in Job /\ e.pc \in Pos
  BY <1>2, FrameAtIn, FrameKinds DEF Blank, BodyFrame
<1>4. list \in Seq(Task) /\ Distinct(list) /\ Range(list) \subseteq Task
  <2>1. list \in Seq(Task)
    BY <1>3, CallTypes
  <2>2. Uses(program, e.job, e.pc)
    BY <1>3, CallTypes
  <2>3. Distinct(list)
    BY <2>2 DEF Uses, Distinct, CallAt
  <2> QED
    BY <2>1, <2>3 DEF Range
<1>5. \A k \in Task : r2[k] = IF k \in Range(list) THEN e.job ELSE r[k]
  BY DEF Grouped
<1>6. \A k \in Range(list) : r[k] = None /\ k \in Task
  BY <1>1, <1>4
<1>7. ChunksOf(r, e.job) = {}
  <2> SUFFICES ASSUME NEW k \in Task, r[k] = e.job PROVE FALSE
    BY DEF ChunksOf
  <2>1. r[k] # None
    BY <1>3, Programmed DEF Shapes
  <2>2. PICK c \in Contexts, i \in Pos : Looping(FrameAt(c, i), e.job)
    BY <2>1, <1>1 DEF Loops
  <2>3. i - 1 \in Pos /\ FrameAt(c, i - 1).k = "body" /\ FrameAt(c, i - 1).job = e.job
    BY <2>2, <1>3, LoopBelow, StacksParts
  <2>4. JobsApart
    BY NamesApart
  <2>5. c = d /\ i - 1 = n
    BY <2>3, <2>4, <1>2, BodiesApart
  <2>6. i = n + 1
    BY <2>5, <1>2 DEF Pos
  <2> QED
    BY <2>2, <2>5, <2>6, <1>2, LoopingIs
<1>8. Counts(r2)'
  <2>1. r2 \in [Task -> Job \cup {None}]
    BY <1>1, <1>3, <1>5 DEF Counts, Grouped
  <2>2. ASSUME NEW j \in Job
        PROVE  IsFiniteSet(ChunksOf(r2, j)) /\ remaining'[j] = Cardinality(ChunksOf(r2, j))
    <3>1. CASE j = e.job
      <4>1. ChunksOf(r2, j) = Range(list)
        BY <3>1, <1>4, <1>5, <1>7 DEF ChunksOf
      <4>2. remaining'[j] = Len(list)
        BY <3>1, <1>3 DEF MoveTo, Shapes
      <4> QED
        BY <4>1, <4>2, <1>4, CountDistinct
    <3>2. CASE j # e.job
      <4>1. j # None
        BY Programmed DEF Shapes
      <4>2. ChunksOf(r2, j) = ChunksOf(r, j)
        BY <3>2, <4>1, <1>5, <1>6 DEF ChunksOf
      <4>3. remaining'[j] = remaining[j]
        BY <3>2, <1>3 DEF MoveTo, Shapes
      <4> QED
        BY <4>2, <4>3, <1>1 DEF Counts
    <3> QED
      BY <3>1, <3>2
  <2> QED
    BY <2>1, <2>2 DEF Counts, ChunksOf, Task, Job
<1>9. CountFrames(r2)'
  <2>0. e.job # None /\ \A j \in Job : j # None
    BY <1>3, Programmed DEF Shapes
  <2>1. ASSUME NEW c \in Contexts, NEW i \in Pos, NEW x, x = FrameAt(c, i),
               NEW y, y = FrameAt(c, i + 1), CountFrame(r, x, y, ended)
        PROVE  CountFrame(r2, x, y, ended')
    <3>1. x.k = "pfor" => x.job \in Job /\ x.list \in Seq(Task)
      BY <2>1, FrameAtIn, FrameKinds DEF Blank, ChunkFrame
    <3>2. x.k = "submit" => x.job \in Task /\ x.group \in Job \cup {None}
      BY <2>1, FrameAtIn, FrameKinds DEF Blank, SubmitFrame
    <3>3. x.k = "body" => x.job \in Job
      BY <2>1, FrameAtIn, FrameKinds DEF Blank, BodyFrame
    <3>4. \A k \in Task : r[k] # None => r2[k] = r[k]
      BY <1>5, <1>6
    <3>5. x.k = "pfor" => \A k \in Range(x.list) : r2[k] = x.job
      <4> SUFFICES ASSUME x.k = "pfor", NEW k \in Range(x.list) PROVE r2[k] = x.job
        OBVIOUS
      <4>1. r[k] = x.job /\ k \in Task
        BY <2>1, <3>1 DEF CountFrame, Range
      <4> QED
        BY <4>1, <3>1, <3>4, <2>0
    <3>6. x.k = "submit" /\ x.group # None => r2[x.job] = x.group
      BY <2>1, <3>2, <3>4 DEF CountFrame
    <3>7. x.k = "body" => \A j \in Job : Looping(y, j) =>
             \A k \in Range(CallAt(j, x.pc - 1).chunks) : r[k] = j \/ k \in ended
      BY <2>1 DEF CountFrame
    <3>8. ASSUME x.k = "body", NEW j \in Job, Looping(y, j)
          PROVE  \A k \in Range(CallAt(j, x.pc - 1).chunks) : r2[k] = j \/ k \in ended
      <4>1. i + 1 \in Pos /\ i + 1 - 1 = i
        BY DEF Pos
      <4>2. x.job = j /\ x.pc - 1 \in DOMAIN program.calls[j] /\ CallAt(j, x.pc - 1).op = "pfor"
        <5>1. PICK m : m = i + 1
          OBVIOUS
        <5>2. Looping(FrameAt(c, m), j) /\ m \in Pos /\ m - 1 = i
          <6>1. y = FrameAt(c, m)
            BY <2>1, <5>1
          <6>2. m \in Pos /\ m - 1 = i
            BY <5>1 DEF Pos
          <6> QED
            BY <6>1, <6>2, <3>8
        <5>3. FrameAt(c, m - 1).job = j /\ FrameAt(c, m - 1).pc - 1 \in DOMAIN program.calls[j]
              /\ CallAt(j, FrameAt(c, m - 1).pc - 1).op = "pfor"
          BY <5>2, LoopBelow, StacksParts
        <5> QED
          BY <2>1, <5>2, <5>3
      <4>3. Range(CallAt(j, x.pc - 1).chunks) \subseteq Task
        BY <4>2, CallTypes DEF Range
      <4> QED
        BY <3>4, <3>7, <3>8, <4>3, <2>0
    <3> QED
      BY <3>5, <3>6, <3>8 DEF CountFrame
  <2>2. CountFrame(r2, g, Blank, ended')
    BY <1>5, <1>6 DEF CountFrame
  <2>3. CountFrame(r2, f, g, ended')
    <3>1. f.pc - 1 = e.pc
      BY <1>3 DEF Pos
    <3>2. ASSUME NEW j \in Job, Looping(g, j)
          PROVE  \A k \in Range(CallAt(j, f.pc - 1).chunks) : r2[k] = j \/ k \in ended'
      <4>1. j = e.job
        BY <3>2 DEF Looping
      <4> QED
        BY <4>1, <3>1, <1>5, <1>6
    <3> QED
      BY <3>2 DEF CountFrame
  <2>4. \A j : ~Looping(f, j)
    BY LoopingIs
  <2>5. CountsOn(r2, d, n, e, f, g)
    BY <1>1, <2>1, <2>2, <2>3, <2>4 DEF CountsOn, CountFrames
  <2> QED
    BY <2>5, <1>1, CountFramesMove
<1>10. CountSlots(w, r2)'
  <2>1. SlotsOn(w, w, r, r2, e, f)
    <3>1. ASSUME NEW id \in Id, w[id] # Unused
          PROVE  r2[slots[id].job] = r[slots[id].job]
      <4>1. slots[id].job \in Task
        <5>1. SlotOK(id, w[id][1]) /\ w[id] \in Token
          BY DEF Placed, Alive
        <5>2. w[id][1] # "unused"
          BY <5>1, <3>1, TokenTags
        <5> QED
          BY <5>1, <5>2 DEF SlotOK
      <4>2. h[slots[id].job] = InSlot(id)
        BY <4>1 DEF Named
      <4>3. slots[id].job \notin Range(list)
        BY <4>2, Stages
      <4> QED
        BY <4>1, <4>3, <1>5
    <3> QED
      BY <3>1 DEF SlotsOn, Holds
  <2> QED
    BY <2>1, <1>1, CountSlotsMove
<1>11. Loops(r2)'
  <2>1. Looping(g, e.job) /\ \A j : ~Looping(e, j)
    BY LoopingIs DEF Looping
  <2> QED
    BY <2>1, <1>1, <1>5, LoopsMove
<1>12. \A k \in Task : h2[k] = New => r2[k] = None
  BY <1>1, <1>5
<1> QED
  BY <1>8, <1>9, <1>10, <1>11, <1>12, CountedPartsNext

-----------------------------------------------------------------------------
\* Dependent jobs.

\* A finite set less one member.
LEMMA CardLess ==
    ASSUME NEW S, IsFiniteSet(S), NEW x \in S
    PROVE  IsFiniteSet(S \ {x}) /\ Cardinality(S \ {x}) = Cardinality(S) - 1
BY FS_RemoveElement

CountDown(g) == remaining' = IF g = None THEN remaining ELSE [remaining EXCEPT ![g] = @ - 1]

\* A job that finishes is counted no longer.
LEMMA CountedDown ==
    ASSUME Shapes, NEW w, Placed(w), NEW h, Named(h), NEW r, Counted(w, h, r),
           UNCHANGED <<program, slots, ended>>,
           NEW d, NEW n, NEW e, NEW f, Swap(d, n, e, f, Blank), e.k = "finish", e.id \in Id, e.pc = "group",
           f.k = "finish", f.id = e.id, f.pc = "live",
           NEW q, q = slots[e.id].group, q # None, CountDown(q),
           NEW k0, k0 = slots[e.id].job, NEW r2, MoveTo(r, r2, k0, None)
    PROVE  Counted(w, h, r2)'
<1>1. /\ Counts(r) /\ CountFrames(r) /\ CountSlots(w, r) /\ Loops(r)
      /\ \A k \in Task : h[k] = New => r[k] = None
  BY CountedParts
<1>2. d \in Contexts /\ n \in Pos /\ FrameAt(d, n) = e /\ FrameAt(d, n + 1) = Blank /\ n + 1 \in Pos
  BY DEF Swap, Pos
<1>3. /\ w[e.id] = Held("finish", d, n) /\ SlotOK(e.id, "finish") /\ slots[e.id].gen # 0
  BY HeldBy DEF Holders
<1>4. k0 \in Task /\ k0 \in ended /\ h[k0] = InSlot(e.id)
  <2>1. k0 \in Task /\ k0 \in ended
    BY <1>3 DEF SlotOK
  <2> QED
    BY <2>1 DEF Named
<1>5. w[e.id] # Unused
  BY <1>3, Tokens
<1>6. q \in Job
  BY DEF Shapes, SlotShape
<1>7. r[k0] = q
  <2>1. ASSUME NEW c \in Contexts, NEW i \in Pos, Holds(FrameAt(c, i), "finish", e.id)
        PROVE  FrameAt(c, i).pc # "live"
    <3>1. w[e.id] = Held("finish", c, i)
      BY <2>1 DEF Placed, Carried, Holders
    <3>2. c = d /\ i = n
      BY <3>1, <1>3, Tokens
    <3> QED
      BY <3>2, <1>2
  <2> QED
    BY <2>1, <1>1, <1>5 DEF CountSlots
<1>8. r2 \in [Task -> Job \cup {None}] /\ \A k \in Task : r2[k] = IF k = k0 THEN None ELSE r[k]
  BY <1>1, <1>4 DEF Counts, MoveTo
<1>9. Counts(r2)'
  <2>1. ASSUME NEW j \in Job
        PROVE  IsFiniteSet(ChunksOf(r2, j)) /\ remaining'[j] = Cardinality(ChunksOf(r2, j))
    <3>0. j # None
      BY Programmed DEF Shapes
    <3>1. IsFiniteSet(ChunksOf(r, j)) /\ remaining[j] = Cardinality(ChunksOf(r, j))
      BY <1>1 DEF Counts
    <3>2. CASE j = q
      <4>1. ChunksOf(r2, j) = ChunksOf(r, j) \ {k0} /\ k0 \in ChunksOf(r, j)
        BY <3>0, <3>2, <1>4, <1>7, <1>8 DEF ChunksOf
      <4>2. remaining'[j] = remaining[j] - 1
        BY <3>2, <1>6 DEF CountDown, Shapes
      <4> QED
        BY <4>1, <4>2, <3>1, CardLess
    <3>3. CASE j # q
      <4>1. ChunksOf(r2, j) = ChunksOf(r, j)
        BY <3>0, <3>3, <1>4, <1>7, <1>8 DEF ChunksOf
      <4>2. remaining'[j] = remaining[j]
        BY <3>3, <1>6 DEF CountDown, Shapes
      <4> QED
        BY <4>1, <4>2, <3>1
    <3> QED
      BY <3>2, <3>3
  <2> QED
    BY <2>1, <1>8 DEF Counts, ChunksOf, Task, Job
<1>10. CountFrames(r2)'
  <2>1. ASSUME NEW c \in Contexts, NEW i \in Pos, NEW x, x = FrameAt(c, i),
               NEW y, y = FrameAt(c, i + 1), CountFrame(r, x, y, ended)
        PROVE  CountFrame(r2, x, y, ended')
    <3>1. ASSUME x.k = "pfor", NEW k \in Range(x.list)
          PROVE  r2[k] = x.job
      <4>1. x.list \in Seq(Task)
        BY <2>1, <3>1, FrameAtIn, FrameKinds DEF Blank, ChunkFrame
      <4>2. k \in Task
        BY <3>1, <4>1 DEF Range
      <4>3. h[k] = Asked(c, i)
        BY <4>2, <2>1, <3>1 DEF Named, Asks
      <4>4. k # k0
        BY <4>3, <1>4, Stages
      <4>5. r[k] = x.job
        BY <2>1, <3>1 DEF CountFrame
      <4> QED
        BY <4>2, <4>4, <4>5, <1>8
    <3>2. ASSUME x.k = "submit", x.group # None
          PROVE  r2[x.job] = x.group
      <4>1. x.job \in Task /\ x.id \in {0} \cup Id
        BY <2>1, <3>2, FrameAtIn, FrameKinds DEF Blank, SubmitFrame
      <4>2. CASE x.id = 0
        <5>1. h[x.job] = Asked(c, i)
          BY <4>1, <4>2, <2>1, <3>2 DEF Named, Asks
        <5>2. x.job # k0
          BY <5>1, <1>4, Stages
        <5> QED
          BY <5>2, <4>1, <2>1, <3>2, <1>8 DEF CountFrame
      <4>3. CASE x.id \in Id
        <5>1. w[x.id] = Held("submit", c, i)
          BY <4>3, <2>1, <3>2 DEF Placed, Carried, Holders, Holds
        <5>2. x.id # e.id
          BY <5>1, <1>3, Tokens
        <5>3. HolderOK(x)
          BY <2>1 DEF Placed, Alive
        <5>4. x.job = slots[x.id].job
          BY <5>3, <3>2, <4>3, Sizes DEF HolderOK
        <5>5. x.job # k0
          BY <5>2, <5>4, <4>1, <4>3, NamesApart DEF JobsApart
        <5> QED
          BY <5>5, <4>1, <2>1, <3>2, <1>8 DEF CountFrame
      <4> QED
        BY <4>1, <4>2, <4>3
    <3>3. ASSUME x.k = "body", NEW j \in Job, Looping(y, j), NEW k \in Range(CallAt(j, x.pc - 1).chunks)
          PROVE  r2[k] = j \/ k \in ended
      <4>1. r[k] = j \/ k \in ended
        BY <2>1, <3>3 DEF CountFrame
      <4>2. CASE k = k0
        BY <4>2, <1>4
      <4>3. CASE k # k0
        BY <4>1, <4>3 DEF MoveTo
      <4> QED
        BY <4>2, <4>3
    <3> QED
      BY <3>1, <3>2, <3>3 DEF CountFrame
  <2>2. CountFrame(r2, f, Blank, ended') /\ CountFrame(r2, Blank, Blank, ended')
    BY DEF CountFrame, Blank
  <2>3. \A j : ~Looping(f, j)
    BY LoopingIs
  <2>4. CountsOn(r2, d, n, e, f, Blank)
    BY <1>1, <2>1, <2>2, <2>3 DEF CountsOn, CountFrames
  <2> QED
    BY <2>4, <1>1, CountFramesMove
<1>11. CountSlots(w, r2)'
  <2>1. ASSUME NEW id \in Id, w[id] # Unused, id # e.id
        PROVE  r2[slots[id].job] = r[slots[id].job]
    <3>1. slots[id].job \in Task
      <4>1. SlotOK(id, w[id][1]) /\ w[id] \in Token
        BY DEF Placed, Alive
      <4>2. w[id][1] # "unused"
        BY <4>1, <2>1, TokenTags
      <4> QED
        BY <4>1, <4>2 DEF SlotOK
    <3>2. slots[id].job # k0
      BY <3>1, <2>1, NamesApart DEF JobsApart
    <3> QED
      BY <3>1, <3>2, <1>8
  <2>2. SlotsOn(w, w, r, r2, e, f)
    BY <2>1 DEF SlotsOn, Holds
  <2> QED
    BY <2>2, <1>1, CountSlotsMove
<1>12. Loops(r2)'
  <2>1. \A j : ~Looping(e, j)
    BY LoopingIs
  <2> QED
    BY <2>1, <1>1, <1>8, LoopsMove
<1>13. \A k \in Task : h[k] = New => r2[k] = None
  BY <1>1, <1>8
<1> QED
  BY <1>9, <1>10, <1>11, <1>12, <1>13, CountedPartsNext

\* A handle that is complete is that of a job that has ended.
LEMMA CompleteEnded ==
    ASSUME Shapes, NEW w, Placed(w), NEW h, Named(h), Handled(h),
           NEW j \in Task, handle[j] # NoHandle, IsComplete(handle[j])
    PROVE  j \in ended
<1>1. PICK x : x = handle[j]
  OBVIOUS
<1>2. HandleOK(h, j) /\ j \in Job
  BY HandledParts, Programmed DEF Shapes
<1>3. x.id \in Id /\ ((h[j] = InSlot(x.id) /\ x.gen = slots[x.id].gen) \/ h[j] = Gone)
  BY <1>1, <1>2 DEF HandleOK
<1>4. CASE h[j] = Gone
  BY <1>4 DEF Named
<1>5. CASE h[j] = InSlot(x.id) /\ x.gen = slots[x.id].gen
  <2>1. IsClosed(x.id)
    BY <1>1, <1>3, <1>5, Sizes DEF IsComplete, IsClosed
  <2>2. slots[x.id].job = j
    BY <1>3, <1>5 DEF Named
  <2>3. SlotOK(x.id, w[x.id][1])
    BY <1>3 DEF Placed, Alive
  <2>4. slots[x.id].gen # 0
    <3>1. slots[x.id].gen = 0 => slots[x.id].dependents = 0
      BY <2>3 DEF SlotOK, FreshSlot
    <3> QED
      BY <3>1, <2>1, Sizes DEF IsClosed
  <2> QED
    BY <2>1, <2>2, <2>3, <2>4 DEF SlotOK
<1> QED
  BY <1>3, <1>4, <1>5

\* The slot that a handle names, and whose it is.
LEMMA HandleSlot ==
    ASSUME NEW h, Named(h), Handled(h), NEW j \in Task, Task \subseteq Job, handle[j] # NoHandle
    PROVE  /\ handle[j].id \in Id
           /\ j \in ended \/ slots[handle[j].id].job = j
           /\ h[j] = InSlot(handle[j].id) \/ h[j] = Gone
<1>1. HandleOK(h, j)
  BY HandledParts
<1> QED
  BY <1>1 DEF HandleOK, Named

\* A slot that is closed or shut is that of a job that has ended.
LEMMA ClosedEnded ==
    ASSUME NEW w, Placed(w), NEW id \in Id, slots[id].gen # 0,
           IsClosed(id) \/ IsShut(id) \/ w[id][1] \in {"finish", "unused"}
    PROVE  slots[id].job \in ended
BY DEF Placed, Alive, SlotOK

-----------------------------------------------------------------------------
\* The parts of Depended.
DepSlot(w, h, k, v) ==
    /\ h[k] = Gone => v \in ended
    /\ \A id \in Id : h[k] = InSlot(id) =>
          /\ w[id][1] \notin {"submit", "list"} => v \in ended
          /\ \A x \in Id : w[id] = OnList(x) => v \in ended \/ slots[x].job = v
DepFrame(f, k, v, S) ==
    /\ f.k = "submit" /\ f.job = k => f.dep = v /\ (f.pc = "ready" => v \in S)
    /\ f.k = "pfor" => k \notin Range(f.list)

\* Depended by slots and frames.
LEMMA DependedParts ==
    ASSUME NEW w, NEW h
    PROVE  Depended(w, h) <=>
               \A k, v \in Task : Depends(k, v) =>
                   /\ DepSlot(w, h, k, v)
                   /\ \A c \in Contexts, i \in Pos : DepFrame(FrameAt(c, i), k, v, ended)
BY DEF Depended, DepSlot, DepFrame

FrameDeps(f) == \A k, v \in Task : Depends(k, v) => DepFrame(f, k, v, ended')
SlotDeps(w, h) == \A k, v \in Task : Depends(k, v) => DepSlot(w, h, k, v)'

\* The order of dependent jobs, when a step changes two frames.
LEMMA DependedMove ==
    ASSUME NEW w, NEW h, Depended(w, h), ended \subseteq ended', UNCHANGED program,
           NEW d, NEW n, NEW e, NEW f, NEW g, Swap(d, n, e, f, g), FrameDeps(f), FrameDeps(g),
           NEW w2, NEW h2, SlotDeps(w2, h2)
    PROVE  Depended(w2, h2)'
<1>1. \A c \in Contexts, i \in Pos :
         FrameAt(c, i)' = IF c = d /\ i = n THEN f ELSE IF c = d /\ i = n + 1 THEN g ELSE FrameAt(c, i)
  BY DEF Swap, Stacked
<1>2. ASSUME NEW k \in Task, NEW v \in Task, Depends(k, v), NEW c \in Contexts, NEW i \in Pos
      PROVE  DepFrame(FrameAt(c, i), k, v, ended)'
  <2>1. PICK x : x = FrameAt(c, i)'
    OBVIOUS
  <2>2. DepFrame(FrameAt(c, i), k, v, ended)
    BY <1>2, DependedParts
  <2>3. DepFrame(FrameAt(c, i), k, v, ended')
    BY <2>2 DEF DepFrame
  <2>4. DepFrame(x, k, v, ended')
    BY <2>1, <2>3, <1>1, <1>2 DEF FrameDeps
  <2> QED
    BY <2>1, <2>4 DEF DepFrame
<1>3. \A k, v : Depends(k, v)' <=> Depends(k, v)
  BY DEF Depends, CallAt, Job
<1>4. Task' = Task /\ Contexts' = Contexts /\ Pos' = Pos
  BY DEF Task, Job, Contexts, Thread, Pos
<1>5. (\A k, v \in Task : Depends(k, v) =>
          /\ DepSlot(w2, h2, k, v)
          /\ \A c \in Contexts, i \in Pos : DepFrame(FrameAt(c, i), k, v, ended))'
  BY <1>2, <1>3, <1>4 DEF SlotDeps
<1> QED
  BY <1>5 DEF Depended, DepSlot, DepFrame

\* Where the slots are that a step moves.
Moved(w, w2, id) ==
    \/ w2[id] = w[id]
    \/ w[id][1] \notin {"submit", "list"} /\ w2[id][1] \notin {"submit", "list"}
    \/ \A v \in Task : Depends(slots[id].job, v) =>
          \/ v \in ended'
          \/ w2[id][1] = "list" /\ \A x \in Id : w2[id] = OnList(x) => slots[x].job = v

\* A slot that moves only along its way keeps the order of dependent jobs.
LEMMA SlotDepsMove ==
    ASSUME NEW w, NEW h, Depended(w, h), Named(h), ended \subseteq ended', UNCHANGED program,
           \A id \in Id : slots'[id].job = slots[id].job,
           NEW w2, \A id \in Id : Moved(w, w2, id),
           NEW h2, \A k \in Task : h2[k] = h[k] \/ h2[k][1] \in {"new", "asked"}
    PROVE  SlotDeps(w2, h2)
<1> SUFFICES ASSUME NEW k \in Task, NEW v \in Task, Depends(k, v)
             PROVE  DepSlot(w2, h2, k, v)'
  BY DEF SlotDeps
<1>1. DepSlot(w, h, k, v)
  BY DependedParts
<1>2. h2[k] = Gone => v \in ended'
  BY <1>1, Stages DEF DepSlot
<1>3. ASSUME NEW id \in Id, h2[k] = InSlot(id)
      PROVE  /\ w2[id][1] \notin {"submit", "list"} => v \in ended'
             /\ \A x \in Id : w2[id] = OnList(x) => v \in ended' \/ slots'[x].job = v
  <2>1. h[k] = InSlot(id)
    BY <1>3, Stages
  <2>2. slots[id].job = k
    BY <2>1 DEF Named
  <2>3. \A x : OnList(x)[1] = "list"
    BY Tokens
  <2>4. CASE w2[id] = w[id]
    BY <2>1, <2>4, <1>1 DEF DepSlot
  <2>5. CASE w[id][1] \notin {"submit", "list"} /\ w2[id][1] \notin {"submit", "list"}
    BY <2>1, <2>5, <2>3, <1>1 DEF DepSlot
  <2>6. CASE v \in ended'
    BY <2>6
  <2>7. CASE w2[id][1] = "list" /\ \A x \in Id : w2[id] = OnList(x) => slots[x].job = v
    BY <2>7
  <2>8. Moved(w, w2, id) /\ Depends(slots[id].job, v)
    BY <2>2
  <2> QED
    BY <2>4, <2>5, <2>6, <2>7, <2>8 DEF Moved
<1> QED
  BY <1>2, <1>3 DEF DepSlot

\* No slot changes hands.
LEMMA DependedQuiet ==
    ASSUME NEW w, NEW h, Depended(w, h), Named(h), ended \subseteq ended', UNCHANGED program,
           NEW d, NEW n, NEW e, NEW f, NEW g, Swap(d, n, e, f, g), FrameDeps(f), FrameDeps(g),
           \A id \in Id : slots'[id].job = slots[id].job,
           NEW w2, \A id \in Id : Moved(w, w2, id),
           NEW h2, \A k \in Task : h2[k] = h[k] \/ h2[k][1] \in {"new", "asked"}
    PROVE  Depended(w2, h2)'
<1>1. SlotDeps(w2, h2)
  BY SlotDepsMove
<1> QED
  BY <1>1, DependedMove

\* A slot changes hands: its former job is gone.
LEMMA DependedAlloc ==
    ASSUME Shapes, NEW w, Placed(w), NEW h, Depended(w, h), Named(h), UNCHANGED <<program, ended>>,
           NEW d, NEW n, NEW e, NEW f, Swap(d, n, e, f, Blank), FrameDeps(f),
           NEW j0 \in Task, NEW id \in Id, w[id] = Unused, \A y \in Id : y # id => slots'[y] = slots[y],
           NEW w2, MoveTo(w, w2, id, Held("submit", d, n)),
           NEW h2, Renamed(h, h2, j0, id)
    PROVE  Depended(w2, h2)'
<1>1. Task \subseteq Job /\ \A k \in Job : h2[k] = IF k = j0 THEN InSlot(id) ELSE IF h[k] = InSlot(id) THEN Gone ELSE h[k]
  BY Programmed DEF Shapes, Renamed
<1>2. \A y \in Id : w2[y] = IF y = id THEN Held("submit", d, n) ELSE w[y]
  BY DEF MoveTo, Placed
<1>3. Unused[1] = "unused" /\ Held("submit", d, n)[1] = "submit" /\ (\A x : OnList(x)[1] = "list")
  BY Tokens
<1>4. ASSUME NEW k \in Task, NEW v \in Task, Depends(k, v)
      PROVE  DepSlot(w2, h2, k, v)'
  <2>1. DepSlot(w, h, k, v)
    BY <1>4, DependedParts
  <2>2. ASSUME h2[k] = Gone
        PROVE  v \in ended'
    <3>1. h[k] = Gone \/ h[k] = InSlot(id)
      BY <2>2, <1>1, Stages
    <3> QED
      BY <3>1, <2>1, <1>3 DEF DepSlot
  <2>3. ASSUME NEW y \in Id, h2[k] = InSlot(y)
        PROVE  /\ w2[y][1] \notin {"submit", "list"} => v \in ended'
               /\ \A x \in Id : w2[y] = OnList(x) => v \in ended' \/ slots'[x].job = v
    <3>1. CASE y = id
      BY <3>1, <1>2, <1>3
    <3>2. CASE y # id
      <4>1. h[k] = InSlot(y)
        BY <2>3, <3>2, <1>1, Stages
      <4>2. w2[y] = w[y]
        BY <3>2, <1>2
      <4>3. \A x \in Id : w[y] = OnList(x) => x # id
        <5>1. ASSUME w[y] = OnList(id)
              PROVE  FALSE
          <6>1. y \in Dependents(slots[id].dependents)
            BY <5>1 DEF Placed, Listed
          <6>2. SlotOK(id, "unused")
            <7>1. SlotOK(id, w[id][1])
              BY DEF Placed, Alive
            <7> QED
              BY <7>1, <1>3
          <6>3. slots[id].dependents \in {0, Closed}
            BY <6>2 DEF SlotOK, FreshSlot, IsClosed
          <6> QED
            BY <6>1, <6>3, DrainNone
        <5> QED
          BY <5>1
      <4> QED
        BY <4>1, <4>2, <4>3, <2>1 DEF DepSlot
    <3> QED
      BY <3>1, <3>2
  <2> QED
    BY <2>2, <2>3 DEF DepSlot
<1>5. SlotDeps(w2, h2)
  BY <1>4 DEF SlotDeps
<1>6. FrameDeps(Blank)
  BY DEF FrameDeps, DepFrame, Blank
<1> QED
  BY <1>5, <1>6, DependedMove

-----------------------------------------------------------------------------
\* The parts of Honoured.  What call n of job i is for is done.
FulfilledIn(i, n, S) ==
    LET c == CallAt(i, n)
    IN  /\ c.op = "wait" => c.job \in S
        /\ c.op = "pfor" => Range(c.chunks) \subseteq S
HonFrame(f, g, S, left) ==
    f.k = "body" => \A n \in 1..f.pc-1 :
        FulfilledIn(f.job, n, S) \/ (n = f.pc - 1 /\ (g # Blank \/ left))
Left(c) == \A t \in Thread : on[t] # c
HonFrames == \A c \in Contexts, i \in Pos : HonFrame(FrameAt(c, i), FrameAt(c, i + 1), ended, Left(c))
HonFiber(s, f) ==
    /\ s[f][1] \in {"resumable", "resume"} => \E k \in ended : Awaits(f, k)
    /\ \A d \in Id : s[f] = WaitsOn(d) =>
          \E k \in Job : Awaits(f, k) /\ (k \in ended \/ slots[d].job = k)
    /\ \A v \in Worker : s[f] = LeftBy(v) /\ pending[v].kind = "park" =>
          \E k \in Job : Awaits(f, k) /\ (k \in ended \/ slots[pending[v].id].job = k)

\* Honoured in two parts: the frames, and the fibers off their threads.
LEMMA HonouredParts ==
    ASSUME NEW s
    PROVE  Honoured(s) <=> HonFrames /\ \A f \in Fiber : HonFiber(s, f)
<1>1. \A i, n : Fulfilled(i, n) <=> FulfilledIn(i, n, ended)
  BY DEF Fulfilled, FulfilledIn, CallAt
<1>2. HonFrames <=>
        \A c \in Contexts, i \in Pos :
          LET f == FrameAt(c, i)
          IN  f.k = "body" =>
                \A n \in 1..f.pc-1 :
                    \/ Fulfilled(f.job, n)
                    \/ n = f.pc - 1 /\ (FrameAt(c, i + 1) # Blank \/ \A t \in Thread : on[t] # c)
  BY <1>1 DEF HonFrames, HonFrame, Left
<1> QED
  BY <1>2 DEF Honoured, HonFiber

\* The same of the next state.
LEMMA HonouredPartsNext ==
    ASSUME NEW s, HonFrames', \A f \in Fiber : HonFiber(s, f)'
    PROVE  Honoured(s)'
<1>1. (HonFrames /\ \A f \in Fiber : HonFiber(s, f))'
  OBVIOUS
<1>2. Honoured(s) <=> HonFrames /\ \A f \in Fiber : HonFiber(s, f)
  BY HonouredParts
<1> QED
  BY <1>1, HonouredParts, PTL

\* The frames after a step.
LeftNext(c) == \A t \in Thread : on'[t] # c
HonHere(d, n, f, g) ==
    /\ HonFrame(f, g, ended', LeftNext(d)) /\ HonFrame(g, Blank, ended', LeftNext(d))
    /\ n - 1 \in Pos /\ f = Blank /\ FrameAt(d, n - 1).k = "body" =>
          FulfilledIn(FrameAt(d, n - 1).job, FrameAt(d, n - 1).pc - 1, ended')
    /\ \A c \in Contexts \ {d}, i \in Pos : HonFrame(FrameAt(c, i), FrameAt(c, i + 1), ended', LeftNext(c))

\* What waits stand on, when a step changes two frames.
LEMMA HonFramesMove ==
    ASSUME Shapes, HonFrames, ended \subseteq ended', UNCHANGED program,
           NEW d, NEW n, NEW e, NEW f, NEW g, Swap(d, n, e, f, g), HonHere(d, n, f, g),
           e # Blank \/ n = 1
    PROVE  HonFrames'
<1>1. \A c \in Contexts, i \in Pos :
         FrameAt(c, i)' = IF c = d /\ i = n THEN f ELSE IF c = d /\ i = n + 1 THEN g ELSE FrameAt(c, i)
  BY DEF Swap, Stacked
<1>2. d \in Contexts /\ n \in Pos /\ FrameAt(d, n) = e /\ FrameAt(d, n + 1) = Blank
  BY DEF Swap
<1>3. ASSUME NEW c \in Contexts, NEW i \in Pos, NEW x, x = FrameAt(c, i)', NEW y, y = FrameAt(c, i + 1)'
      PROVE  HonFrame(x, y, ended', LeftNext(c))
  <2>1. i \in Nat /\ n \in Nat /\ i + 1 \in Pos
    BY <1>2 DEF Pos
  <2>2. CASE c = d /\ i = n
    <3>1. x = f /\ y = g
      BY <1>1, <1>2, <1>3, <2>1, <2>2
    <3> QED
      BY <3>1, <2>2 DEF HonHere
  <2>3. CASE c = d /\ i = n + 1
    <3>1. x = g
      BY <1>1, <1>2, <1>3, <2>1, <2>3
    <3>2. y = Blank
      <4>1. FrameAt(d, i + 1) = Blank
        <5>1. Len(stack[d]) < i /\ Len(stack[d]) \in Nat
          BY <1>2, <2>1, <2>3, FrameAtIn DEF Shapes
        <5> QED
          BY <5>1, <2>1, <1>2, FrameAtIn
      <4> QED
        BY <4>1, <1>1, <1>2, <1>3, <2>1, <2>3
    <3> QED
      BY <3>1, <3>2, <2>3 DEF HonHere
  <2>4. CASE c = d /\ i < n
    <3>1. x = FrameAt(d, i) /\ n # 1 /\ e # Blank
      <4>1. x = FrameAt(d, i)
        BY <1>1, <1>2, <1>3, <2>1, <2>4
      <4>2. n # 1
        BY <2>4 DEF Pos
      <4> QED
        BY <4>1, <4>2
    <3>2. HonFrame(x, FrameAt(d, i + 1), ended, Left(d))
      BY <3>1, <1>2 DEF HonFrames
    <3>3. FrameAt(d, i + 1) # Blank
      <4>1. n <= Len(stack[d]) /\ Len(stack[d]) \in Nat
        BY <3>1, <1>2, <2>1, FrameAtIn DEF Shapes
      <4> QED
        BY <4>1, <2>1, <2>4, <1>2, FrameAtIn
    <3>4. \A a, m : FulfilledIn(a, m, ended) => FulfilledIn(a, m, ended')
      BY DEF FulfilledIn
    <3>5. CASE i + 1 # n
      <4>1. y # Blank
        BY <3>3, <3>5, <1>1, <1>2, <1>3, <2>1, <2>4
      <4> QED
        BY <4>1, <3>2, <3>4 DEF HonFrame
    <3>6. CASE i + 1 = n
      <4>1. y = f /\ i = n - 1
        BY <3>6, <1>1, <1>2, <1>3, <2>1, <2>4
      <4>2. CASE f # Blank
        BY <4>1, <4>2, <3>2, <3>4 DEF HonFrame
      <4>3. CASE f = Blank
        <5>1. x.k = "body" => FulfilledIn(x.job, x.pc - 1, ended')
          BY <4>1, <4>3, <3>1, <1>3 DEF HonHere
        <5> QED
          BY <5>1, <3>2, <3>4 DEF HonFrame
      <4> QED
        BY <4>2, <4>3
    <3> QED
      BY <3>5, <3>6, <2>4
  <2>5. CASE c # d
    <3>1. x = FrameAt(c, i) /\ y = FrameAt(c, i + 1)
      BY <1>1, <1>3, <2>1, <2>5
    <3> QED
      BY <3>1, <2>5 DEF HonHere
  <2> QED
    <3>1. i < n \/ i = n \/ i = n + 1 \/ i > n + 1
      BY <2>1
    <3>2. CASE c = d /\ i > n + 1
      <4>1. x = Blank
        <5>1. x = FrameAt(d, i)
          BY <3>2, <1>1, <1>3, <2>1
        <5>2. Len(stack[d]) < n + 1 /\ Len(stack[d]) \in Nat
          BY <1>2, FrameAtIn, <2>1 DEF Shapes, Pos
        <5> QED
          BY <5>1, <5>2, <3>2, <2>1, <1>2, FrameAtIn
      <4> QED
        BY <4>1 DEF HonFrame, Blank
    <3> QED
      BY <2>2, <2>3, <2>4, <2>5, <3>1, <3>2
<1>4. ASSUME NEW c \in Contexts, NEW i \in Pos
      PROVE  HonFrame(FrameAt(c, i), FrameAt(c, i + 1), ended, Left(c))'
  <2>1. PICK x, y : x = FrameAt(c, i)' /\ y = FrameAt(c, i + 1)'
    OBVIOUS
  <2>2. HonFrame(x, y, ended', LeftNext(c))
    BY <1>3, <2>1
  <2> QED
    BY <2>1, <2>2 DEF HonFrame, FulfilledIn, CallAt, Left, LeftNext, Thread
<1> QED
  BY <1>4 DEF HonFrames, Contexts, Pos, Thread

\* What a stack waits for, when its frames are the same.
LEMMA AwaitsSame ==
    ASSUME NEW d, NEW n, NEW e, NEW f, NEW g, Swap(d, n, e, f, g), UNCHANGED program,
           NEW c \in Contexts, c # d, NEW k, Awaits(c, k)
    PROVE  Awaits(c, k)'
<1>1. PICK i \in Pos : LET x == FrameAt(c, i)
                       IN  /\ x.k = "body" /\ FrameAt(c, i + 1) = Blank /\ x.pc > 1
                           /\ x.pc - 1 \in DOMAIN program.calls[x.job]
                           /\ CallAt(x.job, x.pc - 1) = Wait(k)
  BY DEF Awaits
<1>2. FrameAt(c, i)' = FrameAt(c, i) /\ FrameAt(c, i + 1)' = FrameAt(c, i + 1)
  <2>1. i + 1 \in Pos
    BY DEF Pos
  <2> QED
    BY <2>1 DEF Swap, Stacked
<1>3. PICK x : x = FrameAt(c, i)
  OBVIOUS
<1>4. /\ x.k = "body" /\ x.pc > 1 /\ x.pc - 1 \in DOMAIN program.calls[x.job]
      /\ CallAt(x.job, x.pc - 1) = Wait(k)
  BY <1>1, <1>3
<1>5. \E m \in Pos :
         /\ FrameAt(c, m)'.k = "body" /\ FrameAt(c, m + 1)' = Blank /\ FrameAt(c, m)'.pc > 1
         /\ FrameAt(c, m)'.pc - 1 \in DOMAIN program.calls[FrameAt(c, m)'.job]
         /\ CallAt(FrameAt(c, m)'.job, FrameAt(c, m)'.pc - 1) = Wait(k)
  BY <1>1, <1>2, <1>3, <1>4
<1> QED
  BY <1>5 DEF Awaits, CallAt, Blank, Pos

\* A fiber that stays where it was.
LEMMA HonFiberSame ==
    ASSUME NEW s, NEW s2, NEW d, NEW n, NEW e, NEW f, NEW g, Swap(d, n, e, f, g), UNCHANGED program,
           ended \subseteq ended', \A id \in Id : slots'[id].job = slots[id].job,
           NEW x \in Fiber, x # d, s2[x] = s[x], HonFiber(s, x),
           \A v \in Worker : s[x] = LeftBy(v) => pending'[v] = pending[v],
           \A v \in Worker : s[x] = LeftBy(v) /\ pending[v].kind = "park" => pending[v].id \in Id
    PROVE  HonFiber(s2, x)'
<1>1. \A k : Awaits(x, k) => Awaits(x, k)'
  BY AwaitsSame, Sizes
<1>2. s2[x][1] \in {"resumable", "resume"} => \E k \in ended' : Awaits(x, k)'
  BY <1>1 DEF HonFiber
<1>3. \A y \in Id : s2[x] = WaitsOn(y) =>
         \E k \in Job : Awaits(x, k)' /\ (k \in ended' \/ slots'[y].job = k)
  BY <1>1 DEF HonFiber
<1>4. \A v \in Worker : s2[x] = LeftBy(v) /\ pending'[v].kind = "park" =>
         \E k \in Job : Awaits(x, k)' /\ (k \in ended' \/ slots'[pending'[v].id].job = k)
  BY <1>1 DEF HonFiber
<1>5. Job' = Job
  BY DEF Job
<1> QED
  BY <1>2, <1>3, <1>4, <1>5 DEF HonFiber

\* A fiber that is neither woken nor waiting has nothing to show for it.
LEMMA HonFiberElse ==
    ASSUME NEW s, NEW x, s[x][1] \notin {"resumable", "resume", "list", "left"}
    PROVE  HonFiber(s, x)'
BY Spots DEF HonFiber

-----------------------------------------------------------------------------
\* The invariant with its witnesses: where slots, fibers and names are, and which
\* jobs are counted.
Sound(w, s, h, r) ==
    /\ Shapes /\ Stacks /\ Nested /\ Stopped
    /\ Placed(w) /\ Parked(s) /\ Named(h) /\ Handled(h) /\ Known(h)
    /\ Counted(w, h, r) /\ Depended(w, h) /\ Honoured(s)

\* The invariant with its witnesses named.
LEMMA SoundIs == SchedInv <=> \E w, s, h, r : Sound(w, s, h, r)
BY DEF SchedInv, Sound

\* The conjuncts of the invariant, for citation.
LEMMA SoundParts ==
    ASSUME NEW w, NEW s, NEW h, NEW r, Sound(w, s, h, r)
    PROVE  /\ Shapes /\ Stacks /\ SwitchOK /\ FramesOK /\ Nested /\ Stopped
           /\ Placed(w) /\ Parked(s) /\ Named(h) /\ Handled(h) /\ Known(h)
           /\ Counted(w, h, r) /\ Depended(w, h) /\ Honoured(s)
           /\ HonFrames /\ (\A f \in Fiber : HonFiber(s, f)) /\ JobsApart
           /\ Pools(s) /\ WaitLists(s) /\ BusyOK(s) /\ Carried(w) /\ w \in [Id -> Token]
BY StacksParts, HonouredParts, NamesApart, ParkedParts DEF Sound, Placed

\* The shapes, variable by variable.
LEMMA ShapesNext ==
    ASSUME Shapes, UNCHANGED program, slots' \in [Id -> SlotShape], alloc' \in Pos, live' \in Int,
           QueueTypes', resumable' \in Seq(Fiber), free' \subseteq Fiber,
           next' \in [Fiber -> Fiber \cup {None}], pending' \in [Worker -> PendingShape],
           on' \in [Thread -> Contexts], stack' \in [Contexts -> Seq(Frame)],
           stopping' \in BOOLEAN, exited' \subseteq Worker, handle' \in [Job -> HandleShape],
           remaining' \in [Job -> Int], begun' \in [Job -> Nat], ended' \subseteq Job
    PROVE  Shapes'
<1>1. Job' = Job /\ Task' = Task
  BY DEF Job, Task
<1>2. SlotShape' = SlotShape
  BY <1>1 DEF SlotShape, Id
<1>3. BodyFrame' = BodyFrame /\ SubmitFrame' = SubmitFrame /\ ChunkFrame' = ChunkFrame /\ HelpFrame' = HelpFrame
      /\ FinishFrame' = FinishFrame
  BY <1>1 DEF BodyFrame, SubmitFrame, ChunkFrame, HelpFrame, FinishFrame, Pos, Id, HandleShape, Thread
<1>4. Frame' = Frame
  BY <1>3 DEF Frame, Join
<1> QED
  BY <1>1, <1>2, <1>4 DEF Shapes, QueueTypes, Id, Pos, PendingShape, Thread, Contexts, HandleShape

\* Only the stacks change.
LEMMA ShapesStack ==
    ASSUME Shapes, stack' \in [Contexts -> Seq(Frame)],
           UNCHANGED <<program, slots, alloc, live, queues, fibers, on, stopping, exited, history, remaining>>
    PROVE  Shapes'
<1> QED
  BY ShapesNext DEF Shapes, QueueTypes, queues, fibers, history

\* A thread that runs the frame on top of a fiber's stack.
LEMMA RunsFiber ==
    ASSUME Shapes, Stacks, NEW s, Parked(s), NEW t \in Thread, NEW d, NEW n, NEW e, OnTop(t, d, n, e)
    PROVE  /\ d \in Fiber => t \in Worker /\ s[d] = RunBy(t) /\ NothingPending(t) /\ d # t
           /\ d \notin Fiber => d = t
<1>1. on[t] = d
  BY DEF OnTop
<1>2. Pools(s) /\ SwitchOK
  BY ParkedParts, StacksParts
<1>3. ASSUME d \in Fiber PROVE t \in Worker /\ s[d] = RunBy(t) /\ NothingPending(t) /\ d # t
  <2>1. t \in Worker /\ d # t
    BY <1>1, <1>2, <1>3, Sizes DEF SwitchOK
  <2> QED
    BY <2>1, <1>1, <1>2, <1>3 DEF SwitchOK, Pools
<1>4. d \notin Fiber => d = t
  BY <1>1, <1>2, Sizes DEF SwitchOK
<1> QED
  BY <1>3, <1>4

\* What the frames on top are after a step, and what they may do.
HonTop(d, n, f, g) ==
    /\ HonFrame(f, g, ended, Left(d)) /\ HonFrame(g, Blank, ended, Left(d))
    /\ n - 1 \in Pos /\ f = Blank /\ FrameAt(d, n - 1).k = "body" =>
          FulfilledIn(FrameAt(d, n - 1).job, FrameAt(d, n - 1).pc - 1, ended)
Goes(d, n, e, f, g) ==
    /\ n = 1 => f # Blank \/ d = External
    /\ SubmitOK(f, handle) /\ SubmitOK(g, handle)
    /\ f.k = "submit" <=> e.k = "submit"
    /\ KnowsAt(f, g) /\ KnowsAt(g, Blank)
    /\ Follows(e, f) /\ AboveOf(handle, f, g) /\ ~(g.k = "body" /\ g.id = 0)
    /\ d = External /\ stopping => f = Blank /\ g = Blank
    /\ HonTop(d, n, f, g)
Turns(d, n, e, f, g) ==
    /\ Goes(d, n, e, f, g)
    /\ Waking(f) = Waking(e) /\ Waking(g) = None
    /\ ~(e.k = "finish" /\ e.pc = "live")
Drifts(w, w2) == \A id \in Id : Moved(w, w2, id) /\ (w2[id] # Unused => w[id] # Unused)
NamesOn(h, h2) ==
    /\ \A j \in Job : h2[j] = h[j] \/ handle[j] = NoHandle
    /\ \A k \in Task : h2[k] # New => h[k] # New \/ Given(h, k)
    /\ \A k \in Task : h2[k] = New => h[k] = New
    /\ \A k \in Task : h2[k] = h[k] \/ h2[k][1] \in {"new", "asked"}

\* The fibers wait for what they waited for, when one runs and no job is let go.
LEMMA HonFibersQuiet ==
    ASSUME NEW w, NEW s, NEW h, NEW r, Sound(w, s, h, r), NEW t \in Thread, NEW d, NEW n, NEW e, OnTop(t, d, n, e),
           NEW f, NEW g, Swap(d, n, e, f, g), UNCHANGED <<program, on, pending>>, ended \subseteq ended',
           \A id \in Id : slots'[id].job = slots[id].job
    PROVE  \A x \in Fiber : HonFiber(s, x)'
<1>1. ASSUME NEW x \in Fiber, x = d PROVE HonFiber(s, x)'
  <2>1. s[x] = RunBy(t)
    BY <1>1, RunsFiber, SoundParts
  <2>2. s[x][1] = "on"
    BY <2>1, Spots
  <2> QED
    BY <2>2, HonFiberElse
<1>2. ASSUME NEW x \in Fiber, x # d PROVE HonFiber(s, x)'
  <2>1. HonFiber(s, x) /\ Shapes
    BY SoundParts
  <2>2. \A v \in Worker : s[x] = LeftBy(v) /\ pending[v].kind = "park" => pending[v].id \in Id
    BY <2>1, PendingShapes
  <2> QED
    BY <1>2, <2>1, <2>2, HonFiberSame
<1> QED
  BY <1>1, <1>2

\* Only main goes on once stop() was called.
LEMMA StoppedGoes ==
    ASSUME NEW w, NEW s, NEW h, NEW r, Sound(w, s, h, r), UNCHANGED <<program, live, stopping, exited>>,
           NEW d, NEW n, NEW e, NEW f, NEW g, Swap(d, n, e, f, g), Goes(d, n, e, f, g)
    PROVE  Stopped'
<1>1. d = External /\ stopping => f = Blank /\ g = Blank
  BY DEF Goes
<1> QED
  BY <1>1, SoundParts, StoppedMove

\* The frame on top of a stack changes, and no thread changes its stack.
SlotsKeep == \A id \in Id : slots'[id].job = slots[id].job /\ slots'[id].gen = slots[id].gen

\* A step of a thread on its stack keeps the invariant if it keeps each part
\* under the witnesses that it moves.
LEMMA CoreStep ==
    ASSUME NEW w, NEW s, NEW h, NEW r, Sound(w, s, h, r), Shapes', Stopped',
           NEW t \in Thread, NEW d, NEW n, NEW e, OnTop(t, d, n, e),
           NEW f, NEW g, Swap(d, n, e, f, g),
           UNCHANGED <<program, alloc, live, free, on, pending, exited, handle>>,
           SlotsKeep, ended \subseteq ended', resumable = <<>> => resumable' = <<>> \/ Fibers,
           Goes(d, n, e, f, g), FrameDeps(f), FrameDeps(g),
           NEW w2, Placed(w2)', \A id \in Id : Moved(w, w2, id), NEW h2, Named(h2)', NamesOn(h, h2),
           NEW s2, Parked(s2)', \A x \in Fiber : HonFiber(s2, x)', NEW r2, Counted(w2, h2, r2)'
    PROVE  Sound(w2, s2, h2, r2)'
<1>1. /\ Shapes /\ Stacks /\ SwitchOK /\ FramesOK /\ Nested /\ Stopped
      /\ Placed(w) /\ Parked(s) /\ Named(h) /\ Handled(h) /\ Known(h)
      /\ Counted(w, h, r) /\ Depended(w, h) /\ Honoured(s) /\ HonFrames
  BY SoundParts
<1>2. (e # Blank /\ f.k # "none") \/ f = Blank
  BY FrameKinds DEF OnTop, Goes, Follows, Blank
<1>3. e # Blank /\ d \in Contexts /\ n \in Pos
  BY FrameKinds DEF OnTop
<1>4. KnownHere(d, n, f, g) /\ HandlesStay
  BY <1>1, KnownSame DEF Goes
<1>5. FramesOK'
  BY <1>1, <1>3, FramesFollow DEF Goes
<1>6. GensKept
  BY DEF GensKept, SlotsKeep
<1>7. \A c \in Contexts \ {External} : Busy(c)' <=> Busy(c)
  BY <1>3, BusyStays DEF Goes
<1>8. SwitchOK'
  <2>1. \A c \in Worker \cup Fiber : Busy(c)' <=> Busy(c)
    BY <1>7, Sizes
  <2> QED
    BY <1>1, <1>6, <2>1, SwitchQuiet
<1>9. Stacks'
  BY <1>5, <1>8, StacksPartsNext
<1>10. Nested'
  <2>1. AboveOf(handle', f, g)
    BY DEF Goes
  <2>2. n - 1 \in Pos => Follows(e, f) /\ e # Blank
    BY <1>3 DEF Goes
  <2> QED
    BY <1>1, <1>4, <2>1, <2>2, NestedMove
<1>13. Handled(h2)'
  <2>1. SubmitOK(f, handle) /\ SubmitOK(g, handle) /\ \A j \in Job : h2[j] = h[j] \/ handle[j] = NoHandle
    BY DEF Goes, NamesOn
  <2>2. \A id \in Id : slots'[id].gen = slots[id].gen
    BY DEF SlotsKeep
  <2> QED
    BY <1>1, <2>1, <2>2, HandledQuiet
<1>14. Known(h2)'
  BY <1>1, <1>4, KnownMove DEF NamesOn
<1>16. Depended(w2, h2)'
  <2>1. \A id \in Id : slots'[id].job = slots[id].job
    BY DEF SlotsKeep
  <2> QED
    BY <1>1, <2>1, DependedQuiet DEF NamesOn
<1>17. Honoured(s2)'
  <2>1. HonHere(d, n, f, g)
    <3>1. LeftNext(d) = Left(d) /\ \A c \in Contexts : LeftNext(c) = Left(c)
      BY DEF Left, LeftNext
    <3>2. \A c \in Contexts, i \in Pos : HonFrame(FrameAt(c, i), FrameAt(c, i + 1), ended, Left(c))
      BY <1>1 DEF HonFrames
    <3>3. HonTop(d, n, f, g)
      BY DEF Goes
    <3>4. \A i, m : FulfilledIn(i, m, ended) => FulfilledIn(i, m, ended')
      BY DEF FulfilledIn
    <3>5. \A x, y, left : HonFrame(x, y, ended, left) => HonFrame(x, y, ended', left)
      BY <3>4 DEF HonFrame
    <3> HIDE DEF HonTop, HonFrame, FulfilledIn, LeftNext, Left
    <3> QED
      BY <3>1, <3>2, <3>3, <3>4, <3>5 DEF HonHere, HonTop
  <2>2. HonFrames'
    BY <1>1, <1>3, <2>1, HonFramesMove
  <2> QED
    BY <2>2, HonouredPartsNext
<1> QED
  BY <1>9, <1>10, <1>13, <1>14, <1>16, <1>17 DEF Sound

\* The frame on top changes, and the slots and names that it says.
LEMMA FrameStep ==
    ASSUME NEW w, NEW s, NEW h, NEW r, Sound(w, s, h, r), Shapes',
           NEW t \in Thread, NEW d, NEW n, NEW e, OnTop(t, d, n, e),
           NEW f, NEW g, Swap(d, n, e, f, g),
           UNCHANGED <<program, slots, alloc, live, fibers, on, stopping, exited, handle, ended, remaining>>,
           Turns(d, n, e, f, g), CountedHere(r, e, f, g), FrameDeps(f), FrameDeps(g),
           NEW w2, Placed(w2)', Drifts(w, w2), NEW h2, Named(h2)', NamesOn(h, h2)
    PROVE  Sound(w2, s, h2, r)'
<1>1. Shapes /\ Parked(s) /\ Counted(w, h, r)
  BY SoundParts
<1>2. e # Blank
  BY FrameKinds DEF OnTop
<1>3. Parked(s)'
  <2>1. d \in Fiber /\ n = 1 => f # Blank /\ e # Blank
    BY <1>2, Sizes DEF Turns, Goes
  <2>2. Waking(f) = Waking(e) /\ Waking(g) = None
    BY DEF Turns, Goes
  <2> QED
    BY <1>1, <2>1, <2>2, ParkedQuiet DEF fibers
<1>4. Counted(w2, h2, r)'
  <2>1. \A id \in Id : /\ slots'[id].group = slots[id].group /\ slots'[id].job = slots[id].job
                       /\ w2[id] # Unused => w[id] # Unused
    BY DEF Drifts
  <2>2. SlotsOn(w, w2, r, r, e, f)
    BY <2>1, SlotsOnSame DEF Turns, Goes
  <2> QED
    BY <1>1, <2>2, CountedQuiet DEF NamesOn
<1>5. \A x \in Fiber : HonFiber(s, x)'
  <2>1. \A id \in Id : slots'[id].job = slots[id].job
    OBVIOUS
  <2> QED
    BY <2>1, HonFibersQuiet DEF fibers
<1>6. SlotsKeep /\ \A id \in Id : Moved(w, w2, id)
  BY DEF SlotsKeep, Drifts
<1>7. Goes(d, n, e, f, g)
  BY DEF Turns
<1>8. Stopped'
  BY <1>7, StoppedGoes
<1> QED
  BY <1>3, <1>4, <1>5, <1>6, <1>7, <1>8, CoreStep DEF fibers

\* What is known of the frame on top.
LEMMA TopFacts ==
    ASSUME NEW w, NEW s, NEW h, NEW r, Sound(w, s, h, r), NEW t \in Thread, NEW d, NEW n, NEW e, OnTop(t, d, n, e)
    PROVE  /\ e \in Frame /\ e # Blank /\ d \in Contexts /\ n \in Pos
           /\ HolderOK(e) /\ SubmitOK(e, handle) /\ KnowsAt(e, Blank) /\ FrameFuture(h, e)
           /\ CountFrame(r, e, Blank, ended) /\ (\A k, v \in Task : Depends(k, v) => DepFrame(e, k, v, ended))
           /\ ~Left(d) /\ HonFrame(e, Blank, ended, FALSE)
           /\ n - 1 \in Pos => Above(FrameAt(d, n - 1), e)
           /\ BasedBy(d, FrameAt(d, 1))
<1>1. e \in Frame /\ d \in Contexts /\ n \in Pos /\ FrameAt(d, n) = e /\ FrameAt(d, n + 1) = Blank /\ on[t] = d
  BY DEF OnTop
<1>2. e # Blank
  BY <1>1, FrameKinds
<1>3. HolderOK(e)
  BY <1>1, SoundParts DEF Placed, Alive
<1>4. SubmitOK(e, handle)
  BY <1>1, SoundParts, HandledParts
<1>5. KnowsAt(e, Blank)
  BY <1>1, SoundParts, KnownFrames
<1>6. FrameFuture(h, e)
  BY <1>1, SoundParts, NamedFrames
<1>7. CountFrame(r, e, Blank, ended)
  BY <1>1, SoundParts, CountedParts DEF CountFrames
<1>8. \A k, v \in Task : Depends(k, v) => DepFrame(e, k, v, ended)
  BY <1>1, SoundParts, DependedParts
<1>9. ~Left(d)
  BY <1>1 DEF Left
<1>10. HonFrame(e, Blank, ended, FALSE)
  <2>1. HonFrame(e, Blank, ended, Left(d))
    BY <1>1, SoundParts DEF HonFrames
  <2> QED
    BY <2>1, <1>9 DEF HonFrame
<1>11. n - 1 \in Pos => Above(FrameAt(d, n - 1), e)
  <2>1. n - 1 + 1 = n
    BY <1>1 DEF Pos
  <2>2. Nested
    BY SoundParts
  <2> QED
    BY <2>1, <2>2, <1>1 DEF Nested
<1>12. BasedBy(d, FrameAt(d, 1))
  BY <1>1, SoundParts DEF FramesOK, Based, BasedBy, Busy
<1> QED
  BY <1>1, <1>2, <1>3, <1>4, <1>5, <1>6, <1>7, <1>8, <1>9, <1>10, <1>11, <1>12

\* The frame on top changes, and nothing else.
LEMMA PlainStep ==
    ASSUME NEW w, NEW s, NEW h, NEW r, Sound(w, s, h, r),
           NEW t \in Thread, NEW d, NEW n, NEW e, OnTop(t, d, n, e),
           NEW f, NEW g, Swap(d, n, e, f, g),
           UNCHANGED <<program, slots, alloc, live, queues, fibers, on, stopping, exited, history, remaining>>,
           Turns(d, n, e, f, g), CountedHere(r, e, f, g), FrameDeps(f), FrameDeps(g),
           HoldSame(e, f, g), HolderOK(f), HolderOK(g), FrameQuiet(h, e, f, g)
    PROVE  Sound(w, s, h, r)'
<1>1. Shapes /\ Placed(w) /\ Named(h)
  BY SoundParts
<1>2. Shapes'
  BY <1>1, ShapesStack DEF Swap, Stacked
<1>3. Placed(w)'
  <2>1. \A j \in Task : j \in ended' <=> j \in ended
    BY DEF history
  <2> QED
    BY <1>1, <2>1, PlacedQuiet DEF queues, history
<1>4. Named(h)'
  <2>1. HistoryMove(h)
    BY <1>1, HistorySame DEF history
  <2>2. \A id \in Id : slots'[id].job = slots[id].job
    OBVIOUS
  <2> QED
    BY <1>1, <2>1, <2>2, NamedQuiet
<1>5. Drifts(w, w)
  BY DEF Drifts, Moved
<1>6. NamesOn(h, h)
  BY DEF NamesOn
<1> QED
  BY <1>2, <1>3, <1>4, <1>5, <1>6, FrameStep DEF history

\* How a step of a thread changes its stack.
LEMMA SwapTop ==
    ASSUME NEW t, NEW d, NEW n, NEW e, OnTop(t, d, n, e), NEW f, NEW g, Stacked(d, n, f, g)
    PROVE  Swap(d, n, e, f, g)
BY DEF OnTop, Swap

\* Nothing may be submitted any more once stop() was called.
LEMMA NotStopping ==
    ASSUME NEW w, NEW s, NEW h, NEW r, Sound(w, s, h, r),
           NEW t \in Thread, NEW d, NEW n, NEW e, OnTop(t, d, n, e), e.k \notin {"body", "join"}
    PROVE  exited = {} /\ ~(d = External /\ stopping)
BY SoundParts, OnlyMainLeft

\* A missing frame satisfies every predicate on frames.
LEMMA BlankOK ==
    /\ \A r, S : CountFrame(r, Blank, Blank, S)
    /\ FrameDeps(Blank) /\ SubmitOK(Blank, handle) /\ KnowsAt(Blank, Blank)
    /\ \A h : FrameFuture(h, Blank) /\ \A S, left, g : HonFrame(Blank, g, S, left)
    /\ \A hs, f : AboveOf(hs, f, Blank)
BY DEF CountFrame, FrameDeps, DepFrame, SubmitOK, KnowsAt, FrameFuture, HonFrame, AboveOf, Blank

\* submit() goes on.
SubmitOn(e, f) ==
    /\ e.k = "submit" /\ f \in SubmitFrame
    /\ f.job = e.job /\ f.dep = e.dep /\ f.group = e.group
    /\ f.pc = "link" => handle[f.dep].id # f.id
    /\ f.pc = "ready" => f.dep = None \/ f.dep \in ended

\* A submission goes on to its next phase.
LEMMA SubmitTurns ==
    ASSUME NEW w, NEW s, NEW h, NEW r, Sound(w, s, h, r), UNCHANGED ended,
           NEW t \in Thread, NEW d, NEW n, NEW e, OnTop(t, d, n, e), NEW f, SubmitOn(e, f)
    PROVE  Turns(d, n, e, f, Blank) /\ CountedHere(r, e, f, Blank) /\ FrameDeps(f) /\ FrameDeps(Blank)
<1>1. e.k = "submit" /\ f.k = "submit" /\ f # Blank /\ f.job = e.job /\ f.dep = e.dep /\ f.group = e.group
  BY DEF SubmitOn, SubmitFrame, Blank
<1>2. /\ SubmitOK(e, handle) /\ CountFrame(r, e, Blank, ended)
      /\ \A k, v \in Task : Depends(k, v) => DepFrame(e, k, v, ended)
  BY TopFacts
<1>3. SubmitOK(f, handle)
  BY <1>1, <1>2 DEF SubmitOK, SubmitOn
<1>4. FrameDeps(f)
  <2>1. ASSUME NEW k \in Task, NEW v \in Task, Depends(k, v) PROVE DepFrame(f, k, v, ended')
    <3>1. DepFrame(e, k, v, ended)
      BY <1>2, <2>1
    <3>2. Shapes /\ None \notin Task
      BY SoundParts, Programmed DEF Shapes, Task
    <3> QED
      BY <3>1, <3>2, <1>1 DEF DepFrame, SubmitOn
  <2> QED
    BY <2>1 DEF FrameDeps
<1>5. \A j : ~Looping(f, j) /\ ~Looping(e, j) /\ ~Looping(Blank, j)
  BY <1>1, LoopingIs
<1>6. CountedHere(r, e, f, Blank)
  <2>1. CountFrame(r, f, Blank, ended')
    BY <1>1, <1>2 DEF CountFrame
  <2> QED
    BY <2>1, <1>5, BlankOK DEF CountedHere
<1>7. Turns(d, n, e, f, Blank)
  <2>1. Waking(f) = Waking(e) /\ Waking(Blank) = None
    BY <1>1, BlankHolds DEF Waking
  <2>2. KnowsAt(f, Blank) /\ KnowsAt(Blank, Blank)
    BY <1>1, BlankOK DEF KnowsAt
  <2>3. Follows(e, f)
    BY <1>1 DEF Follows
  <2>4. HonTop(d, n, f, Blank)
    BY <1>1, BlankOK DEF HonTop, HonFrame
  <2>5. ~(d = External /\ stopping)
    BY <1>1, NotStopping
  <2>6. ~(Blank.k = "body" /\ Blank.id = 0) /\ ~(e.k = "finish")
    BY <1>1 DEF Blank
  <2>7. AboveOf(handle, f, Blank) /\ SubmitOK(Blank, handle)
    BY BlankOK
  <2> QED
    BY <1>1, <1>3, <2>1, <2>2, <2>3, <2>4, <2>5, <2>6, <2>7 DEF Turns, Goes
<1> QED
  BY <1>4, <1>6, <1>7, BlankOK

\* A phase of a submission that changes no shared state keeps the invariant.
LEMMA SubmitPlain ==
    ASSUME NEW w, NEW s, NEW h, NEW r, Sound(w, s, h, r),
           NEW t \in Thread, NEW d, NEW n, NEW e, OnTop(t, d, n, e), NEW f, SubmitOn(e, f), f.id = e.id,
           Swap(d, n, e, f, Blank),
           UNCHANGED <<program, slots, alloc, live, queues, fibers, on, stopping, exited, history, remaining>>
    PROVE  Sound(w, s, h, r)'
<1>1. e.k = "submit" /\ f.k = "submit" /\ f.job = e.job
  BY DEF SubmitOn, SubmitFrame
<1>2. HolderOK(e) /\ FrameFuture(h, e)
  BY TopFacts
<1>3. HolderOK(f) /\ HolderOK(Blank)
  BY <1>1, <1>2, BlankHolds DEF HolderOK
<1>4. HoldSame(e, f, Blank)
  BY <1>1, BlankHolds DEF HoldSame, Holds, Draining
<1>5. FrameQuiet(h, e, f, Blank)
  BY <1>1, BlankHolds, BlankOK DEF FrameQuiet, Asks, FrameFuture
<1>6. Turns(d, n, e, f, Blank) /\ CountedHere(r, e, f, Blank) /\ FrameDeps(f) /\ FrameDeps(Blank)
  BY SubmitTurns DEF history
<1> QED
  BY <1>3, <1>4, <1>5, <1>6, PlainStep
=============================================================================
