---------------------------- MODULE MCScheduler ----------------------------
\* Two workers, one of each pool, and the thread that runs main.
EXTENDS Scheduler, TLC

CONSTANTS w1, w2, ext, f1, f2

TwoPools == (w1 :> 0) @@ (w2 :> 1)
OnePool == (w1 :> 0) @@ (w2 :> 0)

Pooled(calls, efficient) ==
    [calls |-> calls, pool |-> [j \in DOMAIN calls |-> IF j \in efficient THEN 1 ELSE 0],
     given |-> [j \in DOMAIN calls |-> {}], fibers |-> FALSE]
Giving(p, jobs, handles) == [p EXCEPT !.given = [j \in DOMAIN @ |-> IF j \in jobs THEN handles ELSE {}]]
OnFibers(p) == [p EXCEPT !.fibers = TRUE]

\* A dependency, and a job that waits for its own child.
Chain == Pooled(
    "main" :> <<Submit("A"), SubmitAfter("B", "A"), Wait("B"), Stop>>
    @@ "A" :> <<Submit("C"), Wait("C")>> @@ "B" :> <<>> @@ "C" :> <<>>, {"B", "C"})

\* Two jobs after the same one; stop() with jobs in flight.
Fork == Pooled(
    "main" :> <<Submit("A"), SubmitAfter("B", "A"), SubmitAfter("C", "A"), Stop>>
    @@ "A" :> <<>> @@ "B" :> <<>> @@ "C" :> <<>>, {"C"})

\* parallel_for() inside a job.
Loops == Pooled(
    "main" :> <<Submit("A"), Wait("A"), Stop>>
    @@ "A" :> <<ParFor(<<"c1", "c2">>)>> @@ "c1" :> <<>> @@ "c2" :> <<>>, {"c1", "c2"})

\* More jobs than slots: the handle of A outlives A, and while main submits D after
\* A, A may end and its slot become E's.
Storm == Pooled(
    "main" :> <<Submit("A"), Submit("B"), SubmitAfter("D", "A"), Wait("A"), Wait("D"), Stop>>
    @@ "A" :> <<>> @@ "B" :> <<Submit("C"), Submit("E")>>
    @@ "C" :> <<>> @@ "D" :> <<>> @@ "E" :> <<>>, {"B", "D"})

\* Jobs that wait for their own children at the same time.
Nested == Pooled(
    "main" :> <<Submit("A"), Submit("B"), Wait("A"), Wait("B"), Stop>>
    @@ "A" :> <<Submit("C"), Wait("C")>> @@ "B" :> <<Submit("D"), Wait("D")>>
    @@ "C" :> <<>> @@ "D" :> <<>>, {"D"})

\* Two jobs wait for the same third one.
Shared == Giving(Pooled(
    "main" :> <<Submit("C"), Submit("A"), Submit("B"), Wait("A"), Wait("B"), Stop>>
    @@ "A" :> <<Wait("C")>> @@ "B" :> <<Wait("C")>> @@ "C" :> <<>>, {"B"}), {"A", "B"}, {"C"})

\* On the thread backend, and on fibers.
BothBackends ==
    {Chain, Fork, Loops, Storm, Nested} \cup {OnFibers(p) : p \in {Chain, Loops, Nested, Shared}}

\* A parallel_for() in one job, a wait() in another, on fibers.
Mixed == {OnFibers(Pooled(
    "main" :> <<Submit("A"), Submit("B"), Stop>>
    @@ "A" :> <<ParFor(<<"c1", "c2">>)>> @@ "c1" :> <<>> @@ "c2" :> <<>>
    @@ "B" :> <<Submit("C"), Wait("C")>> @@ "C" :> <<>>, {}))}
=============================================================================
