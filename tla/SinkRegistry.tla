---------------------------- MODULE SinkRegistry ----------------------------
(***************************************************************************)
(* What log::add_sink, remove_sink and remove_all_sinks promise (Log.h):    *)
(* one list of sinks that changes at once and by one call at a time.        *)
(***************************************************************************)
EXTENDS Sequences

CONSTANT Sink

VARIABLE sinks      \* the registered sinks, in the order of their calls

Init == sinks = <<>>

Add(s) == sinks' = Append(sinks, s)

\* "leaving every other registered sink intact"
Others(list, s) == SelectSeq(list, LAMBDA x : x # s)
Remove(s) == sinks' = Others(sinks, s)

RemoveAll == sinks' = <<>>

Next == (\E s \in Sink : Add(s) \/ Remove(s)) \/ RemoveAll

Spec == Init /\ [][Next]_sinks
=============================================================================
