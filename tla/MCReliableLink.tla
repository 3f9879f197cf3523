--------------------------- MODULE MCReliableLink ---------------------------
\* Two hosts.  The messages of a script are all different, so that a lost, a
\* repeated or a misplaced one shows.
EXTENDS ReliableLink, TLC

CONSTANTS a, b

MCHost == {a, b}
MCPeer == (a :> b) @@ (b :> a)
MCPayload == {"m1", "m2", "m3", "m4"}

FourOneWay == (a :> <<"m1", "m2", "m3", "m4">>) @@ (b :> <<>>)
=============================================================================
