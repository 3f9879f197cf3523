------------------------------- MODULE MCIpc -------------------------------
\* The editor's IPC server with two panels: one with the session token that sends
\* a ping, a message, its goodbye and a message too late, and one without the token.
EXTENDS IpcServer

CONSTANTS panel, stranger, m1, m2, b1, b2, t1

Panels == {panel, stranger}
Messages == {m1, m2}
TwoBroadcasts == <<b1, b2>>
Threads == {t1}
Scripts == [p \in Panels |-> IF p = panel THEN <<"hello", "ping", m1, "bye", m2>>
                            ELSE <<"stranger">>]
=============================================================================
