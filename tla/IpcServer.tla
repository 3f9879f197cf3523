----------------------------- MODULE IpcServer -----------------------------
(***************************************************************************)
(* The editor's IPC server (engine/editor/ipc/Server.cpp): an I/O thread    *)
(* serves WebSocket panels, the engine thread starts, stops and pumps the   *)
(* server, and any thread may broadcast.                                    *)
(*                                                                         *)
(* A socket carries whole items: an upgrade request, a frame or a response. *)
(* A chunk that recv() returns is a run of them: an item the chunk cuts in  *)
(* two counts as not yet read, as try_handshake and parse_frame leave it    *)
(* where it is until the rest has come.  What only the I/O thread or only   *)
(* the engine thread touches takes no step of its own.  The bytes of        *)
(* requests and frames, the SHA-1 of the handshake and a socket that is not *)
(* writable for a while are left out.                                       *)
(***************************************************************************)
EXTENDS Integers, Sequences, FiniteSets, SequencesExt

CONSTANTS
    Peer,           \* the panels; each connects at most once
    Script,         \* Script[p]: what p sends, the request first
    Message,        \* the data frames among it
    Caster,         \* the threads that broadcast
    Broadcasts,     \* what is broadcast, in the order the calls begin
    MaxSessions     \* bound: how often the server is started

\* Other items a peer may send: a request with the session token, without it or
\* without a key; a ping, a pong, a fragment and a close frame.  A server that asks
\* for no token takes each request with a key for a "hello".
Requests == {"hello", "stranger", "keyless"}
Control == {"ping", "pong", "fragment", "bye"}

ASSUME ScriptAssumption ==
    \A p \in Peer :
        /\ Script[p] \in Seq(Requests \cup Control \cup Message) /\ Script[p] # <<>>
        /\ \A i \in DOMAIN Script[p] : Script[p][i] \in Requests <=> i = 1
\* A message is told by who sends it.
ASSUME MessageAssumption ==
    /\ Message \cap (Requests \cup Control) = {}
    /\ \A p, q \in Peer : p # q => Range(Script[p]) \cap Range(Script[q]) \cap Message = {}
\* The server's own answers.
Replies == {"101", "400", "401", "pong", "bye"}
ASSUME BroadcastAssumption ==
    /\ Broadcasts \in Seq(Range(Broadcasts)) /\ IsInjective(Broadcasts)
    /\ Range(Broadcasts) \cap Replies = {}
ASSUME BoundAssumption == MaxSessions \in Nat

VARIABLES
    running,    \* ServerImpl::running
    stopping,   \* whether stop() waits for the I/O thread
    io,         \* what the I/O thread does next
    ready,      \* the sets select() returned
    clients,    \* ServerImpl::clients, in order
    client,     \* their state
    pending,    \* pending_broadcasts
    inbound,    \* inbound_messages
    hooked,     \* whether on_message_cb is set, which is done before the first start()
    casting,    \* what each broadcasting thread is about to queue
    casts,      \* how many broadcasts have been begun
    sessions,   \* how often start() was called
    link,       \* each peer's connection: none, queued, open or cut
    there,      \* the peers whose end of the connection is open
    sent,       \* how much of its script each peer has sent
    up, down,   \* what is on its way to the server, and what each peer got
    aired,      \* history: the broadcasts of this session, as they went out
    since,      \* history: how much had gone out when each peer was upgraded
    heard       \* history: what the callback was given

server == <<running, stopping, io, ready, clients, client>>
queues == <<pending, inbound, hooked, casting, casts, sessions>>
wire == <<link, there, sent, up, down>>
history == <<aired, since, heard>>
vars == <<server, queues, wire, history>>

\* The elements of q that are in S, in their order.
Only(S, q) ==
    LET f[n \in Nat] ==
          IF n = 0 THEN <<>>
          ELSE IF q[n] \in S THEN Append(f[n - 1], q[n]) ELSE f[n - 1]
    IN  f[Len(q)]

None == "none"
NoSets == [r |-> {}, w |-> {}]
NewClient == [shook |-> FALSE, closing |-> FALSE, rx |-> <<>>, tx |-> <<>>]

Init ==
    /\ running = FALSE /\ stopping = FALSE /\ io = "none" /\ ready = NoSets
    /\ clients = <<>> /\ client = [p \in Peer |-> NewClient]
    /\ pending = <<>> /\ inbound = <<>> /\ hooked \in BOOLEAN
    /\ casting = [t \in Caster |-> None] /\ casts = 0 /\ sessions = 0
    /\ link = [p \in Peer |-> "none"] /\ there = {} /\ sent = [p \in Peer |-> 0]
    /\ up = [p \in Peer |-> <<>>] /\ down = [p \in Peer |-> <<>>]
    /\ aired = <<>> /\ since = [p \in Peer |-> 0] /\ heard = <<>>

-----------------------------------------------------------------------------
\* The panels.

Listening == io # "none"

Connect(p) ==
    /\ Listening /\ link[p] = "none"
    /\ link' = [link EXCEPT ![p] = "queued"]
    /\ there' = there \cup {p}
    /\ UNCHANGED <<server, queues, sent, up, down, history>>

PeerSends(p) ==
    /\ link[p] \in {"queued", "open"} /\ p \in there /\ sent[p] < Len(Script[p])
    /\ sent' = [sent EXCEPT ![p] = @ + 1]
    /\ up' = [up EXCEPT ![p] = Append(@, Script[p][sent[p] + 1])]
    /\ UNCHANGED <<server, queues, link, there, down, history>>

\* The panel is closed.  What it has sent can still be read.
Vanish(p) ==
    /\ link[p] \in {"queued", "open"} /\ p \in there
    /\ there' = there \ {p}
    /\ UNCHANGED <<server, queues, link, sent, up, down, history>>

-----------------------------------------------------------------------------
\* The engine thread.

Idle == ~stopping

Start ==
    /\ Idle /\ ~running /\ sessions < MaxSessions
    /\ running' = TRUE /\ io' = "round" /\ sessions' = sessions + 1
    /\ aired' = <<>>
    /\ UNCHANGED <<stopping, ready, clients, client, pending, inbound, hooked,
                   casting, casts, wire, since, heard>>

\* stop(): running.exchange(false), then join().
StopBegins ==
    /\ Idle /\ running
    /\ running' = FALSE /\ stopping' = TRUE
    /\ UNCHANGED <<io, ready, clients, client, queues, wire, history>>

\* The connections after a step, l: of one that is cut nothing is kept.
Connections(l) ==
    LET rest(f) == [p \in Peer |-> IF l[p] = "cut" THEN <<>> ELSE f[p]]
    IN  /\ link' = l
        /\ up' = rest(up) /\ down' = rest(down)
        /\ there' = {p \in there : l[p] # "cut"}
        /\ sent' = [p \in Peer |-> IF l[p] = "cut" THEN 0 ELSE sent[p]]
        /\ since' = [p \in Peer |-> IF l[p] = "cut" THEN 0 ELSE since[p]]
CutOff(state) == [p \in Peer |-> IF link[p] = state THEN "cut" ELSE link[p]]

\* Mutant: the queues are left as they are.
ClearedNothing == UNCHANGED <<pending, inbound>>
Cleared == pending' = <<>> /\ inbound' = <<>>

\* The I/O thread has ended: the listening socket goes, with the connections
\* that were never accepted, and the queues are cleared.
StopEnds ==
    /\ stopping /\ io = "done"
    /\ stopping' = FALSE /\ io' = "none"
    /\ Cleared
    /\ Connections(CutOff("queued"))
    /\ UNCHANGED <<running, ready, clients, client, hooked, casting, casts, sessions,
                   aired, heard>>

\* pump(): without a callback what was queued is lost.
Pump ==
    /\ Idle /\ inbound # <<>>
    /\ inbound' = <<>>
    /\ heard' = IF hooked THEN heard \o inbound ELSE heard
    /\ UNCHANGED <<server, pending, hooked, casting, casts, sessions, wire, aired, since>>

-----------------------------------------------------------------------------
\* broadcast(): whether the server runs is asked first, and the queue is
\* locked later.

CastBegins(t) ==
    /\ casting[t] = None /\ casts < Len(Broadcasts) /\ running
    /\ casts' = casts + 1
    /\ casting' = [casting EXCEPT ![t] = Broadcasts[casts + 1]]
    /\ UNCHANGED <<server, pending, inbound, hooked, sessions, wire, history>>

CastQueues(t) ==
    /\ casting[t] # None
    /\ pending' = Append(pending, casting[t])
    /\ casting' = [casting EXCEPT ![t] = None]
    /\ UNCHANGED <<server, inbound, hooked, casts, sessions, wire, history>>

-----------------------------------------------------------------------------
\* The I/O thread (io_loop).

\* Clients that are to be closed and have been sent everything go.
\* Mutant: a client goes as soon as it is to be closed.
ClosingAtOnce(p) == client[p].closing
Finished(p) == client[p].closing /\ client[p].tx = <<>>
Kept == Only({p \in Peer : ~Finished(p)}, clients)
Reaped == [p \in Peer |->
             IF p \in Range(clients) /\ Finished(p) THEN "cut" ELSE link[p]]

\* Readable: there is data, or the peer is gone and recv() will say so.
Readable == {p \in Range(Kept) : up[p] # <<>> \/ p \notin there}
Unsent == {p \in Range(Kept) : client[p].tx # <<>>}
Backlog == {p \in Peer : link[p] = "queued"}

\* After the loop every client is closed.
Closed ==
    /\ clients' = <<>>
    /\ client' = [p \in Peer |-> NewClient]
    /\ Connections(CutOff("open"))

\* From the end of a round into the next: what is finished is reaped, `running`
\* is read, select() waits at most 50 ms, and one connection is accepted.
IoRound ==
    /\ io = "round"
    /\ IF running
       THEN /\ io' = "serve"
            /\ ready' = [r |-> Readable, w |-> Unsent]
            /\ IF Backlog # {}
               THEN \E p \in Backlog : /\ clients' = Append(Kept, p)
                                       /\ Connections([Reaped EXCEPT ![p] = "open"])
               ELSE clients' = Kept /\ Connections(Reaped)
            /\ client' = [p \in Peer |-> IF p \in Range(Kept) THEN client[p] ELSE NewClient]
       ELSE io' = "done" /\ ready' = NoSets /\ Closed
    /\ UNCHANGED <<running, stopping, queues, aired, heard>>

\* Mutant: whoever is connected gets the broadcasts.
AnyClient(p) == ~client[p].closing
Tuned(p) == client[p].shook /\ ~client[p].closing

\* The broadcasts go to the send queue of every upgraded client.
Drained(p) ==
    IF p \in Range(clients) /\ Tuned(p) THEN [client[p] EXCEPT !.tx = @ \o pending]
    ELSE client[p]

\* try_handshake().
Shaken(cl) ==
    IF cl.shook \/ cl.closing \/ cl.rx = <<>> THEN cl
    ELSE IF Head(cl.rx) = "hello"
    THEN [cl EXCEPT !.rx = Tail(@), !.tx = Append(@, "101"), !.shook = TRUE]
    ELSE [cl EXCEPT !.rx = Tail(@), !.closing = TRUE,
                    !.tx = Append(@, IF Head(cl.rx) = "keyless" THEN "400" ELSE "401")]

\* Mutant: the frames behind a close frame in the same chunk are handled too.
AllFrames(cl) == IF ~cl.shook \/ cl.closing THEN <<>> ELSE cl.rx
\* The loop over the frames: up to the first close frame they are handled.
Frames(cl) ==
    IF ~cl.shook \/ cl.closing THEN <<>>
    ELSE LET close == SelectInSeq(cl.rx, LAMBDA i : i = "bye")
         IN  IF close = 0 THEN cl.rx ELSE SubSeq(cl.rx, 1, close)

Answers == [bye |-> "bye", ping |-> "pong"]
Parsed(cl) ==
    LET done == Frames(cl)
        asked == Only({"ping", "bye"}, done)
    IN  [cl EXCEPT !.rx = SubSeq(@, Len(done) + 1, Len(@)),
                   !.tx = @ \o [i \in DOMAIN asked |-> Answers[asked[i]]],
                   !.closing = @ \/ (done # <<>> /\ Last(done) = "bye")]

Surfaced(cl) == Only(Message, Frames(cl))

\* recv(): what has come, or the end of the stream; of a panel that is gone what
\* it sent may be lost (ECONNRESET).
Received(p, reset) ==
    IF p \notin ready.r THEN Drained(p)
    ELSE IF up[p] = <<>> \/ p \in reset THEN [Drained(p) EXCEPT !.closing = TRUE]
    ELSE [Drained(p) EXCEPT !.rx = @ \o up[p]]

\* send() of the first frame: to a panel that is gone it goes nowhere or fails.
Sends(p, cl) == p \in ready.w /\ cl.tx # <<>>
Written(p, cl, reset) ==
    IF ~Sends(p, cl) THEN cl
    ELSE IF p \in reset THEN [cl EXCEPT !.closing = TRUE]
    ELSE [cl EXCEPT !.tx = Tail(@)]

\* The rest of a round: the broadcasts are taken, and each client is read,
\* upgraded, parsed and sent to, in order.
IoServe ==
    /\ io = "serve" /\ io' = "round" /\ ready' = NoSets
    /\ pending' = <<>> /\ aired' = aired \o pending
    /\ \E reset \in SUBSET (Range(clients) \ there) :
         LET shaken == [p \in Peer |-> Shaken(Received(p, reset))]
             parsed == [p \in Peer |-> Parsed(shaken[p])]
         IN  /\ inbound' = inbound \o
                   FlattenSeq([i \in DOMAIN clients |-> Surfaced(shaken[clients[i]])])
             /\ since' = [p \in Peer |->
                   IF shaken[p].shook /\ ~client[p].shook THEN Len(aired') ELSE since[p]]
             /\ client' = [p \in Peer |-> Written(p, parsed[p], reset)]
             /\ down' = [p \in Peer |->
                   IF Sends(p, parsed[p]) /\ p \in there
                   THEN Append(down[p], Head(parsed[p].tx)) ELSE down[p]]
    /\ up' = [p \in Peer |-> IF p \in ready.r THEN <<>> ELSE up[p]]
    /\ UNCHANGED <<running, stopping, clients, hooked, casting, casts, sessions,
                   link, there, sent, heard>>

Io == IoRound \/ IoServe

-----------------------------------------------------------------------------
Engine == Start \/ StopBegins \/ StopEnds \/ Pump

Next ==
    \/ \E p \in Peer : Connect(p) \/ PeerSends(p) \/ Vanish(p)
    \/ Engine
    \/ \E t \in Caster : CastBegins(t) \/ CastQueues(t)
    \/ Io

Spec == Init /\ [][Next]_vars

-----------------------------------------------------------------------------
\* Correctness.

Frame == Range(Broadcasts) \cup Replies

\* The list of clients is the set of accepted connections, each once; what
\* select() reported is about clients of the list; the queues hold what their
\* types allow; and a running server has an I/O thread.
TypeOK ==
    /\ io \in {"none", "round", "serve", "done"}
    /\ clients \in Seq(Peer)
    /\ \A i, j \in DOMAIN clients : clients[i] = clients[j] => i = j
    /\ Range(clients) = {p \in Peer : link[p] = "open"}
    /\ ready.r \cup ready.w \subseteq Range(clients)
    /\ \A p \in Peer : client[p].tx \in Seq(Frame)
    /\ pending \in Seq(Range(Broadcasts)) /\ inbound \in Seq(Message)
    /\ running => io \notin {"none", "done"}

Casts(q) == Only(Range(Broadcasts), q)
After(q, n) == SubSeq(q, n + 1, Len(q))

\* A panel gets every broadcast that goes out from its upgrade on, once and in
\* order, until its connection is being closed; one that was not upgraded gets
\* none (broadcast).
NoBroadcastMissed ==
    /\ TypeOK
    /\ \A p \in Range(clients) :
          LET got == Casts(down[p]) \o Casts(client[p].tx)
          IN  IF ~client[p].shook THEN got = <<>>
              ELSE IF p \in there /\ ~client[p].closing THEN got = After(aired, since[p])
              ELSE IsPrefix(got, After(aired, since[p])) \/ p \notin there

\* What a panel has said that counts: what was read of it, up to its goodbye or to
\* the request that was refused.
Closers == {"stranger", "keyless", "bye"}
Talk(q) ==
    LET n == SelectInSeq(q, LAMBDA i : i \in Closers)
    IN  IF n = 0 THEN q ELSE SubSeq(q, 1, n)
ReadOf(p) == SubSeq(Script[p], 1, sent[p] - Len(up[p]))

\* The callback, once pump() has run, is given each message of a panel once and in
\* the panel's order, all that was read of it up to its goodbye and nothing after
\* it, however the stream was cut into chunks; of a panel that is gone, maybe less;
\* and of a panel that was refused, nothing.
DataOf(q) == Only(Message, q)
From(p, q) == Only(Range(Script[p]), q)
HeardInOrder ==
    \A p \in Range(clients) :
        LET got == From(p, heard) \o From(p, inbound)
            said == DataOf(Talk(ReadOf(p)))
        IN  IF ~client[p].shook THEN got = <<>>
            ELSE hooked /\ running =>
                   IF p \in there \/ ~client[p].closing THEN got = said
                   ELSE IsPrefix(got, said)

\* A stopped server keeps no message, except that each thread that was in the
\* middle of a broadcast may still leave one behind for the next session.
StaleIsBounded ==
    ~running /\ ~stopping =>
        /\ inbound = <<>>
        /\ Len(pending) + Cardinality({t \in Caster : casting[t] # None})
             <= Cardinality(Caster)

\* A running server cuts off a panel that is still there only if it refused it or
\* the panel has said goodbye, and then the panel has got an answer to its request,
\* to each ping and to the goodbye, once each and in order (close_pending).
Owes == [hello |-> "101", keyless |-> "400", stranger |-> "401", ping |-> "pong", bye |-> "bye"]
Owed(q) ==
    LET asked == Only(DOMAIN Owes, q) IN [i \in DOMAIN asked |-> Owes[asked[i]]]
Answered ==
    [][\A p \in Range(clients) :
         link'[p] = "cut" /\ running /\ p \in there =>
           LET said == Talk(ReadOf(p))
           IN  /\ said # <<>> /\ Last(said) \in Closers
               /\ Only(Replies, down[p]) = Owed(said)]_vars

=============================================================================
