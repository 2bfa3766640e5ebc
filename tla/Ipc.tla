-------------------------------- MODULE Ipc --------------------------------
(***************************************************************************)
(* The control socket (ipc.rs): connections, one-shot requests, buffered   *)
(* responses and the interest registered with epoll.  The last section is  *)
(* the environment: the clients on the other end of the sockets (cli/).    *)
(***************************************************************************)
EXTENDS App, FiniteSets

CONSTANTS
    Clients, NoClient,
    Requests,           \* [op : {"start","stop","query"}, force, targets]
    MaxConnections,     \* GlobalConfig::max_control_connections
    ResponseChunks,     \* the size of a response in chunks, and
    SocketChunks,       \* what a client's socket holds before writes block
    Patient             \* clients never hang up before they are answered

ASSUME IpcAssumption ==
    /\ NoClient \notin Clients
    /\ Requests \subseteq [op : {"start", "stop", "query"}, force : BOOLEAN,
                           targets : SUBSET Apps]
    /\ MaxConnections \in Nat
    /\ ResponseChunks \in Nat \ {0} /\ SocketChunks \in Nat \ {0}
    /\ Patient \in BOOLEAN

VARIABLES
    conns,      \* Server::connections
    client,     \* the clients
    backlog     \* clients waiting for accept

ipcVars == <<conns, client, backlog>>

(* Connection: read_buf is empty between two events, so the request itself is
   looked up at the client; write_buf is the number of chunks it holds. *)
NewConn(c) ==
    [client |-> c, write_buf |-> 0, close_after_flush |-> FALSE,
     writable_registered |-> FALSE]

NoConn == NewConn(NoClient)

ConnRecord ==
    [client : Clients \cup {NoClient}, write_buf : 0..ResponseChunks,
     close_after_flush : BOOLEAN, writable_registered : BOOLEAN]

(* A client: st is open from connect to close, quit when it hung up itself,
   shut when the daemon closed the connection; line is its request, unread
   until the daemon reads it; inq chunks of the response wait in its socket,
   got chunks were read. *)
ClientRecord ==
    [st : {"idle", "open", "quit", "shut", "rejected"}, req : Requests,
     line : {"none", "unread", "read"}, inq : 0..SocketChunks,
     got : 0..ResponseChunks]

IpcTypeOK ==
    /\ conns \in [Tokens -> ConnRecord]
    /\ client \in [Clients -> ClientRecord]
    /\ backlog \subseteq Clients

IdleClient(r) ==
    [st |-> "idle", req |-> r, line |-> "none", inq |-> 0, got |-> 0]

IpcInit ==
    /\ conns = [t \in Tokens |-> NoConn]
    /\ client \in [Clients -> {IdleClient(r) : r \in Requests}]
    /\ backlog = {}

IsKnown(t) == t \in Tokens /\ conns[t].client # NoClient
Connected == {t \in Tokens : IsKnown(t)}
ConnOf(c) == {t \in Tokens : conns[t].client = c}
Peer(t) == client[conns[t].client]

(* What epoll would report of a connection now. *)
ConnReadable(t) == Peer(t).line = "unread" \/ Peer(t).st = "quit"
ConnWritable(t) ==
    /\ conns[t].writable_registered
    /\ Peer(t).inq < SocketChunks \/ Peer(t).st = "quit"

-----------------------------------------------------------------------------
(* Server::accept_all, one connection at a time *)

Reject(c) ==
    /\ backlog' = backlog \ {c}
    /\ client' = [client EXCEPT ![c].st = IF @ = "quit" THEN @ ELSE "rejected"]
    /\ UNCHANGED <<conns, vacant, ready>>

AcceptOne(c) ==
    \/ /\ Cardinality(Connected) >= MaxConnections \/ vacant = <<>>
       /\ Reject(c)
    \/ /\ Cardinality(Connected) < MaxConnections /\ vacant # <<>>
       /\ backlog' = backlog \ {c}
       /\ conns' = [conns EXCEPT ![vacant[1]] = NewConn(c)]
       /\ vacant' = Allocate(vacant, 1)
       /\ ready' = ready \cup {vacant[1]}
       /\ UNCHANGED client

(* register fails: the stream is dropped, its token is not freed. *)
AcceptLeaks(c) ==
    /\ "register" \in Faults
    /\ Cardinality(Connected) < MaxConnections /\ vacant # <<>>
    /\ backlog' = backlog \ {c}
    /\ client' = [client EXCEPT ![c].st = IF @ = "quit" THEN @ ELSE "rejected"]
    /\ vacant' = Allocate(vacant, 1)
    /\ UNCHANGED <<conns, ready>>

-----------------------------------------------------------------------------
(* Server::handle_readable, handle_writable, reconcile and close *)

(* The client p after the daemon sent it n chunks and closed. *)
Shut(p, n) ==
    [p EXCEPT !.st = IF p.st = "quit" THEN "quit" ELSE "shut", !.inq = @ + n]

(* close: the token is deregistered and freed; n more chunks reached the
   client before. *)
Close(t, n) ==
    /\ conns' = [conns EXCEPT ![t] = NoConn]
    /\ client' = [client EXCEPT ![conns[t].client] = Shut(@, n)]
    /\ vacant' = Free(vacant, t)
    /\ ready' = ready \ {t}

(* read fails with ECONNRESET: the client hung up on an unread response. *)
ReadFails(t) == Peer(t).st = "quit" /\ Peer(t).inq > 0

(* Mutant: the request stays in the buffer and is served again. *)
ReadRequest_NotConsumed(t) ==
    /\ conns' = [conns EXCEPT ![t].close_after_flush =
                    @ \/ Peer(t).st = "quit"]
    /\ UNCHANGED <<client, backlog, vacant, ready>>

(* handle_readable once it has read everything: a request is in read_buf, and
   end of file was seen if the client hung up. *)
ReadRequest(t) ==
    /\ client' = [client EXCEPT ![conns[t].client].line = "read"]
    /\ conns' = [conns EXCEPT ![t].close_after_flush =
                    @ \/ Peer(t).st = "quit"]
    /\ UNCHANGED <<backlog, vacant, ready>>

(* Mutant: a connection is closed with its response still in write_buf. *)
ShouldClose_BeforeFlush(c, left) == c.close_after_flush

ShouldClose(c, left) == c.close_after_flush /\ left = 0

(* handle_writable (when the event says writable) and reconcile, on the
   connection c that handle_readable left behind token t.  The write fails
   with EPIPE when the client hung up; a changed interest is registered
   again, which makes epoll look at the socket afresh. *)
FlushAndReconcile(t, c, writable) ==
    LET room == SocketChunks - Peer(t).inq
        sent == IF ~writable \/ Peer(t).st = "quit" THEN 0
                ELSE IF c.write_buf <= room THEN c.write_buf ELSE room
        left == c.write_buf - sent
        broken == writable /\ Peer(t).st = "quit" /\ c.write_buf > 0
    IN /\ UNCHANGED backlog
       /\ IF broken \/ ShouldClose(c, left)
          THEN Close(t, sent)
          ELSE /\ conns' = [conns EXCEPT ![t] =
                      [c EXCEPT !.write_buf = left,
                                !.writable_registered = left > 0]]
               /\ client' = [client EXCEPT ![c.client].inq = @ + sent]
               /\ ready' = IF c.writable_registered = (left > 0)
                           THEN ready ELSE ready \cup {t}
               /\ UNCHANGED vacant

(* Mutant: writable events are not acted on. *)
ServeIdle_NoFlush(t, readable, writable) ==
    FlushAndReconcile(t,
        [conns[t] EXCEPT !.close_after_flush =
            @ \/ (readable /\ Peer(t).st = "quit")],
        FALSE)

(* An event without a request to serve. *)
ServeIdle(t, readable, writable) ==
    FlushAndReconcile(t,
        [conns[t] EXCEPT !.close_after_flush =
            @ \/ (readable /\ Peer(t).st = "quit")],
        writable)

(* queue_response at the end of handle_readable, and what follows it. *)
Respond(t, writable) ==
    FlushAndReconcile(t,
        [conns[t] EXCEPT !.write_buf = @ + ResponseChunks,
                         !.close_after_flush = TRUE],
        writable)

-----------------------------------------------------------------------------
(* The environment: a client connects, sends one request, reads the response
   as it arrives, and may hang up before.  A client whose connection is over
   may come back with another request. *)

Connect(c) ==
    /\ client[c].st = "idle"
    /\ client' = [client EXCEPT ![c].st = "open"]
    /\ backlog' = backlog \cup {c}
    /\ ready' = ready \cup {UNIX_LISTENER_TOKEN}
    /\ UNCHANGED conns

Send(c) ==
    /\ client[c].st = "open" /\ client[c].line = "none"
    /\ client' = [client EXCEPT ![c].line = "unread"]
    /\ ready' = ready \cup ConnOf(c)
    /\ UNCHANGED <<conns, backlog>>

Receive(c) ==
    /\ client[c].st \in {"open", "shut"} /\ client[c].inq > 0
    /\ client' = [client EXCEPT ![c].inq = @ - 1, ![c].got = @ + 1]
    /\ ready' = ready \cup ConnOf(c)
    /\ UNCHANGED <<conns, backlog>>

HangUp(c) ==
    /\ ~Patient /\ client[c].st = "open"
    /\ client' = [client EXCEPT ![c].st = "quit"]
    /\ ready' = ready \cup ConnOf(c)
    /\ UNCHANGED <<conns, backlog>>

ComeBack(c) ==
    /\ client[c].st \in {"shut", "rejected", "quit"}
    /\ client[c].st = "shut" => client[c].inq = 0
    /\ ConnOf(c) = {} /\ c \notin backlog
    /\ \E r \in Requests :
          client' = [client EXCEPT ![c] = IdleClient(r)]
    /\ UNCHANGED <<conns, backlog, ready>>

ClientStep(c) ==
    /\ Connect(c) \/ Send(c) \/ Receive(c) \/ HangUp(c) \/ ComeBack(c)
    /\ UNCHANGED <<params, app, vacant, cgroup, proc>>
=============================================================================
