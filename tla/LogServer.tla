----------------------------- MODULE LogServer -----------------------------
(***************************************************************************)
(* The log socket (log_ipc.rs): clients dump or follow the log buffer of   *)
(* an application.  A connection has no buffer of its own, only a cursor   *)
(* into the ring, which the application's output overwrites meanwhile.     *)
(* Byte i of the log is the number i, so what a client receives shows      *)
(* where it came from.  Tokens are left to module Supervisor: the server   *)
(* takes and frees them the way the control socket does.                   *)
(***************************************************************************)
EXTENDS RingBuffer, FiniteSets, SequencesExt

CONSTANTS
    Clients,
    MaxConnections,     \* GlobalConfig::max_log_connections
    SocketSize,         \* bytes a client's socket holds before writes block
    MaxBytes,           \* bound on the bytes logged
    MaxCapture,         \* and on those that come in between two steps
    NoBound             \* dump_until: None

(* Here write_pos does not overflow, see LogCapture for that. *)
ASSUME LogServerAssumption ==
    /\ MaxConnections \in Nat /\ SocketSize \in Nat \ {0}
    /\ MaxBytes \in 0..(PosLimit - 1) /\ MaxCapture \in Nat \ {0}
    /\ NoBound \notin Nat

VARIABLES
    conn,       \* the connections, by client
    peer,       \* the clients' end
    ready,      \* connections with an edge epoll has not reported
    backlog,    \* an edge of the listener
    pc,         \* "events", "send" or "push"
    job,        \* the connection try_send works for, and what called it
    todo        \* the followers push_updates has still to serve

vars == <<ringVars, conn, peer, ready, backlog, pc, job, todo>>

NoJob == <<"none", "none">>

(* Connection: state is absent, awaiting (AwaitingRequest) or streaming, with
   the fields of the Subscription. *)
Absent ==
    [state |-> "absent", follow |-> FALSE, cursor |-> 0, dump_until |-> NoBound,
     close_after_flush |-> FALSE, write_blocked |-> FALSE,
     writable_registered |-> FALSE]

(* A client: req is the request it sent (in one or two pieces), known whether
   it names an application; sock holds the bytes it has not read, got those
   it has.  An event's flags are those of the moment it is handled. *)
Idle(follow, known) ==
    [st |-> "idle", req |-> "none", follow |-> follow, known |-> known,
     sock |-> <<>>, got |-> <<>>]

Init ==
    /\ RingInit
    /\ conn = [c \in Clients |-> Absent]
    /\ peer \in [Clients -> {Idle(f, k) : f \in BOOLEAN, k \in BOOLEAN}]
    /\ ready = {} /\ backlog = FALSE
    /\ pc = "events" /\ job = NoJob /\ todo = {}

Connected == {c \in Clients : conn[c].state # "absent"}
Queued == {c \in Clients : peer[c].st = "queued"}
Streaming(c) == conn[c].state = "streaming"

-----------------------------------------------------------------------------
(* The environment.  New output comes in through App::poll, which runs between
   the handlers of this module and never within one. *)

Capture ==
    /\ pc = "events"
    /\ \E n \in 1..MaxCapture :
          /\ n <= Clamp(write_pos, n) /\ write_pos + n <= MaxBytes
          /\ RingWrite([k \in 1..n |-> write_pos + k - 1])
    /\ UNCHANGED <<conn, peer, ready, backlog, pc, job, todo>>

PeerStep(c, p) ==
    /\ peer' = [peer EXCEPT ![c] = p]
    /\ UNCHANGED <<ringVars, conn, pc, job, todo>>

Connect(c) ==
    /\ peer[c].st = "idle"
    /\ PeerStep(c, [peer[c] EXCEPT !.st = "queued"])
    /\ backlog' = TRUE /\ UNCHANGED ready

SendRequest(c) ==
    /\ peer[c].st \in {"queued", "open"} /\ peer[c].req \in {"none", "part"}
    /\ \E r \in {"part", "full"} \ {peer[c].req} :
          PeerStep(c, [peer[c] EXCEPT !.req = r])
    /\ ready' = ready \cup {c} /\ UNCHANGED backlog

Receive(c) ==
    /\ peer[c].st \in {"open", "closed"} /\ peer[c].sock # <<>>
    /\ PeerStep(c, [peer[c] EXCEPT !.got = @ \o peer[c].sock, !.sock = <<>>])
    /\ ready' = ready \cup {c} /\ UNCHANGED backlog

HangUp(c) ==
    /\ peer[c].st = "open"
    /\ PeerStep(c, [peer[c] EXCEPT !.st = "quit"])
    /\ ready' = ready \cup {c} /\ UNCHANGED backlog

-----------------------------------------------------------------------------
(* accept_all: connections over the limit are dropped without a word. *)
AcceptAll ==
    /\ pc = "events" /\ backlog
    /\ \E c \in Queued :
          LET free == Cardinality(Connected) < MaxConnections IN
          /\ conn' = IF free THEN [conn EXCEPT ![c].state = "awaiting"] ELSE conn
          /\ peer' = [peer EXCEPT ![c].st = IF free THEN "open" ELSE "dropped"]
          /\ ready' = ready \cup {c}
          /\ backlog' = (Queued # {c})
    /\ UNCHANGED <<ringVars, pc, job, todo>>

-----------------------------------------------------------------------------
(* handle_readable, handle_writable, try_send, reconcile, close *)

Readable(c) == peer[c].req \in {"part", "full"} \/ peer[c].st = "quit"
Writable(c) ==
    /\ conn[c].writable_registered
    /\ Len(peer[c].sock) < SocketSize \/ peer[c].st = "quit"

(* close, after which the client may still read what is in its socket. *)
Close(c) ==
    /\ conn' = [conn EXCEPT ![c] = Absent]
    /\ peer' = [peer EXCEPT ![c].st = IF @ = "quit" THEN @ ELSE "closed"]
    /\ ready' = ready \ {c}

(* Mutant: the interest is not registered again. *)
Reconcile_KeepsInterest(c, k) ==
    IF k.close_after_flush /\ ~k.write_blocked THEN Close(c)
    ELSE conn' = [conn EXCEPT ![c] = k] /\ UNCHANGED <<ready, peer>>

(* reconcile, for a connection that the handler left as k. *)
Reconcile(c, k) ==
    IF k.close_after_flush /\ ~k.write_blocked THEN Close(c)
    ELSE /\ conn' = [conn EXCEPT ![c] =
                [k EXCEPT !.writable_registered = k.write_blocked]]
         /\ ready' = IF k.writable_registered = k.write_blocked
                     THEN ready ELSE ready \cup {c}
         /\ UNCHANGED peer

(* Mutant: a dump ends at what the buffer holds, taken for a position. *)
Subscribed_ToFilling(c, k) ==
    [k EXCEPT !.state = "streaming", !.follow = peer[c].follow,
              !.dump_until = IF peer[c].follow THEN NoBound
                             ELSE write_pos - StartPos]

(* What handle_readable makes of a full request: the subscription starts at
   offset 0, and a dump ends at the current write position. *)
Subscribed(c, k) ==
    [k EXCEPT !.state = "streaming", !.follow = peer[c].follow,
              !.dump_until = IF peer[c].follow THEN NoBound ELSE write_pos]

(* An event of a connection.  A client that hung up on unread bytes makes the
   read fail; a request that is incomplete or names no application sends
   nothing; otherwise try_send starts, at pc = "send". *)
HandleEvent(c) ==
    LET quit == peer[c].st = "quit"
        eof  == [conn[c] EXCEPT !.close_after_flush = @ \/ quit]
        new  == conn[c].state = "awaiting" /\ peer[c].req = "full"
    IN /\ pc = "events" /\ c \in ready \cap Connected
       /\ Readable(c) \/ Writable(c)
       /\ UNCHANGED <<ringVars, backlog, todo>>
       /\ \/ /\ quit /\ peer[c].sock # <<>>
             /\ Close(c) /\ UNCHANGED <<pc, job>>
          \/ /\ ~(quit /\ peer[c].sock # <<>>)
             /\ Streaming(c) \/ (new /\ peer[c].known)
             /\ conn' = [conn EXCEPT ![c] =
                            IF new THEN Subscribed(c, eof) ELSE eof]
             /\ peer' = [peer EXCEPT ![c].req = "read"]
             /\ ready' = ready \ {c}
             /\ pc' = "send" /\ job' = <<"event", c>>
          \/ /\ ~(quit /\ peer[c].sock # <<>>)
             /\ ~Streaming(c) /\ ~(new /\ peer[c].known)
             /\ IF eof.close_after_flush \/ new THEN Close(c)
                ELSE ready' = ready \ {c} /\ UNCHANGED <<conn, peer>>
             /\ UNCHANGED <<pc, job>>

(* One round of the loop in try_send: the cursor skips what was overwritten,
   and n bytes of the chunk go out. *)
SendChunk ==
    LET c     == job[2]
        chunk == ReadFromCursor(conn[c].cursor)
        room  == SocketSize - Len(peer[c].sock)
        n     == IF Len(chunk.buffer) <= room THEN Len(chunk.buffer) ELSE room
    IN /\ pc = "send" /\ peer[c].st # "quit" /\ n > 0
       /\ conn' = [conn EXCEPT ![c].cursor = @ + chunk.missed + n]
       /\ peer' = [peer EXCEPT ![c].sock = @ \o SubSeq(chunk.buffer, 1, n)]
       /\ UNCHANGED <<ringVars, ready, backlog, pc, job, todo>>

(* The loop ends when the log is exhausted or the socket full, or with EPIPE
   when the client is gone; then the caller reconciles. *)
SendDone ==
    LET c       == job[2]
        chunk   == ReadFromCursor(conn[c].cursor)
        blocked == chunk.buffer # <<>>
        cursor  == conn[c].cursor + chunk.missed
        dumped  == /\ ~blocked /\ conn[c].dump_until # NoBound
                   /\ cursor >= conn[c].dump_until
    IN /\ pc = "send"
       /\ \/ peer[c].st = "quit" \/ chunk.buffer = <<>>
          \/ Len(peer[c].sock) = SocketSize
       /\ IF blocked /\ peer[c].st = "quit" THEN Close(c)
          ELSE Reconcile(c, [conn[c] EXCEPT
                  !.cursor = cursor, !.write_blocked = blocked,
                  !.close_after_flush = @ \/ dumped])
       /\ pc' = IF job[1] = "push" THEN "push" ELSE "events"
       /\ job' = NoJob
       /\ UNCHANGED <<ringVars, backlog, todo>>

(* Mutant: only connections that are blocked are pushed to. *)
StartPush_BlockedOnly ==
    /\ pc = "events"
    /\ pc' = "push"
    /\ todo' = {c \in Connected : conn[c].write_blocked /\ conn[c].follow}
    /\ UNCHANGED <<ringVars, conn, peer, ready, backlog, job>>

(* push_updates, at the end of an iteration of the main loop *)
StartPush ==
    /\ pc = "events"
    /\ pc' = "push"
    /\ todo' = {c \in Connected : Streaming(c) /\ conn[c].follow}
    /\ UNCHANGED <<ringVars, conn, peer, ready, backlog, job>>

PushOne(c) ==
    /\ pc = "push" /\ c \in todo
    /\ todo' = todo \ {c}
    /\ pc' = "send" /\ job' = <<"push", c>>
    /\ UNCHANGED <<ringVars, conn, peer, ready, backlog>>

(* The loop waits for events now. *)
EndPush ==
    /\ pc = "push" /\ todo = {}
    /\ pc' = "poll"
    /\ UNCHANGED <<ringVars, conn, peer, ready, backlog, job, todo>>

Poll ==
    /\ pc = "poll"
    /\ pc' = "events"
    /\ UNCHANGED <<ringVars, conn, peer, ready, backlog, job, todo>>

Daemon ==
    \/ AcceptAll \/ SendChunk \/ SendDone \/ StartPush \/ EndPush \/ Poll
    \/ \E c \in Clients : HandleEvent(c) \/ PushOne(c)

Environment ==
    \/ Capture
    \/ \E c \in Clients : Connect(c) \/ SendRequest(c) \/ Receive(c) \/ HangUp(c)

Next == Daemon \/ Environment

Spec == Init /\ [][Next]_vars

(* Events are handled before the loop waits again; clients read on. *)
Fairness ==
    /\ WF_vars(Daemon)
    /\ SF_vars(AcceptAll)
    /\ \A c \in Clients : SF_vars(HandleEvent(c)) /\ WF_vars(Receive(c))

FairSpec == Spec /\ Fairness

-----------------------------------------------------------------------------
(* All that was sent to a client. *)
Sent(c) == peer[c].got \o peer[c].sock

(* Every variable has its type: no client is sent memory that no byte of the
   log was ever written to. *)
TypeOK ==
    /\ mem \in [0..(Capacity - 1) -> 0..MaxBytes \cup {NoByte}]
    /\ write_pos \in 0..MaxBytes
    /\ \A c \in Clients :
          /\ conn[c].state \in {"absent", "awaiting", "streaming"}
          /\ conn[c].cursor \in 0..MaxBytes
          /\ conn[c].dump_until \in 0..MaxBytes \cup {NoBound}
          /\ peer[c].st \in {"idle", "queued", "open", "quit", "closed",
                             "dropped"}
          /\ peer[c].req \in {"none", "part", "full", "read"}
          /\ Sent(c) \in Seq(0..MaxBytes)
    /\ ready \subseteq Clients /\ todo \subseteq Clients
    /\ pc \in {"events", "send", "push", "poll"}

(* A client gets the log verbatim: in order, no byte twice, and no byte left
   out but those that were overwritten before they could be sent. *)
StreamVerbatim ==
    \A c \in Clients :
       /\ \A i \in 1..(Len(Sent(c)) - 1) : Sent(c)[i] < Sent(c)[i + 1]
       /\ \A b \in 0..(conn[c].cursor - 1) :
             Contains(Sent(c), b) \/ b < StartPos
       /\ \A b \in Range(Sent(c)) : b \in 0..(write_pos - 1)

(* When the loop waits, a follower has all there is or its socket is full and
   will report when it is not. *)
FollowersCurrent ==
    pc = "poll" =>
       \A c \in Connected : Streaming(c) =>
          /\ conn[c].follow /\ ~conn[c].write_blocked
                => conn[c].cursor = write_pos
          /\ conn[c].write_blocked => conn[c].writable_registered
          /\ Writable(c) => c \in ready

(* A connection whose socket was full does not stay so while its client reads:
   it is unblocked, or goes on sending for ever.  No edge is lost between the
   write that blocked and the interest that reconcile registers. *)
BlockedProgresses ==
    \A c \in Clients :
       \/ []<>(~conn[c].write_blocked)
       \/ []<><<conn'[c].cursor > conn[c].cursor>>_vars

(* The streams of LogStream: one begins with the subscription, a dump is late
   from its first blocked write on, and the stream is over once the connection
   is closed. *)
SeenStream(c) ==
    [st    |-> IF Streaming(c)
               THEN IF conn[c].write_blocked /\ conn[c].dump_until # NoBound
                    THEN "late" ELSE "on"
               ELSE IF c \notin Connected /\ peer[c].st \in {"quit", "closed"}
                    THEN "over" ELSE "idle",
     next  |-> conn[c].cursor,
     until |-> conn[c].dump_until,
     sent  |-> Sent(c)]

Stream == INSTANCE LogStream
            WITH Keep <- Capacity, total <- write_pos,
                 stream <- [c \in Clients |-> SeenStream(c)],
                 gone <- {c \in Clients : peer[c].st = "quit"}

(* However the ring, the sockets and the events interleave, what clients of
   the log socket see is what LogStream promises: log_ipc.rs implements it.  In
   particular a dump sends nothing past dump_until, "the offset to stop at",
   while no write of it blocked; one that did block ends where it catches up. *)
ImplementsLogStream == Stream!StreamSpec
=============================================================================
