----------------------------- MODULE LogStream -----------------------------
(***************************************************************************)
(* What the log socket promises its clients: each is sent the log from its *)
(* beginning, in order, less what was too old when its turn came.  A dump  *)
(* stops at what there was when it began, unless its client fell behind:   *)
(* then it goes on until the client has caught up with the log.  There is  *)
(* no ring here, no socket and no readiness.  LogServer implements this,   *)
(* see Stream there.  Byte i of the log is the number i.                   *)
(***************************************************************************)
EXTENDS Integers, Sequences

CONSTANTS
    Clients,
    Keep,           \* how many bytes of the log are kept
    NoBound         \* the end of a stream that follows the log

VARIABLES
    total,          \* the length of the log
    stream,         \* what each client is being sent
    gone            \* the clients that hung up

streamVars == <<total, stream, gone>>

NoStream == [st |-> "idle", next |-> 0, until |-> NoBound, sent |-> <<>>]

StreamInit ==
    /\ total = 0
    /\ stream = [c \in Clients |-> NoStream]
    /\ gone = {}

(* The first byte from position i on that is still kept. *)
Kept(i) == IF i < total - Keep THEN total - Keep ELSE i

(* The application writes. *)
Grow == total' > total /\ UNCHANGED <<stream, gone>>

Begin(c) ==
    /\ stream[c].st = "idle"
    /\ \E until \in {NoBound, total} :
          stream' = [stream EXCEPT ![c].st = "on", ![c].until = until]
    /\ UNCHANGED <<total, gone>>

(* Where a dump stops while its client keeps up; nothing else stops there. *)
Stop(c) ==
    IF stream[c].st = "on" /\ stream[c].until # NoBound
    THEN stream[c].until ELSE total

(* The next bytes are sent, or those that are lost are skipped. *)
Deliver(c) ==
    LET from == Kept(stream[c].next)
        to   == stream'[c].next
    IN /\ stream[c].st \in {"on", "late"}
       /\ to \in from..Stop(c)
       /\ stream' = [stream EXCEPT
             ![c].next = to,
             ![c].sent = @ \o [k \in 1..(to - from) |-> from + k - 1]]
       /\ UNCHANGED <<total, gone>>

(* The client of a dump does not take all of it while it is there. *)
FallBehind(c) ==
    LET from == Kept(stream[c].next) IN
    /\ stream[c].st = "on"
    /\ stream[c].until # NoBound /\ from < stream[c].until
    /\ stream' = [stream EXCEPT ![c].st = "late", ![c].next = from]
    /\ UNCHANGED <<total, gone>>

(* A stream ends when its client is gone, or when it is a dump and has reached
   where it stops; one that never began, when there is nothing to send. *)
End(c) ==
    /\ \/ stream[c].st = "idle"
       \/ /\ stream[c].st \in {"on", "late"}
          /\ \/ c \in gone
             \/ stream[c].until # NoBound /\ Kept(stream[c].next) = Stop(c)
    /\ stream' = [stream EXCEPT
          ![c] = [NoStream EXCEPT !.st = "over", !.sent = stream[c].sent]]
    /\ UNCHANGED <<total, gone>>

HangUp(c) == gone' = gone \cup {c} /\ UNCHANGED <<total, stream>>

StreamNext ==
    \/ Grow
    \/ \E c \in Clients :
          Begin(c) \/ Deliver(c) \/ FallBehind(c) \/ End(c) \/ HangUp(c)

StreamSpec == StreamInit /\ [][StreamNext]_streamVars
=============================================================================
