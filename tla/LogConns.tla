------------------------------ MODULE LogConns ------------------------------
(***************************************************************************)
(* The connections of the log socket as far as the rest of the daemon can  *)
(* tell: they hold tokens of the same slab, and have events of their own   *)
(* (log_ipc.rs).  What they stream, and so when one of them is closed, is  *)
(* module LogServer; here an event may always turn out to be the last.     *)
(***************************************************************************)
EXTENDS Ipc

CONSTANTS
    MaxLogConnections,      \* GlobalConfig::max_log_connections
    LogClients              \* bound on the log clients there are at a time

ASSUME LogConnsAssumption ==
    MaxLogConnections \in Nat /\ LogClients \in Nat

VARIABLES
    logs,           \* LogServer::connections, by token
    log_backlog     \* the number of log clients waiting for accept

logVars == <<logs, log_backlog>>

LogTypeOK == logs \subseteq Tokens /\ log_backlog \in Nat

LogInit == logs = {} /\ log_backlog = 0

(* LogServer::accept_all, one connection at a time: one too many is dropped
   without a word. *)
LogAcceptOne ==
    /\ log_backlog > 0 /\ log_backlog' = log_backlog - 1
    /\ \/ /\ Cardinality(logs) >= MaxLogConnections \/ vacant = <<>>
          /\ UNCHANGED <<logs, vacant>>
       \/ /\ Cardinality(logs) < MaxLogConnections /\ vacant # <<>>
          /\ logs' = logs \cup {vacant[1]}
          /\ vacant' = Allocate(vacant, 1)

(* register fails: the stream is dropped, its token is not freed. *)
LogAcceptLeaks ==
    /\ "register" \in Faults
    /\ log_backlog > 0 /\ log_backlog' = log_backlog - 1
    /\ Cardinality(logs) < MaxLogConnections /\ vacant # <<>>
    /\ vacant' = Allocate(vacant, 1)
    /\ UNCHANGED logs

(* Mutant: epoll forgets the token, the slab does not. *)
LogClose_KeepsToken(t) ==
    /\ logs' = logs \ {t} /\ ready' = ready \ {t}
    /\ UNCHANGED <<vacant, log_backlog>>

(* LogServer::close *)
LogClose(t) ==
    /\ logs' = logs \ {t} /\ ready' = ready \ {t}
    /\ vacant' = Free(vacant, t)
    /\ UNCHANGED log_backlog

(* The environment: a client connects, or sends, reads or hangs up. *)
LogConnect ==
    /\ log_backlog + Cardinality(logs) < LogClients
    /\ log_backlog' = log_backlog + 1
    /\ ready' = ready \cup {LOG_LISTENER_TOKEN}
    /\ UNCHANGED logs

LogTraffic(t) ==
    /\ t \in logs
    /\ ready' = ready \cup {t}
    /\ UNCHANGED logVars
=============================================================================
