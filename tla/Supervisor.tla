----------------------------- MODULE Supervisor -----------------------------
(***************************************************************************)
(* The daemon: its startup and its event loop (main.rs), composed of the   *)
(* applications (App), the control socket (Ipc) and the log socket's       *)
(* connections (LogConns).  The loop is a single thread; pc says where it  *)
(* is, and the environment acts between any two of its steps.  The order   *)
(* of the events in a batch is arbitrary.                                  *)
(***************************************************************************)
EXTENDS LogConns

CONSTANT MaxSigints     \* bound on the SIGINTs sent to the daemon

ASSUME MaxSigintsAssumption == MaxSigints \in Nat

VARIABLES
    pc,             \* where the loop is
    idx,            \* the application a loop over rt.apps is at
    job,            \* the event being served, at pc = "request"
    batch,          \* the events of this iteration still to be handled
    sigint_count,   \* Runtime::sigint_count; stopping is sigint_count > 0
    sigpending,     \* SIGINT is pending in the signalfd
    keep_running    \* the command line's --keep-running

loopVars == <<pc, idx, job, batch, sigint_count, sigpending, keep_running>>
vars == <<appVars, ipcVars, logVars, loopVars>>

SIGINT_THRESHOLD == 2

Stopping == sigint_count > 0

(* Where the daemon has ended. *)
Ended == pc \in {"exited", "panic"}

NoEvent == [tok |-> NoToken, r |-> FALSE, w |-> FALSE]

Events == [tok : ReservedTokens \cup Tokens,
           r : BOOLEAN, w : BOOLEAN]

Init ==
    /\ AppInit
    /\ IpcInit
    /\ LogInit
    /\ pc = "create" /\ idx = 1
    /\ job = NoEvent /\ batch = {}
    /\ sigint_count = 0 /\ sigpending = FALSE
    /\ keep_running \in BOOLEAN

-----------------------------------------------------------------------------
(* Startup: the applications are created in order; an error is fatal. *)

CreateApp ==
    /\ pc = "create" /\ idx \in Apps
    /\ \/ AppCreate(idx) /\ pc' = "create"
       \/ AppCreateFails(idx) /\ pc' = "panic"
    /\ idx' = idx + 1
    /\ UNCHANGED <<params, ipcVars, job, batch, sigint_count, sigpending,
                   keep_running>>

(* The sockets are bound and the signalfd is registered: epoll looks at what
   is pending already. *)
Bind ==
    /\ pc = "create" /\ idx = NumApps + 1
    /\ pc' = "poll" /\ idx' = 1
    /\ ready' = ready \cup (IF sigpending THEN {SIGNALFD_TOKEN} ELSE {})
    /\ UNCHANGED <<params, app, vacant, cgroup, proc, ipcVars, job, batch,
                   sigint_count, sigpending, keep_running>>

-----------------------------------------------------------------------------
(* epoll_wait *)

EventOf(t) ==
    [tok |-> t, r |-> IsKnown(t) => ConnReadable(t),
                w |-> IsKnown(t) /\ ConnWritable(t)]

(* An edge is reported only if the file is still ready. *)
Reportable ==
    {t \in ready :
        /\ t = UNIX_LISTENER_TOKEN => backlog # {}
        /\ t = LOG_LISTENER_TOKEN => log_backlog > 0
        /\ t = SIGNALFD_TOKEN => sigpending
        /\ EventOf(t).r \/ EventOf(t).w}

(* The events of one call: all there are, or as many as `events` can hold. *)
Reported(ts) ==
    /\ ts \subseteq Reportable
    /\ \/ Cardinality(Reportable) <= max_mio_tokens /\ ts = Reportable
       \/ /\ Cardinality(Reportable) > max_mio_tokens
          /\ Cardinality(ts) = max_mio_tokens

(* Mutant: pending restarts put no limit on the wait. *)
Poll_NoTimeout ==
    /\ pc = "poll"
    /\ \E ts \in SUBSET Reportable :
          /\ ts # {} /\ Reported(ts)
          /\ batch' = {EventOf(t) : t \in ts}
          /\ ready' = Reportable \ ts
    /\ pc' = "events"
    /\ UNCHANGED <<params, app, vacant, cgroup, proc, ipcVars, idx, job,
                   sigint_count, sigpending, keep_running>>

(* poll returns with events, or because a restart deadline has passed, or,
   when nothing is ready, because it is interrupted. *)
Poll ==
    /\ pc = "poll"
    /\ \/ \E ts \in SUBSET Reportable :
             /\ ts # {} \/ \E a \in Apps : app[a].restart_deadline = "due"
             /\ Reported(ts)
             /\ batch' = {EventOf(t) : t \in ts}
             /\ ready' = Reportable \ ts
       \/ /\ "eintr" \in Faults /\ Reportable = {}
          /\ batch' = {} /\ UNCHANGED ready
    /\ pc' = "events"
    /\ UNCHANGED <<params, app, vacant, cgroup, proc, ipcVars, idx, job,
                   sigint_count, sigpending, keep_running>>

-----------------------------------------------------------------------------
(* The events, one by one *)

Handling(e) == pc = "events" /\ e \in batch

HandleSignal(e) ==
    /\ Handling(e) /\ e.tok = SIGNALFD_TOKEN
    /\ batch' = batch \ {e}
    /\ sigint_count' = IF sigpending THEN sigint_count + 1 ELSE sigint_count
    /\ sigpending' = FALSE
    /\ UNCHANGED <<appVars, ipcVars, pc, idx, job, keep_running>>

HandleListener(e) ==
    /\ Handling(e) /\ e.tok = UNIX_LISTENER_TOKEN
    /\ batch' = batch \ {e}
    /\ pc' = "accept"
    /\ UNCHANGED <<appVars, ipcVars, idx, job, sigint_count, sigpending,
                   keep_running>>

(* Mutant: one connection is accepted per event. *)
AcceptAll_One ==
    /\ pc = "accept"
    /\ pc' = "events"
    /\ \/ \E c \in backlog : AcceptOne(c)
       \/ backlog = {} /\ UNCHANGED <<ipcVars, vacant, ready>>
    /\ UNCHANGED <<params, app, cgroup, proc, idx, job, batch, sigint_count,
                   sigpending, keep_running>>

(* accept_all accepts until the backlog is empty or a call fails. *)
AcceptAll ==
    /\ pc = "accept"
    /\ \/ /\ \E c \in backlog : AcceptOne(c)
          /\ pc' = pc
       \/ /\ \E c \in backlog : AcceptLeaks(c)
          /\ pc' = "events"
       \/ /\ backlog = {} \/ "accept" \in Faults
          /\ pc' = "events"
          /\ UNCHANGED <<ipcVars, vacant, ready>>
    /\ UNCHANGED <<params, app, cgroup, proc, idx, job, batch, sigint_count,
                   sigpending, keep_running>>

(* A control connection: a failed read closes it, a request is served from
   the next step on, anything else flushes and reconciles. *)
HandleConn(e) ==
    /\ Handling(e) /\ IsKnown(e.tok)
    /\ batch' = batch \ {e}
    /\ \/ /\ e.r /\ ReadFails(e.tok)
          /\ Close(e.tok, 0) /\ UNCHANGED <<backlog, pc, idx, job>>
       \/ /\ e.r /\ ~ReadFails(e.tok) /\ Peer(e.tok).line = "unread"
          /\ ReadRequest(e.tok)
          /\ pc' = "request" /\ job' = e /\ UNCHANGED idx
       \/ /\ e.r => ~ReadFails(e.tok) /\ Peer(e.tok).line # "unread"
          /\ ServeIdle(e.tok, e.r, e.w) /\ UNCHANGED <<pc, idx, job>>
    /\ UNCHANGED <<params, app, cgroup, proc, sigint_count, sigpending,
                   keep_running>>

(* Start, StartAll, Stop and StopAll visit the applications they name in
   order; the other requests change nothing. *)
ServeRequest ==
    LET req == Peer(job.tok).req IN
    /\ pc = "request" /\ idx \in Apps
    /\ \/ /\ req.op = "start" /\ idx \in req.targets
          /\ AppStart(idx)
       \/ /\ req.op = "stop" /\ idx \in req.targets
          /\ AppStop(idx, req.force)
       \/ /\ req.op = "query" \/ idx \notin req.targets
          /\ UNCHANGED <<app, vacant, cgroup, proc, ready>>
    /\ idx' = idx + 1
    /\ UNCHANGED <<params, ipcVars, pc, job, batch, sigint_count, sigpending,
                   keep_running>>

FinishRequest ==
    /\ pc = "request" /\ idx = NumApps + 1
    /\ Respond(job.tok, job.w)
    /\ pc' = "events" /\ idx' = 1 /\ job' = NoEvent
    /\ UNCHANGED <<params, app, cgroup, proc, batch, sigint_count, sigpending,
                   keep_running>>

(* Every other event is offered to the applications: the one whose pidfd it
   names reaps its child if that has exited.  Events of pipes only move
   output (module LogCapture), and events of freed tokens are ignored. *)
HandleApp(e) ==
    /\ Handling(e) /\ e.tok \in Tokens \ logs /\ ~IsKnown(e.tok)
    /\ batch' = batch \ {e}
    /\ \/ \E a \in Apps :
          /\ Running(a) /\ app[a].tokens["pidfd"] = e.tok /\ e.r
          /\ \/ /\ PollPid(a) = "exited" /\ RuntimeFreeable(a)
                /\ Reap(a, ~Stopping) /\ pc' = pc
             \/ /\ PollPid(a) = "running"
                /\ UNCHANGED <<app, vacant, cgroup, proc, ready, pc>>
             \/ /\ \/ PollPid(a) = "panic"
                   \/ PollPid(a) = "exited" /\ ~RuntimeFreeable(a)
                /\ pc' = "panic"
                /\ UNCHANGED <<app, vacant, cgroup, proc, ready>>
       \/ /\ \A a \in Apps :
                Running(a) /\ e.r => app[a].tokens["pidfd"] # e.tok
          /\ UNCHANGED <<app, vacant, cgroup, proc, ready, pc>>
    /\ UNCHANGED <<params, ipcVars, idx, job, sigint_count, sigpending,
                   keep_running>>

(* An event of the log socket's listener or of one of its connections, which
   may be closed by it. *)
HandleLog(e) ==
    /\ Handling(e) /\ e.tok \in {LOG_LISTENER_TOKEN} \cup logs /\ ~IsKnown(e.tok)
    /\ batch' = batch \ {e}
    /\ \/ /\ e.tok = LOG_LISTENER_TOKEN
          /\ pc' = "log_accept" /\ UNCHANGED <<logVars, vacant, ready>>
       \/ /\ e.tok \in logs
          /\ LogClose(e.tok) \/ UNCHANGED <<logVars, vacant, ready>>
          /\ pc' = pc
    /\ UNCHANGED <<params, app, cgroup, proc, ipcVars, idx, job, sigint_count,
                   sigpending, keep_running>>

LogAcceptAll ==
    /\ pc = "log_accept"
    /\ \/ LogAcceptOne /\ pc' = pc
       \/ LogAcceptLeaks /\ pc' = "events"
       \/ /\ log_backlog = 0 \/ "accept" \in Faults
          /\ pc' = "events" /\ UNCHANGED <<logVars, vacant>>
    /\ UNCHANGED <<params, app, cgroup, proc, ready, ipcVars, idx, job, batch,
                   sigint_count, sigpending, keep_running>>

(* push_updates, after the events: a follower that cannot be written to is
   closed, as any of them may be. *)
PushUpdates ==
    /\ pc = "events" /\ batch = {}
    /\ \E t \in logs : LogClose(t)
    /\ UNCHANGED <<params, app, cgroup, proc, ipcVars, loopVars>>

(* Mutant: the rest of the batch is dropped. *)
EventsDone_DropsBatch ==
    /\ pc = "events"
    /\ pc' = "restart" /\ batch' = {}
    /\ UNCHANGED <<appVars, ipcVars, idx, job, sigint_count, sigpending,
                   keep_running>>

EventsDone ==
    /\ pc = "events" /\ batch = {}
    /\ pc' = "restart"
    /\ UNCHANGED <<appVars, ipcVars, idx, job, batch, sigint_count, sigpending,
                   keep_running>>

-----------------------------------------------------------------------------
(* The rest of an iteration: scheduled restarts, the shutdown of a daemon
   that was interrupted, and the end. *)

RestartApp ==
    /\ pc = "restart" /\ idx \in Apps
    /\ MaybeRestart(idx, ~Stopping)
    /\ idx' = idx + 1
    /\ UNCHANGED <<params, ipcVars, pc, job, batch, sigint_count, sigpending,
                   keep_running>>

RestartDone ==
    /\ pc = "restart" /\ idx = NumApps + 1
    /\ pc' = IF Stopping THEN "shutdown" ELSE "check"
    /\ idx' = 1
    /\ UNCHANGED <<appVars, ipcVars, job, batch, sigint_count, sigpending,
                   keep_running>>

ShutdownApp ==
    /\ pc = "shutdown" /\ idx \in Apps
    /\ AppStop(idx, sigint_count >= SIGINT_THRESHOLD)
    /\ idx' = idx + 1
    /\ UNCHANGED <<params, ipcVars, pc, job, batch, sigint_count, sigpending,
                   keep_running>>

ShutdownDone ==
    /\ pc = "shutdown" /\ idx = NumApps + 1
    /\ pc' = "check" /\ idx' = 1
    /\ UNCHANGED <<appVars, ipcVars, job, batch, sigint_count, sigpending,
                   keep_running>>

AllReturned == \A a \in Apps : ~Running(a) /\ ~Pending(a)

(* The sockets of a daemon that ends are closed by the kernel. *)
Abandoned(c) ==
    [client[c] EXCEPT !.st = IF @ = "open" THEN "shut" ELSE @]

(* Mutant: a main cgroup that cannot be deleted is ignored. *)
Check_IgnoresDelete ==
    /\ pc = "check"
    /\ IF (~keep_running \/ Stopping) /\ AllReturned
       THEN /\ pc' = "exited"
            /\ client' = [c \in Clients |-> Abandoned(c)]
       ELSE /\ pc' = "poll"
            /\ UNCHANGED client
    /\ UNCHANGED <<appVars, conns, backlog, idx, job, batch, sigint_count,
                   sigpending, keep_running>>

(* The end of the iteration; on exit the main cgroup is deleted, which the
   kernel refuses while the cgroup of an application exists in it. *)
Check ==
    /\ pc = "check"
    /\ IF (~keep_running \/ Stopping) /\ AllReturned
       THEN /\ pc' = IF cgroup = {} THEN "exited" ELSE "panic"
            /\ client' = [c \in Clients |-> Abandoned(c)]
       ELSE /\ pc' = "poll"
            /\ UNCHANGED client
    /\ UNCHANGED <<appVars, conns, backlog, idx, job, batch, sigint_count,
                   sigpending, keep_running>>

-----------------------------------------------------------------------------
(* The steps that do not concern the log socket, and those that do. *)
MainStep ==
    \/ CreateApp \/ Bind \/ Poll \/ AcceptAll
    \/ \E e \in batch :
          HandleSignal(e) \/ HandleListener(e) \/ HandleConn(e) \/ HandleApp(e)
    \/ ServeRequest \/ FinishRequest \/ EventsDone
    \/ RestartApp \/ RestartDone \/ ShutdownApp \/ ShutdownDone \/ Check

LogStep == LogAcceptAll \/ PushUpdates \/ \E e \in batch : HandleLog(e)

Daemon == (MainStep /\ UNCHANGED logVars) \/ LogStep

(* The environment's signal; a pending SIGINT absorbs the next one. *)
Sigint ==
    /\ ~sigpending /\ sigint_count < MaxSigints
    /\ sigpending' = TRUE
    /\ ready' = ready \cup (IF pc = "create" THEN {} ELSE {SIGNALFD_TOKEN})
    /\ UNCHANGED <<params, app, vacant, cgroup, proc, ipcVars, pc, idx, job,
                   batch, sigint_count, keep_running>>

(* Time does not pass between the restarts of one iteration: `now` is read
   once before them.  Clients find no socket during startup. *)
MainEnvironment ==
    /\ ~Ended
    /\ \/ \E p \in Pids : /\ \/ \E ret \in {"ok", "err"} : ProcExit(p, ret)
                             \/ ProcFork(p)
                          /\ UNCHANGED <<ipcVars, loopVars>>
       \/ \E a \in Apps, fd \in Fds :
             ProcOutput(a, fd) /\ UNCHANGED <<ipcVars, loopVars>>
       \/ \E a \in Apps : /\ pc # "restart" /\ DelayElapses(a)
                          /\ UNCHANGED <<ipcVars, loopVars>>
       \/ \E c \in Clients : /\ pc # "create" /\ ClientStep(c)
                             /\ UNCHANGED loopVars
       \/ Sigint

LogEnvironment ==
    /\ ~Ended /\ pc # "create"
    /\ LogConnect \/ \E t \in logs : LogTraffic(t)
    /\ UNCHANGED <<params, app, vacant, cgroup, proc, ipcVars, loopVars>>

Environment == (MainEnvironment /\ UNCHANGED logVars) \/ LogEnvironment

Done == Ended /\ UNCHANGED vars

Next == Daemon \/ Environment \/ Done

Spec == Init /\ [][Next]_vars
-----------------------------------------------------------------------------
(* Safety *)

LoopTypeOK ==
    /\ pc \in {"create", "poll", "events", "accept", "log_accept", "request",
               "restart", "shutdown", "check", "exited", "panic"}
    /\ idx \in 1..(NumApps + 1)
    /\ job \in Events \cup {NoEvent}
    /\ batch \subseteq Events
    /\ sigint_count \in 0..MaxSigints
    /\ sigpending \in BOOLEAN
    /\ keep_running \in BOOLEAN

(* Every variable has its type.  Of interest are the bounds: a response fits
   the client's socket and is queued once, however a connection's events, its
   interest and the client's reads are interleaved (ipc.rs). *)
TypeOK == AppTypeOK /\ SlabTypeOK /\ IpcTypeOK /\ LogTypeOK /\ LoopTypeOK

(* The daemon does not abort: not on a failed waitpid or a token freed twice
   (runtime.rs), nor on a main cgroup it cannot delete (main.rs). *)
NoPanic == pc # "panic"

(* A token has at most one owner: no two applications, file descriptors or
   connections share one, and no owned token can be handed out again. *)
TokenOwnership ==
    /\ IsInjective(vacant)
    /\ \A a \in Apps : Running(a) =>
          /\ OwnTokens(a) \subseteq Tokens \ Range(vacant)
          /\ IsInjective(app[a].tokens)
          /\ OwnTokens(a) \cap (Connected \cup logs) = {}
          /\ \A b \in Apps \ {a} : OwnTokens(a) \cap OwnTokens(b) = {}
    /\ (Connected \cup logs) \cap Range(vacant) = {}
    /\ Connected \cap logs = {}

(* No token is lost: each is vacant or has an owner, so that max_mio_tokens
   bounds what is in use and not what was ever used. *)
TokensAccounted ==
    Tokens = Range(vacant) \cup Connected \cup logs
                \cup UNION {OwnTokens(a) : a \in Apps}

(* A running application tracks a child of its own that nobody has reaped, so
   waitpid cannot fail and kill cannot hit a process that reused the pid. *)
TrackedChild ==
    \A a \in Apps : Running(a) =>
       /\ app[a].pid \in Pids
       /\ proc[app[a].pid].st # "free"
       /\ proc[app[a].pid].child /\ proc[app[a].pid].app = a

(* A restart is pending only for an application that is stopped, that nobody
   asked to stop, and whose policy still allows one after all its failures. *)
RestartJustified ==
    \A a \in Apps : Pending(a) =>
       /\ ~Running(a) /\ ~app[a].stop_requested /\ ~params[a].oneshot
       /\ ~GivesUp(params[a].restart, app[a].consecutive_failures)

(* Once the daemon is stopping, no iteration ends with an application that is
   still to be restarted or that runs and was not signalled, even one started
   by a client in the meantime; the second SIGINT makes the signal SIGKILL. *)
ShutdownReachesEveryApp ==
    pc = "poll" /\ Stopping =>
       \A a \in Apps :
          /\ ~Pending(a)
          /\ Running(a) => proc[app[a].pid].st \in
                IF sigint_count >= SIGINT_THRESHOLD THEN {"kill", "zombie"}
                ELSE {"term", "kill", "zombie"}

(* Edge-triggered epoll: whenever the loop is about to wait, everything that
   waits for it still has an edge to report. *)
NoLostWakeup ==
    pc = "poll" =>
       /\ \A a \in Apps : Running(a) /\ PollPid(a) = "exited"
                            => app[a].tokens["pidfd"] \in ready
       /\ \A t \in Connected :
             /\ ConnReadable(t) => t \in ready
             /\ conns[t].write_buf > 0 => conns[t].writable_registered
             /\ ConnWritable(t) => t \in ready
             /\ conns[t].close_after_flush => conns[t].write_buf > 0
       /\ backlog # {} => UNIX_LISTENER_TOKEN \in ready
       /\ log_backlog > 0 => LOG_LISTENER_TOKEN \in ready
       /\ sigpending => SIGNALFD_TOKEN \in ready

(* A daemon that exits normally leaves no process of any application behind,
   descendants and untracked children included. *)
NoSurvivors == pc = "exited" => \A p \in Pids : proc[p].st \notin Alive

(* While the daemon runs it closes a connection only after the client's whole
   response reached the client's socket. *)
ClosedAfterFlush ==
    \A c \in Clients : client[c].st = "shut" /\ ~Ended =>
       client[c].got + client[c].inq = ResponseChunks

(* A connection is closed as soon as its response has been fully flushed
   (ipc.rs:5-6): every client whose request was executed gets its response. *)
ResponseFlushed ==
    \A c \in Clients : client[c].st = "shut" /\ client[c].line = "read" =>
       client[c].got + client[c].inq = ResponseChunks

(* An application that was asked to stop runs again only by a start request. *)
StartedOnRequest ==
    \A a \in Apps :
       app[a].stop_requested /\ ~Running(a) /\ Running(a)'
          => pc = "request" /\ Peer(job.tok).req.op = "start"

StopSticks == [][StartedOnRequest]_vars

(* Without a maximum the daemon retries forever (restart.rs:72): a pending
   restart ends in a run, unless somebody asked for a stop. *)
RetriesForever ==
    [][\A a \in Apps :
          /\ params[a].restart.max_restart_attempts = NoMax
          /\ Pending(a) /\ ~Pending(a)'
          => Running(a)' \/ app'[a].stop_requested \/ Stopping]_vars

-----------------------------------------------------------------------------
(* What a user sees of an application, as AppLife describes it. *)
SeenLife(a) ==
    [st       |-> IF Running(a) THEN "running"
                  ELSE IF Pending(a) THEN "waiting" ELSE "stopped",
     asked    |-> app[a].stop_requested,
     failures |-> app[a].consecutive_failures]

Life == INSTANCE AppLife
          WITH policy <- params, life <- [a \in Apps |-> SeenLife(a)],
               closing <- Stopping

(* Whatever happens to processes, tokens and connections, to a user each
   application starts, stops, fails, waits and is retried as AppLife says:
   runtime.rs and main.rs implement it. *)
ImplementsAppLife == Life!LifeSpec

-----------------------------------------------------------------------------
(* Liveness.  The single thread of the daemon runs whenever it can; delays
   elapse; a process that got SIGKILL ends; clients read their responses. *)

Fairness ==
    /\ WF_vars(Daemon)
    /\ \A a \in Apps : WF_vars(pc # "restart" /\ DelayElapses(a)
                                /\ UNCHANGED <<ipcVars, logVars, loopVars>>)
    /\ \A p \in Pids : WF_vars(/\ ~Ended /\ proc[p].st = "kill"
                                /\ ProcExit(p, "err")
                                /\ UNCHANGED <<ipcVars, logVars, loopVars>>)
    /\ \A c \in Clients : WF_vars(/\ Receive(c)
                                   /\ UNCHANGED <<params, app, vacant, cgroup,
                                                  proc, logVars, loopVars>>)

FairSpec == Spec /\ Fairness

(* A child that exits is reaped. *)
ExitNoticed ==
    \A a \in Apps :
       Running(a) /\ proc[app[a].pid].st = "zombie" ~> ~Running(a) \/ Ended

(* A scheduled restart is attempted or cancelled. *)
RestartSettles == \A a \in Apps : Pending(a) ~> ~Pending(a) \/ Ended

(* Two SIGINTs end the daemon once the clients leave it alone. *)
ShutdownCompletes ==
    <>[](\A c \in Clients : client[c].st = "idle")
       => (sigint_count >= SIGINT_THRESHOLD ~> Ended)

(* A request that was sent is answered, rejected or given up by the client. *)
RequestAnswered ==
    \A c \in Clients :
       client[c].st = "open" /\ client[c].line # "none"
          ~> client[c].st # "open" \/ Ended
=============================================================================
