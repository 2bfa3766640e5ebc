-------------------------------- MODULE App --------------------------------
(***************************************************************************)
(* The supervised applications (runtime.rs) and the processes they run as. *)
(* The operators below are the methods of App and AppRuntime: each is a    *)
(* fragment of an action, taken by the event loop of module Supervisor.    *)
(* The last section is the environment: the kernel and the applications'   *)
(* own processes, which act between any two steps of the daemon.           *)
(***************************************************************************)
EXTENDS MioTokenSlab, RestartPolicy

CONSTANTS
    NumApps,        \* the configured applications are 1..NumApps, in order
    AppParams,      \* the parameter records an application may have
    Pids,           \* process identifiers, reused once a process is reaped
    NoPid,
    Faults,         \* system calls that may fail: "fork", "register",
                    \* "accept", "kill" (cgroup.kill), "timeout" (its wait)
    Forkers,        \* applications whose processes fork
    Writers,        \* applications whose processes write while running
    FailBound       \* bound on consecutive_failures, see ProcExit

ASSUME AppAssumption ==
    /\ NumApps \in Nat
    /\ NoPid \notin Pids
    /\ FailBound \in Nat
    /\ AppParams \subseteq [autostart : BOOLEAN, oneshot : BOOLEAN,
                            restart : RestartPolicies(Nat)]

VARIABLES
    params,         \* the configuration of each application
    app,            \* the App values
    cgroup,         \* the applications whose cgroup directory exists
    proc,           \* the process table
    ready           \* tokens with an edge epoll has not reported yet

appVars == <<params, app, vacant, cgroup, proc, ready>>

Apps == 1..NumApps
Fds == {"pidfd", "stdout", "stderr"}
Alive == {"live", "term", "kill"}   \* signalled processes are not dead yet

NoTokens == [fd \in Fds |-> NoToken]
FreeProc == [st |-> "free", app |-> 0, child |-> FALSE, ret |-> "ok"]

(* App: state, restart_deadline (waiting until it is due), stop_requested,
   consecutive_failures, and the pid and tokens of the AppRuntime. *)
AppRecord ==
    [state : {"stopped", "running"},
     restart_deadline : {"none", "waiting", "due"},
     stop_requested : BOOLEAN,
     consecutive_failures : Nat,
     pid : Pids \cup {NoPid},
     tokens : [Fds -> Tokens \cup {NoToken}]]

(* A process: a child of the daemon or a descendant of one, in the cgroup of
   an application; ret is how a zombie ended. *)
ProcRecord ==
    [st : Alive \cup {"free", "zombie"}, app : Apps \cup {0},
     child : BOOLEAN, ret : {"ok", "err"}]

(* The types of this module's state; TypeOK in Supervisor has them all. *)
AppTypeOK ==
    /\ params \in [Apps -> AppParams]
    /\ app \in [Apps -> AppRecord]
    /\ cgroup \subseteq Apps
    /\ proc \in [Pids -> ProcRecord]

SlabTypeOK ==
    /\ vacant \in Seq(Tokens)
    /\ ready \subseteq ReservedTokens \cup Tokens

NewApp ==
    [state |-> "stopped", restart_deadline |-> "none",
     stop_requested |-> FALSE, consecutive_failures |-> 0,
     pid |-> NoPid, tokens |-> NoTokens]

AppInit ==
    /\ params \in [Apps -> AppParams]
    /\ app = [a \in Apps |-> NewApp]
    /\ cgroup = {}
    /\ proc = [p \in Pids |-> FreeProc]
    /\ ready = {}
    /\ SlabInit

Running(a) == app[a].state = "running"
Pending(a) == app[a].restart_deadline # "none"
FreePids == {p \in Pids : proc[p].st = "free"}
OwnTokens(a) == IF Running(a) THEN Range(app[a].tokens) ELSE {}

-----------------------------------------------------------------------------
(* AppRuntime::start *)

Spawned(a) == [st |-> "live", app |-> a, child |-> TRUE, ret |-> "ok"]

(* The tokens that three calls of allocate return. *)
TopTokens(s) ==
    [fd \in Fds |-> CASE fd = "pidfd" -> s[1] [] fd = "stdout" -> s[2]
                      [] OTHER -> s[3]]

(* The application record r once it runs as process p. *)
Launched(r, p) ==
    [r EXCEPT !.state = "running", !.restart_deadline = "none", !.pid = p,
              !.tokens = TopTokens(vacant)]

(* The cgroup is made, the child spawned into it, and three tokens taken. *)
RuntimeStart(a, r) ==
    /\ Len(vacant) >= 3
    /\ \E p \in FreePids :
          /\ app' = [app EXCEPT ![a] = Launched(r, p)]
          /\ proc' = [proc EXCEPT ![p] = Spawned(a)]
    /\ vacant' = Allocate(vacant, 3)
    /\ cgroup' = cgroup \cup {a}
    /\ UNCHANGED ready

(* The early returns: no process; or a process that nobody tracks, with the
   n tokens taken before the failing call still allocated.  The cgroup stays
   in either case, and the application's record becomes r. *)
RuntimeFails(a, r) ==
    /\ app' = [app EXCEPT ![a] = r]
    /\ cgroup' = cgroup \cup {a}
    /\ UNCHANGED ready
    /\ \/ /\ FreePids = {} \/ "fork" \in Faults
          /\ UNCHANGED <<proc, vacant>>
       \/ \E p \in FreePids, n \in 0..3 :
          /\ n <= Len(vacant)
          /\ (n = Len(vacant) /\ n < 3) \/ "register" \in Faults
          /\ proc' = [proc EXCEPT ![p] = Spawned(a)]
          /\ vacant' = Allocate(vacant, n)

-----------------------------------------------------------------------------
(* App::create, start, stop, maybe_restart *)

(* create: an application that does not autostart stays stopped, one whose
   start fails is an error (main panics on it, see Supervisor). *)
AppCreate(a) ==
    \/ params[a].autostart /\ RuntimeStart(a, app[a])
    \/ ~params[a].autostart /\ UNCHANGED <<app, vacant, cgroup, proc, ready>>

AppCreateFails(a) == params[a].autostart /\ RuntimeFails(a, app[a])

(* Mutant: the failures of the past still count after a start. *)
AppStart_KeepsFailures(a) ==
    \/ /\ ~Running(a)
       /\ \/ RuntimeStart(a, [app[a] EXCEPT !.stop_requested = FALSE])
          \/ RuntimeFails(a, app[a])
    \/ /\ Running(a)
       /\ UNCHANGED <<app, vacant, cgroup, proc, ready>>

AppStart(a) ==
    \/ /\ ~Running(a)
       /\ \/ RuntimeStart(a, [app[a] EXCEPT !.consecutive_failures = 0,
                                            !.stop_requested = FALSE])
          \/ RuntimeFails(a, app[a])
    \/ /\ Running(a)                                       \* AlreadyRunning
       /\ UNCHANGED <<app, vacant, cgroup, proc, ready>>

(* Mutant: force is ignored. *)
Signalled_NeverKill(p, force) ==
    IF p.st = "live" THEN [p EXCEPT !.st = "term"] ELSE p

(* kill(2) of SIGTERM or SIGKILL: a zombie is left as it is. *)
Signalled(p, force) ==
    IF p.st \notin Alive THEN p
    ELSE [p EXCEPT !.st = IF force \/ @ = "kill" THEN "kill" ELSE "term"]

AppStop(a, force) ==
    /\ UNCHANGED <<vacant, cgroup, ready>>
    /\ \/ /\ Running(a)
          /\ app' = [app EXCEPT ![a].stop_requested = TRUE]
          /\ proc' = [proc EXCEPT ![app[a].pid] = Signalled(@, force)]
       \/ /\ ~Running(a) /\ Pending(a)
          /\ app' = [app EXCEPT ![a].restart_deadline = "none",
                                ![a].stop_requested = TRUE]
          /\ UNCHANGED proc
       \/ /\ ~Running(a) /\ ~Pending(a)
          /\ UNCHANGED <<app, proc>>

(* Mutant: the runtime is not taken out of the state. *)
Stopped_StillRunning(r) == [r EXCEPT !.restart_deadline = "none"]

(* State::stopped_with_cause *)
Stopped(r) ==
    [r EXCEPT !.state = "stopped", !.restart_deadline = "none",
              !.pid = NoPid, !.tokens = NoTokens]

MaybeRestart(a, allow_restart) ==
    \/ /\ Pending(a) /\ ~allow_restart
       /\ app' = [app EXCEPT ![a] = Stopped(@)]
       /\ UNCHANGED <<vacant, cgroup, proc, ready>>
    \/ /\ app[a].restart_deadline = "due" /\ allow_restart
       /\ RuntimeStart(a, app[a]) \/ RuntimeFails(a, Stopped(app[a]))
    \/ /\ ~Pending(a) \/ (app[a].restart_deadline = "waiting" /\ allow_restart)
       /\ UNCHANGED <<app, vacant, cgroup, proc, ready>>

-----------------------------------------------------------------------------
(* App::poll on the pidfd of an application: poll_pid, AppRuntime::stop and
   schedule_restart *)

(* waitpid(WNOHANG) on the tracked pid. *)
PollPid(a) ==
    LET p == proc[app[a].pid] IN
    IF p.st = "free" \/ ~p.child THEN "panic"
    ELSE IF p.st = "zombie" THEN "exited" ELSE "running"

(* schedule_restart *)
Scheduled(a, ok, long) ==
    LET fails == NextFailures(app[a].consecutive_failures, ok, long) IN
    [Stopped(app[a]) EXCEPT
        !.consecutive_failures = fails,
        !.restart_deadline = IF Restarts(params[a].restart, ok, fails)
                             THEN "waiting" ELSE "none"]

(* Mutant: the cgroup is not killed. *)
KillFates_NoKill == {"spared"}

(* What cgroup.kill and the 200 ms wait may leave of the cgroup: all dead,
   some still dying, or, when the kill itself fails, all as before. *)
KillFates ==
    {"dead"} \cup (IF "timeout" \in Faults THEN {"dying"} ELSE {})
             \cup (IF "kill" \in Faults THEN {"spared"} ELSE {})

CgroupKilled(p, fate) ==
    CASE p.st \notin Alive \/ fate = "spared" -> p
      [] p.st \in Alive /\ fate = "dying" -> [p EXCEPT !.st = "kill"]
      [] OTHER -> IF p.child THEN [p EXCEPT !.st = "zombie", !.ret = "err"]
                  ELSE FreeProc

(* Mutant: a token is not freed. *)
FreeTokens_KeepsStderr(s, toks) == Free(Free(s, toks["pidfd"]), toks["stdout"])

FreeTokens(s, toks) ==
    Free(Free(Free(s, toks["pidfd"]), toks["stdout"]), toks["stderr"])

RuntimeFreeable(a) == \A fd \in Fds : Freeable(vacant, app[a].tokens[fd])

(* Mutant: an application that was asked to stop is restarted all the same. *)
MayRestart_AfterStop(a, try_restart) == try_restart /\ ~params[a].oneshot

MayRestart(a, try_restart) ==
    try_restart /\ ~params[a].oneshot /\ ~app[a].stop_requested

Reap(a, try_restart) ==
    \E long \in BOOLEAN, fate \in KillFates :
       LET pid  == app[a].pid
           left == [proc EXCEPT ![pid] = FreeProc]
           cg   == [p \in Pids |-> IF left[p].app = a
                                   THEN CgroupKilled(left[p], fate)
                                   ELSE left[p]]
       IN /\ proc' = cg
          /\ vacant' = FreeTokens(vacant, app[a].tokens)
          /\ ready' = ready \ Range(app[a].tokens)
          /\ cgroup' = IF \E p \in Pids : cg[p].app = a /\ cg[p].st \in Alive
                       THEN cgroup ELSE cgroup \ {a}
          /\ app' = [app EXCEPT ![a] =
                IF MayRestart(a, try_restart)
                THEN Scheduled(a, proc[pid].ret = "ok", long)
                ELSE Stopped(@)]

-----------------------------------------------------------------------------
(* The environment *)

(* A process ends.  A child of the daemon becomes a zombie; a descendant is
   reaped elsewhere.  The pidfd of a tracked child becomes readable, and the
   pipes hang up when no process of the application holds them.  A process
   nobody signalled fails only while consecutive_failures < FailBound. *)
ProcExit(p, ret) ==
    LET a       == proc[p].app
        tracked == proc[p].child /\ Running(a) /\ app[a].pid = p
        last    == \A q \in Pids \ {p} :
                      proc[q].app = a => proc[q].st \notin Alive
    IN /\ proc[p].st \in Alive
       /\ proc[p].st = "kill" => ret = "err"
       /\ (proc[p].st = "live" /\ ret = "err")
             => app[a].consecutive_failures < FailBound
       /\ proc' = [proc EXCEPT ![p] =
             IF @.child THEN [@ EXCEPT !.st = "zombie", !.ret = ret]
             ELSE FreeProc]
       /\ ready' = ready
             \cup (IF tracked THEN {app[a].tokens["pidfd"]} ELSE {})
             \cup (IF last /\ Running(a)
                   THEN {app[a].tokens["stdout"], app[a].tokens["stderr"]}
                   ELSE {})
       /\ UNCHANGED <<params, app, vacant, cgroup>>

ProcFork(p) ==
    /\ proc[p].st \in {"live", "term"} /\ proc[p].app \in Forkers
    /\ \E q \in FreePids :
          proc' = [proc EXCEPT ![q] =
                      [Spawned(proc[p].app) EXCEPT !.child = FALSE]]
    /\ UNCHANGED <<params, app, vacant, cgroup, ready>>

(* Output of a tracked process arrives in one of its pipes. *)
ProcOutput(a, fd) ==
    /\ a \in Writers /\ Running(a) /\ proc[app[a].pid].st \in Alive
    /\ fd \in {"stdout", "stderr"}
    /\ ready' = ready \cup {app[a].tokens[fd]}
    /\ UNCHANGED <<params, app, vacant, cgroup, proc>>

DelayElapses(a) ==
    /\ app[a].restart_deadline = "waiting"
    /\ app' = [app EXCEPT ![a].restart_deadline = "due"]
    /\ UNCHANGED <<params, vacant, cgroup, proc, ready>>
=============================================================================
