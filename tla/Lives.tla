-------------------------------- MODULE Lives --------------------------------
(***************************************************************************)
(* The lives of the daemon (main.rs from its configuration to its exit):   *)
(* one after the other or overlapping, each may be killed at any time, and *)
(* all share what outlives a process: the socket files, the cgroups and    *)
(* the applications' processes.  The event loop is module Supervisor; here *)
(* an application is started and reaped, and the system calls that fail in *)
(* Supervisor do not.                                                      *)
(***************************************************************************)
EXTENDS Config, FiniteSets

CONSTANTS
    MaxLives,       \* the lives are 1..MaxLives, in the order of their boot
    ConfigFiles,    \* what the configuration file may hold at a boot
    Owners,         \* the ids that a daemon may run with
    Procs, NoProc,
    NobodysFile     \* no file at the path of a socket

ASSUME LivesAssumption ==
    /\ MaxLives \in Nat
    /\ ConfigFiles \subseteq Files
    /\ \A f \in ConfigFiles : f.kind = "config" => IsFiniteSet(f.apps_dir)
    /\ Owners \subseteq [uid : Nat, gid : Nat]
    /\ NoProc \notin Procs
    /\ NobodysFile \notin 1..MaxLives

VARIABLES
    life,       \* the daemons
    file,       \* socket files: the life that bound each
    main_cg,    \* whether the main cgroup exists
    cg,         \* the application cgroups that exist, by path
    proc,       \* the processes in them
    met         \* history: lives that overlapped with another

vars == <<life, file, main_cg, cg, proc, met>>

Lives == 1..MaxLives
Sockets == <<"control", "log">>
Ended == {"off", "exited", "failed", "panicked", "killed"}
FreeProc == [st |-> "free", life |-> 0, path |-> <<>>, ids |-> Refused]

Alive(d) == life[d].pc \notin Ended
At(d, pc) == life[d].pc = pc
FreeProcs == {p \in Procs : proc[p].st = "free"}
Running(d) == {i \in DOMAIN life[d].run : life[d].run[i] # NoProc}

Init ==
    /\ life = [d \in Lives |->
                  [pc |-> "off", config |-> None, own |-> Refused, apps |-> <<>>,
                   run |-> <<>>, sock |-> 1, stale |-> FALSE,
                   leftover |-> {}, reaped |-> {}]]
    /\ file = [s \in Range(Sockets) |-> NobodysFile]
    /\ main_cg = FALSE /\ cg = {}
    /\ proc = [p \in Procs |-> FreeProc]
    /\ met = {}

(* The daemon is gone, and init reaps the children that had ended. *)
Ends(d, how, procs) ==
    /\ life' = [life EXCEPT ![d].pc = how]
    /\ proc' = [p \in Procs |->
                   IF procs[p].life = d /\ procs[p].st = "zombie"
                   THEN FreeProc ELSE procs[p]]

-----------------------------------------------------------------------------
(* Startup *)

(* main up to init_main_cgroup: the configuration is loaded, or exit(1). *)
Boot(d) ==
    /\ At(d, "off") /\ \A e \in Lives : e < d => ~At(e, "off")
    /\ \E f \in ConfigFiles, own \in Owners :
          \/ /\ ~Loads(f)
             /\ life' = [life EXCEPT ![d].pc = "failed", ![d].config = <<f>>]
             /\ UNCHANGED main_cg
          \/ /\ Loads(f)
             /\ \E entries \in Listings(f) :
                   life' = [life EXCEPT
                      ![d].pc = "create", ![d].config = <<f>>, ![d].own = own,
                      ![d].apps = AllApps(f, entries), ![d].leftover = cg]
             /\ main_cg' = TRUE
    /\ LET others == {e \in Lives : Alive(e)} IN
       met' = met \cup others \cup (IF others = {} THEN {} ELSE {d})
    /\ UNCHANGED <<file, cg, proc>>

Directories(path) == Prefixes(path) \ {<<>>}

(* The child of daemon d for an application, in its cgroup. *)
Spawned(d, params) ==
    LET ids == ChildIds(life[d].own, params.uid, params.gid) IN
    [st |-> IF ids = Refused THEN "zombie" ELSE "live",
     life |-> d, path |-> params.name, ids |-> ids]

(* One turn of the loop that creates the applications.  A size that is not
   in whole pages is exit(1); a start without tokens, or a buffer that cannot
   be mapped, is a panic, and comes after the process was started. *)
CreateApp(d) ==
    LET config == life[d].config[1]
        n      == Len(life[d].run) + 1
        params == AppParams(life[d].apps[n], config, life[d].own)
        tokens == 3 * (Cardinality(Running(d)) + 1) <= config.max_mio_tokens
        mapped == RingMapped(params.log_buffer_size)
    IN /\ At(d, "create") /\ n <= Len(life[d].apps)
       /\ \/ /\ ~ValidLogBufferSize(params.log_buffer_size)
             /\ Ends(d, "failed", proc)
             /\ UNCHANGED <<main_cg, cg>>
          \/ /\ ValidLogBufferSize(params.log_buffer_size) /\ ~params.autostart
             /\ IF mapped
                THEN /\ life' = [life EXCEPT ![d].run = Append(@, NoProc)]
                     /\ UNCHANGED proc
                ELSE Ends(d, "failed", proc)
             /\ UNCHANGED <<main_cg, cg>>
          \/ /\ ValidLogBufferSize(params.log_buffer_size) /\ params.autostart
             /\ \E p \in FreeProcs :
                   LET procs == [proc EXCEPT ![p] = Spawned(d, params)] IN
                   IF tokens /\ mapped
                   THEN /\ life' = [life EXCEPT ![d].run = Append(@, p)]
                        /\ proc' = procs
                   ELSE Ends(d, "failed", procs)
             /\ main_cg' = TRUE /\ cg' = cg \cup Directories(params.name)
       /\ UNCHANGED <<file, met>>

AppsCreated(d) ==
    /\ At(d, "create") /\ Len(life[d].run) = Len(life[d].apps)
    /\ life' = [life EXCEPT ![d].pc = "check", ![d].sock = 1]
    /\ UNCHANGED <<file, main_cg, cg, proc, met>>

-----------------------------------------------------------------------------
(* Server::bind, LogServer::bind *)

Socket(d) == Sockets[life[d].sock]

Check(d) ==
    /\ At(d, "check")
    /\ life' = [life EXCEPT ![d].pc = "remove",
                            ![d].stale = file[Socket(d)] # NobodysFile]
    /\ UNCHANGED <<file, main_cg, cg, proc, met>>

(* Mutant: a stale file is left where it is. *)
RemoveStale_Not(d) ==
    /\ At(d, "remove")
    /\ life' = [life EXCEPT ![d].pc = "bind", ![d].stale = FALSE]
    /\ UNCHANGED <<file, main_cg, cg, proc, met>>

(* remove_file, if the file was there; by now it may be gone. *)
RemoveStale(d) ==
    /\ At(d, "remove")
    /\ \/ /\ life[d].stale /\ file[Socket(d)] = NobodysFile
          /\ Ends(d, "failed", proc)
          /\ UNCHANGED file
       \/ /\ life[d].stale => file[Socket(d)] # NobodysFile
          /\ life' = [life EXCEPT ![d].pc = "bind", ![d].stale = FALSE]
          /\ file' = IF life[d].stale
                     THEN [file EXCEPT ![Socket(d)] = NobodysFile] ELSE file
          /\ UNCHANGED proc
    /\ UNCHANGED <<main_cg, cg, met>>

(* The bind itself. *)
Bind(d) ==
    /\ At(d, "bind")
    /\ \/ /\ file[Socket(d)] # NobodysFile
          /\ Ends(d, "failed", proc)
          /\ UNCHANGED file
       \/ /\ file[Socket(d)] = NobodysFile
          /\ life' = [life EXCEPT
                ![d].pc = IF life[d].sock = Len(Sockets) THEN "serve" ELSE "check",
                ![d].sock = (@ % Len(Sockets)) + 1]
          /\ file' = [file EXCEPT ![Socket(d)] = d]
          /\ UNCHANGED proc
    /\ UNCHANGED <<main_cg, cg, met>>

-----------------------------------------------------------------------------
(* The event loop, as far as it matters here *)

(* App::start, for a client or for a restart; one that fails is no step. *)
Start(d, i) ==
    LET params == AppParams(life[d].apps[i], life[d].config[1], life[d].own)
        tokens == 3 * (Cardinality(Running(d)) + 1)
                     <= life[d].config[1].max_mio_tokens
    IN /\ At(d, "serve") /\ life[d].run[i] = NoProc /\ tokens
       /\ \E p \in FreeProcs :
             /\ life' = [life EXCEPT ![d].run[i] = p]
             /\ proc' = [proc EXCEPT ![p] = Spawned(d, params)]
       /\ main_cg' = TRUE /\ cg' = cg \cup Directories(params.name)
       /\ UNCHANGED <<file, met>>

(* What SIGKILL makes of a process: somebody reaps it. *)
Dead(r) == IF Alive(r.life) THEN [r EXCEPT !.st = "zombie"] ELSE FreeProc

(* Mutant: only the processes of this life are killed. *)
CgroupKilled_OwnOnly(procs, path, d) ==
    [p \in Procs |-> IF /\ procs[p].st = "live" /\ path \in Prefixes(procs[p].path)
                        /\ procs[p].life = d
                     THEN Dead(procs[p]) ELSE procs[p]]

(* cgroup.kill, which reaches the cgroups below it too, and the wait until it
   is empty. *)
CgroupKilled(procs, path, d) ==
    [p \in Procs |-> IF procs[p].st = "live" /\ path \in Prefixes(procs[p].path)
                     THEN Dead(procs[p]) ELSE procs[p]]

(* Mutant: the cgroup stays. *)
CgroupDeleted_Not(path) == cg

(* rmdir of the cgroup, which fails when another is in it. *)
CgroupDeleted(path) ==
    IF \E q \in cg : q # path /\ path \in Prefixes(q) THEN cg ELSE cg \ {path}

(* App::poll when the process has ended: AppRuntime::stop. *)
Reap(d, i) ==
    LET p    == life[d].run[i]
        path == proc[p].path
    IN /\ At(d, "serve") /\ p # NoProc /\ proc[p].st = "zombie"
       /\ proc' = CgroupKilled([proc EXCEPT ![p] = FreeProc], path, d)
       /\ cg' = IF \E q \in Procs : proc'[q].st = "live" /\ proc'[q].path = path
                THEN cg ELSE CgroupDeleted(path)
       /\ life' = [life EXCEPT ![d].run[i] = NoProc,
                               ![d].reaped = @ \cup {path}]
       /\ UNCHANGED <<file, main_cg, met>>

-----------------------------------------------------------------------------
(* The end *)

(* The loop breaks once nothing runs. *)
Quit(d) ==
    /\ At(d, "serve") /\ Running(d) = {}
    /\ life' = [life EXCEPT ![d].pc = "unlink"]
    /\ UNCHANGED <<file, main_cg, cg, proc, met>>

(* Mutant: the file of the log socket is forgotten. *)
Unlink_ControlOnly(d) ==
    /\ At(d, "unlink")
    /\ file' = [file EXCEPT !["control"] = NobodysFile]
    /\ life' = [life EXCEPT ![d].pc = "rmdir"]
    /\ UNCHANGED <<main_cg, cg, proc, met>>

(* remove_file of each socket, whoever it belongs to by now. *)
Unlink(d) ==
    /\ At(d, "unlink")
    /\ file' = [file EXCEPT ![Socket(d)] = NobodysFile]
    /\ life' = [life EXCEPT
          ![d].pc = IF life[d].sock = Len(Sockets) THEN "rmdir" ELSE @,
          ![d].sock = (@ % Len(Sockets)) + 1]
    /\ UNCHANGED <<main_cg, cg, proc, met>>

(* main_cg.delete().expect(): rmdir refuses a cgroup that has others in it,
   or that is gone. *)
DeleteMain(d) ==
    /\ At(d, "rmdir")
    /\ \/ /\ main_cg /\ cg = {}
          /\ main_cg' = FALSE /\ Ends(d, "exited", proc)
       \/ /\ ~main_cg \/ cg # {}
          /\ UNCHANGED main_cg /\ Ends(d, "panicked", proc)
    /\ UNCHANGED <<file, cg, met>>

-----------------------------------------------------------------------------
(* The environment *)

(* The daemon is killed; nothing is cleaned up. *)
Crash(d) ==
    /\ Alive(d)
    /\ Ends(d, "killed", proc)
    /\ UNCHANGED <<file, main_cg, cg, met>>

ProcExit(p) ==
    /\ proc[p].st = "live"
    /\ proc' = [proc EXCEPT ![p] = Dead(@)]
    /\ UNCHANGED <<life, file, main_cg, cg, met>>

Next ==
    \/ \E d \in Lives :
          \/ Boot(d) \/ CreateApp(d) \/ AppsCreated(d)
          \/ Check(d) \/ RemoveStale(d) \/ Bind(d)
          \/ \E i \in DOMAIN life[d].run : Start(d, i) \/ Reap(d, i)
          \/ Quit(d) \/ Unlink(d) \/ DeleteMain(d) \/ Crash(d)
    \/ \E p \in Procs : ProcExit(p)

Spec == Init /\ [][Next]_vars

-----------------------------------------------------------------------------
(* The applications that a configuration describes. *)
Described(f) ==
    Range(f.apps) \cup {e.app : e \in {x \in f.apps_dir : x.kind = "app"}}

(* The entries of those that start with the daemon. *)
Autostarted(f) ==
    {<<"file", i>> : i \in {j \in DOMAIN f.apps : f.apps[j].autostart}} \cup
    {<<"dir", e>> : e \in {x \in f.apps_dir : x.kind = "app" /\ x.app.autostart}}

(* A configuration that no daemon can serve. *)
Unusable(f) ==
    \/ f.kind # "config"
    \/ f.log_buffer_size % PageSize # 0
    \/ \E a \in Described(f) :
          LET size == OrElse(a.log_buffer_size, f.log_buffer_size)
          IN size = 0 \/ size % PageSize # 0
    \/ 3 * Cardinality(Autostarted(f)) > f.max_mio_tokens

(* A daemon that is the only one comes to serve whatever the daemons before
   it left behind, if it can serve its configuration at all: stale files,
   populated cgroups and files in apps_dir that are no applications do not
   stop it (bind, scan_apps_dir). *)
FailureExplained ==
    \A d \in Lives :
       At(d, "failed") => d \in met \/ Unusable(life[d].config[1])

(* A daemon that serves, and was never one of two, answers at both of its
   paths and supervises every application it was given (bind, all_apps). *)
ServesAll ==
    \A d \in Lives \ met : At(d, "serve") =>
       /\ \A s \in Range(Sockets) : file[s] = d
       /\ Range(life[d].apps) = Described(life[d].config[1])

(* Once a daemon that is the only one has reaped an application, no process
   that an earlier daemon had started for it is left (AppRuntime::stop). *)
OrphansReaped ==
    \A d \in Lives \ met, p \in Procs :
       Alive(d) /\ proc[p].st = "live" /\ proc[p].path \in life[d].reaped
          => proc[p].life = d

(* A daemon that exits, and was never one of two, leaves nothing behind, not
   even what daemons before it had left: no process, cgroup or file. *)
LeavesNothing ==
    \A d \in Lives \ met :
       At(d, "exited") /\ (\A e \in Lives : e > d => At(e, "off")) =>
          /\ \A s \in Range(Sockets) : file[s] = NobodysFile
          /\ ~main_cg /\ cg = {}
          /\ \A p \in Procs : proc[p].st = "free"

(* Its exit fails only over the cgroup of an application that was left by a
   daemon before it and that it never ran, or whose name is a path. *)
PanicExplained ==
    \A d \in Lives \ met : At(d, "panicked") =>
       \/ life[d].leftover \ life[d].reaped # {}
       \/ \E path \in life[d].reaped : Len(path) > 1

(* A daemon of root starts every program as the user and group that are
   configured, or as its own where they are not or nobody has that name;
   another daemon starts it so or not at all (setup_child). *)
RunsAsConfigured ==
    \A d \in Lives : \A i \in DOMAIN life[d].run :
       Alive(d) /\ life[d].run[i] # NoProc =>
          LET params == AppParams(life[d].apps[i], life[d].config[1], life[d].own)
              ids    == proc[life[d].run[i]].ids
          IN \/ ids = [uid |-> params.uid, gid |-> params.gid]
             \/ life[d].own.uid # 0 /\ ids = Refused
=============================================================================
