-------------------------- MODULE SupervisorProofs --------------------------
(***************************************************************************)
(* Proofs about the daemon for any number of applications, processes,      *)
(* tokens and clients, and any set of faults.                              *)
(***************************************************************************)
EXTENDS Supervisor, TLAPS

-----------------------------------------------------------------------------
(* The inductive invariant.  AppInv is about the applications, ClientInv about
   the control socket, LoopInv about where the loop is. *)

(* Every process belongs to an application. *)
ProcsOwned == \A p \in Pids : proc[p].st # "free" => proc[p].app \in Apps

(* A running application holds real tokens. *)
RuntimesHoldTokens ==
    \A a \in Apps : Running(a) => app[a].tokens \in [Fds -> Tokens]

AppInv ==
    /\ AppTypeOK /\ ProcsOwned /\ RuntimesHoldTokens
    /\ TrackedChild /\ RestartJustified

(* A client has at most one connection, and none before it is accepted. *)
OneConnection ==
    /\ \A t, u \in Tokens :
          IsKnown(t) /\ conns[u].client = conns[t].client => u = t
    /\ \A c \in Clients : c \in backlog \/ client[c].st = "idle"
                             => \A t \in Tokens : conns[t].client # c
    /\ \A c \in backlog : client[c].st # "idle"

(* A response is queued once, after its request was read, and what is queued,
   in the socket and received add up to no more than the response. *)
OneResponse ==
    /\ \A c \in Clients :
          /\ client[c].got + client[c].inq <= ResponseChunks
          /\ client[c].line # "read" => client[c].got = 0 /\ client[c].inq = 0
    /\ \A t \in Tokens : IsKnown(t) =>
          /\ conns[t].write_buf + Peer(t).got + Peer(t).inq <= ResponseChunks
          /\ Peer(t).line # "read" => conns[t].write_buf = 0

ClientInv == IpcTypeOK /\ OneConnection /\ OneResponse

(* The connection behind t has had its request read, and nothing was sent. *)
Unanswered(t) ==
    /\ t \in Tokens /\ IsKnown(t)
    /\ Peer(t).line = "read" /\ conns[t].write_buf = 0
    /\ Peer(t).got = 0 /\ Peer(t).inq = 0

Serving == pc = "request" => Unanswered(job.tok)

SigintsBounded == sigpending => sigint_count < MaxSigints

(* Nobody can ask for a stop before the daemon listens. *)
CreatedFresh == pc = "create" => \A a \in Apps : ~app[a].stop_requested

LoopInv == LoopTypeOK /\ Serving /\ SigintsBounded /\ CreatedFresh

CoreInv == AppInv /\ SlabTypeOK /\ ClientInv /\ LoopInv

IndInv == CoreInv /\ LogTypeOK

-----------------------------------------------------------------------------
(* What the helpers return *)

(* What allocate leaves of the slab's vacant tokens are tokens. *)
LEMMA AllocateType ==
    ASSUME NEW s \in Seq(Tokens), NEW n \in 0..Len(s)
    PROVE  Allocate(s, n) \in Seq(Tokens)
BY DEF Allocate

(* free gives the slab back a token. *)
LEMMA FreeType ==
    ASSUME NEW s \in Seq(Tokens), NEW t \in Tokens
    PROVE  Free(s, t) \in Seq(Tokens)
BY DEF Free

(* With three vacant tokens, an AppRuntime gets three tokens. *)
LEMMA TopTokensType ==
    ASSUME NEW s \in Seq(Tokens), Len(s) >= 3
    PROVE  TopTokens(s) \in [Fds -> Tokens]
<1>1. s[1] \in Tokens /\ s[2] \in Tokens /\ s[3] \in Tokens
  OBVIOUS
<1> QED
  BY <1>1, Zenon DEF TopTokens

(* The App that AppRuntime::start succeeds for is running, has no pending
   restart, and keeps everything else. *)
LEMMA LaunchedFacts ==
    ASSUME NEW r \in AppRecord, NEW p \in Pids,
           vacant \in Seq(Tokens), Len(vacant) >= 3
    PROVE  /\ Launched(r, p) \in AppRecord
           /\ Launched(r, p).state = "running"
           /\ Launched(r, p).restart_deadline = "none"
           /\ Launched(r, p).pid = p
           /\ Launched(r, p).tokens \in [Fds -> Tokens]
           /\ Launched(r, p).stop_requested = r.stop_requested
BY TopTokensType DEF Launched, AppRecord

(* stopped_with_cause stops the App and cancels its restart, and keeps
   stop_requested and the failure count. *)
LEMMA StoppedFacts ==
    ASSUME NEW r \in AppRecord
    PROVE  /\ Stopped(r) \in AppRecord
           /\ Stopped(r).state = "stopped"
           /\ Stopped(r).restart_deadline = "none"
           /\ Stopped(r).stop_requested = r.stop_requested
           /\ Stopped(r).consecutive_failures = r.consecutive_failures
BY DEF Stopped, AppRecord, NoTokens

(* The two ways AppStop changes a record. *)
AskedToStop(r) == [r EXCEPT !.stop_requested = TRUE]
Cancelled(r) == [r EXCEPT !.restart_deadline = "none", !.stop_requested = TRUE]

(* What App::stop makes of a record: a stop is requested, and in the second
   form the pending restart is cancelled. *)
LEMMA StopRecordFacts ==
    ASSUME NEW r \in AppRecord
    PROVE  /\ AskedToStop(r) \in AppRecord
           /\ AskedToStop(r).state = r.state
           /\ AskedToStop(r).pid = r.pid
           /\ AskedToStop(r).tokens = r.tokens
           /\ AskedToStop(r).restart_deadline = r.restart_deadline
           /\ Cancelled(r) \in AppRecord
           /\ Cancelled(r).state = r.state
           /\ Cancelled(r).pid = r.pid
           /\ Cancelled(r).tokens = r.tokens
           /\ Cancelled(r).restart_deadline = "none"
BY DEF AskedToStop, Cancelled, AppRecord

(* clone3 makes a live child of the daemon. *)
LEMMA SpawnedFacts ==
    ASSUME NEW a \in Apps
    PROVE  /\ Spawned(a) \in ProcRecord
           /\ Spawned(a).st # "free" /\ Spawned(a).child
           /\ Spawned(a).app = a
BY DEF Spawned, ProcRecord, Alive

(* A pid that is not in use is a process record. *)
LEMMA FreeProcType == FreeProc \in ProcRecord /\ FreeProc.st = "free"
BY DEF FreeProc, ProcRecord

(* kill(2) changes neither the parent nor the application of a process, and
   frees no pid. *)
LEMMA SignalledFacts ==
    ASSUME NEW p \in ProcRecord, NEW force \in BOOLEAN
    PROVE  /\ Signalled(p, force) \in ProcRecord
           /\ Signalled(p, force).app = p.app
           /\ Signalled(p, force).child = p.child
           /\ Signalled(p, force).st = "free" <=> p.st = "free"
BY DEF Signalled, ProcRecord, Alive

(* cgroup.kill starts no process and moves none to another application. *)
LEMMA CgroupKilledFacts ==
    ASSUME NEW p \in ProcRecord, NEW fate
    PROVE  /\ CgroupKilled(p, fate) \in ProcRecord
           /\ CgroupKilled(p, fate).st # "free" =>
                 CgroupKilled(p, fate).app = p.app /\ p.st # "free"
<1>1. CASE p.st \notin Alive \/ fate = "spared"
  <2>1. CgroupKilled(p, fate) = p
    BY <1>1, Zenon DEF CgroupKilled
  <2> QED
    BY <2>1
<1>2. CASE p.st \in Alive /\ fate = "dying" /\ fate # "spared"
  <2>1. CgroupKilled(p, fate) = [p EXCEPT !.st = "kill"]
    BY <1>2, Zenon DEF CgroupKilled
  <2> QED
    BY <1>2, <2>1 DEF ProcRecord, Alive
<1>3. CASE p.st \in Alive /\ fate # "spared" /\ fate # "dying"
  <2>1. CgroupKilled(p, fate) =
           IF p.child THEN [p EXCEPT !.st = "zombie", !.ret = "err"]
           ELSE FreeProc
    BY <1>3, Zenon DEF CgroupKilled
  <2>2. CgroupKilled(p, fate) = [p EXCEPT !.st = "zombie", !.ret = "err"]
           \/ CgroupKilled(p, fate) = FreeProc
    BY <2>1
  <2> QED
    BY <1>3, <2>2, FreeProcType DEF ProcRecord, Alive
<1> QED
  BY <1>1, <1>2, <1>3

-----------------------------------------------------------------------------
(* The methods of App preserve AppInv *)

(* A step that launches or spawns into a free pid disturbs no tracked child. *)
LEMMA RuntimeStartInv ==
    ASSUME AppInv, vacant \in Seq(Tokens), NEW a \in Apps, NEW r \in AppRecord,
           RuntimeStart(a, r), UNCHANGED params
    PROVE  AppInv'
<1>1. PICK p \in FreePids : /\ app' = [app EXCEPT ![a] = Launched(r, p)]
                            /\ proc' = [proc EXCEPT ![p] = Spawned(a)]
  BY DEF RuntimeStart
<1>2. p \in Pids /\ proc[p].st = "free"
  BY DEF FreePids
<1>3. Len(vacant) >= 3
  BY DEF RuntimeStart
<1> DEFINE new == Launched(r, p)
<1>4. /\ new \in AppRecord /\ new.state = "running"
      /\ new.restart_deadline = "none" /\ new.pid = p
      /\ new.tokens \in [Fds -> Tokens]
  BY <1>2, <1>3, LaunchedFacts
<1>5. app \in [Apps -> AppRecord] /\ proc \in [Pids -> ProcRecord]
  BY DEF AppInv, AppTypeOK
<1>6. app'[a] = new /\ \A b \in Apps \ {a} : app'[b] = app[b]
  BY <1>1, <1>5
<1>7. proc'[p] = Spawned(a) /\ \A q \in Pids \ {p} : proc'[q] = proc[q]
  BY <1>1, <1>2, <1>5
<1> HIDE DEF new
<1>8. AppTypeOK'
  <2>1. app' \in [Apps -> AppRecord]
    BY <1>1, <1>4, <1>5 DEF new
  <2>2. proc' \in [Pids -> ProcRecord]
    BY <1>1, <1>2, <1>5, SpawnedFacts
  <2> QED
    BY <2>1, <2>2 DEF AppTypeOK, AppInv, RuntimeStart
<1>9. ProcsOwned'
  BY <1>7, SpawnedFacts DEF ProcsOwned, AppInv
<1>10. RuntimesHoldTokens'
  BY <1>4, <1>6 DEF RuntimesHoldTokens, AppInv, Running
<1>11. TrackedChild'
  BY <1>2, <1>4, <1>6, <1>7, SpawnedFacts DEF TrackedChild, AppInv, Running
<1>12. RestartJustified'
  BY <1>4, <1>6 DEF RestartJustified, AppInv, Running, Pending
<1> QED
  BY <1>8, <1>9, <1>10, <1>11, <1>12 DEF AppInv

(* A failed start of an application that does not run leaves it as it was or
   without a pending restart. *)
LEMMA RuntimeFailsInv ==
    ASSUME AppInv, NEW a \in Apps, NEW r \in {app[a], Stopped(app[a])},
           ~Running(a) \/ r = app[a],
           RuntimeFails(a, r), UNCHANGED params
    PROVE  AppInv'
<1>1. app \in [Apps -> AppRecord] /\ proc \in [Pids -> ProcRecord]
  BY DEF AppInv, AppTypeOK
<1>2. app' = [app EXCEPT ![a] = r]
  BY DEF RuntimeFails
<1>3. /\ r \in AppRecord
      /\ r = app[a] \/ (r.state = "stopped" /\ r.restart_deadline = "none")
  BY <1>1, StoppedFacts
<1>4. app'[a] = r /\ \A b \in Apps \ {a} : app'[b] = app[b]
  BY <1>1, <1>2
<1>5. \A b \in Apps : app'[b] = app[b] \/ (app'[b].state = "stopped"
                                           /\ app'[b].restart_deadline = "none")
  BY <1>3, <1>4
<1>6. \/ proc' = proc
      \/ \E p \in FreePids : proc' = [proc EXCEPT ![p] = Spawned(a)]
  BY DEF RuntimeFails
<1>7. \A q \in Pids : \/ proc'[q] = proc[q]
                      \/ proc[q].st = "free" /\ proc'[q] = Spawned(a)
  BY <1>1, <1>6 DEF FreePids
<1>8. AppTypeOK'
  <2>1. app' \in [Apps -> AppRecord]
    BY <1>1, <1>2, <1>3
  <2>2. proc' \in [Pids -> ProcRecord]
    BY <1>1, <1>6, SpawnedFacts DEF FreePids
  <2> QED
    BY <2>1, <2>2 DEF AppTypeOK, AppInv, RuntimeFails
<1>9. ProcsOwned'
  BY <1>7, SpawnedFacts DEF ProcsOwned, AppInv
<1>10. RuntimesHoldTokens'
  BY <1>5 DEF RuntimesHoldTokens, AppInv, Running
<1>11. TrackedChild'
  BY <1>5, <1>7 DEF TrackedChild, AppInv, Running
<1>12. RestartJustified'
  BY <1>5 DEF RestartJustified, AppInv, Running, Pending
<1> QED
  BY <1>8, <1>9, <1>10, <1>11, <1>12 DEF AppInv

(* kill(2) leaves every process what it was. *)
LEMMA AppStopInv ==
    ASSUME AppInv, NEW a \in Apps, NEW force \in BOOLEAN,
           AppStop(a, force), UNCHANGED params
    PROVE  AppInv'
<1>1. app \in [Apps -> AppRecord] /\ proc \in [Pids -> ProcRecord]
  BY DEF AppInv, AppTypeOK
<1>2. CASE Running(a) /\ app' = [app EXCEPT ![a].stop_requested = TRUE]
           /\ proc' = [proc EXCEPT ![app[a].pid] = Signalled(@, force)]
  <2>1. app[a].pid \in Pids
    BY <1>2 DEF AppInv, TrackedChild
  <2>2. app'[a] = AskedToStop(app[a])
        /\ \A b \in Apps \ {a} : app'[b] = app[b]
    BY <1>1, <1>2 DEF AskedToStop
  <2>3. /\ app'[a] \in AppRecord
        /\ app'[a].state = app[a].state /\ app'[a].pid = app[a].pid
        /\ app'[a].tokens = app[a].tokens
        /\ app'[a].restart_deadline = app[a].restart_deadline
    BY <1>1, <2>2, StopRecordFacts
  <2>4. \A q \in Pids : /\ proc'[q] \in ProcRecord
                        /\ proc'[q].app = proc[q].app
                        /\ proc'[q].child = proc[q].child
                        /\ proc'[q].st = "free" <=> proc[q].st = "free"
    <3>1. SUFFICES ASSUME NEW q \in Pids, q = app[a].pid
                   PROVE  proc'[q] = Signalled(proc[q], force)
      BY <1>1, <1>2, SignalledFacts
    <3> QED
      BY <1>1, <1>2, <3>1
  <2>5. AppTypeOK'
    <3>1. app' \in [Apps -> AppRecord]
      BY <1>1, <1>2, <2>3, <2>2
    <3>2. proc' \in [Pids -> ProcRecord]
      BY <1>1, <1>2, <2>4
    <3> QED
      BY <3>1, <3>2 DEF AppTypeOK, AppInv, AppStop
  <2>6. ~Pending(a)
    BY <1>2 DEF AppInv, RestartJustified
  <2>7. ProcsOwned' /\ RuntimesHoldTokens'
    <3>1. ProcsOwned'
      BY <2>4 DEF AppInv, ProcsOwned
    <3>2. RuntimesHoldTokens'
      BY <2>2, <2>3 DEF AppInv, RuntimesHoldTokens, Running
    <3> QED
      BY <3>1, <3>2
  <2>8. TrackedChild'
    BY <1>1, <2>2, <2>3, <2>4 DEF AppInv, TrackedChild, Running
  <2>9. RestartJustified'
    BY <2>2, <2>3, <2>6 DEF AppInv, RestartJustified, Running, Pending
  <2> QED
    BY <2>5, <2>7, <2>8, <2>9 DEF AppInv
<1>3. CASE ~Running(a) /\ proc' = proc
           /\ app' = [app EXCEPT ![a].restart_deadline = "none",
                                 ![a].stop_requested = TRUE]
  <2>1. app'[a] = Cancelled(app[a])
        /\ \A b \in Apps \ {a} : app'[b] = app[b]
    BY <1>1, <1>3 DEF Cancelled
  <2>2. app'[a] \in AppRecord /\ app'[a].state = app[a].state
        /\ app'[a].restart_deadline = "none"
        /\ app'[a].pid = app[a].pid /\ app'[a].tokens = app[a].tokens
    BY <1>1, <2>1, StopRecordFacts
  <2>3. AppTypeOK'
    BY <1>1, <1>3, <2>1, <2>2 DEF AppTypeOK, AppInv, AppStop
  <2>4. ProcsOwned' /\ RuntimesHoldTokens' /\ TrackedChild'
    BY <1>3, <2>1, <2>2
    DEF AppInv, ProcsOwned, RuntimesHoldTokens, TrackedChild, Running
  <2>5. RestartJustified'
    BY <2>1, <2>2 DEF AppInv, RestartJustified, Running, Pending
  <2> QED
    BY <2>3, <2>4, <2>5 DEF AppInv
<1>4. CASE UNCHANGED <<app, proc>>
  BY <1>4 DEF AppStop, AppInv, AppTypeOK, ProcsOwned, RuntimesHoldTokens,
              TrackedChild, RestartJustified, Running, Pending
<1> QED
  BY <1>2, <1>3, <1>4 DEF AppStop

(* maybe_restart cancels, attempts or leaves alone a pending restart. *)
LEMMA MaybeRestartInv ==
    ASSUME AppInv, vacant \in Seq(Tokens), NEW a \in Apps,
           NEW allow_restart \in BOOLEAN,
           MaybeRestart(a, allow_restart), UNCHANGED params
    PROVE  AppInv'
<1>1. app \in [Apps -> AppRecord]
  BY DEF AppInv, AppTypeOK
<1>2. Pending(a) => ~Running(a)
  BY DEF AppInv, RestartJustified
<1>3. CASE Pending(a) /\ app' = [app EXCEPT ![a] = Stopped(@)]
           /\ UNCHANGED <<vacant, cgroup, proc, ready>>
  <2>1. app'[a] = Stopped(app[a]) /\ \A b \in Apps \ {a} : app'[b] = app[b]
    BY <1>1, <1>3
  <2>2. /\ app'[a] \in AppRecord /\ app'[a].state = "stopped"
        /\ app'[a].restart_deadline = "none"
    BY <1>1, <2>1, StoppedFacts
  <2>3. AppTypeOK'
    BY <1>1, <1>3, <2>1, <2>2 DEF AppInv, AppTypeOK
  <2>4. ProcsOwned' /\ RuntimesHoldTokens' /\ TrackedChild'
    BY <1>3, <2>1, <2>2
    DEF AppInv, ProcsOwned, RuntimesHoldTokens, TrackedChild, Running
  <2>5. RestartJustified'
    BY <2>1, <2>2 DEF AppInv, RestartJustified, Running, Pending
  <2> QED
    BY <2>3, <2>4, <2>5 DEF AppInv
<1>4. CASE RuntimeStart(a, app[a])
  BY <1>1, <1>4, RuntimeStartInv
<1>5. CASE Pending(a) /\ RuntimeFails(a, Stopped(app[a]))
  BY <1>2, <1>5, RuntimeFailsInv
<1>6. CASE UNCHANGED <<app, vacant, cgroup, proc, ready>>
  BY <1>6 DEF AppInv, AppTypeOK, ProcsOwned, RuntimesHoldTokens,
              TrackedChild, RestartJustified, Running, Pending
<1> QED
  BY <1>3, <1>4, <1>5, <1>6 DEF MaybeRestart, Pending

(* What schedule_restart makes of a stopped record. *)
Rescheduled(r, f, n) ==
    [r EXCEPT !.consecutive_failures = f, !.restart_deadline = n]

(* schedule_restart sets the failure count and the deadline, nothing else. *)
LEMMA RescheduledFacts ==
    ASSUME NEW r \in AppRecord, NEW f \in Nat, NEW n \in {"waiting", "none"}
    PROVE  /\ Rescheduled(r, f, n) \in AppRecord
           /\ Rescheduled(r, f, n).state = r.state
           /\ Rescheduled(r, f, n).stop_requested = r.stop_requested
           /\ Rescheduled(r, f, n).restart_deadline = n
           /\ Rescheduled(r, f, n).consecutive_failures = f
BY DEF Rescheduled, AppRecord

(* A restart is scheduled only if the policy does not give up after the
   failures counted so far. *)
LEMMA ScheduledFacts ==
    ASSUME NEW a \in Apps, app \in [Apps -> AppRecord],
           NEW ok \in BOOLEAN, NEW long \in BOOLEAN
    PROVE  /\ Scheduled(a, ok, long) \in AppRecord
           /\ Scheduled(a, ok, long).state = "stopped"
           /\ Scheduled(a, ok, long).stop_requested = app[a].stop_requested
           /\ Scheduled(a, ok, long).restart_deadline # "none"
                 => ~GivesUp(params[a].restart,
                             Scheduled(a, ok, long).consecutive_failures)
<1> DEFINE fails == NextFailures(app[a].consecutive_failures, ok, long)
           next  == IF Restarts(params[a].restart, ok, fails)
                    THEN "waiting" ELSE "none"
           r     == Stopped(app[a])
<1>1. app[a].consecutive_failures \in Nat
  BY DEF AppRecord
<1>2. fails \in Nat
  BY <1>1 DEF NextFailures
<1>3. /\ next \in {"waiting", "none"}
      /\ next # "none" => ~GivesUp(params[a].restart, fails)
  BY DEF Restarts
<1>4. r \in AppRecord /\ r.state = "stopped"
      /\ r.stop_requested = app[a].stop_requested
  BY StoppedFacts
<1>5. Scheduled(a, ok, long) = Rescheduled(r, fails, next)
  BY Zenon DEF Scheduled, Rescheduled
<1> HIDE DEF fails, next, r
<1>6. /\ Rescheduled(r, fails, next) \in AppRecord
      /\ Rescheduled(r, fails, next).state = r.state
      /\ Rescheduled(r, fails, next).stop_requested = r.stop_requested
      /\ Rescheduled(r, fails, next).restart_deadline = next
      /\ Rescheduled(r, fails, next).consecutive_failures = fails
  BY <1>2, <1>3, <1>4, RescheduledFacts
<1> QED
  BY <1>3, <1>4, <1>5, <1>6

(* Reaping touches only processes of the application that is reaped. *)
LEMMA ReapInv ==
    ASSUME AppInv, NEW a \in Apps, NEW try_restart \in BOOLEAN,
           Running(a), Reap(a, try_restart), UNCHANGED params
    PROVE  AppInv'
<1> DEFINE pid  == app[a].pid
           left == [proc EXCEPT ![pid] = FreeProc]
           cg(fate) == [p \in Pids |-> IF left[p].app = a
                                       THEN CgroupKilled(left[p], fate)
                                       ELSE left[p]]
<1>1. app \in [Apps -> AppRecord] /\ proc \in [Pids -> ProcRecord]
  BY DEF AppInv, AppTypeOK
<1>2. PICK long \in BOOLEAN, fate \in KillFates :
         /\ proc' = cg(fate)
         /\ cgroup' = IF \E p \in Pids : cg(fate)[p].app = a
                                         /\ cg(fate)[p].st \in Alive
                      THEN cgroup ELSE cgroup \ {a}
         /\ app' = [app EXCEPT ![a] =
               IF MayRestart(a, try_restart)
               THEN Scheduled(a, proc[pid].ret = "ok", long)
               ELSE Stopped(@)]
  BY Zenon DEF Reap
<1>3. left \in [Pids -> ProcRecord]
  BY <1>1, FreeProcType
<1>4. \A q \in Pids : q # pid => left[q] = proc[q]
  BY <1>1
<1>5. \A q \in Pids : left[q].st # "free" => left[q] = proc[q] /\ q # pid
  BY <1>1, FreeProcType
<1> HIDE DEF left
<1>6. \A q \in Pids : cg(fate)[q] = IF left[q].app = a
                                    THEN CgroupKilled(left[q], fate)
                                    ELSE left[q]
  OBVIOUS
<1>7. \A q \in Pids : /\ cg(fate)[q] \in ProcRecord
                      /\ cg(fate)[q].st # "free" => cg(fate)[q].app = left[q].app
                                                    /\ left[q].st # "free"
                      /\ left[q].app # a => cg(fate)[q] = left[q]
  BY <1>3, <1>6, CgroupKilledFacts
<1>8. cg(fate) \in [Pids -> ProcRecord]
  <2>1. \A q \in Pids : (IF left[q].app = a THEN CgroupKilled(left[q], fate)
                         ELSE left[q]) \in ProcRecord
    BY <1>3, CgroupKilledFacts
  <2> QED
    BY <2>1
<1> HIDE DEF cg
<1> DEFINE new == IF MayRestart(a, try_restart)
                  THEN Scheduled(a, proc[pid].ret = "ok", long)
                  ELSE Stopped(app[a])
<1>9. app'[a] = new /\ \A b \in Apps \ {a} : app'[b] = app[b]
  BY <1>1, <1>2
<1>10. /\ new \in AppRecord /\ new.state = "stopped"
       /\ new.restart_deadline # "none" =>
             /\ ~new.stop_requested /\ ~params[a].oneshot
             /\ ~GivesUp(params[a].restart, new.consecutive_failures)
  <2>1. CASE MayRestart(a, try_restart)
    <3> DEFINE s == Scheduled(a, proc[pid].ret = "ok", long)
    <3>1. new = s
      BY <2>1
    <3>2. /\ s \in AppRecord /\ s.state = "stopped"
          /\ s.stop_requested = app[a].stop_requested
          /\ s.restart_deadline # "none"
                => ~GivesUp(params[a].restart, s.consecutive_failures)
      BY <1>1, ScheduledFacts
    <3>3. ~app[a].stop_requested /\ ~params[a].oneshot
      BY <2>1 DEF MayRestart
    <3> HIDE DEF s, new
    <3> QED
      BY <3>1, <3>2, <3>3
  <2>2. CASE ~MayRestart(a, try_restart)
    <3>1. new = Stopped(app[a])
      BY <2>2
    <3> HIDE DEF new
    <3> QED
      BY <1>1, <3>1, StoppedFacts
  <2> QED
    BY <2>1, <2>2
<1> HIDE DEF new
<1>11. AppTypeOK'
  <2>1. app' \in [Apps -> AppRecord]
    BY <1>1, <1>2, <1>10 DEF new
  <2>2. proc' \in [Pids -> ProcRecord]
    BY <1>2, <1>8
  <2>3. cgroup' \subseteq cgroup
    BY <1>2
  <2> QED
    BY <2>1, <2>2, <2>3 DEF AppTypeOK, AppInv
<1>12. ProcsOwned'
  BY <1>2, <1>5, <1>7 DEF AppInv, ProcsOwned
<1>13. RuntimesHoldTokens'
  BY <1>9, <1>10 DEF AppInv, RuntimesHoldTokens, Running
<1>14. TrackedChild'
  <2>1. SUFFICES ASSUME NEW b \in Apps, Running(b)'
                 PROVE  /\ app'[b].pid \in Pids
                        /\ proc'[app'[b].pid].st # "free"
                        /\ proc'[app'[b].pid].child
                        /\ proc'[app'[b].pid].app = b
    BY DEF TrackedChild
  <2>2. b # a /\ app'[b] = app[b] /\ Running(b)
    BY <1>9, <1>10, <2>1 DEF Running
  <2>3. /\ app[b].pid \in Pids /\ proc[app[b].pid].st # "free"
        /\ proc[app[b].pid].child /\ proc[app[b].pid].app = b
    BY <2>2 DEF AppInv, TrackedChild
  <2>4. app[b].pid # pid
    BY <2>2, <2>3 DEF AppInv, TrackedChild
  <2>5. left[app[b].pid] = proc[app[b].pid]
    BY <1>4, <2>3, <2>4
  <2>6. proc'[app[b].pid] = proc[app[b].pid]
    BY <1>2, <1>7, <2>2, <2>3, <2>5
  <2> QED
    BY <2>2, <2>3, <2>6
<1>15. RestartJustified'
  BY <1>9, <1>10 DEF AppInv, RestartJustified, Running, Pending
<1> QED
  BY <1>11, <1>12, <1>13, <1>14, <1>15 DEF AppInv

(* Steps that leave the applications and processes alone. *)
LEMMA AppInvUnchanged ==
    ASSUME AppInv, UNCHANGED <<params, app, cgroup, proc>>
    PROVE  AppInv'
BY DEF AppInv, AppTypeOK, ProcsOwned, RuntimesHoldTokens, TrackedChild,
       RestartJustified, Running, Pending

(* App::start runs a stopped application or changes nothing. *)
LEMMA AppStartInv ==
    ASSUME AppInv, vacant \in Seq(Tokens), NEW a \in Apps, AppStart(a),
           UNCHANGED params
    PROVE  AppInv'
<1> DEFINE r == [app[a] EXCEPT !.consecutive_failures = 0,
                               !.stop_requested = FALSE]
<1>1. app[a] \in AppRecord
  BY DEF AppInv, AppTypeOK
<1>2. \A s \in AppRecord : [s EXCEPT !.consecutive_failures = 0,
                                     !.stop_requested = FALSE] \in AppRecord
  BY DEF AppRecord
<1>3. r \in AppRecord
  BY <1>1, <1>2
<1>4. CASE RuntimeStart(a, r)
  <2> HIDE DEF r
  <2> QED
    BY <1>3, <1>4, RuntimeStartInv
<1>5. CASE RuntimeFails(a, app[a])
  BY <1>5, RuntimeFailsInv
<1>6. CASE UNCHANGED <<app, vacant, cgroup, proc, ready>>
  BY <1>6, AppInvUnchanged
<1> QED
  BY <1>4, <1>5, <1>6 DEF AppStart

(* App::create starts an application that is configured to autostart. *)
LEMMA AppCreateInv ==
    ASSUME AppInv, vacant \in Seq(Tokens), NEW a \in Apps,
           AppCreate(a) \/ AppCreateFails(a), UNCHANGED params
    PROVE  AppInv'
<1>1. app[a] \in AppRecord
  BY DEF AppInv, AppTypeOK
<1>2. CASE RuntimeStart(a, app[a])
  BY <1>1, <1>2, RuntimeStartInv
<1>3. CASE RuntimeFails(a, app[a])
  BY <1>3, RuntimeFailsInv
<1>4. CASE UNCHANGED <<app, vacant, cgroup, proc, ready>>
  BY <1>4, AppInvUnchanged
<1> QED
  BY <1>2, <1>3, <1>4 DEF AppCreate, AppCreateFails

(* A child that ends stays a child until it is reaped. *)
LEMMA ProcExitInv ==
    ASSUME AppInv, NEW p \in Pids, NEW ret \in {"ok", "err"}, ProcExit(p, ret)
    PROVE  AppInv'
<1>1. proc \in [Pids -> ProcRecord] /\ UNCHANGED <<params, app, cgroup>>
  BY DEF AppInv, AppTypeOK, ProcExit
<1> DEFINE z == [proc[p] EXCEPT !.st = "zombie", !.ret = ret]
           e == IF proc[p].child THEN z ELSE FreeProc
<1>2. proc' = [proc EXCEPT ![p] = e] /\ proc[p].st \in Alive
  BY DEF ProcExit
<1>3. \A s \in ProcRecord : LET y == [s EXCEPT !.st = "zombie", !.ret = ret] IN
         /\ y \in ProcRecord /\ y.st = "zombie"
         /\ y.app = s.app /\ y.child = s.child
  BY DEF ProcRecord
<1>4. z \in ProcRecord /\ z.st = "zombie" /\ z.app = proc[p].app
      /\ z.child = proc[p].child
  BY <1>1, <1>3
<1> HIDE DEF z
<1>5. /\ e \in ProcRecord
      /\ proc[p].child => /\ e.st = "zombie" /\ e.child = proc[p].child
                          /\ e.app = proc[p].app
      /\ ~proc[p].child => e.st = "free"
  <2>1. CASE proc[p].child
    BY <1>4, <2>1
  <2>2. CASE ~proc[p].child
    BY <2>2, FreeProcType
  <2> QED
    BY <2>1, <2>2
<1>6. proc[p].st # "free"
  BY <1>2 DEF Alive
<1> HIDE DEF e
<1>7. proc'[p] = e /\ \A q \in Pids \ {p} : proc'[q] = proc[q]
  BY <1>1, <1>2
<1>8. AppTypeOK'
  <2>1. proc' \in [Pids -> ProcRecord]
    BY <1>1, <1>2, <1>5
  <2> QED
    BY <1>1, <2>1 DEF AppTypeOK, AppInv
<1>9. ProcsOwned'
  BY <1>5, <1>6, <1>7 DEF AppInv, ProcsOwned
<1>10. TrackedChild'
  BY <1>1, <1>5, <1>7 DEF AppInv, TrackedChild, Running
<1>11. RuntimesHoldTokens' /\ RestartJustified'
  BY <1>1 DEF AppInv, RuntimesHoldTokens, RestartJustified, Running, Pending
<1> QED
  BY <1>8, <1>9, <1>10, <1>11 DEF AppInv

(* A fork takes a free pid, so no tracked child is disturbed. *)
LEMMA ProcForkInv ==
    ASSUME AppInv, NEW p \in Pids, ProcFork(p)
    PROVE  AppInv'
<1>1. proc \in [Pids -> ProcRecord] /\ UNCHANGED <<params, app, cgroup>>
  BY DEF AppInv, AppTypeOK, ProcFork
<1> DEFINE d == [Spawned(proc[p].app) EXCEPT !.child = FALSE]
<1>2. PICK q \in FreePids : proc' = [proc EXCEPT ![q] = d]
  BY DEF ProcFork
<1>3. proc[p].app \in Apps
  BY DEF AppInv, ProcsOwned, ProcFork
<1>4. d \in ProcRecord /\ d.app \in Apps
  BY <1>3 DEF Spawned, ProcRecord, Alive
<1> HIDE DEF d
<1>5. q \in Pids /\ proc[q].st = "free"
  BY DEF FreePids
<1>6. proc'[q] = d /\ \A x \in Pids \ {q} : proc'[x] = proc[x]
  BY <1>1, <1>2, <1>5
<1>7. AppTypeOK'
  <2>1. proc' \in [Pids -> ProcRecord]
    BY <1>1, <1>2, <1>4
  <2> QED
    BY <1>1, <2>1 DEF AppTypeOK, AppInv
<1>8. ProcsOwned'
  BY <1>4, <1>6 DEF AppInv, ProcsOwned
<1>9. TrackedChild'
  BY <1>1, <1>5, <1>6 DEF AppInv, TrackedChild, Running
<1>10. RuntimesHoldTokens' /\ RestartJustified'
  BY <1>1 DEF AppInv, RuntimesHoldTokens, RestartJustified, Running, Pending
<1> QED
  BY <1>7, <1>8, <1>9, <1>10 DEF AppInv

(* A delay that elapses only makes a pending restart due. *)
LEMMA DelayElapsesInv ==
    ASSUME AppInv, NEW a \in Apps, DelayElapses(a)
    PROVE  /\ AppInv'
           /\ \A b \in Apps : app'[b].stop_requested = app[b].stop_requested
<1>1. app \in [Apps -> AppRecord] /\ UNCHANGED <<params, cgroup, proc>>
  BY DEF AppInv, AppTypeOK, DelayElapses
<1> DEFINE d == [app[a] EXCEPT !.restart_deadline = "due"]
<1>2. app'[a] = d /\ \A b \in Apps \ {a} : app'[b] = app[b]
  BY <1>1 DEF DelayElapses
<1>3. \A s \in AppRecord : LET y == [s EXCEPT !.restart_deadline = "due"] IN
         /\ y \in AppRecord /\ y.state = s.state /\ y.tokens = s.tokens
         /\ y.pid = s.pid /\ y.stop_requested = s.stop_requested
         /\ y.consecutive_failures = s.consecutive_failures
  BY DEF AppRecord
<1>4. /\ d \in AppRecord /\ d.state = app[a].state /\ d.tokens = app[a].tokens
      /\ d.pid = app[a].pid /\ d.stop_requested = app[a].stop_requested
      /\ d.consecutive_failures = app[a].consecutive_failures
  BY <1>1, <1>3
<1>5. Pending(a)
  BY DEF DelayElapses, Pending
<1>6. app' = [app EXCEPT ![a] = d]
  BY <1>1 DEF DelayElapses
<1> HIDE DEF d
<1>7. AppTypeOK'
  BY <1>1, <1>4, <1>6 DEF AppInv, AppTypeOK
<1>8. ProcsOwned' /\ RuntimesHoldTokens' /\ TrackedChild'
  <2>1. ProcsOwned'
    BY <1>1 DEF AppInv, ProcsOwned
  <2>2. RuntimesHoldTokens'
    BY <1>2, <1>4 DEF AppInv, RuntimesHoldTokens, Running
  <2>3. TrackedChild'
    BY <1>1, <1>2, <1>4 DEF AppInv, TrackedChild, Running
  <2> QED
    BY <2>1, <2>2, <2>3
<1>9. RestartJustified'
  BY <1>1, <1>2, <1>4, <1>5 DEF AppInv, RestartJustified, Running, Pending
<1> QED
  BY <1>2, <1>4, <1>7, <1>8, <1>9 DEF AppInv

-----------------------------------------------------------------------------
(* The control socket preserves ClientInv *)

USE DEF IsKnown, Peer

(* A step that leaves the control socket alone preserves ClientInv. *)
LEMMA ClientInvUnchanged ==
    ASSUME ClientInv, UNCHANGED ipcVars
    PROVE  ClientInv'
BY DEF ClientInv, IpcTypeOK, OneConnection, OneResponse, ipcVars

(* Record updates named for the lemmas about them. *)
WithSt(r, s) == [r EXCEPT !.st = s]

(* Changing the state of a client changes nothing else of it. *)
LEMMA WithStFacts ==
    ASSUME NEW r \in ClientRecord,
           NEW s \in {"idle", "open", "quit", "shut", "rejected"}
    PROVE  /\ WithSt(r, s) \in ClientRecord /\ WithSt(r, s).st = s
           /\ WithSt(r, s).line = r.line /\ WithSt(r, s).req = r.req
           /\ WithSt(r, s).got = r.got /\ WithSt(r, s).inq = r.inq
BY DEF WithSt, ClientRecord

(* A step that only takes a client off the backlog, or notes that it is gone
   (reject_over_capacity), preserves ClientInv. *)
LEMMA RejectInv ==
    ASSUME ClientInv, NEW c \in Clients, NEW s \in {"quit", "rejected"},
           client' = [client EXCEPT ![c].st = s],
           backlog' = backlog \ {c}, UNCHANGED conns
    PROVE  ClientInv'
<1>1. /\ client \in [Clients -> ClientRecord]
      /\ conns \in [Tokens -> ConnRecord]
  BY DEF ClientInv, IpcTypeOK
<1>2. client'[c] = WithSt(client[c], s)
      /\ \A d \in Clients \ {c} : client'[d] = client[d]
  BY <1>1 DEF WithSt
<1>3. /\ client'[c] \in ClientRecord /\ client'[c].st = s
      /\ client'[c].line = client[c].line
      /\ client'[c].got = client[c].got /\ client'[c].inq = client[c].inq
  BY <1>1, <1>2, WithStFacts
<1>4. \A d \in Clients : /\ client'[d].line = client[d].line
                          /\ client'[d].got = client[d].got
                          /\ client'[d].inq = client[d].inq
  BY <1>2, <1>3
<1>5. \A t \in Tokens : conns[t].client \in Clients \cup {NoClient}
  BY <1>1 DEF ConnRecord
<1>6. IpcTypeOK'
  BY <1>1, <1>2, <1>3 DEF ClientInv, IpcTypeOK
<1>7. OneConnection'
  BY <1>2, <1>3 DEF ClientInv, OneConnection, IpcTypeOK
<1>8. OneResponse'
  BY <1>4, <1>5 DEF ClientInv, OneResponse
<1> QED
  BY <1>6, <1>7, <1>8 DEF ClientInv

(* A new Connection has an empty write_buf. *)
LEMMA NewConnFacts ==
    ASSUME NEW c \in Clients \cup {NoClient}
    PROVE  /\ NewConn(c) \in ConnRecord /\ NewConn(c).client = c
           /\ NewConn(c).write_buf = 0
BY IpcAssumption DEF NewConn, ConnRecord

(* accept_all gives a client that waits in the backlog its only connection. *)
LEMMA AcceptOneInv ==
    ASSUME ClientInv, SlabTypeOK, NEW c \in backlog,
           AcceptOne(c) \/ AcceptLeaks(c)
    PROVE  ClientInv' /\ SlabTypeOK'
<1>1. /\ client \in [Clients -> ClientRecord]
      /\ conns \in [Tokens -> ConnRecord] /\ c \in Clients
      /\ vacant \in Seq(Tokens)
  BY DEF ClientInv, IpcTypeOK, SlabTypeOK
<1>2. CASE Reject(c) \/ AcceptLeaks(c)
  <2>1. /\ client' = [client EXCEPT ![c].st =
                         IF client[c].st = "quit" THEN "quit" ELSE "rejected"]
        /\ backlog' = backlog \ {c} /\ UNCHANGED conns
    BY <1>2, <1>1 DEF Reject, AcceptLeaks
  <2>2. ClientInv'
    <3>1. CASE client[c].st = "quit"
      BY <1>1, <2>1, <3>1, RejectInv
    <3>2. CASE client[c].st # "quit"
      BY <1>1, <2>1, <3>2, RejectInv
    <3> QED
      BY <3>1, <3>2
  <2>3. SlabTypeOK'
    <3>1. CASE Reject(c)
      BY <3>1 DEF Reject, SlabTypeOK
    <3>2. CASE AcceptLeaks(c)
      <4>1. Len(vacant) >= 1 /\ vacant' = Allocate(vacant, 1) /\ ready' = ready
        BY <1>1, <3>2 DEF AcceptLeaks
      <4> QED
        BY <1>1, <4>1, AllocateType DEF SlabTypeOK
    <3> QED
      BY <1>2, <3>1, <3>2
  <2> QED
    BY <2>2, <2>3
<1>3. CASE /\ vacant # <<>> /\ backlog' = backlog \ {c}
           /\ conns' = [conns EXCEPT ![vacant[1]] = NewConn(c)]
           /\ vacant' = Allocate(vacant, 1)
           /\ ready' = ready \cup {vacant[1]}
           /\ UNCHANGED client
  <2>1. Len(vacant) >= 1 /\ vacant[1] \in Tokens
    BY <1>1, <1>3
  <2>2. SlabTypeOK'
    BY <1>1, <1>3, <2>1, AllocateType DEF SlabTypeOK
  <2> DEFINE t == vacant[1]
             n == NewConn(c)
  <2>3. conns' = [conns EXCEPT ![t] = n] /\ t \in Tokens
    BY <1>3, <2>1
  <2>4. n \in ConnRecord /\ n.client = c /\ n.write_buf = 0
    BY <1>1, NewConnFacts
  <2> HIDE DEF t, n
  <2>5. conns'[t] = n /\ \A u \in Tokens \ {t} : conns'[u] = conns[u]
    BY <1>1, <2>3
  <2>6. \A u \in Tokens : conns[u].client # c
    BY <1>1 DEF ClientInv, OneConnection
  <2>7. IpcTypeOK'
    BY <1>1, <1>3, <2>3, <2>4 DEF ClientInv, IpcTypeOK
  <2>8. OneConnection'
    <3>1. ASSUME NEW u \in Tokens, NEW v \in Tokens, IsKnown(u)',
                 conns'[v].client = conns'[u].client
          PROVE  v = u
      BY <2>4, <2>5, <2>6, <3>1 DEF ClientInv, OneConnection
    <3>2. ASSUME NEW d \in Clients,
                 d \in backlog' \/ client'[d].st = "idle",
                 NEW u \in Tokens
          PROVE  conns'[u].client # d
      <4>1. d # c
        BY <1>1, <1>3, <2>3, <3>2 DEF ClientInv, OneConnection
      <4> QED
        BY <1>3, <2>4, <2>5, <3>2, <4>1 DEF ClientInv, OneConnection
    <3>3. \A d \in backlog' : client'[d].st # "idle"
      BY <1>3 DEF ClientInv, OneConnection
    <3> QED
      BY <3>1, <3>2, <3>3 DEF OneConnection
  <2>9. OneResponse'
    <3>1. client[c].got + client[c].inq <= ResponseChunks
      BY <1>1 DEF ClientInv, OneResponse
    <3>2. client[c].got \in Nat /\ client[c].inq \in Nat
      BY <1>1, IpcAssumption DEF ClientRecord
    <3> QED
      BY <1>1, <1>3, <2>4, <2>5, <3>1, <3>2 DEF ClientInv, OneResponse
  <2> QED
    BY <2>2, <2>7, <2>8, <2>9 DEF ClientInv
<1> QED
  BY <1>2, <1>3 DEF AcceptOne

(* n chunks arrive at a client whose connection is left as k (NoConn when it
   is closed). *)
WithChunks(r, n, s) == [r EXCEPT !.st = s, !.inq = @ + n]

(* A client that gets n chunks, if they fit its socket, changes in nothing
   else but its state. *)
LEMMA WithChunksFacts ==
    ASSUME NEW r \in ClientRecord, NEW n \in Nat, r.inq + n <= SocketChunks,
           NEW s \in {"idle", "open", "quit", "shut", "rejected"}
    PROVE  /\ WithChunks(r, n, s) \in ClientRecord
           /\ WithChunks(r, n, s).st = s
           /\ WithChunks(r, n, s).line = r.line
           /\ WithChunks(r, n, s).got = r.got
           /\ WithChunks(r, n, s).inq = r.inq + n
<1>1. r.inq \in 0..SocketChunks
  BY DEF ClientRecord
<1>2. r.inq + n \in 0..SocketChunks
  BY <1>1, IpcAssumption
<1> DEFINE m == r.inq + n
<1>3. WithChunks(r, n, s) = [r EXCEPT !.st = s, !.inq = m]
  BY DEF WithChunks, ClientRecord
<1>4. m \in 0..SocketChunks
  BY <1>2
<1> HIDE DEF m
<1>5. /\ [r EXCEPT !.st = s, !.inq = m] \in ClientRecord
      /\ [r EXCEPT !.st = s, !.inq = m].st = s
      /\ [r EXCEPT !.st = s, !.inq = m].line = r.line
      /\ [r EXCEPT !.st = s, !.inq = m].got = r.got
      /\ [r EXCEPT !.st = s, !.inq = m].inq = m
  BY <1>4 DEF ClientRecord
<1> QED
  BY <1>3, <1>5 DEF m

(* n chunks leave the connection behind t for its client, and the connection
   becomes k, or is closed: what is queued, in the socket and received still
   adds up to at most one response. *)
LEMMA TransferInv ==
    ASSUME ClientInv, NEW t \in Tokens, IsKnown(t),
           NEW n \in Nat, NEW k \in ConnRecord,
           NEW s \in {"idle", "open", "quit", "shut", "rejected"},
           k.client \in {conns[t].client, NoClient},
           s = "idle" => Peer(t).st = "idle",
           Peer(t).inq + n <= SocketChunks,
           Peer(t).got + Peer(t).inq + n + k.write_buf <= ResponseChunks,
           Peer(t).line # "read" => n = 0 /\ k.write_buf = 0,
           conns' = [conns EXCEPT ![t] = k],
           client' = [client EXCEPT ![conns[t].client] = WithChunks(@, n, s)],
           UNCHANGED backlog
    PROVE  ClientInv'
<1> DEFINE c == conns[t].client
<1>1. /\ client \in [Clients -> ClientRecord]
      /\ conns \in [Tokens -> ConnRecord] /\ backlog \subseteq Clients
  BY DEF ClientInv, IpcTypeOK
<1>2. c \in Clients
  BY <1>1 DEF ConnRecord
<1>3. \A u \in Tokens : conns[u].client \in Clients \cup {NoClient}
  BY <1>1 DEF ConnRecord
<1>4. /\ client'[c] \in ClientRecord /\ client'[c].st = s
      /\ client'[c].line = client[c].line /\ client'[c].got = client[c].got
      /\ client'[c].inq = client[c].inq + n
  BY <1>1, <1>2, WithChunksFacts
<1>5. \A d \in Clients \ {c} : client'[d] = client[d]
  BY <1>1
<1>6. conns'[t] = k /\ \A u \in Tokens \ {t} : conns'[u] = conns[u]
  BY <1>1
<1>7. \A u \in Tokens \ {t} : conns[u].client # c
  BY <1>2 DEF ClientInv, OneConnection
<1>8. c \notin backlog /\ Peer(t).st # "idle"
  BY <1>2 DEF ClientInv, OneConnection
<1>9. /\ client[c].got \in Nat /\ client[c].inq \in Nat
      /\ k.write_buf \in Nat
  BY <1>1, <1>2, IpcAssumption DEF ClientRecord, ConnRecord
<1>10. IpcTypeOK'
  <2>1. client' \in [Clients -> ClientRecord]
    BY <1>1, <1>2, <1>4, <1>5
  <2>2. conns' \in [Tokens -> ConnRecord]
    BY <1>1
  <2> QED
    BY <1>1, <2>1, <2>2 DEF IpcTypeOK
<1> HIDE DEF c
<1>11. OneConnection'
  <2>1. ASSUME NEW u \in Tokens, NEW v \in Tokens, IsKnown(u)',
               conns'[v].client = conns'[u].client
        PROVE  v = u
    BY <1>6, <1>7, <2>1 DEF ClientInv, OneConnection, c
  <2>2. ASSUME NEW d \in Clients, d \in backlog' \/ client'[d].st = "idle",
               NEW u \in Tokens
        PROVE  conns'[u].client # d
    <3>1. d # c
      BY <1>4, <1>8, <2>2 DEF c
    <3>2. \A v \in Tokens : conns[v].client # d
      BY <1>5, <2>2, <3>1 DEF ClientInv, OneConnection
    <3>3. k.client # d
      BY <3>1, IpcAssumption DEF c
    <3> QED
      BY <1>6, <3>2, <3>3
  <2>3. \A d \in backlog' : client'[d].st # "idle"
    BY <1>1, <1>5, <1>8 DEF ClientInv, OneConnection
  <2> QED
    BY <2>1, <2>2, <2>3 DEF OneConnection
<1>12. OneResponse'
  <2>1. ASSUME NEW d \in Clients
        PROVE  /\ client'[d].got + client'[d].inq <= ResponseChunks
               /\ client'[d].line # "read"
                     => client'[d].got = 0 /\ client'[d].inq = 0
    <3>1. CASE d = c
      <4>1. client[c].got + (client[c].inq + n) <= ResponseChunks
        BY <1>9, IpcAssumption DEF c
      <4>2. ASSUME client[c].line # "read"
            PROVE  client[c].got = 0 /\ client[c].inq + n = 0
        <5>1. n = 0 /\ client[c].got = 0 /\ client[c].inq = 0
          BY <1>2, <4>2 DEF ClientInv, OneResponse, c
        <5> QED
          BY <5>1
      <4> QED
        BY <1>4, <3>1, <4>1, <4>2
    <3>2. CASE d # c
      BY <1>5, <3>2 DEF ClientInv, OneResponse
    <3> QED
      BY <3>1, <3>2
  <2>2. ASSUME NEW u \in Tokens, IsKnown(u)'
        PROVE  LET p == client'[conns'[u].client] IN
               /\ conns'[u].write_buf + p.got + p.inq <= ResponseChunks
               /\ p.line # "read" => conns'[u].write_buf = 0
    <3>1. CASE u = t
      <4>1. k.client = c
        BY <1>6, <2>2, <3>1 DEF c
      <4>2. k.write_buf + client[c].got + (client[c].inq + n) <= ResponseChunks
        BY <1>9, IpcAssumption DEF c
      <4>3. client[c].line # "read" => k.write_buf = 0
        BY DEF c
      <4> QED
        BY <1>4, <1>6, <3>1, <4>1, <4>2, <4>3
    <3>2. CASE u # t
      <4>1. conns'[u] = conns[u] /\ conns[u].client # c
            /\ conns[u].client \in Clients
        BY <1>3, <1>6, <1>7, <2>2, <3>2
      <4>2. client'[conns[u].client] = client[conns[u].client]
        BY <1>5, <4>1
      <4> QED
        BY <2>2, <4>1, <4>2 DEF ClientInv, OneResponse
    <3> QED
      BY <3>1, <3>2
  <2> QED
    BY <2>1, <2>2 DEF OneResponse
<1> QED
  BY <1>10, <1>11, <1>12 DEF ClientInv

(* close, after the last n chunks were sent, preserves ClientInv and frees the
   token of the connection. *)
LEMMA CloseInv ==
    ASSUME ClientInv, SlabTypeOK, NEW t \in Tokens, IsKnown(t), NEW n \in Nat,
           Peer(t).inq + n <= SocketChunks,
           Peer(t).got + Peer(t).inq + n <= ResponseChunks,
           Peer(t).line # "read" => n = 0,
           Close(t, n), UNCHANGED backlog
    PROVE  ClientInv' /\ SlabTypeOK'
<1>1. /\ client \in [Clients -> ClientRecord]
      /\ conns[t].client \in Clients
  BY DEF ClientInv, IpcTypeOK, ConnRecord
<1>2. Peer(t) \in ClientRecord
  BY <1>1
<1>3. Peer(t).got \in Nat /\ Peer(t).inq \in Nat
  BY <1>2, IpcAssumption DEF ClientRecord
<1> DEFINE s == IF Peer(t).st = "quit" THEN "quit" ELSE "shut"
<1>4. s \in {"quit", "shut"}
  OBVIOUS
<1>5. client' = [client EXCEPT ![conns[t].client] = WithChunks(@, n, s)]
  <2>1. Shut(Peer(t), n) = WithChunks(Peer(t), n, s)
    BY Zenon DEF WithChunks, Shut
  <2> QED
    BY <2>1 DEF Close
<1>6. NoConn \in ConnRecord /\ NoConn.client = NoClient /\ NoConn.write_buf = 0
  BY NewConnFacts DEF NoConn
<1>7. conns' = [conns EXCEPT ![t] = NoConn]
  BY DEF Close
<1> HIDE DEF s
<1>8. ClientInv'
  <2>1. Peer(t).got + Peer(t).inq + n + 0 <= ResponseChunks
    BY <1>3, IpcAssumption
  <2> QED
    BY <1>4, <1>5, <1>6, <1>7, <2>1, TransferInv
<1>9. SlabTypeOK'
  BY FreeType DEF Close, SlabTypeOK
<1> QED
  BY <1>8, <1>9

(* handle_writable and reconcile preserve ClientInv, for the connection c that
   handle_readable left behind t. *)
LEMMA FlushInv ==
    ASSUME ClientInv, SlabTypeOK, NEW t \in Tokens, IsKnown(t),
           NEW c \in ConnRecord, c.client = conns[t].client,
           c.write_buf + Peer(t).got + Peer(t).inq <= ResponseChunks,
           Peer(t).line # "read" => c.write_buf = 0,
           NEW writable \in BOOLEAN,
           FlushAndReconcile(t, c, writable)
    PROVE  ClientInv' /\ SlabTypeOK'
<1> DEFINE room == SocketChunks - Peer(t).inq
           sent == IF ~writable \/ Peer(t).st = "quit" THEN 0
                   ELSE IF c.write_buf <= room THEN c.write_buf ELSE room
           left == c.write_buf - sent
           broken == writable /\ Peer(t).st = "quit" /\ c.write_buf > 0
           k == [c EXCEPT !.write_buf = left, !.writable_registered = left > 0]
<1>1. /\ client \in [Clients -> ClientRecord]
      /\ conns[t].client \in Clients
  BY DEF ClientInv, IpcTypeOK, ConnRecord
<1>2. Peer(t) \in ClientRecord
  BY <1>1
<1>3. /\ Peer(t).got \in Nat /\ Peer(t).inq \in 0..SocketChunks
      /\ c.write_buf \in 0..ResponseChunks
      /\ SocketChunks \in Nat /\ ResponseChunks \in Nat
      /\ Peer(t).st \in {"idle", "open", "quit", "shut", "rejected"}
  BY <1>2, IpcAssumption DEF ClientRecord, ConnRecord
<1>4. sent \in 0..c.write_buf /\ Peer(t).inq + sent <= SocketChunks
  BY <1>3
<1>5. left \in 0..ResponseChunks /\ sent + left = c.write_buf
  BY <1>3, <1>4
<1>6. /\ Peer(t).got + Peer(t).inq + sent <= ResponseChunks
      /\ Peer(t).got + Peer(t).inq + sent + left <= ResponseChunks
  BY <1>3, <1>4, <1>5
<1>7. Peer(t).line # "read" => sent = 0 /\ left = 0
  BY <1>3, <1>4, <1>5
<1>8. backlog' = backlog
  BY DEF FlushAndReconcile
<1>9. CASE broken \/ ShouldClose(c, left)
  <2>1. Close(t, sent)
    BY <1>9 DEF FlushAndReconcile
  <2> HIDE DEF sent, left
  <2> QED
    BY <1>4, <1>3, <1>6, <1>7, <1>8, <2>1, CloseInv
<1>10. CASE ~(broken \/ ShouldClose(c, left))
  <2>1. /\ conns' = [conns EXCEPT ![t] = k]
        /\ client' = [client EXCEPT ![c.client].inq = @ + sent]
        /\ ready' = IF c.writable_registered = (left > 0)
                    THEN ready ELSE ready \cup {t}
        /\ UNCHANGED vacant
    BY <1>10 DEF FlushAndReconcile
  <2>2. SlabTypeOK'
    BY <2>1 DEF SlabTypeOK
  <2>3. (left > 0) \in BOOLEAN
    OBVIOUS
  <2> HIDE DEF sent, left
  <2>4. k \in ConnRecord /\ k.client = c.client /\ k.write_buf = left
    BY <1>5, <2>3 DEF ConnRecord
  <2>5. client' = [client EXCEPT ![conns[t].client] =
                      WithChunks(@, sent, Peer(t).st)]
    <3>1. [Peer(t) EXCEPT !.inq = @ + sent]
             = WithChunks(Peer(t), sent, Peer(t).st)
      BY <1>2 DEF WithChunks, ClientRecord
    <3> QED
      BY <1>1, <2>1, <3>1, Zenon
  <2> HIDE DEF k
  <2>6. /\ sent \in Nat
        /\ Peer(t).got + Peer(t).inq + sent + k.write_buf <= ResponseChunks
        /\ Peer(t).line # "read" => sent = 0 /\ k.write_buf = 0
        /\ k.client \in {conns[t].client, NoClient}
    BY <1>3, <1>4, <1>6, <1>7, <2>4
  <2> DEFINE x == Peer(t).st
  <2>7. /\ x \in {"idle", "open", "quit", "shut", "rejected"}
        /\ x = "idle" => Peer(t).st = "idle"
        /\ client' = [client EXCEPT ![conns[t].client] =
                        WithChunks(@, sent, x)]
    BY <1>3, <2>5
  <2> HIDE DEF x
  <2>8. ClientInv'
    BY <1>4, <1>8, <2>1, <2>4, <2>6, <2>7, TransferInv
  <2> QED
    BY <2>2, <2>8
<1> QED
  BY <1>9, <1>10

(* An event without a request preserves ClientInv. *)
LEMMA ServeIdleInv ==
    ASSUME ClientInv, SlabTypeOK, NEW t \in Tokens, IsKnown(t),
           NEW readable \in BOOLEAN, NEW writable \in BOOLEAN,
           ServeIdle(t, readable, writable)
    PROVE  ClientInv' /\ SlabTypeOK'
<1> DEFINE b == conns[t].close_after_flush \/ (readable /\ Peer(t).st = "quit")
           c == [conns[t] EXCEPT !.close_after_flush = b]
<1>1. conns[t] \in ConnRecord
  BY DEF ClientInv, IpcTypeOK
<1>2. b \in BOOLEAN
  BY <1>1 DEF ConnRecord
<1>3. FlushAndReconcile(t, c, writable)
  BY DEF ServeIdle
<1> HIDE DEF b
<1>4. /\ c \in ConnRecord /\ c.client = conns[t].client
      /\ c.write_buf = conns[t].write_buf
  BY <1>1, <1>2 DEF ConnRecord
<1> HIDE DEF c
<1>5. /\ c.write_buf + Peer(t).got + Peer(t).inq <= ResponseChunks
      /\ Peer(t).line # "read" => c.write_buf = 0
  BY <1>4 DEF ClientInv, OneResponse
<1> QED
  BY <1>3, <1>4, <1>5, FlushInv

(* queue_response queues the only response of a connection whose request was
   read, and what follows preserves ClientInv. *)
LEMMA RespondInv ==
    ASSUME ClientInv, SlabTypeOK, NEW t, Unanswered(t),
           NEW writable \in BOOLEAN, Respond(t, writable)
    PROVE  ClientInv' /\ SlabTypeOK'
<1> DEFINE c == [conns[t] EXCEPT !.write_buf = ResponseChunks,
                                 !.close_after_flush = TRUE]
<1>1. conns[t] \in ConnRecord
  BY DEF ClientInv, IpcTypeOK, Unanswered
<1>2. conns[t].write_buf + ResponseChunks = ResponseChunks
      /\ ResponseChunks \in 0..ResponseChunks
  BY IpcAssumption DEF Unanswered
<1>3. FlushAndReconcile(t, c, writable)
  <2>1. c = [conns[t] EXCEPT !.write_buf = @ + ResponseChunks,
                             !.close_after_flush = TRUE]
    BY <1>1, <1>2
  <2> HIDE DEF c
  <2> QED
    BY <2>1 DEF Respond
<1>4. /\ c \in ConnRecord /\ c.client = conns[t].client
      /\ c.write_buf = ResponseChunks
  BY <1>1, <1>2 DEF ConnRecord
<1> HIDE DEF c
<1>5. /\ c.write_buf + Peer(t).got + Peer(t).inq <= ResponseChunks
      /\ Peer(t).line # "read" => c.write_buf = 0
  BY <1>4, IpcAssumption DEF Unanswered
<1> QED
  BY <1>3, <1>4, <1>5, FlushInv DEF Unanswered

(* handle_readable takes the request, which is not answered yet. *)
LEMMA ReadRequestInv ==
    ASSUME ClientInv, SlabTypeOK, NEW t \in Tokens, IsKnown(t),
           Peer(t).line = "unread", ReadRequest(t)
    PROVE  ClientInv' /\ SlabTypeOK' /\ Unanswered(t)'
<1> DEFINE c == conns[t].client
           b == conns[t].close_after_flush \/ Peer(t).st = "quit"
           k == [conns[t] EXCEPT !.close_after_flush = b]
           r == [client[c] EXCEPT !.line = "read"]
<1>1. /\ client \in [Clients -> ClientRecord]
      /\ conns \in [Tokens -> ConnRecord] /\ backlog \subseteq Clients
      /\ c \in Clients
  BY DEF ClientInv, IpcTypeOK, ConnRecord
<1>2. b \in BOOLEAN
  BY <1>1 DEF ConnRecord
<1>3. /\ client' = [client EXCEPT ![c] = r]
      /\ conns' = [conns EXCEPT ![t] = k]
      /\ UNCHANGED <<backlog, vacant, ready>>
  BY <1>1 DEF ReadRequest
<1>4. /\ r \in ClientRecord /\ r.line = "read" /\ r.st = client[c].st
      /\ r.got = client[c].got /\ r.inq = client[c].inq
  BY <1>1 DEF ClientRecord
<1> HIDE DEF b
<1>5. k \in ConnRecord /\ k.client = c /\ k.write_buf = conns[t].write_buf
  BY <1>1, <1>2 DEF ConnRecord
<1>6. /\ client[c].got = 0 /\ client[c].inq = 0 /\ conns[t].write_buf = 0
  BY <1>1 DEF ClientInv, OneResponse
<1> HIDE DEF k, r
<1>7. conns'[t] = k /\ \A u \in Tokens \ {t} : conns'[u] = conns[u]
  BY <1>1, <1>3
<1>8. client'[c] = r /\ \A d \in Clients \ {c} : client'[d] = client[d]
  BY <1>1, <1>3
<1>9. \A u \in Tokens : conns'[u].client = conns[u].client
                         /\ conns'[u].write_buf = conns[u].write_buf
  BY <1>5, <1>7
<1>10. \A d \in Clients : /\ client'[d].st = client[d].st
                          /\ client'[d].got = client[d].got
                          /\ client'[d].inq = client[d].inq
                          /\ client'[d].line \in {client[d].line, "read"}
  BY <1>4, <1>8
<1>11. IpcTypeOK'
  BY <1>1, <1>3, <1>4, <1>5 DEF IpcTypeOK
<1>12. OneConnection'
  BY <1>1, <1>3, <1>9, <1>10 DEF ClientInv, OneConnection
<1>13. OneResponse'
  <2>1. \A u \in Tokens : conns[u].client \in Clients \cup {NoClient}
    BY <1>1 DEF ConnRecord
  <2> QED
    BY <1>9, <1>10, <2>1 DEF ClientInv, OneResponse
<1>14. Unanswered(t)'
  BY <1>4, <1>5, <1>6, <1>7, <1>8 DEF Unanswered
<1> QED
  BY <1>3, <1>11, <1>12, <1>13, <1>14 DEF ClientInv, SlabTypeOK

(* A client's step replaces its own record by r; all it may do is to leave the
   idle state, to become idle again, to send, to receive or to quit. *)
LEMMA ClientStepInv ==
    ASSUME ClientInv, SlabTypeOK, NEW c \in Clients, ClientStep(c)
    PROVE  /\ ClientInv' /\ SlabTypeOK'
           /\ \A t : Unanswered(t) => Unanswered(t)'
<1>1. /\ client \in [Clients -> ClientRecord]
      /\ conns \in [Tokens -> ConnRecord] /\ backlog \subseteq Clients
      /\ client[c] \in ClientRecord
  BY DEF ClientInv, IpcTypeOK
<1>2. UNCHANGED <<conns, vacant>>
  BY DEF ClientStep, Connect, Send, Receive, HangUp, ComeBack
<1>3. \A t \in Tokens : conns[t].client \in Clients \cup {NoClient}
  BY <1>1 DEF ConnRecord
<1>4. /\ client[c].got \in 0..ResponseChunks /\ client[c].inq \in 0..SocketChunks
      /\ client[c].got + client[c].inq <= ResponseChunks
      /\ client[c].line # "read" => client[c].got = 0 /\ client[c].inq = 0
      /\ SocketChunks \in Nat /\ ResponseChunks \in Nat
  BY <1>1, IpcAssumption DEF ClientInv, OneResponse, ClientRecord
<1> DEFINE Own(r) ==
       /\ client' = [client EXCEPT ![c] = r] /\ r \in ClientRecord
       /\ r.got + r.inq = client[c].got + client[c].inq
             \/ (r.got = 0 /\ r.inq = 0)
       /\ r.line # "read" => r.got = 0 /\ r.inq = 0
       /\ (\E t \in Tokens : conns[t].client = c)
             => /\ r.st # "idle"
                /\ r.got + r.inq = client[c].got + client[c].inq
                /\ r.line = "read" <=> client[c].line = "read"
                /\ client[c].inq = 0 => r.got = client[c].got /\ r.inq = 0
       /\ \/ backlog' = backlog /\ (c \in backlog => r.st # "idle")
          \/ backlog' = backlog \cup {c} /\ r.st # "idle" /\ client[c].st = "idle"
       /\ r.st = "idle" => \A t \in Tokens : conns[t].client # c
<1>5. ready' \subseteq ReservedTokens \cup Tokens
  BY DEF SlabTypeOK, ReservedTokens, ConnOf, ClientStep, Connect, Send, Receive,
         HangUp, ComeBack
<1>6. \E r : Own(r)
  <2>1. CASE Connect(c)
    <3> DEFINE r == WithSt(client[c], "open")
    <3>1. /\ r \in ClientRecord /\ r.st = "open" /\ r.line = client[c].line
          /\ r.got = client[c].got /\ r.inq = client[c].inq
      BY <1>1, WithStFacts
    <3>2. client' = [client EXCEPT ![c] = r] /\ backlog' = backlog \cup {c}
          /\ client[c].st = "idle"
      BY <2>1 DEF Connect, WithSt
    <3> HIDE DEF r
    <3>3. Own(r)
      BY <1>4, <3>1, <3>2
    <3> QED
      BY <3>3
  <2>2. CASE Send(c)
    <3> DEFINE r == [client[c] EXCEPT !.line = "unread"]
    <3>1. /\ r \in ClientRecord /\ r.st = client[c].st /\ r.line = "unread"
          /\ r.got = client[c].got /\ r.inq = client[c].inq
      BY <1>1 DEF ClientRecord
    <3>2. client' = [client EXCEPT ![c] = r] /\ backlog' = backlog
          /\ client[c].st = "open" /\ client[c].line = "none"
      BY <2>2 DEF Send
    <3> HIDE DEF r
    <3>3. Own(r)
      BY <1>4, <3>1, <3>2
    <3> QED
      BY <3>3
  <2>3. CASE Receive(c)
    <3> DEFINE i == client[c].inq - 1
               g == client[c].got + 1
               r == [client[c] EXCEPT !.inq = i, !.got = g]
    <3>1. client' = [client EXCEPT ![c] = r] /\ backlog' = backlog
          /\ client[c].st \in {"open", "shut"} /\ client[c].inq > 0
      BY <1>1, <2>3 DEF Receive
    <3>2. i \in 0..SocketChunks /\ g \in 0..ResponseChunks
          /\ g + i = client[c].got + client[c].inq
      BY <1>4, <3>1
    <3> HIDE DEF i, g
    <3>3. /\ r \in ClientRecord /\ r.st = client[c].st
          /\ r.line = client[c].line /\ r.got = g /\ r.inq = i
      BY <1>1, <3>2 DEF ClientRecord
    <3> HIDE DEF r
    <3>4. client[c].line = "read"
      BY <1>4, <3>1
    <3>5. Own(r)
      BY <1>4, <3>1, <3>2, <3>3, <3>4
    <3> QED
      BY <3>5
  <2>4. CASE HangUp(c)
    <3> DEFINE r == WithSt(client[c], "quit")
    <3>1. /\ r \in ClientRecord /\ r.st = "quit" /\ r.line = client[c].line
          /\ r.got = client[c].got /\ r.inq = client[c].inq
      BY <1>1, WithStFacts
    <3>2. client' = [client EXCEPT ![c] = r] /\ backlog' = backlog
      BY <2>4 DEF HangUp, WithSt
    <3> HIDE DEF r
    <3>3. Own(r)
      BY <1>4, <3>1, <3>2
    <3> QED
      BY <3>3
  <2>5. CASE ComeBack(c)
    <3>1. PICK q \in Requests : client' = [client EXCEPT ![c] = IdleClient(q)]
      BY <2>5 DEF ComeBack
    <3> DEFINE r == IdleClient(q)
    <3>2. /\ r \in ClientRecord /\ r.st = "idle" /\ r.line = "none"
          /\ r.got = 0 /\ r.inq = 0
      BY IpcAssumption DEF IdleClient, ClientRecord
    <3>3. backlog' = backlog /\ c \notin backlog
          /\ \A t \in Tokens : conns[t].client # c
      BY <2>5 DEF ComeBack, ConnOf
    <3>4. client' = [client EXCEPT ![c] = r]
      BY <3>1
    <3> HIDE DEF r
    <3>5. Own(r)
      BY <3>2, <3>3, <3>4
    <3> QED
      BY <3>5
  <2> QED
    BY <2>1, <2>2, <2>3, <2>4, <2>5 DEF ClientStep
<1>7. PICK r : Own(r)
  BY <1>6
<1>8. client'[c] = r /\ \A d \in Clients \ {c} : client'[d] = client[d]
  BY <1>1, <1>7
<1>9. IpcTypeOK'
  BY <1>1, <1>2, <1>7 DEF IpcTypeOK
<1>10. OneConnection'
  <2>1. ASSUME NEW d \in Clients, d \in backlog' \/ client'[d].st = "idle",
               NEW t \in Tokens
        PROVE  conns'[t].client # d
    BY <1>2, <1>7, <1>8, <2>1 DEF ClientInv, OneConnection
  <2>2. \A d \in backlog' : client'[d].st # "idle"
    BY <1>1, <1>7, <1>8 DEF ClientInv, OneConnection
  <2> QED
    BY <1>2, <2>1, <2>2 DEF ClientInv, OneConnection
<1>11. OneResponse'
  <2>1. r.got \in Nat /\ r.inq \in Nat
    BY <1>4, <1>7 DEF ClientRecord
  <2>2. ASSUME NEW d \in Clients
        PROVE  /\ client'[d].got + client'[d].inq <= ResponseChunks
               /\ client'[d].line # "read"
                     => client'[d].got = 0 /\ client'[d].inq = 0
    BY <1>4, <1>7, <1>8 DEF ClientInv, OneResponse
  <2>3. ASSUME NEW t \in Tokens, IsKnown(t)'
        PROVE  LET p == client'[conns'[t].client] IN
               /\ conns'[t].write_buf + p.got + p.inq <= ResponseChunks
               /\ p.line # "read" => conns'[t].write_buf = 0
    <3>1. CASE conns[t].client = c
      <4>1. /\ r.got + r.inq = client[c].got + client[c].inq
            /\ r.line = "read" <=> client[c].line = "read"
        BY <1>7, <3>1
      <4>2. /\ conns[t].write_buf + client[c].got + client[c].inq
                  <= ResponseChunks
            /\ client[c].line # "read" => conns[t].write_buf = 0
            /\ conns[t].write_buf \in Nat
        BY <1>1, <1>2, <1>4, <2>3, <3>1
        DEF ClientInv, OneResponse, ConnRecord
      <4>3. conns[t].write_buf + r.got + r.inq <= ResponseChunks
        BY <1>4, <2>1, <4>1, <4>2
      <4> QED
        BY <1>2, <1>8, <3>1, <4>1, <4>2, <4>3
    <3>2. CASE conns[t].client # c
      <4>1. client'[conns[t].client] = client[conns[t].client]
        BY <1>2, <1>3, <1>8, <2>3, <3>2
      <4> QED
        BY <1>2, <2>3, <4>1 DEF ClientInv, OneResponse
    <3> QED
      BY <3>1, <3>2
  <2> QED
    BY <2>2, <2>3 DEF OneResponse
<1>12. ASSUME NEW t, Unanswered(t)
       PROVE  Unanswered(t)'
  <2>1. CASE conns[t].client = c
    BY <1>2, <1>7, <1>8, <1>12, <2>1 DEF Unanswered
  <2>2. CASE conns[t].client # c
    BY <1>2, <1>3, <1>8, <1>12, <2>2 DEF Unanswered
  <2> QED
    BY <2>1, <2>2
<1> QED
  BY <1>2, <1>5, <1>9, <1>10, <1>11, <1>12 DEF ClientInv, SlabTypeOK

-----------------------------------------------------------------------------
(* Tokens and edges stay in their types *)

(* AppRuntime::start, successful or not, leaves tokens in the slab. *)
LEMMA RuntimeSlab ==
    ASSUME SlabTypeOK, NEW a \in Apps, NEW r,
           RuntimeStart(a, r) \/ RuntimeFails(a, r)
    PROVE  SlabTypeOK'
<1>1. CASE RuntimeStart(a, r)
  BY <1>1, AllocateType DEF RuntimeStart, SlabTypeOK
<1>2. CASE RuntimeFails(a, r)
  <2>1. CASE UNCHANGED <<proc, vacant>>
    BY <1>2, <2>1 DEF RuntimeFails, SlabTypeOK
  <2>2. CASE \E n \in 0..3 : n <= Len(vacant) /\ vacant' = Allocate(vacant, n)
    BY <1>2, <2>2, AllocateType DEF RuntimeFails, SlabTypeOK
  <2> QED
    BY <1>2, <2>1, <2>2 DEF RuntimeFails
<1> QED
  BY <1>1, <1>2

(* A step that touches neither the slab nor epoll. *)
LEMMA UnchangedSlab ==
    ASSUME SlabTypeOK, UNCHANGED <<vacant, ready>>
    PROVE  SlabTypeOK'
BY DEF SlabTypeOK

(* AppRuntime::stop returns the three tokens of a runtime to the slab. *)
LEMMA ReapSlab ==
    ASSUME SlabTypeOK, NEW a \in Apps, NEW try_restart,
           app[a].tokens \in [Fds -> Tokens], Reap(a, try_restart)
    PROVE  SlabTypeOK'
<1> DEFINE toks == app[a].tokens
<1>1. toks["pidfd"] \in Tokens /\ toks["stdout"] \in Tokens
      /\ toks["stderr"] \in Tokens
  BY DEF Fds
<1>2. vacant \in Seq(Tokens)
  BY DEF SlabTypeOK
<1>3. Free(vacant, toks["pidfd"]) \in Seq(Tokens)
  BY <1>1, <1>2, FreeType
<1>4. Free(Free(vacant, toks["pidfd"]), toks["stdout"]) \in Seq(Tokens)
  BY <1>1, <1>3, FreeType
<1>5. FreeTokens(vacant, toks) \in Seq(Tokens)
  BY <1>1, <1>4, FreeType DEF FreeTokens
<1>6. vacant' = FreeTokens(vacant, toks) /\ ready' \subseteq ready
  BY DEF Reap
<1> QED
  BY <1>5, <1>6 DEF SlabTypeOK

(* A process that exits or writes raises edges of real tokens only. *)
LEMMA ProcessSlab ==
    ASSUME AppInv, SlabTypeOK,
           \/ \E p \in Pids, ret \in {"ok", "err"} : ProcExit(p, ret)
           \/ \E a \in Apps, fd \in Fds : ProcOutput(a, fd)
    PROVE  SlabTypeOK'
<1>1. ASSUME NEW a \in Apps, Running(a), NEW fd \in Fds
      PROVE  app[a].tokens[fd] \in Tokens
  BY <1>1 DEF AppInv, RuntimesHoldTokens
<1>2. ASSUME NEW p \in Pids, NEW ret \in {"ok", "err"}, ProcExit(p, ret)
      PROVE  SlabTypeOK'
  <2> DEFINE a == proc[p].app
  <2>1. a \in Apps
    BY <1>2 DEF AppInv, ProcsOwned, ProcExit, Alive
  <2>2. ready' \subseteq ready \cup
           (IF Running(a) THEN {app[a].tokens["pidfd"], app[a].tokens["stdout"],
                                app[a].tokens["stderr"]} ELSE {})
    BY <1>2 DEF ProcExit
  <2>3. Running(a) => {app[a].tokens["pidfd"], app[a].tokens["stdout"],
                       app[a].tokens["stderr"]} \subseteq Tokens
    BY <1>1, <2>1 DEF Fds
  <2>4. vacant' = vacant
    BY <1>2 DEF ProcExit
  <2> QED
    BY <2>2, <2>3, <2>4 DEF SlabTypeOK
<1>3. ASSUME NEW a \in Apps, NEW fd \in Fds, ProcOutput(a, fd)
      PROVE  SlabTypeOK'
  BY <1>1, <1>3 DEF ProcOutput, SlabTypeOK
<1> QED
  BY <1>2, <1>3

-----------------------------------------------------------------------------
(* The invariant holds initially and is preserved by every step *)

(* The daemon starts in the invariant. *)
LEMMA InitCore == Init => CoreInv
<1> SUFFICES ASSUME Init PROVE CoreInv
  OBVIOUS
<1>1. NewApp \in AppRecord /\ NewApp.state = "stopped"
      /\ NewApp.restart_deadline = "none" /\ ~NewApp.stop_requested
  BY DEF NewApp, AppRecord, NoTokens
<1>2. app = [a \in Apps |-> NewApp] /\ proc = [p \in Pids |-> FreeProc]
      /\ params \in [Apps -> AppParams] /\ cgroup = {} /\ ready = {}
      /\ vacant = SlabOrder
  BY DEF Init, AppInit, SlabInit
<1>3. AppTypeOK
  BY <1>1, <1>2, FreeProcType DEF AppTypeOK
<1>4. ProcsOwned /\ RuntimesHoldTokens /\ TrackedChild /\ RestartJustified
  BY <1>1, <1>2, FreeProcType
  DEF ProcsOwned, RuntimesHoldTokens, TrackedChild, RestartJustified, Running,
      Pending
<1>5. SlabTypeOK
  BY <1>2, TokensAssumption DEF SlabTypeOK
<1>6. conns = [t \in Tokens |-> NoConn] /\ backlog = {}
      /\ client \in [Clients -> {IdleClient(r) : r \in Requests}]
  BY DEF Init, IpcInit
<1>7. ASSUME NEW r \in Requests
      PROVE  /\ IdleClient(r) \in ClientRecord
             /\ IdleClient(r).got = 0 /\ IdleClient(r).inq = 0
  BY IpcAssumption DEF IdleClient, ClientRecord
<1>8. NoConn \in ConnRecord /\ NoConn.client = NoClient
  BY NewConnFacts DEF NoConn
<1>9. \A c \in Clients : /\ client[c] \in ClientRecord
                         /\ client[c].got = 0 /\ client[c].inq = 0
  BY <1>6, <1>7
<1>10. IpcTypeOK
  <2>1. client \in [Clients -> ClientRecord]
    BY <1>6, <1>9
  <2> QED
    BY <1>6, <1>8, <2>1 DEF IpcTypeOK
<1>11. \A t \in Tokens : conns[t].client = NoClient
  BY <1>6, <1>8
<1>12. OneConnection /\ OneResponse
  BY <1>6, <1>9, <1>11, IpcAssumption DEF OneConnection, OneResponse
<1>13. LoopTypeOK
  <2>1. idx \in 1..(NumApps + 1) /\ sigint_count \in 0..MaxSigints
    BY MaxSigintsAssumption, AppAssumption DEF Init
  <2>2. sigpending \in BOOLEAN /\ keep_running \in BOOLEAN
    BY Zenon DEF Init
  <2> QED
    BY <2>1, <2>2 DEF Init, LoopTypeOK
<1>14. Serving /\ SigintsBounded /\ CreatedFresh
  BY <1>1, <1>2 DEF Init, Serving, SigintsBounded, CreatedFresh
<1> QED
  BY <1>3, <1>4, <1>5, <1>10, <1>12, <1>13, <1>14
  DEF CoreInv, AppInv, ClientInv, LoopInv

(* Every step that does not concern the log socket preserves the invariant,
   whatever that socket's connections are. *)
LEMMA CoreStep ==
  ASSUME CoreInv, MainStep \/ MainEnvironment \/ UNCHANGED vars
  PROVE  CoreInv'
<1>1. AppInv /\ SlabTypeOK /\ ClientInv /\ LoopTypeOK
      /\ Serving /\ SigintsBounded /\ CreatedFresh
  BY DEF CoreInv, LoopInv
<1>2. /\ vacant \in Seq(Tokens)
      /\ idx \in 1..(NumApps + 1) /\ NumApps \in Nat
      /\ job \in Events \cup {NoEvent} /\ batch \subseteq Events
      /\ sigint_count \in 0..MaxSigints /\ MaxSigints \in Nat
      /\ sigpending \in BOOLEAN /\ keep_running \in BOOLEAN
  BY <1>1, AppAssumption, MaxSigintsAssumption DEF LoopTypeOK, SlabTypeOK
<1>3. idx \in Apps => idx + 1 \in 1..(NumApps + 1)
  BY <1>2 DEF Apps
<1>4. 1 \in 1..(NumApps + 1)
  BY <1>2
<1>5. /\ (~Stopping) \in BOOLEAN
      /\ (sigint_count >= SIGINT_THRESHOLD) \in BOOLEAN
  OBVIOUS
<1>6. CASE CreateApp
  <2>1. /\ UNCHANGED <<params, ipcVars, job, batch, sigint_count, sigpending,
                        keep_running>>
        /\ pc = "create" /\ pc' \in {"create", "panic"}
        /\ idx \in Apps /\ idx' = idx + 1
        /\ AppCreate(idx) \/ AppCreateFails(idx)
    BY <1>6 DEF CreateApp
  <2>2. AppInv'
    BY <1>1, <1>2, <2>1, AppCreateInv
  <2>3. SlabTypeOK'
    BY <1>1, <2>1, RuntimeSlab, UnchangedSlab DEF AppCreate, AppCreateFails
  <2>4. ClientInv'
    BY <1>1, <2>1, ClientInvUnchanged
  <2>5. LoopTypeOK'
    BY <1>1, <1>3, <2>1 DEF LoopTypeOK
  <2>6. CreatedFresh'
    <3>1. ASSUME NEW a \in Apps PROVE ~app'[a].stop_requested
      <4>1. app \in [Apps -> AppRecord] /\ app[idx] \in AppRecord
        BY <1>1, <2>1 DEF AppInv, AppTypeOK
      <4>2. ~app[a].stop_requested /\ ~app[idx].stop_requested
        BY <1>1, <2>1 DEF CreatedFresh
      <4>3. CASE RuntimeStart(idx, app[idx])
        <5>1. PICK p \in FreePids :
                 app' = [app EXCEPT ![idx] = Launched(app[idx], p)]
          BY <4>3 DEF RuntimeStart
        <5>2. p \in Pids /\ Len(vacant) >= 3
          BY <4>3 DEF FreePids, RuntimeStart
        <5>3. ~Launched(app[idx], p).stop_requested
          BY <1>2, <4>1, <4>2, <5>2, LaunchedFacts
        <5> QED
          BY <4>1, <4>2, <5>1, <5>3
      <4>4. CASE RuntimeFails(idx, app[idx])
        BY <4>1, <4>2, <4>4 DEF RuntimeFails
      <4>5. CASE UNCHANGED app
        BY <4>2, <4>5
      <4> QED
        BY <2>1, <4>3, <4>4, <4>5 DEF AppCreate, AppCreateFails
    <3> QED
      BY <3>1 DEF CreatedFresh
  <2>7. Serving' /\ SigintsBounded'
    BY <1>1, <2>1 DEF Serving, SigintsBounded
  <2> QED
    BY <2>2, <2>3, <2>4, <2>5, <2>6, <2>7 DEF CoreInv, LoopInv
<1>7. CASE Bind
  <2>1. UNCHANGED <<params, app, cgroup, proc>> /\ UNCHANGED ipcVars
    BY <1>7 DEF Bind
  <2>2. AppInv' /\ ClientInv'
    BY <1>1, <2>1, AppInvUnchanged, ClientInvUnchanged
  <2>3. SlabTypeOK'
    BY <1>1, <1>7 DEF Bind, SlabTypeOK, ReservedTokens
  <2>4. LoopTypeOK' /\ Serving' /\ SigintsBounded' /\ CreatedFresh'
    BY <1>1, <1>4, <1>7
    DEF Bind, LoopTypeOK, Serving, SigintsBounded, CreatedFresh
  <2> QED
    BY <2>2, <2>3, <2>4 DEF CoreInv, LoopInv
<1>8. CASE Poll
  <2>1. UNCHANGED <<params, app, cgroup, proc>> /\ UNCHANGED ipcVars
        /\ UNCHANGED <<vacant, idx, job, sigint_count, sigpending, keep_running>>
        /\ pc' = "events"
    BY <1>8 DEF Poll
  <2>2. AppInv' /\ ClientInv'
    BY <1>1, <2>1, AppInvUnchanged, ClientInvUnchanged
  <2>3. ready' \subseteq ready
    BY <1>8 DEF Poll, Reportable
  <2>4. SlabTypeOK'
    BY <1>1, <2>1, <2>3 DEF SlabTypeOK
  <2>5. ASSUME NEW t \in ready PROVE EventOf(t) \in Events
    <3>1. t \in ReservedTokens \cup Tokens
      BY <1>1 DEF SlabTypeOK
    <3> QED
      BY <3>1, Zenon DEF EventOf, Events, ConnReadable, ConnWritable
  <2>6. batch' \subseteq Events
    BY <1>8, <2>5 DEF Poll, Reportable
  <2>7. LoopTypeOK' /\ Serving' /\ SigintsBounded' /\ CreatedFresh'
    BY <1>1, <2>1, <2>6 DEF LoopTypeOK, Serving, SigintsBounded, CreatedFresh
  <2> QED
    BY <2>2, <2>4, <2>7 DEF CoreInv, LoopInv
<1>9. CASE AcceptAll
  <2>1. UNCHANGED <<params, app, cgroup, proc>>
        /\ UNCHANGED <<idx, job, batch, sigint_count, sigpending, keep_running>>
        /\ pc' \in {"accept", "events"}
    BY <1>9 DEF AcceptAll
  <2>2. ClientInv' /\ SlabTypeOK'
    BY <1>1, <1>9, AcceptOneInv, ClientInvUnchanged, UnchangedSlab DEF AcceptAll
  <2>3. AppInv'
    BY <1>1, <2>1, AppInvUnchanged
  <2>4. LoopTypeOK' /\ Serving' /\ SigintsBounded' /\ CreatedFresh'
    BY <1>1, <2>1 DEF LoopTypeOK, Serving, SigintsBounded, CreatedFresh
  <2> QED
    BY <2>2, <2>3, <2>4 DEF CoreInv, LoopInv
<1>10. CASE \E e \in batch : HandleSignal(e)
  <2>1. PICK e \in batch : HandleSignal(e)
    BY <1>10
  <2>2. AppInv' /\ ClientInv' /\ SlabTypeOK'
    BY <1>1, <2>1, AppInvUnchanged, ClientInvUnchanged, UnchangedSlab
    DEF HandleSignal, appVars
  <2>3. pc' = pc /\ pc = "events" /\ batch' \subseteq batch /\ ~sigpending'
        /\ UNCHANGED <<idx, job, keep_running>> /\ sigpending' = FALSE
    BY <2>1 DEF HandleSignal, Handling
  <2>4. sigint_count' \in 0..MaxSigints
    BY <1>1, <1>2, <2>1 DEF HandleSignal, SigintsBounded
  <2>5. LoopTypeOK' /\ Serving' /\ SigintsBounded' /\ CreatedFresh'
    BY <1>1, <2>3, <2>4 DEF LoopTypeOK, Serving, SigintsBounded, CreatedFresh
  <2> QED
    BY <2>2, <2>5 DEF CoreInv, LoopInv
<1>11. CASE \E e \in batch : HandleListener(e)
  <2>1. PICK e \in batch : HandleListener(e)
    BY <1>11
  <2>2. AppInv' /\ ClientInv' /\ SlabTypeOK'
    BY <1>1, <2>1, AppInvUnchanged, ClientInvUnchanged, UnchangedSlab
    DEF HandleListener, appVars
  <2>3. LoopTypeOK' /\ Serving' /\ SigintsBounded' /\ CreatedFresh'
    BY <1>1, <2>1
    DEF HandleListener, LoopTypeOK, Serving, SigintsBounded, CreatedFresh
  <2> QED
    BY <2>2, <2>3 DEF CoreInv, LoopInv
<1>12. CASE \E e \in batch : HandleConn(e)
  <2>1. PICK e \in batch : HandleConn(e)
    BY <1>12
  <2>2. /\ e.tok \in Tokens /\ IsKnown(e.tok) /\ pc = "events"
        /\ UNCHANGED <<params, app, cgroup, proc, sigint_count, sigpending,
                       keep_running>>
        /\ batch' = batch \ {e}
    BY <2>1 DEF HandleConn, Handling
  <2>3. e \in Events /\ e.r \in BOOLEAN /\ e.w \in BOOLEAN
    BY <1>2 DEF Events
  <2>4. AppInv'
    BY <1>1, <2>2, AppInvUnchanged
  <2>5. batch' \subseteq Events
    BY <1>2, <2>2
  <2>6. CASE Close(e.tok, 0) /\ UNCHANGED <<backlog, pc, idx, job>>
    <3>1. ClientInv' /\ SlabTypeOK'
      <4>1. client[conns[e.tok].client] \in ClientRecord
        BY <1>1, <2>2 DEF ClientInv, IpcTypeOK, ConnRecord
      <4>2. /\ Peer(e.tok).inq + 0 <= SocketChunks
            /\ Peer(e.tok).got + Peer(e.tok).inq + 0 <= ResponseChunks
        <5>1. /\ Peer(e.tok).inq \in 0..SocketChunks
              /\ Peer(e.tok).got \in 0..ResponseChunks
          BY <4>1 DEF ClientRecord
        <5>2. Peer(e.tok).got + Peer(e.tok).inq <= ResponseChunks
          BY <1>1, <2>2 DEF ClientInv, IpcTypeOK, ConnRecord, OneResponse
        <5> QED
          BY <5>1, <5>2, IpcAssumption
      <4> QED
        BY <1>1, <2>2, <2>6, <4>2, CloseInv
    <3>2. LoopTypeOK' /\ Serving' /\ SigintsBounded' /\ CreatedFresh'
      BY <1>1, <2>2, <2>5, <2>6
      DEF LoopTypeOK, Serving, SigintsBounded, CreatedFresh
    <3> QED
      BY <2>4, <3>1, <3>2 DEF CoreInv, LoopInv
  <2>7. CASE Peer(e.tok).line = "unread" /\ ReadRequest(e.tok)
             /\ pc' = "request" /\ job' = e /\ UNCHANGED idx
    <3>1. ClientInv' /\ SlabTypeOK' /\ Unanswered(e.tok)'
      BY <1>1, <2>2, <2>7, ReadRequestInv
    <3>2. Serving'
      BY <2>7, <3>1 DEF Serving, Unanswered
    <3>3. LoopTypeOK' /\ SigintsBounded' /\ CreatedFresh'
      BY <1>1, <2>2, <2>3, <2>5, <2>7
      DEF LoopTypeOK, SigintsBounded, CreatedFresh
    <3> QED
      BY <2>4, <3>1, <3>2, <3>3 DEF CoreInv, LoopInv
  <2>8. CASE ServeIdle(e.tok, e.r, e.w) /\ UNCHANGED <<pc, idx, job>>
    <3>1. ClientInv' /\ SlabTypeOK'
      BY <1>1, <2>2, <2>3, <2>8, ServeIdleInv
    <3>2. LoopTypeOK' /\ Serving' /\ SigintsBounded' /\ CreatedFresh'
      BY <1>1, <2>2, <2>5, <2>8
      DEF LoopTypeOK, Serving, SigintsBounded, CreatedFresh
    <3> QED
      BY <2>4, <3>1, <3>2 DEF CoreInv, LoopInv
  <2> QED
    BY <2>1, <2>6, <2>7, <2>8 DEF HandleConn
<1>13. CASE \E e \in batch : HandleApp(e)
  <2>1. PICK e \in batch : HandleApp(e)
    BY <1>13
  <2>2. /\ pc = "events" /\ pc' \in {pc, "panic"} /\ batch' = batch \ {e}
        /\ UNCHANGED <<params, ipcVars, idx, job, sigint_count, sigpending,
                       keep_running>>
    BY <2>1 DEF HandleApp, Handling
  <2>3. \/ UNCHANGED <<app, vacant, cgroup, proc, ready>>
        \/ \E a \in Apps : Running(a) /\ Reap(a, ~Stopping)
    BY <2>1 DEF HandleApp
  <2>4. AppInv' /\ SlabTypeOK'
    <3>1. CASE UNCHANGED <<app, vacant, cgroup, proc, ready>>
      BY <1>1, <2>2, <3>1, AppInvUnchanged, UnchangedSlab
    <3>2. ASSUME NEW a \in Apps, Running(a), Reap(a, ~Stopping)
          PROVE  AppInv' /\ SlabTypeOK'
      <4>1. AppInv'
        BY <1>1, <1>5, <2>2, <3>2, ReapInv
      <4>2. app[a].tokens \in [Fds -> Tokens]
        BY <1>1, <3>2 DEF AppInv, RuntimesHoldTokens
      <4> QED
        BY <1>1, <3>2, <4>1, <4>2, ReapSlab
    <3> QED
      BY <2>3, <3>1, <3>2
  <2>5. ClientInv'
    BY <1>1, <2>2, ClientInvUnchanged
  <2>6. LoopTypeOK' /\ Serving' /\ SigintsBounded' /\ CreatedFresh'
    BY <1>1, <2>2 DEF LoopTypeOK, Serving, SigintsBounded, CreatedFresh
  <2> QED
    BY <2>4, <2>5, <2>6 DEF CoreInv, LoopInv
<1>14. CASE ServeRequest
  <2>1. /\ pc = "request" /\ idx \in Apps /\ idx' = idx + 1
        /\ UNCHANGED <<params, ipcVars, pc, job, batch, sigint_count, sigpending,
                       keep_running>>
    BY <1>14 DEF ServeRequest
  <2>2. \/ AppStart(idx)
        \/ \E force \in BOOLEAN : AppStop(idx, force)
        \/ UNCHANGED <<app, vacant, cgroup, proc, ready>>
    <3>1. Peer(job.tok).req.force \in BOOLEAN
      <4>1. client[conns[job.tok].client] \in ClientRecord
        BY <1>1, <2>1
        DEF Serving, Unanswered, ClientInv, IpcTypeOK, ConnRecord
      <4>2. Peer(job.tok).req \in [op : {"start", "stop", "query"},
                                   force : BOOLEAN, targets : SUBSET Apps]
        BY <4>1, IpcAssumption DEF ClientRecord
      <4> QED
        BY <4>2
    <3> QED
      BY <1>14, <3>1 DEF ServeRequest
  <2>3. AppInv' /\ SlabTypeOK'
    <3>1. CASE AppStart(idx)
      <4>1. SlabTypeOK'
        BY <1>1, <2>1, <3>1, RuntimeSlab, UnchangedSlab DEF AppStart
      <4> QED
        BY <1>1, <1>2, <2>1, <3>1, <4>1, AppStartInv
    <3>2. ASSUME NEW force \in BOOLEAN, AppStop(idx, force)
          PROVE  AppInv' /\ SlabTypeOK'
      BY <1>1, <2>1, <3>2, AppStopInv, UnchangedSlab DEF AppStop
    <3>3. CASE UNCHANGED <<app, vacant, cgroup, proc, ready>>
      BY <1>1, <2>1, <3>3, AppInvUnchanged, UnchangedSlab
    <3> QED
      BY <2>2, <3>1, <3>2, <3>3
  <2>4. ClientInv'
    BY <1>1, <2>1, ClientInvUnchanged
  <2>5. Serving'
    BY <1>1, <2>1 DEF Serving, Unanswered, ipcVars
  <2>6. LoopTypeOK' /\ SigintsBounded' /\ CreatedFresh'
    BY <1>1, <1>3, <2>1 DEF LoopTypeOK, SigintsBounded, CreatedFresh
  <2> QED
    BY <2>3, <2>4, <2>5, <2>6 DEF CoreInv, LoopInv
<1>15. CASE FinishRequest
  <2>1. Unanswered(job.tok) /\ job.w \in BOOLEAN
    <3>1. Unanswered(job.tok)
      BY <1>1, <1>15 DEF FinishRequest, Serving
    <3>2. CASE job \in Events
      BY <3>1, <3>2 DEF Events
    <3>3. CASE job = NoEvent
      <4>1. NoEvent.w = FALSE
        BY DEF NoEvent
      <4> QED
        BY <3>1, <3>3, <4>1
    <3> QED
      BY <1>2, <3>2, <3>3
  <2>2. ClientInv' /\ SlabTypeOK'
    BY <1>1, <1>15, <2>1, RespondInv DEF FinishRequest
  <2>3. AppInv'
    BY <1>1, <1>15, AppInvUnchanged DEF FinishRequest
  <2>4. LoopTypeOK' /\ Serving' /\ SigintsBounded' /\ CreatedFresh'
    BY <1>1, <1>4, <1>15
    DEF FinishRequest, LoopTypeOK, Serving, SigintsBounded, CreatedFresh
  <2> QED
    BY <2>2, <2>3, <2>4 DEF CoreInv, LoopInv
<1>16. CASE EventsDone \/ RestartDone \/ ShutdownDone
  <2>1. /\ UNCHANGED <<appVars, ipcVars>>
        /\ UNCHANGED <<job, batch, sigint_count, sigpending, keep_running>>
        /\ pc' \in {"restart", "shutdown", "check"} /\ idx' \in {idx, 1}
    BY <1>16 DEF EventsDone, RestartDone, ShutdownDone
  <2>2. AppInv' /\ ClientInv' /\ SlabTypeOK'
    BY <1>1, <2>1, AppInvUnchanged, ClientInvUnchanged, UnchangedSlab
    DEF appVars
  <2>3. LoopTypeOK' /\ Serving' /\ SigintsBounded' /\ CreatedFresh'
    BY <1>1, <1>4, <2>1 DEF LoopTypeOK, Serving, SigintsBounded, CreatedFresh
  <2> QED
    BY <2>2, <2>3 DEF CoreInv, LoopInv
<1>17. CASE RestartApp
  <2>1. /\ pc = "restart" /\ idx \in Apps /\ idx' = idx + 1
        /\ MaybeRestart(idx, ~Stopping)
        /\ UNCHANGED <<params, ipcVars, pc, job, batch, sigint_count, sigpending,
                       keep_running>>
    BY <1>17 DEF RestartApp
  <2>2. AppInv'
    BY <1>1, <1>2, <1>5, <2>1, MaybeRestartInv
  <2>3. SlabTypeOK'
    BY <1>1, <2>1, RuntimeSlab, UnchangedSlab DEF MaybeRestart
  <2>4. ClientInv'
    BY <1>1, <2>1, ClientInvUnchanged
  <2>5. LoopTypeOK' /\ Serving' /\ SigintsBounded' /\ CreatedFresh'
    BY <1>1, <1>3, <2>1 DEF LoopTypeOK, Serving, SigintsBounded, CreatedFresh
  <2> QED
    BY <2>2, <2>3, <2>4, <2>5 DEF CoreInv, LoopInv
<1>18. CASE ShutdownApp
  <2>1. /\ pc = "shutdown" /\ idx \in Apps /\ idx' = idx + 1
        /\ AppStop(idx, sigint_count >= SIGINT_THRESHOLD)
        /\ UNCHANGED <<params, ipcVars, pc, job, batch, sigint_count, sigpending,
                       keep_running>>
    BY <1>18 DEF ShutdownApp
  <2>2. AppInv' /\ SlabTypeOK'
    BY <1>1, <1>5, <2>1, AppStopInv, UnchangedSlab DEF AppStop
  <2>3. ClientInv'
    BY <1>1, <2>1, ClientInvUnchanged
  <2>4. LoopTypeOK' /\ Serving' /\ SigintsBounded' /\ CreatedFresh'
    BY <1>1, <1>3, <2>1 DEF LoopTypeOK, Serving, SigintsBounded, CreatedFresh
  <2> QED
    BY <2>2, <2>3, <2>4 DEF CoreInv, LoopInv
<1>19. CASE Check
  <2>1. /\ UNCHANGED <<appVars, conns, backlog>>
        /\ UNCHANGED <<idx, job, batch, sigint_count, sigpending, keep_running>>
        /\ pc' \in {"exited", "panic", "poll"}
        /\ client' = client \/ client' = [c \in Clients |-> Abandoned(c)]
    BY <1>19 DEF Check
  <2>2. AppInv' /\ SlabTypeOK'
    BY <1>1, <2>1, AppInvUnchanged, UnchangedSlab DEF appVars
  <2>3. CASE client' = client
    BY <1>1, <2>1, <2>2, <2>3, ClientInvUnchanged
    DEF CoreInv, LoopInv, LoopTypeOK, Serving, SigintsBounded, CreatedFresh,
        ipcVars
  <2>4. CASE client' = [c \in Clients |-> Abandoned(c)]
    <3>1. client \in [Clients -> ClientRecord]
      BY <1>1 DEF ClientInv, IpcTypeOK
    <3>2. \A c \in Clients : Abandoned(c) \in {client[c],
                                               WithSt(client[c], "shut")}
                              /\ (client[c].st = "open"
                                    \/ Abandoned(c) = client[c])
      BY <3>1 DEF Abandoned, WithSt, ClientRecord
    <3>3. ASSUME NEW c \in Clients
          PROVE  /\ client'[c] \in ClientRecord
                 /\ client'[c].st = "idle" => client[c].st = "idle"
                 /\ client'[c].got = client[c].got
                 /\ client'[c].inq = client[c].inq
                 /\ client'[c].line = client[c].line
      <4>1. client'[c] = client[c] \/ client'[c] = WithSt(client[c], "shut")
        BY <2>4, <3>2
      <4>2. client[c] \in ClientRecord
        BY <3>1
      <4> QED
        BY <4>1, <4>2, WithStFacts
    <3>4. IpcTypeOK'
      <4>1. \A c \in Clients : Abandoned(c) \in ClientRecord
        BY <2>4, <3>3
      <4>2. client' \in [Clients -> ClientRecord]
        BY <2>4, <4>1
      <4> QED
        BY <1>1, <2>1, <4>2 DEF ClientInv, IpcTypeOK
    <3>5. OneConnection'
      <4>1. \A c \in Clients : client'[c].st = "idle" => client[c].st = "idle"
        BY <3>3
      <4>2. backlog \subseteq Clients
        BY <1>1 DEF ClientInv, IpcTypeOK
      <4> QED
        BY <1>1, <2>1, <4>1, <4>2 DEF ClientInv, OneConnection
    <3>6. OneResponse'
      <4>1. \A t \in Tokens : conns[t].client \in Clients \cup {NoClient}
        BY <1>1 DEF ClientInv, IpcTypeOK, ConnRecord
      <4>2. \A c \in Clients : /\ client'[c].got = client[c].got
                                /\ client'[c].inq = client[c].inq
                                /\ client'[c].line = client[c].line
        BY <3>3
      <4> HIDE <2>4
      <4> QED
        BY <1>1, <2>1, <4>1, <4>2 DEF ClientInv, OneResponse
    <3>7. LoopTypeOK' /\ Serving' /\ SigintsBounded' /\ CreatedFresh'
      BY <1>1, <2>1 DEF LoopTypeOK, Serving, SigintsBounded, CreatedFresh
    <3> QED
      BY <2>2, <3>4, <3>5, <3>6, <3>7 DEF CoreInv, LoopInv, ClientInv
  <2> QED
    BY <2>1, <2>3, <2>4
<1>20. CASE MainEnvironment
  <2>1. CASE \E p \in Pids : (\E ret \in {"ok", "err"} : ProcExit(p, ret))
                              /\ UNCHANGED <<ipcVars, loopVars>>
    <3>1. AppInv' /\ SlabTypeOK' /\ app' = app
      BY <1>1, <2>1, ProcExitInv, ProcessSlab DEF ProcExit
    <3>2. ClientInv'
      BY <1>1, <2>1, ClientInvUnchanged
    <3>3. LoopTypeOK' /\ Serving' /\ SigintsBounded' /\ CreatedFresh'
      BY <1>1, <2>1, <3>1 DEF loopVars, ipcVars, LoopTypeOK, Serving,
                              Unanswered, SigintsBounded, CreatedFresh
    <3> QED
      BY <3>1, <3>2, <3>3 DEF CoreInv, LoopInv
  <2>2. CASE \E p \in Pids : ProcFork(p) /\ UNCHANGED <<ipcVars, loopVars>>
    <3>1. AppInv' /\ SlabTypeOK' /\ app' = app
      BY <1>1, <2>2, ProcForkInv, UnchangedSlab DEF ProcFork
    <3>2. ClientInv'
      BY <1>1, <2>2, ClientInvUnchanged
    <3>3. LoopTypeOK' /\ Serving' /\ SigintsBounded' /\ CreatedFresh'
      BY <1>1, <2>2, <3>1 DEF loopVars, ipcVars, LoopTypeOK, Serving,
                              Unanswered, SigintsBounded, CreatedFresh
    <3> QED
      BY <3>1, <3>2, <3>3 DEF CoreInv, LoopInv
  <2>3. CASE \E a \in Apps, fd \in Fds :
                ProcOutput(a, fd) /\ UNCHANGED <<ipcVars, loopVars>>
    <3>1. AppInv' /\ SlabTypeOK' /\ app' = app
      BY <1>1, <2>3, AppInvUnchanged, ProcessSlab DEF ProcOutput
    <3>2. ClientInv'
      BY <1>1, <2>3, ClientInvUnchanged
    <3>3. LoopTypeOK' /\ Serving' /\ SigintsBounded' /\ CreatedFresh'
      BY <1>1, <2>3, <3>1 DEF loopVars, ipcVars, LoopTypeOK, Serving,
                              Unanswered, SigintsBounded, CreatedFresh
    <3> QED
      BY <3>1, <3>2, <3>3 DEF CoreInv, LoopInv
  <2>4. CASE \E a \in Apps : DelayElapses(a) /\ UNCHANGED <<ipcVars, loopVars>>
    <3>1. /\ AppInv' /\ SlabTypeOK'
          /\ \A b \in Apps : app'[b].stop_requested = app[b].stop_requested
      BY <1>1, <2>4, DelayElapsesInv, UnchangedSlab DEF DelayElapses
    <3>2. ClientInv'
      BY <1>1, <2>4, ClientInvUnchanged
    <3>3. LoopTypeOK' /\ Serving' /\ SigintsBounded' /\ CreatedFresh'
      BY <1>1, <2>4, <3>1 DEF loopVars, ipcVars, LoopTypeOK, Serving,
                              Unanswered, SigintsBounded, CreatedFresh
    <3> QED
      BY <3>1, <3>2, <3>3 DEF CoreInv, LoopInv
  <2>5. CASE \E c \in Clients : ClientStep(c) /\ UNCHANGED loopVars
    <3>1. /\ ClientInv' /\ SlabTypeOK'
          /\ \A t : Unanswered(t) => Unanswered(t)'
      BY <1>1, <2>5, ClientStepInv
    <3>2. UNCHANGED <<params, app, cgroup, proc>>
      BY <2>5 DEF ClientStep
    <3>3. AppInv'
      BY <1>1, <3>2, AppInvUnchanged
    <3>4. Serving'
      <4>1. pc' = pc /\ job' = job
        BY <2>5 DEF loopVars
      <4>2. ASSUME pc = "request" PROVE Unanswered(job.tok)'
        <5>1. Unanswered(job.tok)
          BY <1>1, <4>2 DEF Serving
        <5>2. \A t : t = job.tok => Unanswered(t)'
          BY <3>1, <5>1
        <5> QED
          BY <4>1, <5>2 DEF Unanswered
      <4> QED
        BY <4>1, <4>2 DEF Serving
    <3>5. LoopTypeOK' /\ SigintsBounded' /\ CreatedFresh'
      BY <1>1, <2>5, <3>2 DEF loopVars, LoopTypeOK, SigintsBounded, CreatedFresh
    <3> QED
      BY <3>1, <3>3, <3>4, <3>5 DEF CoreInv, LoopInv
  <2>6. CASE Sigint
    <3>1. AppInv' /\ ClientInv'
      BY <1>1, <2>6, AppInvUnchanged, ClientInvUnchanged DEF Sigint
    <3>2. SlabTypeOK'
      BY <1>1, <2>6 DEF Sigint, SlabTypeOK, ReservedTokens
    <3>3. LoopTypeOK' /\ Serving' /\ SigintsBounded' /\ CreatedFresh'
      <4>1. sigpending' = TRUE /\ sigint_count < MaxSigints
            /\ UNCHANGED <<app, conns, client, pc, idx, job, batch, sigint_count,
                           keep_running>>
        BY <2>6 DEF Sigint, ipcVars
      <4> QED
        BY <1>1, <4>1
        DEF LoopTypeOK, Serving, Unanswered, SigintsBounded, CreatedFresh
    <3> QED
      BY <3>1, <3>2, <3>3 DEF CoreInv, LoopInv
  <2> QED
    BY <1>20, <2>1, <2>2, <2>3, <2>4, <2>5, <2>6 DEF MainEnvironment
<1>21. CASE UNCHANGED vars
  <2>1. AppInv' /\ ClientInv' /\ SlabTypeOK'
    BY <1>1, <1>21, AppInvUnchanged, ClientInvUnchanged, UnchangedSlab
    DEF vars, appVars
  <2>2. LoopTypeOK' /\ Serving' /\ SigintsBounded' /\ CreatedFresh'
    BY <1>1, <1>21
    DEF vars, appVars, ipcVars, loopVars, LoopTypeOK, Serving, Unanswered,
        SigintsBounded, CreatedFresh
  <2> QED
    BY <2>1, <2>2 DEF CoreInv, LoopInv
<1> QED
  BY <1>6, <1>7, <1>8, <1>9, <1>10, <1>11, <1>12, <1>13, <1>14, <1>15, <1>16,
     <1>17, <1>18, <1>19, <1>20, <1>21
  DEF MainStep

(* So does every step of the log socket: its tokens come from the slab and go
   back to it, and its events and listener are its own. *)
LEMMA LogSocketStep ==
  ASSUME IndInv, LogStep \/ LogEnvironment
  PROVE  IndInv'
<1>1. AppInv /\ SlabTypeOK /\ ClientInv /\ LoopTypeOK /\ LogTypeOK
      /\ Serving /\ SigintsBounded /\ CreatedFresh
  BY DEF IndInv, CoreInv, LoopInv
<1>2. /\ vacant \in Seq(Tokens) /\ ready \subseteq ReservedTokens \cup Tokens
      /\ logs \subseteq Tokens /\ log_backlog \in Nat
      /\ LOG_LISTENER_TOKEN \in ReservedTokens
  BY <1>1 DEF SlabTypeOK, LogTypeOK, ReservedTokens
<1>3. /\ UNCHANGED <<params, app, cgroup, proc, ipcVars>>
      /\ UNCHANGED <<idx, job, sigint_count, sigpending, keep_running>>
      /\ batch' \subseteq batch
      /\ pc' = pc \/ pc' \in {"events", "log_accept"}
  BY DEF LogStep, LogEnvironment, LogAcceptAll, PushUpdates, HandleLog, loopVars
<1>4. AppInv' /\ ClientInv'
  BY <1>1, <1>3, AppInvUnchanged, ClientInvUnchanged
<1>5. Serving' /\ CreatedFresh'
  BY <1>1, <1>3 DEF Serving, Unanswered, CreatedFresh, ipcVars
<1>6. LoopTypeOK' /\ SigintsBounded'
  BY <1>1, <1>3 DEF LoopTypeOK, SigintsBounded
<1>7. SlabTypeOK' /\ LogTypeOK'
  <2>1. ASSUME UNCHANGED <<logVars, vacant, ready>>
        PROVE  SlabTypeOK' /\ LogTypeOK'
    BY <1>1, <2>1 DEF SlabTypeOK, LogTypeOK, logVars
  <2>2. ASSUME NEW t \in logs, LogClose(t)
        PROVE  SlabTypeOK' /\ LogTypeOK'
    <3>1. Free(vacant, t) \in Seq(Tokens)
      BY <1>2, FreeType
    <3> QED
      BY <1>2, <2>2, <3>1 DEF LogClose, SlabTypeOK, LogTypeOK
  <2>3. ASSUME LogAcceptOne \/ LogAcceptLeaks, UNCHANGED ready
        PROVE  SlabTypeOK' /\ LogTypeOK'
    <3>1. log_backlog' \in Nat
      BY <1>2, <2>3 DEF LogAcceptOne, LogAcceptLeaks
    <3>2. vacant' \in Seq(Tokens)
      <4>1. CASE UNCHANGED vacant
        BY <1>2, <4>1
      <4>2. CASE vacant' = Allocate(vacant, 1) /\ vacant # <<>>
        BY <1>2, <4>2, AllocateType
      <4> QED
        BY <2>3, <4>1, <4>2 DEF LogAcceptOne, LogAcceptLeaks
    <3>3. vacant # <<>> => vacant[1] \in Tokens
      BY <1>2
    <3>4. logs' \subseteq Tokens
      BY <1>2, <2>3, <3>3 DEF LogAcceptOne, LogAcceptLeaks
    <3> QED
      BY <1>2, <2>3, <3>1, <3>2, <3>4 DEF SlabTypeOK, LogTypeOK
  <2>4. CASE LogAcceptAll
    BY <2>1, <2>3, <2>4 DEF LogAcceptAll, logVars
  <2>5. CASE PushUpdates \/ \E e \in batch : HandleLog(e)
    BY <2>1, <2>2, <2>5 DEF PushUpdates, HandleLog
  <2>6. CASE LogEnvironment
    BY <1>2, <2>6
    DEF LogEnvironment, LogConnect, LogTraffic, logVars, SlabTypeOK, LogTypeOK
  <2> QED
    BY <2>4, <2>5, <2>6 DEF LogStep
<1> QED
  BY <1>4, <1>5, <1>6, <1>7 DEF IndInv, CoreInv, LoopInv

(* The invariant holds initially. *)
LEMMA InitInd == Init => IndInv
BY InitCore DEF IndInv, Init, LogInit, LogTypeOK

(* Every step preserves it. *)
LEMMA NextInd == IndInv /\ [Next]_vars => IndInv'
<1>1. ASSUME IndInv, (MainStep \/ MainEnvironment) /\ UNCHANGED logVars
      PROVE  IndInv'
  BY <1>1, CoreStep DEF IndInv, LogTypeOK, logVars
<1>2. ASSUME IndInv, UNCHANGED vars PROVE IndInv'
  BY <1>2, CoreStep DEF IndInv, LogTypeOK, logVars, vars
<1> QED
  BY <1>1, <1>2, LogSocketStep DEF Next, Daemon, Environment, Done

-----------------------------------------------------------------------------
(* The theorems *)

(* The inductive invariant holds throughout. *)
LEMMA SpecInd == Spec => []IndInv
BY InitInd, NextInd, PTL DEF Spec

(* TypeOK is invariant: in particular a response is queued and sent once, and
   never more than fits the client's socket (Server in ipc.rs), and only real
   tokens are ever freed into the slab (runtime.rs). *)
THEOREM TypeCorrect == Spec => []TypeOK
<1>1. IndInv => TypeOK
  BY DEF IndInv, CoreInv, AppInv, ClientInv, LoopInv, TypeOK
<1> QED
  BY <1>1, SpecInd, PTL

(* The daemon only waits for, and only signals, children of its own that were
   not reaped (poll_pid and send_signal in runtime.rs). *)
THEOREM ChildTracked == Spec => []TrackedChild
<1>1. IndInv => TrackedChild
  BY DEF IndInv, CoreInv, AppInv
<1> QED
  BY <1>1, SpecInd, PTL

(* A pending restart was earned: schedule_restart, stop and start keep the
   policy, the failure count and the deadline consistent. *)
THEOREM RestartEarned == Spec => []RestartJustified
<1>1. IndInv => RestartJustified
  BY DEF IndInv, CoreInv, AppInv
<1> QED
  BY <1>1, SpecInd, PTL

(* A stop request outlives exits, failed starts and due restarts: only
   App::start can run the application again. *)
THEOREM StopIsFinal == Spec => StopSticks
<1>1. ASSUME IndInv, Next PROVE StartedOnRequest
  <2>1. SUFFICES ASSUME NEW a \in Apps, app[a].stop_requested, ~Running(a),
                        Running(a)'
                 PROVE  pc = "request" /\ Peer(job.tok).req.op = "start"
    BY DEF StartedOnRequest
  <2>2. app \in [Apps -> AppRecord]
    BY <1>1 DEF IndInv, CoreInv, AppInv, AppTypeOK
  <2>3. app'[a].state # app[a].state
    BY <2>1 DEF Running
  <2>4. ~Pending(a)
    BY <1>1, <2>1 DEF IndInv, CoreInv, AppInv, RestartJustified
  <2>5. ASSUME NEW b \in Apps, NEW r, RuntimeFails(b, r),
               r = app[b] \/ r = Stopped(app[b])
        PROVE  FALSE
    <3>1. app[b] \in AppRecord
      BY <2>2
    <3>2. Stopped(app[b]).state = "stopped"
      BY <3>1, StoppedFacts
    <3>3. app'[a] = IF a = b THEN r ELSE app[a]
      BY <2>2, <2>5 DEF RuntimeFails
    <3> QED
      BY <2>1, <2>3, <2>5, <3>2, <3>3 DEF Running
  <2>6. ASSUME NEW b \in Apps, NEW force \in BOOLEAN, AppStop(b, force)
        PROVE  FALSE
    <3>1. app[b] \in AppRecord
      BY <2>2
    <3>2. CASE app' = [app EXCEPT ![b].stop_requested = TRUE]
      <4>1. app'[a] = app[a] \/ app'[a] = AskedToStop(app[a])
        BY <2>2, <3>2 DEF AskedToStop
      <4> QED
        BY <2>2, <2>3, <4>1, StopRecordFacts
    <3>3. CASE app' = [app EXCEPT ![b].restart_deadline = "none",
                                  ![b].stop_requested = TRUE]
      <4>1. app'[a] = app[a] \/ app'[a] = Cancelled(app[a])
        BY <2>2, <3>3 DEF Cancelled
      <4> QED
        BY <2>2, <2>3, <4>1, StopRecordFacts
    <3>4. CASE app' = app
      BY <2>3, <3>4
    <3> QED
      BY <2>6, <3>2, <3>3, <3>4 DEF AppStop
  <2>7. ASSUME NEW b \in Apps, NEW r, RuntimeStart(b, r)
        PROVE  a = b
    BY <2>2, <2>3, <2>7 DEF RuntimeStart
  <2>8. ASSUME app' = app PROVE FALSE
    BY <2>3, <2>8
  <2>9. ASSUME CreateApp PROVE FALSE
    <3>1. ~app[a].stop_requested
      BY <1>1, <2>9 DEF IndInv, CoreInv, LoopInv, CreatedFresh, CreateApp
    <3> QED
      BY <2>1, <3>1
  <2>10. ASSUME ServeRequest
         PROVE  pc = "request" /\ Peer(job.tok).req.op = "start"
    <3>1. pc = "request" /\ idx \in Apps
      BY <2>10 DEF ServeRequest
    <3>2. Peer(job.tok).req.force \in BOOLEAN
      <4>1. client[conns[job.tok].client] \in ClientRecord
        BY <1>1, <3>1
        DEF IndInv, CoreInv, LoopInv, Serving, Unanswered, ClientInv, IpcTypeOK,
            ConnRecord
      <4>2. Peer(job.tok).req \in [op : {"start", "stop", "query"},
                                   force : BOOLEAN, targets : SUBSET Apps]
        BY <4>1, IpcAssumption DEF ClientRecord
      <4> QED
        BY <4>2
    <3>3. ~AppStop(idx, Peer(job.tok).req.force)
      BY <2>6, <3>1, <3>2
    <3> QED
      BY <2>8, <2>10, <3>1, <3>3 DEF ServeRequest
  <2>11. ASSUME RestartApp PROVE FALSE
    <3>1. idx \in Apps /\ MaybeRestart(idx, ~Stopping)
      BY <2>11 DEF RestartApp
    <3>2. CASE app' = [app EXCEPT ![idx] = Stopped(@)]
      <4>1. app'[a] = app[a] \/ app'[a] = Stopped(app[a])
        BY <2>2, <3>2
      <4>2. Stopped(app[a]).state = "stopped"
        BY <2>2, StoppedFacts
      <4> QED
        BY <2>1, <2>3, <4>1, <4>2 DEF Running
    <3>3. CASE app[idx].restart_deadline = "due" /\ RuntimeStart(idx, app[idx])
      BY <2>4, <2>7, <3>1, <3>3 DEF Pending
    <3>4. CASE RuntimeFails(idx, Stopped(app[idx]))
      BY <2>5, <3>1, <3>4
    <3> QED
      BY <2>8, <3>1, <3>2, <3>3, <3>4 DEF MaybeRestart
  <2>12. ASSUME ShutdownApp PROVE FALSE
    <3>1. (sigint_count >= SIGINT_THRESHOLD) \in BOOLEAN
      OBVIOUS
    <3> QED
      BY <2>6, <2>12, <3>1 DEF ShutdownApp
  <2>13. ASSUME NEW e \in batch, HandleApp(e) PROVE FALSE
    <3>1. \/ app' = app
          \/ \E b \in Apps : Reap(b, ~Stopping)
      BY <2>13 DEF HandleApp
    <3>2. ASSUME NEW b \in Apps, Reap(b, ~Stopping) PROVE FALSE
      <4>1. PICK ok \in BOOLEAN, long \in BOOLEAN :
               app' = [app EXCEPT ![b] = IF MayRestart(b, ~Stopping)
                                         THEN Scheduled(b, ok, long)
                                         ELSE Stopped(@)]
        BY <3>2, Zenon DEF Reap
      <4>2. Scheduled(b, ok, long).state = "stopped"
            /\ Stopped(app[b]).state = "stopped"
        BY <2>2, ScheduledFacts, StoppedFacts
      <4>3. app'[a] = app[a] \/ app'[a].state = "stopped"
        BY <2>2, <4>1, <4>2
      <4> QED
        BY <2>1, <2>3, <4>3 DEF Running
    <3> QED
      BY <2>8, <3>1, <3>2
  <2>14. ASSUME NEW b \in Apps, DelayElapses(b) PROVE FALSE
    <3>1. app'[a] = app[a] \/ app'[a] = [app[a] EXCEPT !.restart_deadline = "due"]
      BY <2>2, <2>14 DEF DelayElapses
    <3>2. \A r \in AppRecord : [r EXCEPT !.restart_deadline = "due"].state = r.state
      BY DEF AppRecord
    <3> QED
      BY <2>2, <2>3, <3>1, <3>2
  <2>15. CASE MainStep
    <3>1. ASSUME Bind \/ Poll \/ AcceptAll \/ FinishRequest \/ EventsDone
                 \/ RestartDone \/ ShutdownDone \/ Check
                 \/ \E e \in batch : HandleSignal(e) \/ HandleListener(e)
                                      \/ HandleConn(e)
          PROVE  app' = app
      BY <3>1
      DEF Bind, Poll, AcceptAll, FinishRequest, EventsDone, RestartDone,
          ShutdownDone, Check, HandleSignal, HandleListener, HandleConn, appVars
    <3> QED
      BY <2>8, <2>9, <2>10, <2>11, <2>12, <2>13, <2>15, <3>1 DEF MainStep
  <2>16. CASE MainEnvironment
    <3>1. ASSUME \/ \E p \in Pids : (\E ret \in {"ok", "err"} : ProcExit(p, ret))
                                     \/ ProcFork(p)
                 \/ \E b \in Apps, fd \in Fds : ProcOutput(b, fd)
                 \/ \E c \in Clients : ClientStep(c)
                 \/ Sigint
          PROVE  app' = app
      BY <3>1 DEF ProcExit, ProcFork, ProcOutput, ClientStep, Sigint
    <3> QED
      BY <2>8, <2>14, <2>16, <3>1 DEF MainEnvironment
  <2>17. CASE LogStep \/ LogEnvironment
    <3>1. app' = app
      BY <2>17 DEF LogStep, LogEnvironment, LogAcceptAll, PushUpdates, HandleLog
    <3> QED
      BY <2>8, <3>1
  <2> QED
    BY <1>1, <2>8, <2>15, <2>16, <2>17
    DEF Next, Daemon, Environment, Done, vars, appVars
<1> QED
  BY <1>1, SpecInd, PTL DEF Spec, StopSticks

-----------------------------------------------------------------------------
(* What a step does to the applications *)

(* A record as App::start starts it. *)
Anew(r) == [r EXCEPT !.consecutive_failures = 0, !.stop_requested = FALSE]

(* Everything a step of the daemon, or the passing of time, does to one. *)
AppEffect(a) ==
    \/ pc = "create" /\ a = idx /\ RuntimeStart(a, app[a])
    \/ ~Running(a) /\ RuntimeStart(a, Anew(app[a]))
    \/ Pending(a) /\ RuntimeStart(a, app[a])
    \/ (~Running(a) \/ (pc = "create" /\ a = idx)) /\ RuntimeFails(a, app[a])
    \/ Pending(a) /\ RuntimeFails(a, Stopped(app[a]))
    \/ /\ Pending(a) /\ app' = [app EXCEPT ![a] = Stopped(@)]
       /\ UNCHANGED <<cgroup, proc>>
    \/ \E force \in BOOLEAN : AppStop(a, force)
    \/ Running(a) /\ Reap(a, ~Stopping)
    \/ DelayElapses(a)

ProcEffect == \E p \in Pids : ProcFork(p) \/ \E ret \in {"ok", "err"} : ProcExit(p, ret)

(* A step affects one application, or the processes only, or none of them; and
   only a SIGINT that is read changes sigint_count. *)
LEMMA StepEffects ==
    ASSUME IndInv, [Next]_vars
    PROVE  /\ UNCHANGED params
           /\ \/ UNCHANGED <<app, cgroup, proc>>
              \/ (\E a \in Apps : AppEffect(a)) /\ UNCHANGED sigint_count
              \/ ProcEffect /\ UNCHANGED <<app, cgroup, sigint_count>>
           /\ \/ UNCHANGED sigint_count
              \/ /\ pc = "events" /\ UNCHANGED <<app, cgroup, proc, pc, idx>>
                 /\ sigint_count' = sigint_count + 1
<1>1. CASE CreateApp
  BY <1>1 DEF CreateApp, AppCreate, AppCreateFails, AppEffect
<1>2. CASE ServeRequest
  <2>1. idx \in Apps /\ pc = "request" /\ UNCHANGED <<params, sigint_count>>
    BY <1>2 DEF ServeRequest
  <2>2. Peer(job.tok).req.force \in BOOLEAN
    <3>1. client[conns[job.tok].client] \in ClientRecord
      BY <2>1
      DEF IndInv, CoreInv, LoopInv, Serving, Unanswered, ClientInv, IpcTypeOK,
          ConnRecord, IsKnown
    <3>2. Peer(job.tok).req \in [op : {"start", "stop", "query"},
                                 force : BOOLEAN, targets : SUBSET Apps]
      BY <3>1, IpcAssumption DEF ClientRecord, Peer
    <3> QED
      BY <3>2
  <2>3. CASE AppStart(idx)
    BY <2>1, <2>3 DEF AppStart, AppEffect, Anew
  <2>4. CASE AppStop(idx, Peer(job.tok).req.force)
    BY <2>1, <2>2, <2>4 DEF AppEffect
  <2> QED
    BY <1>2, <2>1, <2>3, <2>4 DEF ServeRequest
<1>3. CASE RestartApp
  <2>1. idx \in Apps /\ MaybeRestart(idx, ~Stopping)
        /\ UNCHANGED <<params, sigint_count>>
    BY <1>3 DEF RestartApp
  <2> QED
    BY <2>1 DEF MaybeRestart, AppEffect, Pending
<1>4. CASE ShutdownApp
  <2>1. (sigint_count >= SIGINT_THRESHOLD) \in BOOLEAN
    OBVIOUS
  <2>2. idx \in Apps /\ AppStop(idx, sigint_count >= SIGINT_THRESHOLD)
        /\ UNCHANGED <<params, sigint_count>>
    BY <1>4 DEF ShutdownApp
  <2> QED
    BY <2>1, <2>2 DEF AppEffect
<1>5. CASE \E e \in batch : HandleApp(e)
  BY <1>5 DEF HandleApp, AppEffect
<1>6. CASE \E e \in batch : HandleSignal(e)
  BY <1>6 DEF HandleSignal, Handling, appVars
<1>7. CASE Bind \/ Poll \/ AcceptAll \/ FinishRequest \/ EventsDone
           \/ RestartDone \/ ShutdownDone \/ Check
           \/ (\E e \in batch : HandleListener(e) \/ HandleConn(e))
           \/ LogStep \/ LogEnvironment \/ UNCHANGED vars
  BY <1>7
  DEF Bind, Poll, AcceptAll, FinishRequest, EventsDone, RestartDone,
      ShutdownDone, Check, HandleListener, HandleConn, LogStep, LogAcceptAll,
      PushUpdates, HandleLog, LogEnvironment, vars, appVars, loopVars
<1>8. CASE MainEnvironment
  <2>1. CASE \E p \in Pids : /\ ProcFork(p) \/ \E ret \in {"ok", "err"} :
                                                  ProcExit(p, ret)
                             /\ UNCHANGED loopVars
    BY <2>1 DEF ProcEffect, ProcFork, ProcExit, loopVars
  <2>2. CASE \E a \in Apps : DelayElapses(a) /\ UNCHANGED loopVars
    BY <2>2 DEF DelayElapses, AppEffect, loopVars
  <2>3. CASE \/ \E a \in Apps, fd \in Fds :
                   ProcOutput(a, fd) /\ UNCHANGED loopVars
             \/ \E c \in Clients : ClientStep(c) /\ UNCHANGED loopVars
             \/ Sigint
    BY <2>3 DEF ProcOutput, ClientStep, Sigint, loopVars
  <2> QED
    BY <1>8, <2>1, <2>2, <2>3 DEF MainEnvironment
<1> QED
  BY <1>1, <1>2, <1>3, <1>4, <1>5, <1>6, <1>7, <1>8
  DEF Next, Daemon, MainStep, Environment, Done

(* A daemon that has ended changes nothing, and neither does what is left of
   its environment. *)
LEMMA EndedStays ==
    ASSUME [Next]_vars, Ended
    PROVE  UNCHANGED vars
BY DEF Ended, Next, Daemon, MainStep, LogStep, CreateApp, Bind, Poll, AcceptAll,
       HandleSignal, HandleListener, HandleConn, HandleApp, Handling,
       ServeRequest, FinishRequest, EventsDone, RestartApp, RestartDone,
       ShutdownApp, ShutdownDone, Check, LogAcceptAll, PushUpdates, HandleLog,
       Environment, MainEnvironment, LogEnvironment, Done
=============================================================================
