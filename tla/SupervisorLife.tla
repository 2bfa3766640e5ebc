--------------------------- MODULE SupervisorLife ---------------------------
(***************************************************************************)
(* Proofs about the applications' lives under the daemon: its shutdown     *)
(* reaches every one of them, an exit leaves no process behind, what a     *)
(* user sees of each is what AppLife says, for any number of applications  *)
(* and processes and any set of faults; and, when the system calls it      *)
(* relies on succeed, the daemon does not abort.                           *)
(***************************************************************************)
EXTENDS SupervisorTokens

-----------------------------------------------------------------------------
(* The strengthenings *)

(* A process that is not dead is in a cgroup that exists. *)
AliveInCgroup == \A p \in Pids : proc[p].st \in Alive => proc[p].app \in cgroup

(* What AppStop leaves of the processes, once the daemon is stopping. *)
Hit == IF sigint_count >= SIGINT_THRESHOLD THEN {"kill", "zombie"}
       ELSE {"term", "kill", "zombie"}

Reached(a) == ~Pending(a) /\ (Running(a) => proc[app[a].pid].st \in Hit)

(* How far the loop over the applications has got: before the events none was
   visited, and once it stops the daemon cancels every restart before it
   signals any process. *)
ShutdownInv ==
    /\ pc \in {"poll", "events", "accept", "log_accept", "check"} => idx = 1
    /\ pc = "create" => sigint_count = 0
    /\ pc = "restart" /\ Stopping => \A a \in Apps : a < idx => ~Pending(a)
    /\ pc = "shutdown" =>
          \A a \in Apps : ~Pending(a) /\ (a < idx => Reached(a))
    /\ pc \in {"check", "poll"} /\ Stopping => \A a \in Apps : Reached(a)

(* Nothing has happened to an application before the daemon listens. *)
NothingYet ==
    pc = "create" => \A a \in Apps : /\ app[a].consecutive_failures = 0
                                     /\ ~Pending(a)

-----------------------------------------------------------------------------
(* Processes and cgroups *)

(* A child is started into a cgroup that was made for it. *)
LEMMA StartedInCgroup ==
    ASSUME AliveInCgroup, proc \in [Pids -> ProcRecord], NEW a \in Apps, NEW r,
           RuntimeStart(a, r) \/ RuntimeFails(a, r)
    PROVE  AliveInCgroup'
<1>1. cgroup' = cgroup \cup {a}
      /\ \/ UNCHANGED proc
         \/ \E p \in FreePids : proc' = [proc EXCEPT ![p] = Spawned(a)]
  BY DEF RuntimeStart, RuntimeFails
<1>2. Spawned(a).app = a
  BY SpawnedFacts
<1> QED
  BY <1>1, <1>2 DEF AliveInCgroup, FreePids

(* cgroup.kill revives nobody. *)
LEMMA KilledFacts ==
    ASSUME NEW p \in ProcRecord, NEW fate, CgroupKilled(p, fate).st \in Alive
    PROVE  p.st \in Alive /\ CgroupKilled(p, fate).app = p.app
<1>1. FreeProc.st \notin Alive
  BY DEF FreeProc, Alive
<1>2. \A x : [p EXCEPT !.st = "zombie", !.ret = x].st \notin Alive
  BY DEF ProcRecord, Alive
<1>3. [p EXCEPT !.st = "kill"].app = p.app
  BY DEF ProcRecord
<1>4. CASE p.st \notin Alive \/ fate = "spared"
  <2>1. CgroupKilled(p, fate) = p
    BY <1>4, Zenon DEF CgroupKilled
  <2> QED
    BY <2>1
<1>5. CASE p.st \in Alive /\ fate = "dying"
  <2>1. CgroupKilled(p, fate) = [p EXCEPT !.st = "kill"]
    BY <1>5, Zenon DEF CgroupKilled
  <2> QED
    BY <1>3, <1>5, <2>1
<1>6. CASE p.st \in Alive /\ fate # "spared" /\ fate # "dying"
  <2>1. CgroupKilled(p, fate) = FreeProc
        \/ CgroupKilled(p, fate) = [p EXCEPT !.st = "zombie", !.ret = "err"]
    BY <1>6, Zenon DEF CgroupKilled
  <2> QED
    BY <1>1, <1>2, <2>1
<1> QED
  BY <1>4, <1>5, <1>6

(* AppRuntime::stop removes a cgroup only when nobody is left alive in it. *)
LEMMA ReapedCgroup ==
    ASSUME AliveInCgroup, AppInv, NEW a \in Apps, NEW try_restart, Running(a),
           Reap(a, try_restart)
    PROVE  AliveInCgroup'
<1>1. proc \in [Pids -> ProcRecord]
  BY DEF AppInv, AppTypeOK
<1>2. PICK fate \in KillFates :
         LET left == [proc EXCEPT ![app[a].pid] = FreeProc]
         IN proc' = [p \in Pids |-> IF left[p].app = a
                                    THEN CgroupKilled(left[p], fate)
                                    ELSE left[p]]
  BY DEF Reap
<1> DEFINE left == [proc EXCEPT ![app[a].pid] = FreeProc]
<1>3. left \in [Pids -> ProcRecord]
  BY <1>1, FreeProcType
<1>4. \A p \in Pids : left[p].st \in Alive => left[p] = proc[p]
  BY <1>1, FreeProcType DEF Alive
<1>5. \A p \in Pids : proc'[p] = IF left[p].app = a
                                 THEN CgroupKilled(left[p], fate) ELSE left[p]
  BY <1>2
<1> HIDE DEF left
<1>6. ASSUME NEW p \in Pids, proc'[p].st \in Alive
      PROVE  proc[p].st \in Alive /\ proc'[p].app = proc[p].app
  BY <1>3, <1>4, <1>5, <1>6, KilledFacts
<1>7. cgroup' = IF \E p \in Pids : proc'[p].app = a /\ proc'[p].st \in Alive
                THEN cgroup ELSE cgroup \ {a}
  BY DEF Reap
<1> QED
  BY <1>6, <1>7 DEF AliveInCgroup

(* kill(2) revives nobody and moves nobody. *)
LEMMA StoppedInCgroup ==
    ASSUME AliveInCgroup, proc \in [Pids -> ProcRecord], NEW a \in Apps,
           NEW force \in BOOLEAN, AppStop(a, force)
    PROVE  AliveInCgroup'
<1>1. cgroup' = cgroup
      /\ \/ UNCHANGED proc
         \/ proc' = [proc EXCEPT ![app[a].pid] = Signalled(@, force)]
  BY DEF AppStop
<1>2. \A p \in ProcRecord : Signalled(p, force).app = p.app
  BY SignalledFacts
<1>3. \A p \in ProcRecord : Signalled(p, force).st \in Alive => p.st \in Alive
  BY DEF Signalled, ProcRecord
<1> QED
  BY <1>1, <1>2, <1>3 DEF AliveInCgroup

(* A process that ends is not alive, and one that is forked is in the cgroup
   of its parent. *)
LEMMA ProcsInCgroup ==
    ASSUME AliveInCgroup, proc \in [Pids -> ProcRecord], ProcEffect,
           UNCHANGED cgroup
    PROVE  AliveInCgroup'
<1>1. PICK p \in Pids : ProcFork(p) \/ \E ret \in {"ok", "err"} : ProcExit(p, ret)
  BY DEF ProcEffect
<1>2. ASSUME NEW ret \in {"ok", "err"}, ProcExit(p, ret) PROVE AliveInCgroup'
  <2>1. [proc[p] EXCEPT !.st = "zombie", !.ret = ret].st \notin Alive
        /\ FreeProc.st \notin Alive
    BY FreeProcType DEF ProcRecord, Alive
  <2>2. \A q \in Pids : q # p => proc'[q] = proc[q]
    BY <1>2 DEF ProcExit
  <2>3. proc'[p].st \notin Alive
    BY <1>2, <2>1 DEF ProcExit
  <2> QED
    BY <2>2, <2>3 DEF AliveInCgroup
<1>3. ASSUME ProcFork(p) PROVE AliveInCgroup'
  <2>1. PICK q \in FreePids : proc' = [proc EXCEPT ![q] =
                                  [Spawned(proc[p].app) EXCEPT !.child = FALSE]]
    BY <1>3 DEF ProcFork
  <2>2. [Spawned(proc[p].app) EXCEPT !.child = FALSE].app = proc[p].app
    BY DEF Spawned
  <2>3. proc[p].app \in cgroup
    BY <1>3 DEF ProcFork, AliveInCgroup, Alive
  <2> QED
    BY <2>1, <2>2, <2>3 DEF AliveInCgroup, FreePids
<1> QED
  BY <1>1, <1>2, <1>3

(* So no process is ever alive outside the cgroups that exist. *)
LEMMA CgroupStep ==
    ASSUME IndInv, AliveInCgroup, [Next]_vars
    PROVE  AliveInCgroup'
<1>1. AppInv /\ proc \in [Pids -> ProcRecord]
  BY DEF IndInv, CoreInv, AppInv, AppTypeOK
<1>2. CASE UNCHANGED <<app, cgroup, proc>>
  BY <1>2 DEF AliveInCgroup
<1>3. CASE ProcEffect /\ UNCHANGED <<app, cgroup>>
  BY <1>1, <1>3, ProcsInCgroup
<1>4. ASSUME NEW a \in Apps, AppEffect(a) PROVE AliveInCgroup'
  <2>1. CASE \E r : RuntimeStart(a, r) \/ RuntimeFails(a, r)
    BY <1>1, <2>1, StartedInCgroup
  <2>2. CASE UNCHANGED <<cgroup, proc>>
    BY <2>2 DEF AliveInCgroup
  <2>3. CASE \E force \in BOOLEAN : AppStop(a, force)
    BY <1>1, <2>3, StoppedInCgroup
  <2>4. CASE Running(a) /\ Reap(a, ~Stopping)
    BY <1>1, <2>4, ReapedCgroup
  <2> QED
    BY <1>4, <2>1, <2>2, <2>3, <2>4 DEF AppEffect, DelayElapses
<1> QED
  BY <1>2, <1>3, <1>4, StepEffects

(* Only Check ends the daemon normally, and then no cgroup is left. *)
LEMMA SurvivorsStep ==
    ASSUME IndInv, AliveInCgroup, NoSurvivors, [Next]_vars
    PROVE  NoSurvivors'
<1>1. CASE pc = "exited"
  <2>1. UNCHANGED vars
    BY <1>1, EndedStays DEF Ended
  <2> QED
    BY <2>1 DEF NoSurvivors, vars, appVars, loopVars
<1>2. CASE pc # "exited" /\ pc' = "exited"
  <2>1. Check
    BY <1>2
    DEF Next, Daemon, MainStep, LogStep, CreateApp, Bind, Poll, AcceptAll,
        HandleSignal, HandleListener, HandleConn, HandleApp, ServeRequest,
        FinishRequest, EventsDone, RestartApp, RestartDone, ShutdownApp,
        ShutdownDone, LogAcceptAll, PushUpdates, HandleLog, Environment,
        MainEnvironment, Sigint, LogEnvironment, Done, vars, loopVars
  <2>2. cgroup = {} /\ UNCHANGED proc
    BY <1>2, <2>1 DEF Check, appVars
  <2> QED
    BY <2>2 DEF AliveInCgroup, NoSurvivors
<1> QED
  BY <1>1, <1>2 DEF NoSurvivors

(* A daemon that exits normally leaves no process of any application behind:
   cgroup.kill may fail or be slow, starts may fail half way and descendants
   may outlive their parents (AppRuntime::stop and the end of main). *)
THEOREM ExitLeavesNothing == Spec => []NoSurvivors
<1>1. Init => AliveInCgroup /\ NoSurvivors
  BY FreeProcType DEF Init, AppInit, AliveInCgroup, NoSurvivors, Alive
<1>2. IndInv /\ AliveInCgroup /\ NoSurvivors /\ [Next]_vars
         => AliveInCgroup' /\ NoSurvivors'
  BY CgroupStep, SurvivorsStep
<1> QED
  BY <1>1, <1>2, SpecInd, PTL DEF Spec

-----------------------------------------------------------------------------
(* The shutdown *)

(* Who was reached stays reached when nothing happens to the applications. *)
LEMMA ReachedUnchanged ==
    ASSUME UNCHANGED <<app, proc, sigint_count>>
    PROVE  \A b \in Apps : Pending(b)' = Pending(b) /\ Reached(b)' = Reached(b)
BY DEF Reached, Hit, Pending, Running

(* Between two steps of the daemon processes end and fork and delays elapse:
   no application gets away by that. *)
LEMMA ReachedMeanwhile ==
    ASSUME AppInv, UNCHANGED sigint_count,
           \/ ProcEffect /\ UNCHANGED app
           \/ \E a \in Apps : DelayElapses(a)
    PROVE  \A b \in Apps : /\ Pending(b)' = Pending(b)
                           /\ Reached(b) => Reached(b)'
<1>1. app \in [Apps -> AppRecord] /\ proc \in [Pids -> ProcRecord]
  BY DEF AppInv, AppTypeOK
<1>2. ASSUME NEW a \in Apps, DelayElapses(a), NEW b \in Apps
      PROVE  Pending(b)' = Pending(b) /\ (Reached(b) => Reached(b)')
  <2>1. \A r \in AppRecord :
           /\ [r EXCEPT !.restart_deadline = "due"].state = r.state
           /\ [r EXCEPT !.restart_deadline = "due"].pid = r.pid
           /\ [r EXCEPT !.restart_deadline = "due"].restart_deadline = "due"
    BY DEF AppRecord
  <2>2. /\ app'[b].state = app[b].state /\ app'[b].pid = app[b].pid
        /\ app'[b].restart_deadline = "none" <=> app[b].restart_deadline = "none"
        /\ UNCHANGED proc
    BY <1>1, <1>2, <2>1 DEF DelayElapses
  <2> QED
    BY <2>2 DEF Pending, Reached, Running, Hit
<1>3. ASSUME ProcEffect, UNCHANGED app, NEW b \in Apps
      PROVE  Pending(b)' = Pending(b) /\ (Reached(b) => Reached(b)')
  <2>1. Pending(b)' = Pending(b) /\ Running(b)' = Running(b) /\ app'[b] = app[b]
    BY <1>3 DEF Pending, Running
  <2>2. ASSUME Running(b), proc[app[b].pid].st \in Hit
        PROVE  proc'[app[b].pid].st \in Hit
    <3> DEFINE pid == app[b].pid
    <3>1. pid \in Pids /\ proc[pid].st # "free" /\ proc[pid].child
      BY <2>2 DEF AppInv, TrackedChild
    <3>2. PICK p \in Pids : ProcFork(p) \/ \E ret \in {"ok", "err"} :
                                              ProcExit(p, ret)
      BY <1>3 DEF ProcEffect
    <3>3. CASE ProcFork(p)
      <4>1. PICK q \in FreePids :
               proc' = [proc EXCEPT ![q] =
                           [Spawned(proc[p].app) EXCEPT !.child = FALSE]]
        BY <3>3 DEF ProcFork
      <4>2. proc'[pid] = proc[pid]
        BY <1>1, <3>1, <4>1 DEF FreePids
      <4> QED
        BY <2>2, <4>2
    <3>4. ASSUME NEW ret \in {"ok", "err"}, ProcExit(p, ret)
          PROVE  proc'[pid].st \in Hit
      <4>1. [proc[p] EXCEPT !.st = "zombie", !.ret = ret].st = "zombie"
        BY <1>1 DEF ProcRecord
      <4>2. proc'[pid] = proc[pid] \/ proc'[pid].st = "zombie"
        BY <1>1, <3>1, <3>4, <4>1 DEF ProcExit
      <4> QED
        BY <2>2, <4>2 DEF Hit
    <3> QED
      BY <3>2, <3>3, <3>4
  <2>3. Hit' = Hit
    BY DEF Hit
  <2> QED
    BY <2>1, <2>2, <2>3 DEF Reached
<1> QED
  BY <1>2, <1>3

(* The shutdown signals the process of an application that runs, SIGKILL if
   asked to, and touches no other application: their processes differ. *)
LEMMA StopReaches ==
    ASSUME AppInv, NEW a \in Apps, ~Pending(a),
           AppStop(a, sigint_count >= SIGINT_THRESHOLD), UNCHANGED sigint_count
    PROVE  /\ Reached(a)'
           /\ \A b \in Apps : /\ Pending(b)' = Pending(b)
                              /\ b # a /\ Reached(b) => Reached(b)'
<1> DEFINE force == sigint_count >= SIGINT_THRESHOLD
<1>1. /\ app \in [Apps -> AppRecord] /\ proc \in [Pids -> ProcRecord]
      /\ force \in BOOLEAN /\ Hit' = Hit
  BY DEF AppInv, AppTypeOK, Hit
<1>2. CASE ~Running(a)
  <2>1. UNCHANGED <<app, proc>>
    BY <1>2 DEF AppStop
  <2> QED
    BY <1>2, <2>1, ReachedUnchanged DEF Reached
<1>3. CASE Running(a)
  <2>1. /\ app' = [app EXCEPT ![a].stop_requested = TRUE]
        /\ proc' = [proc EXCEPT ![app[a].pid] = Signalled(@, force)]
    BY <1>3 DEF AppStop
  <2>2. \A b \in Apps : app'[b] = app[b] \/ app'[b] = AskedToStop(app[b])
    BY <1>1, <2>1 DEF AskedToStop
  <2>3. \A b \in Apps : /\ app'[b].state = app[b].state
                        /\ app'[b].pid = app[b].pid
                        /\ app'[b].restart_deadline = app[b].restart_deadline
    BY <1>1, <2>2, StopRecordFacts
  <2>4. \A b \in Apps : Pending(b)' = Pending(b) /\ Running(b)' = Running(b)
    BY <2>3 DEF Pending, Running
  <2>5. /\ app[a].pid \in Pids /\ proc[app[a].pid].st # "free"
        /\ proc[app[a].pid].app = a
    BY <1>3 DEF AppInv, TrackedChild
  <2>6. \A p \in ProcRecord : p.st # "free" => Signalled(p, force).st \in Hit
    BY DEF Signalled, ProcRecord, Alive, Hit
  <2>7. proc'[app[a].pid].st \in Hit
    BY <1>1, <2>1, <2>5, <2>6
  <2>8. Reached(a)'
    BY <1>1, <2>3, <2>4, <2>7 DEF Reached
  <2>9. ASSUME NEW b \in Apps, b # a, Reached(b) PROVE Reached(b)'
    <3>1. Running(b) => app[b].pid \in Pids /\ proc[app[b].pid].app = b
      BY DEF AppInv, TrackedChild
    <3>2. Running(b) => proc'[app[b].pid] = proc[app[b].pid]
      BY <1>1, <2>1, <2>5, <2>9, <3>1
    <3> QED
      BY <1>1, <2>3, <2>4, <2>9, <3>2 DEF Reached
  <2> QED
    BY <2>4, <2>8, <2>9
<1> QED
  BY <1>2, <1>3

(* A daemon that is stopping schedules and starts nothing. *)
LEMMA StoppingCancels ==
    ASSUME AppInv, NEW a \in Apps, MaybeRestart(a, FALSE)
    PROVE  ~Pending(a)' /\ \A b \in Apps : ~Pending(b) => ~Pending(b)'
<1>1. app \in [Apps -> AppRecord]
  BY DEF AppInv, AppTypeOK
<1>2. Stopped(app[a]).restart_deadline = "none"
  BY <1>1, StoppedFacts
<1>3. \/ app' = [app EXCEPT ![a] = Stopped(@)]
      \/ ~Pending(a) /\ UNCHANGED app
  BY DEF MaybeRestart
<1> QED
  BY <1>1, <1>2, <1>3 DEF Pending

(* Every step keeps track of how far the shutdown has got. *)
LEMMA ShutdownStep ==
    ASSUME IndInv, ShutdownInv, [Next]_vars
    PROVE  ShutdownInv'
<1>1. /\ AppInv /\ idx \in 1..(NumApps + 1) /\ NumApps \in Nat
      /\ sigint_count \in 0..MaxSigints /\ MaxSigints \in Nat
  BY AppAssumption, MaxSigintsAssumption
  DEF IndInv, CoreInv, LoopInv, LoopTypeOK
<1>2. \A a \in Apps : a \in 1..NumApps
  BY DEF Apps
<1>3. CASE pc = "create" /\ pc' \in {"create", "panic"} /\ UNCHANGED sigint_count
  BY <1>3 DEF ShutdownInv
<1>4. CASE Bind
  BY <1>4 DEF Bind, ShutdownInv, Stopping
<1>5. ASSUME pc' \in {"request", "panic"} PROVE ShutdownInv'
  BY <1>5 DEF ShutdownInv
<1>6. ASSUME pc \in {"poll", "events", "accept", "log_accept"} /\ idx' = idx,
             pc' \in {"events", "accept", "log_accept", "request", "panic"}
      PROVE  ShutdownInv'
  BY <1>6 DEF ShutdownInv
<1>7. CASE FinishRequest
  BY <1>7 DEF FinishRequest, ShutdownInv
<1>8. CASE EventsDone
  BY <1>1, <1>2, <1>8 DEF EventsDone, ShutdownInv
<1>9. CASE RestartApp
  <2>1. /\ pc = "restart" /\ idx \in Apps /\ idx' = idx + 1 /\ pc' = pc
        /\ MaybeRestart(idx, ~Stopping) /\ UNCHANGED sigint_count
    BY <1>9 DEF RestartApp
  <2>2. PICK a \in Apps : a = idx
    BY <2>1
  <2>3. ASSUME Stopping PROVE \A b \in Apps : b < idx' => ~Pending(b)'
    <3>1. MaybeRestart(a, FALSE)
      <4>1. (~Stopping) = FALSE
        BY <2>3
      <4> QED
        BY <2>1, <2>2, <4>1
    <3>2. ~Pending(a)' /\ \A b \in Apps : ~Pending(b) => ~Pending(b)'
      BY <1>1, <3>1, StoppingCancels
    <3>3. \A b \in Apps : b < idx' => b < idx \/ b = a
      BY <1>1, <1>2, <2>1, <2>2
    <3> QED
      BY <2>1, <2>3, <3>2, <3>3 DEF ShutdownInv
  <2> QED
    BY <2>1, <2>3 DEF ShutdownInv, Stopping
<1>10. CASE RestartDone
  <2>1. /\ pc = "restart" /\ idx = NumApps + 1 /\ idx' = 1
        /\ pc' = (IF Stopping THEN "shutdown" ELSE "check")
        /\ UNCHANGED <<app, proc, sigint_count>>
    BY <1>10 DEF RestartDone, appVars
  <2>2. \A a \in Apps : Pending(a)' = Pending(a) /\ a < idx
    BY <1>1, <1>2, <2>1 DEF Pending
  <2>3. \A a \in Apps : ~(a < idx')
    BY <1>2, <2>1
  <2> QED
    BY <2>1, <2>2, <2>3 DEF ShutdownInv, Stopping
<1>11. CASE ShutdownApp
  <2>1. /\ pc = "shutdown" /\ idx \in Apps /\ idx' = idx + 1 /\ pc' = pc
        /\ AppStop(idx, sigint_count >= SIGINT_THRESHOLD)
        /\ UNCHANGED sigint_count
    BY <1>11 DEF ShutdownApp
  <2>2. \A a \in Apps : ~Pending(a) /\ (a < idx => Reached(a))
    BY <2>1 DEF ShutdownInv
  <2>3. PICK a \in Apps : a = idx
    BY <2>1
  <2>4. /\ Reached(a)'
        /\ \A b \in Apps : /\ Pending(b)' = Pending(b)
                           /\ b # a /\ Reached(b) => Reached(b)'
    BY <1>1, <2>1, <2>2, <2>3, StopReaches
  <2>5. \A b \in Apps : b < idx' => b < idx \/ b = a
    BY <1>1, <1>2, <2>1, <2>3
  <2> QED
    BY <2>1, <2>2, <2>4, <2>5 DEF ShutdownInv
<1>12. CASE ShutdownDone
  <2>1. /\ pc = "shutdown" /\ idx = NumApps + 1 /\ pc' = "check" /\ idx' = 1
        /\ UNCHANGED <<app, proc, sigint_count>>
    BY <1>12 DEF ShutdownDone, appVars
  <2>2. \A a \in Apps : Reached(a)
    BY <1>1, <1>2, <2>1 DEF ShutdownInv
  <2> QED
    BY <2>1, <2>2, ReachedUnchanged DEF ShutdownInv
<1>13. CASE Check
  <2>1. /\ pc = "check" /\ pc' \in {"exited", "panic", "poll"}
        /\ UNCHANGED <<app, proc, sigint_count, idx>>
    BY <1>13 DEF Check, appVars
  <2> QED
    BY <2>1, ReachedUnchanged DEF ShutdownInv, Stopping
<1>14. CASE MainEnvironment \/ LogEnvironment \/ UNCHANGED vars
  <2>1. UNCHANGED <<pc, idx, sigint_count>>
    BY <1>14 DEF MainEnvironment, LogEnvironment, Sigint, vars, loopVars
  <2>2. \/ UNCHANGED <<app, proc>>
        \/ ProcEffect /\ UNCHANGED app
        \/ \E a \in Apps : DelayElapses(a)
    BY <1>14
    DEF MainEnvironment, LogEnvironment, ProcEffect, ProcExit, ProcFork,
        ProcOutput, ClientStep, Sigint, vars, appVars
  <2>3. \A b \in Apps : /\ Pending(b)' = Pending(b)
                        /\ Reached(b) => Reached(b)'
    BY <1>1, <2>1, <2>2, ReachedUnchanged, ReachedMeanwhile
  <2> QED
    BY <2>1, <2>3 DEF ShutdownInv, Stopping
<1>15. CASE CreateApp
  BY <1>3, <1>15 DEF CreateApp
<1>16. CASE ServeRequest
  BY <1>5, <1>16 DEF ServeRequest
<1>17. CASE Poll \/ AcceptAll
            \/ \E e \in batch : HandleSignal(e) \/ HandleListener(e)
                                 \/ HandleConn(e) \/ HandleApp(e)
  BY <1>6, <1>17
  DEF Poll, AcceptAll, HandleSignal, HandleListener, HandleConn, HandleApp, Handling
<1>18. CASE LogStep
  BY <1>6, <1>18 DEF LogStep, LogAcceptAll, PushUpdates, HandleLog, Handling, loopVars
<1> QED
  BY <1>4, <1>7, <1>8, <1>9, <1>10, <1>11, <1>12, <1>13, <1>14, <1>15, <1>16,
     <1>17, <1>18
  DEF Next, Daemon, MainStep, Environment, Done

(* Once the daemon is stopping no iteration ends with an application that is
   still to be restarted or that was not signalled, whatever clients start in
   between, and the second SIGINT makes the signal SIGKILL (main.rs). *)
THEOREM ShutdownReachesAll == Spec => []ShutdownReachesEveryApp
<1>1. Init => ShutdownInv
  BY DEF Init, ShutdownInv
<1>2. IndInv /\ ShutdownInv /\ [Next]_vars => ShutdownInv'
  BY ShutdownStep
<1>3. ShutdownInv => ShutdownReachesEveryApp
  BY DEF ShutdownInv, ShutdownReachesEveryApp, Reached, Hit
<1> QED
  BY <1>1, <1>2, <1>3, SpecInd, PTL DEF Spec

-----------------------------------------------------------------------------
(* The refinement of AppLife *)

(* Nothing happens to an application before the daemon listens but that it is
   started. *)
LEMMA NothingYetStep ==
    ASSUME IndInv, NothingYet, [Next]_vars
    PROVE  NothingYet'
<1>1. app \in [Apps -> AppRecord] /\ vacant \in Seq(Tokens)
  BY DEF IndInv, CoreInv, AppInv, AppTypeOK, SlabTypeOK
<1>2. SUFFICES ASSUME pc = "create", pc' = "create", NEW b \in Apps
               PROVE  app'[b].consecutive_failures = 0 /\ ~Pending(b)'
  BY DEF NothingYet, Next, Daemon, MainStep, LogStep, CreateApp, Bind, Poll,
         AcceptAll, HandleSignal, HandleListener, HandleConn, HandleApp,
         Handling, ServeRequest, FinishRequest, EventsDone, RestartApp,
         RestartDone, ShutdownApp, ShutdownDone, Check, LogAcceptAll,
         PushUpdates, HandleLog, Environment, MainEnvironment, Sigint,
         LogEnvironment, Done, vars, loopVars
<1>3. app[b].consecutive_failures = 0 /\ ~Pending(b)
  BY <1>2 DEF NothingYet
<1>4. CASE CreateApp
  <2>1. idx \in Apps
    BY <1>4 DEF CreateApp
  <2>2. CASE RuntimeStart(idx, app[idx])
    <3>1. PICK p \in FreePids : app' = [app EXCEPT ![idx] = Launched(app[idx], p)]
      BY <2>2 DEF RuntimeStart
    <3>2. /\ Launched(app[idx], p).restart_deadline = "none"
          /\ Launched(app[idx], p).consecutive_failures
                = app[idx].consecutive_failures
      BY <1>1, <2>1 DEF Launched, AppRecord
    <3> QED
      BY <1>1, <1>3, <2>1, <3>1, <3>2 DEF Pending
  <2>3. CASE RuntimeFails(idx, app[idx])
    BY <1>1, <1>3, <2>1, <2>3 DEF RuntimeFails, Pending
  <2> QED
    BY <1>3, <1>4, <2>2, <2>3 DEF CreateApp, AppCreate, AppCreateFails, Pending
<1>5. CASE MainEnvironment
  <2>1. ASSUME NEW a \in Apps, DelayElapses(a) PROVE FALSE
    BY <1>2, <2>1 DEF DelayElapses, NothingYet, Pending
  <2>2. UNCHANGED app
    BY <1>5, <2>1
    DEF MainEnvironment, ProcExit, ProcFork, ProcOutput, ClientStep, Sigint
  <2> QED
    BY <1>3, <2>2 DEF Pending
<1>6. CASE UNCHANGED vars
  BY <1>3, <1>6 DEF vars, appVars, Pending
<1> QED
  BY <1>2, <1>4, <1>5, <1>6
  DEF Next, Daemon, MainStep, LogStep, Bind, Poll, AcceptAll, HandleSignal,
      HandleListener, HandleConn, HandleApp, Handling, ServeRequest,
      FinishRequest, EventsDone, RestartApp, RestartDone, ShutdownApp,
      ShutdownDone, Check, LogAcceptAll, PushUpdates, HandleLog, Environment,
      LogEnvironment, Done

(* What a user sees of the records that runtime.rs makes. *)
SeenOf(r) ==
    [st       |-> IF r.state = "running" THEN "running"
                  ELSE IF r.restart_deadline # "none" THEN "waiting"
                  ELSE "stopped",
     asked    |-> r.stop_requested,
     failures |-> r.consecutive_failures]

(* A record as a user sees it. *)
Seen == [st : {"stopped", "waiting", "running"}, asked : BOOLEAN, failures : Nat]

(* Seen records are the same when their fields are. *)
LEMMA SeenEqual ==
    ASSUME NEW x \in Seen, NEW y \in Seen, x.st = y.st, x.asked = y.asked,
           x.failures = y.failures
    PROVE  x = y
BY DEF Seen

(* Seen records, field by field. *)
LEMMA SeenFields ==
    ASSUME NEW f \in Seen, NEW s \in {"stopped", "waiting", "running"}
    PROVE  /\ [f EXCEPT !.st = s] =
                [st |-> s, asked |-> f.asked, failures |-> f.failures]
           /\ [f EXCEPT !.asked = TRUE, !.st = s] =
                [st |-> s, asked |-> TRUE, failures |-> f.failures]
<1>1. /\ [f EXCEPT !.st = s] \in Seen
      /\ [st |-> s, asked |-> f.asked, failures |-> f.failures] \in Seen
  BY DEF Seen
<1>2. /\ [f EXCEPT !.asked = TRUE, !.st = s] \in Seen
      /\ [st |-> s, asked |-> TRUE, failures |-> f.failures] \in Seen
  BY DEF Seen
<1>4. [f EXCEPT !.st = s] =
         [st |-> s, asked |-> f.asked, failures |-> f.failures]
  <2>1. /\ [f EXCEPT !.st = s].st = s /\ [f EXCEPT !.st = s].asked = f.asked
        /\ [f EXCEPT !.st = s].failures = f.failures
    BY DEF Seen
  <2> QED
    BY <1>1, <2>1, SeenEqual
<1>5. [f EXCEPT !.asked = TRUE, !.st = s] =
         [st |-> s, asked |-> TRUE, failures |-> f.failures]
  <2>1. /\ [f EXCEPT !.asked = TRUE, !.st = s].st = s
        /\ [f EXCEPT !.asked = TRUE, !.st = s].asked = TRUE
        /\ [f EXCEPT !.asked = TRUE, !.st = s].failures = f.failures
    BY DEF Seen
  <2> QED
    BY <1>2, <2>1, SeenEqual
<1> QED
  BY <1>4, <1>5

(* The same where the failures are counted. *)
LEMMA SeenCounted ==
    ASSUME NEW f \in Seen, NEW s \in {"stopped", "waiting", "running"}, NEW n \in Nat
    PROVE  [f EXCEPT !.failures = n, !.st = s] =
              [st |-> s, asked |-> f.asked, failures |-> n]
<1>1. /\ [f EXCEPT !.failures = n, !.st = s] \in Seen
      /\ [st |-> s, asked |-> f.asked, failures |-> n] \in Seen
  BY DEF Seen
<1>2. /\ [f EXCEPT !.failures = n, !.st = s].st = s
      /\ [f EXCEPT !.failures = n, !.st = s].asked = f.asked
      /\ [f EXCEPT !.failures = n, !.st = s].failures = n
  BY DEF Seen
<1> QED
  BY <1>1, <1>2, SeenEqual

(* The life of an application that is started. *)
LEMMA FreshRunning ==
    [Life!Fresh EXCEPT !.st = "running"]
       = [st |-> "running", asked |-> FALSE, failures |-> 0]
<1>1. /\ Life!Fresh \in Seen
      /\ Life!Fresh.asked = FALSE /\ Life!Fresh.failures = 0
  BY DEF Life!Fresh, Seen
<1> QED
  BY <1>1, SeenFields

(* One application changes as AppLife allows and the others do not: that is a
   step of AppLife. *)
LEMMA LifeOfOne ==
    ASSUME UNCHANGED params, Stopping' = Stopping, NEW a \in Apps, NEW r,
           app \in [Apps -> AppRecord], app' = [app EXCEPT ![a] = r],
           \/ SeenOf(r) = SeenLife(a)
           \/ /\ SeenLife(a).st # "running"
              /\ SeenOf(r) = [st |-> "running", asked |-> FALSE, failures |-> 0]
           \/ /\ SeenLife(a).st # "stopped"
              /\ SeenOf(r) = [SeenLife(a) EXCEPT !.asked = TRUE,
                                !.st = IF @ = "waiting" THEN "stopped" ELSE @]
           \/ /\ SeenLife(a).st = "waiting"
              /\ \E st \in {"running", "stopped"} :
                    SeenOf(r) = [SeenLife(a) EXCEPT !.st = st]
           \/ \E ok, long \in BOOLEAN :
                 LET fails == NextFailures(SeenLife(a).failures, ok, long) IN
                 /\ SeenLife(a).st = "running"
                 /\ SeenOf(r) =
                      IF SeenLife(a).asked \/ params[a].oneshot \/ Stopping
                      THEN [SeenLife(a) EXCEPT !.st = "stopped"]
                      ELSE [SeenLife(a) EXCEPT
                              !.failures = fails,
                              !.st = IF Restarts(params[a].restart, ok, fails)
                                     THEN "waiting" ELSE "stopped"]
    PROVE  [Life!LifeNext]_(Life!lifeVars)
<1> DEFINE life == [b \in Apps |-> SeenLife(b)]
<1>1. SeenLife(a)' = SeenOf(r) /\ \A b \in Apps \ {a} : SeenLife(b)' = SeenLife(b)
  BY DEF SeenLife, SeenOf, Running, Pending
<1>2. life' = [life EXCEPT ![a] = SeenOf(r)] /\ life[a] = SeenLife(a)
  BY <1>1
<1>3. CASE SeenOf(r) = SeenLife(a)
  <2>1. life' = life
    BY <1>2, <1>3
  <2> QED
    BY <2>1 DEF Life!lifeVars
<1>4. CASE /\ SeenLife(a).st # "running"
           /\ SeenOf(r) = [st |-> "running", asked |-> FALSE, failures |-> 0]
  <2>1. [Life!Fresh EXCEPT !.st = "running"]
           = [st |-> "running", asked |-> FALSE, failures |-> 0]
    BY FreshRunning
  <2>2. Life!Start(a)
    BY <1>2, <1>4, <2>1 DEF Life!Start, Life!Becomes
  <2> QED
    BY <2>2 DEF Life!LifeNext
<1>5. CASE /\ SeenLife(a).st # "stopped"
           /\ SeenOf(r) = [SeenLife(a) EXCEPT !.asked = TRUE,
                             !.st = IF @ = "waiting" THEN "stopped" ELSE @]
  <2>1. Life!Stop(a)
    BY <1>2, <1>5 DEF Life!Stop, Life!Becomes
  <2> QED
    BY <2>1 DEF Life!LifeNext
<1>6. CASE /\ SeenLife(a).st = "waiting"
           /\ \E st \in {"running", "stopped"} :
                 SeenOf(r) = [SeenLife(a) EXCEPT !.st = st]
  <2>1. Life!Retry(a)
    BY <1>2, <1>6 DEF Life!Retry, Life!Becomes
  <2> QED
    BY <2>1 DEF Life!LifeNext
<1>7. ASSUME NEW ok \in BOOLEAN, NEW long \in BOOLEAN, SeenLife(a).st = "running",
             LET fails == NextFailures(SeenLife(a).failures, ok, long) IN
             SeenOf(r) = IF SeenLife(a).asked \/ params[a].oneshot \/ Stopping
                         THEN [SeenLife(a) EXCEPT !.st = "stopped"]
                         ELSE [SeenLife(a) EXCEPT
                                 !.failures = fails,
                                 !.st = IF Restarts(params[a].restart, ok, fails)
                                        THEN "waiting" ELSE "stopped"]
      PROVE  [Life!LifeNext]_(Life!lifeVars)
  <2>1. Life!Finish(a, ok, long)
    BY <1>2, <1>7 DEF Life!Finish, Life!Becomes, Life!NextFailures,
       Life!Restarts, NextFailures, Restarts, GivesUp, Strategy, Life!GivesUp,
       Life!Strategy, NoMax, Life!NoMax
  <2> QED
    BY <2>1 DEF Life!LifeNext
<1> QED
  BY <1>3, <1>4, <1>5, <1>6, <1>7

(* A record as its user sees it, field by field. *)
LEMMA SeenOfFacts ==
    ASSUME NEW r \in AppRecord
    PROVE  /\ SeenOf(r) \in Seen
           /\ SeenOf(r).asked = r.stop_requested
           /\ SeenOf(r).failures = r.consecutive_failures
           /\ r.state = "running" => SeenOf(r).st = "running"
           /\ r.state # "running" /\ r.restart_deadline # "none"
                 => SeenOf(r).st = "waiting"
           /\ r.state # "running" /\ r.restart_deadline = "none"
                 => SeenOf(r).st = "stopped"
<1>1. /\ r.stop_requested \in BOOLEAN /\ r.consecutive_failures \in Nat
  BY DEF AppRecord
<1> QED
  BY <1>1 DEF SeenOf, Seen

(* SeenLife is what is seen of the application's record. *)
LEMMA SeenLifeIs ==
    ASSUME NEW a \in Apps
    PROVE  SeenLife(a) = SeenOf(app[a])
BY DEF SeenLife, SeenOf, Running, Pending

(* What is seen of a record that is started. *)
LEMMA SeenLaunched ==
    ASSUME NEW r \in AppRecord, NEW p \in Pids, vacant \in Seq(Tokens),
           Len(vacant) >= 3
    PROVE  SeenOf(Launched(r, p)) = [st |-> "running", asked |-> r.stop_requested,
                                     failures |-> r.consecutive_failures]
<1>1. Launched(r, p).consecutive_failures = r.consecutive_failures
  BY DEF Launched, AppRecord
<1> QED
  BY <1>1, LaunchedFacts DEF SeenOf

(* What is seen of a record that is stopped. *)
LEMMA SeenStopped ==
    ASSUME NEW r \in AppRecord
    PROVE  SeenOf(Stopped(r)) = [st |-> "stopped", asked |-> r.stop_requested,
                                 failures |-> r.consecutive_failures]
BY StoppedFacts DEF SeenOf

(* App::start, of an application that does not run, is Start. *)
LEMMA StartIsStart ==
    ASSUME IndInv, UNCHANGED params, Stopping' = Stopping, NEW a \in Apps,
           NEW r \in AppRecord, RuntimeStart(a, r),
           ~r.stop_requested, r.consecutive_failures = 0,
           Running(a) => ~app[a].stop_requested /\ app[a].consecutive_failures = 0
    PROVE  [Life!LifeNext]_(Life!lifeVars)
<1>1. app \in [Apps -> AppRecord] /\ vacant \in Seq(Tokens)
  BY DEF IndInv, CoreInv, AppInv, AppTypeOK, SlabTypeOK
<1>2. PICK p \in Pids : app' = [app EXCEPT ![a] = Launched(r, p)]
  BY DEF RuntimeStart, FreePids
<1>3. Len(vacant) >= 3
  BY DEF RuntimeStart
<1>4. r.stop_requested = FALSE /\ (Running(a) => app[a].stop_requested = FALSE)
  BY <1>1 DEF AppRecord
<1>5. SeenOf(Launched(r, p)) = [st |-> "running", asked |-> FALSE, failures |-> 0]
  BY <1>1, <1>3, <1>4, SeenLaunched
<1>6. CASE Running(a)
  <2>1. SeenLife(a) = [st |-> "running", asked |-> FALSE, failures |-> 0]
    BY <1>4, <1>6 DEF SeenLife
  <2> QED
    BY <1>1, <1>2, <1>5, <2>1, LifeOfOne
<1>7. CASE ~Running(a)
  <2>1. SeenLife(a).st # "running"
    BY <1>7 DEF SeenLife
  <2> QED
    BY <1>1, <1>2, <1>5, <2>1, LifeOfOne
<1> QED
  BY <1>6, <1>7

(* A pending restart that happens, fails or is cancelled is Retry. *)
LEMMA RetryIsRetry ==
    ASSUME IndInv, UNCHANGED params, Stopping' = Stopping, NEW a \in Apps,
           Pending(a),
           \/ RuntimeStart(a, app[a])
           \/ app' = [app EXCEPT ![a] = Stopped(app[a])]
    PROVE  [Life!LifeNext]_(Life!lifeVars)
<1>1. app \in [Apps -> AppRecord] /\ vacant \in Seq(Tokens)
  BY DEF IndInv, CoreInv, AppInv, AppTypeOK, SlabTypeOK
<1>2. ~Running(a)
  BY DEF IndInv, CoreInv, AppInv, RestartJustified
<1>3. /\ SeenLife(a) \in Seen /\ SeenLife(a).st = "waiting"
      /\ SeenLife(a).asked = app[a].stop_requested
      /\ SeenLife(a).failures = app[a].consecutive_failures
  BY <1>1, <1>2, SeenLifeIs, SeenOfFacts DEF Running, Pending
<1>4. ASSUME NEW st \in {"running", "stopped"}
      PROVE  [SeenLife(a) EXCEPT !.st = st] =
                [st |-> st, asked |-> app[a].stop_requested,
                 failures |-> app[a].consecutive_failures]
  BY <1>3, SeenFields
<1>5. CASE RuntimeStart(a, app[a])
  <2>1. PICK p \in Pids : app' = [app EXCEPT ![a] = Launched(app[a], p)]
    BY <1>5 DEF RuntimeStart, FreePids
  <2>2. SeenOf(Launched(app[a], p)) = [SeenLife(a) EXCEPT !.st = "running"]
    BY <1>1, <1>4, <1>5, SeenLaunched DEF RuntimeStart
  <2> QED
    BY <1>1, <1>3, <2>1, <2>2, LifeOfOne
<1>6. CASE app' = [app EXCEPT ![a] = Stopped(app[a])]
  <2>1. SeenOf(Stopped(app[a])) = [SeenLife(a) EXCEPT !.st = "stopped"]
    BY <1>1, <1>4, SeenStopped
  <2> QED
    BY <1>1, <1>3, <1>6, <2>1, LifeOfOne
<1> QED
  BY <1>5, <1>6

(* App::stop is Stop, or changes nothing. *)
LEMMA StopIsStop ==
    ASSUME IndInv, UNCHANGED params, Stopping' = Stopping, NEW a \in Apps,
           NEW force \in BOOLEAN, AppStop(a, force)
    PROVE  [Life!LifeNext]_(Life!lifeVars)
<1>1. app \in [Apps -> AppRecord]
  BY DEF IndInv, CoreInv, AppInv, AppTypeOK
<1>2. /\ SeenLife(a) \in Seen
      /\ SeenLife(a).failures = app[a].consecutive_failures
  BY <1>1, SeenLifeIs, SeenOfFacts
<1>3. CASE Running(a)
  <2>1. app' = [app EXCEPT ![a] = AskedToStop(app[a])]
    BY <1>1, <1>3 DEF AppStop, AskedToStop
  <2>2. SeenLife(a).st = "running"
    BY <1>3 DEF SeenLife
  <2>3. [SeenLife(a) EXCEPT !.asked = TRUE,
                            !.st = IF @ = "waiting" THEN "stopped" ELSE @]
           = [SeenLife(a) EXCEPT !.asked = TRUE, !.st = "running"]
    BY <2>2
  <2>4. SeenOf(AskedToStop(app[a])) =
           [st |-> "running", asked |-> TRUE, failures |-> app[a].consecutive_failures]
    BY <1>1, <1>3 DEF AskedToStop, AppRecord, SeenOf, Running
  <2>5. SeenOf(AskedToStop(app[a])) =
           [SeenLife(a) EXCEPT !.asked = TRUE, !.st = "running"]
    BY <1>2, <2>4, SeenFields
  <2> QED
    BY <1>1, <2>1, <2>2, <2>3, <2>5, LifeOfOne
<1>4. CASE ~Running(a) /\ Pending(a)
  <2>1. app' = [app EXCEPT ![a] = Cancelled(app[a])]
    BY <1>1, <1>4 DEF AppStop, Cancelled
  <2>2. SeenLife(a).st = "waiting"
    BY <1>4 DEF SeenLife
  <2>3. [SeenLife(a) EXCEPT !.asked = TRUE,
                            !.st = IF @ = "waiting" THEN "stopped" ELSE @]
           = [SeenLife(a) EXCEPT !.asked = TRUE, !.st = "stopped"]
    BY <2>2
  <2>4. SeenOf(Cancelled(app[a])) =
           [st |-> "stopped", asked |-> TRUE, failures |-> app[a].consecutive_failures]
    BY <1>1, <1>4 DEF Cancelled, AppRecord, SeenOf, Running
  <2>5. SeenOf(Cancelled(app[a])) =
           [SeenLife(a) EXCEPT !.asked = TRUE, !.st = "stopped"]
    BY <1>2, <2>4, SeenFields
  <2> QED
    BY <1>1, <2>1, <2>2, <2>3, <2>5, LifeOfOne
<1>5. CASE UNCHANGED app
  <2>1. app' = [app EXCEPT ![a] = app[a]]
    BY <1>1, <1>5
  <2> QED
    BY <1>1, <2>1, SeenLifeIs, LifeOfOne
<1> QED
  BY <1>3, <1>4, <1>5 DEF AppStop

(* What is seen of a record whose restart is scheduled, or given up. *)
LEMMA SeenScheduled ==
    ASSUME NEW a \in Apps, app \in [Apps -> AppRecord],
           NEW ok \in BOOLEAN, NEW long \in BOOLEAN
    PROVE  LET fails == NextFailures(app[a].consecutive_failures, ok, long) IN
           SeenOf(Scheduled(a, ok, long)) =
              [st       |-> IF Restarts(params[a].restart, ok, fails)
                            THEN "waiting" ELSE "stopped",
               asked    |-> app[a].stop_requested,
               failures |-> fails]
<1> DEFINE fails == NextFailures(app[a].consecutive_failures, ok, long)
           next  == IF Restarts(params[a].restart, ok, fails)
                    THEN "waiting" ELSE "none"
<1>1. app[a].consecutive_failures \in Nat
  BY DEF AppRecord
<1>2. fails \in Nat
  BY <1>1 DEF NextFailures
<1>3. next \in {"waiting", "none"}
  OBVIOUS
<1>4. Scheduled(a, ok, long) = Rescheduled(Stopped(app[a]), fails, next)
  BY Zenon DEF Scheduled, Rescheduled
<1>6. /\ Scheduled(a, ok, long).state = "stopped"
      /\ Scheduled(a, ok, long).restart_deadline = next
      /\ Scheduled(a, ok, long).consecutive_failures = fails
      /\ Scheduled(a, ok, long).stop_requested = app[a].stop_requested
  <2> HIDE DEF fails, next
  <2> QED
    BY <1>2, <1>3, <1>4, StoppedFacts, RescheduledFacts
<1>7. SeenOf(Scheduled(a, ok, long)) =
         [st |-> IF next # "none" THEN "waiting" ELSE "stopped",
          asked |-> app[a].stop_requested, failures |-> fails]
  <2> HIDE DEF fails, next
  <2> QED
    BY <1>6 DEF SeenOf
<1>8. (IF next # "none" THEN "waiting" ELSE "stopped")
         = IF Restarts(params[a].restart, ok, fails) THEN "waiting" ELSE "stopped"
  OBVIOUS
<1> HIDE DEF next
<1> QED
  BY <1>7, <1>8

(* poll_pid, when it reaps the child, is Finish. *)
LEMMA ReapIsFinish ==
    ASSUME IndInv, UNCHANGED params, Stopping' = Stopping, NEW a \in Apps,
           Running(a), Reap(a, ~Stopping)
    PROVE  [Life!LifeNext]_(Life!lifeVars)
<1> DEFINE ok == proc[app[a].pid].ret = "ok"
           fails(long) == NextFailures(SeenLife(a).failures, ok, long)
<1>1. app \in [Apps -> AppRecord]
  BY DEF IndInv, CoreInv, AppInv, AppTypeOK
<1>2. /\ SeenLife(a) \in Seen /\ SeenLife(a).st = "running"
      /\ SeenLife(a).asked = app[a].stop_requested
      /\ SeenLife(a).failures = app[a].consecutive_failures
      /\ SeenLife(a).failures \in Nat
  BY <1>1, SeenLifeIs, SeenOfFacts DEF Running, Seen
<1>3. PICK long \in BOOLEAN :
         app' = [app EXCEPT ![a] = IF MayRestart(a, ~Stopping)
                                   THEN Scheduled(a, ok, long)
                                   ELSE Stopped(@)]
  BY DEF Reap
<1>4. ok \in BOOLEAN /\ fails(long) \in Nat
  BY <1>2 DEF NextFailures
<1>5. CASE MayRestart(a, ~Stopping)
  <2>1. ~(SeenLife(a).asked \/ params[a].oneshot \/ Stopping)
    BY <1>2, <1>5 DEF MayRestart
  <2>2. app' = [app EXCEPT ![a] = Scheduled(a, ok, long)]
    BY <1>3, <1>5
  <2>3. SeenOf(Scheduled(a, ok, long)) =
           [st |-> IF Restarts(params[a].restart, ok, fails(long))
                   THEN "waiting" ELSE "stopped",
            asked |-> SeenLife(a).asked, failures |-> fails(long)]
    BY <1>1, <1>2, <1>4, SeenScheduled
  <2>4. SeenOf(Scheduled(a, ok, long)) =
           [SeenLife(a) EXCEPT
              !.failures = fails(long),
              !.st = IF Restarts(params[a].restart, ok, fails(long))
                     THEN "waiting" ELSE "stopped"]
    <3> HIDE DEF fails, ok
    <3> QED
      BY <1>2, <1>4, <2>3, SeenCounted
  <2>5. SeenOf(Scheduled(a, ok, long)) =
           IF SeenLife(a).asked \/ params[a].oneshot \/ Stopping
           THEN [SeenLife(a) EXCEPT !.st = "stopped"]
           ELSE [SeenLife(a) EXCEPT
                   !.failures = fails(long),
                   !.st = IF Restarts(params[a].restart, ok, fails(long))
                          THEN "waiting" ELSE "stopped"]
    BY <2>1, <2>4
  <2> HIDE DEF ok
  <2> QED
    BY <1>1, <1>2, <1>4, <2>2, <2>5, LifeOfOne
<1>6. CASE ~MayRestart(a, ~Stopping)
  <2>1. SeenLife(a).asked \/ params[a].oneshot \/ Stopping
    BY <1>2, <1>6 DEF MayRestart
  <2>2. app' = [app EXCEPT ![a] = Stopped(app[a])]
    BY <1>1, <1>3, <1>6
  <2>3. SeenOf(Stopped(app[a])) = [SeenLife(a) EXCEPT !.st = "stopped"]
    <3>1. [SeenLife(a) EXCEPT !.st = "stopped"] =
             [st |-> "stopped", asked |-> SeenLife(a).asked,
              failures |-> SeenLife(a).failures]
      BY <1>2, SeenFields
    <3> QED
      BY <1>1, <1>2, <3>1, SeenStopped
  <2>4. SeenOf(Stopped(app[a])) =
           IF SeenLife(a).asked \/ params[a].oneshot \/ Stopping
           THEN [SeenLife(a) EXCEPT !.st = "stopped"]
           ELSE [SeenLife(a) EXCEPT
                   !.failures = fails(long),
                   !.st = IF Restarts(params[a].restart, ok, fails(long))
                          THEN "waiting" ELSE "stopped"]
    BY <2>1, <2>3
  <2> HIDE DEF ok
  <2> QED
    BY <1>1, <1>2, <1>4, <2>2, <2>4, LifeOfOne
<1> QED
  BY <1>5, <1>6

(* Whatever a step does to one application, AppLife allows. *)
LEMMA EffectIsLife ==
    ASSUME IndInv, NothingYet, UNCHANGED params, Stopping' = Stopping,
           NEW a \in Apps, AppEffect(a)
    PROVE  [Life!LifeNext]_(Life!lifeVars)
<1>1. app \in [Apps -> AppRecord]
  BY DEF IndInv, CoreInv, AppInv, AppTypeOK
<1>2. CASE pc = "create" /\ RuntimeStart(a, app[a])
  <2>1. ~app[a].stop_requested /\ app[a].consecutive_failures = 0
    BY <1>2 DEF NothingYet, IndInv, CoreInv, LoopInv, CreatedFresh
  <2> QED
    BY <1>1, <1>2, <2>1, StartIsStart
<1>3. CASE ~Running(a) /\ RuntimeStart(a, Anew(app[a]))
  <2>1. /\ Anew(app[a]) \in AppRecord /\ ~Anew(app[a]).stop_requested
        /\ Anew(app[a]).consecutive_failures = 0
    BY <1>1 DEF Anew, AppRecord
  <2> QED
    BY <1>3, <2>1, StartIsStart
<1>4. CASE Pending(a) /\ RuntimeStart(a, app[a])
  BY <1>4, RetryIsRetry
<1>5. CASE Pending(a) /\ app' = [app EXCEPT ![a] = Stopped(app[a])]
  BY <1>5, RetryIsRetry
<1>6. CASE app' = app
  <2>1. app' = [app EXCEPT ![a] = app[a]]
    BY <1>1, <1>6
  <2> QED
    BY <1>1, <2>1, SeenLifeIs, LifeOfOne
<1>7. CASE \E force \in BOOLEAN : AppStop(a, force)
  BY <1>7, StopIsStop
<1>8. CASE Running(a) /\ Reap(a, ~Stopping)
  BY <1>8, ReapIsFinish
<1>9. CASE DelayElapses(a)
  <2> DEFINE r == [app[a] EXCEPT !.restart_deadline = "due"]
  <2>1. app' = [app EXCEPT ![a] = r] /\ app[a].restart_deadline = "waiting"
    BY <1>1, <1>9 DEF DelayElapses
  <2>2. /\ r.state = app[a].state /\ r.restart_deadline = "due"
        /\ r.stop_requested = app[a].stop_requested
        /\ r.consecutive_failures = app[a].consecutive_failures
    BY <1>1 DEF AppRecord
  <2> HIDE DEF r
  <2>3. SeenOf(r) = SeenLife(a)
    BY <2>1, <2>2 DEF SeenOf, SeenLife, Running, Pending
  <2> QED
    BY <1>1, <2>1, <2>3, LifeOfOne
<1>10. CASE RuntimeFails(a, app[a])
  <2>1. app' = app
    BY <1>1, <1>10 DEF RuntimeFails
  <2> QED
    BY <1>6, <2>1
<1>11. CASE Pending(a) /\ RuntimeFails(a, Stopped(app[a]))
  BY <1>5, <1>11 DEF RuntimeFails
<1> QED
  BY <1>1, <1>2, <1>3, <1>4, <1>5, <1>7, <1>8, <1>9, <1>10, <1>11
  DEF AppEffect

(* Every step of the daemon and of its environment is a step of AppLife, or
   changes nothing that a user sees; the first SIGINT that is read is Close. *)
LEMMA LifeStep ==
    ASSUME IndInv, NothingYet, [Next]_vars
    PROVE  [Life!LifeNext]_(Life!lifeVars)
<1>1. UNCHANGED params
  BY StepEffects
<1>2. ASSUME UNCHANGED app, Stopping' = Stopping
      PROVE  [Life!LifeNext]_(Life!lifeVars)
  <2>1. \A b \in Apps : SeenLife(b)' = SeenLife(b)
    BY <1>2 DEF SeenLife, Running, Pending
  <2>2. [b \in Apps |-> SeenLife(b)]' = [b \in Apps |-> SeenLife(b)]
    BY <2>1
  <2> QED
    BY <1>1, <1>2, <2>2 DEF Life!lifeVars
<1>3. ASSUME UNCHANGED app, Stopping' # Stopping
      PROVE  [Life!LifeNext]_(Life!lifeVars)
  <2>1. sigint_count' = sigint_count + 1 /\ sigint_count \in Nat
    BY <1>3, StepEffects DEF Stopping, IndInv, CoreInv, LoopInv, LoopTypeOK
  <2>2. Stopping = FALSE /\ Stopping' = TRUE
    BY <1>3, <2>1 DEF Stopping
  <2>3. \A b \in Apps : SeenLife(b)' = SeenLife(b)
    BY <1>3 DEF SeenLife, Running, Pending
  <2>4. [b \in Apps |-> SeenLife(b)]' = [b \in Apps |-> SeenLife(b)]
    BY <2>3
  <2>5. Life!Close
    BY <2>2, <2>4 DEF Life!Close
  <2> QED
    BY <1>1, <2>5 DEF Life!LifeNext
<1>4. ASSUME NEW a \in Apps, AppEffect(a), UNCHANGED sigint_count
      PROVE  [Life!LifeNext]_(Life!lifeVars)
  <2>1. Stopping' = Stopping
    BY <1>4 DEF Stopping
  <2> QED
    BY <1>1, <1>4, <2>1, EffectIsLife
<1> QED
  BY <1>2, <1>3, <1>4, StepEffects DEF ProcEffect

(* To its user the daemon is AppLife: whatever happens to processes, tokens,
   connections and signals, each application starts, stops, fails, waits and is
   retried as that specification says (runtime.rs, main.rs). *)
THEOREM DaemonImplementsAppLife == Spec => ImplementsAppLife
<1>1. Init => NothingYet
  BY DEF Init, AppInit, NothingYet, NewApp, Pending
<1>2. IndInv /\ NothingYet /\ [Next]_vars => NothingYet'
  BY NothingYetStep
<1>3. Init => Life!LifeInit
  BY DEF Init, AppInit, Life!LifeInit, Life!Fresh, NewApp, SeenLife, Running,
         Pending, Stopping
<1>4. IndInv /\ NothingYet /\ [Next]_vars => [Life!LifeNext]_(Life!lifeVars)
  BY LifeStep
<1> QED
  BY <1>1, <1>2, <1>3, <1>4, SpecInd, PTL DEF Spec, ImplementsAppLife, Life!LifeSpec

-----------------------------------------------------------------------------
(* The daemon does not abort *)

(* The system calls that startup, the reaping of a child and the end rely on. *)
CallsSucceed == Faults \cap {"fork", "register", "kill", "timeout"} = {}

(* No cgroup outlives its application's run. *)
CgroupsOfRunning == \A a \in cgroup : Running(a)

(* While an application is not running the system has room for its process. *)
SpawnPossible == (\E a \in Apps : ~Running(a)) => FreePids # {}

(* Then no start fails: there are tokens, and a process can be made. *)
LEMMA StartsSucceed ==
    ASSUME CallsSucceed, EnoughTokens, IndInv, CountInv, SpawnPossible,
           NEW a \in Apps, ~Running(a), NEW r
    PROVE  ~RuntimeFails(a, r)
<1>1. Len(vacant) >= 3 /\ vacant \in Seq(Tokens)
  BY TokensSpare DEF IndInv, CoreInv, SlabTypeOK
<1>2. \A n \in 0..3 : ~(n = Len(vacant) /\ n < 3)
  BY <1>1
<1> QED
  BY <1>2 DEF RuntimeFails, CallsSucceed, SpawnPossible

(* cgroup.kill leaves nobody alive when it succeeds in time. *)
LEMMA KilledAll ==
    ASSUME CallsSucceed, NEW p \in ProcRecord, NEW fate \in KillFates
    PROVE  CgroupKilled(p, fate).st \notin Alive
<1>1. fate = "dead"
  BY DEF CallsSucceed, KillFates
<1>2. FreeProc.st \notin Alive
      /\ [p EXCEPT !.st = "zombie", !.ret = "err"].st \notin Alive
  BY DEF FreeProc, Alive, ProcRecord
<1>3. p.st \in Alive => CgroupKilled(p, fate) \in
         {FreeProc, [p EXCEPT !.st = "zombie", !.ret = "err"]}
  BY <1>1, Zenon DEF CgroupKilled
<1>4. p.st \notin Alive => CgroupKilled(p, fate) = p
  BY Zenon DEF CgroupKilled
<1> QED
  BY <1>2, <1>3, <1>4

(* So a child's cgroup is removed when the child is reaped. *)
LEMMA ReapRemovesCgroup ==
    ASSUME CallsSucceed, AppInv, NEW a \in Apps, NEW try_restart, Reap(a, try_restart)
    PROVE  cgroup' = cgroup \ {a}
<1> DEFINE left == [proc EXCEPT ![app[a].pid] = FreeProc]
<1>1. left \in [Pids -> ProcRecord]
  BY FreeProcType DEF AppInv, AppTypeOK
<1>2. PICK fate \in KillFates :
         proc' = [p \in Pids |-> IF left[p].app = a
                                 THEN CgroupKilled(left[p], fate) ELSE left[p]]
  BY DEF Reap
<1>3. cgroup' = IF \E p \in Pids : proc'[p].app = a /\ proc'[p].st \in Alive
                THEN cgroup ELSE cgroup \ {a}
  BY DEF Reap
<1> HIDE DEF left
<1>4. \A p \in Pids : proc'[p].app = a => proc'[p].st \notin Alive
  BY <1>1, <1>2, KilledAll
<1> QED
  BY <1>3, <1>4

(* A step removes the cgroup of every application that stops, and starts none
   without running it. *)
LEMMA CgroupsStep ==
    ASSUME CallsSucceed, EnoughTokens, IndInv, CountInv, SpawnPossible,
           CgroupsOfRunning, [Next]_vars
    PROVE  CgroupsOfRunning'
<1>1. AppInv /\ app \in [Apps -> AppRecord] /\ cgroup \subseteq Apps
  BY DEF IndInv, CoreInv, AppInv, AppTypeOK
<1>2. CASE UNCHANGED <<app, cgroup>>
  BY <1>2 DEF CgroupsOfRunning, Running
<1>3. ASSUME NEW a \in Apps, AppEffect(a) PROVE CgroupsOfRunning'
  <2>1. ASSUME NEW r \in AppRecord, RuntimeStart(a, r) PROVE CgroupsOfRunning'
    <3>1. PICK p \in FreePids : app' = [app EXCEPT ![a] = Launched(r, p)]
      BY <2>1 DEF RuntimeStart
    <3>2. Launched(r, p).state = "running"
      BY <2>1 DEF Launched, AppRecord
    <3>3. cgroup' = cgroup \cup {a}
      BY <2>1 DEF RuntimeStart
    <3> QED
      BY <1>1, <3>1, <3>2, <3>3 DEF CgroupsOfRunning, Running
  <2>2. app[a] \in AppRecord /\ Anew(app[a]) \in AppRecord
    BY <1>1 DEF Anew, AppRecord
  <2>3. pc = "create" /\ a = idx => ~Running(a)
    BY DEF CountInv, NotCreated, Apps
  <2>4. ASSUME Pending(a) PROVE ~Running(a) /\ a \notin cgroup
    BY <1>1, <2>4 DEF AppInv, RestartJustified, CgroupsOfRunning
  <2>5. ASSUME ~Running(a), NEW r PROVE ~RuntimeFails(a, r)
    BY <2>5, StartsSucceed
  <2>6. ASSUME a \notin cgroup', cgroup' \subseteq cgroup,
               \A b \in Apps \ {a} : app'[b] = app[b]
        PROVE  CgroupsOfRunning'
    BY <1>1, <2>6 DEF CgroupsOfRunning, Running
  <2>7. CASE /\ Pending(a) /\ app' = [app EXCEPT ![a] = Stopped(@)]
             /\ UNCHANGED <<cgroup, proc>>
    BY <1>1, <2>4, <2>6, <2>7
  <2>8. CASE Running(a) /\ Reap(a, ~Stopping)
    <3>1. cgroup' = cgroup \ {a}
      BY <1>1, <2>8, ReapRemovesCgroup
    <3>2. \A b \in Apps \ {a} : app'[b] = app[b]
      BY <1>1, <2>8 DEF Reap
    <3> QED
      BY <2>6, <3>1, <3>2
  <2>9. CASE \E force \in BOOLEAN : AppStop(a, force)
    <3>1. \A b \in Apps : app'[b] \in {app[b], AskedToStop(app[b]), Cancelled(app[b])}
      BY <1>1, <2>9 DEF AppStop, AskedToStop, Cancelled
    <3>2. \A b \in Apps : app'[b].state = app[b].state
      BY <1>1, <3>1, StopRecordFacts
    <3> QED
      BY <1>1, <2>9, <3>2 DEF AppStop, CgroupsOfRunning, Running
  <2>10. CASE DelayElapses(a)
    <3>1. [app[a] EXCEPT !.restart_deadline = "due"].state = app[a].state
      BY <2>2 DEF AppRecord
    <3>2. \A b \in Apps : app'[b].state = app[b].state
      BY <1>1, <2>10, <3>1 DEF DelayElapses
    <3> QED
      BY <1>1, <2>10, <3>2 DEF DelayElapses, CgroupsOfRunning, Running
  <2> QED
    BY <1>3, <2>1, <2>2, <2>3, <2>4, <2>5, <2>7, <2>8, <2>9, <2>10 DEF AppEffect
<1> QED
  BY <1>2, <1>3, StepEffects

(* An abort needs a start that fails or a cgroup that is left. *)
LEMMA PanicStep ==
    ASSUME CallsSucceed, EnoughTokens, IndInv, TokenOwnership, CountInv, SpawnPossible,
           CgroupsOfRunning, NoPanic, [Next]_vars
    PROVE  NoPanic'
<1> SUFFICES ASSUME pc' = "panic", pc # "panic", Next PROVE FALSE
  BY DEF NoPanic, vars, loopVars
<1>1. CASE CreateApp
  <2>1. idx \in Apps /\ AppCreateFails(idx) /\ pc = "create"
    BY <1>1 DEF CreateApp
  <2>2. ~Running(idx)
    BY <2>1 DEF CountInv, NotCreated, Apps
  <2> QED
    BY <2>1, <2>2, StartsSucceed DEF AppCreateFails
<1>2. CASE Check
  <2>1. cgroup # {} /\ AllReturned /\ cgroup \subseteq Apps
    BY <1>2 DEF Check, IndInv, CoreInv, AppInv, AppTypeOK
  <2> QED
    BY <2>1 DEF AllReturned, CgroupsOfRunning
<1>3. CASE ~CreateApp /\ ~Check
  <2>1. pc \in {"create", "check"}
    BY AbortsAtTheEnds
  <2> QED
    BY <1>3, <2>1
    DEF Next, Daemon, MainStep, LogStep, Bind, Poll, AcceptAll, HandleSignal,
        HandleListener, HandleConn, HandleApp, Handling, ServeRequest, FinishRequest,
        EventsDone, RestartApp, RestartDone, ShutdownApp, ShutdownDone,
        LogAcceptAll, PushUpdates, HandleLog, Environment, MainEnvironment, Sigint,
        LogEnvironment, Done, vars, loopVars
<1> QED
  BY <1>1, <1>2, <1>3

(* The daemon does not abort, neither at startup, where an application that cannot
   be started is fatal, nor on exit, where a cgroup that is left is: if the slab
   has a token for everything, every registration, fork and cgroup.kill succeeds,
   and there is room for a process whenever one is started.  The code aborts where
   one of these fails. *)
THEOREM DaemonDoesNotAbort ==
    ASSUME Faults \cap {"fork", "register", "kill", "timeout"} = {},
           Len(SlabOrder) >= 3 * NumApps + MaxConnections + MaxLogConnections
    PROVE  Spec /\ []SpawnPossible => []NoPanic
<1>1. CallsSucceed /\ EnoughTokens /\ "register" \notin Faults
  BY DEF CallsSucceed, EnoughTokens
<1>2. Init => CgroupsOfRunning /\ NoPanic
  BY DEF Init, AppInit, CgroupsOfRunning, NoPanic
<1>3. ASSUME IndInv, TokenOwnership, CountInv, SpawnPossible,
             CgroupsOfRunning, NoPanic, [Next]_vars
      PROVE  CgroupsOfRunning' /\ NoPanic'
  BY <1>1, <1>3, CgroupsStep, PanicStep
<1>4. IndInv /\ TokenOwnership /\ CountInv /\ SpawnPossible
         /\ CgroupsOfRunning /\ NoPanic /\ [Next]_vars
         => CgroupsOfRunning' /\ NoPanic'
  BY <1>3
<1>5. Spec => []CountInv
  BY <1>1, SpecCount
<1> QED
  BY <1>2, <1>4, <1>5, SpecInd, TokensOwned, PTL DEF Spec

(* Without descendants a process is tracked or reaped. *)
NoStrays ==
    \A p \in Pids : proc[p].st # "free" =>
       /\ proc[p].app \in Apps /\ Running(proc[p].app)
       /\ app[proc[p].app].pid = p

(* There is a pid for each application. *)
EnoughPids == IsFiniteSet(Pids) => Cardinality(Pids) >= NumApps

(* Then the applications that run leave a pid for one that does not. *)
LEMMA PidsSpare ==
    ASSUME EnoughPids, IndInv, NoStrays
    PROVE  SpawnPossible
<1> SUFFICES ASSUME NEW a \in Apps, ~Running(a), FreePids = {} PROVE FALSE
  BY DEF SpawnPossible
<1> DEFINE f == [p \in Pids |-> proc[p].app]
<1>1. \A p \in Pids : proc[p].app \in RunningApps /\ app[proc[p].app].pid = p
  BY DEF NoStrays, FreePids, RunningApps
<1>2. f \in Injection(Pids, RunningApps)
  BY <1>1 DEF Injection, IsInjective
<1>3. IsFiniteSet(RunningApps) /\ Cardinality(RunningApps) <= NumApps - 1
      /\ Cardinality(RunningApps) \in Nat /\ NumApps \in Nat
  BY OwnersFinite, AppAssumption DEF IndInv
<1>4. IsFiniteSet(Pids) /\ Cardinality(Pids) <= Cardinality(RunningApps)
  BY <1>2, <1>3, FS_Injection
<1>5. Cardinality(Pids) \in Nat /\ Cardinality(Pids) >= NumApps
  BY <1>4, FS_CardinalityType DEF EnoughPids
<1> QED
  BY <1>3, <1>4, <1>5

(* A step leaves no process untracked. *)
LEMMA StraysStep ==
    ASSUME CallsSucceed, EnoughTokens, Forkers = {}, IndInv, CountInv, SpawnPossible,
           NoStrays, [Next]_vars
    PROVE  NoStrays'
<1>1. /\ AppInv /\ app \in [Apps -> AppRecord] /\ proc \in [Pids -> ProcRecord]
  BY DEF IndInv, CoreInv, AppInv, AppTypeOK
<1>2. CASE UNCHANGED <<app, proc>>
  BY <1>2 DEF NoStrays, Running
<1>3. ASSUME \A p \in Pids : proc'[p].st # "free" =>
                proc[p].st # "free" /\ proc'[p].app = proc[p].app,
             \A b \in Apps : app'[b].state = app[b].state /\ app'[b].pid = app[b].pid
      PROVE  NoStrays'
  BY <1>3 DEF NoStrays, Running
<1>4. CASE ProcEffect /\ UNCHANGED app
  <2>1. PICK p \in Pids, ret \in {"ok", "err"} : ProcExit(p, ret)
    BY <1>4 DEF ProcEffect, ProcFork
  <2>2. [proc[p] EXCEPT !.st = "zombie", !.ret = ret].app = proc[p].app
        /\ proc[p].st # "free"
    BY <1>1, <2>1 DEF ProcExit, ProcRecord, Alive
  <2>3. \A q \in Pids \ {p} : proc'[q] = proc[q]
    BY <1>1, <2>1 DEF ProcExit
  <2>4. proc'[p].st # "free" => proc'[p].app = proc[p].app
    BY <1>1, <2>1, <2>2, FreeProcType DEF ProcExit
  <2> QED
    BY <1>3, <1>4, <2>2, <2>3, <2>4
<1>5. ASSUME NEW a \in Apps, AppEffect(a) PROVE NoStrays'
  <2>1. ASSUME NEW r \in AppRecord, RuntimeStart(a, r), ~Running(a) PROVE NoStrays'
    <3>1. PICK p \in FreePids : /\ app' = [app EXCEPT ![a] = Launched(r, p)]
                                /\ proc' = [proc EXCEPT ![p] = Spawned(a)]
      BY <2>1 DEF RuntimeStart
    <3>2. Launched(r, p).state = "running" /\ Launched(r, p).pid = p
      BY <2>1 DEF Launched, AppRecord
    <3>3. p \in Pids /\ Spawned(a).app = a
      BY SpawnedFacts DEF FreePids
    <3>4. \A q \in Pids \ {p} : proc[q].st # "free" => proc[q].app # a
      BY <2>1 DEF NoStrays
    <3> QED
      BY <1>1, <3>1, <3>2, <3>3, <3>4 DEF NoStrays, Running
  <2>2. app[a] \in AppRecord /\ Anew(app[a]) \in AppRecord
    BY <1>1 DEF Anew, AppRecord
  <2>3. pc = "create" /\ a = idx => ~Running(a)
    BY DEF CountInv, NotCreated, Apps
  <2>4. ASSUME ~Running(a), NEW r PROVE ~RuntimeFails(a, r)
    BY <2>4, StartsSucceed
  <2>5. Pending(a) => ~Running(a)
    BY <1>1 DEF AppInv, RestartJustified
  <2>6. CASE /\ Pending(a) /\ app' = [app EXCEPT ![a] = Stopped(@)]
             /\ UNCHANGED <<cgroup, proc>>
    <3>1. \A b \in Apps \ {a} : app'[b] = app[b]
      BY <1>1, <2>6
    <3> QED
      BY <2>5, <2>6, <3>1 DEF NoStrays, Running
  <2>7. CASE Running(a) /\ Reap(a, ~Stopping)
    <3>1. \A b \in Apps \ {a} : app'[b] = app[b]
      BY <1>1, <2>7 DEF Reap
    <3> DEFINE left == [proc EXCEPT ![app[a].pid] = FreeProc]
    <3>2. PICK fate \in KillFates :
             proc' = [p \in Pids |-> IF left[p].app = a
                                     THEN CgroupKilled(left[p], fate) ELSE left[p]]
      BY <2>7 DEF Reap
    <3>3. left \in [Pids -> ProcRecord]
      BY <1>1, FreeProcType
    <3>4. \A p \in Pids : left[p].st # "free" => left[p] = proc[p] /\ proc[p].app # a
      BY <1>1, FreeProcType DEF NoStrays
    <3> HIDE DEF left
    <3>5. \A p \in Pids : proc'[p].st # "free" => proc'[p] = proc[p] /\ proc[p].app # a
      BY <3>2, <3>3, <3>4, CgroupKilledFacts
    <3> QED
      BY <3>1, <3>5 DEF NoStrays, Running
  <2>8. CASE \E force \in BOOLEAN : AppStop(a, force)
    <3>1. \A b \in Apps : app'[b] \in {app[b], AskedToStop(app[b]), Cancelled(app[b])}
      BY <1>1, <2>8 DEF AppStop, AskedToStop, Cancelled
    <3>2. \A b \in Apps : app'[b].state = app[b].state /\ app'[b].pid = app[b].pid
      BY <1>1, <3>1, StopRecordFacts
    <3>3. \A p \in Pids : proc'[p].st # "free" =>
             proc[p].st # "free" /\ proc'[p].app = proc[p].app
      BY <1>1, <2>8, SignalledFacts DEF AppStop
    <3> QED
      BY <1>3, <3>2, <3>3
  <2>9. CASE DelayElapses(a)
    <3>1. /\ [app[a] EXCEPT !.restart_deadline = "due"].state = app[a].state
          /\ [app[a] EXCEPT !.restart_deadline = "due"].pid = app[a].pid
      BY <2>2 DEF AppRecord
    <3>2. \A b \in Apps : app'[b].state = app[b].state /\ app'[b].pid = app[b].pid
      BY <1>1, <2>9, <3>1 DEF DelayElapses
    <3> QED
      BY <1>3, <2>9, <3>2 DEF DelayElapses
  <2> QED
    BY <1>5, <2>1, <2>2, <2>3, <2>4, <2>5, <2>6, <2>7, <2>8, <2>9 DEF AppEffect
<1> QED
  BY <1>2, <1>4, <1>5, StepEffects

(* If the applications' processes do not fork, one pid per application is room
   enough, as every child is reaped before its application is started again. *)
THEOREM NoAbortWithoutDescendants ==
    ASSUME Faults \cap {"fork", "register", "kill", "timeout"} = {},
           Len(SlabOrder) >= 3 * NumApps + MaxConnections + MaxLogConnections,
           IsFiniteSet(Pids) => Cardinality(Pids) >= NumApps, Forkers = {}
    PROVE  Spec => []NoPanic
<1>1. /\ CallsSucceed /\ EnoughTokens /\ EnoughPids /\ "register" \notin Faults
  BY DEF CallsSucceed, EnoughTokens, EnoughPids
<1>2. Init => NoStrays
  BY FreeProcType DEF Init, AppInit, NoStrays
<1>3. IndInv /\ CountInv /\ NoStrays /\ [Next]_vars => NoStrays'
  BY <1>1, PidsSpare, StraysStep
<1>4. Spec => []CountInv
  BY <1>1, SpecCount
<1>5. IndInv /\ NoStrays => SpawnPossible
  BY <1>1, PidsSpare
<1>6. Spec => []SpawnPossible
  BY <1>2, <1>3, <1>4, <1>5, SpecInd, PTL DEF Spec
<1> QED
  BY <1>6, DaemonDoesNotAbort, PTL
=============================================================================
