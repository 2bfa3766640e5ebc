---------------------------- MODULE RestartTimer ----------------------------
(***************************************************************************)
(* Restarts in time: the deadlines that schedule_restart sets (runtime.rs) *)
(* and the timeout of poll that is computed from them (main.rs).  Time is  *)
(* in milliseconds and passes between any two steps, also while the thread *)
(* is busy.  Supervisor models the same loop in full and without numbers;  *)
(* here processes, tokens and connections are left out.                    *)
(***************************************************************************)
EXTENDS RestartDelay, RestartPolicy, FiniteSetsExt, SequencesExt

CONSTANTS
    NumApps,            \* the applications are 1..NumApps, in order
    Policies,           \* the restart policies that each may have
    NoDeadline,         \* restart_deadline: None
    MaxTime,            \* bound on the time
    MaxRuns             \* bound on the runs of each between two starts

TimedPolicies ==
    [on_success : RestartDelays, on_error : RestartDelays,
     reset_after_ms : Nat, max_restart_attempts : Nat \cup {NoMax}]

ASSUME TimerAssumption ==
    /\ NumApps \in Nat /\ MaxTime \in Nat
    /\ Policies \in [1..NumApps -> SUBSET TimedPolicies]
    /\ MaxRuns \in [1..NumApps -> Nat]
    /\ NoDeadline \notin Nat

VARIABLES
    policy,
    now,
    app,        \* the App values
    child,      \* their processes: none, live, or how they ended
    pc,         \* wait, events or restart
    wake,       \* when poll returns at the latest
    batch,      \* the exits that poll reported and are not handled
    next,       \* the application that maybe_restart looks at next
    seen,       \* `now` as the loop over them read it
    runs,       \* history: the runs since somebody started the application
    since       \* history: when the last of them ended

vars == <<policy, now, app, child, pc, wake, batch, next, seen, runs, since>>

Apps == 1..NumApps

Stopped ==
    [running |-> FALSE, deadline |-> NoDeadline, stop_requested |-> FALSE,
     consecutive_failures |-> 0, started_at |-> 0, total_uptime |-> 0]

Init ==
    /\ policy \in [Apps -> UNION Range(Policies)]
    /\ \A a \in Apps : policy[a] \in Policies[a]
    /\ now = 0
    /\ app = [a \in Apps |-> [Stopped EXCEPT !.running = TRUE]]
    /\ child = [a \in Apps |-> "live"]
    /\ pc = "restart" /\ wake = 0 /\ batch = {}
    /\ next = NumApps + 1 /\ seen = 0
    /\ runs = [a \in Apps |-> <<>>] /\ since = [a \in Apps |-> 0]

Pending(a) == app[a].deadline # NoDeadline
Deadlines == {app[a].deadline : a \in {b \in Apps : Pending(b)}}

-----------------------------------------------------------------------------
(* The environment *)

Tick ==
    /\ now < MaxTime
    /\ now' = now + 1
    /\ UNCHANGED <<policy, app, child, pc, wake, batch, next, seen, runs, since>>

(* A process ends, MaxRuns times at most since somebody started it. *)
Exit(a, how) ==
    /\ child[a] = "live"
    /\ Len(runs[a]) < MaxRuns[a]
    /\ child' = [child EXCEPT ![a] = how]
    /\ UNCHANGED <<policy, now, app, pc, wake, batch, next, seen, runs, since>>

-----------------------------------------------------------------------------
(* The loop *)

(* Mutant: the timeout is that of the last deadline. *)
WakeTime_Latest == IF Deadlines = {} THEN MaxTime + 1 ELSE Max(Deadlines)

(* The earliest deadline, or never: no state is later than MaxTime. *)
WakeTime == IF Deadlines = {} THEN MaxTime + 1 ELSE Min(Deadlines)

(* poll: `now` and the timeout are taken in one go. *)
Poll ==
    /\ pc = "restart" /\ next > NumApps
    /\ pc' = "wait" /\ seen' = 0
    /\ wake' = IF WakeTime < now THEN now ELSE WakeTime
    /\ UNCHANGED <<policy, now, app, child, batch, next, runs, since>>

(* It returns for an exit, for a client, or in the end by itself. *)
Wake ==
    /\ pc = "wait"
    /\ pc' = "events" /\ wake' = 0
    /\ batch' = {a \in Apps : child[a] \in {"ok", "err"}}
    /\ UNCHANGED <<policy, now, app, child, next, seen, runs, since>>

(* schedule_restart *)
Schedule(a, ok, uptime) ==
    LET long  == uptime >= policy[a].reset_after_ms
        fails == NextFailures(app[a].consecutive_failures, ok, long)
        s     == Strategy(policy[a], ok)
    IN [app[a] EXCEPT
           !.running = FALSE,
           !.total_uptime = @ + uptime,
           !.consecutive_failures = fails,
           !.deadline = IF GivesUp(policy[a], fails) \/ IsNever(s)
                        THEN NoDeadline
                        ELSE now + DelayFor(s, Max({fails, 1}))]

(* App::poll for an exit: the uptime is taken when it is noticed, and the
   deadline is counted from then on. *)
Reap(a) ==
    LET ok     == child[a] = "ok"
        uptime == now - app[a].started_at
    IN /\ pc = "events" /\ a \in batch
       /\ batch' = batch \ {a}
       /\ child' = [child EXCEPT ![a] = "none"]
       /\ IF app[a].stop_requested
          THEN /\ app' = [app EXCEPT ![a].running = FALSE,
                                     ![a].total_uptime = @ + uptime]
               /\ UNCHANGED <<runs, since>>
          ELSE /\ app' = [app EXCEPT ![a] = Schedule(a, ok, uptime)]
               /\ runs' = [runs EXCEPT ![a] = Append(@,
                     [ok |-> ok, long |-> uptime >= policy[a].reset_after_ms])]
               /\ since' = [since EXCEPT ![a] = now]
       /\ UNCHANGED <<policy, now, pc, wake, next, seen>>

(* Mutant: the clock of the new run is not set. *)
Started_OldClock(r) == [r EXCEPT !.running = TRUE, !.deadline = NoDeadline]

(* AppRuntime::start succeeded. *)
Started(r) ==
    [r EXCEPT !.running = TRUE, !.deadline = NoDeadline, !.started_at = now]

(* A client's request to start. *)
Start(a) ==
    /\ pc = "events" /\ ~app[a].running
    /\ app' = [app EXCEPT ![a] = [Started(@) EXCEPT
                  !.consecutive_failures = 0, !.stop_requested = FALSE]]
    /\ child' = [child EXCEPT ![a] = "live"]
    /\ runs' = [runs EXCEPT ![a] = <<>>] /\ since' = [since EXCEPT ![a] = 0]
    /\ UNCHANGED <<policy, now, pc, wake, batch, next, seen>>

(* A client's request to stop; the process may end at any time anyway. *)
Stop(a) ==
    /\ pc = "events"
    /\ app[a].running \/ Pending(a)
    /\ app' = [app EXCEPT ![a].stop_requested = TRUE, ![a].deadline = NoDeadline]
    /\ UNCHANGED <<policy, now, child, pc, wake, batch, next, seen, runs, since>>

EventsDone ==
    /\ pc = "events" /\ batch = {}
    /\ pc' = "restart" /\ next' = 1 /\ seen' = now
    /\ UNCHANGED <<policy, now, app, child, wake, batch, runs, since>>

(* maybe_restart, by the time read before the loop; a start may fail. *)
MaybeRestart(a) ==
    /\ pc = "restart" /\ a = next
    /\ next' = next + 1
    /\ \/ /\ Pending(a) /\ app[a].deadline <= seen
          /\ app' = [app EXCEPT ![a] = Started(@)]
          /\ child' = [child EXCEPT ![a] = "live"]
       \/ /\ Pending(a) /\ app[a].deadline <= seen
          /\ app' = [app EXCEPT ![a].deadline = NoDeadline]
          /\ UNCHANGED child
       \/ /\ Pending(a) => app[a].deadline > seen
          /\ UNCHANGED <<app, child>>
    /\ UNCHANGED <<policy, now, pc, wake, batch, seen, runs, since>>

Daemon ==
    \/ Poll \/ Wake \/ EventsDone
    \/ \E a \in Apps : Reap(a) \/ MaybeRestart(a)

Next ==
    \/ Tick \/ Daemon
    \/ \E a \in Apps : Start(a) \/ Stop(a) \/ Exit(a, "ok") \/ Exit(a, "err")

Spec == Init /\ [][Next]_vars

-----------------------------------------------------------------------------
(* The failures in a row, by what happened: the longest row of failed runs up
   to now in which only the first may have lasted reset_after_ms. *)
Row(a) ==
    LET n == Len(runs[a]) IN
    Max({k \in 0..n : \A i \in (n - k + 1)..n :
            /\ ~runs[a][i].ok
            /\ i > n - k + 1 => ~runs[a][i].long})

(* The backoff a user expects: the first delay, then every time multiplied,
   never more than the maximum. *)
ExpectedDelay(s, n) ==
    LET capped(ms) == IF ms > s.max_delay_ms THEN s.max_delay_ms ELSE ms
        delay[i \in 1..n] == IF i = 1 THEN capped(s.initial_delay_ms)
                             ELSE capped(s.multiplier * delay[i - 1])
    IN delay[n]

(* The loop does not sleep through a deadline: when one has passed, poll is
   over, however deadlines come and go while others are pending (main.rs). *)
NoOversleep ==
    pc = "wait" =>
       \A a \in Apps : Pending(a) /\ app[a].deadline <= now => wake <= now

(* A backoff grows with the failures in a row as its user expects, starts
   again after a long run or a success, and no strategy waits longer than its
   maximum, whatever its numbers are (delay_for, schedule_restart). *)
BackoffHonoured ==
    \A a \in Apps : Pending(a) =>
       LET last  == Last(runs[a])
           s     == Strategy(policy[a], last.ok)
           delay == app[a].deadline - since[a]
       IN s.strategy = "exponential_backoff" =>
             /\ delay \in 0..s.max_delay_ms
             /\ s.multiplier >= 0 /\ s.initial_delay_ms > 0
                   => delay = ExpectedDelay(s, Max({Row(a), 1}))

(* An application is not retried once it has failed more than
   max_restart_attempts times in a row since somebody started it. *)
RestartsBounded ==
    \A a \in Apps :
       Pending(a) /\ policy[a].max_restart_attempts # NoMax
          => Row(a) <= policy[a].max_restart_attempts

(* The uptimes that `lway info` shows add up to no more than the time that has
   passed: runs do not overlap and none is counted twice (App::stats). *)
UptimeAccounted ==
    \A a \in Apps :
       app[a].total_uptime
          + (IF app[a].running THEN now - app[a].started_at ELSE 0) <= now
=============================================================================
