------------------------------ MODULE AppLife ------------------------------
(***************************************************************************)
(* What the supervisor promises about every application, as its user sees  *)
(* it: an application is stopped, running or waiting for a restart.  There *)
(* are no processes, tokens, events or connections here.  Supervisor       *)
(* implements this specification, see Life there.                          *)
(***************************************************************************)
EXTENDS RestartPolicy

CONSTANT Apps

VARIABLES
    policy,     \* restart policy, oneshot and autostart of each application
    life,       \* where each is: st, whether a stop was asked for, failures
    closing     \* the daemon is on its way out

lifeVars == <<policy, life, closing>>

Fresh == [st |-> "stopped", asked |-> FALSE, failures |-> 0]

LifeInit == life = [a \in Apps |-> Fresh] /\ closing = FALSE

Becomes(a, l) == life' = [life EXCEPT ![a] = l]

(* A user, or the daemon at startup, starts it: nothing of the past counts. *)
Start(a) ==
    /\ life[a].st # "running"
    /\ Becomes(a, [Fresh EXCEPT !.st = "running"])

(* A user, or the daemon on its way out, asks it to stop.  A process takes its
   time; a restart that was scheduled is cancelled at once. *)
Stop(a) ==
    /\ life[a].st # "stopped"
    /\ Becomes(a, [life[a] EXCEPT !.asked = TRUE,
                                  !.st = IF @ = "waiting" THEN "stopped" ELSE @])

(* The process ends.  Unless it was to run once, to stop, or the daemon is on
   its way out, a failure counts and the policy says if it will run again. *)
Finish(a, ok, long) ==
    LET fails == NextFailures(life[a].failures, ok, long) IN
    /\ life[a].st = "running"
    /\ Becomes(a, IF life[a].asked \/ policy[a].oneshot \/ closing
                  THEN [life[a] EXCEPT !.st = "stopped"]
                  ELSE [life[a] EXCEPT
                          !.failures = fails,
                          !.st = IF Restarts(policy[a].restart, ok, fails)
                                 THEN "waiting" ELSE "stopped"])

(* A scheduled restart happens, or is given up. *)
Retry(a) ==
    /\ life[a].st = "waiting"
    /\ \E st \in {"running", "stopped"} :
          Becomes(a, [life[a] EXCEPT !.st = st])

Close == ~closing /\ closing' = TRUE /\ UNCHANGED life

LifeNext ==
    /\ UNCHANGED policy
    /\ \/ Close
       \/ /\ UNCHANGED closing
          /\ \E a \in Apps :
                \/ Start(a) \/ Stop(a) \/ Retry(a)
                \/ \E ok, long \in BOOLEAN : Finish(a, ok, long)

LifeSpec == LifeInit /\ [][LifeNext]_lifeVars
=============================================================================
