---------------------------- MODULE RestartPolicy ----------------------------
(***************************************************************************)
(* The restart policy of an application (restart.rs) and the decision that *)
(* App::schedule_restart takes from it.  Delays are abstract: a strategy   *)
(* either never restarts or restarts after some delay, and whether a run   *)
(* lasted at least reset_after_ms is an input.                             *)
(***************************************************************************)
EXTENDS Integers

NoMax == -1                 \* max_restart_attempts: None

RestartPolicies(maxima) ==
    [on_success : {"never", "delay"},
     on_error   : {"never", "delay"},
     max_restart_attempts : maxima \cup {NoMax}]

(* consecutive_failures after a run that ended well (ok) or not, and that
   lasted reset_after_ms (long) or not. *)
NextFailures(fails, ok, long) ==
    (IF ok \/ long THEN 0 ELSE fails) + (IF ok THEN 0 ELSE 1)

(* Mutant: one failure too many is forgiven. *)
GivesUp_OneLate(policy, fails) ==
    /\ policy.max_restart_attempts # NoMax
    /\ fails > policy.max_restart_attempts + 1

GivesUp(policy, fails) ==
    /\ policy.max_restart_attempts # NoMax
    /\ fails > policy.max_restart_attempts

Strategy(policy, ok) == IF ok THEN policy.on_success ELSE policy.on_error

(* Mutant: failures are counted but never enough. *)
Restarts_NoLimit(policy, ok, fails) == Strategy(policy, ok) # "never"

Restarts(policy, ok, fails) ==
    /\ ~GivesUp(policy, fails)
    /\ Strategy(policy, ok) # "never"
=============================================================================
