---------------------------- MODULE MCSupervisor ----------------------------
EXTENDS Supervisor, TLC, SequencesExt

AnyOrder == SetToSeq(Tokens)

(* Restart policies that differ in every decision of schedule_restart. *)
Always   == [on_success |-> "delay", on_error |-> "delay",
             max_restart_attempts |-> NoMax]
OnError1 == [on_success |-> "never", on_error |-> "delay",
             max_restart_attempts |-> 1]

Param(auto, once, policy) ==
    [autostart |-> auto, oneshot |-> once, restart |-> policy]

ThreeKinds == {Param(TRUE, FALSE, Always), Param(FALSE, FALSE, OnError1),
               Param(TRUE, TRUE, Always)}
Autostarted == {Param(TRUE, FALSE, Always)}

Request(op, force, targets) ==
    [op |-> op, force |-> force, targets |-> targets]

AllRequests ==
    {Request("start", FALSE, Apps), Request("stop", FALSE, Apps),
     Request("stop", TRUE, Apps), Request("query", FALSE, {})}
StopOnly == {Request("stop", TRUE, Apps)}
Queries == {Request("query", FALSE, {})}
StopStart == {Request("stop", TRUE, Apps), Request("start", FALSE, Apps)}

Symmetry ==
    Permutations(Pids) \cup Permutations(Clients) \cup Permutations(Tokens)
=============================================================================
