--------------------------- MODULE MCRestartTimer ---------------------------
EXTENDS RestartTimer

(* Every strategy, and multipliers that grow, do not, vanish or alternate. *)
Backoffs ==
    {ExponentialBackoff(1, 3, 2), ExponentialBackoff(0, 2, 3),
     ExponentialBackoff(2, 1, 0), ExponentialBackoff(1, 2, -2)}

Policy(s, e, max) ==
    [on_success |-> s, on_error |-> e, reset_after_ms |-> 2,
     max_restart_attempts |-> max]

MCPolicies ==
    << {Policy(Never, b, NoMax) : b \in Backoffs}
          \cup {Policy(Constant(1), Never, 0)}
          \cup {Policy(ExponentialBackoff(2, 3, 2), Constant(0), 1)},
       {Policy(Constant(1), Constant(2), 0)} >>

MCMaxRuns == <<3, 1>>
=============================================================================
