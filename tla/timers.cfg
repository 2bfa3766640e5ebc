SPECIFICATION Spec
CONSTANTS
    FloatMax = 8
    NumApps = 2
    Policies <- MCPolicies
    NoDeadline = NoDeadline
    MaxTime = 4
    MaxRuns <- MCMaxRuns
INVARIANTS NoOversleep BackoffHonoured RestartsBounded UptimeAccounted
