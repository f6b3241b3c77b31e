\* A scenario of one or two runs replaying five contacts of two satellites
\* (seven beacons a run; the sat2 contact ends before its first grid point)
\* against RRND instances that may answer, fail, or never answer.
CONSTANTS
    SatList <- MCSatList
    Period <- MCPeriod
    Plan <- MCPlan
    T0 = 0
    MaxRuns = 2
    Results = {0, 8}
    Predictions = {"invalid", "none", "early", "late"}
SPECIFICATION Spec
INVARIANTS
    TypeOK
    ReplyMatchesRequest
    CrashOnlyAfterLostReply
    BeaconTimeRegressOnlyOnOverlap
PROPERTIES
    ScenarioEnds
CHECK_DEADLOCK FALSE
