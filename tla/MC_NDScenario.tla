----------------------------- MODULE MC_NDScenario -----------------------------
(* Two satellites (two clients) and two ground stations for TLC.          *)
EXTENDS NDScenario

MCSatList == <<"sat1", "sat2">>

\* Beacon periods of 10 s and 15 s (StaticDiscoveryScenario uses 1..20).
MCPeriod == ("gs1" :> 10) @@ ("gs2" :> 15)

\* The plan as cplan_from_scenario lists it, satellite by satellite and
\* station by station: gs1 sees the satellite from before the scenario
\* start until 32, again from 40 and from 65 (a station of reliability
\* 0.5);
\* gs2 sees it from 8 to 20, while gs1 does, and sees the second
\* satellite from 30 to 44.
MCPlan ==
    << [gs |-> "gs1", sat |-> "sat1", start |-> -5, end |-> 32, prob |-> 100],
       [gs |-> "gs1", sat |-> "sat1", start |-> 40, end |-> 52, prob |-> 50],
       [gs |-> "gs1", sat |-> "sat1", start |-> 65, end |-> 72, prob |-> 100],
       [gs |-> "gs2", sat |-> "sat1", start |-> 8, end |-> 20, prob |-> 100],
       [gs |-> "gs2", sat |-> "sat2", start |-> 30, end |-> 44, prob |-> 100] >>
==============================================================================
