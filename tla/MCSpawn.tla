------------------------------- MODULE MCSpawn -------------------------------
(* The model-checking instance of Spawn.                                   *)
EXTENDS Spawn, TLC

CONSTANTS c1, c2, h1

Scenario(m1, m2, p) ==
  [monitors |-> c1 :> m1 @@ c2 :> m2, under |-> h1 :> p]

\* A child of every path next to one with a sentinel, or of another path, and
\* a process that the one with the sentinel, or the other, starts.
Mixed ==
  {Scenario({"Sentinel"}, {}, c1), Scenario({"Sentinel"}, {}, c2),
   Scenario({"DebugApi", "Sentinel"}, {"DebugApi"}, c1),
   Scenario({"DebugApi", "Sentinel"}, {"Sentinel"}, Parent),
   Scenario({"JobObject", "Sentinel"}, {"JobObject", "Sentinel"}, Parent),
   Scenario({"JobObject"}, {"DebugApi"}, c1)}

\* Two sentinels, whose children start nothing.
TwoSentinels == {Scenario({"Sentinel"}, {"Sentinel"}, Parent)}
=============================================================================
