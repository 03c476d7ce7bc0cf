------------------------------ MODULE MCLSGrid ------------------------------
(***************************************************************************)
(* Small instances of LSGrid for TLC.  Init allows any placement and any   *)
(* set point; the specifications below start from one grid, or a few, to   *)
(* leave the states to what the client does next.                          *)
(***************************************************************************)
EXTENDS CacheReuse

(* Generators that produce, the first of them the slack.                   *)
OneSlack == \A g \in Gens : gen[g].p = 1 /\ gen[g].weight = (IF g = 0 THEN 1 ELSE 0)

(* Nothing consumes before the client says so; the options start at their  *)
(* defaults, and transformers at their neutral tap.                        *)
Neutral == /\ offIsPv /\ snMva = 1
           /\ \A l \in Loads : load[l].p = 0
           /\ \A s \in Shunts : shunt[s].p = 0 /\ shunt[s].q = 0
           /\ \A b \in Branches : branch[b].ratio = 1 /\ branch[b].shift = 0 /\ branch[b].bus1 = 0

SlackInit == Init /\ OneSlack /\ Neutral

(* The part of Next that these runs play; MCReuse plays the rest.          *)
SlackNext ==
    \/ Modify
    \/ \E f \in Families : PowerFlow(f)
    \/ CheckSolution
    \/ \E f \in Families, allowed \in BOOLEAN : AllowCacheReuse(f, allowed)
    \/ UnsetChanges
    \/ AssignSlack
    \/ AssignNoSlack
    \/ \E b \in Buses : DeactivateBus(b) \/ ReactivateBus(b)
SlackSpec == SlackInit /\ [][SlackNext]_vars
=============================================================================
