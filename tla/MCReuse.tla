------------------------------ MODULE MCReuse ------------------------------
(***************************************************************************)
(* LSGrid for TLC, once more by scenes: each behaviour plays one of them,  *)
(* in which the client uses some of the methods and the rest of the grid   *)
(* stays as it is.  A load at the first bus, a slack generator there and a *)
(* second generator at either bus.                                         *)
(***************************************************************************)
EXTENDS CacheReuse

CONSTANTS Scenes         \* the scenes played

VARIABLE scene

SceneInit ==
    /\ Init
    /\ scene \in Scenes
    /\ \A l \in Loads : load[l].p = 0 /\ load[l].bus = 0
    /\ \A g \in Gens : gen[g].p = 1 /\ gen[g].weight = (IF g = 0 THEN 1 ELSE 0)
    /\ gen[0].bus = 0
    /\ offIsPv /\ snMva = 1

(* The fields of the generators, and of the loads, that may change.        *)
GenMay(fields)  == \A g \in Gens : \A x \in {"on", "bus", "reg", "p", "weight"} \ fields :
                                       gen'[g][x] = gen[g][x]
LoadMay(fields) == \A l \in Loads : \A x \in {"on", "bus", "p"} \ fields : load'[l][x] = load[l][x]
Changes(gens, loads) == Modify /\ GenMay(gens) /\ LoadMay(loads) /\ UNCHANGED offIsPv

Play(s) == scene = s /\ UNCHANGED scene

SlackScene ==
    \/ Play("slack") /\ Changes({"on", "weight"}, {})
    \/ Play("slack") /\ AssignSlack
    \/ Play("slack") /\ \E b \in Buses \cup {NoBus} : SetReferenceSlackBus(b)
    \/ Play("slack") /\ PowerFlow("AC")
RegulationScene ==
    \/ Play("regulation") /\ Changes({"bus", "reg", "p"}, {})
    \/ Play("regulation") /\ PowerFlow("AC")
FamiliesScene ==
    \/ Play("families") /\ Changes({}, {"on"})
    \/ Play("families") /\ \E f \in Families : PowerFlow(f)
    \/ Play("families") /\ \E f \in Families : PreventReuse(f)
    \/ Play("families") /\ \E f \in Families, same \in BOOLEAN : ChangeAlgorithm(f, same)
    \/ Play("families") /\ CopyGrid
CheckScene ==
    \/ Play("check") /\ Changes({}, {"on", "bus"})
    \/ Play("check") /\ CheckSolution
    \/ Play("check") /\ PowerFlow("AC")
    \/ Play("check") /\ \E allowed \in BOOLEAN : AllowCacheReuse("AC", allowed)
    \/ Play("check") /\ PreventReuse("AC")
    \/ Play("check") /\ \E flag \in {"ybus", "sbus", "sparsity"} : TellChanged(flag)
    \/ Play("check") /\ \E base \in Bases : SetSnMva(base)
    \/ Play("check") /\ CopyGrid

SceneNext == SlackScene \/ RegulationScene \/ FamiliesScene \/ CheckScene
SceneSpec == SceneInit /\ [][SceneNext]_<<vars, scene>>
=============================================================================
