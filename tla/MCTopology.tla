----------------------------- MODULE MCTopology -----------------------------
(***************************************************************************)
(* Topology for TLC: two substations of two busbars, a line and a          *)
(* transformer between them, a load and two generators.  Each behaviour    *)
(* plays one scene, once and for all: the line and the load, or the        *)
(* transformer and a generator, with one family solved, or the slack with  *)
(* both.                                                                   *)
(***************************************************************************)
EXTENDS Topology, TLC

CONSTANTS Scenes,        \* the scenes played: "line", "trafo", "slack"
          l1, b1, t1     \* the load, the line and the transformer

VARIABLES scene          \* [name |-> its name, solving |-> the families solved]

OnSub1(p) == p[1] = "side2" \/ p = <<"load", l1>> \/ p = <<"gen", 1>>
MCSubstation == [p \in Positions |-> IF OnSub1(p) THEN 1 ELSE 0] @@ <<>>

(* Requests of one position or two; the busbars -2 and 3 do not exist.     *)
Asked(name) ==
    CASE name = "line"  -> [x \in {<<"load", l1>>, <<"side1", b1>>, <<"side2", b1>>} |->
                               IF x[1] = "load" THEN {-1, 2}
                               ELSE IF x[1] = "side1" THEN {-1, 1} ELSE {-1, 0, 2, 3}]
      [] name = "trafo" -> [x \in {<<"gen", 1>>, <<"side1", t1>>, <<"side2", t1>>} |->
                               IF x[1] = "side2" THEN {-2, -1, 2} ELSE {-1, 1}]
      [] name = "slack" -> [x \in {<<"load", l1>>} |-> {-1, 1}]
RequestsOf(name) ==
    {r \in UNION {[P -> {-2, -1, 0, 1, 2, 3}] :
                     P \in {Q \in SUBSET DOMAIN Asked(name) : Cardinality(Q) \in {1, 2}}} :
        \A p \in DOMAIN r : r[p] \in Asked(name)[p]}
ScenePlay == [name \in Scenes |-> RequestsOf(name)] @@ <<>>
MCRequests == UNION {ScenePlay[name] : name \in Scenes}

(* Everything on the first busbar, the first generator the slack, a        *)
(* transformer that shifts; when the slack moves, the first one is idle.    *)
Started ==
    /\ load \in [Loads -> [on : {TRUE}, bus : {1}, p : {1}]]
    /\ gen = [g \in Gens |-> [on |-> TRUE, bus |-> g, reg |-> g,
                              p |-> IF scene.name = "slack" THEN g ELSE 1,
                              weight |-> IF g = 0 THEN 1 ELSE 0]]
    /\ branch = [b \in Branches |-> [on1 |-> TRUE, on2 |-> TRUE, global |-> TRUE, bus1 |-> 0,
                                     bus2 |-> 1, ratio |-> 1, shift |-> IF b \in Trafos THEN 1 ELSE 0]]
    /\ shunt \in [Shunts -> {}] /\ offIsPv = FALSE /\ snMva = 1

SceneInit ==
    /\ scene \in {[name |-> n, solving |-> {f}] : n \in Scenes \ {"slack"}, f \in Families}
                 \cup {[name |-> n, solving |-> Families] : n \in Scenes \cap {"slack"}}
    /\ Started
    /\ TopologyInit

(* What changes by itself in each scene; the algorithm converges, or it    *)
(* throws when the slack stays (the runs of MCLSGrid have it diverge too). *)
InScene ==
    /\ scene.name # "slack" => gen' = gen
    /\ scene.name # "line"  => \A b \in Branches \ Trafos : branch'[b] = branch[b]
    /\ scene.name # "trafo" => \A b \in Trafos : branch'[b] = branch[b]

(* Nothing is promised of the branches of an update that failed midway:    *)
(* behaviours that had one only solve from there.                          *)
Solves(f) == /\ Solve(f) /\ ~needsRebuild'[f]
             /\ scene.name = "slack" => last' = f \/ ~PfPrepared(f).ok

SceneNext ==
    /\ \/ cut = {} /\ Change /\ InScene
       \/ \E f \in scene.solving : Solves(f)
       \/ scene.name = "slack" /\ Check
       \/ cut = {} /\ \E request \in ScenePlay[scene.name] : UpdateTopo(request)
       \/ scene.name # "slack" /\ cut = {} /\ NoneHalfOpen /\ ConsiderOnlyMainComponent
       \/ scene.name = "slack" /\ \E chosen \in SUBSET Gens : UpdateSlackWeights(chosen)
    /\ UNCHANGED scene

SceneSpec == SceneInit /\ [][SceneNext]_<<allVars, scene>>
=============================================================================
