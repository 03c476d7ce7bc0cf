------------------------------ MODULE MCNewton ------------------------------
(***************************************************************************)
(* Newton for TLC: three buses, a slack generator at the first, another    *)
(* generator at the second, an HVDC line in droop from the second to the   *)
(* third, a compensator at the third and a second slack generator, at the  *)
(* first or the second, which is on in one scene only.  Each behaviour     *)
(* plays one scene, once and for all: some of the devices change, the      *)
(* others stay.                                                            *)
(***************************************************************************)
EXTENDS Results

CONSTANTS Scenes,        \* the scenes played
          MaxChanges,    \* the changes between two powerflows, at most
          h1, s1

VARIABLES scene, changes

MCVsc == {<<h1, 1>>}     \* the station at the second bus regulates
MCWires == {{1, 2}, {1, 3}}
MCLineEnds == {2, 3}

SecondSlackAt == CASE scene = "slack"                      -> {2}
                   [] scene \in {"gens", "island", "algos"} -> {1, 2}
                   [] OTHER                                -> {1}
SceneInit ==
    /\ scene \in Scenes /\ changes = 0
    /\ \E b3 \in SecondSlackAt :
       gen = [g \in Gens |-> LET b == IF g = 3 THEN b3 ELSE g IN
                   [on |-> g # 3 \/ scene = "slack", bus |-> b, reg |-> b, v |-> 1]]
    /\ svc = [s \in Svcs |-> [on |-> scene \in {"svc", "island"}, bus |-> 3, reg |-> 3]]
    /\ hvdc = [h \in Hvdc |-> LET on == scene # "twins" IN
                    [on |-> <<on, on>>, bus |-> <<2, 3>>, v |-> <<1, 1>>,
                     global |-> on, droop |-> TRUE, regime |-> 0, p |-> 1]]
    /\ line = TRUE
    /\ AcStart

(* What changes in each scene.  The second generator moves between the     *)
(* second and the third bus, or stays; the first may regulate the third.   *)
GenMay(who, fields) ==
    \A g \in Gens :
        /\ \A f \in {"on", "bus", "reg", "v"} \ (IF g \in who THEN fields ELSE {}) : gen'[g][f] = gen[g][f]
        /\ scene = "twins" => gen'[g].bus # 3 /\ (g = 1 => gen'[g].bus = 1)
        /\ scene # "twins" => /\ g \in SlackGens => gen'[g].bus = gen[g].bus /\ gen'[g].v = gen[g].v
                              /\ g \notin SlackGens => 1 \notin {gen'[g].bus, gen'[g].reg}
                              /\ gen'[g].reg # 2 \/ gen[g].bus # 1
SvcMay(fields) ==
    \A s \in Svcs : \A f \in {"on", "bus", "reg"} \ fields : svc'[s][f] = svc[s][f]
HvdcMay(fields) ==
    \A h \in Hvdc : /\ \A f \in {"on", "bus", "v", "regime", "p"} \ fields : hvdc'[h][f] = hvdc[h][f]
                    /\ hvdc'[h].bus[2] # 1

InScene ==
    /\ scene \notin {"island", "algos"} => cut' = cut
    /\ CASE scene = "gens"    -> GenMay({1, 2}, {"on", "bus", "reg"}) /\ SvcMay({}) /\ HvdcMay({})
         [] scene = "slack"   -> GenMay({1, 3}, {"on", "reg"}) /\ SvcMay({"on"}) /\ HvdcMay({})
         [] scene = "svc"     -> GenMay({1, 2}, {"reg"}) /\ SvcMay({"on", "bus", "reg"}) /\ HvdcMay({})
         [] scene = "hvdc"    -> GenMay({}, {}) /\ SvcMay({}) /\ HvdcMay({"on", "bus", "regime", "p"})
         [] scene = "station" -> GenMay({1, 2}, {"reg", "v"}) /\ SvcMay({"on"}) /\ HvdcMay({"bus", "v"})
         [] scene = "island"  -> GenMay({2}, {"on", "reg"}) /\ SvcMay({"on"}) /\ HvdcMay({"on"})
         [] scene = "algos"   -> /\ GenMay({1, 2}, {"on", "reg"}) /\ SvcMay({}) /\ HvdcMay({"on"})
                                 /\ gen'[1].reg = 1 /\ \A h \in Hvdc : ~hvdc'[h].global \/ hvdc' = hvdc
         [] scene = "twins"   -> GenMay({1, 2}, {"bus", "reg"}) /\ SvcMay({}) /\ HvdcMay({})
    /\ line' = line \/ scene \in {"gens", "hvdc", "twins", "algos"}

Changes == changes < MaxChanges /\ changes' = changes + 1 /\ UNCHANGED scene
SceneNext ==
    \/ AcChange /\ InScene /\ SoundMove /\ Changes
    \/ scene = "algos" /\ AcSelect /\ Changes
    \/ AcNewton /\ changes' = 0 /\ UNCHANGED scene
    \/ Other /\ changes' = 0 /\ UNCHANGED scene
SceneSpec == SceneInit /\ [][SceneNext]_<<acvars, scene, changes>>
=============================================================================
