------------------------------- MODULE Stamps -------------------------------
(***************************************************************************)
(* What a powerflow computes from the elements before it calls the         *)
(* algorithm: the live buses, the admittance matrix, the injection vector, *)
(* the slack, PV and PQ buses and the slack weights.  A matrix or a vector *)
(* is pictured by the set of the contributions summed into it; the buses   *)
(* in it are those of the grid, so that two pictures are equal when the    *)
(* same elements contribute the same values at the same places.            *)
(***************************************************************************)
EXTENDS GridElements

BranchesOn == {b \in Branches : branch[b].on1 \/ branch[b].on2}
BothEnds(b) == branch[b].on1 /\ branch[b].on2
Ends(b) == {<<k, BusOf(branch[b], k)>> : k \in {s \in Sides : On(branch[b], s)}}

LoadsOn  == {l \in Loads : load[l].on}
GensOn   == {g \in Gens : gen[g].on}
ShuntsOn == {s \in Shunts : shunt[s].on}

(* init_bus_status: a bus is live when an element is connected to it.  The *)
(* status of a branch here is the one of its side, not the global one.     *)
BranchBuses == {BusOf(branch[bk[1]], bk[2]) :
                   bk \in {x \in Branches \X Sides : On(branch[x[1]], x[2])}}
FixedBuses  == BranchBuses \cup {load[l].bus : l \in LoadsOn}
                           \cup {shunt[s].bus : s \in ShuntsOn}
LiveBuses   == FixedBuses \cup {gen[g].bus : g \in GensOn}

-----------------------------------------------------------------------------
(* The matrix: Ybus in AC, Bbus in DC.  A branch open on one side still    *)
(* contributes in AC, not in DC; shunts only contribute in AC.             *)

InMatrix(f, b) == branch[b].global /\ IF f = "AC" THEN b \in BranchesOn ELSE BothEnds(b)

BranchStamp(f, b) ==
    [id |-> b, ends |-> Ends(b), ratio |-> branch[b].ratio,
     shift |-> IF f = "AC" THEN branch[b].shift ELSE 0]

Matrix(f) ==
    [branches |-> {BranchStamp(f, b) : b \in {x \in Branches : InMatrix(f, x)}},
     shunts   |-> IF f # "AC" THEN {}
                  ELSE {[id |-> s, bus |-> shunt[s].bus, p |-> shunt[s].p, q |-> shunt[s].q] :
                           s \in ShuntsOn}]

EmptyMatrix == [branches |-> {}, shunts |-> {}]

MatrixBuses(f) ==
    {BusOf(branch[bk[1]], bk[2]) :
        bk \in {x \in Branches \X Sides : InMatrix(f, x[1]) /\ On(branch[x[1]], x[2])}}
    \cup (IF f = "AC" THEN {shunt[s].bus : s \in ShuntsOn} ELSE {})

-----------------------------------------------------------------------------
(* The injections: Sbus in AC, Pbus in DC, where the shunts and the phase  *)
(* shifters contribute as well.                                            *)

Injecting == {g \in GensOn : ~(g \in Regulating /\ ~offIsPv /\ PseudoOff(g))}
Shifting  == {b \in Trafos : branch[b].global /\ BothEnds(b) /\ branch[b].shift # 0}

Injections(f) ==
    [loads  |-> {[id |-> l, bus |-> load[l].bus, p |-> load[l].p] : l \in LoadsOn},
     gens   |-> {[id |-> g, bus |-> gen[g].bus, p |-> gen[g].p] : g \in Injecting},
     shunts |-> IF f = "AC" THEN {}
                ELSE {[id |-> s, bus |-> shunt[s].bus, p |-> shunt[s].p] : s \in ShuntsOn},
     shifts |-> IF f = "AC" THEN {}
                ELSE {[id |-> b, ends |-> Ends(b), ratio |-> branch[b].ratio,
                       shift |-> branch[b].shift] : b \in Shifting}]

NoInjections == [loads |-> {}, gens |-> {}, shunts |-> {}, shifts |-> {}]

InjectionBuses(f) ==
    {load[l].bus : l \in LoadsOn} \cup {gen[g].bus : g \in Injecting}
    \cup (IF f = "AC" THEN {}
          ELSE {shunt[s].bus : s \in ShuntsOn}
               \cup {branch[b].bus1 : b \in Shifting} \cup {branch[b].bus2 : b \in Shifting})

-----------------------------------------------------------------------------
(* Slack, PV and PQ buses, and the slack weights.                          *)

(* get_slack_bus_id: the buses of the generators flagged as slack, whether *)
(* or not they are connected.  The first in the order of the generators is *)
(* the angle reference, unless `forced` is one of them.                    *)
SlackGens  == {g \in Gens : IsSlack(g)}
SlackBuses == {gen[g].bus : g \in SlackGens}
FirstSlack == CHOOSE g \in SlackGens : \A h \in SlackGens : g <= h
SlackIds(forced) ==
    [buses |-> SlackBuses,
     reference |-> IF forced \in SlackBuses THEN forced ELSE gen[FirstSlack].bus]

(* A bus some remote regulator controls keeps its own voltage unknown.     *)
GroupBuses == {gen[g].reg : g \in {h \in Gens : Controls(h) /\ Remote(h)}}
PvClaims   == {gen[g].bus : g \in {h \in Gens : Controls(h) /\ ~Remote(h)}}
PvBuses(slack) == (PvClaims \ slack) \ GroupBuses
PqBuses(lab, slack) == lab \ (slack \cup PvBuses(slack))

(* set_vm writes the voltage target of the buses regulated by a generator. *)
TargetBuses == {gen[g].reg : g \in {h \in Gens : Controls(h)}}

WeightedGens == {g \in GensOn : IsSlack(g)}
SlackWeightsOf == {[id |-> g, bus |-> gen[g].bus, weight |-> gen[g].weight] : g \in WeightedGens}
WeightedBuses == {gen[g].bus : g \in WeightedGens}
=============================================================================
