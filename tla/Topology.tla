------------------------------ MODULE Topology ------------------------------
(***************************************************************************)
(* The operations of LSGrid that walk over every container: update_topo,   *)
(* consider_only_main_component and update_slack_weights.  They compose    *)
(* with the powerflows of LSGrid; two more pieces of state matter to them: *)
(* the Kron-reduced coefficients of a branch, computed when its statuses   *)
(* change and not when they are read, and the weights of the slack buses,  *)
(* which the generators keep once for the two families.                    *)
(***************************************************************************)
EXTENDS CacheReuse

CONSTANTS NbSub,         \* the number of substations
          NbBusbars,     \* the number of busbars of each (nmax_busbar_per_sub)
          Substation,    \* [Positions -> 0..NbSub-1]: where each element side stands
          Requests       \* the vectors a client may give to update_topo

VARIABLES eff,           \* [Branches -> the statuses yac_eff was computed for]
          busWeight,     \* bus_slack_weight_, in the labelling it was computed in
          cut            \* the branches an update_topo that threw once left half updated

topology == <<eff, busWeight, cut>>
allVars  == <<vars, topology>>

-----------------------------------------------------------------------------
(* The topology vector.  A client gives some of its positions a new local  *)
(* bus: 1 to NbBusbars, or -1 to disconnect.                               *)

Positions == ({"load"} \X Loads) \cup ({"gen"} \X Gens) \cup ({"side1", "side2"} \X Branches)

ASSUME TopologyAssumption ==
    /\ NbSub \in Nat \ {0} /\ NbBusbars \in Nat \ {0}
    /\ Buses = 0 .. (NbSub * NbBusbars - 1)
    /\ 1 \in SlackWeights \cup Levels
    /\ Substation \in [Positions -> 0 .. (NbSub - 1)]
    /\ \A request \in Requests : /\ DOMAIN request \subseteq Positions
                                 /\ request \in [DOMAIN request -> Int]

(* Mutant: local buses counted from 0.                                     *)
LocalToGridmodelFrom0(sub, busbar) == sub + busbar * NbSub

(* local_to_gridmodel and its inverse.                                     *)
LocalToGridmodel(sub, busbar) == sub + (busbar - 1) * NbSub
SubIdOfBus(bus) == bus % NbSub

Disconnected == -1
Refused(busbar) == busbar < Disconnected \/ busbar > NbBusbars

(* OneSideContainer::update_topo: what one position does to the element,   *)
(* or to the side of a branch, it stands for.  A 0 is neither refused nor  *)
(* obeyed.                                                                 *)
Connects(busbar) == busbar > 0
NewOn(on, busbar) == IF busbar = 0 THEN on ELSE Connects(busbar)
NewBus(bus, position, busbar) ==
    IF Connects(busbar) THEN LocalToGridmodel(Substation[position], busbar) ELSE bus

(* The containers in the order update_topo walks them.                     *)
Turn(position) ==
    CASE position[1] = "load" -> 1
      [] position[1] = "gen"  -> 2
      [] position[1] = "side1" -> IF position[2] \in Trafos THEN 5 ELSE 3
      [] position[1] = "side2" -> IF position[2] \in Trafos THEN 6 ELSE 4
LastTurn(b) == IF b \in Trafos THEN 6 ELSE 4

Faults(request) == {p \in DOMAIN request : Refused(request[p])}

(* The sets of positions an update may get through: all of them, or those  *)
(* before the first one it refuses, in the order of the ids (which the     *)
(* model leaves open) within a container.                                  *)
Reach(request) ==
    IF Faults(request) = {} THEN {[done |-> DOMAIN request, turn |-> 7]}
    ELSE LET turn == CHOOSE t \in 1 .. 6 : /\ \E p \in Faults(request) : Turn(p) = t
                                           /\ \A p \in Faults(request) : Turn(p) >= t
             sure == {p \in DOMAIN request : Turn(p) < turn}
         IN {[done |-> sure \cup more, turn |-> turn] :
                more \in SUBSET {p \in DOMAIN request \ Faults(request) : Turn(p) = turn}}

-----------------------------------------------------------------------------
(* What the positions `done` of a request make of each element.            *)

UpdatedLoad(request, done, l) ==
    LET p == <<"load", l>> IN
    IF p \notin done THEN load[l]
    ELSE [load[l] EXCEPT !.on = NewOn(@, request[p]), !.bus = NewBus(@, p, request[p])]

UpdatedGen(request, done, g) ==
    LET p   == <<"gen", g>>
        bus == NewBus(gen[g].bus, p, request[p])
    IN IF p \notin done THEN gen[g]
       ELSE [gen[g] EXCEPT !.on = NewOn(@, request[p]), !.bus = bus,
                           !.reg = IF Remote(g) THEN @ ELSE bus]

SidedBranch(request, done, b) ==
    LET r  == branch[b]
        p1 == <<"side1", b>>
        p2 == <<"side2", b>>
    IN [r EXCEPT !.on1  = IF p1 \in done THEN NewOn(@, request[p1]) ELSE @,
                 !.bus1 = IF p1 \in done THEN NewBus(@, p1, request[p1]) ELSE @,
                 !.on2  = IF p2 \in done THEN NewOn(@, request[p2]) ELSE @,
                 !.bus2 = IF p2 \in done THEN NewBus(@, p2, request[p2]) ELSE @]

(* Once both sides of every branch of the container are updated, the       *)
(* statuses are resolved, by the side 1 then by the side 2.                *)
Resolves(turn, b) == turn > LastTurn(b)
Side1Asked(request, b) == <<"side1", b>> \in DOMAIN request
Side2Asked(request, b) == <<"side2", b>> \in DOMAIN request
ResolveIf(asked, b, r, k) == IF asked THEN ResolveStatus(b, r, k) ELSE r
(* Mutant: nothing is resolved by the side 2.                              *)
ResolvedBranchBySide1(request, turn, b, sided) ==
    IF ~Resolves(turn, b) THEN sided
    ELSE ResolveIf(Side1Asked(request, b), b, sided, 1)

ResolvedBranch(request, turn, b, sided) ==
    IF ~Resolves(turn, b) THEN sided
    ELSE ResolveIf(Side2Asked(request, b), b,
                   ResolveIf(Side1Asked(request, b), b, sided, 1), 2)

(* resolve_status says "changed" whenever it closes synchronised sides.    *)
Recomputes(request, turn, b, sided, new) ==
    /\ Resolves(turn, b)
    /\ \/ sided # branch[b] \/ new # sided
       \/ /\ b \in SynchSides /\ new.on1
          /\ Side1Asked(request, b) \/ Side2Asked(request, b)

Statuses(r) == [on1 |-> r.on1, on2 |-> r.on2, global |-> r.global]

Shifted(old, new) == old.bus1 # new.bus1 \/ old.bus2 # new.bus2

(* The flags, raised as each element changes.                              *)
LoadFlags(l, new) == IF new = load[l] THEN {} ELSE {"sbus", "one_el"}
GenFlags(g, new)  == (IF new.on # gen[g].on THEN GenStatusFlags(g) ELSE {})
                     \cup (IF new.bus # gen[g].bus
                           THEN {"sbus", "one_el"} \cup PvIf(g) \cup SlackIf(g) ELSE {})
BranchFlags(b, sided, new) == SideFlags(branch[b], sided) \cup SideFlags(sided, new)
                              \cup (IF Shifted(branch[b], sided) THEN SideOnFlags ELSE {})

(* Mutant: the flags are raised at the end, when nothing threw.            *)
UpdateFlagsAtEnd(turn, newLoad, newGen, sided, newBranch) ==
    IF turn < 7 THEN {}
    ELSE UNION ({LoadFlags(l, newLoad[l]) : l \in Loads}
                \cup {GenFlags(g, newGen[g]) : g \in Gens}
                \cup {BranchFlags(b, sided[b], newBranch[b]) : b \in Branches})

UpdateFlags(turn, newLoad, newGen, sided, newBranch) ==
    UNION ({LoadFlags(l, newLoad[l]) : l \in Loads}
           \cup {GenFlags(g, newGen[g]) : g \in Gens}
           \cup {BranchFlags(b, sided[b], newBranch[b]) : b \in Branches})

(* TrafoContainer::_update_topo: one flag for all the transformers.        *)
TrafoHook(turn, sided) ==
    IF turn > 6 /\ \E b \in Trafos : sided[b] # branch[b] THEN {"sbus"} ELSE {}

SolverKept == UNCHANGED <<cache, busStatus, snap, allow, needsRebuild, told, ready, forced, snMva>>

(* The update gets as far as `reach`; each set below has one member.       *)
UpdatesUntil(request, reach) ==
    \E newLoad \in {[l \in Loads |-> UpdatedLoad(request, reach.done, l)]},
       newGen \in {[g \in Gens |-> UpdatedGen(request, reach.done, g)]},
       sided \in {[b \in Branches |-> SidedBranch(request, reach.done, b)]} :
    \E new \in {[b \in Branches |-> ResolvedBranch(request, reach.turn, b, sided[b])]} :
    \E renewed \in {{b \in Branches : Recomputes(request, reach.turn, b, sided[b], new[b])}} :
       /\ load' = newLoad /\ gen' = newGen /\ branch' = new
       /\ eff' = [b \in Branches |-> IF b \in renewed THEN Statuses(new[b]) ELSE eff[b]]
       /\ cut' = cut \cup {b \in Branches : ~Resolves(reach.turn, b) /\ new[b] # branch[b]}
       /\ RaiseFor(UpdateFlags(reach.turn, newLoad, newGen, sided, new),
                   TrafoHook(reach.turn, sided))

UpdateTopo(request) ==
    /\ Calling("update_topo")
    /\ \E reach \in Reach(request) : UpdatesUntil(request, reach)
    /\ last' = "none"
    /\ UNCHANGED <<offIsPv, shunt, busWeight>> /\ SolverKept

-----------------------------------------------------------------------------
(* consider_only_main_component.                                           *)

(* get_graph: the branches closed on both sides.                           *)
Edges == {{branch[b].bus1, branch[b].bus2} : b \in {x \in Branches : branch[x].global /\ BothEnds(x)}}

(* The buses reached from `from`: those that no set closed under the edges *)
(* can leave out.                                                          *)
Closed(S) == \A e \in Edges : e \cap S # {} => e \subseteq S
Within(from) == {b \in Buses : \A S \in SUBSET Buses : from \in S /\ Closed(S) => b \in S}

(* The largest of the components of the slack buses; the first one found,  *)
(* in the order of the generators, when two are as large.                  *)
MainComponent ==
    LET size(g) == Cardinality(Within(gen[g].bus))
    IN Within(gen[CHOOSE g \in SlackGens :
                     \A h \in SlackGens \ {g} : size(g) > size(h) \/ (size(g) = size(h) /\ g < h)].bus)

(* disconnect_if_not_in_main_component: the bus of a side that is open is  *)
(* the last one it was on.                                                 *)
Outside(main, r) == r.bus1 \notin main \/ r.bus2 \notin main
BothOpen(r) == [r EXCEPT !.on1 = FALSE, !.on2 = FALSE]
CutOff(main, b) ==
    LET r == branch[b] IN
    IF ~r.global THEN BothOpen(r)
    ELSE IF Outside(main, r) THEN [BothOpen(r) EXCEPT !.global = b \in IgnoreGlobal]
    ELSE r

(* Mutant: the lone buses are left with what they carry.                   *)
OnlyMainLoad(main, l) == load[l]
MainLoad(main, l) == [load[l] EXCEPT !.on = @ /\ load[l].bus \in main]

(* The containers are given a control nobody reads; init_bus_status, at    *)
(* the end, tells the families whose buses are no more the same.           *)
ConsiderOnlyMainComponent ==
    /\ Calling("consider_only_main_component") /\ SlackGens # {}
    /\ \E main \in {MainComponent} :
          /\ branch' = [b \in Branches |-> CutOff(main, b)]
          /\ load' = [l \in Loads |-> MainLoad(main, l)]
          /\ gen' = [g \in Gens |-> [gen[g] EXCEPT !.on = @ /\ gen[g].bus \in main]]
          /\ shunt' = [s \in Shunts |-> [shunt[s] EXCEPT !.on = @ /\ shunt[s].bus \in main]]
    /\ busStatus' = LiveBuses'
    /\ ctl' = [f \in Families |-> ctl[f] \cup (IF snap[f] # LiveBuses' THEN {"dimension"} ELSE {})]
    /\ last' = "none"
    /\ UNCHANGED <<offIsPv, topology, cache, snap, allow, needsRebuild, told, ready, forced, snMva>>

-----------------------------------------------------------------------------
(* update_slack_weights: among the generators of `chosen`, the connected   *)
(* ones share the slack by what they produce, equally when none produces.  *)

Share(chosen, g) ==
    LET candidates == {h \in chosen : gen[h].on}
        idle       == \A h \in candidates : gen[h].p = 0
    IN CASE idle /\ g \in candidates  -> 1
         [] idle /\ g \notin candidates -> 0
         [] ~idle /\ g \in candidates -> gen[g].p
         [] ~idle /\ g \in chosen \ candidates -> 0
         [] OTHER -> gen[g].weight

SlackChangeFlags(new) ==
    (IF \E g \in Gens : new[g].weight # gen[g].weight THEN {"slack_weight"} ELSE {})
    \cup (IF \E g \in Gens : (new[g].weight > 0) # IsSlack(g) THEN {"slack_part"} ELSE {})

UpdateSlackWeights(chosen) ==
    /\ Calling("update_slack_weights")
    /\ LET new == [g \in Gens |-> [gen[g] EXCEPT !.weight = Share(chosen, g)]]
       IN gen' = new /\ Raise(SlackChangeFlags(new))
    /\ last' = "none"
    /\ UNCHANGED <<load, offIsPv, branch, shunt, topology>> /\ SolverKept

-----------------------------------------------------------------------------
(* The steps of LSGrid, and what they make of the coefficients and of the  *)
(* weights of the slack buses.                                             *)

Coefficients == eff' = [b \in Branches |-> IF branch'[b] # branch[b]
                                            THEN Statuses(branch'[b]) ELSE eff[b]]
Change == Modify /\ Coefficients /\ UNCHANGED <<cut, busWeight>>

(* Mutant: the weights are kept for the AC family only.                    *)
BusWeightAcOnly(f, k, x) ==
    IF f = "AC" /\ x.ok /\ Runs(x, k, WeightFlags) THEN x.c.wts ELSE busWeight

(* get_slack_weights_solver: the last stage of the pipeline, whichever the *)
(* family.                                                                 *)
BusWeightAfter(f, k, x) == IF x.ok /\ Runs(x, k, WeightFlags) THEN x.c.wts ELSE busWeight

Solve(f) == /\ PowerFlow(f)
            /\ busWeight' = BusWeightAfter(f, PfFlags(f), PfPrepared(f))
            /\ UNCHANGED <<eff, cut>>

Check == /\ CheckSolution
         /\ busWeight' = BusWeightAfter("AC", CheckFlags, CheckPrepared)
         /\ UNCHANGED <<eff, cut>>

TopologyInit ==
    /\ Init
    /\ eff = [b \in Branches |-> Statuses(branch[b])]
    /\ busWeight = [lab |-> {}, val |-> {}]
    /\ cut = {}

TopologyNext ==
    \/ Change
    \/ \E f \in Families : Solve(f)
    \/ Check
    \/ \E request \in Requests : UpdateTopo(request)
    \/ ConsiderOnlyMainComponent
    \/ \E chosen \in SUBSET Gens : UpdateSlackWeights(chosen)

TopologySpec == TopologyInit /\ [][TopologyNext]_allVars

(* The clean-up drops the half-open lines it ought to keep, and says so to *)
(* nobody (README.md): a sound client asks for it when there is none.      *)
NoneHalfOpen == \A b \in BranchesOn : BothEnds(b)
SoundTopologyNext == TopologyNext /\ (ConsiderOnlyMainComponent => NoneHalfOpen)
SoundTopologySpec == TopologyInit /\ [][SoundTopologyNext]_allVars

-----------------------------------------------------------------------------
(* The variables have their types.                                         *)
StatusRecord == [on1 : BOOLEAN, on2 : BOOLEAN, global : BOOLEAN]
TopologyTypeOK ==
    /\ TypeOK
    /\ eff \in [Branches -> StatusRecord]
    /\ busWeight \in [lab : SUBSET Buses, val : SUBSET WeightStamps]
    /\ cut \in SUBSET Branches

(* update_topo may throw anywhere, after it changed and flagged part of    *)
(* the grid: even so no change is lost to the next powerflow, unless a     *)
(* branch was left half updated (its global status may then be brought in  *)
(* line later, without a flag).                                            *)
FlagsSufficeOrCut == cut = {} => FlagsSuffice

(* A branch that takes part in the AC matrix does it with coefficients     *)
(* computed for the statuses it has, and these agree with one another,     *)
(* unless an update_topo that threw once left it half updated.             *)
WholeBranch(b) ==
    /\ InMatrix("AC", b) => eff[b] = Statuses(branch[b])
    /\ b \in SynchSides => branch[b].on1 = branch[b].on2
    /\ b \notin IgnoreGlobal /\ branch[b].on1 = branch[b].on2 => branch[b].global = branch[b].on1
BranchesAreWhole == \A b \in Branches \ cut : WholeBranch(b)

(* set_p_slack shares the mismatch of a bus between its slack generators   *)
(* by the weights kept once for the two families: when a powerflow gives   *)
(* its results they are those of the grid, in the labelling it used.       *)
SlackSharesCurrent == \A f \in Families :
    last = f => busWeight = [lab |-> cache[f].lab, val |-> SlackWeightsOf]

(* After the clean-up, everything that is connected hangs together with    *)
(* the slack, on the graph of what is left.                                *)
OneIsland == [][ConsiderOnlyMainComponent => LiveBuses' \subseteq MainComponent']_allVars
=============================================================================
