------------------------------ MODULE Devices ------------------------------
(***************************************************************************)
(* The devices that regulate, as the AC powerflow sees them: generators,   *)
(* static VAR compensators (SVC) and HVDC lines with their two converter   *)
(* stations.  What their containers keep and flag, and what LSGrid derives *)
(* from them for the Newton-Raphson system: the PV buses, the groups of    *)
(* controllers of a voltage, the slack buses whose voltage is free, the    *)
(* lines in angle droop, the injections.                                   *)
(* The rest of the grid keeps its buses alive, except the ones outside the *)
(* main component (`cut`): nothing is moved or reconnected there.          *)
(***************************************************************************)
EXTENDS AlgoControl, Integers, FiniteSets

CONSTANTS Buses, Gens, Svcs, Hvdc,
          SlackGens,     \* the generators that are slack
          Vsc,           \* the stations <<h, k>> that regulate the voltage of their bus
          Voltages,      \* the voltage targets (0 stands for those of the compensators)
          Powers,        \* the set points of an HVDC line (change_p)
          Regimes        \* the droop regimes (status_droop)

ASSUME DevicesAssumption ==
    /\ SlackGens \subseteq Gens
    /\ Vsc \subseteq Hvdc \X {1, 2}
    /\ Voltages \subseteq Nat \ {0}
    /\ Powers \subseteq Nat
    /\ IsFiniteSet(Buses) /\ IsFiniteSet(Gens \cup Svcs \cup Hvdc)
    /\ Gens \cap Svcs = {} /\ Hvdc \cap Svcs = {}

VARIABLES gen,       \* [Gens -> on, bus, reg, v], voltage regulators all of them
          svc,       \* [Svcs -> on, bus, reg], in VOLTAGE mode all of them
          hvdc,      \* [Hvdc -> on, bus, v (per side), global, droop, regime, p]
          line,      \* a branch of the rest of the grid: is it connected?
          cut,       \* the buses outside the main component
          flags      \* the AlgoControl of the AC family

devices == <<gen, svc, hvdc, line, cut>>

K == {1, 2}
HvdcRecord == [on : [K -> BOOLEAN], bus : [K -> Buses], v : [K -> Voltages], global : BOOLEAN,
               droop : BOOLEAN, regime : Regimes, p : Powers]
DevicesTypeOK ==
    /\ gen \in [Gens -> [on : BOOLEAN, bus : Buses, reg : Buses, v : Voltages]]
    /\ svc \in [Svcs -> [on : BOOLEAN, bus : Buses, reg : Buses]]
    /\ hvdc \in [Hvdc -> HvdcRecord]
    /\ line \in BOOLEAN
    /\ cut \in SUBSET Buses
    /\ flags \in SUBSET Flags

Flagging(raised) == flags' = flags \cup raised

-----------------------------------------------------------------------------
(* Generators (GridElements has the whole of them).                        *)

SlackFlag(g) == IF g \in SlackGens THEN {"slack_part"} ELSE {}

SetGen(g, record, raised) ==
    gen' = [gen EXCEPT ![g] = record] /\ Flagging(raised) /\ UNCHANGED <<svc, hvdc, line, cut>>

GenOff(g) == gen[g].on /\ SetGen(g, [gen[g] EXCEPT !.on = FALSE], {"sbus", "pv"} \cup SlackFlag(g))
GenOn(g)  == /\ ~gen[g].on /\ gen[g].bus \notin cut
             /\ SetGen(g, [gen[g] EXCEPT !.on = TRUE], {"sbus", "pv"} \cup SlackFlag(g))
MoveGen(g, b) ==
    /\ gen[g].bus # b /\ b \notin cut
    /\ SetGen(g, [gen[g] EXCEPT !.bus = b, !.reg = IF @ = gen[g].bus THEN b ELSE @],
              {"sbus", "one_el", "pv"} \cup SlackFlag(g))
RegulateSbus(g, b) == gen[g].reg # b /\ SetGen(g, [gen[g] EXCEPT !.reg = b], {"sbus"})  \* mutant of Regulate
Regulate(g, b) == gen[g].reg # b /\ SetGen(g, [gen[g] EXCEPT !.reg = b], {"pv", "sbus"})
ChangeV(g, v)  == gen[g].v # v /\ SetGen(g, [gen[g] EXCEPT !.v = v], {"v"})

-----------------------------------------------------------------------------
(* Static VAR compensators.                                                *)

SetSvc(s, record, raised) ==
    svc' = [svc EXCEPT ![s] = record] /\ Flagging(raised) /\ UNCHANGED <<gen, hvdc, line, cut>>

SvcFlags == {"sbus", "one_el", "pv"}
SvcOff(s) == svc[s].on /\ SetSvc(s, [svc[s] EXCEPT !.on = FALSE], SvcFlags)
SvcOn(s)  == ~svc[s].on /\ svc[s].bus \notin cut /\ SetSvc(s, [svc[s] EXCEPT !.on = TRUE], SvcFlags)

(* The bus a local controller regulates follows its own.                   *)
MoveSvc(s, b) ==
    /\ svc[s].bus # b /\ b \notin cut
    /\ SetSvc(s, [svc[s] EXCEPT !.bus = b, !.reg = IF @ = svc[s].bus THEN b ELSE @], SvcFlags)

-----------------------------------------------------------------------------
(* HVDC lines.  Their sides are not kept together; the global status       *)
(* follows them when they agree (resolve_status).                          *)

Resolved(l) == [l EXCEPT !.global = IF l.on[1] = l.on[2] THEN l.on[1] ELSE @]

SetHvdc(h, record, raised) ==
    hvdc' = [hvdc EXCEPT ![h] = record] /\ Flagging(raised) /\ UNCHANGED <<gen, svc, line, cut>>

StationFlags(was, is) == IF was = is THEN {} ELSE {"sbus", "pv"}

HvdcOff(h) ==
    /\ hvdc[h].global \/ TRUE \in {hvdc[h].on[k] : k \in K}
    /\ SetHvdc(h, [hvdc[h] EXCEPT !.on = [k \in K |-> FALSE], !.global = FALSE],
               UNION {StationFlags(hvdc[h].on[k], FALSE) : k \in K})
HvdcOn(h) ==
    /\ ~hvdc[h].global \/ FALSE \in {hvdc[h].on[k] : k \in K}
    /\ \A k \in K : hvdc[h].bus[k] \notin cut
    /\ SetHvdc(h, [hvdc[h] EXCEPT !.on = [k \in K |-> TRUE], !.global = TRUE],
               UNION {StationFlags(hvdc[h].on[k], TRUE) : k \in K})

(* deactivate_dcline_side1 and 2: the angle of the other side is lost.     *)
OpenStation(h, k) ==
    /\ hvdc[h].on[k] \/ hvdc[h].droop
    /\ SetHvdc(h, [Resolved([hvdc[h] EXCEPT !.on[k] = FALSE]) EXCEPT !.droop = FALSE],
               StationFlags(hvdc[h].on[k], FALSE))

(* Mutant: the PV buses stay the same when a station moves.                *)
MoveStationNoPv(h, k, b) ==
    /\ hvdc[h].bus[k] # b /\ b \notin cut
    /\ SetHvdc(h, Resolved([hvdc[h] EXCEPT !.bus[k] = b]), {"sbus", "one_el"})

MoveStation(h, k, b) ==
    /\ hvdc[h].bus[k] # b /\ b \notin cut
    /\ SetHvdc(h, Resolved([hvdc[h] EXCEPT !.bus[k] = b]),
               {"sbus", "one_el"} \cup (IF <<h, k>> \in Vsc THEN {"pv"} ELSE {}))

(* Mutant: the set point of the other side is kept.                        *)
ChangePHvdcOpposite(h, p) ==
    /\ hvdc[h].global /\ hvdc[h].p # p
    /\ SetHvdc(h, [hvdc[h] EXCEPT !.p = 0 - p], {"sbus"})

(* A set point that becomes or ceases to be zero may change the PV buses.  *)
ChangePHvdc(h, p) ==
    /\ hvdc[h].global /\ hvdc[h].p # p
    /\ SetHvdc(h, [hvdc[h] EXCEPT !.p = p],
               {"sbus"} \cup (IF 0 \in {p, hvdc[h].p} THEN {"pv"} ELSE {}))

ChangeVStation(h, k, v) ==
    hvdc[h].v[k] # v /\ SetHvdc(h, [hvdc[h] EXCEPT !.v[k] = v], {"v"})

SetStatusDroop(h, r) ==
    hvdc[h].droop /\ hvdc[h].regime # r /\ SetHvdc(h, [hvdc[h] EXCEPT !.regime = r], {"sbus"})

-----------------------------------------------------------------------------
(* The rest of the grid: a branch opens or closes, and the main component  *)
(* alone is kept.                                                          *)

ToggleLine == /\ line' = ~line
              /\ Flagging(IF line THEN {"coeffs_zero", "ybus", "one_el"}
                                          ELSE {"sparsity", "ybus", "one_el"})
              /\ UNCHANGED <<gen, svc, hvdc, cut>>

(* Mutant: the droop goes on across the cut.                               *)
CleanStationDroops(h, outside) ==
    LET out == {k \in K : hvdc[h].bus[k] \in outside}
    IN IF ~hvdc[h].global THEN [hvdc[h] EXCEPT !.on = [k \in K |-> FALSE]]
       ELSE IF out = K THEN [hvdc[h] EXCEPT !.on = [k \in K |-> FALSE], !.global = FALSE]
       ELSE [hvdc[h] EXCEPT !.on = [k \in K |-> @[k] /\ k \notin out]]

(* A line with both stations outside the main component is dropped; with   *)
(* one, the other station goes on injecting, without the droop.            *)
CleanStation(h, outside) ==
    LET out == {k \in K : hvdc[h].bus[k] \in outside}
    IN IF ~hvdc[h].global THEN [hvdc[h] EXCEPT !.on = [k \in K |-> FALSE]]
       ELSE IF out = {} THEN hvdc[h]
       ELSE IF out = K THEN [hvdc[h] EXCEPT !.on = [k \in K |-> FALSE], !.global = FALSE]
       ELSE [hvdc[h] EXCEPT !.on = [k \in K |-> @[k] /\ k \notin out], !.droop = FALSE]

(* Once the buses `outside` have lost their branches to the rest: the      *)
(* largest of the components with a slack generator, on or off, is kept.   *)
(* No compensator is looked at.  init_bus_status finds the others dead.    *)
OnlyMainComponent(outside) ==
    /\ outside # {} /\ cut = {}
    /\ \E g \in SlackGens : gen[g].bus \notin outside
    /\ cut' = outside
    /\ gen' = [g \in Gens |-> [gen[g] EXCEPT !.on = @ /\ gen[g].bus \notin outside]]
    /\ hvdc' = [h \in Hvdc |-> CleanStation(h, outside)]
    /\ Flagging({"dimension", "coeffs_zero", "ybus"})
    /\ UNCHANGED <<svc, line>>

DeviceStep ==
    \/ \E g \in Gens : \/ GenOff(g) \/ GenOn(g)
                       \/ \E b \in Buses : MoveGen(g, b) \/ Regulate(g, b)
                       \/ \E v \in Voltages : ChangeV(g, v)
    \/ \E s \in Svcs : SvcOff(s) \/ SvcOn(s) \/ \E b \in Buses : MoveSvc(s, b)
    \/ \E h \in Hvdc : \/ HvdcOff(h) \/ HvdcOn(h)
                       \/ \E k \in K : \/ OpenStation(h, k)
                                       \/ \E b \in Buses : MoveStation(h, k, b)
                                       \/ \E v \in Voltages : ChangeVStation(h, k, v)
                       \/ \E p \in Powers : ChangePHvdc(h, p)
                       \/ \E r \in Regimes : SetStatusDroop(h, r)
    \/ ToggleLine
    \/ \E outside \in SUBSET Buses : OnlyMainComponent(outside)

-----------------------------------------------------------------------------
(* What a powerflow derives from the devices.                              *)

Live      == Buses \ cut
GensOn    == {g \in Gens : gen[g].on}
SvcsOn    == {s \in Svcs : svc[s].on}
Stations  == {x \in Hvdc \X K : hvdc[x[1]].on[x[2]]}       \* the connected ones
StationBus(x) == hvdc[x[1]].bus[x[2]]
VscOn     == Stations \cap Vsc
Remote(g) == gen[g].reg # gen[g].bus

(* get_slack_bus_id: the buses of the slack generators, connected or not;  *)
(* get_slack_weights_solver: of the connected ones, which share the slack. *)
SlackOf  == {gen[g].bus : g \in SlackGens}
Weighted == {gen[g].bus : g \in GensOn \cap SlackGens}

(* set_vm: the buses whose voltage is set before the powerflow starts.     *)
Targets == {gen[g].reg : g \in GensOn} \cup {StationBus(x) : x \in VscOn}

(* get_group_controlled_buses                                              *)
GroupControlled == {gen[g].reg : g \in {x \in GensOn : Remote(x)}}
                   \cup {svc[s].reg : s \in SvcsOn}

(* fillpv_pq: the buses a local regulator pins, unless a group does.       *)
Pinned     == {gen[g].bus : g \in {x \in GensOn : ~Remote(x)}}
PvOf(slack) == ((Pinned \cup {StationBus(x) : x \in VscOn}) \ slack) \ GroupControlled
PqOf(slack) == Live \ (slack \cup PvOf(slack))

(* get_free_vm_slack_solver_buses; a station does not pin a slack bus.     *)
FreeVmSlack(slack) == slack \ (Pinned \ GroupControlled)

(* fill_voltage_control_solver_data: who controls which bus, towards what. *)
GenControllers == {[id |-> <<g, 0>>, bus |-> gen[g].bus, reg |-> gen[g].reg, v |-> gen[g].v] :
                      g \in {x \in GensOn : Remote(x) \/ gen[x].reg \in GroupControlled}}
SvcControllers == {[id |-> <<s, 0>>, bus |-> svc[s].bus, reg |-> svc[s].reg, v |-> 0] : s \in SvcsOn}
StationControllers ==
    {[id |-> x, bus |-> StationBus(x), reg |-> StationBus(x), v |-> hvdc[x[1]].v[x[2]]] :
        x \in {y \in VscOn : StationBus(y) \in GroupControlled}}
Controllers == GenControllers \cup SvcControllers \cup StationControllers

(* Mutant: any slack bus counts as one whose voltage is free.              *)
SupportedAtSlack(pq, slack) ==
    /\ \A c \in Controllers : {c.bus, c.reg} \subseteq (pq \cup slack) \cap Live
    /\ \A c, d \in Controllers : c.reg = d.reg => c.v = d.v
    /\ \A c \in SvcControllers : \A d \in Controllers : c.reg = d.reg => c = d

(* Each needs a reactive equation at its bus and a voltage unknown where   *)
(* it regulates; those of a bus agree, and a compensator is alone there.   *)
Supported(pq, slack) ==
    /\ \A c \in Controllers : {c.bus, c.reg} \subseteq (pq \cup FreeVmSlack(slack)) \cap Live
    /\ \A c, d \in Controllers : c.reg = d.reg => c.v = d.v
    /\ \A c \in SvcControllers : \A d \in Controllers : c.reg = d.reg => c = d

(* fill_hvdc_droop_solver_data                                             *)
DroopOn(h) == hvdc[h].droop /\ hvdc[h].global
Droops     == {[id |-> h, bus |-> hvdc[h].bus] : h \in {x \in Hvdc : DroopOn(x)}}
DroopsOk   == \A h \in Hvdc : DroopOn(h) => /\ hvdc[h].on = [k \in K |-> TRUE]
                                            /\ \A k \in K : hvdc[h].bus[k] \in Live

(* What is injected at a fixed set point: a line in droop has none.        *)
Injected == {[id |-> <<g, 0>>, bus |-> gen[g].bus, p |-> {}] : g \in GensOn}
            \cup {[id |-> x, bus |-> StationBus(x),
                   p |-> IF DroopOn(x[1]) THEN {} ELSE {hvdc[x[1]].p}] : x \in Stations}
(* init_q_vector: who shares the reactive power of the bus it is at.       *)
QTakers == {[id |-> <<g, 0>>, bus |-> gen[g].bus] : g \in {x \in GensOn : ~Remote(x)}}
           \cup {[id |-> x, bus |-> StationBus(x)] : x \in VscOn}
Injectable == \A i \in Injected : i.bus \in Live
=============================================================================
