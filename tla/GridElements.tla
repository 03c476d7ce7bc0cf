---------------------------- MODULE GridElements ----------------------------
(***************************************************************************)
(* The element containers of a grid: what each element is connected to,    *)
(* and one action per modification a client can ask of LSGrid.  An action  *)
(* updates the element and raises, for the two solver families, exactly    *)
(* the change flags its container raises.                                  *)
(***************************************************************************)
EXTENDS AlgoControl, Integers, FiniteSets

CONSTANTS Families,      \* the solver families of interest, among "AC" and "DC"
          Calls,         \* the methods of LSGrid the client uses
          Buses,         \* the buses of the grid ("gridmodel" numbering)
          Loads, Gens, Branches, Shunts,
          Trafos,        \* the branches that are transformers
          Regulating,    \* the generators whose voltage regulator is on
          Levels,        \* the active or reactive powers an element may be set to
          SlackWeights,  \* the slack weights a client may give a generator
          Ratios, Shifts,\* the ratios and the phase shifts of a transformer
          SynchSides,    \* the branches whose container keeps their sides together
                         \* (synch_status_both_side_)
          IgnoreGlobal   \* those whose global status is always on (ignore_status_global_)

ASSUME ElementsAssumption ==
    /\ Families \subseteq {"AC", "DC"}
    /\ Trafos \subseteq Branches
    /\ Regulating \subseteq Gens
    /\ Gens \subseteq Nat
    /\ Levels \subseteq Nat /\ 0 \in Levels
    /\ SlackWeights \subseteq Nat \ {0}
    /\ Ratios # {}
    /\ Shifts \subseteq Nat /\ 0 \in Shifts
    /\ SynchSides \subseteq Branches /\ IgnoreGlobal \subseteq Branches

VARIABLES load,       \* [Loads -> on, bus, p]
          gen,        \* [Gens -> on, bus, reg, p, weight]; a slack has weight > 0
          offIsPv,    \* turnedoff_gen_pv_: is a regulating generator at 0 MW still PV?
          branch,     \* [Branches -> on1, on2, global, bus1, bus2, ratio, shift]
          shunt,      \* [Shunts -> on, bus, p, q]
          ctl         \* [Families -> SUBSET Flags]: the two AlgoControl

elements == <<load, gen, offIsPv, branch, shunt>>

LoadRecord   == [on : BOOLEAN, bus : Buses, p : Levels]
GenRecord    == [on : BOOLEAN, bus : Buses, reg : Buses, p : Levels,
                 weight : SlackWeights \cup Levels]
BranchRecord == [on1 : BOOLEAN, on2 : BOOLEAN, global : BOOLEAN,
                 bus1 : Buses, bus2 : Buses, ratio : Ratios, shift : Shifts]
ShuntRecord  == [on : BOOLEAN, bus : Buses, p : Levels, q : Levels]

ElementsTypeOK ==
    /\ load \in [Loads -> LoadRecord]
    /\ gen \in [Gens -> GenRecord]
    /\ offIsPv \in BOOLEAN
    /\ branch \in [Branches -> BranchRecord]
    /\ shunt \in [Shunts -> ShuntRecord]

(* The method of LSGrid called `name` is one the client uses.              *)
Calling(name) == name \in Calls

(* Raise the flags `both` for every family, and the flags `dcOnly` for the *)
(* DC one only.                                                            *)
RaiseFor(both, dcOnly) ==
    ctl' = [f \in Families |-> ctl[f] \cup both \cup (IF f = "DC" THEN dcOnly ELSE {})]
Raise(both) == RaiseFor(both, {})

-----------------------------------------------------------------------------
(* Loads; static generators and storage units share this code              *)
(* (OneSideContainer_PQ).                                                  *)

SetLoad(l, field, value, flags) ==
    /\ load[l][field] # value
    /\ load' = [load EXCEPT ![l][field] = value]
    /\ Raise(flags)
    /\ UNCHANGED <<gen, offIsPv, branch, shunt>>

(* Mutant: a set point that is added.                                      *)
ChangePLoadAdds(l, p) == Calling("change_p_load") /\ SetLoad(l, "p", load[l].p + p, {"sbus"})

DeactivateLoad(l)   == Calling("deactivate_load") /\ SetLoad(l, "on", FALSE, {"sbus", "one_el"})
ReactivateLoad(l)   == Calling("reactivate_load") /\ SetLoad(l, "on", TRUE, {"sbus", "one_el"})
ChangeBusLoad(l, b) == Calling("change_bus_load") /\ SetLoad(l, "bus", b, {"sbus", "one_el"})
ChangePLoad(l, p)   == Calling("change_p_load")   /\ SetLoad(l, "p", p, {"sbus"})

LoadStep == \E l \in Loads :
    \/ DeactivateLoad(l) \/ ReactivateLoad(l)
    \/ \E b \in Buses : ChangeBusLoad(l, b)
    \/ \E p \in Levels : ChangePLoad(l, p)

-----------------------------------------------------------------------------
(* Generators.                                                             *)

IsSlack(g)   == gen[g].weight > 0
PseudoOff(g) == ~IsSlack(g) /\ gen[g].p = 0            \* is_pseudo_off
Remote(g)    == gen[g].reg # gen[g].bus                \* regulates_remote

(* A generator that controls a voltage: connected, regulating, and not     *)
(* turned off by the "pseudo off generators are not PV" option.            *)
Controls(g) == /\ gen[g].on /\ g \in Regulating
               /\ ~(~offIsPv /\ PseudoOff(g))

PvIf(g)    == IF g \in Regulating THEN {"pv"} ELSE {}
SlackIf(g) == IF IsSlack(g) THEN {"slack_part"} ELSE {}

GenStatusFlags(g) == {"sbus"} \cup PvIf(g) \cup SlackIf(g)
                     \cup (IF offIsPv THEN {} ELSE {"pv"})

SetGen(g, record, flags) ==
    /\ gen' = [gen EXCEPT ![g] = record]
    /\ Raise(flags)
    /\ UNCHANGED <<load, offIsPv, branch, shunt>>

DeactivateGen(g) ==
    /\ Calling("deactivate_gen") /\ gen[g].on
    /\ SetGen(g, [gen[g] EXCEPT !.on = FALSE], GenStatusFlags(g))

ReactivateGen(g) ==
    /\ Calling("reactivate_gen") /\ ~gen[g].on
    /\ SetGen(g, [gen[g] EXCEPT !.on = TRUE], GenStatusFlags(g))

(* The regulated bus of a local regulator follows the generator.           *)
ChangeBusGen(g, b) ==
    /\ Calling("change_bus_gen") /\ gen[g].bus # b
    /\ SetGen(g, [gen[g] EXCEPT !.bus = b, !.reg = IF Remote(g) THEN @ ELSE b],
              {"sbus", "one_el"} \cup PvIf(g) \cup SlackIf(g))

ChangePGen(g, p) ==
    /\ Calling("change_p_gen") /\ gen[g].p # p
    /\ SetGen(g, [gen[g] EXCEPT !.p = p],
              {"sbus"} \cup (IF ~offIsPv /\ ~IsSlack(g) /\ (p = 0 \/ gen[g].p = 0)
                             THEN {"pv"} ELSE {}))

(* Mutant: a regulated bus that is only a matter of injections.            *)
SetGenRegulatedBusSbus(g, b) ==
    /\ Calling("set_gen_regulated_bus") /\ gen[g].reg # b
    /\ SetGen(g, [gen[g] EXCEPT !.reg = b], {"sbus"})

SetGenRegulatedBus(g, b) ==
    /\ Calling("set_gen_regulated_bus") /\ gen[g].reg # b
    /\ SetGen(g, [gen[g] EXCEPT !.reg = b], {"pv", "sbus"})

AddGenSlackbus(g, w) ==
    /\ Calling("add_gen_slackbus") /\ gen[g].weight # w
    /\ SetGen(g, [gen[g] EXCEPT !.weight = w],
              {"slack_weight"} \cup (IF IsSlack(g) THEN {} ELSE {"slack_part"}))

RemoveGenSlackbus(g) ==
    /\ Calling("remove_gen_slackbus") /\ IsSlack(g)
    /\ SetGen(g, [gen[g] EXCEPT !.weight = 0], {"slack_part", "slack_weight"})

(* turnedoff_pv / turnedoff_no_pv: the flags are raised even when nothing  *)
(* changes.                                                                *)
TurnedoffPv(isPv) ==
    /\ Calling("turnedoff_pv")
    /\ offIsPv' = isPv
    /\ Raise({"slack_part", "slack_weight"})
    /\ UNCHANGED <<load, gen, branch, shunt>>

GenStep ==
    \/ \E g \in Gens :
          \/ DeactivateGen(g) \/ ReactivateGen(g)
          \/ RemoveGenSlackbus(g)
          \/ \E w \in SlackWeights : AddGenSlackbus(g, w)
          \/ \E b \in Buses : ChangeBusGen(g, b) \/ SetGenRegulatedBus(g, b)
          \/ \E p \in Levels : ChangePGen(g, p)
    \/ \E isPv \in BOOLEAN : TurnedoffPv(isPv)

-----------------------------------------------------------------------------
(* Power lines and transformers (TwoSidesContainer): each side has its own *)
(* status and bus, and the branch a global status.                         *)

Sides  == {1, 2}
On(r, k)    == IF k = 1 THEN r.on1 ELSE r.on2
BusOf(r, k) == IF k = 1 THEN r.bus1 ELSE r.bus2
SetOn(r, k, on) == IF k = 1 THEN [r EXCEPT !.on1 = on] ELSE [r EXCEPT !.on2 = on]
SetBus(r, k, b) == IF k = 1 THEN [r EXCEPT !.bus1 = b] ELSE [r EXCEPT !.bus2 = b]

(* Mutant: an open side leaves its bus connected as it was.                *)
SideOffSameBuses == {"coeffs_zero", "ybus"}

SideOffFlags == {"coeffs_zero", "ybus", "one_el"}
SideOnFlags  == {"sparsity", "ybus", "one_el"}

(* The flags the two sides raise when the branch goes from `old` to `new`. *)
SideFlags(old, new) ==
    (IF \E k \in Sides : On(old, k) /\ ~On(new, k) THEN SideOffFlags ELSE {})
    \cup (IF \E k \in Sides : ~On(old, k) /\ On(new, k) THEN SideOnFlags ELSE {})

(* resolve_status, after a change of side k: the other side follows when   *)
(* the sides are synchronised, then the global status is brought in line.  *)
Synched(b, r, k) == IF b \in SynchSides
                    THEN [r EXCEPT !.on1 = On(r, k), !.on2 = On(r, k), !.global = On(r, k)]
                    ELSE r
ResolveStatusSides(b, r, k) == Synched(b, r, k)    \* mutant of ResolveStatus: the global one is left
ResolveStatus(b, r, k) ==
    LET s == Synched(b, r, k) IN
    [s EXCEPT !.global = b \in IgnoreGlobal \/ (IF s.on1 = s.on2 THEN s.on1 ELSE s.global)]

(* A transformer that shifts the phase also injects power in DC.           *)
SbusIfTrafo(b, changed) == IF b \in Trafos /\ changed THEN {"sbus"} ELSE {}

SetBranch(b, record, both, dcOnly) ==
    /\ branch' = [branch EXCEPT ![b] = record]
    /\ RaiseFor(both, dcOnly)
    /\ UNCHANGED <<load, gen, offIsPv, shunt>>

DeactivateBranch(b) ==
    /\ Calling("deactivate_branch")
    /\ branch[b].on1 \/ branch[b].on2 \/ branch[b].global
    /\ SetBranch(b, [branch[b] EXCEPT !.on1 = FALSE, !.on2 = FALSE, !.global = b \in IgnoreGlobal],
                 SideOffFlags, SbusIfTrafo(b, branch[b].global))

ReactivateBranch(b) ==
    /\ Calling("reactivate_branch")
    /\ ~branch[b].on1 \/ ~branch[b].on2 \/ ~branch[b].global
    /\ SetBranch(b, [branch[b] EXCEPT !.on1 = TRUE, !.on2 = TRUE, !.global = TRUE],
                 SideOnFlags, SbusIfTrafo(b, ~branch[b].global))

(* Open one side only: no container raises the DC "sbus" flag here.        *)
DeactivateSide(b, k) ==
    /\ Calling("deactivate_side") /\ On(branch[b], k)
    /\ LET new == ResolveStatus(b, SetOn(branch[b], k, FALSE), k)
       IN SetBranch(b, new, SideFlags(branch[b], new), {})

ReactivateSide(b, k) ==
    /\ Calling("reactivate_side") /\ ~On(branch[b], k)
    /\ LET new == ResolveStatus(b, SetOn(branch[b], k, TRUE), k)
       IN SetBranch(b, new, SideFlags(branch[b], new), {})

ChangeBusSide(b, k, bus) ==
    /\ Calling("change_bus_branch")
    /\ LET old   == branch[b]
           moved == BusOf(old, k) # bus
           new   == ResolveStatus(b, SetBus(old, k, bus), k)
       IN SetBranch(b, new,
                    SideFlags(old, new) \cup (IF moved THEN SideOnFlags ELSE {}),
                    SbusIfTrafo(b, moved \/ new # old \/ (b \in SynchSides /\ On(old, k))))

(* Mutant: the shift is taken for a term of the matrix only.               *)
ChangeShiftTrafoAcOnly(b, shift) ==
    /\ Calling("change_shift_trafo") /\ branch[b].shift # shift
    /\ SetBranch(b, [branch[b] EXCEPT !.shift = shift], {"ybus"}, {})

ChangeRatioTrafo(b, ratio) ==
    /\ Calling("change_ratio_trafo") /\ branch[b].ratio # ratio
    /\ SetBranch(b, [branch[b] EXCEPT !.ratio = ratio], {"ybus"}, {})

ChangeShiftTrafo(b, shift) ==
    /\ Calling("change_shift_trafo") /\ branch[b].shift # shift
    /\ SetBranch(b, [branch[b] EXCEPT !.shift = shift], {"ybus"}, {"sbus"})

BranchStep ==
    \/ \E b \in Branches :
          \/ DeactivateBranch(b) \/ ReactivateBranch(b)
          \/ \E k \in Sides : \/ DeactivateSide(b, k) \/ ReactivateSide(b, k)
                              \/ \E bus \in Buses : ChangeBusSide(b, k, bus)
    \/ \E b \in Trafos : \/ \E ratio \in Ratios : ChangeRatioTrafo(b, ratio)
                          \/ \E shift \in Shifts : ChangeShiftTrafo(b, shift)

-----------------------------------------------------------------------------
(* Shunts: part of the admittance matrix in AC, of the injections in DC.   *)

SetShunt(s, field, value, flags) ==
    /\ shunt[s][field] # value
    /\ shunt' = [shunt EXCEPT ![s][field] = value]
    /\ Raise(flags)
    /\ UNCHANGED <<load, gen, offIsPv, branch>>

DeactivateShunt(s)   == Calling("deactivate_shunt") /\ SetShunt(s, "on", FALSE, {"ybus", "one_el", "sbus"})
ReactivateShunt(s)   == Calling("reactivate_shunt") /\ SetShunt(s, "on", TRUE, {"ybus", "one_el", "sbus"})
ChangeBusShunt(s, b) == Calling("change_bus_shunt") /\ SetShunt(s, "bus", b, {"ybus", "one_el", "sbus"})
ChangePShunt(s, p)   == Calling("change_p_shunt")   /\ SetShunt(s, "p", p, {"ybus", "sbus"})
ChangeQShunt(s, q)   == Calling("change_q_shunt")   /\ SetShunt(s, "q", q, {"ybus"})

ShuntStep == \E s \in Shunts :
    \/ DeactivateShunt(s) \/ ReactivateShunt(s)
    \/ \E b \in Buses : ChangeBusShunt(s, b)
    \/ \E x \in Levels : ChangePShunt(s, x) \/ ChangeQShunt(s, x)

ElementStep == LoadStep \/ GenStep \/ BranchStep \/ ShuntStep
=============================================================================
