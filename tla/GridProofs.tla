----------------------------- MODULE GridProofs -----------------------------
(***************************************************************************)
(* Proofs about the elements of a grid, for every grid: their types, the   *)
(* types of what they contribute to a powerflow, and, for each of the      *)
(* modification methods, which contributions it may change without raising *)
(* the flag that has them rebuilt (none).                                  *)
(***************************************************************************)
EXTENDS CacheReuse, WellFoundedInduction, TLAPS

CtlTypeOK == ctl \in [Families -> SUBSET Flags]

-----------------------------------------------------------------------------
(* Types.                                                                  *)

(* Raising flags keeps the flags that are up, and adds those it is given.  *)
LEMMA RaiseTyped ==
    ASSUME CtlTypeOK, NEW both \in SUBSET Flags, NEW dcOnly \in SUBSET Flags,
           RaiseFor(both, dcOnly)
    PROVE  CtlTypeOK'
BY DEF CtlTypeOK, RaiseFor

LEMMA LoadTyped ==
    ASSUME ElementsTypeOK, CtlTypeOK, LoadStep
    PROVE  ElementsTypeOK' /\ CtlTypeOK'
<1> USE DEF ElementsTypeOK, LoadRecord, SetLoad, Raise
<1> /\ {"sbus", "one_el"} \in SUBSET Flags
    /\ {"sbus"} \in SUBSET Flags
    /\ {} \in SUBSET Flags
  BY DEF Flags
<1>1. ASSUME NEW l \in Loads, DeactivateLoad(l)
      PROVE  ElementsTypeOK' /\ CtlTypeOK'
  BY <1>1, RaiseTyped DEF DeactivateLoad
<1>2. ASSUME NEW l \in Loads, ReactivateLoad(l)
      PROVE  ElementsTypeOK' /\ CtlTypeOK'
  BY <1>2, RaiseTyped DEF ReactivateLoad
<1>3. ASSUME NEW l \in Loads, NEW b \in Buses, ChangeBusLoad(l, b)
      PROVE  ElementsTypeOK' /\ CtlTypeOK'
  BY <1>3, RaiseTyped DEF ChangeBusLoad
<1>4. ASSUME NEW l \in Loads, NEW p \in Levels, ChangePLoad(l, p)
      PROVE  ElementsTypeOK' /\ CtlTypeOK'
  BY <1>4, RaiseTyped DEF ChangePLoad
<1> HIDE DEF ElementsTypeOK, LoadRecord, SetLoad, Raise
<1> QED BY <1>1, <1>2, <1>3, <1>4 DEF LoadStep

LEMMA SetGenTyped ==
    ASSUME ElementsTypeOK, CtlTypeOK, NEW g \in Gens, NEW record \in GenRecord,
           NEW flags \in SUBSET Flags, SetGen(g, record, flags)
    PROVE  ElementsTypeOK' /\ CtlTypeOK'
<1>1. CtlTypeOK'
  BY RaiseTyped, {} \in SUBSET Flags DEF SetGen, Raise
<1>2. ElementsTypeOK'
  BY DEF SetGen, ElementsTypeOK
<1> QED BY <1>1, <1>2

LEMMA GenTyped ==
    ASSUME ElementsTypeOK, CtlTypeOK, GenStep
    PROVE  ElementsTypeOK' /\ CtlTypeOK'
<1> \A g \in Gens : gen[g] \in GenRecord
  BY DEF ElementsTypeOK
<1> 0 \in Levels
  BY ElementsAssumption
<1> \A g : PvIf(g) \in SUBSET Flags /\ SlackIf(g) \in SUBSET Flags
           /\ GenStatusFlags(g) \in SUBSET Flags
  BY DEF PvIf, SlackIf, GenStatusFlags, Flags
<1> /\ {"sbus"} \in SUBSET Flags /\ {"sbus", "one_el"} \in SUBSET Flags
    /\ {"pv"} \in SUBSET Flags /\ {"pv", "sbus"} \in SUBSET Flags
    /\ {"slack_weight"} \in SUBSET Flags /\ {"slack_part"} \in SUBSET Flags
    /\ {"slack_part", "slack_weight"} \in SUBSET Flags /\ {} \in SUBSET Flags
  BY DEF Flags
<1>1. ASSUME NEW g \in Gens, DeactivateGen(g)
      PROVE  ElementsTypeOK' /\ CtlTypeOK'
  <2>1. [gen[g] EXCEPT !.on = FALSE] \in GenRecord
    BY DEF GenRecord
  <2> QED BY <1>1, <2>1, SetGenTyped DEF DeactivateGen
<1>2. ASSUME NEW g \in Gens, ReactivateGen(g)
      PROVE  ElementsTypeOK' /\ CtlTypeOK'
  <2>1. [gen[g] EXCEPT !.on = TRUE] \in GenRecord
    BY DEF GenRecord
  <2> QED BY <1>2, <2>1, SetGenTyped DEF ReactivateGen
<1>3. ASSUME NEW g \in Gens, RemoveGenSlackbus(g)
      PROVE  ElementsTypeOK' /\ CtlTypeOK'
  <2>1. [gen[g] EXCEPT !.weight = 0] \in GenRecord
    BY DEF GenRecord
  <2> QED BY <1>3, <2>1, SetGenTyped DEF RemoveGenSlackbus
<1>4. ASSUME NEW g \in Gens, NEW w \in SlackWeights, AddGenSlackbus(g, w)
      PROVE  ElementsTypeOK' /\ CtlTypeOK'
  <2>1. [gen[g] EXCEPT !.weight = w] \in GenRecord
    BY DEF GenRecord
  <2>2. {"slack_weight"} \cup (IF IsSlack(g) THEN {} ELSE {"slack_part"}) \in SUBSET Flags
    BY DEF Flags
  <2> QED BY <1>4, <2>1, <2>2, SetGenTyped DEF AddGenSlackbus
<1>5. ASSUME NEW g \in Gens, NEW b \in Buses, ChangeBusGen(g, b)
      PROVE  ElementsTypeOK' /\ CtlTypeOK'
  <2>1. [gen[g] EXCEPT !.bus = b, !.reg = IF Remote(g) THEN @ ELSE b] \in GenRecord
    BY DEF GenRecord
  <2>2. {"sbus", "one_el"} \cup PvIf(g) \cup SlackIf(g) \in SUBSET Flags
    OBVIOUS
  <2> QED BY <1>5, <2>1, <2>2, SetGenTyped DEF ChangeBusGen
<1>6. ASSUME NEW g \in Gens, NEW b \in Buses, SetGenRegulatedBus(g, b)
      PROVE  ElementsTypeOK' /\ CtlTypeOK'
  <2>1. [gen[g] EXCEPT !.reg = b] \in GenRecord
    BY DEF GenRecord
  <2> QED BY <1>6, <2>1, SetGenTyped DEF SetGenRegulatedBus
<1>7. ASSUME NEW g \in Gens, NEW p \in Levels, ChangePGen(g, p)
      PROVE  ElementsTypeOK' /\ CtlTypeOK'
  <2>1. [gen[g] EXCEPT !.p = p] \in GenRecord
    BY DEF GenRecord
  <2> DEFINE flags == {"sbus"} \cup (IF ~offIsPv /\ ~IsSlack(g) /\ (p = 0 \/ gen[g].p = 0)
                                     THEN {"pv"} ELSE {})
  <2>2. flags \in SUBSET Flags
    OBVIOUS
  <2>3. SetGen(g, [gen[g] EXCEPT !.p = p], flags)
    BY <1>7 DEF ChangePGen
  <2> HIDE DEF flags
  <2> QED BY <2>1, <2>2, <2>3, SetGenTyped
<1>8. ASSUME NEW isPv \in BOOLEAN, TurnedoffPv(isPv)
      PROVE  ElementsTypeOK' /\ CtlTypeOK'
  BY <1>8, RaiseTyped DEF TurnedoffPv, Raise, ElementsTypeOK
<1> QED BY <1>1, <1>2, <1>3, <1>4, <1>5, <1>6, <1>7, <1>8 DEF GenStep

(* What StatusConsistent says of one branch, of some branches, and a step  *)
(* that keeps it for as many branches as it held for.                      *)
Consistent(b, r) ==
    /\ b \in SynchSides => r.on1 = r.on2
    /\ IF b \in IgnoreGlobal THEN r.global ELSE r.on1 = r.on2 => r.global = r.on1
ConsistentOn(B) == \A b \in B : Consistent(b, branch[b])
KeepsConsistent == \A B \in SUBSET Branches : ConsistentOn(B) => ConsistentOn(B)'

LEMMA ConsistentEverywhere == StatusConsistent <=> ConsistentOn(Branches)
BY DEF StatusConsistent, ConsistentOn, Consistent

LEMMA SameBranchesConsistent == UNCHANGED branch => KeepsConsistent
BY DEF KeepsConsistent, ConsistentOn

LEMMA SetBranchTyped ==
    ASSUME ElementsTypeOK, CtlTypeOK, NEW b \in Branches, NEW record \in BranchRecord,
           NEW both \in SUBSET Flags, NEW dcOnly \in SUBSET Flags,
           SetBranch(b, record, both, dcOnly)
    PROVE  /\ ElementsTypeOK' /\ CtlTypeOK'
           /\ (Consistent(b, branch[b]) => Consistent(b, record)) => KeepsConsistent
<1>1. CtlTypeOK'
  BY RaiseTyped DEF SetBranch
<1>2. ElementsTypeOK'
  BY DEF SetBranch, ElementsTypeOK
<1>3. \A c \in Branches : branch'[c] = IF c = b THEN record ELSE branch[c]
  BY DEF SetBranch, ElementsTypeOK
<1>4. ASSUME Consistent(b, branch[b]) => Consistent(b, record),
             NEW B \in SUBSET Branches, ConsistentOn(B)
      PROVE  ConsistentOn(B)'
  <2>1. \A c \in B : Consistent(c, branch'[c])
    <3> HIDE DEF Consistent
    <3> QED BY <1>3, <1>4 DEF ConsistentOn
  <2> QED BY <2>1 DEF ConsistentOn, Consistent
<1> QED BY <1>1, <1>2, <1>4 DEF KeepsConsistent

(* Opening or closing one side, or moving it, goes through resolve_status, *)
(* which brings the three statuses in agreement whatever they were.        *)
LEMMA ResolveTyped ==
    ASSUME NEW b \in Branches, NEW r \in BranchRecord, NEW k \in Sides
    PROVE  /\ ResolveStatus(b, r, k) \in BranchRecord
           /\ Consistent(b, ResolveStatus(b, r, k))
<1> DEFINE s == Synched(b, r, k)
           global == b \in IgnoreGlobal \/ (IF s.on1 = s.on2 THEN s.on1 ELSE s.global)
           new == [s EXCEPT !.global = global]
<1>1. s \in BranchRecord /\ (b \in SynchSides => s.on1 = s.on2)
  BY DEF Synched, BranchRecord, On, Sides
<1> HIDE DEF s
<1>2. s.on1 \in BOOLEAN /\ s.on2 \in BOOLEAN /\ s.global \in BOOLEAN
  BY <1>1 DEF BranchRecord
<1>3. /\ global \in BOOLEAN
      /\ IF b \in IgnoreGlobal THEN global ELSE s.on1 = s.on2 => global = s.on1
  BY <1>2
<1> HIDE DEF global
<1>4. new \in BranchRecord /\ new.on1 = s.on1 /\ new.on2 = s.on2 /\ new.global = global
  BY <1>1, <1>3 DEF BranchRecord
<1>5. ResolveStatus(b, r, k) = new
  BY DEF ResolveStatus, s, global
<1> HIDE DEF new
<1> QED BY <1>1, <1>3, <1>4, <1>5 DEF Consistent

LEMMA SideTyped ==
    ASSUME NEW r \in BranchRecord, NEW k \in Sides
    PROVE  /\ \A on \in BOOLEAN : SetOn(r, k, on) \in BranchRecord
           /\ \A bus \in Buses : SetBus(r, k, bus) \in BranchRecord
BY DEF BranchRecord, SetOn, SetBus

LEMMA BranchTyped ==
    ASSUME ElementsTypeOK, CtlTypeOK, BranchStep
    PROVE  ElementsTypeOK' /\ CtlTypeOK' /\ KeepsConsistent
<1> \A b \in Branches : branch[b] \in BranchRecord
  BY DEF ElementsTypeOK
<1> \A old, new : SideFlags(old, new) \in SUBSET Flags
  BY DEF SideFlags, SideOffFlags, SideOnFlags, Flags
<1> \A b, changed : SbusIfTrafo(b, changed) \in SUBSET Flags
  BY DEF SbusIfTrafo, Flags
<1> /\ SideOffFlags \in SUBSET Flags /\ SideOnFlags \in SUBSET Flags
    /\ {"ybus"} \in SUBSET Flags /\ {"sbus"} \in SUBSET Flags /\ {} \in SUBSET Flags
  BY DEF SideOffFlags, SideOnFlags, Flags
<1>1. ASSUME NEW b \in Branches, DeactivateBranch(b)
      PROVE  ElementsTypeOK' /\ CtlTypeOK' /\ KeepsConsistent
  <2> DEFINE new == [branch[b] EXCEPT !.on1 = FALSE, !.on2 = FALSE, !.global = b \in IgnoreGlobal]
  <2>1. new \in BranchRecord /\ Consistent(b, new)
    <3> DEFINE ignored == b \in IgnoreGlobal
               off == [branch[b] EXCEPT !.on1 = FALSE, !.on2 = FALSE, !.global = ignored]
    <3>1. ignored \in BOOLEAN
      OBVIOUS
    <3> HIDE DEF ignored
    <3>2. off \in BranchRecord /\ (off.global <=> ignored) /\ ~off.on1 /\ ~off.on2
      BY <3>1 DEF BranchRecord
    <3>3. off = new
      BY DEF ignored
    <3>4. (ignored <=> b \in IgnoreGlobal)
      BY DEF ignored
    <3> HIDE DEF off, new
    <3> QED BY <3>2, <3>3, <3>4 DEF Consistent, BranchRecord
  <2>2. SetBranch(b, new, SideOffFlags, SbusIfTrafo(b, branch[b].global))
    BY <1>1 DEF DeactivateBranch
  <2> HIDE DEF new
  <2> QED BY <2>1, <2>2, SetBranchTyped
<1>2. ASSUME NEW b \in Branches, ReactivateBranch(b)
      PROVE  ElementsTypeOK' /\ CtlTypeOK' /\ KeepsConsistent
  <2> DEFINE new == [branch[b] EXCEPT !.on1 = TRUE, !.on2 = TRUE, !.global = TRUE]
  <2>1. new \in BranchRecord /\ Consistent(b, new)
    BY DEF BranchRecord, Consistent
  <2>2. SetBranch(b, new, SideOnFlags, SbusIfTrafo(b, ~branch[b].global))
    BY <1>2 DEF ReactivateBranch
  <2> HIDE DEF new
  <2> QED BY <2>1, <2>2, SetBranchTyped
<1>3. ASSUME NEW b \in Branches, NEW k \in Sides, DeactivateSide(b, k)
      PROVE  ElementsTypeOK' /\ CtlTypeOK' /\ KeepsConsistent
  <2> DEFINE new == ResolveStatus(b, SetOn(branch[b], k, FALSE), k)
  <2>1. On(branch[b], k) # FALSE /\ SetBranch(b, new, SideFlags(branch[b], new), {})
    BY <1>3 DEF DeactivateSide
  <2>2. new \in BranchRecord /\ Consistent(b, new)
    BY <2>1, SideTyped, ResolveTyped
  <2> HIDE DEF new
  <2> QED BY <2>1, <2>2, SetBranchTyped
<1>4. ASSUME NEW b \in Branches, NEW k \in Sides, ReactivateSide(b, k)
      PROVE  ElementsTypeOK' /\ CtlTypeOK' /\ KeepsConsistent
  <2> DEFINE new == ResolveStatus(b, SetOn(branch[b], k, TRUE), k)
  <2>1. On(branch[b], k) # TRUE /\ SetBranch(b, new, SideFlags(branch[b], new), {})
    BY <1>4 DEF ReactivateSide
  <2>2. new \in BranchRecord /\ Consistent(b, new)
    BY <2>1, SideTyped, ResolveTyped
  <2> HIDE DEF new
  <2> QED BY <2>1, <2>2, SetBranchTyped
<1>5. ASSUME NEW b \in Branches, NEW k \in Sides, NEW bus \in Buses, ChangeBusSide(b, k, bus)
      PROVE  ElementsTypeOK' /\ CtlTypeOK' /\ KeepsConsistent
  <2> DEFINE old   == branch[b]
             moved == BusOf(old, k) # bus
             new   == ResolveStatus(b, SetBus(old, k, bus), k)
             both  == SideFlags(old, new) \cup (IF moved THEN SideOnFlags ELSE {})
             dcOnly == SbusIfTrafo(b, moved \/ new # old \/ (b \in SynchSides /\ On(old, k)))
  <2>1. SetBranch(b, new, both, dcOnly)
    BY <1>5 DEF ChangeBusSide
  <2>2. new \in BranchRecord /\ Consistent(b, new)
    BY SideTyped, ResolveTyped
  <2>3. both \in SUBSET Flags /\ dcOnly \in SUBSET Flags
    OBVIOUS
  <2> HIDE DEF new, both, dcOnly
  <2> QED BY <2>1, <2>2, <2>3, SetBranchTyped
<1>6. ASSUME NEW b \in Trafos, NEW ratio \in Ratios, ChangeRatioTrafo(b, ratio)
      PROVE  ElementsTypeOK' /\ CtlTypeOK' /\ KeepsConsistent
  <2> DEFINE new == [branch[b] EXCEPT !.ratio = ratio]
  <2>1. b \in Branches
    BY ElementsAssumption
  <2>2. new \in BranchRecord /\ (Consistent(b, branch[b]) => Consistent(b, new))
    BY <2>1 DEF BranchRecord, Consistent
  <2>3. SetBranch(b, new, {"ybus"}, {})
    BY <1>6 DEF ChangeRatioTrafo
  <2> HIDE DEF new
  <2> QED BY <2>1, <2>2, <2>3, SetBranchTyped
<1>7. ASSUME NEW b \in Trafos, NEW shift \in Shifts, ChangeShiftTrafo(b, shift)
      PROVE  ElementsTypeOK' /\ CtlTypeOK' /\ KeepsConsistent
  <2> DEFINE new == [branch[b] EXCEPT !.shift = shift]
  <2>1. b \in Branches
    BY ElementsAssumption
  <2>2. new \in BranchRecord /\ (Consistent(b, branch[b]) => Consistent(b, new))
    BY <2>1 DEF BranchRecord, Consistent
  <2>3. SetBranch(b, new, {"ybus"}, {"sbus"})
    BY <1>7 DEF ChangeShiftTrafo
  <2> HIDE DEF new
  <2> QED BY <2>1, <2>2, <2>3, SetBranchTyped
<1> QED BY <1>1, <1>2, <1>3, <1>4, <1>5, <1>6, <1>7 DEF BranchStep

LEMMA ShuntTyped ==
    ASSUME ElementsTypeOK, CtlTypeOK, ShuntStep
    PROVE  ElementsTypeOK' /\ CtlTypeOK'
<1> USE DEF ElementsTypeOK, ShuntRecord, SetShunt, Raise
<1> /\ {"ybus", "one_el", "sbus"} \in SUBSET Flags
    /\ {"ybus", "sbus"} \in SUBSET Flags
    /\ {"ybus"} \in SUBSET Flags
    /\ {} \in SUBSET Flags
  BY DEF Flags
<1>1. ASSUME NEW s \in Shunts, DeactivateShunt(s)
      PROVE  ElementsTypeOK' /\ CtlTypeOK'
  BY <1>1, RaiseTyped DEF DeactivateShunt
<1>2. ASSUME NEW s \in Shunts, ReactivateShunt(s)
      PROVE  ElementsTypeOK' /\ CtlTypeOK'
  BY <1>2, RaiseTyped DEF ReactivateShunt
<1>3. ASSUME NEW s \in Shunts, NEW b \in Buses, ChangeBusShunt(s, b)
      PROVE  ElementsTypeOK' /\ CtlTypeOK'
  BY <1>3, RaiseTyped DEF ChangeBusShunt
<1>4. ASSUME NEW s \in Shunts, NEW p \in Levels, ChangePShunt(s, p)
      PROVE  ElementsTypeOK' /\ CtlTypeOK'
  BY <1>4, RaiseTyped DEF ChangePShunt
<1>5. ASSUME NEW s \in Shunts, NEW q \in Levels, ChangeQShunt(s, q)
      PROVE  ElementsTypeOK' /\ CtlTypeOK'
  BY <1>5, RaiseTyped DEF ChangeQShunt
<1> HIDE DEF ElementsTypeOK, ShuntRecord, SetShunt, Raise
<1> QED BY <1>1, <1>2, <1>3, <1>4, <1>5 DEF ShuntStep

(* Every modification method leaves the elements and the flags well typed, *)
(* and the three statuses of each branch in agreement if they were.        *)
LEMMA ElementTyped ==
    ASSUME ElementsTypeOK, CtlTypeOK, ElementStep
    PROVE  ElementsTypeOK' /\ CtlTypeOK' /\ KeepsConsistent
<1>1. LoadStep \/ GenStep \/ ShuntStep => branch' = branch
  BY DEF LoadStep, DeactivateLoad, ReactivateLoad, ChangeBusLoad, ChangePLoad, SetLoad,
         GenStep, DeactivateGen, ReactivateGen, ChangeBusGen, ChangePGen, SetGenRegulatedBus,
         AddGenSlackbus, RemoveGenSlackbus, TurnedoffPv, SetGen,
         ShuntStep, DeactivateShunt, ReactivateShunt, ChangeBusShunt, ChangePShunt,
         ChangeQShunt, SetShunt
<1> QED BY <1>1, SameBranchesConsistent, LoadTyped, GenTyped, BranchTyped, ShuntTyped
        DEF ElementStep

-----------------------------------------------------------------------------
(* The first slack, in the order of the generators, exists.                *)

LEMMA FirstSlackIsOne ==
    ASSUME SlackGens # {}
    PROVE  FirstSlack \in SlackGens
<1>1. SlackGens \subseteq Nat
  BY ElementsAssumption DEF SlackGens
<1> DEFINE R == OpToRel(<, Nat)
<1>2. IsWellFoundedOn(R, Nat)
  BY NatLessThanWellFounded
<1>3. \E x \in SlackGens : \A y \in SlackGens : ~(<<y, x>> \in R)
  <2> HIDE DEF R
  <2> QED BY <1>1, <1>2, WFMin
<1>4. \A x, y \in Nat : <<y, x>> \notin R => x <= y
  BY DEF OpToRel
<1>5. \E x \in SlackGens : \A y \in SlackGens : x <= y
  <2> HIDE DEF R
  <2> QED BY <1>1, <1>3, <1>4
<1> QED BY <1>5 DEF FirstSlack

-----------------------------------------------------------------------------
(* What the modification methods announce.  `Announced(f)` holds of a step *)
(* that drops no flag of the family f and that leaves every contribution   *)
(* none of its flags asks to rebuild as it was.                            *)

ControlBuses == {gen[g].bus : g \in {h \in Gens : Controls(h)}}

Untouched(f, flags) == ~AnyOf(flags, ctl'[f])
Announced(f) ==
    /\ ctl[f] \subseteq ctl'[f]
    /\ Untouched(f, StatusFlags) => UNCHANGED <<FixedBuses, GenBuses>>
    /\ Untouched(f, MatFlags) => UNCHANGED Matrix(f)
    /\ Untouched(f, SlackIdFlags) => /\ UNCHANGED <<SlackGens, SlackBuses>>
                                     /\ SlackGens # {} => UNCHANGED SlackIds(forced)
    /\ Untouched(f, SlackFlags) => UNCHANGED <<PvBuses(SlackBuses), ControlBuses>>
    /\ Untouched(f, InjFlags) => UNCHANGED Injections(f)
    /\ Untouched(f, WeightFlags) => UNCHANGED SlackWeightsOf

(* Which variables each contribution reads.                                *)
LEMMA Reads ==
    ASSUME NEW f
    PROVE  /\ UNCHANGED <<branch, shunt>> => UNCHANGED Matrix(f)
           /\ UNCHANGED <<load, gen, offIsPv, branch, shunt>> => UNCHANGED Injections(f)
           /\ UNCHANGED gen => UNCHANGED <<SlackGens, SlackBuses, GenBuses>>
           /\ UNCHANGED <<gen, forced>> => UNCHANGED SlackIds(forced)
           /\ UNCHANGED gen => UNCHANGED SlackWeightsOf
           /\ UNCHANGED <<gen, offIsPv>> => UNCHANGED <<PvBuses(SlackBuses), ControlBuses>>
           /\ UNCHANGED <<load, branch, shunt>> => UNCHANGED FixedBuses
<1>1. UNCHANGED <<branch, shunt>> => UNCHANGED Matrix(f)
  BY DEF Matrix, BranchStamp, InMatrix, BranchesOn, BothEnds, Ends, ShuntsOn
<1>2. UNCHANGED <<load, gen, offIsPv, branch, shunt>> => UNCHANGED Injections(f)
  BY DEF Injections, LoadsOn, Injecting, GensOn, PseudoOff, IsSlack, ShuntsOn, Shifting, BothEnds,
         Ends
<1>3. UNCHANGED gen => UNCHANGED <<SlackGens, SlackBuses, GenBuses>>
  BY DEF SlackGens, SlackBuses, IsSlack, GenBuses
<1>4. UNCHANGED <<gen, forced>> => UNCHANGED SlackIds(forced)
  BY <1>3 DEF SlackIds, FirstSlack
<1>5. UNCHANGED gen => UNCHANGED SlackWeightsOf
  BY DEF SlackWeightsOf, WeightedGens, GensOn, IsSlack
<1>6. UNCHANGED <<gen, offIsPv>> => UNCHANGED <<PvBuses(SlackBuses), ControlBuses>>
  BY <1>3 DEF PvBuses, PvClaims, GroupBuses, Controls, Remote, PseudoOff, IsSlack, ControlBuses
<1>7. UNCHANGED <<load, branch, shunt>> => UNCHANGED FixedBuses
  BY DEF FixedBuses, BranchBuses, LoadsOn, ShuntsOn
<1> QED BY <1>1, <1>2, <1>3, <1>4, <1>5, <1>6, <1>7

LEMMA Raises ==
    ASSUME NEW f \in Families, NEW both, NEW dcOnly, RaiseFor(both, dcOnly)
    PROVE  /\ ctl[f] \subseteq ctl'[f]
           /\ \A flags : (\E x \in both : x \in flags) => ~Untouched(f, flags)
           /\ f = "DC" => \A flags : (\E x \in dcOnly : x \in flags) => ~Untouched(f, flags)
BY DEF RaiseFor, Untouched, AnyOf

(* The data each flag has rebuilt.                                         *)
LEMMA FlagsOf ==
    /\ "sbus" \in InjFlags
    /\ "ybus" \in MatFlags
    /\ "one_el" \in StatusFlags
    /\ "pv" \in SlackFlags /\ "pv" \in InjFlags /\ "pv" \in WeightFlags
    /\ "slack_part" \in SlackIdFlags /\ "slack_part" \in SlackFlags
    /\ "slack_part" \in InjFlags /\ "slack_part" \in WeightFlags
    /\ "slack_weight" \in WeightFlags
    /\ "sparsity" \in MatFlags /\ "sparsity" \in SlackFlags /\ "sparsity" \in InjFlags
BY DEF InjFlags, MatFlags, StatusFlags, SlackFlags, WeightFlags, SlackIdFlags, LabelFlags, RedoFlags

LEMMA LoadAnnounced ==
    ASSUME ElementsTypeOK, NEW f \in Families, LoadStep, UNCHANGED forced
    PROVE  Announced(f)
<1>1. ASSUME NEW l \in Loads, NEW p \in Levels, ChangePLoad(l, p)
      PROVE  Announced(f)
  <2>1. RaiseFor({"sbus"}, {}) /\ UNCHANGED <<gen, offIsPv, branch, shunt>>
        /\ load' = [load EXCEPT ![l]["p"] = p]
    BY <1>1 DEF ChangePLoad, SetLoad, Raise
  <2>2. \A m \in Loads : load'[m].on = load[m].on /\ load'[m].bus = load[m].bus
    BY <2>1 DEF ElementsTypeOK, LoadRecord
  <2>3. UNCHANGED FixedBuses
    BY <2>1, <2>2 DEF FixedBuses, BranchBuses, LoadsOn, ShuntsOn
  <2> QED BY <2>1, <2>3, Raises, FlagsOf, Reads DEF Announced
<1>2. ASSUME NEW l \in Loads, NEW b \in Buses,
             DeactivateLoad(l) \/ ReactivateLoad(l) \/ ChangeBusLoad(l, b)
      PROVE  Announced(f)
  <2>1. RaiseFor({"sbus", "one_el"}, {}) /\ UNCHANGED <<gen, offIsPv, branch, shunt>>
    BY <1>2 DEF DeactivateLoad, ReactivateLoad, ChangeBusLoad, SetLoad, Raise
  <2> QED BY <2>1, Raises, FlagsOf, Reads DEF Announced
<1>3. \A l \in Loads : \E b \in Buses : TRUE
  BY DEF ElementsTypeOK, LoadRecord
<1> QED BY <1>1, <1>2, <1>3 DEF LoadStep

LEMMA ShuntAnnounced ==
    ASSUME ElementsTypeOK, NEW f \in Families, ShuntStep, UNCHANGED forced
    PROVE  Announced(f)
<1>1. ASSUME NEW s \in Shunts, NEW p \in Levels, ChangePShunt(s, p)
      PROVE  Announced(f)
  <2>1. RaiseFor({"ybus", "sbus"}, {}) /\ UNCHANGED <<load, gen, offIsPv, branch>>
        /\ shunt' = [shunt EXCEPT ![s]["p"] = p]
    BY <1>1 DEF ChangePShunt, SetShunt, Raise
  <2>2. \A t \in Shunts : shunt'[t].on = shunt[t].on /\ shunt'[t].bus = shunt[t].bus
    BY <2>1 DEF ElementsTypeOK, ShuntRecord
  <2>3. UNCHANGED FixedBuses
    BY <2>1, <2>2 DEF FixedBuses, BranchBuses, LoadsOn, ShuntsOn
  <2> QED BY <2>1, <2>3, Raises, FlagsOf, Reads DEF Announced
<1>2. ASSUME NEW s \in Shunts, NEW q \in Levels, ChangeQShunt(s, q)
      PROVE  Announced(f)
  <2>1. RaiseFor({"ybus"}, {}) /\ UNCHANGED <<load, gen, offIsPv, branch>>
        /\ shunt' = [shunt EXCEPT ![s]["q"] = q]
    BY <1>2 DEF ChangeQShunt, SetShunt, Raise
  <2>2. \A t \in Shunts : shunt'[t].on = shunt[t].on /\ shunt'[t].bus = shunt[t].bus
                          /\ shunt'[t].p = shunt[t].p
    BY <2>1 DEF ElementsTypeOK, ShuntRecord
  <2>3. UNCHANGED FixedBuses
    BY <2>1, <2>2 DEF FixedBuses, BranchBuses, LoadsOn, ShuntsOn
  <2>4. UNCHANGED Injections(f)
    <3> DEFINE terms == {[id |-> t, bus |-> shunt[t].bus, p |-> shunt[t].p] : t \in ShuntsOn}
    <3>1. UNCHANGED ShuntsOn
      BY <2>2 DEF ShuntsOn
    <3>2. UNCHANGED terms
      BY <2>2, <3>1 DEF ShuntsOn
    <3>3. UNCHANGED <<LoadsOn, Injecting, Shifting>> /\ \A b : UNCHANGED Ends(b)
      BY <2>1 DEF LoadsOn, Injecting, GensOn, PseudoOff, IsSlack, Shifting, BothEnds, Ends
    <3> QED BY <2>1, <3>2, <3>3 DEF Injections
  <2> QED BY <2>1, <2>3, <2>4, Raises, FlagsOf, Reads DEF Announced
<1>3. ASSUME NEW s \in Shunts, NEW b \in Buses,
             DeactivateShunt(s) \/ ReactivateShunt(s) \/ ChangeBusShunt(s, b)
      PROVE  Announced(f)
  <2>1. RaiseFor({"ybus", "one_el", "sbus"}, {}) /\ UNCHANGED <<load, gen, offIsPv, branch>>
    BY <1>3 DEF DeactivateShunt, ReactivateShunt, ChangeBusShunt, SetShunt, Raise
  <2> QED BY <2>1, Raises, FlagsOf, Reads DEF Announced
<1>4. \A s \in Shunts : \E b \in Buses : TRUE
  BY DEF ElementsTypeOK, ShuntRecord
<1> QED BY <1>1, <1>2, <1>3, <1>4 DEF ShuntStep

(* A change of one generator, datum by datum.                              *)
SameSlacks == \A h \in Gens : /\ gen'[h].weight > 0 <=> gen[h].weight > 0
                              /\ gen[h].weight > 0 => gen'[h].bus = gen[h].bus
SameBuses == \A h \in Gens : gen'[h].bus = gen[h].bus
SameControls == \A h \in Gens : /\ Controls(h)' <=> Controls(h)
                                /\ Controls(h) => /\ gen'[h].bus = gen[h].bus
                                                  /\ gen'[h].reg = gen[h].reg
SameWeights == \A h \in Gens : /\ gen'[h].on /\ gen'[h].weight > 0 <=> gen[h].on /\ gen[h].weight > 0
                               /\ gen[h].on /\ gen[h].weight > 0 =>
                                     /\ gen'[h].bus = gen[h].bus
                                     /\ gen'[h].weight = gen[h].weight

LEMMA GenReads ==
    ASSUME NEW f
    PROVE  /\ SameSlacks => UNCHANGED <<SlackGens, SlackBuses>>
           /\ SameSlacks /\ UNCHANGED forced /\ SlackGens # {} => UNCHANGED SlackIds(forced)
           /\ SameBuses => UNCHANGED GenBuses
           /\ SameSlacks /\ SameControls => UNCHANGED <<PvBuses(SlackBuses), ControlBuses>>
           /\ SameWeights => UNCHANGED SlackWeightsOf
<1>1. SameSlacks => UNCHANGED <<SlackGens, SlackBuses>>
  BY DEF SameSlacks, SlackGens, SlackBuses, IsSlack
<1>2. SameSlacks /\ UNCHANGED forced /\ SlackGens # {} => UNCHANGED SlackIds(forced)
  <2> SUFFICES ASSUME SameSlacks, UNCHANGED forced, SlackGens # {}
               PROVE  UNCHANGED SlackIds(forced)
    OBVIOUS
  <2>1. UNCHANGED <<SlackGens, SlackBuses>>
    BY <1>1
  <2>2. UNCHANGED FirstSlack
    BY <2>1 DEF FirstSlack
  <2>3. UNCHANGED gen[FirstSlack].bus
    BY <2>2, FirstSlackIsOne DEF SameSlacks, SlackGens, IsSlack
  <2> QED BY <2>1, <2>3 DEF SlackIds
<1>3. SameBuses => UNCHANGED GenBuses
  BY DEF SameBuses, GenBuses
<1>4. SameSlacks /\ SameControls => UNCHANGED <<PvBuses(SlackBuses), ControlBuses>>
  <2>1. SameControls => UNCHANGED PvClaims
    BY DEF SameControls, PvClaims, Remote
  <2>2. SameControls => UNCHANGED GroupBuses
    BY DEF SameControls, GroupBuses, Remote
  <2>3. SameControls => UNCHANGED ControlBuses
    BY DEF SameControls, ControlBuses
  <2> QED BY <1>1, <2>1, <2>2, <2>3 DEF PvBuses
<1>5. SameWeights => UNCHANGED SlackWeightsOf
  <2> SUFFICES ASSUME SameWeights PROVE UNCHANGED SlackWeightsOf
    OBVIOUS
  <2>1. UNCHANGED WeightedGens
    BY DEF SameWeights, WeightedGens, GensOn, IsSlack
  <2> QED BY <2>1 DEF SameWeights, SlackWeightsOf, WeightedGens, GensOn, IsSlack
<1> QED BY <1>1, <1>2, <1>3, <1>4, <1>5

LEMMA GenAnnounced ==
    ASSUME ElementsTypeOK, NEW f \in Families, GenStep, UNCHANGED forced
    PROVE  Announced(f)
<1> \A g \in Gens : gen[g] \in GenRecord
  BY DEF ElementsTypeOK
(* The step changes g alone; what is left to show for each call.           *)
<1>0. ASSUME NEW g \in Gens, NEW record, NEW flags, SetGen(g, record, flags),
             Untouched(f, InjFlags) => UNCHANGED Injections(f),
             Untouched(f, StatusFlags) => SameBuses,
             Untouched(f, SlackIdFlags) => SameSlacks,
             Untouched(f, SlackFlags) => SameControls,
             Untouched(f, WeightFlags) => SameWeights
      PROVE  Announced(f)
  <2>1. RaiseFor(flags, {}) /\ UNCHANGED <<load, offIsPv, branch, shunt>>
    BY <1>0 DEF SetGen, Raise
  <2>2. Untouched(f, SlackFlags) => Untouched(f, SlackIdFlags)
    BY DEF Untouched, AnyOf, SlackFlags, SlackIdFlags, LabelFlags
  <2> QED BY <1>0, <2>1, <2>2, Raises, Reads, GenReads DEF Announced
<1>1. ASSUME NEW g \in Gens, DeactivateGen(g) \/ ReactivateGen(g)
      PROVE  Announced(f)
  <2>1. PICK on \in BOOLEAN : SetGen(g, [gen[g] EXCEPT !.on = on], GenStatusFlags(g))
    BY <1>1 DEF DeactivateGen, ReactivateGen
  <2>2. RaiseFor(GenStatusFlags(g), {}) /\ UNCHANGED offIsPv
    BY <2>1 DEF SetGen, Raise
  <2>3. /\ \A h \in Gens \ {g} : gen'[h] = gen[h]
        /\ gen'[g] = [gen[g] EXCEPT !.on = on]
    BY <2>1 DEF SetGen, ElementsTypeOK
  <2>4. gen'[g].bus = gen[g].bus /\ gen'[g].reg = gen[g].reg /\ gen'[g].p = gen[g].p
        /\ gen'[g].weight = gen[g].weight
    BY <2>3 DEF GenRecord
  <2>5. SameBuses /\ SameSlacks
    BY <2>3, <2>4 DEF SameBuses, SameSlacks
  <2>6. g \in Regulating => ~Untouched(f, SlackFlags)
    BY <2>2, Raises, FlagsOf DEF GenStatusFlags, PvIf
  <2>7. g \notin Regulating => SameControls
    BY <2>2, <2>3, <2>4 DEF SameControls, Controls, PseudoOff, IsSlack
  <2>8. IsSlack(g) => ~Untouched(f, WeightFlags)
    BY <2>2, Raises, FlagsOf DEF GenStatusFlags, SlackIf
  <2>9. ~IsSlack(g) => SameWeights
    BY <2>3, <2>4 DEF SameWeights, IsSlack
  <2>10. ~Untouched(f, InjFlags)
    BY <2>2, Raises, FlagsOf DEF GenStatusFlags
  <2> QED BY <1>0, <2>1, <2>5, <2>6, <2>7, <2>8, <2>9, <2>10
<1>2. ASSUME NEW g \in Gens, RemoveGenSlackbus(g)
      PROVE  Announced(f)
  <2>1. SetGen(g, [gen[g] EXCEPT !.weight = 0], {"slack_part", "slack_weight"})
    BY <1>2 DEF RemoveGenSlackbus
  <2>2. RaiseFor({"slack_part", "slack_weight"}, {})
    BY <2>1 DEF SetGen, Raise
  <2>3. SameBuses
    BY <2>1 DEF SetGen, SameBuses, GenRecord, ElementsTypeOK
  <2>4. /\ ~Untouched(f, InjFlags) /\ ~Untouched(f, SlackIdFlags)
        /\ ~Untouched(f, SlackFlags) /\ ~Untouched(f, WeightFlags)
    BY <2>2, Raises, FlagsOf
  <2> QED BY <1>0, <2>1, <2>3, <2>4
<1>3. ASSUME NEW g \in Gens, NEW w \in SlackWeights, AddGenSlackbus(g, w)
      PROVE  Announced(f)
  <2> DEFINE flags == {"slack_weight"} \cup (IF IsSlack(g) THEN {} ELSE {"slack_part"})
  <2>1. SetGen(g, [gen[g] EXCEPT !.weight = w], flags)
    BY <1>3 DEF AddGenSlackbus
  <2>2. RaiseFor(flags, {}) /\ UNCHANGED <<load, offIsPv, branch, shunt>>
    BY <2>1 DEF SetGen, Raise
  <2>3. /\ \A h \in Gens \ {g} : gen'[h] = gen[h]
        /\ gen'[g] = [gen[g] EXCEPT !.weight = w]
    BY <2>1 DEF SetGen, ElementsTypeOK
  <2>4. gen'[g].bus = gen[g].bus /\ gen'[g].reg = gen[g].reg /\ gen'[g].p = gen[g].p
        /\ gen'[g].on = gen[g].on /\ gen'[g].weight = w
    BY <2>3 DEF GenRecord
  <2>5. SameBuses
    BY <2>3, <2>4 DEF SameBuses
  <2>6. ~Untouched(f, WeightFlags)
    BY <2>2, Raises, FlagsOf
  <2>7. ~IsSlack(g) => /\ ~Untouched(f, InjFlags) /\ ~Untouched(f, SlackIdFlags)
                       /\ ~Untouched(f, SlackFlags)
    BY <2>2, Raises, FlagsOf
  <2>8. w > 0
    BY ElementsAssumption
  <2>9. ASSUME IsSlack(g)
        PROVE  SameSlacks /\ SameControls /\ UNCHANGED Injections(f)
    <3>1. SameSlacks
      BY <2>3, <2>4, <2>8, <2>9 DEF SameSlacks, IsSlack
    <3>2. \A h \in Gens : /\ IsSlack(h)' <=> IsSlack(h)
                          /\ gen'[h].on = gen[h].on /\ gen'[h].bus = gen[h].bus
                          /\ gen'[h].reg = gen[h].reg /\ gen'[h].p = gen[h].p
      BY <2>3, <2>4, <2>8, <2>9 DEF IsSlack
    <3>3. SameControls
      BY <2>2, <3>2 DEF SameControls, Controls, PseudoOff
    <3>4. UNCHANGED <<GensOn, Injecting>>
      BY <2>2, <3>2 DEF GensOn, Injecting, PseudoOff
    <3> DEFINE terms == {[id |-> h, bus |-> gen[h].bus, p |-> gen[h].p] : h \in Injecting}
    <3>5. UNCHANGED terms
      BY <3>2, <3>4 DEF Injecting, GensOn
    <3>6. UNCHANGED <<LoadsOn, ShuntsOn, Shifting>> /\ \A b : UNCHANGED Ends(b)
      BY <2>2 DEF LoadsOn, ShuntsOn, Shifting, BothEnds, Ends
    <3>7. UNCHANGED Injections(f)
      BY <2>2, <3>5, <3>6 DEF Injections
    <3> QED BY <3>1, <3>3, <3>7
  <2> QED BY <1>0, <2>1, <2>5, <2>6, <2>7, <2>9
<1>4. ASSUME NEW g \in Gens, NEW b \in Buses, ChangeBusGen(g, b)
      PROVE  Announced(f)
  <2> DEFINE record == [gen[g] EXCEPT !.bus = b, !.reg = IF Remote(g) THEN @ ELSE b]
             flags  == {"sbus", "one_el"} \cup PvIf(g) \cup SlackIf(g)
  <2>1. SetGen(g, record, flags)
    BY <1>4 DEF ChangeBusGen
  <2>2. RaiseFor(flags, {}) /\ UNCHANGED offIsPv
    BY <2>1 DEF SetGen, Raise
  <2>3. /\ \A h \in Gens \ {g} : gen'[h] = gen[h]
        /\ gen'[g] = record
    BY <2>1 DEF SetGen, ElementsTypeOK
  <2>4. gen'[g].on = gen[g].on /\ gen'[g].p = gen[g].p /\ gen'[g].weight = gen[g].weight
    BY <2>3 DEF GenRecord
  <2>5. ~Untouched(f, InjFlags) /\ ~Untouched(f, StatusFlags)
    BY <2>2, Raises, FlagsOf
  <2>6. IsSlack(g) => ~Untouched(f, SlackIdFlags) /\ ~Untouched(f, WeightFlags)
    BY <2>2, Raises, FlagsOf DEF SlackIf
  <2>7. ~IsSlack(g) => SameSlacks /\ SameWeights
    BY <2>3, <2>4 DEF SameSlacks, SameWeights, IsSlack
  <2>8. g \in Regulating => ~Untouched(f, SlackFlags)
    BY <2>2, Raises, FlagsOf DEF PvIf
  <2>9. g \notin Regulating => SameControls
    BY <2>2, <2>3, <2>4 DEF SameControls, Controls, PseudoOff, IsSlack
  <2> HIDE DEF record, flags
  <2> QED BY <1>0, <2>1, <2>5, <2>6, <2>7, <2>8, <2>9
<1>5. ASSUME NEW g \in Gens, NEW b \in Buses, SetGenRegulatedBus(g, b)
      PROVE  Announced(f)
  <2>1. SetGen(g, [gen[g] EXCEPT !.reg = b], {"pv", "sbus"})
    BY <1>5 DEF SetGenRegulatedBus
  <2>2. RaiseFor({"pv", "sbus"}, {})
    BY <2>1 DEF SetGen, Raise
  <2>3. SameBuses /\ SameSlacks
    BY <2>1 DEF SetGen, SameBuses, SameSlacks, GenRecord, ElementsTypeOK
  <2>4. ~Untouched(f, InjFlags) /\ ~Untouched(f, SlackFlags) /\ ~Untouched(f, WeightFlags)
    BY <2>2, Raises, FlagsOf
  <2> QED BY <1>0, <2>1, <2>3, <2>4
<1>6. ASSUME NEW g \in Gens, NEW p \in Levels, ChangePGen(g, p)
      PROVE  Announced(f)
  <2> DEFINE toggles == ~offIsPv /\ ~IsSlack(g) /\ (p = 0 \/ gen[g].p = 0)
             flags   == {"sbus"} \cup (IF toggles THEN {"pv"} ELSE {})
  <2>1. SetGen(g, [gen[g] EXCEPT !.p = p], flags)
    BY <1>6 DEF ChangePGen
  <2>2. RaiseFor(flags, {}) /\ UNCHANGED offIsPv
    BY <2>1 DEF SetGen, Raise
  <2>3. /\ \A h \in Gens \ {g} : gen'[h] = gen[h]
        /\ gen'[g] = [gen[g] EXCEPT !.p = p]
    BY <2>1 DEF SetGen, ElementsTypeOK
  <2>4. gen'[g].on = gen[g].on /\ gen'[g].bus = gen[g].bus /\ gen'[g].reg = gen[g].reg
        /\ gen'[g].weight = gen[g].weight /\ gen'[g].p = p
    BY <2>3 DEF GenRecord
  <2>5. SameBuses /\ SameSlacks /\ SameWeights
    BY <2>3, <2>4 DEF SameBuses, SameSlacks, SameWeights
  <2>6. ~Untouched(f, InjFlags)
    BY <2>2, Raises, FlagsOf
  <2>7. toggles => ~Untouched(f, SlackFlags)
    BY <2>2, Raises, FlagsOf
  <2>8. ~toggles => SameControls
    BY <2>2, <2>3, <2>4 DEF SameControls, Controls, PseudoOff, IsSlack
  <2> HIDE DEF toggles, flags
  <2> QED BY <1>0, <2>1, <2>5, <2>6, <2>7, <2>8
<1>7. ASSUME NEW isPv \in BOOLEAN, TurnedoffPv(isPv)
      PROVE  Announced(f)
  <2>1. RaiseFor({"slack_part", "slack_weight"}, {}) /\ UNCHANGED <<load, gen, branch, shunt>>
    BY <1>7 DEF TurnedoffPv, Raise
  <2> QED BY <2>1, Raises, FlagsOf, Reads DEF Announced
<1> QED BY <1>1, <1>2, <1>3, <1>4, <1>5, <1>6, <1>7 DEF GenStep

(* The terms of the shifters are the only branches among the injections.   *)
LEMMA ShiftReads ==
    ASSUME NEW f \in Families, UNCHANGED <<load, gen, offIsPv, shunt>>,
           f = "AC" \/ (/\ UNCHANGED Shifting
                        /\ \A b \in Shifting : branch'[b] = branch[b])
    PROVE  UNCHANGED Injections(f)
<1> DEFINE terms == {[id |-> b, ends |-> Ends(b), ratio |-> branch[b].ratio,
                      shift |-> branch[b].shift] : b \in Shifting}
<1>1. f # "AC" => UNCHANGED terms
  BY DEF Ends
<1>2. UNCHANGED <<LoadsOn, ShuntsOn, Injecting>>
  BY DEF LoadsOn, ShuntsOn, Injecting, GensOn, PseudoOff, IsSlack
<1> QED BY <1>1, <1>2 DEF Injections

LEMMA SetBranchAnnounced ==
    ASSUME ElementsTypeOK, NEW f \in Families, UNCHANGED forced,
           NEW b \in Branches, NEW record, NEW both, NEW dcOnly,
           SetBranch(b, record, both, dcOnly),
           Untouched(f, InjFlags) => UNCHANGED Injections(f),
           Untouched(f, StatusFlags) => /\ record.on1 = branch[b].on1 /\ record.on2 = branch[b].on2
                                        /\ record.bus1 = branch[b].bus1
                                        /\ record.bus2 = branch[b].bus2,
           Untouched(f, MatFlags) => record = branch[b]
    PROVE  Announced(f)
<1>1. RaiseFor(both, dcOnly) /\ UNCHANGED <<load, gen, offIsPv, shunt>>
  BY DEF SetBranch
<1>2. branch' = [branch EXCEPT ![b] = record]
  BY DEF SetBranch
<1>3. ASSUME Untouched(f, StatusFlags)
      PROVE  UNCHANGED FixedBuses
  <2>1. \A c \in Branches, k \in Sides : /\ On(branch'[c], k) = On(branch[c], k)
                                         /\ BusOf(branch'[c], k) = BusOf(branch[c], k)
    BY <1>2, <1>3 DEF ElementsTypeOK, On, BusOf
  <2>2. UNCHANGED BranchBuses
    BY <2>1 DEF BranchBuses
  <2> QED BY <1>1, <2>2 DEF FixedBuses, LoadsOn, ShuntsOn
<1>4. ASSUME Untouched(f, MatFlags)
      PROVE  UNCHANGED Matrix(f)
  <2>1. branch' = branch
    BY <1>2, <1>4 DEF ElementsTypeOK
  <2> QED BY <1>1, <2>1, Reads
<1> QED BY <1>1, <1>3, <1>4, Raises, Reads DEF Announced

LEMMA BranchAnnounced ==
    ASSUME ElementsTypeOK, ElementsTypeOK', StatusConsistent, SoundClient, NEW f \in Families,
           BranchStep, UNCHANGED forced
    PROVE  Announced(f)
<1> \A b \in Branches : branch[b] \in BranchRecord /\ Consistent(b, branch[b])
  BY DEF ElementsTypeOK, StatusConsistent, Consistent
<1> f = "AC" \/ f = "DC"
  BY ElementsAssumption
(* With no shift at all, the injections do not depend on the branches.     *)
<1>0. ASSUME UNCHANGED <<load, gen, offIsPv, shunt>>,
             Calling("deactivate_side") \/ Calling("change_ratio_trafo")
      PROVE  UNCHANGED Injections(f)
  <2>1. f = "AC" \/ Shifts = {0}
    BY <1>0 DEF SoundClient, Calling
  <2>2. Shifts = {0} => Shifting = {} /\ Shifting' = {}
    BY ElementsAssumption DEF Shifting, ElementsTypeOK, BranchRecord
  <2> QED BY <1>0, <2>1, <2>2, ShiftReads
<1>1. ASSUME NEW b \in Branches, DeactivateBranch(b)
      PROVE  Announced(f)
  <2> DEFINE new == [branch[b] EXCEPT !.on1 = FALSE, !.on2 = FALSE, !.global = b \in IgnoreGlobal]
  <2>1. SetBranch(b, new, SideOffFlags, SbusIfTrafo(b, branch[b].global))
    BY <1>1 DEF DeactivateBranch
  <2>2. /\ RaiseFor(SideOffFlags, SbusIfTrafo(b, branch[b].global))
        /\ UNCHANGED <<load, gen, offIsPv, shunt>>
        /\ branch' = [branch EXCEPT ![b] = new]
    BY <2>1 DEF SetBranch
  <2>3. ~Untouched(f, MatFlags) /\ ~Untouched(f, StatusFlags)
    BY <2>2, Raises, FlagsOf DEF SideOffFlags
  <2>4. ASSUME Untouched(f, InjFlags)
        PROVE  UNCHANGED Injections(f)
    <3>1. f = "AC" \/ b \notin Trafos \/ ~branch[b].global
      BY <2>2, <2>4, Raises, FlagsOf DEF SbusIfTrafo
    <3>2. b \notin Trafos \/ ~branch[b].global => b \notin Shifting
      BY DEF Shifting
    <3>3. ~(branch'[b].on1) /\ \A c \in Branches \ {b} : branch'[c] = branch[c]
      BY <2>2 DEF ElementsTypeOK, BranchRecord
    <3>4. b \notin Shifting'
      BY <3>3 DEF Shifting, BothEnds
    <3>5. b \notin Shifting => UNCHANGED Shifting /\ \A c \in Shifting : branch'[c] = branch[c]
      BY <3>3, <3>4, ElementsAssumption DEF Shifting, BothEnds
    <3> QED BY <2>2, <3>1, <3>2, <3>5, ShiftReads
  <2> QED BY <2>1, <2>3, <2>4, SetBranchAnnounced
<1>2. ASSUME NEW b \in Branches, ReactivateBranch(b)
      PROVE  Announced(f)
  <2>1. PICK record, dcOnly : SetBranch(b, record, SideOnFlags, dcOnly)
    BY <1>2 DEF ReactivateBranch
  <2>2. ~Untouched(f, MatFlags) /\ ~Untouched(f, StatusFlags) /\ ~Untouched(f, InjFlags)
    BY <2>1, Raises, FlagsOf DEF SetBranch, SideOnFlags
  <2> QED BY <2>1, <2>2, SetBranchAnnounced
<1>3. ASSUME NEW b \in Branches, NEW k \in Sides, DeactivateSide(b, k)
      PROVE  Announced(f)
  <2> DEFINE new == ResolveStatus(b, SetOn(branch[b], k, FALSE), k)
  <2>1. SetBranch(b, new, SideFlags(branch[b], new), {}) /\ On(branch[b], k)
        /\ Calling("deactivate_side")
    BY <1>3 DEF DeactivateSide
  <2>2. ~On(new, k)
    BY DEF ResolveStatus, Synched, SetOn, On, Sides, BranchRecord
  <2>3. SideOffFlags \subseteq SideFlags(branch[b], new)
    BY <2>1, <2>2 DEF SideFlags
  <2> HIDE DEF new
  <2>4. ~Untouched(f, MatFlags) /\ ~Untouched(f, StatusFlags)
    BY <2>1, <2>3, Raises, FlagsOf DEF SetBranch, SideOffFlags
  <2>5. UNCHANGED Injections(f)
    BY <1>0, <2>1 DEF SetBranch
  <2> QED BY <2>1, <2>4, <2>5, SetBranchAnnounced
<1>4. ASSUME NEW b \in Branches, NEW k \in Sides, ReactivateSide(b, k)
      PROVE  Announced(f)
  <2> DEFINE new == ResolveStatus(b, SetOn(branch[b], k, TRUE), k)
  <2>1. SetBranch(b, new, SideFlags(branch[b], new), {}) /\ ~On(branch[b], k)
    BY <1>4 DEF ReactivateSide
  <2>2. On(new, k)
    BY DEF ResolveStatus, Synched, SetOn, On, Sides, BranchRecord
  <2>3. SideOnFlags \subseteq SideFlags(branch[b], new)
    BY <2>1, <2>2 DEF SideFlags
  <2> HIDE DEF new
  <2>4. ~Untouched(f, MatFlags) /\ ~Untouched(f, StatusFlags) /\ ~Untouched(f, InjFlags)
    BY <2>1, <2>3, Raises, FlagsOf DEF SetBranch, SideOnFlags
  <2> QED BY <2>1, <2>4, SetBranchAnnounced
<1>5. ASSUME NEW b \in Branches, NEW k \in Sides, NEW bus \in Buses, ChangeBusSide(b, k, bus)
      PROVE  Announced(f)
  <2> DEFINE old   == branch[b]
             moved == BusOf(old, k) # bus
             new   == ResolveStatus(b, SetBus(old, k, bus), k)
             both  == SideFlags(old, new) \cup (IF moved THEN SideOnFlags ELSE {})
  <2>1. PICK dcOnly : SetBranch(b, new, both, dcOnly)
    BY <1>5 DEF ChangeBusSide
  <2>2. CASE moved
    <3>1. ~Untouched(f, MatFlags) /\ ~Untouched(f, StatusFlags) /\ ~Untouched(f, InjFlags)
      BY <2>1, <2>2, Raises, FlagsOf DEF SetBranch, SideOnFlags
    <3> QED BY <2>1, <3>1, SetBranchAnnounced
  <2>3. CASE ~moved
    <3>1. SetBus(old, k, bus) = old
      BY <2>3 DEF SetBus, BusOf, Sides, BranchRecord
    <3>2. ResolveStatus(b, old, k) = old
      BY ElementsAssumption DEF ResolveStatus, Synched, Consistent, On, Sides, BranchRecord
    <3>3. new = branch[b]
      BY <3>1, <3>2
    <3>4. UNCHANGED Injections(f)
      BY <2>1, <3>3, Reads DEF SetBranch, ElementsTypeOK
    <3> HIDE DEF new, both
    <3> QED BY <2>1, <3>3, <3>4, SetBranchAnnounced
  <2> QED BY <2>2, <2>3
<1>6. ASSUME NEW b \in Trafos, NEW ratio \in Ratios, ChangeRatioTrafo(b, ratio)
      PROVE  Announced(f)
  <2> DEFINE new == [branch[b] EXCEPT !.ratio = ratio]
  <2>1. SetBranch(b, new, {"ybus"}, {}) /\ Calling("change_ratio_trafo") /\ b \in Branches
    BY <1>6, ElementsAssumption DEF ChangeRatioTrafo
  <2>2. new.on1 = branch[b].on1 /\ new.on2 = branch[b].on2
        /\ new.bus1 = branch[b].bus1 /\ new.bus2 = branch[b].bus2
    BY <2>1 DEF BranchRecord
  <2>3. ~Untouched(f, MatFlags)
    BY <2>1, Raises, FlagsOf DEF SetBranch
  <2>4. UNCHANGED Injections(f)
    BY <1>0, <2>1 DEF SetBranch
  <2> HIDE DEF new
  <2> QED BY <2>1, <2>2, <2>3, <2>4, SetBranchAnnounced
<1>7. ASSUME NEW b \in Trafos, NEW shift \in Shifts, ChangeShiftTrafo(b, shift)
      PROVE  Announced(f)
  <2> DEFINE new == [branch[b] EXCEPT !.shift = shift]
  <2>1. SetBranch(b, new, {"ybus"}, {"sbus"}) /\ b \in Branches
    BY <1>7, ElementsAssumption DEF ChangeShiftTrafo
  <2>2. new.on1 = branch[b].on1 /\ new.on2 = branch[b].on2
        /\ new.bus1 = branch[b].bus1 /\ new.bus2 = branch[b].bus2
    BY <2>1 DEF BranchRecord
  <2>3. ~Untouched(f, MatFlags)
    BY <2>1, Raises, FlagsOf DEF SetBranch
  <2>4. f = "AC" => UNCHANGED Injections(f)
    BY <2>1, ShiftReads DEF SetBranch
  <2>5. f = "DC" => ~Untouched(f, InjFlags)
    BY <2>1, Raises, FlagsOf DEF SetBranch
  <2> HIDE DEF new
  <2> QED BY <2>1, <2>2, <2>3, <2>4, <2>5, SetBranchAnnounced
<1> QED BY <1>1, <1>2, <1>3, <1>4, <1>5, <1>6, <1>7 DEF BranchStep

(* Every modification method raises the flags of all that it changes.      *)
LEMMA ElementAnnounced ==
    ASSUME ElementsTypeOK, ElementsTypeOK', StatusConsistent, SoundClient, NEW f \in Families,
           ElementStep, UNCHANGED forced
    PROVE  Announced(f)
BY LoadAnnounced, GenAnnounced, BranchAnnounced, ShuntAnnounced DEF ElementStep
=============================================================================
