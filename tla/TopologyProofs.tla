--------------------------- MODULE TopologyProofs ---------------------------
(***************************************************************************)
(* Proofs about the operations that walk over every container, composed    *)
(* with the powerflows: the flags they raise, the coefficients of the      *)
(* branches, the weights of the slack buses and the main component.        *)
(***************************************************************************)
EXTENDS Topology, ReuseProofs

-----------------------------------------------------------------------------
(* The positions an update gets through.                                   *)

LEMMA LeastOfNat ==
    ASSUME NEW S \in SUBSET Nat, S # {}
    PROVE  \E m \in S : \A n \in S : m <= n
<1> DEFINE R == OpToRel(<, Nat)
<1>1. \E m \in S : \A n \in S : ~(<<n, m>> \in R)
  <2>1. IsWellFoundedOn(R, Nat)
    BY NatLessThanWellFounded
  <2> HIDE DEF R
  <2> QED BY <2>1, WFMin
<1>2. \A m, n \in Nat : <<n, m>> \notin R => m <= n
  BY DEF OpToRel
<1> HIDE DEF R
<1> QED BY <1>1, <1>2

LEMMA ReachIs ==
    ASSUME NEW request \in Requests, NEW reach \in Reach(request)
    PROVE  reach.done \subseteq DOMAIN request \ Faults(request)
<1>1. CASE Faults(request) = {}
  BY <1>1 DEF Reach
<1>2. CASE Faults(request) # {}
  <2> DEFINE First(t) == /\ \E p \in Faults(request) : Turn(p) = t
                         /\ \A p \in Faults(request) : Turn(p) >= t
             turn == CHOOSE t \in 1 .. 6 : First(t)
             turns == {Turn(p) : p \in Faults(request)}
  <2>1. Faults(request) \subseteq DOMAIN request /\ DOMAIN request \subseteq Positions
    BY TopologyAssumption DEF Faults
  <2>2. \A p \in Positions : Turn(p) \in 1 .. 6
    BY DEF Positions, Turn
  <2>3. turns \subseteq 1 .. 6 /\ turns # {}
    BY <1>2, <2>1, <2>2
  <2>4. \E t \in 1 .. 6 : First(t)
    <3>1. PICK t \in turns : \A u \in turns : t <= u
      BY <2>3, LeastOfNat
    <3>2. First(t)
      BY <2>3, <3>1
    <3> QED BY <2>3, <3>1, <3>2
  <2>5. First(turn) /\ turn \in 1 .. 6
    BY <2>4
  <2>6. \A p \in DOMAIN request : Turn(p) < turn => p \notin Faults(request)
    BY <2>1, <2>2, <2>5
  <2>7. reach \in {[done |-> {p \in DOMAIN request : Turn(p) < turn} \cup more, turn |-> turn] :
                     more \in SUBSET {p \in DOMAIN request \ Faults(request) : Turn(p) = turn}}
    BY <1>2 DEF Reach
  <2> HIDE DEF turn
  <2> QED BY <2>6, <2>7
<1> QED BY <1>1, <1>2

(* A local bus that is not refused names a bus of the grid.                *)
LEMMA NewBusTyped ==
    ASSUME NEW p \in Positions, NEW bus \in Buses, NEW busbar \in Int, ~Refused(busbar)
    PROVE  NewBus(bus, p, busbar) \in Buses
<1>1. CASE ~Connects(busbar)
  BY <1>1 DEF NewBus
<1>2. CASE Connects(busbar)
  <2> DEFINE s == Substation[p]
  <2>1. s \in 0 .. (NbSub - 1) /\ NbSub \in Nat \ {0} /\ NbBusbars \in Nat
    BY TopologyAssumption
  <2>2. busbar - 1 \in 0 .. (NbBusbars - 1)
    BY <1>2, <2>1 DEF Refused, Connects
  <2> HIDE DEF s
  <2>3. \A k \in 0 .. (NbBusbars - 1) : k * NbSub \in Nat /\ k * NbSub + NbSub <= NbSub * NbBusbars
    BY <2>1
  <2>4. s + (busbar - 1) * NbSub \in 0 .. (NbSub * NbBusbars - 1)
    BY <2>1, <2>2, <2>3
  <2> QED BY <1>2, <2>4, TopologyAssumption DEF NewBus, LocalToGridmodel, s
<1> QED BY <1>1, <1>2

-----------------------------------------------------------------------------
(* Types.                                                                  *)

LEMMA NewOnTyped ==
    ASSUME NEW on \in BOOLEAN, NEW busbar \in Int
    PROVE  NewOn(on, busbar) \in BOOLEAN
<1>1. Connects(busbar) \in BOOLEAN
  BY DEF Connects
<1> QED BY <1>1, Zenon DEF NewOn

LEMMA UpdatedTyped ==
    ASSUME ElementsTypeOK, NEW request \in Requests, NEW reach \in Reach(request)
    PROVE  /\ \A l \in Loads : UpdatedLoad(request, reach.done, l) \in LoadRecord
           /\ \A g \in Gens : UpdatedGen(request, reach.done, g) \in GenRecord
           /\ \A b \in Branches : SidedBranch(request, reach.done, b) \in BranchRecord
<1> DEFINE done == reach.done
<1>1. \A p \in done : /\ p \in Positions
                      /\ request[p] \in Int /\ ~Refused(request[p])
  BY ReachIs, TopologyAssumption DEF Faults
<1>2. \A p \in done : \A bus \in Buses : NewBus(bus, p, request[p]) \in Buses
  BY <1>1, NewBusTyped
<1> HIDE DEF done
<1>3. ASSUME NEW l \in Loads
      PROVE  UpdatedLoad(request, done, l) \in LoadRecord
  <2>1. load[l] \in LoadRecord
    BY DEF ElementsTypeOK
  <2> QED BY <1>1, <1>2, <2>1, NewOnTyped DEF UpdatedLoad, LoadRecord
<1>4. ASSUME NEW g \in Gens
      PROVE  UpdatedGen(request, done, g) \in GenRecord
  <2>1. gen[g] \in GenRecord
    BY DEF ElementsTypeOK
  <2> QED BY <1>1, <1>2, <2>1, NewOnTyped DEF UpdatedGen, GenRecord
<1>5. ASSUME NEW b \in Branches
      PROVE  SidedBranch(request, done, b) \in BranchRecord
  <2>1. branch[b] \in BranchRecord
    BY DEF ElementsTypeOK
  <2> DEFINE p1 == <<"side1", b>>
             p2 == <<"side2", b>>
             on1 == IF p1 \in done THEN NewOn(branch[b].on1, request[p1]) ELSE branch[b].on1
             on2 == IF p2 \in done THEN NewOn(branch[b].on2, request[p2]) ELSE branch[b].on2
             bus1 == IF p1 \in done THEN NewBus(branch[b].bus1, p1, request[p1]) ELSE branch[b].bus1
             bus2 == IF p2 \in done THEN NewBus(branch[b].bus2, p2, request[p2]) ELSE branch[b].bus2
  <2>2. on1 \in BOOLEAN /\ on2 \in BOOLEAN /\ bus1 \in Buses /\ bus2 \in Buses
    BY <1>1, <1>2, <2>1, NewOnTyped DEF BranchRecord
  <2>3. SidedBranch(request, done, b) =
          [branch[b] EXCEPT !.on1 = on1, !.bus1 = bus1, !.on2 = on2, !.bus2 = bus2]
    BY <2>1 DEF SidedBranch, BranchRecord
  <2> HIDE DEF on1, on2, bus1, bus2
  <2> QED BY <2>1, <2>2, <2>3 DEF BranchRecord
<1> QED BY <1>3, <1>4, <1>5 DEF done

(* What resolving makes of a branch whose sides are `sided`.               *)
LEMMA ResolvedIs ==
    ASSUME NEW request, NEW turn, NEW b \in Branches, NEW sided \in BranchRecord
    PROVE  LET new == ResolvedBranch(request, turn, b, sided)
           IN  /\ new \in BranchRecord
               /\ ~Resolves(turn, b) => new = sided
               /\ ~Side1Asked(request, b) /\ ~Side2Asked(request, b) => new = sided
               /\ Resolves(turn, b) /\ (Side1Asked(request, b) \/ Side2Asked(request, b))
                     => Consistent(b, new)
               /\ Consistent(b, sided) => new = sided
<1> DEFINE once == ResolveIf(Side1Asked(request, b), b, sided, 1)
           twice == ResolveIf(Side2Asked(request, b), b, once, 2)
<1>1. 1 \in Sides /\ 2 \in Sides
  BY DEF Sides
<1>2. ASSUME NEW r \in BranchRecord, NEW k \in Sides, Consistent(b, r)
      PROVE  ResolveStatus(b, r, k) = r
  BY <1>2, ElementsAssumption DEF ResolveStatus, Synched, Consistent, On, Sides, BranchRecord
<1>3. /\ once \in BranchRecord
      /\ Side1Asked(request, b) => Consistent(b, once)
      /\ ~Side1Asked(request, b) => once = sided
      /\ Consistent(b, sided) => once = sided
  BY <1>1, <1>2, ResolveTyped DEF ResolveIf
<1> HIDE DEF once
<1>4. /\ twice \in BranchRecord
      /\ Side2Asked(request, b) => Consistent(b, twice)
      /\ ~Side2Asked(request, b) => twice = once
      /\ Consistent(b, once) => twice = once
  BY <1>1, <1>2, <1>3, ResolveTyped DEF ResolveIf
<1> HIDE DEF twice
<1>5. ResolvedBranch(request, turn, b, sided) = IF Resolves(turn, b) THEN twice ELSE sided
  BY DEF ResolvedBranch, twice, once
<1> QED BY <1>3, <1>4, <1>5

(* update_topo, as far as it gets: what it makes of each element, of the   *)
(* coefficients of the branches, and the flags.                            *)
SidesOf(request, reach) == [b \in Branches |-> SidedBranch(request, reach.done, b)]
UpdateDoes(request, reach, sided) ==
    /\ load' = [l \in Loads |-> UpdatedLoad(request, reach.done, l)]
    /\ gen' = [g \in Gens |-> UpdatedGen(request, reach.done, g)]
    /\ branch' = [b \in Branches |-> ResolvedBranch(request, reach.turn, b, sided[b])]
    /\ eff' = [b \in Branches |-> IF Recomputes(request, reach.turn, b, sided[b], branch'[b])
                                  THEN Statuses(branch'[b]) ELSE eff[b]]
    /\ cut' = cut \cup {b \in Branches : ~Resolves(reach.turn, b) /\ branch'[b] # branch[b]}
    /\ RaiseFor(UpdateFlags(reach.turn, load', gen', sided, branch'), TrafoHook(reach.turn, sided))

LEMMA UpdateTopoDoes ==
    ASSUME NEW request, UpdateTopo(request)
    PROVE  /\ \E reach \in Reach(request) : UpdateDoes(request, reach, SidesOf(request, reach))
           /\ UNCHANGED <<offIsPv, shunt, busWeight>> /\ SolverKept /\ last' = "none"
<1>1. PICK reach \in Reach(request) : UpdatesUntil(request, reach)
  BY DEF UpdateTopo
<1> DEFINE sided == SidesOf(request, reach)
<1>2. PICK renewed : 
          /\ renewed = {b \in Branches : Recomputes(request, reach.turn, b, sided[b], branch'[b])}
          /\ load' = [l \in Loads |-> UpdatedLoad(request, reach.done, l)]
          /\ gen' = [g \in Gens |-> UpdatedGen(request, reach.done, g)]
          /\ branch' = [b \in Branches |-> ResolvedBranch(request, reach.turn, b, sided[b])]
          /\ eff' = [b \in Branches |-> IF b \in renewed THEN Statuses(branch'[b]) ELSE eff[b]]
          /\ cut' = cut \cup {b \in Branches : ~Resolves(reach.turn, b) /\ branch'[b] # branch[b]}
          /\ RaiseFor(UpdateFlags(reach.turn, load', gen', sided, branch'),
                      TrafoHook(reach.turn, sided))
  BY <1>1 DEF UpdatesUntil, SidesOf
<1>3. eff' = [b \in Branches |-> IF Recomputes(request, reach.turn, b, sided[b], branch'[b])
                                 THEN Statuses(branch'[b]) ELSE eff[b]]
  <2> HIDE DEF sided
  <2> QED BY <1>2
<1>4. UpdateDoes(request, reach, sided)
  <2> HIDE DEF sided
  <2> QED BY <1>2, <1>3 DEF UpdateDoes
<1> QED BY <1>4 DEF UpdateTopo

LEMMA StatusesTyped == \A r \in BranchRecord : Statuses(r) \in StatusRecord
BY DEF BranchRecord, Statuses, StatusRecord

LEMMA SideFlagsTyped == \A old, new : SideFlags(old, new) \in SUBSET Flags
BY DEF SideFlags, SideOffFlags, SideOnFlags, Flags

LEMMA UpdateFlagsTyped ==
    ASSUME NEW turn, NEW newLoad, NEW newGen, NEW sided, NEW newBranch
    PROVE  /\ UpdateFlags(turn, newLoad, newGen, sided, newBranch) \in SUBSET Flags
           /\ TrafoHook(turn, sided) \in SUBSET Flags
<1>1. \A l : LoadFlags(l, newLoad[l]) \in SUBSET Flags
  BY DEF LoadFlags, Flags
<1>2. \A g : GenFlags(g, newGen[g]) \in SUBSET Flags
  BY DEF GenFlags, GenStatusFlags, PvIf, SlackIf, Flags
<1>3. \A b : BranchFlags(b, sided[b], newBranch[b]) \in SUBSET Flags
  BY SideFlagsTyped DEF BranchFlags, SideOnFlags, Flags
<1>4. TrafoHook(turn, sided) \in SUBSET Flags
  BY DEF TrafoHook, Flags
<1>5. ASSUME NEW x \in UpdateFlags(turn, newLoad, newGen, sided, newBranch)
      PROVE  \/ \E l \in Loads : x \in LoadFlags(l, newLoad[l])
             \/ \E g \in Gens : x \in GenFlags(g, newGen[g])
             \/ \E b \in Branches : x \in BranchFlags(b, sided[b], newBranch[b])
  BY <1>5 DEF UpdateFlags
<1> QED BY <1>1, <1>2, <1>3, <1>4, <1>5

LEMMA UpdateTopoTyped ==
    ASSUME TopologyTypeOK, NEW request \in Requests, UpdateTopo(request)
    PROVE  TopologyTypeOK'
<1> TypeOK /\ ElementsTypeOK
  BY DEF TopologyTypeOK, TypeOK
<1>1. PICK reach \in Reach(request) : UpdateDoes(request, reach, SidesOf(request, reach))
  BY UpdateTopoDoes
<1> DEFINE sided == SidesOf(request, reach)
<1>2. \A b \in Branches : sided[b] \in BranchRecord
  BY UpdatedTyped DEF SidesOf
<1> HIDE DEF sided
<1>3. /\ load' \in [Loads -> LoadRecord] /\ gen' \in [Gens -> GenRecord]
      /\ branch' \in [Branches -> BranchRecord]
  BY <1>1, <1>2, UpdatedTyped, ResolvedIs DEF UpdateDoes, sided
<1>4. ElementsTypeOK'
  BY <1>3, UpdateTopoDoes DEF ElementsTypeOK
<1>5. CtlTypeOK'
  BY <1>1, UpdateFlagsTyped, RaiseTyped DEF UpdateDoes, TypeOK, CtlTypeOK
<1>6. eff' \in [Branches -> StatusRecord]
  BY <1>1, <1>3, StatusesTyped DEF UpdateDoes, TopologyTypeOK
<1>7. cut' \in SUBSET Branches
  BY <1>1 DEF UpdateDoes, TopologyTypeOK
<1> QED BY <1>4, <1>5, <1>6, <1>7, UpdateTopoDoes
        DEF TopologyTypeOK, TypeOK, CtlTypeOK, SolverKept

LEMMA CutOffTyped ==
    ASSUME ElementsTypeOK, NEW main, NEW b \in Branches
    PROVE  /\ CutOff(main, b) \in BranchRecord
           /\ Consistent(b, branch[b]) => Consistent(b, CutOff(main, b))
           /\ \/ CutOff(main, b) = branch[b]
              \/ /\ ~CutOff(main, b).on1 /\ ~CutOff(main, b).on2
                 /\ ~branch[b].global \/ Outside(main, branch[b])
           /\ \A k \in Sides : On(CutOff(main, b), k) =>
                 /\ On(branch[b], k) /\ branch[b].global
                 /\ BusOf(CutOff(main, b), k) = BusOf(branch[b], k)
                 /\ BusOf(branch[b], k) \in main
           /\ CutOff(main, b).bus1 = branch[b].bus1 /\ CutOff(main, b).bus2 = branch[b].bus2
<1> DEFINE r == branch[b]
           kept == b \in IgnoreGlobal
           off == [r EXCEPT !.on1 = FALSE, !.on2 = FALSE]
           out == [r EXCEPT !.on1 = FALSE, !.on2 = FALSE, !.global = kept]
<1>1. r \in BranchRecord
  BY DEF ElementsTypeOK
<1>2. kept \in BOOLEAN /\ (kept <=> b \in IgnoreGlobal)
  OBVIOUS
<1>3. CutOff(main, b) = IF ~r.global THEN off ELSE IF Outside(main, r) THEN out ELSE r
  BY <1>1 DEF CutOff, BothOpen, BranchRecord
<1> HIDE DEF kept, r
<1>4. /\ off \in BranchRecord /\ ~off.on1 /\ ~off.on2 /\ off.global = r.global
      /\ off.bus1 = r.bus1 /\ off.bus2 = r.bus2
      /\ out \in BranchRecord /\ ~out.on1 /\ ~out.on2 /\ out.global = kept
      /\ out.bus1 = r.bus1 /\ out.bus2 = r.bus2
  BY <1>1, <1>2 DEF BranchRecord
<1> HIDE DEF off, out
<1>5. Consistent(b, r) => (~r.global => Consistent(b, off)) /\ Consistent(b, out)
  BY <1>1, <1>2, <1>4 DEF Consistent, BranchRecord
<1>6. r.global /\ ~Outside(main, r) => \A k \in Sides : BusOf(r, k) \in main
  BY DEF Outside, BusOf, Sides
<1> QED BY <1>1, <1>3, <1>4, <1>5, <1>6 DEF On, Sides, r

(* The branches that the clean-up leaves, and those that are in service    *)
(* after it.                                                               *)
LEMMA CleanUpTyped ==
    ASSUME TopologyTypeOK, ConsiderOnlyMainComponent
    PROVE  TopologyTypeOK'
<1> TypeOK /\ ElementsTypeOK
  BY DEF TopologyTypeOK, TypeOK
<1> DEFINE main == MainComponent
<1>1. /\ branch' = [b \in Branches |-> CutOff(main, b)]
      /\ load' = [l \in Loads |-> MainLoad(main, l)]
      /\ gen' = [g \in Gens |-> [gen[g] EXCEPT !.on = @ /\ gen[g].bus \in main]]
      /\ shunt' = [s \in Shunts |-> [shunt[s] EXCEPT !.on = @ /\ shunt[s].bus \in main]]
  BY DEF ConsiderOnlyMainComponent
<1> HIDE DEF main
<1>2. branch' \in [Branches -> BranchRecord]
  BY <1>1, CutOffTyped
<1>3. load' \in [Loads -> LoadRecord]
  <2>1. ASSUME NEW l \in Loads
        PROVE  MainLoad(main, l) \in LoadRecord
    <3>1. load[l] \in LoadRecord
      BY DEF ElementsTypeOK
    <3>2. (load[l].on /\ load[l].bus \in main) \in BOOLEAN
      OBVIOUS
    <3> QED BY <3>1, <3>2 DEF MainLoad, LoadRecord
  <2> QED BY <1>1, <2>1
<1>4. gen' \in [Gens -> GenRecord]
  <2>1. ASSUME NEW g \in Gens
        PROVE  [gen[g] EXCEPT !.on = @ /\ gen[g].bus \in main] \in GenRecord
    <3>1. gen[g] \in GenRecord
      BY DEF ElementsTypeOK
    <3>2. (gen[g].on /\ gen[g].bus \in main) \in BOOLEAN
      OBVIOUS
    <3> QED BY <3>1, <3>2 DEF GenRecord
  <2> QED BY <1>1, <2>1
<1>5. shunt' \in [Shunts -> ShuntRecord]
  <2>1. ASSUME NEW s \in Shunts
        PROVE  [shunt[s] EXCEPT !.on = @ /\ shunt[s].bus \in main] \in ShuntRecord
    <3>1. shunt[s] \in ShuntRecord
      BY DEF ElementsTypeOK
    <3>2. (shunt[s].on /\ shunt[s].bus \in main) \in BOOLEAN
      OBVIOUS
    <3> QED BY <3>1, <3>2 DEF ShuntRecord
  <2> QED BY <1>1, <2>1
<1>6. ElementsTypeOK'
  BY <1>2, <1>3, <1>4, <1>5 DEF ElementsTypeOK, ConsiderOnlyMainComponent
<1>7. busStatus' \in SUBSET Buses
  <2>1. (ElementsTypeOK => LiveBuses \subseteq Buses)'
    BY LiveTyped, PTL
  <2> QED BY <1>6, <2>1 DEF ConsiderOnlyMainComponent
<1>8. ctl' \in [Families -> SUBSET Flags]
  BY {"dimension"} \in SUBSET Flags DEF ConsiderOnlyMainComponent, TypeOK, Flags
<1> QED BY <1>6, <1>7, <1>8 DEF ConsiderOnlyMainComponent, TopologyTypeOK, TypeOK, topology

LEMMA SlackWeightsTyped ==
    ASSUME TopologyTypeOK, NEW chosen, UpdateSlackWeights(chosen)
    PROVE  TopologyTypeOK'
<1> TypeOK /\ ElementsTypeOK
  BY DEF TopologyTypeOK, TypeOK
<1> DEFINE new == [g \in Gens |-> [gen[g] EXCEPT !.weight = Share(chosen, g)]]
<1>1. gen' = new /\ Raise(SlackChangeFlags(new))
  BY DEF UpdateSlackWeights
<1>2. ASSUME NEW g \in Gens
      PROVE  Share(chosen, g) \in SlackWeights \cup Levels
  <2>1. gen[g].p \in Levels /\ gen[g].weight \in SlackWeights \cup Levels
    BY DEF ElementsTypeOK, GenRecord
  <2> QED BY <2>1, ElementsAssumption, TopologyAssumption DEF Share
<1>3. gen' \in [Gens -> GenRecord]
  <2>1. ASSUME NEW g \in Gens
        PROVE  [gen[g] EXCEPT !.weight = Share(chosen, g)] \in GenRecord
    BY <1>2 DEF ElementsTypeOK, GenRecord
  <2> QED BY <1>1, <2>1
<1>4. CtlTypeOK'
  <2>1. \A n : SlackChangeFlags(n) \in SUBSET Flags
    BY DEF SlackChangeFlags, Flags
  <2> HIDE DEF new
  <2> QED BY <1>1, <2>1, RaiseTyped, {} \in SUBSET Flags DEF Raise, TypeOK, CtlTypeOK
<1>5. ElementsTypeOK'
  BY <1>3 DEF UpdateSlackWeights, ElementsTypeOK
<1> QED BY <1>4, <1>5
        DEF UpdateSlackWeights, TopologyTypeOK, TypeOK, CtlTypeOK, topology, SolverKept

(* What the pipelines leave of the weights of the slack buses.             *)
LEMMA WeightTyped ==
    ASSUME TopologyTypeOK, NEW f, NEW k, NEW x \in WorkRecord
    PROVE  BusWeightAfter(f, k, x) \in [lab : SUBSET Buses, val : SUBSET WeightStamps]
BY DEF BusWeightAfter, TopologyTypeOK, WorkRecord, CacheRecord

LEMMA TopologyInitTyped == TopologyInit => TopologyTypeOK
<1> SUFFICES ASSUME TopologyInit PROVE TopologyTypeOK
  OBVIOUS
<1>1. TypeOK
  BY InitTyped DEF TopologyInit, Typed
<1>2. eff \in [Branches -> StatusRecord]
  BY <1>1, StatusesTyped DEF TopologyInit, TypeOK, ElementsTypeOK
<1> QED BY <1>1, <1>2 DEF TopologyInit, TopologyTypeOK

LEMMA ChangeTyped ==
    ASSUME TopologyTypeOK, Change
    PROVE  TopologyTypeOK' /\ KeepsConsistent
<1>1. Modify /\ Coefficients /\ UNCHANGED <<cut, busWeight>> /\ TypeOK
  BY DEF Change, TopologyTypeOK
<1>2. ElementsTypeOK' /\ CtlTypeOK' /\ KeepsConsistent
  BY <1>1, ElementTyped DEF Modify, TypeOK, CtlTypeOK
<1>3. TypeOK'
  BY <1>1, <1>2 DEF Modify, TypeOK, CtlTypeOK
<1>4. eff' \in [Branches -> StatusRecord]
  BY <1>1, <1>2, StatusesTyped DEF Coefficients, ElementsTypeOK, TopologyTypeOK
<1> QED BY <1>1, <1>2, <1>3, <1>4 DEF TopologyTypeOK

LEMMA SolveTyped ==
    ASSUME TopologyTypeOK, NEW f \in Families, Solve(f)
    PROVE  TopologyTypeOK'
<1>1. PowerFlow(f) /\ UNCHANGED <<eff, cut>> /\ TypeOK
  BY DEF Solve, TopologyTypeOK
<1>2. PfPrepared(f) \in WorkRecord
  BY <1>1, PreparedTyped DEF StagesPost
<1>3. busWeight' \in [lab : SUBSET Buses, val : SUBSET WeightStamps]
  BY <1>2, WeightTyped DEF Solve
<1> QED BY <1>1, <1>3, PowerFlowTyped DEF TopologyTypeOK

LEMMA CheckTypedToo ==
    ASSUME TopologyTypeOK, Check
    PROVE  TopologyTypeOK'
<1>1. CheckSolution /\ UNCHANGED <<eff, cut>> /\ TypeOK
  BY DEF Check, TopologyTypeOK
<1>2. CheckPrepared \in WorkRecord
  BY <1>1, CheckTyped DEF StagesPost, CheckSolution
<1>3. busWeight' \in [lab : SUBSET Buses, val : SUBSET WeightStamps]
  BY <1>2, WeightTyped DEF Check
<1> QED BY <1>1, <1>3, CheckSolutionTyped DEF TopologyTypeOK

LEMMA TopologyNextTyped == TopologyTypeOK /\ [TopologyNext]_allVars => TopologyTypeOK'
<1> SUFFICES ASSUME TopologyTypeOK, [TopologyNext]_allVars PROVE TopologyTypeOK'
  OBVIOUS
<1>1. CASE UNCHANGED allVars
  BY <1>1 DEF allVars, vars, elements, solver, topology, TopologyTypeOK, TypeOK, ElementsTypeOK
<1> QED BY <1>1, ChangeTyped, SolveTyped, CheckTypedToo, UpdateTopoTyped, CleanUpTyped,
           SlackWeightsTyped DEF TopologyNext

(* Every variable has its type, in every state, whatever is asked of the   *)
(* topology vector and wherever update_topo throws.                        *)
THEOREM TopologyTypeCorrect == TopologySpec => []TopologyTypeOK
BY TopologyInitTyped, TopologyNextTyped, PTL DEF TopologySpec

-----------------------------------------------------------------------------
(* Branches.                                                               *)

(* A branch nobody asks about is left alone.                               *)
LEMMA UnaskedIsLeft ==
    ASSUME ElementsTypeOK, NEW request \in Requests, NEW reach \in Reach(request),
           NEW b \in Branches, ~Side1Asked(request, b), ~Side2Asked(request, b)
    PROVE  SidedBranch(request, reach.done, b) = branch[b]
<1>1. <<"side1", b>> \notin reach.done /\ <<"side2", b>> \notin reach.done
  BY ReachIs DEF Side1Asked, Side2Asked
<1>2. branch[b] \in BranchRecord
  BY DEF ElementsTypeOK
<1> QED BY <1>1, <1>2 DEF SidedBranch, BranchRecord

SoundBranch(b) == /\ Consistent(b, branch[b])
                  /\ InMatrix("AC", b) => eff[b] = Statuses(branch[b])
SoundBranches == \A b \in Branches \ cut : SoundBranch(b)

LEMMA SoundIsWhole == SoundBranches => BranchesAreWhole
BY DEF SoundBranches, SoundBranch, Consistent, BranchesAreWhole, WholeBranch

LEMMA SameBranchIsSound ==
    ASSUME SoundBranches, UNCHANGED branch, UNCHANGED eff, cut \subseteq cut'
    PROVE  SoundBranches'
BY DEF SoundBranches, SoundBranch, Consistent, InMatrix, BranchesOn, BothEnds, Statuses

LEMMA ChangeSound ==
    ASSUME TopologyTypeOK, SoundBranches, Change
    PROVE  SoundBranches'
<1>1. KeepsConsistent /\ UNCHANGED cut /\ Coefficients
  BY ChangeTyped DEF Change
<1>2. ConsistentOn(Branches \ cut)'
  BY <1>1 DEF SoundBranches, SoundBranch, ConsistentOn, KeepsConsistent
<1>3. ASSUME NEW b \in Branches \ cut
      PROVE  InMatrix("AC", b)' => eff'[b] = Statuses(branch'[b])
  <2>1. CASE branch'[b] = branch[b]
    <3>1. InMatrix("AC", b)' => InMatrix("AC", b)
      BY <2>1 DEF InMatrix, BranchesOn
    <3> QED BY <1>1, <2>1, <3>1 DEF Coefficients, SoundBranches, SoundBranch
  <2>2. CASE branch'[b] # branch[b]
    BY <1>1, <2>2 DEF Coefficients
  <2> QED BY <2>1, <2>2
<1> QED BY <1>1, <1>2, <1>3 DEF SoundBranches, SoundBranch, ConsistentOn, Statuses, Consistent

LEMMA UpdateSound ==
    ASSUME TopologyTypeOK, SoundBranches, NEW request \in Requests, UpdateTopo(request)
    PROVE  SoundBranches'
<1> ElementsTypeOK
  BY DEF TopologyTypeOK, TypeOK
<1>1. PICK reach \in Reach(request) : UpdateDoes(request, reach, SidesOf(request, reach))
  BY UpdateTopoDoes
<1> SUFFICES ASSUME NEW b \in Branches \ cut'
             PROVE  /\ Consistent(b, branch'[b])
                    /\ InMatrix("AC", b)' => eff'[b] = Statuses(branch'[b])
  BY DEF SoundBranches, SoundBranch, Statuses, Consistent
<1> DEFINE sided == SidedBranch(request, reach.done, b)
           new == ResolvedBranch(request, reach.turn, b, sided)
           asked == Side1Asked(request, b) \/ Side2Asked(request, b)
<1>2. branch'[b] = new /\ sided \in BranchRecord
  BY <1>1, UpdatedTyped DEF UpdateDoes, SidesOf
<1>3. eff'[b] = IF Recomputes(request, reach.turn, b, sided, new) THEN Statuses(new) ELSE eff[b]
  BY <1>1, <1>2 DEF UpdateDoes, SidesOf
<1>4. b \in Branches \ cut /\ (Resolves(reach.turn, b) \/ new = branch[b])
  BY <1>1, <1>2 DEF UpdateDoes
<1>5. /\ ~Resolves(reach.turn, b) => new = sided
      /\ ~asked => new = sided /\ sided = branch[b]
      /\ Resolves(reach.turn, b) /\ asked => Consistent(b, new)
  <2>1. ~asked => sided = branch[b]
    BY UnaskedIsLeft
  <2> HIDE DEF sided
  <2>2. /\ ~Resolves(reach.turn, b) => new = sided
        /\ ~asked => new = sided
        /\ Resolves(reach.turn, b) /\ asked => Consistent(b, new)
    BY <1>2, ResolvedIs
  <2> HIDE DEF new
  <2> QED BY <2>1, <2>2
<1>6. SoundBranch(b)
  BY <1>4 DEF SoundBranches
<1>7. Resolves(reach.turn, b) /\ new # branch[b] => Recomputes(request, reach.turn, b, sided, new)
  BY DEF Recomputes
<1> HIDE DEF sided, new
<1>8. new = branch[b] => (InMatrix("AC", b)' => InMatrix("AC", b))
  BY <1>2 DEF InMatrix, BranchesOn
<1>9. CASE new = branch[b]
  BY <1>2, <1>3, <1>6, <1>8, <1>9 DEF SoundBranch
<1>10. CASE new # branch[b]
  BY <1>2, <1>3, <1>4, <1>5, <1>7, <1>10
<1> QED BY <1>9, <1>10

LEMMA CleanUpSound ==
    ASSUME TopologyTypeOK, SoundBranches, ConsiderOnlyMainComponent
    PROVE  SoundBranches'
<1> ElementsTypeOK
  BY DEF TopologyTypeOK, TypeOK
<1>1. PICK main : branch' = [b \in Branches |-> CutOff(main, b)]
  BY DEF ConsiderOnlyMainComponent
<1>2. UNCHANGED eff /\ UNCHANGED cut
  BY DEF ConsiderOnlyMainComponent, topology
<1>3. ASSUME NEW b \in Branches \ cut
      PROVE  /\ Consistent(b, branch'[b])
             /\ InMatrix("AC", b)' => eff'[b] = Statuses(branch'[b])
  <2>1. branch'[b] = CutOff(main, b) /\ SoundBranch(b)
    BY <1>1, <1>3 DEF SoundBranches
  <2>2. Consistent(b, branch'[b])
    BY <2>1, CutOffTyped DEF SoundBranch
  <2>3. CASE branch'[b] = branch[b]
    <3>1. InMatrix("AC", b)' => InMatrix("AC", b)
      BY <2>3 DEF InMatrix, BranchesOn
    <3> QED BY <1>2, <2>1, <2>2, <2>3, <3>1 DEF SoundBranch
  <2>4. CASE ~branch'[b].on1 /\ ~branch'[b].on2
    BY <2>2, <2>4 DEF InMatrix, BranchesOn
  <2> QED BY <2>1, <2>3, <2>4, CutOffTyped
<1> QED BY <1>2, <1>3 DEF SoundBranches, SoundBranch, Consistent, Statuses

(* A powerflow touches no element, no coefficient.                         *)
LEMMA SolveLeaves ==
    /\ \A f \in Families : Solve(f) => UNCHANGED <<elements, forced, snMva, eff, cut>>
    /\ Check => UNCHANGED <<elements, forced, snMva, eff, cut>>
<1>1. ASSUME NEW f \in Families, Solve(f)
      PROVE  UNCHANGED <<elements, forced, snMva, eff, cut>>
  BY <1>1, PowerFlowEnds DEF Solve, PfThrows, PfAlgorithmThrows, PfDiverges, PfResultsThrow,
     PfConverges, Converging, Preparing
<1> QED BY <1>1 DEF Check, CheckSolution

LEMMA TopologyNextSound == TopologyTypeOK /\ SoundBranches /\ [TopologyNext]_allVars => SoundBranches'
<1> SUFFICES ASSUME TopologyTypeOK, SoundBranches, [TopologyNext]_allVars PROVE SoundBranches'
  OBVIOUS
<1>1. ASSUME \/ UNCHANGED allVars
             \/ \E f \in Families : Solve(f)
             \/ Check
             \/ \E chosen \in SUBSET Gens : UpdateSlackWeights(chosen)
      PROVE  SoundBranches'
  <2>1. UNCHANGED branch /\ UNCHANGED eff /\ UNCHANGED cut
    BY <1>1, SolveLeaves DEF allVars, vars, elements, topology, UpdateSlackWeights
  <2> QED BY <2>1, SameBranchIsSound
<1> QED BY <1>1, ChangeSound, UpdateSound, CleanUpSound DEF TopologyNext

LEMMA TopologyInitSound == TopologyInit => SoundBranches
<1> SUFFICES ASSUME TopologyInit PROVE SoundBranches
  OBVIOUS
<1>1. StatusConsistent /\ TypeOK
  BY InitTyped DEF TopologyInit, Typed
<1> QED BY <1>1, ConsistentEverywhere
        DEF TopologyInit, SoundBranches, SoundBranch, ConsistentOn

(* Whatever a sequence of calls makes of the branches, one in the AC       *)
(* matrix is there with the coefficients of the statuses it has, and these *)
(* agree, unless an update_topo that threw left it half updated.           *)
THEOREM BranchesAlwaysWhole == TopologySpec => []BranchesAreWhole
BY TopologyInitTyped, TopologyNextTyped, TopologyInitSound, TopologyNextSound, SoundIsWhole, PTL
   DEF TopologySpec

-----------------------------------------------------------------------------
(* The weights of the slack buses, one vector for the two families.        *)

(* The family's weights are those of the grid, at buses it has labelled,   *)
(* unless a flag asks for them.  This does not rest on the statuses of the *)
(* branches: it holds whatever update_topo left half updated.              *)
Shared(f) == Clean(f, WeightFlags) =>
                 /\ busWeight = [lab |-> cache[f].lab, val |-> SlackWeightsOf]
                 /\ WeightedBuses \subseteq cache[f].lab
SharedEverywhere == /\ \A f \in Families : LabelClean(f) /\ Shared(f)
                    /\ SlackSharesCurrent

LEMMA WeightedBusesRead == SlackWeightsOf' = SlackWeightsOf => WeightedBuses' = WeightedBuses
<1> DEFINE share(g) == [id |-> g, bus |-> gen[g].bus, weight |-> gen[g].weight]
<1>1. (\A g : share(g).bus = gen[g].bus) /\ (\A g : share(g)'.bus = gen'[g].bus)
  OBVIOUS
<1>2. /\ SlackWeightsOf = {share(g) : g \in WeightedGens}
      /\ SlackWeightsOf' = {share(g)' : g \in WeightedGens'}
  BY DEF SlackWeightsOf
<1> HIDE DEF share
<1>3. /\ \A b : b \in WeightedBuses <=> \E w \in SlackWeightsOf : w.bus = b
      /\ \A b : b \in WeightedBuses' <=> \E w \in SlackWeightsOf' : w.bus = b
  BY <1>1, <1>2 DEF WeightedBuses
<1> QED BY <1>3

LEMMA NoShares == last' = "none" => SlackSharesCurrent'
BY ElementsAssumption DEF SlackSharesCurrent

(* The weights read nothing but the generators.                            *)
LEMMA SharesRead == UNCHANGED gen => UNCHANGED <<SlackWeightsOf, WeightedBuses>>
<1> SUFFICES ASSUME UNCHANGED gen PROVE UNCHANGED SlackWeightsOf
  BY WeightedBusesRead
<1> QED BY DEF SlackWeightsOf, WeightedGens, GensOn, IsSlack

(* A step that touches no cache, and says so when a weight changes.        *)
LEMMA SharesStay ==
    ASSUME SharedEverywhere, UNCHANGED <<cache, busStatus, snap, busWeight>>, last' = "none",
           \A f \in Families : ctl[f] \subseteq ctl'[f],
           \A f \in Families : Untouched(f, WeightFlags) => UNCHANGED SlackWeightsOf
    PROVE  SharedEverywhere'
<1>1. ASSUME NEW f \in Families
      PROVE  LabelClean(f)' /\ Shared(f)'
  <2>1. LabelClean(f)'
    BY LabelStays DEF SharedEverywhere, StatusTold
  <2>2. Clean(f, WeightFlags)' => Clean(f, WeightFlags) /\ Untouched(f, WeightFlags)
    BY DEF Clean, AnyOf, Untouched
  <2> QED BY <2>1, <2>2, WeightedBusesRead DEF SharedEverywhere, Shared
<1> QED BY <1>1, NoShares DEF SharedEverywhere

LEMMA ChangeShares ==
    ASSUME TopologyTypeOK, SharedEverywhere, Change
    PROVE  SharedEverywhere'
<1>1. /\ ElementStep /\ UNCHANGED <<cache, busStatus, snap, busWeight, forced>> /\ last' = "none"
      /\ ElementsTypeOK
  BY DEF Change, Modify, TopologyTypeOK, TypeOK
<1>2. ASSUME NEW f \in Families
      PROVE  /\ ctl[f] \subseteq ctl'[f]
             /\ Untouched(f, WeightFlags) => UNCHANGED SlackWeightsOf
  <2>1. CASE LoadStep \/ ShuntStep \/ GenStep
    BY <1>1, <2>1, LoadAnnounced, ShuntAnnounced, GenAnnounced DEF Announced
  <2>2. CASE BranchStep
    <3>1. \E b, record, both, dcOnly : SetBranch(b, record, both, dcOnly)
      BY <2>2 DEF BranchStep, DeactivateBranch, ReactivateBranch, DeactivateSide, ReactivateSide,
         ChangeBusSide, ChangeRatioTrafo, ChangeShiftTrafo
    <3> QED BY <3>1, Raises, SharesRead DEF SetBranch
  <2> QED BY <1>1, <2>1, <2>2 DEF ElementStep
<1> QED BY <1>1, <1>2, SharesStay

LEMMA UpdateSlackShares ==
    ASSUME TopologyTypeOK, SharedEverywhere, NEW chosen, UpdateSlackWeights(chosen)
    PROVE  SharedEverywhere'
<1> DEFINE new == [g \in Gens |-> [gen[g] EXCEPT !.weight = Share(chosen, g)]]
<1>1. /\ gen' = new /\ RaiseFor(SlackChangeFlags(new), {}) /\ last' = "none"
      /\ UNCHANGED <<cache, busStatus, snap, busWeight>>
  BY DEF UpdateSlackWeights, Raise, SolverKept, topology
<1>2. \A g \in Gens : gen[g] \in GenRecord
  BY DEF TopologyTypeOK, TypeOK, ElementsTypeOK
<1>3. \A g \in Gens : gen'[g] = [gen[g] EXCEPT !.weight = gen'[g].weight]
  BY <1>1, <1>2 DEF GenRecord
<1>4. SlackChangeFlags(new) = SlackChangeFlags(gen')
  BY <1>1
<1> HIDE DEF new
<1>5. ASSUME NEW f \in Families, Untouched(f, WeightFlags)
      PROVE  UNCHANGED SlackWeightsOf
  <2>1. "slack_weight" \notin SlackChangeFlags(gen')
    BY <1>1, <1>4, <1>5, Raises, FlagsOf
  <2>2. \A g \in Gens : gen'[g].weight = gen[g].weight
    BY <2>1 DEF SlackChangeFlags
  <2>3. \A g \in Gens : gen'[g].on = gen[g].on /\ gen'[g].bus = gen[g].bus
    BY <1>2, <1>3 DEF GenRecord
  <2>4. SameWeights
    BY <2>2, <2>3 DEF SameWeights
  <2> QED BY <2>4, GenReads
<1> QED BY <1>1, <1>5, Raises, SharesStay

LEMMA UpdateShares ==
    ASSUME TopologyTypeOK, SharedEverywhere, NEW request \in Requests, UpdateTopo(request)
    PROVE  SharedEverywhere'
<1> ElementsTypeOK
  BY DEF TopologyTypeOK, TypeOK
<1>1. PICK reach \in Reach(request) : UpdateDoes(request, reach, SidesOf(request, reach))
  BY UpdateTopoDoes
<1> DEFINE flags == UpdateFlags(reach.turn, load', gen', SidesOf(request, reach), branch')
           hook == TrafoHook(reach.turn, SidesOf(request, reach))
<1>2. RaiseFor(flags, hook)
  BY <1>1 DEF UpdateDoes
<1>3. \A g \in Gens : GenFlags(g, gen'[g]) \subseteq flags
  BY DEF UpdateFlags
<1> HIDE DEF flags, hook
<1>4. \A g \in Gens : gen'[g].weight = gen[g].weight
  <2>1. ASSUME NEW g \in Gens
        PROVE  UpdatedGen(request, reach.done, g).weight = gen[g].weight
    <3>1. gen[g] \in GenRecord
      BY DEF ElementsTypeOK
    <3> QED BY <3>1 DEF UpdatedGen, GenRecord
  <2> QED BY <1>1, <2>1 DEF UpdateDoes
<1>5. ASSUME NEW f \in Families, Untouched(f, WeightFlags)
      PROVE  UNCHANGED SlackWeightsOf
  <2>1. "slack_part" \notin flags
    BY <1>2, <1>5, Raises, FlagsOf
  <2>2. ASSUME NEW g \in Gens, IsSlack(g)
        PROVE  gen'[g].on = gen[g].on /\ gen'[g].bus = gen[g].bus
    <3>1. "slack_part" \notin GenFlags(g, gen'[g])
      BY <1>3, <2>1
    <3> QED BY <2>2, <3>1 DEF GenFlags, GenStatusFlags, SlackIf
  <2>3. SameWeights
    BY <1>4, <2>2 DEF SameWeights, IsSlack
  <2> QED BY <2>3, GenReads
<1>6. \A f \in Families : ctl[f] \subseteq ctl'[f]
  BY <1>2, Raises
<1>7. UNCHANGED <<cache, busStatus, snap, busWeight>> /\ last' = "none"
  BY UpdateTopoDoes DEF SolverKept
<1> QED BY <1>5, <1>6, <1>7, SharesStay

(* What is left on after the clean-up is inside the main component.        *)
LEMMA CleanUpLive ==
    ASSUME ElementsTypeOK, ConsiderOnlyMainComponent
    PROVE  LiveBuses' \subseteq MainComponent
<1> DEFINE main == MainComponent
<1>1. /\ branch' = [b \in Branches |-> CutOff(main, b)]
      /\ load' = [l \in Loads |-> MainLoad(main, l)]
      /\ gen' = [g \in Gens |-> [gen[g] EXCEPT !.on = @ /\ gen[g].bus \in main]]
      /\ shunt' = [s \in Shunts |-> [shunt[s] EXCEPT !.on = @ /\ shunt[s].bus \in main]]
  BY DEF ConsiderOnlyMainComponent
<1> HIDE DEF main
<1>2. ASSUME NEW b \in Branches, NEW k \in Sides, On(branch'[b], k)
      PROVE  BusOf(branch'[b], k) \in main
  <2>1. branch'[b] = CutOff(main, b)
    BY <1>1
  <2> QED BY <1>2, <2>1, CutOffTyped
<1>3. ASSUME NEW l \in Loads, load'[l].on
      PROVE  load'[l].bus \in main
  BY <1>1, <1>3 DEF MainLoad, ElementsTypeOK, LoadRecord
<1>4. ASSUME NEW g \in Gens, gen'[g].on
      PROVE  gen'[g].bus \in main
  BY <1>1, <1>4 DEF ElementsTypeOK, GenRecord
<1>5. ASSUME NEW s \in Shunts, shunt'[s].on
      PROVE  shunt'[s].bus \in main
  BY <1>1, <1>5 DEF ElementsTypeOK, ShuntRecord
<1>6. BranchBuses' \subseteq main
  BY <1>2 DEF BranchBuses
<1> QED BY <1>3, <1>4, <1>5, <1>6
        DEF LiveBuses, FixedBuses, LoadsOn, ShuntsOn, GensOn, main

LEMMA CleanUpShares ==
    ASSUME TopologyTypeOK, SharedEverywhere, ConsiderOnlyMainComponent
    PROVE  SharedEverywhere'
<1> ElementsTypeOK
  BY DEF TopologyTypeOK, TypeOK
<1>1. /\ UNCHANGED <<cache, snap, busWeight>> /\ last' = "none" /\ busStatus' = LiveBuses'
      /\ gen' = [g \in Gens |-> [gen[g] EXCEPT !.on = @ /\ gen[g].bus \in MainComponent]]
      /\ \A f \in Families : /\ ctl[f] \subseteq ctl'[f]
                             /\ snap[f] # LiveBuses' => "dimension" \in ctl'[f]
  BY DEF ConsiderOnlyMainComponent, topology
<1>2. ASSUME NEW f \in Families, ~AnyOf(RedoFlags, ctl'[f])
      PROVE  /\ Clean(f, RedoFlags) /\ snap[f] = LiveBuses' /\ cache[f].lab = LiveBuses'
  <2>1. Clean(f, RedoFlags) /\ snap[f] = LiveBuses'
    BY <1>1, <1>2 DEF Clean, AnyOf, RedoFlags
  <2> QED BY <2>1 DEF SharedEverywhere, LabelClean
<1>3. ASSUME NEW f \in Families
      PROVE  LabelClean(f)'
  BY <1>1, <1>2 DEF LabelClean, Clean
<1>4. ASSUME NEW f \in Families, Clean(f, WeightFlags)'
      PROVE  /\ busWeight = [lab |-> cache[f].lab, val |-> SlackWeightsOf']
             /\ WeightedBuses' \subseteq cache[f].lab
  <2>1. ~AnyOf(RedoFlags, ctl'[f]) /\ Clean(f, WeightFlags)
    BY <1>1, <1>4, FlagsNested DEF Clean, AnyOf
  <2>2. /\ busWeight = [lab |-> cache[f].lab, val |-> SlackWeightsOf]
        /\ WeightedBuses \subseteq MainComponent
    BY <1>2, <2>1, CleanUpLive DEF SharedEverywhere, Shared
  <2>3. SameWeights
    <3>1. \A g \in Gens : /\ gen'[g].bus = gen[g].bus /\ gen'[g].weight = gen[g].weight
                          /\ gen'[g].on <=> gen[g].on /\ gen[g].bus \in MainComponent
      BY <1>1 DEF ElementsTypeOK, GenRecord
    <3>2. \A g \in Gens : gen[g].on /\ gen[g].weight > 0 => gen[g].bus \in MainComponent
      BY <2>2 DEF WeightedBuses, WeightedGens, GensOn, IsSlack
    <3> QED BY <3>1, <3>2 DEF SameWeights
  <2> QED BY <1>2, <2>1, <2>2, <2>3, GenReads, WeightedBusesRead DEF SharedEverywhere, Shared
<1> QED BY <1>1, <1>3, <1>4, NoShares DEF SharedEverywhere, Shared

(* A pipeline of the family f that leaves the cache `c`: either it         *)
(* computes the weights anew, in the labelling the status of the buses     *)
(* gives, or it leaves them to a family that has kept its labelling.       *)
LEMMA PipelineShares ==
    ASSUME TypeOK, SharedEverywhere, NEW f \in Families, NEW refresh, NEW c,
           UNCHANGED gen, cache' = [cache EXCEPT ![f] = c], busStatus' = StatusAfter(refresh),
           \A g \in Families \ {f} : ctl'[g] = CtlAfter(refresh)[g] /\ snap'[g] = snap[g],
           LabelClean(f)',
           \/ /\ busWeight' = [lab |-> c.lab, val |-> SlackWeightsOf]
              /\ WeightedBuses \subseteq c.lab /\ c.lab = busStatus'
           \/ /\ busWeight' = busWeight
              /\ Clean(f, WeightFlags)' => Clean(f, WeightFlags) /\ c.lab = cache[f].lab
    PROVE  \A g \in Families : LabelClean(g)' /\ Shared(g)'
<1>1. UNCHANGED <<SlackWeightsOf, WeightedBuses>>
  BY SharesRead
<1>2. cache'[f] = c /\ \A g \in Families \ {f} : cache'[g] = cache[g]
  BY DEF TypeOK
<1>3. Shared(f)'
  BY <1>1, <1>2 DEF SharedEverywhere, Shared
<1>4. ASSUME NEW g \in Families \ {f}
      PROVE  LabelClean(g)' /\ Shared(g)'
  <2>1. ctl[g] \subseteq ctl'[g] /\ (refresh /\ snap[g] # LiveBuses => "dimension" \in ctl'[g])
    BY AfterTyped
  <2>2. LabelClean(g)'
    <3>1. StatusTold(g)
      BY <2>1 DEF StatusTold, StatusAfter
    <3> QED BY <1>2, <2>1, <3>1, LabelStays DEF SharedEverywhere
  <2>3. Clean(g, WeightFlags)' => Clean(g, RedoFlags)' /\ Clean(g, WeightFlags)
    BY <2>1, FlagsNested DEF Clean, AnyOf
  <2>4. CASE busWeight' = [lab |-> c.lab, val |-> SlackWeightsOf]
             /\ WeightedBuses \subseteq c.lab /\ c.lab = busStatus'
    <3>1. Clean(g, WeightFlags)' => cache'[g].lab = c.lab
      BY <2>2, <2>3, <2>4 DEF LabelClean
    <3> QED BY <1>1, <2>2, <2>4, <3>1 DEF Shared
  <2>5. CASE busWeight' = busWeight
    BY <1>1, <1>2, <2>2, <2>3, <2>5 DEF SharedEverywhere, Shared
  <2> QED BY <2>4, <2>5
<1> QED BY <1>3, <1>4

LEMMA SolveShares ==
    ASSUME TopologyTypeOK, SharedEverywhere, NEW f \in Families, Solve(f)
    PROVE  SharedEverywhere'
<1> DEFINE x == PfIds(f)
           y == PfPrepared(f)
           r == PfFlags(f)
           refresh == PfRefresh(f)
           s == StatusAfter(refresh)
<1> TypeOK /\ PowerFlow(f)
  BY DEF TopologyTypeOK, Solve
<1>1. /\ UNCHANGED elements
      /\ cache' = [cache EXCEPT ![f] = y.c]
      /\ busStatus' = s
      /\ busWeight' = BusWeightAfter(f, r, y)
  BY PowerFlowEnds DEF PfThrows, PfAlgorithmThrows, PfDiverges, PfResultsThrow, PfConverges,
         Converging, Preparing, Solve
<1>2. \/ last' = "none" /\ KeepFlags(refresh)
      \/ (last' = "none" \/ last' = f) /\ MarkValid(f, refresh) /\ y.ok
  BY PowerFlowEnds DEF PfThrows, PfAlgorithmThrows, PfDiverges, PfResultsThrow, PfConverges,
         Converging, Telling
<1>3. Pipeline(f, ctl[f], r, x, y) /\ LabelClean(f) /\ Shared(f)
  BY PreparedTyped DEF Pipeline, PfFlags, PfRefresh, SharedEverywhere
<1>4. /\ r = After(f, ctl[f], x) /\ refresh = Refreshes(ctl[f], x)
      /\ y.all = x.all /\ (y.ok => x.ok) /\ x.all \in BOOLEAN /\ x.ok \in BOOLEAN /\ y.ok \in BOOLEAN
  BY <1>3 DEF Pipeline, StagesPost, WorkRecord, After, PfRefresh, PfFlags
<1>5. ~AnyOf(RedoFlags, r) => s = snap[f] /\ cache[f].lab = s /\ y.c.lab = s
  BY <1>3, <1>4, LabelKept
<1>6. y.ok => y.c.lab = s
  <2>1. y.ok /\ (x.all \/ AnyOf(LabelFlags, r)) => y.c.lab = s
    BY <1>3, <1>4 DEF Pipeline, StagesPost, Runs
  <2> QED BY <1>5, <2>1, FlagsNested
<1>7. y.ok /\ (y.all \/ AnyOf(WeightFlags, r)) =>
        /\ busWeight' = [lab |-> y.c.lab, val |-> SlackWeightsOf]
        /\ WeightedBuses \subseteq y.c.lab
  BY <1>1, <1>3, <1>4 DEF BusWeightAfter, Runs, Pipeline, StagesPost, WtsIs
<1>8. ~(y.ok /\ (y.all \/ AnyOf(WeightFlags, r))) => busWeight' = busWeight
  BY <1>1 DEF BusWeightAfter, Runs
<1>9. ctl[f] \subseteq r
  BY AfterTyped DEF PfFlags
<1>10. ~AnyOf(WeightFlags, r) => Clean(f, WeightFlags) /\ cache[f].lab = s /\ y.c.lab = s
  BY <1>5, <1>9, FlagsNested DEF Clean, AnyOf
<1>11. y.ok => /\ busWeight' = [lab |-> y.c.lab, val |-> SlackWeightsOf]
               /\ WeightedBuses \subseteq y.c.lab
  BY <1>3, <1>7, <1>8, <1>10 DEF Shared
<1>12. \A g \in Families \ {f} : ctl'[g] = CtlAfter(refresh)[g] /\ snap'[g] = snap[g]
  BY <1>2, AfterTyped DEF KeepFlags, MarkValid, TypeOK
<1>13. /\ KeepFlags(refresh) => ctl'[f] = r /\ snap'[f] = snap[f]
       /\ MarkValid(f, refresh) => \/ ctl'[f] = r /\ snap'[f] = snap[f]
                                   \/ snap'[f] = s
  BY DEF KeepFlags, MarkValid, PfFlags, TypeOK
<1>14. cache'[f] = y.c
  BY <1>1 DEF TypeOK
<1>15. LabelClean(f)'
  <2> HIDE DEF y, r, s, refresh
  <2>1. CASE ctl'[f] = r /\ snap'[f] = snap[f]
    BY <1>1, <1>5, <1>14, <2>1 DEF LabelClean, Clean
  <2>2. CASE y.ok /\ snap'[f] = s
    BY <1>1, <1>6, <1>14, <2>2 DEF LabelClean
  <2> QED BY <1>2, <1>13, <2>1, <2>2
<1>16. ~y.ok => busWeight' = busWeight
                /\ (Clean(f, WeightFlags)' => Clean(f, WeightFlags) /\ y.c.lab = cache[f].lab)
  <2> HIDE DEF y, r, s, refresh
  <2> QED BY <1>2, <1>8, <1>10, <1>13 DEF Clean
<1>17. SlackSharesCurrent'
  <2>1. UNCHANGED SlackWeightsOf
    BY <1>1, SharesRead DEF elements
  <2> HIDE DEF y, r, s, refresh
  <2> QED BY <1>2, <1>11, <1>14, <2>1, ElementsAssumption DEF SlackSharesCurrent
<1>18. UNCHANGED gen
  BY <1>1 DEF elements
<1>19. \A g \in Families : LabelClean(g)' /\ Shared(g)'
  <2> HIDE DEF y, r, s, refresh
  <2>1. \/ /\ busWeight' = [lab |-> y.c.lab, val |-> SlackWeightsOf]
           /\ WeightedBuses \subseteq y.c.lab /\ y.c.lab = busStatus'
        \/ /\ busWeight' = busWeight
           /\ Clean(f, WeightFlags)' => Clean(f, WeightFlags) /\ y.c.lab = cache[f].lab
    BY <1>1, <1>6, <1>11, <1>16
  <2>2. busStatus' = StatusAfter(refresh)
    BY <1>1 DEF s
  <2> QED BY <1>1, <1>12, <1>15, <1>18, <2>1, <2>2, PipelineShares
<1> QED BY <1>17, <1>19 DEF SharedEverywhere

LEMMA CheckShares ==
    ASSUME TopologyTypeOK, SharedEverywhere, Check
    PROVE  SharedEverywhere'
<1> DEFINE f == "AC"
           x == CheckIds
           y == CheckPrepared
           r == CheckFlags
           refresh == CheckRefresh
           s == StatusAfter(refresh)
           after == CtlAfter(refresh)["AC"]
<1> TypeOK /\ CheckSolution
  BY DEF TopologyTypeOK, Check
<1>1. /\ "AC" \in Families /\ UNCHANGED elements /\ UNCHANGED snap
      /\ cache' = [cache EXCEPT !["AC"] = y.c]
      /\ busStatus' = s /\ ctl' = CtlAfter(refresh) /\ last' = "none"
      /\ busWeight' = BusWeightAfter("AC", r, y)
  BY DEF CheckSolution, Check
<1>2. Pipeline("AC", r, r, x, y) /\ LabelClean("AC") /\ Shared("AC")
  <2>1. Usable("AC") => r = {}
    BY FS_EmptySet DEF Usable, CheckFlags, NoneChanged
  <2> QED BY <1>1, <2>1, CheckTyped DEF Pipeline, CheckRefresh, SharedEverywhere
<1>3. /\ after = After("AC", r, x) /\ refresh = Refreshes(r, x)
      /\ y.all = x.all /\ (y.ok => x.ok) /\ x.all \in BOOLEAN /\ x.ok \in BOOLEAN /\ y.ok \in BOOLEAN
  BY <1>2 DEF Pipeline, StagesPost, WorkRecord, After, CheckRefresh
<1>4. ~AnyOf(RedoFlags, after) => s = snap["AC"] /\ cache["AC"].lab = s /\ y.c.lab = s
  BY <1>1, <1>2, <1>3, LabelKept
<1>5. r = {} \/ AnyOf(LabelFlags, r)
  BY DEF CheckFlags, AllChanged, NoneChanged, AnyOf, Flags, LabelFlags, RedoFlags
<1>6. y.ok /\ (y.all \/ AnyOf(WeightFlags, r)) =>
        /\ busWeight' = [lab |-> y.c.lab, val |-> SlackWeightsOf]
        /\ WeightedBuses \subseteq y.c.lab /\ y.c.lab = s
  <2>1. AnyOf(WeightFlags, r) => AnyOf(LabelFlags, r)
    BY <1>5 DEF AnyOf
  <2> QED BY <1>1, <1>2, <1>3, <2>1 DEF BusWeightAfter, Runs, Pipeline, StagesPost, WtsIs
<1>7. ~(y.ok /\ (y.all \/ AnyOf(WeightFlags, r))) => busWeight' = busWeight
  BY <1>1 DEF BusWeightAfter, Runs
<1>8. ctl["AC"] \subseteq after /\ ctl'["AC"] = after
  BY <1>1, AfterTyped
<1>9. cache'["AC"] = y.c /\ UNCHANGED gen
  BY <1>1 DEF TypeOK, elements
<1>10. \A g \in Families \ {"AC"} : ctl'[g] = CtlAfter(refresh)[g] /\ snap'[g] = snap[g]
  BY <1>1
<1> HIDE DEF y, r, refresh, after
<1>11. LabelClean("AC")'
  BY <1>1, <1>4, <1>8, <1>9 DEF LabelClean, Clean
<1>12. Clean("AC", WeightFlags)' => Clean("AC", WeightFlags) /\ y.c.lab = cache["AC"].lab
  BY <1>4, <1>8, FlagsNested DEF Clean, AnyOf
<1>13. \/ /\ busWeight' = [lab |-> y.c.lab, val |-> SlackWeightsOf]
          /\ WeightedBuses \subseteq y.c.lab /\ y.c.lab = busStatus'
       \/ busWeight' = busWeight
  BY <1>1, <1>6, <1>7
<1>14. \A g \in Families : LabelClean(g)' /\ Shared(g)'
  BY <1>1, <1>9, <1>10, <1>11, <1>12, <1>13, PipelineShares
<1> QED BY <1>1, <1>14, NoShares DEF SharedEverywhere

LEMMA TopologyInitShares == TopologyInit => SharedEverywhere
<1> SUFFICES ASSUME TopologyInit PROVE SharedEverywhere
  OBVIOUS
<1>1. \A f \in Families : ~Clean(f, RedoFlags) /\ ~Clean(f, WeightFlags)
  BY DEF TopologyInit, Init, AllChanged, Clean, AnyOf, Flags, RedoFlags, WeightFlags
<1>2. SlackSharesCurrent
  BY ElementsAssumption DEF TopologyInit, Init, SlackSharesCurrent
<1> QED BY <1>1, <1>2 DEF SharedEverywhere, LabelClean, Shared

LEMMA TopologyNextShares ==
    TopologyTypeOK /\ SharedEverywhere /\ [TopologyNext]_allVars => SharedEverywhere'
<1> SUFFICES ASSUME TopologyTypeOK, SharedEverywhere, [TopologyNext]_allVars PROVE SharedEverywhere'
  OBVIOUS
<1>1. CASE UNCHANGED allVars
  <2>1. UNCHANGED <<gen, ctl, cache, busStatus, snap, last, busWeight>>
    BY <1>1 DEF allVars, vars, elements, solver, topology
  <2>2. UNCHANGED <<SlackWeightsOf, WeightedBuses>>
    BY <2>1, SharesRead
  <2> QED BY <2>1, <2>2 DEF SharedEverywhere, LabelClean, Shared, SlackSharesCurrent, Clean
<1> QED BY <1>1, ChangeShares, SolveShares, CheckShares, UpdateShares, CleanUpShares,
           UpdateSlackShares DEF TopologyNext

(* When a powerflow of either family gives its results, the slack is       *)
(* shared by the weights of the grid, in the labelling it used: the other  *)
(* family, a check_solution or a change in between never leave the shared  *)
(* vector behind.                                                          *)
THEOREM SlackAlwaysShared == TopologySpec => []SlackSharesCurrent
<1>1. SharedEverywhere => SlackSharesCurrent
  BY DEF SharedEverywhere
<1> QED BY <1>1, TopologyInitTyped, TopologyNextTyped, TopologyInitShares, TopologyNextShares, PTL
        DEF TopologySpec

-----------------------------------------------------------------------------
(* The main component.                                                     *)

(* What Closed and Within are, for a set `E` of edges.                     *)
ClosedIn(E, S) == \A e \in E : e \cap S # {} => e \subseteq S
WithinIn(E, from) == {b \in Buses : \A S \in SUBSET Buses : from \in S /\ ClosedIn(E, S) => b \in S}

LEMMA WithinIs == /\ \A from : Within(from) = WithinIn(Edges, from)
                  /\ \A from : Within(from)' = WithinIn(Edges', from)
BY DEF Within, WithinIn, Closed, ClosedIn

LEMMA WithinClosed ==
    ASSUME NEW E \in SUBSET SUBSET Buses, NEW from \in Buses
    PROVE  /\ from \in WithinIn(E, from) /\ WithinIn(E, from) \subseteq Buses
           /\ ClosedIn(E, WithinIn(E, from))
<1> DEFINE W == WithinIn(E, from)
<1>1. from \in W /\ W \subseteq Buses
  BY DEF WithinIn
<1>2. ASSUME NEW e \in E, NEW c \in e \cap W, NEW d \in e
      PROVE  d \in W
  <2>1. \A S \in SUBSET Buses : from \in S /\ ClosedIn(E, S) => c \in S
    BY <1>2 DEF WithinIn
  <2>2. \A S \in SUBSET Buses : from \in S /\ ClosedIn(E, S) => d \in S
    BY <1>2, <2>1 DEF ClosedIn
  <2> QED BY <1>2, <2>2 DEF WithinIn
<1> QED BY <1>1, <1>2 DEF ClosedIn

(* No set closed under the edges leaves it out.                            *)
LEMMA WithinLeast ==
    ASSUME NEW E, NEW from, NEW S \in SUBSET Buses, from \in S, ClosedIn(E, S)
    PROVE  WithinIn(E, from) \subseteq S
BY DEF WithinIn

(* Each bus of a component has the same component.                         *)
LEMMA WithinSame ==
    ASSUME NEW E \in SUBSET SUBSET Buses, NEW from \in Buses, NEW b \in WithinIn(E, from)
    PROVE  WithinIn(E, b) = WithinIn(E, from)
<1> DEFINE W == WithinIn(E, from)
           V == WithinIn(E, b)
<1>1. b \in Buses /\ W \in SUBSET Buses /\ ClosedIn(E, W)
  BY WithinClosed
<1>2. V \subseteq W
  BY <1>1, WithinLeast
<1>3. b \in V /\ V \in SUBSET Buses /\ ClosedIn(E, V)
  BY <1>1, WithinClosed
<1>4. from \in V
  <2> SUFFICES ASSUME from \notin V PROVE FALSE
    OBVIOUS
  <2> HIDE DEF V
  <2>1. ClosedIn(E, Buses \ V)
    BY <1>3 DEF ClosedIn
  <2>2. W \subseteq Buses \ V
    BY <2>1, WithinLeast
  <2> QED BY <1>3, <2>2
<1>5. W \subseteq V
  BY <1>3, <1>4, WithinLeast
<1> QED BY <1>2, <1>5

(* With the edges inside a component alone, the component is what it was,  *)
(* and every other bus is a component by itself.                           *)
LEMMA WithinInside ==
    ASSUME NEW E \in SUBSET SUBSET Buses, NEW from \in Buses, NEW main, main = WithinIn(E, from),
           NEW F, F = {e \in E : e \subseteq main}
    PROVE  /\ \A b \in main : WithinIn(F, b) = main
           /\ \A b \in Buses \ main : WithinIn(F, b) = {b}
<1>1. main \subseteq Buses /\ ClosedIn(E, main) /\ ClosedIn(F, main) /\ F \in SUBSET SUBSET Buses
  BY WithinClosed DEF ClosedIn
<1>2. ASSUME NEW b \in main
      PROVE  WithinIn(F, b) = main
  <2>1. WithinIn(F, b) \subseteq main
    BY <1>1, WithinLeast
  <2> DEFINE S == WithinIn(F, b)
             T == S \cup (Buses \ main)
  <2>2. b \in S /\ S \subseteq Buses /\ ClosedIn(F, S)
    BY <1>1, WithinClosed
  <2>3. ClosedIn(E, T)
    <3> SUFFICES ASSUME NEW e \in E, NEW c \in e \cap T, NEW d \in e
                 PROVE  d \in T
      BY DEF ClosedIn
    <3>1. CASE e \subseteq main
      <4>1. e \in F /\ c \in S
        BY <3>1
      <4> HIDE DEF S
      <4> QED BY <2>2, <4>1 DEF ClosedIn
    <3>2. CASE ~(e \subseteq main)
      <4>1. e \cap main = {}
        BY <1>1, <3>2 DEF ClosedIn
      <4> QED BY <4>1
    <3> QED BY <3>1, <3>2
  <2>4. WithinIn(E, b) \subseteq T
    <3> HIDE DEF S
    <3> QED BY <2>2, <2>3, WithinLeast
  <2>5. WithinIn(E, b) = main
    BY WithinSame
  <2> QED BY <2>1, <2>4, <2>5
<1>3. ASSUME NEW b \in Buses \ main
      PROVE  WithinIn(F, b) = {b}
  <2>1. ClosedIn(F, {b})
    BY DEF ClosedIn
  <2>2. WithinIn(F, b) \subseteq {b}
    BY <2>1, WithinLeast
  <2> QED BY <1>1, <2>2, WithinClosed
<1> QED BY <1>2, <1>3

(* The first of the largest.                                               *)
Beats(size, g, h) == size[g] > size[h] \/ (size[g] = size[h] /\ g < h)

LEMMA LargestIsOne ==
    ASSUME NEW G \in SUBSET Nat, G # {}, NEW n \in Nat, NEW size \in [G -> 0 .. n]
    PROVE  \E g \in G : \A h \in G \ {g} : Beats(size, g, h)
<1> DEFINE gaps == {n - size[g] : g \in G}
<1>1. gaps \subseteq Nat /\ gaps # {}
  <2>1. \A g \in G : size[g] \in 0 .. n /\ n - size[g] \in Nat
    OBVIOUS
  <2>2. PICK g \in G : TRUE
    OBVIOUS
  <2>3. n - size[g] \in gaps
    BY <2>2
  <2> QED BY <2>1, <2>3
<1>2. PICK m \in gaps : \A k \in gaps : m <= k
  <2> HIDE DEF gaps
  <2> QED BY <1>1, LeastOfNat
<1>3. PICK top \in G : n - size[top] = m
  BY <1>2
<1>4. \A h \in G : size[h] <= size[top]
  <2>1. \A h \in G : n - size[top] <= n - size[h]
    BY <1>2, <1>3
  <2> QED BY <2>1
<1> DEFINE firsts == {g \in G : size[g] = size[top]}
<1>5. PICK g \in firsts : \A h \in firsts : g <= h
  <2>1. firsts \subseteq Nat /\ firsts # {}
    OBVIOUS
  <2> HIDE DEF firsts
  <2> QED BY <2>1, LeastOfNat
<1>6. ASSUME NEW h \in G \ {g}
      PROVE  Beats(size, g, h)
  <2>1. CASE size[h] = size[top]
    BY <1>5, <2>1 DEF Beats
  <2>2. CASE size[h] # size[top]
    BY <1>4, <1>5, <2>2 DEF Beats
  <2> QED BY <2>1, <2>2
<1> QED BY <1>5, <1>6

LEMMA BusesFinite == IsFiniteSet(Buses) /\ Cardinality(Buses) \in Nat
<1>1. IsFiniteSet(Buses)
  <2>1. 0 \in Int /\ NbSub * NbBusbars - 1 \in Int /\ Buses = 0 .. (NbSub * NbBusbars - 1)
    BY TopologyAssumption
  <2> QED BY ONLY <2>1, FS_Interval
<1> QED BY <1>1, FS_CardinalityType

LEMMA EdgesTyped == ElementsTypeOK => Edges \in SUBSET SUBSET Buses
<1> SUFFICES ASSUME ElementsTypeOK PROVE Edges \in SUBSET SUBSET Buses
  OBVIOUS
<1>1. \A b \in Branches : branch[b].bus1 \in Buses /\ branch[b].bus2 \in Buses
  BY DEF ElementsTypeOK, BranchRecord
<1> QED BY <1>1 DEF Edges

(* The slack generator whose component is the main one, when the edges are *)
(* `E` and the buses of the generators those of `at`.                      *)
Sizes(E, at, G) == [g \in G |-> Cardinality(WithinIn(E, at[g]))]

LEMMA SizesTyped ==
    ASSUME NEW E \in SUBSET SUBSET Buses, NEW G, NEW at \in [G -> Buses]
    PROVE  /\ Sizes(E, at, G) \in [G -> 0 .. Cardinality(Buses)]
           /\ \A g \in G : Sizes(E, at, G)[g] >= 1
<1>1. ASSUME NEW g \in G
      PROVE  /\ Cardinality(WithinIn(E, at[g])) \in 0 .. Cardinality(Buses)
             /\ Cardinality(WithinIn(E, at[g])) >= 1
  <2> DEFINE W == WithinIn(E, at[g])
  <2>1. at[g] \in W /\ W \subseteq Buses
    BY WithinClosed
  <2> HIDE DEF W
  <2>2. IsFiniteSet(W) /\ Cardinality(W) \in Nat /\ Cardinality(W) <= Cardinality(Buses)
    BY <2>1, BusesFinite, FS_Subset, FS_CardinalityType
  <2>3. Cardinality(W) # 0
    BY <2>1, <2>2, FS_EmptySet
  <2> QED BY <2>2, <2>3, BusesFinite DEF W
<1> QED BY <1>1 DEF Sizes

(* The main component is that of a slack generator which beats the others. *)
First(size, G) == CHOOSE g \in G : \A h \in G \ {g} : Beats(size, g, h)
SlackAt == [g \in SlackGens |-> gen[g].bus]

LEMMA MainIs ==
    ASSUME ElementsTypeOK
    PROVE  MainComponent = WithinIn(Edges, SlackAt[First(Sizes(Edges, SlackAt, SlackGens), SlackGens)])
           \/ SlackGens = {}
<1> SUFFICES ASSUME SlackGens # {}
             PROVE  MainComponent = WithinIn(Edges, SlackAt[First(Sizes(Edges, SlackAt, SlackGens), SlackGens)])
  OBVIOUS
<1> DEFINE size == Sizes(Edges, SlackAt, SlackGens)
<1>1. \A g \in SlackGens : size[g] = Cardinality(Within(gen[g].bus))
  BY WithinIs DEF Sizes, SlackAt
<1>2. SlackGens \subseteq Nat /\ SlackAt \in [SlackGens -> Buses]
  BY ElementsAssumption DEF SlackGens, GensOn, SlackAt, ElementsTypeOK, GenRecord
<1>3. size \in [SlackGens -> 0 .. Cardinality(Buses)]
  BY <1>2, EdgesTyped, SizesTyped
<1> HIDE DEF size
<1>4. \E g \in SlackGens : \A h \in SlackGens \ {g} : Beats(size, g, h)
  BY <1>2, <1>3, BusesFinite, LargestIsOne
<1>5. First(size, SlackGens) \in SlackGens
  BY <1>4 DEF First
<1>6. First(size, SlackGens) =
        CHOOSE g \in SlackGens : \A h \in SlackGens \ {g} :
            \/ Cardinality(Within(gen[g].bus)) > Cardinality(Within(gen[h].bus))
            \/ Cardinality(Within(gen[g].bus)) = Cardinality(Within(gen[h].bus)) /\ g < h
  BY <1>1 DEF First, Beats
<1>7. MainComponent = Within(gen[First(size, SlackGens)].bus)
  BY <1>6 DEF MainComponent
<1> QED BY <1>5, <1>7, WithinIs DEF SlackAt, size

(* What the clean-up leaves of the edges: those inside the component.      *)
LEMMA EdgesInside ==
    ASSUME ElementsTypeOK, ConsiderOnlyMainComponent
    PROVE  Edges' = {e \in Edges : e \subseteq MainComponent}
<1> DEFINE main == MainComponent
           ends(b) == {branch[b].bus1, branch[b].bus2}
           closed(b) == branch[b].global /\ BothEnds(b)
<1>1. branch' = [b \in Branches |-> CutOff(main, b)]
  BY DEF ConsiderOnlyMainComponent
<1> HIDE DEF main
<1>2. ASSUME NEW b \in Branches
      PROVE  /\ ends(b)' = ends(b)
             /\ closed(b)' <=> closed(b) /\ ends(b) \subseteq main
  <2>1. branch'[b] = CutOff(main, b)
    BY <1>1
  <2>2. branch'[b].bus1 = branch[b].bus1 /\ branch'[b].bus2 = branch[b].bus2
    BY <2>1, CutOffTyped
  <2>3. CASE branch[b].global /\ ~Outside(main, branch[b])
    BY <2>1, <2>3 DEF CutOff, BothEnds, Outside
  <2>4. CASE ~branch[b].global \/ Outside(main, branch[b])
    <3>1. \A r \in BranchRecord : ~BothOpen(r).on1
      BY DEF BothOpen, BranchRecord
    <3>2. \A r \in BranchRecord : \A x : ~[BothOpen(r) EXCEPT !.global = x].on1
      BY DEF BothOpen, BranchRecord
    <3>3. ~branch'[b].on1
      <4>1. branch[b] \in BranchRecord
        BY DEF ElementsTypeOK
      <4> QED BY <2>1, <2>4, <3>1, <3>2, <4>1, Zenon DEF CutOff
    <3> QED BY <2>2, <2>4, <3>3 DEF BothEnds, Outside
  <2> QED BY <2>2, <2>3, <2>4
<1>3. Edges = {ends(b) : b \in {x \in Branches : closed(x)}}
  BY DEF Edges
<1>4. Edges' = {ends(b)' : b \in {x \in Branches : closed(x)'}}
  BY DEF Edges
<1> HIDE DEF ends, closed
<1>5. \A e : e \in Edges' <=> e \in Edges /\ e \subseteq main
  BY <1>2, <1>3, <1>4
<1> QED BY <1>5 DEF main

(* With the edges inside the main component alone, the first of the        *)
(* largest components is still that one.                                   *)
LEMMA FirstStays ==
    ASSUME NEW E \in SUBSET SUBSET Buses, NEW G \in SUBSET Nat, G # {}, NEW at \in [G -> Buses],
           NEW main, main = WithinIn(E, at[First(Sizes(E, at, G), G)]),
           NEW F, F = {e \in E : e \subseteq main}
    PROVE  WithinIn(F, at[First(Sizes(F, at, G), G)]) = main
<1> DEFINE size == Sizes(E, at, G)
           left == Sizes(F, at, G)
           g0 == First(size, G)
           g1 == First(left, G)
<1>1. F \in SUBSET SUBSET Buses
  OBVIOUS
<1>2. /\ size \in [G -> 0 .. Cardinality(Buses)] /\ \A g \in G : size[g] >= 1
      /\ left \in [G -> 0 .. Cardinality(Buses)]
  BY <1>1, SizesTyped
<1>3. g0 \in G /\ \A h \in G \ {g0} : Beats(size, g0, h)
  <2> HIDE DEF size
  <2>1. \E g \in G : \A h \in G \ {g} : Beats(size, g, h)
    BY <1>2, BusesFinite, LargestIsOne
  <2> QED BY <2>1 DEF First
<1>4. g1 \in G /\ \A h \in G \ {g1} : Beats(left, g1, h)
  <2> HIDE DEF left
  <2>1. \E g \in G : \A h \in G \ {g} : Beats(left, g, h)
    BY <1>2, BusesFinite, LargestIsOne
  <2> QED BY <2>1 DEF First
<1> HIDE DEF g0, g1
<1>5. at[g0] \in main /\ main = WithinIn(E, at[g0])
  BY <1>3, WithinClosed DEF g0
<1>6. /\ \A b \in main : WithinIn(F, b) = main
      /\ \A b \in Buses \ main : WithinIn(F, b) = {b}
  BY <1>3, <1>5, WithinInside
<1>7. CASE at[g1] \in main
  BY <1>6, <1>7 DEF g1
<1>8. CASE at[g1] \notin main
  <2>1. left[g1] = 1
    <3>1. left[g1] = Cardinality({at[g1]})
      BY <1>4, <1>6, <1>8 DEF Sizes
    <3> QED BY <3>1, FS_Singleton
  <2>2. left[g0] = size[g0]
    BY <1>3, <1>5, <1>6 DEF Sizes
  <2>3. g0 # g1
    BY <1>5, <1>8
  <2> HIDE DEF size, left
  <2>4. size[g0] \in Nat /\ size[g1] \in Nat /\ g0 \in Nat /\ g1 \in Nat /\ size[g0] >= 1 /\ size[g1] >= 1
    BY <1>2, <1>3, <1>4, BusesFinite
  <2>5. Beats(left, g1, g0) /\ Beats(size, g0, g1)
    BY <1>3, <1>4, <2>3
  <2> QED BY <2>1, <2>2, <2>4, <2>5 DEF Beats
<1> QED BY <1>7, <1>8

LEMMA CleanUpLeavesOne ==
    ASSUME ElementsTypeOK, ElementsTypeOK', ConsiderOnlyMainComponent
    PROVE  LiveBuses' \subseteq MainComponent'
<1> DEFINE main == MainComponent
<1>1. SlackGens # {} /\ gen' = [g \in Gens |-> [gen[g] EXCEPT !.on = @ /\ gen[g].bus \in main]]
  BY DEF ConsiderOnlyMainComponent
<1>2. SlackGens' = SlackGens /\ SlackAt' = SlackAt
  <2> HIDE DEF main
  <2>1. \A g \in Gens : gen'[g].weight = gen[g].weight /\ gen'[g].bus = gen[g].bus
    BY <1>1 DEF ElementsTypeOK, GenRecord
  <2>2. SlackGens' = SlackGens
    BY <2>1 DEF SlackGens, IsSlack
  <2> QED BY <2>1, <2>2 DEF SlackGens, SlackAt
<1>3. SlackGens \in SUBSET Nat /\ SlackAt \in [SlackGens -> Buses]
  BY ElementsAssumption DEF SlackGens, SlackAt, ElementsTypeOK, GenRecord
<1>4. main = WithinIn(Edges, SlackAt[First(Sizes(Edges, SlackAt, SlackGens), SlackGens)])
  BY <1>1, MainIs
<1>5. (ElementsTypeOK => \/ MainComponent = WithinIn(Edges, SlackAt[First(Sizes(Edges, SlackAt, SlackGens), SlackGens)])
                         \/ SlackGens = {})'
  BY MainIs, PTL
<1>6. MainComponent' = WithinIn(Edges', SlackAt[First(Sizes(Edges', SlackAt, SlackGens), SlackGens)])
  <2>1. (WithinIn(Edges, SlackAt[First(Sizes(Edges, SlackAt, SlackGens), SlackGens)]))' =
          WithinIn(Edges', SlackAt'[First(Sizes(Edges', SlackAt', SlackGens'), SlackGens')])
    BY DEF WithinIn, ClosedIn, First, Sizes, Beats
  <2>2. \/ MainComponent' = (WithinIn(Edges, SlackAt[First(Sizes(Edges, SlackAt, SlackGens), SlackGens)]))'
        \/ SlackGens' = {}
    BY <1>5
  <2>3. MainComponent' = WithinIn(Edges', SlackAt'[First(Sizes(Edges', SlackAt', SlackGens'), SlackGens')])
    BY <1>1, <1>2, <2>1, <2>2
  <2> QED BY <1>2, <2>3
<1>7. Edges' = {e \in Edges : e \subseteq main} /\ Edges \in SUBSET SUBSET Buses
  BY EdgesInside, EdgesTyped
<1> HIDE DEF main
<1>8. MainComponent' = main
  BY <1>1, <1>3, <1>4, <1>6, <1>7, FirstStays
<1> QED BY <1>8, CleanUpLive DEF main

(* The clean-up leaves one island: whatever is still connected hangs       *)
(* together with the slack on the graph of what is left, whatever was      *)
(* asked of the grid before and whatever an update_topo left half updated. *)
THEOREM CleanUpLeavesOneIsland == TopologySpec => OneIsland
<1>1. TopologyTypeOK /\ TopologyTypeOK' /\ [TopologyNext]_allVars =>
          [ConsiderOnlyMainComponent => LiveBuses' \subseteq MainComponent']_allVars
  BY CleanUpLeavesOne DEF TopologyTypeOK, TypeOK
<1> QED BY <1>1, TopologyInitTyped, TopologyNextTyped, PTL DEF TopologySpec, OneIsland

-----------------------------------------------------------------------------
(* The change flags, with the operations that walk over every container.   *)

(* The buses of the matrix and of the injections, from what is in them.    *)
MatrixHas(f, b) == \/ \E t \in Matrix(f).branches : \E e \in t.ends : e[2] = b
                   \/ \E s \in Matrix(f).shunts : s.bus = b
InjectionsHave(f, b) == \/ \E t \in Injections(f).loads : t.bus = b
                        \/ \E t \in Injections(f).gens : t.bus = b
                        \/ \E t \in Injections(f).shunts : t.bus = b
                        \/ \E t \in Injections(f).shifts : \E e \in t.ends : e[2] = b
BusesSaid == \A f, b : /\ b \in MatrixBuses(f) <=> MatrixHas(f, b)
                       /\ b \in InjectionBuses(f) <=> InjectionsHave(f, b)

LEMMA BusesAreSaid == BusesSaid
<1> DEFINE end(b, k) == <<k, BusOf(branch[b], k)>>
<1>1. \A b, k : end(b, k)[2] = BusOf(branch[b], k)
  OBVIOUS
<1>2. \A b : Ends(b) = {end(b, k) : k \in {s \in Sides : On(branch[b], s)}}
  BY DEF Ends
<1> HIDE DEF end
<1>3. \A b, c : (\E e \in Ends(b) : e[2] = c) <=>
                    \E k \in Sides : On(branch[b], k) /\ BusOf(branch[b], k) = c
  BY <1>1, <1>2
<1>4. ASSUME NEW f, NEW c
      PROVE  c \in MatrixBuses(f) <=> MatrixHas(f, c)
  <2> DEFINE shuntTerm(s) == [id |-> s, bus |-> shunt[s].bus, p |-> shunt[s].p, q |-> shunt[s].q]
  <2>1. \A b : BranchStamp(f, b).ends = Ends(b)
    BY DEF BranchStamp
  <2>2. \A s : shuntTerm(s).bus = shunt[s].bus
    OBVIOUS
  <2>3. /\ Matrix(f).branches = {BranchStamp(f, b) : b \in {x \in Branches : InMatrix(f, x)}}
        /\ Matrix(f).shunts = IF f # "AC" THEN {} ELSE {shuntTerm(s) : s \in ShuntsOn}
    BY DEF Matrix
  <2> HIDE DEF shuntTerm
  <2>4. (\E t \in Matrix(f).branches : \E e \in t.ends : e[2] = c) <=>
            \E b \in Branches : \E k \in Sides : /\ InMatrix(f, b) /\ On(branch[b], k)
                                                 /\ BusOf(branch[b], k) = c
    <3> DEFINE has(t) == \E e \in t.ends : e[2] = c
    <3>1. \A b : has(BranchStamp(f, b)) <=> \E k \in Sides : On(branch[b], k) /\ BusOf(branch[b], k) = c
      BY <1>3, <2>1
    <3>2. (\E t \in Matrix(f).branches : has(t)) <=>
              \E b \in {x \in Branches : InMatrix(f, x)} : has(BranchStamp(f, b))
      <4> HIDE DEF has
      <4> QED BY <2>3
    <3> QED BY <3>1, <3>2
  <2>5. (\E s \in Matrix(f).shunts : s.bus = c) <=> f = "AC" /\ \E s \in ShuntsOn : shunt[s].bus = c
    BY <2>2, <2>3
  <2>6. c \in MatrixBuses(f) <=>
            \/ \E b \in Branches : \E k \in Sides : /\ InMatrix(f, b) /\ On(branch[b], k)
                                                    /\ BusOf(branch[b], k) = c
            \/ f = "AC" /\ \E s \in ShuntsOn : shunt[s].bus = c
    <3> DEFINE in(b, k) == InMatrix(f, b) /\ On(branch[b], k)
               bus(b, k) == BusOf(branch[b], k)
    <3>1. MatrixBuses(f) = {bus(bk[1], bk[2]) : bk \in {x \in Branches \X Sides : in(x[1], x[2])}}
                           \cup (IF f = "AC" THEN {shunt[s].bus : s \in ShuntsOn} ELSE {})
      BY DEF MatrixBuses
    <3> HIDE DEF in, bus
    <3>2. c \in {bus(bk[1], bk[2]) : bk \in {x \in Branches \X Sides : in(x[1], x[2])}} <=>
              \E b \in Branches : \E k \in Sides : in(b, k) /\ bus(b, k) = c
      <4> DEFINE on == {x \in Branches \X Sides : in(x[1], x[2])}
      <4>1. ASSUME NEW b \in Branches, NEW k \in Sides, in(b, k), bus(b, k) = c
            PROVE  \E bk \in on : bus(bk[1], bk[2]) = c
        <5>1. <<b, k>>[1] = b /\ <<b, k>>[2] = k /\ <<b, k>> \in Branches \X Sides
          OBVIOUS
        <5>2. <<b, k>> \in on
          BY <4>1, <5>1
        <5> QED BY <4>1, <5>1, <5>2
      <4>2. ASSUME NEW bk \in on
            PROVE  bk[1] \in Branches /\ bk[2] \in Sides /\ in(bk[1], bk[2])
        OBVIOUS
      <4> HIDE DEF on
      <4> QED BY <4>1, <4>2 DEF on
    <3> QED BY <3>1, <3>2 DEF in, bus
  <2> QED BY <2>4, <2>5, <2>6 DEF MatrixHas
<1>5. ASSUME NEW f, NEW c
      PROVE  c \in InjectionBuses(f) <=> InjectionsHave(f, c)
  <2> DEFINE loadTerm(l) == [id |-> l, bus |-> load[l].bus, p |-> load[l].p]
             genTerm(g) == [id |-> g, bus |-> gen[g].bus, p |-> gen[g].p]
             shuntTerm(s) == [id |-> s, bus |-> shunt[s].bus, p |-> shunt[s].p]
             shiftTerm(b) == [id |-> b, ends |-> Ends(b), ratio |-> branch[b].ratio,
                              shift |-> branch[b].shift]
  <2>1. /\ \A l : loadTerm(l).bus = load[l].bus
        /\ \A g : genTerm(g).bus = gen[g].bus
        /\ \A s : shuntTerm(s).bus = shunt[s].bus
        /\ \A b : shiftTerm(b).ends = Ends(b)
    OBVIOUS
  <2>2. /\ Injections(f).loads = {loadTerm(l) : l \in LoadsOn}
        /\ Injections(f).gens = {genTerm(g) : g \in Injecting}
        /\ Injections(f).shunts = IF f = "AC" THEN {} ELSE {shuntTerm(s) : s \in ShuntsOn}
        /\ Injections(f).shifts = IF f = "AC" THEN {} ELSE {shiftTerm(b) : b \in Shifting}
    BY DEF Injections
  <2> HIDE DEF loadTerm, genTerm, shuntTerm, shiftTerm
  <2>3. ASSUME NEW b \in Shifting
        PROVE  (\E e \in Ends(b) : e[2] = c) <=> branch[b].bus1 = c \/ branch[b].bus2 = c
    <3>1. On(branch[b], 1) /\ On(branch[b], 2)
      BY DEF Shifting, BothEnds, On
    <3>2. BusOf(branch[b], 1) = branch[b].bus1 /\ BusOf(branch[b], 2) = branch[b].bus2
      BY DEF BusOf
    <3>3. (\E k \in Sides : On(branch[b], k) /\ BusOf(branch[b], k) = c) <=>
              (On(branch[b], 1) /\ BusOf(branch[b], 1) = c) \/ (On(branch[b], 2) /\ BusOf(branch[b], 2) = c)
      BY DEF Sides
    <3> QED BY <1>3, <3>1, <3>2, <3>3
  <2>4. (\E t \in Injections(f).loads : t.bus = c) <=> \E l \in LoadsOn : load[l].bus = c
    BY <2>1, <2>2
  <2>5. (\E t \in Injections(f).gens : t.bus = c) <=> \E g \in Injecting : gen[g].bus = c
    BY <2>1, <2>2
  <2>6. (\E t \in Injections(f).shunts : t.bus = c) <=>
            f # "AC" /\ \E s \in ShuntsOn : shunt[s].bus = c
    BY <2>1, <2>2
  <2>7. (\E t \in Injections(f).shifts : \E e \in t.ends : e[2] = c) <=>
            f # "AC" /\ \E b \in Shifting : branch[b].bus1 = c \/ branch[b].bus2 = c
    BY <2>1, <2>2, <2>3
  <2>8. c \in InjectionBuses(f) <=>
            \/ \E l \in LoadsOn : load[l].bus = c
            \/ \E g \in Injecting : gen[g].bus = c
            \/ f # "AC" /\ \E s \in ShuntsOn : shunt[s].bus = c
            \/ f # "AC" /\ \E b \in Shifting : branch[b].bus1 = c \/ branch[b].bus2 = c
    BY DEF InjectionBuses
  <2> QED BY <2>4, <2>5, <2>6, <2>7, <2>8 DEF InjectionsHave
<1> QED BY <1>4, <1>5 DEF BusesSaid

LEMMA SameBusesRead ==
    ASSUME NEW f
    PROVE  /\ UNCHANGED Matrix(f) => UNCHANGED MatrixBuses(f)
           /\ UNCHANGED Injections(f) => UNCHANGED InjectionBuses(f)
<1>1. BusesSaid /\ BusesSaid'
  BY BusesAreSaid, PTL
<1>2. ASSUME UNCHANGED Matrix(f)
      PROVE  \A b : b \in MatrixBuses(f)' <=> b \in MatrixBuses(f)
  BY <1>1, <1>2 DEF BusesSaid, MatrixHas
<1>3. ASSUME UNCHANGED Injections(f)
      PROVE  \A b : b \in InjectionBuses(f)' <=> b \in InjectionBuses(f)
  BY <1>1, <1>3 DEF BusesSaid, InjectionsHave
<1> QED BY <1>2, <1>3

(* What no flag asks to rebuild uses buses of the labelling only.          *)
InsideOf(f, r, c) ==
    /\ ~AnyOf(MatFlags, r) => MatrixBuses(f) \subseteq c.lab
    /\ ~AnyOf(InjFlags, r) => InjectionBuses(f) \subseteq c.lab
    /\ ~AnyOf(SlackFlags, r) => ControlBuses \subseteq c.lab
Inside(f) == InsideOf(f, ctl[f], cache[f])

LEMMA AnnouncedKeepsInside ==
    ASSUME NEW f \in Families, Inside(f), Announced(f), cache'[f].lab = cache[f].lab
    PROVE  Inside(f)'
<1>1. \A flags : ~AnyOf(flags, ctl'[f]) => ~AnyOf(flags, ctl[f]) /\ Untouched(f, flags)
  BY DEF Announced, AnyOf, Untouched
<1>2. ~AnyOf(MatFlags, ctl'[f]) => MatrixBuses(f)' \subseteq cache'[f].lab
  BY <1>1, SameBusesRead DEF Announced, Inside, InsideOf
<1>3. ~AnyOf(InjFlags, ctl'[f]) => InjectionBuses(f)' \subseteq cache'[f].lab
  BY <1>1, SameBusesRead DEF Announced, Inside, InsideOf
<1>4. ~AnyOf(SlackFlags, ctl'[f]) => ControlBuses' \subseteq cache'[f].lab
  BY <1>1 DEF Announced, Inside, InsideOf
<1> QED BY <1>2, <1>3, <1>4 DEF Inside, InsideOf

(* A generator that controls a voltage injects.                            *)
LEMMA ControlsInject == \A f : ControlBuses \subseteq InjectionBuses(f)
BY DEF ControlBuses, InjectionBuses, Controls, Injecting, GensOn

(* What a pipeline leaves, its flags kept.                                 *)
LEMMA PipelineInside ==
    ASSUME TypeOK, NEW f \in Families, LabelClean(f), Inside(f), NEW k, NEW r, NEW x, NEW y,
           Pipeline(f, k, r, x, y)
    PROVE  InsideOf(f, After(f, k, x), y.c)
<1> DEFINE a == After(f, k, x)
<1>1. ctl[f] \subseteq a
  BY AfterTyped DEF After
<1>2. \A flags : ~AnyOf(flags, a) => ~AnyOf(flags, ctl[f])
  BY <1>1 DEF AnyOf
<1>3. ~AnyOf(RedoFlags, a) => y.c.lab = cache[f].lab
  BY LabelKept
<1> HIDE DEF a
<1>4. /\ ~AnyOf(MatFlags, a) => ~AnyOf(RedoFlags, a)
      /\ ~AnyOf(SlackFlags, a) => ~AnyOf(RedoFlags, a)
      /\ ~AnyOf(InjFlags, a) => ~AnyOf(RedoFlags, a)
  BY FlagsNested
<1>5. InsideOf(f, a, y.c)
  BY <1>2, <1>3, <1>4 DEF Inside, InsideOf
<1> QED BY <1>5 DEF a

(* What it leaves when it does not throw: everything uses buses of the     *)
(* labelling, and the flags may be dropped.                                *)
LEMMA FreshInside ==
    ASSUME TypeOK, NEW f \in Families, LabelClean(f), Inside(f), NEW x, NEW y,
           Pipeline(f, ctl[f], After(f, ctl[f], x), x, y), y.ok
    PROVE  InsideOf(f, NoneChanged, y.c)
<1> DEFINE a == After(f, ctl[f], x)
<1>1. InsideOf(f, a, y.c)
  BY PipelineInside
<1>2. /\ AnyOf(MatFlags, a) => MatrixBuses(f) \subseteq y.c.lab
      /\ AnyOf(InjFlags, a) => InjectionBuses(f) \subseteq y.c.lab
  BY DEF Pipeline, StagesPost
<1> HIDE DEF a
<1>3. MatrixBuses(f) \subseteq y.c.lab /\ InjectionBuses(f) \subseteq y.c.lab
  BY <1>1, <1>2 DEF InsideOf
<1> QED BY <1>3, ControlsInject DEF InsideOf

LEMMA SameElementsInside ==
    ASSUME NEW f \in Families, UNCHANGED <<elements, forced>>, InsideOf(f, ctl'[f], cache'[f])
    PROVE  Inside(f)'
<1>1. UNCHANGED <<MatrixBuses(f), InjectionBuses(f), ControlBuses>>
  BY SameGrid, SameBusesRead
<1> QED BY <1>1 DEF Inside, InsideOf

InsideEverywhere == \A f \in Families : Inside(f)

LEMMA PowerFlowInside ==
    ASSUME TypeOK, FlagsSuffice, InsideEverywhere, NEW f \in Families, PowerFlow(f)
    PROVE  InsideEverywhere'
<1> DEFINE y == PfPrepared(f)
           refresh == PfRefresh(f)
<1>0. /\ UNCHANGED <<elements, forced>>
      /\ cache' = [cache EXCEPT ![f] = y.c]
  BY PowerFlowEnds DEF PfThrows, PfAlgorithmThrows, PfDiverges, PfResultsThrow, PfConverges,
         Converging, Preparing
<1>1. KeepFlags(refresh) \/ (MarkValid(f, refresh) /\ y.ok)
  BY PowerFlowEnds DEF PfThrows, PfAlgorithmThrows, PfDiverges, PfResultsThrow, PfConverges,
         Converging, Telling
<1>2. /\ Pipeline(f, ctl[f], After(f, ctl[f], PfIds(f)), PfIds(f), y)
      /\ LabelClean(f) /\ Inside(f)
  BY PreparedTyped DEF Pipeline, PfFlags, PfRefresh, After, FlagsSuffice, FamilyClean,
     InsideEverywhere
<1>3. After(f, ctl[f], PfIds(f)) = CtlAfter(refresh)[f]
  BY DEF After, PfRefresh
<1>4. cache'[f] = y.c /\ \A g \in Families \ {f} : cache'[g] = cache[g]
  BY <1>0 DEF TypeOK
<1>5. InsideOf(f, CtlAfter(refresh)[f], y.c)
  BY <1>2, <1>3, PipelineInside
<1>6. y.ok => InsideOf(f, NoneChanged, y.c)
  BY <1>2, FreshInside
<1>7. ctl'[f] = CtlAfter(refresh)[f] \/ (ctl'[f] = NoneChanged /\ y.ok)
  BY <1>1, AfterTyped DEF KeepFlags, MarkValid
<1>8. \A g \in Families \ {f} : ctl[g] \subseteq ctl'[g]
  BY <1>1, AfterTyped DEF KeepFlags, MarkValid
<1> HIDE DEF y, refresh
<1>9. Inside(f)'
  BY <1>0, <1>4, <1>5, <1>6, <1>7, SameElementsInside
<1>10. ASSUME NEW g \in Families \ {f}
       PROVE  Inside(g)'
  BY <1>0, <1>4, <1>8, SameGridAnnounced, AnnouncedKeepsInside DEF InsideEverywhere
<1> QED BY <1>9, <1>10 DEF InsideEverywhere

LEMMA CheckInside ==
    ASSUME TypeOK, FlagsSuffice, InsideEverywhere, CheckSolution
    PROVE  InsideEverywhere'
<1> DEFINE y == CheckPrepared
           refresh == CheckRefresh
<1>0. /\ "AC" \in Families
      /\ UNCHANGED <<elements, forced>>
      /\ cache' = [cache EXCEPT !["AC"] = y.c]
      /\ ctl' = CtlAfter(refresh)
  BY DEF CheckSolution
<1>1. LabelClean("AC") /\ Inside("AC")
  BY <1>0 DEF FlagsSuffice, FamilyClean, InsideEverywhere
<1>2. Pipeline("AC", CheckFlags, CheckFlags, CheckIds, y)
  <2>1. Usable("AC") => CheckFlags = {}
    BY FS_EmptySet DEF Usable, CheckFlags, NoneChanged
  <2> QED BY <1>0, <2>1, CheckTyped DEF Pipeline, CheckRefresh
<1>3. InsideOf("AC", CtlAfter(refresh)["AC"], y.c)
  BY <1>0, <1>1, <1>2, PipelineInside DEF After, CheckRefresh
<1>4. cache'["AC"] = y.c /\ \A g \in Families \ {"AC"} : cache'[g] = cache[g]
  BY <1>0 DEF TypeOK
<1>5. \A g \in Families : ctl[g] \subseteq ctl'[g]
  BY <1>0, AfterTyped
<1> HIDE DEF y, refresh
<1>6. Inside("AC")'
  BY <1>0, <1>3, <1>4, SameElementsInside
<1>7. ASSUME NEW g \in Families \ {"AC"}
      PROVE  Inside(g)'
  BY <1>0, <1>4, <1>5, SameGridAnnounced, AnnouncedKeepsInside DEF InsideEverywhere
<1> QED BY <1>6, <1>7 DEF InsideEverywhere

(* update_slack_weights announces what it changes.                         *)
LEMMA SlackWeightsAnnounced ==
    ASSUME ElementsTypeOK, NEW chosen, UpdateSlackWeights(chosen), NEW f \in Families
    PROVE  Announced(f)
<1> DEFINE new == [g \in Gens |-> [gen[g] EXCEPT !.weight = Share(chosen, g)]]
<1>1. /\ gen' = new /\ RaiseFor(SlackChangeFlags(new), {})
      /\ UNCHANGED <<load, offIsPv, branch, shunt, forced>>
  BY DEF UpdateSlackWeights, Raise, SolverKept
<1>2. \A g \in Gens : gen[g] \in GenRecord
  BY DEF ElementsTypeOK
<1>3. \A g \in Gens : gen'[g] = [gen[g] EXCEPT !.weight = gen'[g].weight]
  BY <1>1, <1>2 DEF GenRecord
<1>4. SlackChangeFlags(new) = SlackChangeFlags(gen')
  BY <1>1
<1> HIDE DEF new
<1>5. ASSUME NEW g \in Gens
      PROVE  /\ gen'[g].on = gen[g].on /\ gen'[g].bus = gen[g].bus
             /\ gen'[g].reg = gen[g].reg /\ gen'[g].p = gen[g].p
  BY <1>2, <1>3 DEF GenRecord
<1>6. SameBuses
  BY <1>5 DEF SameBuses
<1>7. ASSUME "slack_part" \notin SlackChangeFlags(gen')
      PROVE  SameSlacks /\ SameControls /\ UNCHANGED Injections(f)
  <2>1. \A g \in Gens : gen'[g].weight > 0 <=> gen[g].weight > 0
    BY <1>7 DEF SlackChangeFlags, IsSlack
  <2>2. SameSlacks
    BY <1>5, <2>1 DEF SameSlacks
  <2>3. \A g \in Gens : PseudoOff(g)' <=> PseudoOff(g)
    BY <1>5, <2>1 DEF PseudoOff, IsSlack
  <2>4. SameControls
    BY <1>1, <1>5, <2>3 DEF SameControls, Controls
  <2>5. UNCHANGED Injecting
    BY <1>1, <1>5, <2>3 DEF Injecting, GensOn
  <2>6. UNCHANGED <<LoadsOn, ShuntsOn, Shifting>> /\ \A b : Ends(b)' = Ends(b)
    BY <1>1 DEF LoadsOn, ShuntsOn, Shifting, BothEnds, Ends
  <2>7. {[id |-> g, bus |-> gen[g].bus, p |-> gen[g].p] : g \in Injecting}'
          = {[id |-> g, bus |-> gen[g].bus, p |-> gen[g].p] : g \in Injecting}
    BY <1>5, <2>5 DEF Injecting, GensOn
  <2>8. UNCHANGED Injections(f)
    BY <1>1, <2>6, <2>7 DEF Injections
  <2> QED BY <2>2, <2>4, <2>8
<1>8. ASSUME "slack_weight" \notin SlackChangeFlags(gen')
      PROVE  SameWeights
  <2>1. \A g \in Gens : gen'[g].weight = gen[g].weight
    BY <1>8 DEF SlackChangeFlags
  <2> QED BY <1>5, <2>1 DEF SameWeights
<1>9. ctl[f] \subseteq ctl'[f] /\ \A flags : Untouched(f, flags) => \A x \in flags : x \notin SlackChangeFlags(gen')
  BY <1>1, <1>4, Raises
<1>10. Untouched(f, SlackIdFlags) \/ Untouched(f, SlackFlags) \/ Untouched(f, InjFlags) =>
           SameSlacks /\ SameControls /\ UNCHANGED Injections(f)
  BY <1>7, <1>9, FlagsOf
<1>11. Untouched(f, WeightFlags) => SameWeights
  BY <1>8, <1>9, FlagsOf
<1>12. UNCHANGED <<FixedBuses, Matrix(f)>>
  BY <1>1, Reads
<1> QED BY <1>1, <1>6, <1>9, <1>10, <1>11, <1>12, GenReads DEF Announced

(* A generator update_topo raises no "sbus" for is left alone, and so is   *)
(* one that regulates when it raises no "pv" for it.                       *)
LEMMA QuietGen ==
    ASSUME ElementsTypeOK, NEW request \in Requests, NEW reach \in Reach(request), NEW g \in Gens,
           NEW new, new = UpdatedGen(request, reach.done, g)
    PROVE  /\ new.weight = gen[g].weight /\ new.p = gen[g].p
           /\ new.on = gen[g].on /\ new.bus = gen[g].bus => new = gen[g]
           /\ "sbus" \notin GenFlags(g, new) => new = gen[g]
           /\ g \in Regulating /\ "pv" \notin GenFlags(g, new) => new = gen[g]
           /\ IsSlack(g) /\ "slack_part" \notin GenFlags(g, new) => new = gen[g]
           /\ "one_el" \notin GenFlags(g, new) => new.bus = gen[g].bus
<1>1. gen[g] \in GenRecord /\ new \in GenRecord
  BY UpdatedTyped DEF ElementsTypeOK
<1>2. new.weight = gen[g].weight /\ new.p = gen[g].p
  BY <1>1 DEF UpdatedGen, GenRecord
<1>3. new.bus = gen[g].bus => new.reg = gen[g].reg
  BY <1>1 DEF UpdatedGen, GenRecord, Remote
<1>4. new.on = gen[g].on /\ new.bus = gen[g].bus => new = gen[g]
  BY <1>1, <1>2, <1>3 DEF GenRecord
<1>5. /\ "sbus" \notin GenFlags(g, new) => new.on = gen[g].on /\ new.bus = gen[g].bus
      /\ g \in Regulating /\ "pv" \notin GenFlags(g, new) => new.on = gen[g].on /\ new.bus = gen[g].bus
      /\ IsSlack(g) /\ "slack_part" \notin GenFlags(g, new) => new.on = gen[g].on /\ new.bus = gen[g].bus
      /\ "one_el" \notin GenFlags(g, new) => new.bus = gen[g].bus
  BY DEF GenFlags, GenStatusFlags, PvIf, SlackIf
<1> QED BY <1>2, <1>4, <1>5

(* A branch it raises no flag for is left alone, when its statuses agreed. *)
LEMMA QuietBranch ==
    ASSUME ElementsTypeOK, NEW request \in Requests, NEW reach \in Reach(request),
           NEW b \in Branches, Consistent(b, branch[b]),
           NEW sided, sided = SidedBranch(request, reach.done, b),
           NEW new, new = ResolvedBranch(request, reach.turn, b, sided)
    PROVE  /\ sided = branch[b] => new = branch[b]
           /\ "ybus" \notin BranchFlags(b, sided, new) => new = branch[b]
           /\ "one_el" \notin BranchFlags(b, sided, new) => new = branch[b]
<1>1. branch[b] \in BranchRecord /\ sided \in BranchRecord
  BY UpdatedTyped DEF ElementsTypeOK
<1>2. Consistent(b, sided) => new = sided
  BY <1>1, ResolvedIs
<1>3. /\ sided.global = branch[b].global
      /\ sided.ratio = branch[b].ratio /\ sided.shift = branch[b].shift
  BY <1>1 DEF SidedBranch, BranchRecord
<1>4. ASSUME "ybus" \notin BranchFlags(b, sided, new) \/ "one_el" \notin BranchFlags(b, sided, new)
      PROVE  sided = branch[b]
  <2>1. /\ \A k \in Sides : On(branch[b], k) <=> On(sided, k)
        /\ sided.bus1 = branch[b].bus1 /\ sided.bus2 = branch[b].bus2
    BY <1>4 DEF BranchFlags, SideFlags, SideOffFlags, SideOnFlags, Shifted
  <2>2. (On(branch[b], 1) <=> On(sided, 1)) /\ (On(branch[b], 2) <=> On(sided, 2))
    BY <2>1 DEF Sides
  <2>3. sided.on1 = branch[b].on1 /\ sided.on2 = branch[b].on2
    BY <1>1, <2>2 DEF On, BranchRecord
  <2> QED BY <1>1, <1>3, <2>1, <2>3 DEF BranchRecord
<1> QED BY <1>2, <1>4

(* update_topo announces what it changes, thrown or not, unless it leaves  *)
(* a branch half updated.                                                  *)
LEMMA UpdateTopoAnnounced ==
    ASSUME TopologyTypeOK, SoundBranches, NEW request \in Requests, UpdateTopo(request), cut' = {},
           NEW f \in Families
    PROVE  Announced(f)
<1> ElementsTypeOK
  BY DEF TopologyTypeOK, TypeOK
<1>1. PICK reach \in Reach(request) : UpdateDoes(request, reach, SidesOf(request, reach))
  BY UpdateTopoDoes
<1> DEFINE sided == SidesOf(request, reach)
           flags == UpdateFlags(reach.turn, load', gen', sided, branch')
           hook == TrafoHook(reach.turn, sided)
<1>2. RaiseFor(flags, hook) /\ UNCHANGED <<offIsPv, shunt, forced>>
  BY <1>1, UpdateTopoDoes DEF UpdateDoes, SolverKept
<1>3. /\ \A l \in Loads : LoadFlags(l, load'[l]) \subseteq flags
      /\ \A g \in Gens : GenFlags(g, gen'[g]) \subseteq flags
      /\ \A b \in Branches : BranchFlags(b, sided[b], branch'[b]) \subseteq flags
  BY DEF UpdateFlags
<1>4. /\ load \in [Loads -> LoadRecord] /\ load' = [l \in Loads |-> load'[l]]
      /\ gen \in [Gens -> GenRecord] /\ gen' = [g \in Gens |-> gen'[g]]
      /\ branch \in [Branches -> BranchRecord] /\ branch' = [b \in Branches |-> branch'[b]]
      /\ \A g \in Gens : gen'[g] = UpdatedGen(request, reach.done, g)
      /\ \A b \in Branches : /\ sided[b] = SidedBranch(request, reach.done, b)
                             /\ branch'[b] = ResolvedBranch(request, reach.turn, b, sided[b])
  BY <1>1 DEF UpdateDoes, SidesOf, ElementsTypeOK
<1>5. cut = {} /\ \A b \in Branches : Resolves(reach.turn, b) \/ branch'[b] = branch[b]
  BY <1>1 DEF UpdateDoes
<1>6. \A b \in Branches : Consistent(b, branch[b])
  BY <1>5 DEF SoundBranches, SoundBranch
<1>7. \A b \in Branches : /\ sided[b] = branch[b] => branch'[b] = branch[b]
                          /\ "ybus" \notin flags => branch'[b] = branch[b]
                          /\ "one_el" \notin flags => branch'[b] = branch[b]
  <2> HIDE DEF sided, flags
  <2> QED BY <1>3, <1>4, <1>6, QuietBranch
<1>8. "sbus" \notin hook => \A b \in Trafos : branch'[b] = branch[b]
  <2>1. \A b \in Trafos : b \in Branches /\ (reach.turn > 6 \/ ~Resolves(reach.turn, b))
    BY ElementsAssumption DEF Resolves, LastTurn
  <2>2. "sbus" \notin hook /\ reach.turn > 6 => \A b \in Trafos : sided[b] = branch[b]
    BY DEF TrafoHook
  <2> QED BY <1>5, <1>7, <2>1, <2>2
<1>9. \A g \in Gens : /\ gen'[g].weight = gen[g].weight /\ gen'[g].p = gen[g].p
                      /\ "sbus" \notin flags => gen'[g] = gen[g]
                      /\ g \in Regulating /\ "pv" \notin flags => gen'[g] = gen[g]
                      /\ IsSlack(g) /\ "slack_part" \notin flags => gen'[g] = gen[g]
                      /\ "one_el" \notin flags => gen'[g].bus = gen[g].bus
  <2> HIDE DEF sided, flags
  <2> QED BY <1>3, <1>4, QuietGen
<1>10. "sbus" \notin flags \/ "one_el" \notin flags => \A l \in Loads : load'[l] = load[l]
  BY <1>3 DEF LoadFlags
<1> HIDE DEF sided, flags, hook
<1>11. /\ ctl[f] \subseteq ctl'[f]
       /\ \A set : Untouched(f, set) => \A x \in set : x \notin flags /\ (f = "DC" => x \notin hook)
  BY <1>2, Raises
<1>12. Untouched(f, StatusFlags) => UNCHANGED <<FixedBuses, GenBuses>>
  <2> SUFFICES ASSUME "one_el" \notin flags PROVE UNCHANGED <<FixedBuses, GenBuses>>
    BY <1>11, FlagsOf
  <2>1. UNCHANGED <<load, branch>> /\ SameBuses
    BY <1>4, <1>7, <1>9, <1>10 DEF SameBuses
  <2> QED BY <1>2, <2>1, Reads, GenReads
<1>13. Untouched(f, MatFlags) => UNCHANGED Matrix(f)
  <2> SUFFICES ASSUME "ybus" \notin flags PROVE UNCHANGED Matrix(f)
    BY <1>11, FlagsOf
  <2>1. UNCHANGED branch
    BY <1>4, <1>7
  <2> QED BY <1>2, <2>1, Reads
<1>14. ASSUME "slack_part" \notin flags
       PROVE  SameSlacks /\ SameWeights
  BY <1>9, <1>14 DEF SameSlacks, SameWeights, IsSlack
<1>15. ASSUME "slack_part" \notin flags, "pv" \notin flags
       PROVE  SameControls
  <2>1. \A g \in Regulating : gen'[g] = gen[g]
    BY <1>9, <1>15, ElementsAssumption
  <2> QED BY <1>2, <2>1 DEF SameControls, Controls, PseudoOff, IsSlack
<1>16. Untouched(f, InjFlags) => UNCHANGED Injections(f)
  <2> SUFFICES ASSUME Untouched(f, InjFlags) PROVE UNCHANGED Injections(f)
    OBVIOUS
  <2>1. "sbus" \notin flags /\ (f = "DC" => "sbus" \notin hook)
    BY <1>11, FlagsOf
  <2>2. UNCHANGED <<load, gen>>
    BY <1>4, <1>9, <1>10, <2>1
  <2>3. f = "DC" => UNCHANGED Shifting /\ \A b \in Shifting : branch'[b] = branch[b]
    BY <1>8, <2>1 DEF Shifting, BothEnds
  <2> QED BY <1>2, <2>2, <2>3, ShiftReads, ElementsAssumption
<1> QED BY <1>2, <1>11, <1>12, <1>13, <1>14, <1>15, <1>16, FlagsOf, GenReads DEF Announced

(* What the clean-up makes of a branch that is not half open: it is left   *)
(* alone, or it was closed, with an end outside the main component.        *)
LEMMA CutOffClosed ==
    ASSUME ElementsTypeOK, NEW main, NEW b \in Branches, Consistent(b, branch[b]),
           branch[b].on1 \/ branch[b].on2 => BothEnds(b)
    PROVE  \/ CutOff(main, b) = branch[b]
           \/ /\ BothEnds(b) /\ branch[b].global /\ Outside(main, branch[b])
              /\ ~CutOff(main, b).on1
<1>1. branch[b] \in BranchRecord
  BY DEF ElementsTypeOK
<1>2. CASE BothEnds(b)
  <2>1. branch[b].global
    BY <1>2 DEF Consistent, BothEnds
  <2> QED BY <1>2, <2>1, CutOffTyped
<1>3. CASE ~BothEnds(b)
  <2>1. ~branch[b].on1 /\ ~branch[b].on2
    BY <1>3
  <2>2. branch[b].on1 = FALSE /\ branch[b].on2 = FALSE
    BY <1>1, <2>1 DEF BranchRecord
  <2>3. BothOpen(branch[b]) = branch[b]
    BY <1>1, <2>2 DEF BothOpen, BranchRecord
  <2>4. branch[b].global => b \in IgnoreGlobal
    BY <2>2 DEF Consistent
  <2>5. branch[b].global => [BothOpen(branch[b]) EXCEPT !.global = b \in IgnoreGlobal] = branch[b]
    <3>1. ASSUME branch[b].global
          PROVE  branch[b].global = (b \in IgnoreGlobal)
      <4>1. branch[b].global = TRUE /\ b \in IgnoreGlobal
        BY <1>1, <2>4, <3>1 DEF BranchRecord
      <4> QED BY <4>1, Zenon
    <3> DEFINE kept == b \in IgnoreGlobal
    <3>2. branch[b].global => branch[b].global = kept
      BY <3>1
    <3>3. branch[b].global => [branch[b] EXCEPT !.global = kept] = branch[b]
      <4> HIDE DEF kept
      <4> QED BY <1>1, <3>2 DEF BranchRecord
    <3> QED BY <2>3, <3>3
  <2> QED BY <2>3, <2>5, Zenon DEF CutOff
<1> QED BY <1>2, <1>3

(* The clean-up, where no branch is half open and none half updated, takes *)
(* nothing from a family it does not tell that its dimension changed: what *)
(* the family has kept uses buses of its labelling, which are live still.  *)
CleansUp(main) ==
    /\ \A b \in Branches : \/ branch'[b] = branch[b]
                           \/ /\ BothEnds(b) /\ branch[b].global /\ Outside(main, branch[b])
                              /\ ~branch'[b].on1
    /\ \A l \in Loads : ~load[l].on \/ load[l].bus \in main => load'[l] = load[l]
    /\ \A s \in Shunts : ~shunt[s].on \/ shunt[s].bus \in main => shunt'[s] = shunt[s]
    /\ \A g \in Gens : /\ gen'[g].bus = gen[g].bus /\ gen'[g].weight = gen[g].weight
                       /\ gen'[g].reg = gen[g].reg /\ gen'[g].p = gen[g].p
                       /\ gen'[g].on <=> gen[g].on /\ gen[g].bus \in main
    /\ load' = [l \in Loads |-> load'[l]] /\ branch' = [b \in Branches |-> branch'[b]]
    /\ shunt' = [s \in Shunts |-> shunt'[s]]
    /\ UNCHANGED <<offIsPv, forced>>

LEMMA CleanUpDoes ==
    ASSUME ElementsTypeOK, SoundBranches, cut = {}, NoneHalfOpen, ConsiderOnlyMainComponent
    PROVE  CleansUp(MainComponent)
<1> DEFINE main == MainComponent
<1>1. /\ branch' = [b \in Branches |-> CutOff(main, b)]
      /\ load' = [l \in Loads |-> MainLoad(main, l)]
      /\ gen' = [g \in Gens |-> [gen[g] EXCEPT !.on = @ /\ gen[g].bus \in main]]
      /\ shunt' = [s \in Shunts |-> [shunt[s] EXCEPT !.on = @ /\ shunt[s].bus \in main]]
      /\ UNCHANGED <<offIsPv, forced>>
  BY DEF ConsiderOnlyMainComponent
<1> HIDE DEF main
<1>2. ASSUME NEW b \in Branches
      PROVE  \/ branch'[b] = branch[b]
             \/ /\ BothEnds(b) /\ branch[b].global /\ Outside(main, branch[b])
                /\ ~branch'[b].on1
  <2>1. Consistent(b, branch[b]) /\ (branch[b].on1 \/ branch[b].on2 => BothEnds(b))
    BY DEF SoundBranches, SoundBranch, NoneHalfOpen, BranchesOn
  <2>2. branch'[b] = CutOff(main, b)
    BY <1>1
  <2> QED BY <2>1, <2>2, CutOffClosed
<1>3. ASSUME NEW l \in Loads, ~load[l].on \/ load[l].bus \in main
      PROVE  load'[l] = load[l]
  <2> DEFINE on == load[l].on /\ load[l].bus \in main
  <2>1. load[l] \in LoadRecord /\ load[l].on = on
    BY <1>3 DEF ElementsTypeOK, LoadRecord
  <2>2. load'[l] = [load[l] EXCEPT !.on = on]
    BY <1>1, <2>1 DEF MainLoad, LoadRecord
  <2> HIDE DEF on
  <2> QED BY <2>1, <2>2 DEF LoadRecord
<1>4. ASSUME NEW s \in Shunts, ~shunt[s].on \/ shunt[s].bus \in main
      PROVE  shunt'[s] = shunt[s]
  <2> DEFINE on == shunt[s].on /\ shunt[s].bus \in main
  <2>1. shunt[s] \in ShuntRecord /\ shunt[s].on = on
    BY <1>4 DEF ElementsTypeOK, ShuntRecord
  <2>2. shunt'[s] = [shunt[s] EXCEPT !.on = on]
    BY <1>1, <2>1 DEF ShuntRecord
  <2> HIDE DEF on
  <2> QED BY <2>1, <2>2 DEF ShuntRecord
<1>5. ASSUME NEW g \in Gens
      PROVE  /\ gen'[g].bus = gen[g].bus /\ gen'[g].weight = gen[g].weight
             /\ gen'[g].reg = gen[g].reg /\ gen'[g].p = gen[g].p
             /\ gen'[g].on <=> gen[g].on /\ gen[g].bus \in main
  BY <1>1 DEF ElementsTypeOK, GenRecord
<1>6. /\ load' = [l \in Loads |-> load'[l]] /\ branch' = [b \in Branches |-> branch'[b]]
      /\ shunt' = [s \in Shunts |-> shunt'[s]]
  BY <1>1
<1>7. CleansUp(main)
  BY <1>1, <1>2, <1>3, <1>4, <1>5, <1>6 DEF CleansUp
<1> QED BY <1>7 DEF main

(* Each contribution, when the buses it uses are in the main component.    *)
LEMMA CleansUpReads ==
    ASSUME ElementsTypeOK, NEW main, CleansUp(main), NEW f \in Families
    PROVE  /\ FixedBuses \subseteq main => UNCHANGED FixedBuses
           /\ MatrixBuses(f) \subseteq main => UNCHANGED Matrix(f)
           /\ InjectionBuses(f) \subseteq main => UNCHANGED Injections(f)
           /\ ControlBuses \subseteq main => SameControls
           /\ WeightedBuses \subseteq main => SameWeights
           /\ SameSlacks /\ SameBuses
<1>0. /\ load \in [Loads -> LoadRecord] /\ branch \in [Branches -> BranchRecord]
      /\ shunt \in [Shunts -> ShuntRecord]
      /\ UNCHANGED <<offIsPv, forced>>
      /\ \A g \in Gens : /\ gen'[g].bus = gen[g].bus /\ gen'[g].weight = gen[g].weight
                         /\ gen'[g].reg = gen[g].reg /\ gen'[g].p = gen[g].p
                         /\ gen'[g].on <=> gen[g].on /\ gen[g].bus \in main
  BY DEF CleansUp, ElementsTypeOK
<1>1. {load[l].bus : l \in LoadsOn} \subseteq main => UNCHANGED load
  BY <1>0 DEF CleansUp, LoadsOn
<1>2. {shunt[s].bus : s \in ShuntsOn} \subseteq main => UNCHANGED shunt
  BY <1>0 DEF CleansUp, ShuntsOn
<1>3. ASSUME NEW b \in Branches, BothEnds(b), branch[b].bus1 \in main, branch[b].bus2 \in main
      PROVE  branch'[b] = branch[b]
  BY <1>3 DEF CleansUp, Outside
<1>4. ASSUME NEW b \in Branches, ~BothEnds(b)
      PROVE  branch'[b] = branch[b]
  BY <1>4 DEF CleansUp
<1>5. ASSUME FixedBuses \subseteq main
      PROVE  UNCHANGED FixedBuses
  <2>1. ASSUME NEW b \in Branches, BothEnds(b)
        PROVE  branch[b].bus1 \in main /\ branch[b].bus2 \in main
    <3>1. <<b, 1>> \in {x \in Branches \X Sides : On(branch[x[1]], x[2])}
      BY <2>1 DEF BothEnds, On, Sides
    <3>2. <<b, 2>> \in {x \in Branches \X Sides : On(branch[x[1]], x[2])}
      BY <2>1 DEF BothEnds, On, Sides
    <3>3. BusOf(branch[b], 1) \in BranchBuses /\ BusOf(branch[b], 2) \in BranchBuses
      BY <3>1, <3>2 DEF BranchBuses
    <3> QED BY <1>5, <3>3 DEF FixedBuses, BusOf
  <2>2. UNCHANGED branch
    BY <1>0, <1>3, <1>4, <2>1 DEF CleansUp
  <2>3. UNCHANGED <<load, shunt>>
    BY <1>1, <1>2, <1>5 DEF FixedBuses
  <2> QED BY <2>2, <2>3, Reads
<1>6. ASSUME MatrixBuses(f) \subseteq main
      PROVE  UNCHANGED Matrix(f)
  <2>1. ASSUME NEW b \in Branches, BothEnds(b), branch[b].global
        PROVE  branch[b].bus1 \in main /\ branch[b].bus2 \in main
    <3>0. InMatrix(f, b)
      BY <2>1 DEF BothEnds, InMatrix, BranchesOn
    <3>1. <<b, 1>> \in {x \in Branches \X Sides : InMatrix(f, x[1]) /\ On(branch[x[1]], x[2])}
      BY <2>1, <3>0 DEF BothEnds, On, Sides
    <3>2. <<b, 2>> \in {x \in Branches \X Sides : InMatrix(f, x[1]) /\ On(branch[x[1]], x[2])}
      BY <2>1, <3>0 DEF BothEnds, On, Sides
    <3>3. BusOf(branch[b], 1) \in MatrixBuses(f) /\ BusOf(branch[b], 2) \in MatrixBuses(f)
      BY <3>1, <3>2 DEF MatrixBuses
    <3> QED BY <1>6, <3>3 DEF BusOf
  <2>2. UNCHANGED branch
    BY <1>0, <2>1 DEF CleansUp, Outside
  <2>3. f = "AC" => UNCHANGED shunt
    BY <1>2, <1>6 DEF MatrixBuses
  <2>4. /\ \A b : BranchStamp(f, b)' = BranchStamp(f, b)
        /\ \A b : InMatrix(f, b)' <=> InMatrix(f, b)
        /\ f = "AC" => UNCHANGED ShuntsOn
    BY <2>2, <2>3 DEF BranchStamp, Ends, InMatrix, BothEnds, BranchesOn, ShuntsOn
  <2>5. {BranchStamp(f, b) : b \in {x \in Branches : InMatrix(f, x)}}'
          = {BranchStamp(f, b) : b \in {x \in Branches : InMatrix(f, x)}}
    BY <2>4
  <2> QED BY <2>3, <2>4, <2>5 DEF Matrix
<1>7. ASSUME InjectionBuses(f) \subseteq main
      PROVE  UNCHANGED Injections(f)
  <2>1. /\ {load[l].bus : l \in LoadsOn} \subseteq main /\ {gen[g].bus : g \in Injecting} \subseteq main
        /\ f # "AC" => /\ {shunt[s].bus : s \in ShuntsOn} \subseteq main
                       /\ \A b \in Shifting : branch[b].bus1 \in main /\ branch[b].bus2 \in main
    BY <1>7 DEF InjectionBuses
  <2>2. UNCHANGED LoadsOn /\ UNCHANGED load
    BY <1>1, <2>1 DEF LoadsOn
  <2>3. f # "AC" => UNCHANGED ShuntsOn /\ UNCHANGED shunt
    BY <1>2, <2>1 DEF ShuntsOn
  <2>4. UNCHANGED Injecting /\ \A g \in Injecting : gen'[g].bus = gen[g].bus /\ gen'[g].p = gen[g].p
    BY <1>0, <2>1 DEF Injecting, GensOn, PseudoOff, IsSlack
  <2>5. f # "AC" => \A b \in Shifting : branch'[b] = branch[b]
    BY <1>3, <2>1, ElementsAssumption DEF Shifting
  <2>6. f # "AC" => UNCHANGED Shifting
    <3>1. ASSUME f # "AC", NEW b \in Trafos
          PROVE  b \in Shifting' <=> b \in Shifting
      <4>1. CASE branch'[b] = branch[b]
        BY <4>1 DEF Shifting, BothEnds
      <4>2. CASE branch'[b] # branch[b]
        BY <2>5, <3>1, <4>2, ElementsAssumption DEF CleansUp, Shifting, BothEnds
      <4> QED BY <4>1, <4>2
    <3> QED BY <3>1 DEF Shifting
  <2>7. {[id |-> g, bus |-> gen[g].bus, p |-> gen[g].p] : g \in Injecting}'
          = {[id |-> g, bus |-> gen[g].bus, p |-> gen[g].p] : g \in Injecting}
    BY <2>4
  <2>8. f # "AC" => {[id |-> b, ends |-> Ends(b), ratio |-> branch[b].ratio,
                      shift |-> branch[b].shift] : b \in Shifting}'
                    = {[id |-> b, ends |-> Ends(b), ratio |-> branch[b].ratio,
                        shift |-> branch[b].shift] : b \in Shifting}
    BY <2>5, <2>6 DEF Ends
  <2> QED BY <2>2, <2>3, <2>7, <2>8 DEF Injections
<1>8. ControlBuses \subseteq main => SameControls
  <2>1. \A g \in Gens : PseudoOff(g)' <=> PseudoOff(g)
    BY <1>0 DEF PseudoOff, IsSlack
  <2> QED BY <1>0, <2>1 DEF SameControls, Controls, ControlBuses
<1>9. WeightedBuses \subseteq main => SameWeights
  BY <1>0 DEF SameWeights, WeightedBuses, WeightedGens, GensOn, IsSlack
<1>10. SameSlacks /\ SameBuses
  BY <1>0 DEF SameSlacks, SameBuses
<1> QED BY <1>5, <1>6, <1>7, <1>8, <1>9, <1>10

LEMMA CleanUpClean ==
    ASSUME TopologyTypeOK, SoundBranches, cut = {}, SharedEverywhere, FlagsSuffice, InsideEverywhere,
           NoneHalfOpen, ConsiderOnlyMainComponent
    PROVE  FlagsSuffice' /\ InsideEverywhere'
<1> ElementsTypeOK
  BY DEF TopologyTypeOK, TypeOK
<1> DEFINE main == MainComponent
<1>1. CleansUp(main) /\ LiveBuses' \subseteq main
  BY CleanUpDoes, CleanUpLive
<1> HIDE DEF main
<1>2. /\ UNCHANGED <<cache, snap, snMva, forced>>
      /\ \A f \in Families : /\ ctl[f] \subseteq ctl'[f]
                             /\ snap[f] # LiveBuses' => "dimension" \in ctl'[f]
  BY DEF ConsiderOnlyMainComponent
<1>3. ASSUME NEW f \in Families
      PROVE  FamilyClean(f)' /\ Inside(f)'
  <2>1. FamilyClean(f) /\ Inside(f) /\ Shared(f)
    BY DEF FlagsSuffice, InsideEverywhere, SharedEverywhere
  <2>2. ~AnyOf(RedoFlags, ctl'[f]) => cache[f].lab \subseteq main
    <3>1. ASSUME ~AnyOf(RedoFlags, ctl'[f])
          PROVE  Clean(f, RedoFlags) /\ snap[f] = LiveBuses'
      BY <1>2, <3>1 DEF Clean, AnyOf, RedoFlags
    <3> QED BY <1>1, <2>1, <3>1 DEF FamilyClean, LabelClean
  <2>3. \A set : Untouched(f, set) => Clean(f, set)
    BY <1>2 DEF Untouched, Clean, AnyOf
  <2>4. /\ Untouched(f, StatusFlags) \/ Untouched(f, MatFlags) \/ Untouched(f, InjFlags)
           \/ Untouched(f, SlackFlags) \/ Untouched(f, WeightFlags) => cache[f].lab \subseteq main
    BY <2>2, FlagsNested DEF Untouched
  <2>5. /\ Untouched(f, StatusFlags) => FixedBuses \subseteq main
        /\ Untouched(f, MatFlags) => MatrixBuses(f) \subseteq main
        /\ Untouched(f, InjFlags) => InjectionBuses(f) \subseteq main
        /\ Untouched(f, SlackFlags) => ControlBuses \subseteq main
        /\ Untouched(f, WeightFlags) => WeightedBuses \subseteq main
    BY <2>1, <2>3, <2>4 DEF FamilyClean, StatusClean, LabCovers, Inside, InsideOf, Shared, Clean
  <2>6. Announced(f)
    BY <1>1, <1>2, <2>5, CleansUpReads, GenReads DEF Announced
  <2>7. LabelClean(f)'
    BY CleanUpShares DEF SharedEverywhere
  <2> QED BY <1>2, <2>1, <2>6, <2>7, AnnouncedKeepsData, AnnouncedKeepsInside DEF FamilyClean
<1> QED BY <1>3 DEF FlagsSuffice, InsideEverywhere

(* Steps that change elements, keep every cache and announce what they do. *)
LEMMA AnnouncedKeepsAll ==
    ASSUME FlagsSuffice, InsideEverywhere, \A f \in Families : Announced(f),
           UNCHANGED <<cache, busStatus, snap, snMva>>
    PROVE  FlagsSuffice' /\ InsideEverywhere'
BY AnnouncedKeepsClean, AnnouncedKeepsInside DEF FlagsSuffice, InsideEverywhere, StatusTold

LEMMA ChangeAnnounced ==
    ASSUME SoundClient, TopologyTypeOK, SoundBranches, cut = {}, Change
    PROVE  \A f \in Families : Announced(f)
<1>1. ElementsTypeOK /\ ElementsTypeOK'
  BY ChangeTyped DEF TopologyTypeOK, TypeOK
<1>2. StatusConsistent
  BY ConsistentEverywhere DEF SoundBranches, SoundBranch, ConsistentOn
<1>3. ElementStep /\ UNCHANGED forced
  BY DEF Change, Modify
<1> QED BY <1>1, <1>2, <1>3, ElementAnnounced

(* The invariant: as long as no update_topo that threw has left a branch   *)
(* half updated, the flags suffice, what no flag asks for uses buses of    *)
(* the labelling, and the answers are current.                             *)
SoundSoFar == cut = {} => FlagsSuffice /\ InsideEverywhere /\ AnswerIsCurrent
TopologyInvariant == TopologyTypeOK /\ SoundBranches /\ SharedEverywhere /\ SoundSoFar

LEMMA NextSoFar ==
    ASSUME SoundClient, TopologyInvariant, SoundTopologyNext
    PROVE  SoundSoFar'
<1> SUFFICES ASSUME cut' = {} PROVE FlagsSuffice' /\ InsideEverywhere' /\ AnswerIsCurrent'
  BY DEF SoundSoFar
<1> TopologyTypeOK /\ TypeOK /\ ElementsTypeOK /\ SoundBranches /\ SharedEverywhere
  BY DEF TopologyInvariant, TopologyTypeOK, TypeOK
<1>1. ASSUME NEW request \in Requests, UpdateTopo(request)
      PROVE  FlagsSuffice' /\ InsideEverywhere' /\ AnswerIsCurrent'
  <2>1. PICK reach \in Reach(request) : UpdateDoes(request, reach, SidesOf(request, reach))
    BY <1>1, UpdateTopoDoes
  <2>2. cut = {}
    BY <2>1 DEF UpdateDoes
  <2>3. UNCHANGED <<cache, busStatus, snap, snMva>> /\ last' = "none"
    BY <1>1, UpdateTopoDoes DEF SolverKept
  <2> QED BY <1>1, <2>2, <2>3, UpdateTopoAnnounced, AnnouncedKeepsAll, NoAnswer
          DEF TopologyInvariant, SoundSoFar
<1>2. ASSUME UNCHANGED cut
      PROVE  cut = {} /\ FlagsSuffice /\ InsideEverywhere
  BY <1>2 DEF TopologyInvariant, SoundSoFar
<1>3. CASE Change
  <2>1. UNCHANGED cut /\ UNCHANGED <<cache, busStatus, snap, snMva>> /\ last' = "none"
    BY <1>3 DEF Change, Modify
  <2> QED BY <1>2, <1>3, <2>1, ChangeAnnounced, AnnouncedKeepsAll, NoAnswer
<1>4. ASSUME NEW f \in Families, Solve(f)
      PROVE  FlagsSuffice' /\ InsideEverywhere' /\ AnswerIsCurrent'
  <2>1. UNCHANGED cut /\ PowerFlow(f)
    BY <1>4 DEF Solve
  <2> QED BY <1>2, <2>1, PowerFlowClean, PowerFlowInside
<1>5. CASE Check
  <2>1. UNCHANGED cut /\ CheckSolution /\ last' = "none"
    BY <1>5 DEF Check, CheckSolution
  <2> QED BY <1>2, <2>1, CheckSolutionClean, CheckInside, NoAnswer
<1>6. CASE ConsiderOnlyMainComponent
  <2>1. UNCHANGED cut /\ NoneHalfOpen /\ last' = "none"
    BY <1>6 DEF ConsiderOnlyMainComponent, topology, SoundTopologyNext
  <2> QED BY <1>2, <1>6, <2>1, CleanUpClean, NoAnswer
<1>7. ASSUME NEW chosen, UpdateSlackWeights(chosen)
      PROVE  FlagsSuffice' /\ InsideEverywhere' /\ AnswerIsCurrent'
  <2>1. UNCHANGED cut /\ UNCHANGED <<cache, busStatus, snap, snMva>> /\ last' = "none"
    BY <1>7 DEF UpdateSlackWeights, topology, SolverKept
  <2> QED BY <1>2, <1>7, <2>1, SlackWeightsAnnounced, AnnouncedKeepsAll, NoAnswer
<1> QED BY <1>1, <1>3, <1>4, <1>5, <1>6, <1>7 DEF SoundTopologyNext, TopologyNext

LEMMA InvariantKept ==
    ASSUME SoundClient
    PROVE  TopologyInvariant /\ [SoundTopologyNext]_allVars => TopologyInvariant'
<1>1. CASE UNCHANGED allVars
  <2>1. ASSUME SoundSoFar
        PROVE  SoundSoFar'
    <3>1. UNCHANGED <<elements, forced, cache, busStatus, snap, snMva, ctl, cut, last>>
      BY <1>1 DEF allVars, vars, solver, topology
    <3>2. AnswerIsCurrent => AnswerIsCurrent'
      BY <3>1, SameGrid
         DEF AnswerIsCurrent, IsFresh, LabCovers, MatIs, InjIs, WtsIs, SlackIs, PvPqIs, PqBuses
    <3> QED BY <2>1, <3>1, <3>2, SameGridAnnounced, AnnouncedKeepsAll DEF SoundSoFar
  <2> QED BY <1>1, <2>1, TopologyNextTyped, TopologyNextSound, TopologyNextShares
          DEF TopologyInvariant
<1>2. CASE SoundTopologyNext
  BY <1>2, NextSoFar, TopologyNextTyped, TopologyNextSound, TopologyNextShares
     DEF TopologyInvariant, SoundTopologyNext
<1> QED BY <1>1, <1>2

LEMMA TopologyInitSoFar == TopologyInit => TopologyInvariant
<1> SUFFICES ASSUME TopologyInit PROVE SoundSoFar
  BY TopologyInitTyped, TopologyInitSound, TopologyInitShares DEF TopologyInvariant
<1>1. FlagsSuffice /\ AnswerIsCurrent
  BY InitClean DEF TopologyInit
<1>2. \A f \in Families : AnyOf(MatFlags, ctl[f]) /\ AnyOf(InjFlags, ctl[f]) /\ AnyOf(SlackFlags, ctl[f])
  BY DEF TopologyInit, Init, AllChanged, AnyOf, Flags, MatFlags, InjFlags, SlackFlags, LabelFlags, RedoFlags
<1> QED BY <1>1, <1>2 DEF SoundSoFar, InsideEverywhere, Inside, InsideOf

(* However update_topo, the clean-up and the shares of the slack mix with  *)
(* the other changes and the powerflows, and wherever update_topo throws,  *)
(* no change is lost to the next powerflow: until a branch is left half    *)
(* updated, whatever no flag asks to rebuild is what a rebuild would give. *)
(* For every grid, and every client that is sound and calls the clean-up   *)
(* where no line is half open.                                             *)
THEOREM FlagsSufficeUntilCut ==
    ASSUME SoundClient
    PROVE  SoundTopologySpec => []FlagsSufficeOrCut
<1>1. TopologyInit => TopologyInvariant
  BY TopologyInitSoFar
<1>2. TopologyInvariant /\ [SoundTopologyNext]_allVars => TopologyInvariant'
  BY InvariantKept
<1>3. TopologyInvariant => FlagsSufficeOrCut
  BY DEF TopologyInvariant, SoundSoFar, FlagsSufficeOrCut
<1> QED BY <1>1, <1>2, <1>3, PTL DEF SoundTopologySpec

(* Until then the answers stay right as well: a powerflow that returns     *)
(* results was computed on the grid these operations made, all of it in    *)
(* one labelling.                                                          *)
AnswersOrCut == cut = {} => AnswerIsCurrent

THEOREM AnswersAreCurrentUntilCut ==
    ASSUME SoundClient
    PROVE  SoundTopologySpec => []AnswersOrCut
<1>1. TopologyInit => TopologyInvariant
  BY TopologyInitSoFar
<1>2. TopologyInvariant /\ [SoundTopologyNext]_allVars => TopologyInvariant'
  BY InvariantKept
<1>3. TopologyInvariant => AnswersOrCut
  BY DEF TopologyInvariant, SoundSoFar, AnswersOrCut
<1> QED BY <1>1, <1>2, <1>3, PTL DEF SoundTopologySpec
=============================================================================
