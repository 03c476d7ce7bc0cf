---------------------------- MODULE NewtonProofs ----------------------------
(***************************************************************************)
(* Proofs about the devices that regulate and the algorithms of an AC      *)
(* powerflow, for every grid and every client AcSpec allows: whatever was  *)
(* kept from one powerflow to the next, a powerflow is about the devices   *)
(* as they are.                                                            *)
(***************************************************************************)
EXTENDS AcAlgorithms, FiniteSetTheorems, TLAPS

-----------------------------------------------------------------------------
(* The inductive invariant.  Each part that is kept is current, or a flag  *)
(* that makes the next powerflow redo it is raised.                        *)

(* A line whose stations are both connected is connected, and one in droop *)
(* has both connected: this is why deactivating or reconnecting a line     *)
(* without a flag leaves the droops alone.                                 *)
PartlyOk == \A h \in Hvdc : /\ DroopOn(h) => hvdc[h].on = [k \in K |-> TRUE]
                            /\ hvdc[h].on = [k \in K |-> TRUE] => hvdc[h].global

(* What was looked at when a datum was last redone still holds: there is a *)
(* slack, its buses and those of the injections are alive.                 *)
Alive == SlackGens # {} /\ SlackOf \subseteq Live /\ Injectable

PrepOwes ==
    /\ AnyOf(flags, SlackIdFlags) \/ (prep.slack = SlackOf /\ SlackGens # {})
    /\ AnyOf(flags, SlackFlags) \/ (prep.pv = PvOf(SlackOf) /\ SlackOf \subseteq Live)
    /\ AnyOf(flags, InjFlags) \/ (prep.inj = Injected /\ Injectable)
    /\ AnyOf(flags, MatFlags) \/ prep.line = line
    /\ AnyOf(flags, LimitFlags) \/ prep.counted = QTakers
    /\ AnyOf(flags, WeightFlags) \/ prep.weighted = Weighted
NrOwes == nr.need \/ AnyOf(flags, RebuildFlags) \/ nr.J = {Required}
FdKept == fd.grid = {line} /\ fd.mat = {FdMatrices(Current, line)}
FdOwes == fd.need \/ AnyOf(flags, FdResetFlags) \/ AnyOf(flags, FdGridFlags)
          \/ (FdKept /\ fd.factored = fd.mat)

(* During a powerflow everything it uses is current.                       *)
SolvingNr == algo = "NR" => /\ nr.J = {Required} /\ nr.seen = {Pulled(Current)}
                            /\ pc = "iterating" => nr.factored = {Required}
SolvingFd == algo = "FDPF" => /\ FdKept /\ (fd.need \/ fd.factored = fd.mat)
                              /\ pc = "iterating" => ~fd.need
Solving == pc # "idle" => prep = Current /\ FreshAccepts /\ SolvingNr /\ SolvingFd

AtMostOne(S) == S = {} \/ \E x : S = {x}
NrShape == /\ nr = [need |-> nr.need, init |-> nr.init, seen |-> nr.seen, J |-> nr.J,
                    analysed |-> nr.analysed, factored |-> nr.factored]
           /\ nr.need \in BOOLEAN /\ nr.init \in BOOLEAN
           /\ AtMostOne(nr.seen) /\ AtMostOne(nr.J) /\ AtMostOne(nr.analysed) /\ AtMostOne(nr.factored)
FdShape == /\ fd = [need |-> fd.need, grid |-> fd.grid, mat |-> fd.mat, factored |-> fd.factored]
           /\ fd.need \in BOOLEAN
           /\ AtMostOne(fd.grid) /\ AtMostOne(fd.mat) /\ AtMostOne(fd.factored)
PrepShape == /\ prep.slack \in SUBSET Buses /\ prep.pv \in SUBSET Buses
             /\ prep.weighted \in SUBSET Buses /\ prep.line \in BOOLEAN
KeptAlone == (algo # "NR" => nr = Nothing) /\ (algo # "FDPF" => fd = FdNothing)
Control == /\ pc \in {"idle", "begun", "iterating"}
           /\ last \in {"none", "refused", "converged", "failed"}
           /\ algo \in AlgoClasses /\ coeffs \in BOOLEAN

Shapes == DevicesTypeOK /\ NrShape /\ FdShape /\ PrepShape /\ Control /\ KeptAlone
(* A powerflow that was refused would be refused at first; the results of  *)
(* one that converged are those of the devices as they are.                *)
Ended == RefusalIsDeserved /\ (last = "converged" => prep = Current /\ FreshAccepts)

Owes   == PrepOwes /\ NrOwes /\ FdOwes
AcInv  == Shapes /\ PartlyOk /\ Owes /\ Solving /\ Ended

-----------------------------------------------------------------------------
(* What the invariant gives.                                               *)

LEMMA AtMostOneCounts ==
    ASSUME NEW S, AtMostOne(S)
    PROVE  Cardinality(S) \in {0, 1}
<1>1. CASE S = {}
  BY <1>1, FS_EmptySet
<1>2. ASSUME NEW x, S = {x} PROVE Cardinality(S) = 1
  BY <1>2, FS_Singleton
<1> QED BY <1>1, <1>2 DEF AtMostOne

LEMMA InvGives ==
    AcInv => /\ AcTypeOK /\ NeverDroopHalfOpen /\ JudgesCurrent
             /\ IteratesOnCurrent /\ SolvesWithCurrent /\ RefusalIsDeserved
<1> SUFFICES ASSUME AcInv PROVE /\ AcTypeOK /\ NeverDroopHalfOpen /\ JudgesCurrent
                                /\ IteratesOnCurrent /\ SolvesWithCurrent /\ RefusalIsDeserved
  OBVIOUS
<1> USE DEF AcInv
<1>1. NewtonTypeOK
  <2>1. \A part \in {"seen", "J", "analysed", "factored"} : AtMostOne(nr[part])
    BY DEF Shapes, NrShape
  <2>2. \A part \in {"seen", "J", "analysed", "factored"} : Cardinality(nr[part]) \in {0, 1}
    BY <2>1, AtMostOneCounts
  <2> QED BY <2>2 DEF NewtonTypeOK, Shapes, PrepShape, Control, NrShape
<1>2. AcTypeOK
  <2>1. \A part \in {"grid", "mat", "factored"} : AtMostOne(fd[part])
    BY DEF Shapes, FdShape
  <2>2. \A part \in {"grid", "mat", "factored"} : Cardinality(fd[part]) \in {0, 1}
    BY <2>1, AtMostOneCounts
  <2>3. nr = Nothing \/ fd = FdNothing
    BY DEF Shapes, KeptAlone
  <2> QED BY <1>1, <2>2, <2>3 DEF AcTypeOK, Shapes, Control, FdShape
<1>3. NeverDroopHalfOpen
  BY DEF NeverDroopHalfOpen, PartlyOk
<1>4. JudgesCurrent
  BY DEF JudgesCurrent, Solving
<1>5. IteratesOnCurrent
  BY DEF IteratesOnCurrent, Solving, SolvingNr
<1>6. SolvesWithCurrent
  BY DEF SolvesWithCurrent, Solving, SolvingFd, FdKept
<1> QED BY <1>2, <1>3, <1>4, <1>5, <1>6 DEF Ended

-----------------------------------------------------------------------------
(* The devices announce what they change.                                  *)

(* Each quantity a powerflow reads is as it was, or the flag it is redone  *)
(* for is raised.                                                          *)
StationBuses == {StationBus(x) : x \in VscOn}
Announced ==
    /\ flags \subseteq flags'
    /\ \/ "dimension" \in flags'
       \/ /\ cut' = cut
          /\ line' = line \/ "ybus" \in flags'
          /\ (SlackOf' = SlackOf /\ Weighted' = Weighted) \/ "slack_part" \in flags'
          /\ \/ "pv" \in flags'
             \/ /\ Pinned' = Pinned /\ GroupControlled' = GroupControlled
                /\ StationBuses' = StationBuses /\ Groups' = Groups /\ Droops' = Droops
          /\ \/ "sbus" \in flags'
             \/ Injected' = Injected /\ QTakers' = QTakers

(* Flags only rise between two powerflows.                                 *)
LEMMA StillRaised ==
    ASSUME flags \subseteq flags', NEW S
    PROVE  AnyOf(flags, S) => AnyOf(flags', S)
BY DEF AnyOf

(* The same slack, PV buses and live buses make the same Jacobian.         *)
LEMMA SameJacobian ==
    ASSUME cut' = cut, line' = line, SlackOf' = SlackOf, Pinned' = Pinned,
           GroupControlled' = GroupControlled, StationBuses' = StationBuses,
           Groups' = Groups, Droops' = Droops
    PROVE  /\ PvOf(SlackOf)' = PvOf(SlackOf) /\ Required' = Required
           /\ FdMatrices(Current, line)' = FdMatrices(Current, line)
<1>1. PvOf(SlackOf)' = PvOf(SlackOf)
  BY DEF PvOf, StationBuses
<1>2. /\ Current.slack = SlackOf /\ Current.pv = PvOf(SlackOf) /\ Current.line = line
      /\ Current'.slack = SlackOf' /\ Current'.pv = PvOf(SlackOf)' /\ Current'.line = line'
  BY DEF Current
<1>3. Live' = Live
  BY DEF Live
<1>4. /\ Current'.slack = Current.slack /\ Current'.pv = Current.pv /\ Current'.line = Current.line
  BY <1>1, <1>2
<1> HIDE DEF Current
<1>5. PqBuses(Current)' = PqBuses(Current)
  BY <1>3, <1>4 DEF PqBuses
<1>6. Reference(Current)' = Reference(Current)
  BY <1>4 DEF Reference
<1>7. FreeVmSlack(SlackOf)' = FreeVmSlack(SlackOf)
  BY DEF FreeVmSlack
<1>8. Pulled(Current)' = Pulled(Current)
  BY <1>2, <1>7 DEF Pulled, FreeVmSlack
<1>9. Claims(Current, Pulled(Current))' = Claims(Current, Pulled(Current))
  BY <1>4, <1>5, <1>6, <1>8 DEF Claims, BaseClaims, SlackClaims, GroupClaims, Regulated, GroupOf, First
<1>10. /\ Joined(Current)' = Joined(Current)
       /\ SlackEntries(Current)' = SlackEntries(Current)
       /\ DroopEntries(Pulled(Current))' = DroopEntries(Pulled(Current))
       /\ Regulated(Pulled(Current))' = Regulated(Pulled(Current))
  BY <1>3, <1>4, <1>8 DEF Joined, SlackEntries, DroopEntries, Regulated
<1>11. PowerEntries(Current)' = PowerEntries(Current)
  BY <1>10 DEF PowerEntries
<1>12. \A r : GroupEntries(Pulled(Current), r)' = GroupEntries(Pulled(Current), r)
  BY <1>8 DEF GroupEntries, GroupOf, First
<1>13. Required' = Required
  BY <1>9, <1>10, <1>11, <1>12 DEF Required, Pattern, RowsOf, ColsOf
<1>14. FdMatrices(Current, line)' = FdMatrices(Current, line)
  BY <1>4, <1>5, <1>6 DEF FdMatrices
<1> QED BY <1>1, <1>13, <1>14

LEMMA AnnouncedKeeps ==
    ASSUME Announced, Owes, UNCHANGED <<prep, nr, fd>>
    PROVE  Owes'
<1>1. \A S : AnyOf(flags, S) => AnyOf(flags', S)
  BY StillRaised DEF Announced
<1>2. CASE "dimension" \in flags'
  <2>1. \A S : "dimension" \in S => AnyOf(flags', S)
    BY <1>2 DEF AnyOf
  <2>2. \A S \in {SlackIdFlags, SlackFlags, InjFlags, MatFlags, LimitFlags, WeightFlags,
                 RebuildFlags, FdResetFlags} : AnyOf(flags', S)
    BY <2>1 DEF SlackIdFlags, SlackFlags, InjFlags, MatFlags, LimitFlags, WeightFlags, RedoFlags,
                LabelFlags, RebuildFlags, FdResetFlags
  <2> QED BY <2>2 DEF Owes, PrepOwes, NrOwes, FdOwes
<1>3. CASE "dimension" \notin flags'
  <2>1. /\ cut' = cut
        /\ line' = line \/ "ybus" \in flags'
        /\ (SlackOf' = SlackOf /\ Weighted' = Weighted) \/ "slack_part" \in flags'
        /\ \/ "pv" \in flags'
           \/ /\ Pinned' = Pinned /\ GroupControlled' = GroupControlled
              /\ StationBuses' = StationBuses /\ Groups' = Groups /\ Droops' = Droops
        /\ \/ "sbus" \in flags'
           \/ Injected' = Injected /\ QTakers' = QTakers
    BY <1>3 DEF Announced
  <2>2. \A S, f : f \in S /\ f \in flags' => AnyOf(flags', S)
    BY DEF AnyOf
  <2>3. AnyOf(flags', SlackIdFlags) \/ (prep'.slack = SlackOf' /\ SlackGens # {})
    <3>1. CASE SlackOf' = SlackOf
      BY <1>1, <3>1 DEF Owes, PrepOwes
    <3>2. CASE "slack_part" \in flags'
      BY <2>2, <3>2 DEF SlackIdFlags
    <3> QED BY <2>1, <3>1, <3>2
  <2>4. AnyOf(flags', SlackFlags) \/ (prep'.pv = PvOf(SlackOf)' /\ (SlackOf \subseteq Live)')
    <3>1. CASE "slack_part" \in flags' \/ "pv" \in flags'
      BY <2>2, <3>1 DEF SlackFlags
    <3>2. CASE "slack_part" \notin flags' /\ "pv" \notin flags'
      <4>1. PvOf(SlackOf)' = PvOf(SlackOf)
        BY <2>1, <3>2 DEF PvOf, StationBuses
      <4>2. SlackOf \subseteq Live => (SlackOf \subseteq Live)'
        BY <2>1, <3>2 DEF Live
      <4> QED BY <1>1, <4>1, <4>2 DEF Owes, PrepOwes
    <3> QED BY <3>1, <3>2
  <2>5. AnyOf(flags', InjFlags) \/ (prep'.inj = Injected' /\ Injectable')
    <3>1. CASE "sbus" \in flags'
      BY <2>2, <3>1 DEF InjFlags
    <3>2. CASE Injected' = Injected
      <4>1. Injectable => Injectable'
        BY <2>1, <3>2 DEF Injectable, Live
      <4> QED BY <1>1, <3>2, <4>1 DEF Owes, PrepOwes
    <3> QED BY <2>1, <3>1, <3>2
  <2>6. AnyOf(flags', MatFlags) \/ prep'.line = line'
    <3>1. CASE line' = line
      BY <1>1, <3>1 DEF Owes, PrepOwes
    <3>2. CASE "ybus" \in flags'
      BY <2>2, <3>2 DEF MatFlags
    <3> QED BY <2>1, <3>1, <3>2
  <2>7. AnyOf(flags', LimitFlags) \/ prep'.counted = QTakers'
    <3>1. CASE QTakers' = QTakers
      BY <1>1, <3>1 DEF Owes, PrepOwes
    <3>2. CASE "sbus" \in flags'
      BY <2>2, <3>2 DEF LimitFlags
    <3> QED BY <2>1, <3>1, <3>2
  <2>8. AnyOf(flags', WeightFlags) \/ prep'.weighted = Weighted'
    <3>1. CASE Weighted' = Weighted
      BY <1>1, <3>1 DEF Owes, PrepOwes
    <3>2. CASE "slack_part" \in flags'
      BY <2>2, <3>2 DEF WeightFlags
    <3> QED BY <2>1, <3>1, <3>2
  <2>9. CASE "ybus" \in flags' \/ "slack_part" \in flags' \/ "pv" \in flags'
    <3>1. AnyOf(flags', RebuildFlags)
      BY <2>2, <2>9 DEF RebuildFlags
    <3>2. AnyOf(flags', FdResetFlags) \/ AnyOf(flags', FdGridFlags)
      BY <2>2, <2>9 DEF FdResetFlags, FdGridFlags
    <3> QED BY <2>3, <2>4, <2>5, <2>6, <2>7, <2>8, <3>1, <3>2 DEF Owes, PrepOwes, NrOwes, FdOwes
  <2>10. CASE "ybus" \notin flags' /\ "slack_part" \notin flags' /\ "pv" \notin flags'
    <3>1. Required' = Required /\ FdMatrices(Current, line)' = FdMatrices(Current, line) /\ line' = line
      BY <2>1, <2>10, SameJacobian
    <3>2. NrOwes'
      BY <1>1, <3>1 DEF Owes, NrOwes
    <3>3. FdOwes'
      BY <1>1, <3>1 DEF Owes, FdOwes, FdKept
    <3> QED BY <2>3, <2>4, <2>5, <2>6, <2>7, <2>8, <3>2, <3>3 DEF Owes, PrepOwes
  <2> QED BY <2>9, <2>10
<1> QED BY <1>2, <1>3

(* The groups without their targets.                                       *)
LEMMA GroupsAre ==
    Groups = {[id |-> <<g, 0>>, bus |-> gen[g].bus, reg |-> gen[g].reg] :
                  g \in {x \in GensOn : Remote(x) \/ gen[x].reg \in GroupControlled}}
             \cup {[id |-> <<s, 0>>, bus |-> svc[s].bus, reg |-> svc[s].reg] : s \in SvcsOn}
             \cup {[id |-> x, bus |-> StationBus(x), reg |-> StationBus(x)] :
                       x \in {y \in VscOn : StationBus(y) \in GroupControlled}}
<1> DEFINE told(c) == [id |-> c.id, bus |-> c.bus, reg |-> c.reg]
<1>1. Groups = {told(c) : c \in GenControllers} \cup {told(c) : c \in SvcControllers}
               \cup {told(c) : c \in StationControllers}
  BY DEF Groups, Controllers
<1>2. {told(c) : c \in GenControllers}
      = {[id |-> <<g, 0>>, bus |-> gen[g].bus, reg |-> gen[g].reg] : g \in {x \in GensOn : Remote(x) \/ gen[x].reg \in GroupControlled}}
  <2> DEFINE of(g) == [id |-> <<g, 0>>, bus |-> gen[g].bus, reg |-> gen[g].reg, v |-> gen[g].v]
             as(g) == [id |-> <<g, 0>>, bus |-> gen[g].bus, reg |-> gen[g].reg]
             S == {x \in GensOn : Remote(x) \/ gen[x].reg \in GroupControlled}
  <2>1. GenControllers = {of(g) : g \in S}
    BY DEF GenControllers
  <2>2. \A g : told(of(g)) = as(g)
    OBVIOUS
  <2> HIDE DEF told, of, as, S
  <2>3. {told(c) : c \in GenControllers} = {as(g) : g \in S}
    BY <2>1, <2>2
  <2> QED BY <2>3 DEF as, S
<1>3. {told(c) : c \in SvcControllers}
      = {[id |-> <<s, 0>>, bus |-> svc[s].bus, reg |-> svc[s].reg] : s \in SvcsOn}
  <2> DEFINE of(s) == [id |-> <<s, 0>>, bus |-> svc[s].bus, reg |-> svc[s].reg, v |-> 0]
             as(s) == [id |-> <<s, 0>>, bus |-> svc[s].bus, reg |-> svc[s].reg]
             S == SvcsOn
  <2>1. SvcControllers = {of(s) : s \in S}
    BY DEF SvcControllers
  <2>2. \A s : told(of(s)) = as(s)
    OBVIOUS
  <2> HIDE DEF told, of, as, S
  <2>3. {told(c) : c \in SvcControllers} = {as(s) : s \in S}
    BY <2>1, <2>2
  <2> QED BY <2>3 DEF as, S
<1>4. {told(c) : c \in StationControllers}
      = {[id |-> x, bus |-> StationBus(x), reg |-> StationBus(x)] : x \in {y \in VscOn : StationBus(y) \in GroupControlled}}
  <2> DEFINE of(x) == [id |-> x, bus |-> StationBus(x), reg |-> StationBus(x), v |-> hvdc[x[1]].v[x[2]]]
             as(x) == [id |-> x, bus |-> StationBus(x), reg |-> StationBus(x)]
             S == {y \in VscOn : StationBus(y) \in GroupControlled}
  <2>1. StationControllers = {of(x) : x \in S}
    BY DEF StationControllers
  <2>2. \A x : told(of(x)) = as(x)
    OBVIOUS
  <2> HIDE DEF told, of, as, S
  <2>3. {told(c) : c \in StationControllers} = {as(x) : x \in S}
    BY <2>1, <2>2
  <2> QED BY <2>3 DEF as, S
<1> QED BY <1>1, <1>2, <1>3, <1>4

(* A step that raises the flags of the PV buses and of the injections      *)
(* announces everything but the slack.                                     *)
LEMMA LoudStep ==
    ASSUME flags \subseteq flags', cut' = cut, line' = line, {"pv", "sbus"} \subseteq flags',
           (SlackOf' = SlackOf /\ Weighted' = Weighted) \/ "slack_part" \in flags'
    PROVE  Announced
BY DEF Announced

(* A generator that is not slack, or whose bus and status stay, leaves the *)
(* slack where it is.                                                      *)
LEMMA SlackStays ==
    ASSUME NEW g \in Gens, NEW r, DevicesTypeOK, gen' = [gen EXCEPT ![g] = r],
           g \in SlackGens => r.on = gen[g].on /\ r.bus = gen[g].bus
    PROVE  SlackOf' = SlackOf /\ Weighted' = Weighted
<1>0. SlackGens \subseteq Gens
  BY DevicesAssumption
<1>1. \A x \in Gens \cap SlackGens : gen'[x].on = gen[x].on /\ gen'[x].bus = gen[x].bus
  BY DEF DevicesTypeOK
<1>2. (GensOn \cap SlackGens)' = GensOn \cap SlackGens
  BY <1>1 DEF GensOn
<1>3. SlackOf' = SlackOf
  <2>1. \A x \in SlackGens : gen'[x].bus = gen[x].bus
    BY <1>0, <1>1
  <2> QED BY <2>1 DEF SlackOf
<1>4. Weighted' = Weighted
  <2>1. \A x \in GensOn \cap SlackGens : gen'[x].bus = gen[x].bus
    BY <1>0, <1>1
  <2> QED BY <1>2, <2>1 DEF Weighted
<1> QED BY <1>3, <1>4

(* A voltage target is read by nobody but the check of the groups.  A      *)
(* station that does not regulate is read for its injection alone, unless  *)
(* its line is in droop.                                                   *)
LEMMA QuietStep ==
    ASSUME flags \subseteq flags', UNCHANGED <<svc, line, cut>>,
           \A g \in Gens : gen'[g].on = gen[g].on /\ gen'[g].bus = gen[g].bus /\ gen'[g].reg = gen[g].reg,
           \A h \in Hvdc : /\ hvdc'[h].on = hvdc[h].on /\ DroopOn(h)' = DroopOn(h)
                           /\ DroopOn(h) => hvdc'[h].bus = hvdc[h].bus,
           \A x \in Vsc : StationBus(x)' = StationBus(x),
           \/ "sbus" \in flags'
           \/ \A h \in Hvdc : hvdc'[h].bus = hvdc[h].bus /\ hvdc'[h].p = hvdc[h].p
    PROVE  Announced
<1>1. GensOn' = GensOn /\ SvcsOn' = SvcsOn /\ VscOn' = VscOn /\ Stations' = Stations
  <2>1. Stations' = Stations
    BY DEF Stations
  <2> QED BY <2>1 DEF GensOn, SvcsOn, VscOn
<1>2. \A g \in Gens : Remote(g)' = Remote(g)
  BY DEF Remote
<1>3. \A x \in VscOn : StationBus(x)' = StationBus(x)
  BY DEF VscOn
<1>4. SlackOf' = SlackOf /\ Weighted' = Weighted /\ Pinned' = Pinned
  BY <1>1, <1>2, DevicesAssumption DEF SlackOf, Weighted, Pinned, GensOn
<1>5. GroupControlled' = GroupControlled
  BY <1>1, <1>2 DEF GroupControlled, GensOn
<1>6. StationBuses' = StationBuses
  BY <1>1, <1>3 DEF StationBuses
<1>7. Droops' = Droops
  <2> DEFINE H == {x \in Hvdc : DroopOn(x)}
             as(h) == [id |-> h, bus |-> hvdc[h].bus]
  <2>1. H' = H /\ \A h \in H : as(h)' = as(h)
    OBVIOUS
  <2>2. Droops = {as(h) : h \in H} /\ Droops' = {as(h)' : h \in H'}
    BY DEF Droops
  <2> HIDE DEF H, as
  <2> QED BY <2>1, <2>2
<1>8. Groups' = Groups
  <2> DEFINE as(g) == [id |-> <<g, 0>>, bus |-> gen[g].bus, reg |-> gen[g].reg]
             G == {x \in GensOn : Remote(x) \/ gen[x].reg \in GroupControlled}
             as2(s) == [id |-> <<s, 0>>, bus |-> svc[s].bus, reg |-> svc[s].reg]
             as3(x) == [id |-> x, bus |-> StationBus(x), reg |-> StationBus(x)]
             X == {y \in VscOn : StationBus(y) \in GroupControlled}
  <2>1. Groups = {as(g) : g \in G} \cup {as2(s) : s \in SvcsOn} \cup {as3(x) : x \in X}
    BY GroupsAre
  <2>2. Groups' = {as(g)' : g \in G'} \cup {as2(s)' : s \in SvcsOn'} \cup {as3(x)' : x \in X'}
    <3>1. (Groups = {as(g) : g \in G} \cup {as2(s) : s \in SvcsOn} \cup {as3(x) : x \in X})'
      BY GroupsAre, PTL
    <3> QED BY <3>1
  <2>3. G' = G /\ G \subseteq Gens /\ X' = X /\ X \subseteq VscOn
    BY <1>1, <1>2, <1>3, <1>5 DEF GensOn
  <2>4. /\ \A g \in Gens : as(g)' = as(g)
        /\ \A s : as2(s)' = as2(s)
        /\ \A x \in VscOn : as3(x)' = as3(x)
    BY <1>3
  <2> HIDE DEF as, as2, as3, G, X
  <2> QED BY <1>1, <2>1, <2>2, <2>3, <2>4
<1>9. "sbus" \in flags' \/ Injected' = Injected
  <2> SUFFICES ASSUME \A h \in Hvdc : hvdc'[h].bus = hvdc[h].bus /\ hvdc'[h].p = hvdc[h].p
               PROVE  Injected' = Injected
    OBVIOUS
  <2> DEFINE as(g) == [id |-> <<g, 0>>, bus |-> gen[g].bus, p |-> {}]
             as2(x) == [id |-> x, bus |-> StationBus(x), p |-> IF DroopOn(x[1]) THEN {} ELSE {hvdc[x[1]].p}]
  <2>1. Injected = {as(g) : g \in GensOn} \cup {as2(x) : x \in Stations}
    BY DEF Injected
  <2>2. Injected' = {as(g)' : g \in GensOn'} \cup {as2(x)' : x \in Stations'}
    BY DEF Injected
  <2>3. GensOn \subseteq Gens /\ Stations \subseteq Hvdc \X K
    BY DEF GensOn, Stations
  <2>4. (\A g \in Gens : as(g)' = as(g)) /\ (\A x \in Stations : as2(x)' = as2(x))
    BY <2>3 DEF StationBus
  <2> HIDE DEF as, as2
  <2> QED BY <1>1, <2>1, <2>2, <2>3, <2>4
<1>10. QTakers' = QTakers
  <2> DEFINE as(g) == [id |-> <<g, 0>>, bus |-> gen[g].bus]
             G == {x \in GensOn : ~Remote(x)}
             as2(x) == [id |-> x, bus |-> StationBus(x)]
  <2>1. QTakers = {as(g) : g \in G} \cup {as2(x) : x \in VscOn}
    BY DEF QTakers
  <2>2. QTakers' = {as(g)' : g \in G'} \cup {as2(x)' : x \in VscOn'}
    BY DEF QTakers
  <2>3. /\ G' = G /\ G \subseteq Gens
        /\ (\A g \in Gens : as(g)' = as(g)) /\ (\A x \in VscOn : as2(x)' = as2(x))
    BY <1>1, <1>2, <1>3 DEF GensOn
  <2> HIDE DEF as, as2, G
  <2> QED BY <1>1, <2>1, <2>2, <2>3
<1> QED BY <1>4, <1>5, <1>6, <1>7, <1>8, <1>9, <1>10 DEF Announced

LEMMA GeneratorStep ==
    ASSUME DevicesTypeOK, PartlyOk, NEW g \in Gens,
           \/ GenOff(g) \/ GenOn(g)
           \/ \E b \in Buses : MoveGen(g, b) \/ Regulate(g, b)
           \/ \E v \in Voltages : ChangeV(g, v)
    PROVE  DevicesTypeOK' /\ PartlyOk' /\ Announced
<1> DEFINE Rec == [on : BOOLEAN, bus : Buses, reg : Buses, v : Voltages]
<1>1. gen[g] \in Rec /\ gen[g].on \in BOOLEAN /\ gen[g].bus \in Buses /\ gen[g].reg \in Buses /\ gen[g].v \in Voltages
  BY DEF DevicesTypeOK
<1>2. ASSUME NEW r \in Rec, NEW raised, SetGen(g, r, raised), raised \subseteq Flags,
             \/ /\ {"pv", "sbus"} \subseteq raised
                /\ "slack_part" \in raised \/ (g \in SlackGens => r.on = gen[g].on /\ r.bus = gen[g].bus)
             \/ r.on = gen[g].on /\ r.bus = gen[g].bus /\ r.reg = gen[g].reg
      PROVE  DevicesTypeOK' /\ PartlyOk' /\ Announced
  <2>1. /\ gen' = [gen EXCEPT ![g] = r] /\ flags' = flags \cup raised
        /\ UNCHANGED <<svc, hvdc, line, cut>>
    BY <1>2 DEF SetGen, Flagging
  <2>2. DevicesTypeOK'
    BY <1>2, <2>1 DEF DevicesTypeOK
  <2>3. PartlyOk'
    BY <2>1 DEF PartlyOk, DroopOn
  <2>4. CASE /\ {"pv", "sbus"} \subseteq raised
             /\ "slack_part" \in raised \/ (g \in SlackGens => r.on = gen[g].on /\ r.bus = gen[g].bus)
    <3>1. (SlackOf' = SlackOf /\ Weighted' = Weighted) \/ "slack_part" \in raised
      BY <2>1, <2>4, SlackStays
    <3>2. Announced
      BY <2>1, <2>4, <3>1, LoudStep
    <3> QED BY <2>2, <2>3, <3>2
  <2>5. CASE r.on = gen[g].on /\ r.bus = gen[g].bus /\ r.reg = gen[g].reg
    <3>1. \A x \in Gens : gen'[x].on = gen[x].on /\ gen'[x].bus = gen[x].bus /\ gen'[x].reg = gen[x].reg
      BY <2>1, <2>5 DEF DevicesTypeOK
    <3>2. \A h \in Hvdc : DroopOn(h)' = DroopOn(h)
      BY <2>1 DEF DroopOn
    <3>3. \A x \in Vsc : StationBus(x)' = StationBus(x)
      BY <2>1 DEF StationBus
    <3>4. Announced
      BY <2>1, <3>1, <3>2, <3>3, QuietStep
    <3> QED BY <2>2, <2>3, <3>4
  <2> QED BY <1>2, <2>2, <2>3, <2>4, <2>5
<1>3. {"sbus", "pv"} \subseteq Flags /\ SlackFlag(g) \subseteq Flags
      /\ {"sbus", "one_el", "pv"} \subseteq Flags /\ {"v"} \subseteq Flags
  BY DEF Flags, SlackFlag
<1>4. "slack_part" \in SlackFlag(g) \/ g \notin SlackGens
  BY DEF SlackFlag
<1>5. CASE GenOff(g)
  <2>1. [gen[g] EXCEPT !.on = FALSE] \in Rec
    BY <1>1
  <2> HIDE DEF Rec
  <2> QED BY <1>2, <1>3, <1>4, <1>5, <2>1 DEF GenOff
<1>6. CASE GenOn(g)
  <2>1. [gen[g] EXCEPT !.on = TRUE] \in Rec
    BY <1>1
  <2> HIDE DEF Rec
  <2> QED BY <1>2, <1>3, <1>4, <1>6, <2>1 DEF GenOn
<1>7. ASSUME NEW b \in Buses, MoveGen(g, b) PROVE DevicesTypeOK' /\ PartlyOk' /\ Announced
  <2> DEFINE r == [gen[g] EXCEPT !.bus = b, !.reg = IF @ = gen[g].bus THEN b ELSE @]
  <2>1. r \in Rec
    BY <1>1
  <2>2. SetGen(g, r, {"sbus", "one_el", "pv"} \cup SlackFlag(g))
    BY <1>7 DEF MoveGen
  <2> HIDE DEF Rec, r
  <2> QED BY <1>2, <1>3, <1>4, <2>1, <2>2
<1>8. ASSUME NEW b \in Buses, Regulate(g, b) PROVE DevicesTypeOK' /\ PartlyOk' /\ Announced
  <2> DEFINE r == [gen[g] EXCEPT !.reg = b]
  <2>1. r \in Rec /\ r.on = gen[g].on /\ r.bus = gen[g].bus
    BY <1>1
  <2>2. SetGen(g, r, {"pv", "sbus"})
    BY <1>8 DEF Regulate
  <2> HIDE DEF Rec, r
  <2> QED BY <1>2, <1>3, <2>1, <2>2
<1>9. ASSUME NEW v \in Voltages, ChangeV(g, v) PROVE DevicesTypeOK' /\ PartlyOk' /\ Announced
  <2> DEFINE r == [gen[g] EXCEPT !.v = v]
  <2>1. r \in Rec /\ r.on = gen[g].on /\ r.bus = gen[g].bus /\ r.reg = gen[g].reg
    BY <1>1
  <2>2. SetGen(g, r, {"v"})
    BY <1>9 DEF ChangeV
  <2> HIDE DEF Rec, r
  <2> QED BY <1>2, <1>3, <2>1, <2>2
<1> QED BY <1>5, <1>6, <1>7, <1>8, <1>9

LEMMA SvcStep ==
    ASSUME DevicesTypeOK, PartlyOk, NEW s \in Svcs,
           SvcOff(s) \/ SvcOn(s) \/ \E b \in Buses : MoveSvc(s, b)
    PROVE  DevicesTypeOK' /\ PartlyOk' /\ Announced
<1> DEFINE Rec == [on : BOOLEAN, bus : Buses, reg : Buses]
<1>1. svc[s] \in Rec /\ svc[s].on \in BOOLEAN /\ svc[s].bus \in Buses /\ svc[s].reg \in Buses
  BY DEF DevicesTypeOK
<1>2. \E r \in Rec : SetSvc(s, r, SvcFlags)
  <2>1. \A b \in Buses : [svc[s] EXCEPT !.bus = b, !.reg = IF @ = svc[s].bus THEN b ELSE @] \in Rec
    BY <1>1
  <2>2. [svc[s] EXCEPT !.on = FALSE] \in Rec /\ [svc[s] EXCEPT !.on = TRUE] \in Rec
    BY <1>1
  <2> HIDE DEF Rec
  <2> QED BY <2>1, <2>2 DEF SvcOff, SvcOn, MoveSvc
<1>3. PICK r \in Rec : SetSvc(s, r, SvcFlags)
  BY <1>2
<1>4. /\ svc' = [svc EXCEPT ![s] = r] /\ flags' = flags \cup SvcFlags
      /\ UNCHANGED <<gen, hvdc, line, cut>>
  BY <1>3 DEF SetSvc, Flagging
<1>5. DevicesTypeOK'
  BY <1>4 DEF DevicesTypeOK, SvcFlags, Flags
<1>6. PartlyOk'
  BY <1>4 DEF PartlyOk, DroopOn
<1>7. SlackOf' = SlackOf /\ Weighted' = Weighted
  BY <1>4 DEF SlackOf, Weighted, GensOn
<1>8. Announced
  BY <1>4, <1>7, LoudStep DEF SvcFlags
<1> QED BY <1>5, <1>6, <1>8

BothOn == [k \in K |-> TRUE]

(* An HVDC line changes: its sides agree with its status and its droop,    *)
(* and what is read of it is announced.                                    *)
Agrees(r) == /\ r.droop /\ r.global => r.on = BothOn
             /\ r.on = BothOn => r.global
QuietChange(h, r, raised) ==
    /\ r.on = hvdc[h].on /\ (r.droop /\ r.global <=> DroopOn(h))
    /\ DroopOn(h) => r.bus = hvdc[h].bus
    /\ \A k \in K : <<h, k>> \in Vsc => r.bus[k] = hvdc[h].bus[k]
    /\ "sbus" \in raised \/ (r.bus = hvdc[h].bus /\ r.p = hvdc[h].p)

LEMMA HvdcChange ==
    ASSUME DevicesTypeOK, PartlyOk, NEW h \in Hvdc, NEW r \in HvdcRecord, NEW raised,
           SetHvdc(h, r, raised), raised \subseteq Flags,
           Agrees(r), {"pv", "sbus"} \subseteq raised \/ QuietChange(h, r, raised)
    PROVE  DevicesTypeOK' /\ PartlyOk' /\ Announced
<1>1. /\ hvdc' = [hvdc EXCEPT ![h] = r] /\ flags' = flags \cup raised
      /\ UNCHANGED <<gen, svc, line, cut>>
  BY DEF SetHvdc, Flagging
<1>2. DevicesTypeOK'
  BY <1>1 DEF DevicesTypeOK
<1>3. hvdc'[h] = r /\ \A x \in Hvdc : x # h => hvdc'[x] = hvdc[x]
  BY <1>1 DEF DevicesTypeOK
<1>4. PartlyOk'
  BY <1>3 DEF PartlyOk, Agrees, BothOn, DroopOn
<1>5. SlackOf' = SlackOf /\ Weighted' = Weighted
  BY <1>1 DEF SlackOf, Weighted, GensOn
<1>6. CASE {"pv", "sbus"} \subseteq raised
  <2>1. Announced
    BY <1>1, <1>5, <1>6, LoudStep
  <2> QED BY <1>2, <1>4, <2>1
<1>7. CASE QuietChange(h, r, raised)
  <2>1. r.droop \in BOOLEAN /\ r.global \in BOOLEAN /\ \A x \in Hvdc : DroopOn(x) \in BOOLEAN
    BY DEF HvdcRecord, DroopOn, DevicesTypeOK
  <2>2. /\ DroopOn(h)' <=> r.droop /\ r.global
        /\ \A x \in Hvdc : x # h => (DroopOn(x)' <=> DroopOn(x))
    BY <1>3 DEF DroopOn
  <2>3. \A x \in Hvdc : /\ hvdc'[x].on = hvdc[x].on /\ DroopOn(x)' = DroopOn(x)
                        /\ DroopOn(x) => hvdc'[x].bus = hvdc[x].bus
    <3>1. ASSUME NEW x \in Hvdc, x # h
          PROVE  /\ hvdc'[x].on = hvdc[x].on /\ DroopOn(x)' = DroopOn(x)
                 /\ DroopOn(x) => hvdc'[x].bus = hvdc[x].bus
      <4>1. hvdc'[x] = hvdc[x]
        BY <1>3, <3>1
      <4> QED BY <4>1 DEF DroopOn
    <3>2. DroopOn(h)' = DroopOn(h)
      BY <1>7, <2>1, <2>2 DEF QuietChange, DroopOn
    <3> QED BY <1>3, <1>7, <3>1, <3>2 DEF QuietChange
  <2>4. \A x \in Vsc : StationBus(x)' = StationBus(x)
    <3>1. SUFFICES ASSUME NEW x \in Vsc PROVE hvdc'[x[1]].bus[x[2]] = hvdc[x[1]].bus[x[2]]
      BY DEF StationBus
    <3>2. x[1] \in Hvdc /\ x[2] \in K /\ x = <<x[1], x[2]>>
      BY DevicesAssumption DEF K
    <3>3. CASE x[1] = h
      BY <1>3, <1>7, <3>2, <3>3 DEF QuietChange
    <3>4. CASE x[1] # h
      BY <1>3, <3>2, <3>4
    <3> QED BY <3>3, <3>4
  <2>5. \/ "sbus" \in flags'
        \/ \A x \in Hvdc : hvdc'[x].bus = hvdc[x].bus /\ hvdc'[x].p = hvdc[x].p
    BY <1>1, <1>3, <1>7 DEF QuietChange
  <2>6. Announced
    BY <1>1, <2>3, <2>4, <2>5, QuietStep
  <2> QED BY <1>2, <1>4, <2>6
<1> QED BY <1>6, <1>7

LEMMA BothOnIs ==
    ASSUME NEW on \in [K -> BOOLEAN]
    PROVE  /\ on = BothOn <=> on[1] /\ on[2]
           /\ BothOn \in [K -> BOOLEAN] /\ [k \in K |-> FALSE] \in [K -> BOOLEAN]
           /\ BothOn[1] /\ BothOn[2] /\ ~[k \in K |-> FALSE][1]
BY DEF BothOn, K

LEMMA ResolvedIs ==
    ASSUME NEW l \in HvdcRecord
    PROVE  /\ Resolved(l) \in HvdcRecord
           /\ Resolved(l).on = l.on /\ Resolved(l).bus = l.bus /\ Resolved(l).p = l.p
           /\ Resolved(l).droop = l.droop
           /\ Resolved(l).global = IF l.on[1] = l.on[2] THEN l.on[1] ELSE l.global
BY DEF Resolved, HvdcRecord, K

LEMMA HvdcStep ==
    ASSUME DevicesTypeOK, PartlyOk, SoundMove, NEW h \in Hvdc,
           \/ HvdcOff(h) \/ HvdcOn(h)
           \/ \E k \in K : \/ OpenStation(h, k)
                           \/ \E b \in Buses : MoveStation(h, k, b)
                           \/ \E v \in Voltages : ChangeVStation(h, k, v)
           \/ \E p \in Powers : ChangePHvdc(h, p)
           \/ \E r \in Regimes : SetStatusDroop(h, r)
    PROVE  DevicesTypeOK' /\ PartlyOk' /\ Announced
<1> DEFINE l == hvdc[h]
           Goal == DevicesTypeOK' /\ PartlyOk' /\ Announced
<1>1. l \in HvdcRecord
  BY DEF DevicesTypeOK
<1>2. /\ l.on \in [K -> BOOLEAN] /\ l.bus \in [K -> Buses] /\ l.v \in [K -> Voltages]
      /\ l.global \in BOOLEAN /\ l.droop \in BOOLEAN /\ l.regime \in Regimes /\ l.p \in Powers
      /\ l.on[1] \in BOOLEAN /\ l.on[2] \in BOOLEAN
  BY <1>1 DEF HvdcRecord, K
<1>3. Agrees(l) /\ (DroopOn(h) <=> l.droop /\ l.global)
  BY DEF PartlyOk, Agrees, BothOn, DroopOn
<1>4. l.on = BothOn <=> l.on[1] /\ l.on[2]
  BY <1>2, BothOnIs
<1>5. K = {1, 2}
  BY DEF K
<1>6. /\ {"sbus", "pv"} \subseteq Flags /\ {"sbus", "one_el", "pv"} \subseteq Flags
      /\ {"sbus"} \subseteq Flags /\ {"v"} \subseteq Flags
  BY DEF Flags
<1>7. ASSUME NEW r, NEW raised, SetHvdc(h, r, raised), r \in HvdcRecord, raised \subseteq Flags,
             Agrees(r), {"pv", "sbus"} \subseteq raised \/ QuietChange(h, r, raised)
      PROVE  Goal
  BY <1>7, HvdcChange
<1>8. \A was, is : StationFlags(was, is) = IF was = is THEN {} ELSE {"sbus", "pv"}
  BY DEF StationFlags
<1> HIDE DEF Goal
<1>9. ASSUME HvdcOff(h) PROVE Goal
  <2> DEFINE r == [l EXCEPT !.on = [k \in K |-> FALSE], !.global = FALSE]
             raised == UNION {StationFlags(l.on[k], FALSE) : k \in K}
  <2>1. SetHvdc(h, r, raised)
    BY <1>9 DEF HvdcOff
  <2>2. /\ r \in HvdcRecord /\ r.on = [k \in K |-> FALSE] /\ ~r.global
        /\ r.bus = l.bus /\ r.p = l.p
    BY <1>1, <1>2, BothOnIs DEF HvdcRecord
  <2>3. r.on # BothOn
    BY <2>2, BothOnIs
  <2>4. Agrees(r)
    BY <2>2, <2>3 DEF Agrees
  <2>5. raised \subseteq Flags
    BY <1>6, <1>8
  <2>6. CASE l.on[1] \/ l.on[2]
    <3>1. StationFlags(l.on[1], FALSE) \subseteq raised /\ StationFlags(l.on[2], FALSE) \subseteq raised
      BY <1>5
    <3>2. {"pv", "sbus"} \subseteq raised
      BY <1>2, <1>8, <2>6, <3>1
    <3> HIDE DEF r, raised
    <3> QED BY <1>7, <2>1, <2>2, <2>4, <2>5, <3>2
  <2>7. CASE ~l.on[1] /\ ~l.on[2]
    <3>1. l.on = [k \in K |-> FALSE]
      BY <1>2, <1>5, <2>7
    <3>2. QuietChange(h, r, raised)
      BY <1>3, <1>4, <2>2, <2>7, <3>1 DEF QuietChange, Agrees
    <3> HIDE DEF r, raised
    <3> QED BY <1>7, <2>1, <2>2, <2>4, <2>5, <3>2
  <2> QED BY <1>2, <2>6, <2>7
<1>10. ASSUME HvdcOn(h) PROVE Goal
  <2> DEFINE r == [l EXCEPT !.on = [k \in K |-> TRUE], !.global = TRUE]
             raised == UNION {StationFlags(l.on[k], TRUE) : k \in K}
  <2>1. SetHvdc(h, r, raised) /\ (~l.global \/ FALSE \in {l.on[k] : k \in K})
    BY <1>10 DEF HvdcOn
  <2>2. r \in HvdcRecord /\ r.on = BothOn /\ r.global
    BY <1>1, <1>2, BothOnIs DEF HvdcRecord, BothOn
  <2>3. Agrees(r)
    BY <2>2 DEF Agrees
  <2>4. raised \subseteq Flags
    BY <1>6, <1>8
  <2>5. ~l.on[1] \/ ~l.on[2]
    BY <1>3, <1>4, <1>5, <2>1 DEF Agrees
  <2>6. {"pv", "sbus"} \subseteq raised
    <3>1. StationFlags(l.on[1], TRUE) \subseteq raised /\ StationFlags(l.on[2], TRUE) \subseteq raised
      BY <1>5
    <3> QED BY <1>2, <1>8, <2>5, <3>1
  <2> HIDE DEF r, raised
  <2> QED BY <1>7, <2>1, <2>2, <2>3, <2>4, <2>6
<1>11. ASSUME NEW k \in K, OpenStation(h, k) PROVE Goal
  <2> DEFINE o == [l EXCEPT !.on[k] = FALSE]
             q == Resolved(o)
             r == [q EXCEPT !.droop = FALSE]
             raised == StationFlags(l.on[k], FALSE)
  <2>1. SetHvdc(h, r, raised) /\ (l.on[k] \/ l.droop)
    BY <1>11 DEF OpenStation
  <2>2. /\ o \in HvdcRecord /\ o.on = [l.on EXCEPT ![k] = FALSE] /\ o.bus = l.bus /\ o.p = l.p
        /\ o.global = l.global
    BY <1>1, <1>2 DEF HvdcRecord
  <2>3. o.on \in [K -> BOOLEAN] /\ ~o.on[k] /\ (\A j \in K : j # k => o.on[j] = l.on[j])
    BY <1>2, <2>2
  <2> HIDE DEF o
  <2>4. /\ r \in HvdcRecord /\ r.on = o.on /\ r.bus = l.bus /\ r.p = l.p /\ ~r.droop
    <3>1. q \in HvdcRecord /\ q.on = o.on /\ q.bus = o.bus /\ q.p = o.p
      BY <2>2, ResolvedIs
    <3> HIDE DEF q
    <3> QED BY <2>2, <3>1 DEF HvdcRecord
  <2>5. r.on # BothOn
    BY <1>5, <2>3, <2>4, BothOnIs
  <2>6. Agrees(r)
    BY <2>4, <2>5 DEF Agrees
  <2>7. raised \subseteq Flags
    BY <1>6, <1>8
  <2>8. CASE l.on[k]
    <3>1. {"pv", "sbus"} \subseteq raised
      BY <1>8, <2>8
    <3> HIDE DEF r, raised
    <3> QED BY <1>7, <2>1, <2>4, <2>6, <2>7, <3>1
  <2>9. CASE ~l.on[k]
    <3>1. r.on = l.on
      <4>1. \A f \in [K -> BOOLEAN] : ~f[k] => [f EXCEPT ![k] = FALSE] = f
        OBVIOUS
      <4> HIDE DEF l
      <4> QED BY <1>2, <2>2, <2>4, <2>9, <4>1
    <3>2. ~DroopOn(h)
      BY <1>3, <1>4, <1>5, <2>9 DEF Agrees
    <3>3. QuietChange(h, r, raised)
      BY <2>4, <3>1, <3>2 DEF QuietChange
    <3> HIDE DEF r, raised
    <3> QED BY <1>7, <2>1, <2>4, <2>6, <2>7, <3>3
  <2> QED BY <2>8, <2>9
<1>12. ASSUME NEW k \in K, NEW b \in Buses, MoveStation(h, k, b) PROVE Goal
  <2> DEFINE o == [l EXCEPT !.bus[k] = b]
             r == Resolved(o)
             raised == {"sbus", "one_el"} \cup (IF <<h, k>> \in Vsc THEN {"pv"} ELSE {})
  <2>1. SetHvdc(h, r, raised) /\ l.bus[k] # b
    BY <1>12 DEF MoveStation
  <2>2. /\ o \in HvdcRecord /\ o.on = l.on /\ o.bus = [l.bus EXCEPT ![k] = b] /\ o.p = l.p
        /\ o.droop = l.droop /\ o.global = l.global
    BY <1>1, <1>2 DEF HvdcRecord
  <2>3. o.bus[k] = b /\ (\A j \in K : j # k => o.bus[j] = l.bus[j])
    BY <1>2, <2>2
  <2> HIDE DEF o
  <2>4. /\ r \in HvdcRecord /\ r.on = l.on /\ r.bus = o.bus /\ r.droop = l.droop
        /\ r.global = IF l.on[1] = l.on[2] THEN l.on[1] ELSE l.global
    BY <2>2, ResolvedIs
  <2>5. Agrees(r) /\ (r.droop /\ r.global <=> l.droop /\ l.global)
    BY <1>2, <1>3, <1>4, <2>4 DEF Agrees
  <2>6. raised \subseteq Flags
    BY <1>6
  <2>7. CASE <<h, k>> \in Vsc
    <3>1. {"pv", "sbus"} \subseteq raised
      BY <2>7
    <3> HIDE DEF r, raised
    <3> QED BY <1>7, <2>1, <2>4, <2>5, <2>6, <3>1
  <2>8. CASE <<h, k>> \notin Vsc
    <3>1. ~DroopOn(h)
      <4>1. SUFFICES ASSUME DroopOn(h) PROVE FALSE
        OBVIOUS
      <4>2. hvdc'[h].bus[k] = l.bus[k]
        <5>1. <<h, k>> \in (Hvdc \X K) \ Vsc /\ <<h, k>>[1] = h /\ <<h, k>>[2] = k
          BY <2>8
        <5> QED BY <4>1, <5>1 DEF SoundMove, StationBus
      <4>3. hvdc'[h] = r
        BY <2>1 DEF SetHvdc, DevicesTypeOK
      <4> HIDE DEF r
      <4> QED BY <2>1, <2>3, <2>4, <4>2, <4>3
    <3>2. \A j \in K : <<h, j>> \in Vsc => r.bus[j] = l.bus[j]
      BY <2>3, <2>4, <2>8
    <3>3. QuietChange(h, r, raised)
      BY <1>3, <2>4, <2>5, <3>1, <3>2 DEF QuietChange
    <3> HIDE DEF r, raised
    <3> QED BY <1>7, <2>1, <2>4, <2>5, <2>6, <3>3
  <2> QED BY <2>7, <2>8
<1>13. ASSUME NEW r, NEW raised, SetHvdc(h, r, raised), r \in HvdcRecord, raised \subseteq Flags,
              r.on = l.on, r.bus = l.bus, r.droop = l.droop, r.global = l.global,
              "sbus" \in raised \/ r.p = l.p
       PROVE  Goal
  <2>1. Agrees(r)
    BY <1>3, <1>13 DEF Agrees
  <2>2. QuietChange(h, r, raised)
    BY <1>3, <1>13 DEF QuietChange
  <2> QED BY <1>7, <1>13, <2>1, <2>2
<1>14. ASSUME NEW k \in K, NEW v \in Voltages, ChangeVStation(h, k, v) PROVE Goal
  <2> DEFINE r == [l EXCEPT !.v[k] = v]
  <2>1. SetHvdc(h, r, {"v"})
    BY <1>14 DEF ChangeVStation
  <2>2. /\ r \in HvdcRecord /\ r.on = l.on /\ r.bus = l.bus /\ r.droop = l.droop
        /\ r.global = l.global /\ r.p = l.p
    BY <1>1, <1>2 DEF HvdcRecord
  <2> HIDE DEF r
  <2> QED BY <1>6, <1>13, <2>1, <2>2
<1>15. ASSUME NEW p \in Powers, ChangePHvdc(h, p) PROVE Goal
  <2> DEFINE r == [l EXCEPT !.p = p]
             raised == {"sbus"} \cup (IF 0 \in {p, l.p} THEN {"pv"} ELSE {})
  <2>1. SetHvdc(h, r, raised)
    BY <1>15 DEF ChangePHvdc
  <2>2. /\ r \in HvdcRecord /\ r.on = l.on /\ r.bus = l.bus /\ r.droop = l.droop
        /\ r.global = l.global
    BY <1>1, <1>2 DEF HvdcRecord
  <2>3. raised \subseteq Flags /\ "sbus" \in raised
    BY <1>6
  <2> HIDE DEF r, raised
  <2> QED BY <1>13, <2>1, <2>2, <2>3
<1>16. ASSUME NEW g \in Regimes, SetStatusDroop(h, g) PROVE Goal
  <2> DEFINE r == [l EXCEPT !.regime = g]
  <2>1. SetHvdc(h, r, {"sbus"})
    BY <1>16 DEF SetStatusDroop
  <2>2. /\ r \in HvdcRecord /\ r.on = l.on /\ r.bus = l.bus /\ r.droop = l.droop
        /\ r.global = l.global
    BY <1>1, <1>2 DEF HvdcRecord
  <2> HIDE DEF r
  <2> QED BY <1>6, <1>13, <2>1, <2>2
<1> QED BY <1>9, <1>10, <1>11, <1>12, <1>14, <1>15, <1>16 DEF Goal

LEMMA LineStep ==
    ASSUME DevicesTypeOK, PartlyOk, ToggleLine
    PROVE  DevicesTypeOK' /\ PartlyOk' /\ Announced
<1>1. /\ UNCHANGED <<gen, svc, hvdc, cut>> /\ line' = ~line
      /\ flags \subseteq flags' /\ flags' \subseteq Flags /\ "ybus" \in flags'
  BY DEF ToggleLine, Flagging, DevicesTypeOK, Flags
<1>2. DevicesTypeOK'
  BY <1>1 DEF DevicesTypeOK
<1>3. PartlyOk'
  BY <1>1 DEF PartlyOk, DroopOn
<1>4. /\ SlackOf' = SlackOf /\ Weighted' = Weighted
      /\ Pinned' = Pinned /\ GroupControlled' = GroupControlled
  BY <1>1 DEF SlackOf, Weighted, Pinned, GroupControlled, GensOn, SvcsOn, Remote
<1>5. StationBuses' = StationBuses /\ Groups' = Groups
  BY <1>1, <1>4 DEF StationBuses, StationBus, VscOn, Stations, Groups, Controllers, GenControllers,
        SvcControllers, StationControllers, GensOn, SvcsOn, Remote
<1>6. Droops' = Droops /\ Injected' = Injected /\ QTakers' = QTakers
  BY <1>1 DEF Droops, DroopOn, Injected, QTakers, GensOn, Stations, StationBus, VscOn, Remote
<1> QED BY <1>1, <1>2, <1>3, <1>4, <1>5, <1>6 DEF Announced

LEMMA CleanStationIs ==
    ASSUME NEW h \in Hvdc, NEW outside, DevicesTypeOK, PartlyOk
    PROVE  CleanStation(h, outside) \in HvdcRecord /\ Agrees(CleanStation(h, outside))
<1> DEFINE l == hvdc[h]
           r == CleanStation(h, outside)
           out == {k \in K : l.bus[k] \in outside}
           kept == [k \in K |-> l.on[k] /\ k \notin out]
<1>1. l \in HvdcRecord /\ l.on \in [K -> BOOLEAN]
  BY DEF DevicesTypeOK, HvdcRecord
<1>2. Agrees(l)
  BY DEF PartlyOk, Agrees, BothOn, DroopOn
<1>3. [k \in K |-> FALSE] \in [K -> BOOLEAN] /\ [k \in K |-> FALSE] # BothOn
  BY BothOnIs
<1>4. CASE ~l.global
  <2>1. r = [l EXCEPT !.on = [k \in K |-> FALSE]]
    BY <1>4 DEF CleanStation
  <2>2. r \in HvdcRecord /\ r.on = [k \in K |-> FALSE] /\ r.global = l.global
    BY <1>1, <1>3, <2>1 DEF HvdcRecord
  <2> QED BY <1>3, <1>4, <2>2 DEF Agrees
<1>5. CASE l.global /\ out = {}
  <2>1. r = l
    BY <1>5 DEF CleanStation
  <2> QED BY <1>1, <1>2, <2>1
<1>6. CASE l.global /\ out # {} /\ out = K
  <2>1. r = [l EXCEPT !.on = [k \in K |-> FALSE], !.global = FALSE]
    BY <1>6 DEF CleanStation
  <2>2. r \in HvdcRecord /\ r.on = [k \in K |-> FALSE]
    BY <1>1, <1>3, <2>1 DEF HvdcRecord
  <2> QED BY <1>3, <2>1, <2>2 DEF Agrees, HvdcRecord
<1>7. CASE l.global /\ out # {} /\ out # K
  <2>1. r = [l EXCEPT !.on = kept, !.droop = FALSE]
    BY <1>7 DEF CleanStation
  <2>2. kept \in [K -> BOOLEAN]
    BY <1>1
  <2> HIDE DEF kept, r
  <2>3. r \in HvdcRecord /\ ~r.droop /\ r.global = l.global
    BY <1>1, <2>1, <2>2 DEF HvdcRecord
  <2> QED BY <1>7, <2>3 DEF Agrees, r
<1> QED BY <1>1, <1>4, <1>5, <1>6, <1>7 DEF HvdcRecord

LEMMA MainComponentStep ==
    ASSUME DevicesTypeOK, PartlyOk, NEW outside \in SUBSET Buses, OnlyMainComponent(outside)
    PROVE  DevicesTypeOK' /\ PartlyOk' /\ Announced
<1>1. /\ cut' = outside
      /\ gen' = [g \in Gens |-> [gen[g] EXCEPT !.on = @ /\ gen[g].bus \notin outside]]
      /\ hvdc' = [h \in Hvdc |-> CleanStation(h, outside)]
      /\ flags' = flags \cup {"dimension", "coeffs_zero", "ybus"} /\ UNCHANGED <<svc, line>>
  BY DEF OnlyMainComponent, Flagging
<1>2. gen' \in [Gens -> [on : BOOLEAN, bus : Buses, reg : Buses, v : Voltages]]
  BY <1>1 DEF DevicesTypeOK
<1>3. \A h \in Hvdc : hvdc'[h] \in HvdcRecord /\ Agrees(hvdc'[h])
  BY <1>1, CleanStationIs
<1>4. DevicesTypeOK'
  BY <1>1, <1>2, <1>3 DEF DevicesTypeOK, Flags
<1>5. PartlyOk'
  BY <1>3 DEF PartlyOk, Agrees, BothOn, DroopOn
<1>6. Announced
  BY <1>1 DEF Announced
<1> QED BY <1>4, <1>5, <1>6

LEMMA DevicesAnnounce ==
    ASSUME DevicesTypeOK, PartlyOk, DeviceStep, SoundMove
    PROVE  DevicesTypeOK' /\ PartlyOk' /\ Announced
BY GeneratorStep, SvcStep, HvdcStep, LineStep, MainComponentStep DEF DeviceStep

-----------------------------------------------------------------------------
(* The powerflows.                                                         *)

(* What is kept and what is redone make, together, the data of the devices *)
(* as they are.                                                            *)
LEMMA PreparesCurrent ==
    ASSUME PrepOwes
    PROVE  /\ Prepared = Current
           /\ Preparable => Alive /\ Targets \subseteq Live
           /\ Alive /\ Targets \subseteq Live => Preparable
<1>1. Redo(SlackIdFlags, SlackOf, prep.slack) = SlackOf
  BY DEF PrepOwes, Redo
<1>2. Redo(SlackFlags, PvOf(SlackOf), prep.pv) = PvOf(SlackOf)
  BY DEF PrepOwes, Redo
<1>3. Redo(InjFlags, Injected, prep.inj) = Injected
  BY DEF PrepOwes, Redo
<1>4. Redo(MatFlags, line, prep.line) = line
  BY DEF PrepOwes, Redo
<1>5. Redo(LimitFlags, QTakers, prep.counted) = QTakers
  BY DEF PrepOwes, Redo
<1>6. Redo(WeightFlags, Weighted, prep.weighted) = Weighted
  BY DEF PrepOwes, Redo
<1>7. Prepared = Current
  BY <1>1, <1>2, <1>3, <1>4, <1>5, <1>6 DEF Prepared, Current
<1>8. Prepared.slack = SlackOf
  BY <1>7 DEF Current
<1>9. Weighted \subseteq SlackOf
  BY DEF Weighted, SlackOf
<1> HIDE DEF Prepared
<1>10. Preparable => Alive /\ Targets \subseteq Live
  BY <1>8 DEF PrepOwes, Preparable, Alive
<1>11. Alive /\ Targets \subseteq Live => Preparable
  BY <1>8, <1>9 DEF Preparable, Alive
<1> QED BY <1>7, <1>10, <1>11

LEMMA CurrentShape ==
    ASSUME DevicesTypeOK
    PROVE  /\ Current.slack \in SUBSET Buses /\ Current.pv \in SUBSET Buses
           /\ Current.weighted \in SUBSET Buses /\ Current.line \in BOOLEAN
           /\ Current.slack = SlackOf /\ Current.weighted = Weighted
<1>1. SlackOf \subseteq Buses /\ Weighted \subseteq Buses
  BY DevicesAssumption DEF SlackOf, Weighted, GensOn, DevicesTypeOK
<1>2. Pinned \subseteq Buses
  BY DEF Pinned, GensOn, DevicesTypeOK
<1>3. \A x \in VscOn : StationBus(x) \in Buses
  <2>1. SUFFICES ASSUME NEW x \in VscOn PROVE hvdc[x[1]].bus[x[2]] \in Buses
    BY DEF StationBus
  <2>2. x[1] \in Hvdc /\ x[2] \in K
    BY DEF VscOn, Stations
  <2> QED BY <2>2 DEF DevicesTypeOK, HvdcRecord
<1> QED BY <1>1, <1>2, <1>3 DEF Current, PvOf, DevicesTypeOK

(* What Pullable asks of the data prepared is what a first powerflow would *)
(* ask.                                                                    *)
LEMMA PullableIs ==
    Pullable(Current) <=> DroopsOk /\ Supported(PqOf(SlackOf), SlackOf)
<1>1. PqBuses(Current) = PqOf(SlackOf) /\ Current.slack = SlackOf
  BY DEF PqBuses, PqOf, Current
<1> QED BY <1>1 DEF Pullable

(* While the devices and the algorithm stay.                               *)
LEMMA DevicesStay ==
    ASSUME UNCHANGED devices
    PROVE  /\ SlackOf' = SlackOf /\ PvOf(SlackOf)' = PvOf(SlackOf) /\ Injected' = Injected
           /\ QTakers' = QTakers /\ Injectable' = Injectable /\ line' = line
           /\ Weighted' = Weighted /\ Alive' = Alive /\ (SlackOf \subseteq Live)' = (SlackOf \subseteq Live)
           /\ Current' = Current /\ Required' = Required
           /\ Pulled(Current)' = Pulled(Current)
           /\ FdMatrices(Current, line)' = FdMatrices(Current, line)
           /\ (algo' = algo => FreshAccepts' = FreshAccepts)
           /\ (PartlyOk => PartlyOk')
           /\ (flags' \in SUBSET Flags /\ DevicesTypeOK => DevicesTypeOK')
<1>1. UNCHANGED <<gen, svc, hvdc, line, cut>>
  BY DEF devices
<1>2. PartlyOk => PartlyOk'
  BY <1>1 DEF PartlyOk, DroopOn
<1>3. flags' \in SUBSET Flags /\ DevicesTypeOK => DevicesTypeOK'
  BY <1>1 DEF DevicesTypeOK
<1>4. GensOn' = GensOn /\ SvcsOn' = SvcsOn /\ Stations' = Stations /\ VscOn' = VscOn /\ Live' = Live
  BY <1>1 DEF GensOn, SvcsOn, Stations, VscOn, Live
<1>5. /\ \A g : Remote(g)' = Remote(g)
      /\ \A h : DroopOn(h)' = DroopOn(h)
      /\ \A x : StationBus(x)' = StationBus(x)
  BY <1>1 DEF Remote, DroopOn, StationBus
<1>6. SlackOf' = SlackOf /\ Pinned' = Pinned /\ Weighted' = Weighted /\ Targets' = Targets
  BY <1>1, <1>4, <1>5 DEF SlackOf, Pinned, Weighted, Targets
<1>7. GroupControlled' = GroupControlled
  BY <1>1, <1>4, <1>5 DEF GroupControlled
<1>8. StationBuses' = StationBuses
  BY <1>4, <1>5 DEF StationBuses
<1>9. Controllers' = Controllers /\ SvcControllers' = SvcControllers
  BY <1>1, <1>4, <1>5, <1>7 DEF Controllers, GenControllers, SvcControllers, StationControllers
<1>10. Groups' = Groups /\ Droops' = Droops
  BY <1>1, <1>5, <1>9 DEF Groups, Droops
<1>11. /\ PvOf(SlackOf)' = PvOf(SlackOf) /\ Required' = Required
       /\ FdMatrices(Current, line)' = FdMatrices(Current, line)
  BY <1>1, <1>6, <1>7, <1>8, <1>10, SameJacobian
<1>12. Injected' = Injected /\ QTakers' = QTakers
  BY <1>1, <1>4, <1>5 DEF Injected, QTakers
<1>13. Injectable' = Injectable
  BY <1>4, <1>12 DEF Injectable
<1>14. Current' = Current
  BY <1>1, <1>6, <1>11, <1>12 DEF Current
<1>15. Pulled(Current)' = Pulled(Current)
  BY <1>6, <1>7, <1>10, <1>14 DEF Pulled, FreeVmSlack
<1>16. DroopsOk' = DroopsOk
  BY <1>1, <1>4, <1>5 DEF DroopsOk
<1>17. Supported(PqOf(SlackOf), SlackOf)' = Supported(PqOf(SlackOf), SlackOf)
  BY <1>4, <1>6, <1>7, <1>9, <1>11 DEF Supported, PqOf, FreeVmSlack
<1>18. algo' = algo => FreshAccepts' = FreshAccepts
  BY <1>4, <1>5, <1>6, <1>13, <1>16, <1>17 DEF FreshAccepts
<1>19. Alive' = Alive /\ (SlackOf \subseteq Live)' = (SlackOf \subseteq Live)
  BY <1>4, <1>6, <1>13 DEF Alive
<1> QED BY <1>1, <1>2, <1>3, <1>6, <1>11, <1>12, <1>13, <1>14, <1>15, <1>18, <1>19

(* Data that are current owe nothing, and data that stay owe what they did *)
(* while the flags stay.                                                   *)
LEMMA CurrentOwesNothing ==
    ASSUME prep = Current, Alive
    PROVE  PrepOwes
BY DEF PrepOwes, Current, Alive

LEMMA SameOwes ==
    ASSUME UNCHANGED <<devices, flags>>
    PROVE  /\ (PrepOwes /\ prep' = prep => PrepOwes') /\ (NrOwes /\ nr' = nr => NrOwes')
           /\ (FdOwes /\ fd' = fd => FdOwes') /\ (FdKept /\ fd' = fd => FdKept')
BY DevicesStay DEF PrepOwes, NrOwes, FdOwes, FdKept

LEMMA NewShapes ==
    Nothing.need /\ FdNothing.need /\ (nr = Nothing => NrShape) /\ (fd = FdNothing => FdShape)
<1>1. Nothing.need /\ FdNothing.need
  BY DEF Nothing, FdNothing
<1>2. ASSUME nr = Nothing PROVE NrShape
  <2>1. /\ nr.need = TRUE /\ nr.init = TRUE /\ nr.seen = {} /\ nr.J = {}
        /\ nr.analysed = {} /\ nr.factored = {}
    BY <1>2 DEF Nothing
  <2> QED BY <1>2, <2>1 DEF NrShape, AtMostOne, Nothing
<1>3. ASSUME fd = FdNothing PROVE FdShape
  <2>1. fd.need = TRUE /\ fd.grid = {} /\ fd.mat = {} /\ fd.factored = {}
    BY <1>3 DEF FdNothing
  <2> QED BY <1>3, <2>1 DEF FdShape, AtMostOne, FdNothing
<1> QED BY <1>1, <1>2, <1>3

LEMMA ChangeKeeps ==
    ASSUME AcInv, AcChange, SoundMove
    PROVE  AcInv'
<1>1. /\ DeviceStep /\ pc = "idle" /\ last' = "none"
      /\ UNCHANGED <<prep, nr, pc, algo, coeffs, fd>>
  BY DEF AcChange, Change
<1>2. DevicesTypeOK' /\ PartlyOk' /\ Announced
  BY <1>1, DevicesAnnounce DEF AcInv, Shapes
<1>3. Owes'
  BY <1>1, <1>2, AnnouncedKeeps DEF AcInv
<1>4. Shapes'
  BY <1>1, <1>2 DEF AcInv, Shapes, NrShape, FdShape, PrepShape, Control, KeptAlone
<1>5. Solving' /\ Ended'
  BY <1>1 DEF Solving, Ended, RefusalIsDeserved
<1> QED BY <1>2, <1>3, <1>4, <1>5 DEF AcInv

(* Everything is told to have changed: nothing is owed.                    *)
LEMMA AllToldOwes ==
    flags = AllChanged => Owes
<1>1. /\ "reset" \in AllChanged /\ \A S : "reset" \in S => AnyOf(AllChanged, S)
      /\ \A S \in {SlackIdFlags, SlackFlags, InjFlags, MatFlags, LimitFlags, WeightFlags,
                    RebuildFlags, FdResetFlags} : "reset" \in S
  BY DEF AllChanged, Flags, AnyOf, SlackIdFlags, SlackFlags, InjFlags, MatFlags, LimitFlags,
         WeightFlags, RedoFlags, LabelFlags, RebuildFlags, FdResetFlags
<1> QED BY <1>1 DEF Owes, PrepOwes, NrOwes, FdOwes

LEMMA SelectKeeps ==
    ASSUME AcInv, AcSelect
    PROVE  AcInv'
<1>1. ASSUME UNCHANGED devices, pc = "idle", UNCHANGED pc, flags' = AllChanged, last' = "none",
             NrShape', FdShape', PrepShape', Control', KeptAlone'
      PROVE  AcInv'
  <2>1. DevicesTypeOK' /\ PartlyOk'
    BY <1>1, DevicesStay DEF AcInv, Shapes, AllChanged
  <2>2. Owes'
    <3>1. (flags = AllChanged => Owes)'
      BY AllToldOwes, PTL
    <3> QED BY <1>1, <3>1
  <2>3. Solving' /\ Ended'
    BY <1>1 DEF Solving, Ended, RefusalIsDeserved
  <2> QED BY <1>1, <2>1, <2>2, <2>3 DEF AcInv, Shapes
<1>2. (nr' = Nothing => NrShape') /\ (fd' = FdNothing => FdShape')
  <2>1. (nr = Nothing => NrShape)' /\ (fd = FdNothing => FdShape)'
    BY NewShapes, PTL
  <2> QED BY <2>1
<1>3. (nr' = nr => NrShape') /\ (fd' = fd => FdShape') /\ (prep' = prep => PrepShape')
  BY DEF AcInv, Shapes, NrShape, FdShape, PrepShape
<1>4. ASSUME NEW a \in AlgoClasses, NEW computed \in BOOLEAN, Select(a, computed) PROVE AcInv'
  <2>1. /\ pc = "idle" /\ algo' = a /\ coeffs' = (coeffs \/ computed) /\ Selected(a)
        /\ flags' = AllChanged /\ last' = "none" /\ UNCHANGED <<devices, prep, pc>>
    BY <1>4 DEF Select
  <2>2. \/ a = algo /\ UNCHANGED <<nr, fd>>
        \/ a # algo /\ nr' = Nothing /\ fd' = FdNothing
    BY <2>1 DEF Selected
  <2>3. KeptAlone'
    BY <2>1, <2>2 DEF AcInv, Shapes, KeptAlone
  <2>4. Control'
    BY <2>1 DEF AcInv, Shapes, Control
  <2> QED BY <1>1, <1>2, <1>3, <2>1, <2>2, <2>3, <2>4
<1>5. ASSUME NEW kept \in BOOLEAN, Replaced(kept) PROVE AcInv'
  <2>1. /\ pc = "idle" /\ coeffs' = (coeffs /\ kept)
        /\ nr' = Nothing /\ fd' = FdNothing /\ prep' = Unprepared
        /\ flags' = AllChanged /\ last' = "none" /\ UNCHANGED <<devices, pc, algo>>
    BY <1>5 DEF Replaced
  <2>2. Control' /\ KeptAlone'
    BY <2>1 DEF AcInv, Shapes, Control, KeptAlone
  <2>3. PrepShape'
    BY <2>1 DEF PrepShape, Unprepared
  <2> QED BY <1>1, <1>2, <2>1, <2>2, <2>3
<1>6. \A a : (a = "FDPF") \in BOOLEAN
  OBVIOUS
<1> QED BY <1>4, <1>5, <1>6 DEF AcSelect, ChangeAlgorithmByType, ChangeAlgorithmByName, CopyGrid, RestoreGrid

(* A powerflow that goes on, or is refused once it is prepared, has        *)
(* current data.                                                           *)
LEMMA PreparedShape ==
    ASSUME AcInv, Preparable, prep' = Prepared, UNCHANGED devices
    PROVE  /\ prep' = Current /\ prep' = Current' /\ Prepared = Current
           /\ Alive /\ Targets \subseteq Live /\ PrepShape' /\ PrepOwes'
<1>1. Prepared = Current /\ Alive /\ Targets \subseteq Live
  BY PreparesCurrent DEF AcInv, Owes
<1>2. Current' = Current /\ Alive' = Alive
  BY DevicesStay
<1>3. PrepShape'
  BY <1>1, CurrentShape DEF AcInv, Shapes, PrepShape
<1>4. PrepOwes'
  <2>1. (prep = Current /\ Alive => PrepOwes)'
    BY CurrentOwesNothing, PTL
  <2> QED BY <1>1, <1>2, <2>1
<1> QED BY <1>1, <1>2, <1>3, <1>4

LEMMA NewtonStepKeeps ==
    ASSUME AcInv, AcNewton
    PROVE  AcInv'
<1>1. /\ algo = "NR" /\ UNCHANGED <<algo, coeffs, fd>> /\ UNCHANGED devices
      /\ fd = FdNothing /\ NrShape /\ DevicesTypeOK /\ flags \in SUBSET Flags
  BY DEF AcNewton, AcInv, Shapes, KeptAlone, DevicesTypeOK, Solve, AcPf, RefusedInPrep, RefusedInUpdate,
         Begin, ZeroIteration, FirstIteration, NotFactorizable, Iterated, Converge, Fail
<1>2. /\ Alive' = Alive /\ Current' = Current /\ Required' = Required
      /\ Pulled(Current)' = Pulled(Current) /\ FreshAccepts' = FreshAccepts
      /\ PartlyOk' /\ (flags' \in SUBSET Flags => DevicesTypeOK')
  BY <1>1, DevicesStay DEF AcInv
<1>3. FdShape' /\ FdOwes' /\ KeptAlone' /\ SolvingFd'
  BY <1>1, NewShapes DEF AcInv, Shapes, FdShape, FdOwes, KeptAlone, SolvingFd
<1>4. ASSUME NrShape', PrepShape', Control', flags' \in SUBSET Flags, PrepOwes', NrOwes',
             Solving', Ended'
      PROVE  AcInv'
  BY <1>2, <1>3, <1>4 DEF AcInv, Shapes, Owes
<1>5. CASE pc = "idle" /\ RefusedInPrep
  <2>1. last' = "refused" /\ UNCHANGED <<devices, flags, prep, nr, pc>> /\ ~Preparable
    BY <1>5 DEF RefusedInPrep
  <2>2. ~FreshAccepts
    BY <2>1, PreparesCurrent DEF FreshAccepts, Alive, AcInv, Owes
  <2>3. NrShape' /\ PrepShape' /\ Control'
    BY <1>1, <2>1 DEF AcInv, Shapes, NrShape, PrepShape, Control
  <2>4. PrepOwes' /\ NrOwes'
    BY <2>1, SameOwes DEF AcInv, Owes
  <2>5. Solving' /\ Ended'
    BY <1>2, <1>5, <2>1, <2>2 DEF Solving, Ended, RefusalIsDeserved
  <2> QED BY <1>1, <1>4, <2>1, <2>3, <2>4, <2>5
<1>6. CASE pc = "idle" /\ RefusedInUpdate
  <2>1. /\ last' = "refused" /\ UNCHANGED <<devices, flags, pc>> /\ prep' = Prepared
        /\ nr' = HalfRebuilt /\ Preparable /\ ~Pullable(Prepared)
    BY <1>6 DEF RefusedInUpdate
  <2>2. Prepared = Current /\ PrepShape' /\ PrepOwes'
    BY <2>1, PreparedShape
  <2>3. ~FreshAccepts
    BY <1>1, <2>1, <2>2, PullableIs DEF FreshAccepts
  <2>4. CASE NeedRebuild
    <3>1. nr' = [nr EXCEPT !.analysed = {}, !.factored = {}]
      BY <2>1, <2>4 DEF HalfRebuilt
    <3>2. /\ nr'.need = nr.need /\ nr'.init = nr.init /\ nr'.seen = nr.seen /\ nr'.J = nr.J
          /\ nr'.analysed = {} /\ nr'.factored = {}
          /\ nr' = [need |-> nr.need, init |-> nr.init, seen |-> nr.seen, J |-> nr.J,
                    analysed |-> {}, factored |-> {}]
      BY <1>1, <3>1 DEF NrShape
    <3>3. NrShape'
      BY <1>1, <3>2 DEF NrShape, AtMostOne
    <3>4. NrOwes'
      BY <2>1, <2>4, <3>2 DEF NrOwes, NeedRebuild
    <3>5. Control' /\ Solving' /\ Ended'
      BY <1>1, <1>2, <1>6, <2>1, <2>3 DEF AcInv, Shapes, Control, Solving, Ended, RefusalIsDeserved
    <3> QED BY <1>1, <1>4, <2>1, <2>2, <3>3, <3>4, <3>5
  <2>5. CASE ~NeedRebuild
    <3>1. nr' = nr
      BY <2>1, <2>5 DEF HalfRebuilt
    <3>2. NrShape' /\ NrOwes'
      BY <1>1, <2>1, <3>1, SameOwes DEF AcInv, Owes, NrShape
    <3>3. Control' /\ Solving' /\ Ended'
      BY <1>1, <1>2, <1>6, <2>1, <2>3 DEF AcInv, Shapes, Control, Solving, Ended, RefusalIsDeserved
    <3> QED BY <1>1, <1>4, <2>1, <2>2, <3>2, <3>3
  <2> QED BY <2>4, <2>5
<1>7. CASE pc = "idle" /\ Begin
  <2>1. /\ last' = "none" /\ pc' = "begun" /\ UNCHANGED <<devices, flags>> /\ prep' = Prepared
        /\ nr' = Rebuilt(Prepared) /\ Preparable /\ Pullable(Prepared)
    BY <1>7 DEF Begin
  <2>2. /\ Prepared = Current /\ prep' = Current' /\ PrepShape' /\ PrepOwes'
        /\ Alive /\ Targets \subseteq Live
    BY <2>1, PreparedShape
  <2>3. FreshAccepts
    BY <1>1, <2>1, <2>2, PullableIs DEF FreshAccepts, Alive
  <2>4. /\ nr'.J = {Required} /\ nr'.seen = {Pulled(Current)} /\ NrShape'
    <3>1. CASE NeedRebuild
      <4> DEFINE need == nr.need \/ "reset" \in flags
      <4>1. nr' = [nr EXCEPT !.need = need, !.init = TRUE, !.seen = {Pulled(Current)}, !.J = {Required},
                             !.analysed = {}, !.factored = {}]
        BY <2>1, <2>2, <3>1 DEF Rebuilt, Required
      <4>3. need \in BOOLEAN
        BY <1>1 DEF NrShape
      <4> HIDE DEF need
      <4>2. /\ nr' = [need |-> need, init |-> TRUE, seen |-> {Pulled(Current)}, J |-> {Required},
                      analysed |-> {}, factored |-> {}]
            /\ nr'.need = need /\ nr'.init = TRUE /\ nr'.seen = {Pulled(Current)}
            /\ nr'.J = {Required} /\ nr'.analysed = {} /\ nr'.factored = {}
        <5> HIDE DEF Required, Pulled, Current
        <5> QED BY <1>1, <4>1 DEF NrShape
      <4> QED BY <1>1, <4>2, <4>3 DEF NrShape, AtMostOne
    <3>2. CASE ~NeedRebuild
      <4>1. nr' = [nr EXCEPT !.init = FALSE, !.seen = {Pulled(Current)}]
        BY <2>1, <2>2, <3>2 DEF Rebuilt
      <4>2. /\ nr' = [need |-> nr.need, init |-> FALSE, seen |-> {Pulled(Current)}, J |-> nr.J,
                      analysed |-> nr.analysed, factored |-> nr.factored]
            /\ nr'.need = nr.need /\ nr'.init = FALSE /\ nr'.seen = {Pulled(Current)}
            /\ nr'.J = nr.J /\ nr'.analysed = nr.analysed /\ nr'.factored = nr.factored
        BY <1>1, <4>1 DEF NrShape
      <4>3. nr.J = {Required}
        BY <3>2 DEF AcInv, Owes, NrOwes, NeedRebuild
      <4> QED BY <1>1, <4>2, <4>3 DEF NrShape, AtMostOne
    <3> QED BY <3>1, <3>2
  <2>5. NrOwes' /\ SolvingNr'
    BY <1>2, <2>1, <2>4 DEF NrOwes, SolvingNr
  <2>6. Solving' /\ Ended' /\ Control'
    BY <1>1, <1>2, <1>3, <2>1, <2>2, <2>3, <2>5 DEF Solving, Ended, RefusalIsDeserved, Control, AcInv, Shapes
  <2> QED BY <1>1, <1>4, <2>1, <2>2, <2>4, <2>5, <2>6
<1>8. ASSUME pc # "idle" PROVE prep = Current /\ FreshAccepts /\ nr.J = {Required} /\ nr.seen = {Pulled(Current)}
                               /\ Alive
  BY <1>1, <1>8 DEF AcInv, Solving, SolvingNr, FreshAccepts, Alive
<1>9. ASSUME pc # "idle", Converge, UNCHANGED nr PROVE AcInv'
  <2>1. /\ pc' = "idle" /\ last' = "converged" /\ flags' = {} /\ UNCHANGED <<devices, prep>>
    BY <1>9 DEF Converge, NoneChanged
  <2>2. PrepOwes' /\ NrOwes'
    <3>1. (prep = Current /\ Alive => PrepOwes)'
      BY CurrentOwesNothing, PTL
    <3> QED BY <1>2, <1>8, <1>9, <2>1, <3>1 DEF NrOwes
  <2>3. NrShape' /\ PrepShape' /\ Control' /\ Solving' /\ Ended'
    BY <1>1, <1>2, <1>8, <1>9, <2>1 DEF NrShape, PrepShape, Control, Solving, Ended, RefusalIsDeserved, AcInv, Shapes
  <2> QED BY <1>4, <2>1, <2>2, <2>3
<1>10. ASSUME pc # "idle", Fail PROVE AcInv'
  <2>1. /\ pc' = "idle" /\ last' = "failed" /\ flags' = {} /\ UNCHANGED <<devices, prep>>
        /\ nr' = Nothing
    BY <1>10 DEF Fail, NoneChanged
  <2>2. PrepOwes'
    <3>1. (prep = Current /\ Alive => PrepOwes)'
      BY CurrentOwesNothing, PTL
    <3> QED BY <1>2, <1>8, <1>10, <2>1, <3>1
  <2>3. NrShape' /\ NrOwes'
    <3>1. (nr = Nothing => NrShape)'
      BY NewShapes, PTL
    <3> QED BY <2>1, <3>1, NewShapes DEF NrOwes
  <2>4. PrepShape' /\ Control' /\ Solving' /\ Ended'
    BY <1>1, <2>1 DEF PrepShape, Control, Solving, Ended, RefusalIsDeserved, AcInv, Shapes
  <2> QED BY <1>4, <2>1, <2>2, <2>3, <2>4
<1>11. CASE ZeroIteration
  BY <1>9, <1>11 DEF ZeroIteration
<1>12. CASE FirstIteration
  <2>1. CASE pc = "begun" /\ nr' = Factors(nr.init) /\ pc' = "iterating" /\ UNCHANGED <<devices, flags, prep, last>>
    <3>1. nr' \in {[nr EXCEPT !.analysed = nr.J, !.factored = nr.J, !.init = FALSE, !.need = FALSE],
                   [nr EXCEPT !.factored = nr.J]}
      BY <2>1 DEF Factors
    <3>2. /\ nr'.J = nr.J /\ nr'.seen = nr.seen /\ nr'.factored = nr.J
          /\ nr'.analysed = nr.J \/ nr'.analysed = nr.analysed
          /\ nr'.init \in BOOLEAN /\ nr'.need \in BOOLEAN
          /\ nr' = [need |-> nr'.need, init |-> nr'.init, seen |-> nr'.seen, J |-> nr'.J,
                    analysed |-> nr'.analysed, factored |-> nr'.factored]
      BY <1>1, <3>1 DEF NrShape
    <3>3. NrShape'
      BY <1>1, <3>2 DEF NrShape
    <3>4. SolvingNr' /\ NrOwes'
      BY <1>2, <1>8, <2>1, <3>2 DEF SolvingNr, NrOwes
    <3>5. PrepOwes' /\ PrepShape'
      BY <2>1, SameOwes DEF AcInv, Owes, Shapes, PrepShape
    <3>6. Control' /\ Solving' /\ Ended'
      BY <1>1, <1>2, <1>3, <1>8, <2>1, <3>4 DEF Control, Solving, Ended, RefusalIsDeserved, AcInv, Shapes
    <3> QED BY <1>1, <1>4, <2>1, <3>3, <3>4, <3>5, <3>6
  <2>2. CASE pc = "begun" /\ Fail
    BY <1>10, <2>2
  <2> QED BY <1>12, <2>1, <2>2 DEF FirstIteration
<1>13. CASE NotFactorizable
  BY <1>10, <1>13 DEF NotFactorizable
<1>14. CASE Iterated
  BY <1>9, <1>10, <1>14 DEF Iterated
<1> QED BY <1>5, <1>6, <1>7, <1>11, <1>12, <1>13, <1>14 DEF AcNewton, Solve, AcPf

(* What fast decoupled fills is what the grid asks for now, whether it is  *)
(* read again or kept.                                                     *)
LEMMA FilledIsCurrent ==
    ASSUME AcInv, fd' = FdFilled(Current), UNCHANGED <<devices, flags>>
    PROVE  FdShape' /\ FdKept' /\ FdOwes' /\ (fd'.need \/ fd'.factored = fd'.mat)
<1>1. FdShape /\ FdOwes
  BY DEF AcInv, Shapes, Owes
<1>2. line' = line /\ FdMatrices(Current, line)' = FdMatrices(Current, line)
  BY DevicesStay
<1>3. CASE FdReadsGrid
  <2> DEFINE now == FdCurrent
             read == [now EXCEPT !.grid = {line}]
             mats == {FdMatrices(Current, b) : b \in read.grid}
  <2>1. /\ now = [need |-> now.need, grid |-> now.grid, mat |-> now.mat, factored |-> now.factored]
        /\ now.need \in BOOLEAN /\ AtMostOne(now.factored)
    <3>1. CASE AnyOf(flags, FdResetFlags)
      BY <3>1 DEF FdCurrent, FdNothing, AtMostOne
    <3>2. CASE ~AnyOf(flags, FdResetFlags)
      BY <1>1, <3>2 DEF FdCurrent, FdShape
    <3> QED BY <3>1, <3>2
  <2>2. fd' = [read EXCEPT !.mat = mats, !.need = TRUE]
    BY <1>3 DEF FdFilled, FdRead
  <2> HIDE DEF now
  <2>3. read = [need |-> now.need, grid |-> {line}, mat |-> now.mat, factored |-> now.factored]
        /\ read.grid = {line}
    BY <2>1
  <2>4. mats = {FdMatrices(Current, line)}
    BY <2>3
  <2> HIDE DEF read, mats
  <2>5. /\ fd'.need = TRUE /\ fd'.grid = {line} /\ fd'.mat = mats /\ fd'.factored = now.factored
        /\ fd' = [need |-> TRUE, grid |-> {line}, mat |-> mats, factored |-> now.factored]
    BY <2>2, <2>3
  <2>6. FdShape'
    BY <2>1, <2>4, <2>5 DEF FdShape, AtMostOne
  <2>7. FdKept'
    BY <1>2, <2>4, <2>5 DEF FdKept
  <2> QED BY <2>5, <2>6, <2>7 DEF FdOwes
<1>4. CASE ~FdReadsGrid
  <2>1. ~FdCurrent.need /\ ~AnyOf(flags, FdGridFlags)
    BY <1>4 DEF FdReadsGrid
  <2>2. ~AnyOf(flags, FdResetFlags) /\ FdCurrent = fd
    BY <2>1, NewShapes DEF FdCurrent
  <2>3. ~AnyOf(flags, {"slack_part", "pv", "pq"})
    BY <2>2 DEF AnyOf, FdResetFlags
  <2>4. fd' = fd
    BY <1>4, <2>2, <2>3 DEF FdFilled, FdRead
  <2>5. FdKept /\ fd.factored = fd.mat
    BY <1>1, <2>1, <2>2 DEF FdOwes
  <2> QED BY <1>1, <1>2, <2>4, <2>5 DEF FdShape, FdKept, FdOwes
<1> QED BY <1>3, <1>4

LEMMA OtherStepKeeps ==
    ASSUME AcInv, Other
    PROVE  AcInv'
<1>1. /\ algo # "NR" /\ UNCHANGED <<algo, coeffs, nr>> /\ UNCHANGED devices
      /\ nr = Nothing /\ DevicesTypeOK /\ flags \in SUBSET Flags /\ FdShape
  BY DEF Other, AcInv, Shapes, KeptAlone, DevicesTypeOK, OtherRefused, OtherThrows, OtherBegin, OtherFirst,
         OtherIterated, OtherConverge, OtherFail, Converge
<1>2. /\ Alive' = Alive /\ Current' = Current /\ FreshAccepts' = FreshAccepts
      /\ FdMatrices(Current, line)' = FdMatrices(Current, line) /\ line' = line
      /\ PartlyOk' /\ (flags' \in SUBSET Flags => DevicesTypeOK')
  BY <1>1, DevicesStay DEF AcInv
<1>3. NrShape' /\ NrOwes' /\ SolvingNr' /\ (algo' # "NR" => nr' = Nothing)
  BY <1>1, NewShapes DEF AcInv, Shapes, NrShape, NrOwes, SolvingNr
<1>4. ASSUME FdShape', PrepShape', Control', flags' \in SUBSET Flags, PrepOwes', FdOwes',
             algo # "FDPF" => fd' = FdNothing, Solving', Ended'
      PROVE  AcInv'
  BY <1>1, <1>2, <1>3, <1>4 DEF AcInv, Shapes, Owes, KeptAlone
<1>5. algo # "FDPF" => fd = FdNothing
  BY DEF AcInv, Shapes, KeptAlone
<1>6. (fd = FdNothing => FdShape)' /\ FdNothing.need
  <2>1. (fd = FdNothing => FdShape)'
    BY NewShapes, PTL
  <2> QED BY <2>1, NewShapes
<1>7. CASE OtherRefused
  <2>1. /\ pc = "idle" /\ (DroopRefused \/ ~Preparable)
        /\ last' = "refused" /\ UNCHANGED <<devices, flags, prep, pc, fd>>
    BY <1>7 DEF OtherRefused
  <2>2. ~FreshAccepts
    BY <1>1, <2>1, PreparesCurrent DEF DroopRefused, FreshAccepts, Alive, AcInv, Owes
  <2>3. FdShape' /\ PrepShape' /\ Control'
    BY <1>1, <2>1 DEF AcInv, Shapes, FdShape, PrepShape, Control
  <2>4. PrepOwes' /\ FdOwes'
    BY <2>1, SameOwes DEF AcInv, Owes
  <2>5. Solving' /\ Ended'
    BY <1>2, <2>1, <2>2 DEF Solving, Ended, RefusalIsDeserved
  <2> QED BY <1>1, <1>4, <1>5, <2>1, <2>3, <2>4, <2>5
<1>8. CASE OtherThrows
  <2>1. /\ pc = "idle" /\ Preparable /\ CannotReadBranches /\ prep' = Prepared
        /\ fd' = [FdCurrent EXCEPT !.grid = {}] /\ last' = "refused" /\ UNCHANGED <<devices, flags, pc>>
    BY <1>8 DEF OtherThrows
  <2>2. algo = "FDPF" /\ ~coeffs /\ (FdCurrent.need \/ AnyOf(flags, FdGridFlags))
    BY <2>1 DEF CannotReadBranches, FdReadsGrid
  <2>3. PrepShape' /\ PrepOwes'
    BY <2>1, PreparedShape
  <2>4. FdShape' /\ FdOwes'
    <3> DEFINE now == FdCurrent
    <3>1. /\ now = [need |-> now.need, grid |-> now.grid, mat |-> now.mat, factored |-> now.factored]
          /\ now.need \in BOOLEAN /\ AtMostOne(now.mat) /\ AtMostOne(now.factored)
      <4>1. CASE AnyOf(flags, FdResetFlags)
        BY <4>1 DEF FdCurrent, FdNothing, AtMostOne
      <4>2. CASE ~AnyOf(flags, FdResetFlags)
        BY <1>1, <4>2 DEF FdCurrent, FdShape
      <4> QED BY <4>1, <4>2
    <3> HIDE DEF now
    <3>2. /\ fd'.need = now.need /\ fd'.grid = {} /\ fd'.mat = now.mat /\ fd'.factored = now.factored
          /\ fd' = [need |-> now.need, grid |-> {}, mat |-> now.mat, factored |-> now.factored]
      BY <2>1, <3>1 DEF now
    <3>3. FdShape'
      BY <3>1, <3>2 DEF FdShape, AtMostOne
    <3>4. FdOwes'
      BY <2>1, <2>2, <3>2 DEF FdOwes, now
    <3> QED BY <3>3, <3>4
  <2>5. Control' /\ Solving' /\ Ended'
    BY <1>1, <2>1, <2>2 DEF AcInv, Shapes, Control, Solving, Ended, RefusalIsDeserved
  <2> QED BY <1>1, <1>4, <2>1, <2>2, <2>3, <2>4, <2>5
<1>9. CASE OtherBegin
  <2>1. /\ pc = "idle" /\ ~DroopRefused /\ Preparable /\ prep' = Prepared
        /\ fd' = IF algo = "FDPF" THEN FdFilled(Prepared) ELSE fd
        /\ pc' = "begun" /\ last' = "none" /\ UNCHANGED <<devices, flags>>
    BY <1>9 DEF OtherBegin
  <2>2. /\ Prepared = Current /\ prep' = Current' /\ PrepShape' /\ PrepOwes'
        /\ Alive /\ Targets \subseteq Live
    BY <2>1, PreparedShape
  <2>3. FreshAccepts
    BY <1>1, <2>1, <2>2 DEF FreshAccepts, Alive, DroopRefused
  <2>4. FdShape' /\ FdOwes' /\ (algo # "FDPF" => fd' = FdNothing) /\ SolvingFd'
    <3>1. CASE algo = "FDPF"
      BY <1>1, <2>1, <2>2, <3>1, FilledIsCurrent DEF SolvingFd
    <3>2. CASE algo # "FDPF"
      <4>1. fd' = FdNothing
        BY <1>5, <2>1, <3>2
      <4> QED BY <1>1, <1>6, <3>2, <4>1 DEF FdOwes, SolvingFd
    <3> QED BY <3>1, <3>2
  <2>5. Control' /\ Solving' /\ Ended'
    BY <1>1, <1>2, <1>3, <2>1, <2>2, <2>3, <2>4 DEF AcInv, Shapes, Control, Solving, Ended, RefusalIsDeserved
  <2> QED BY <1>1, <1>4, <2>1, <2>2, <2>4, <2>5
<1>10. ASSUME pc # "idle" PROVE prep = Current /\ FreshAccepts /\ SolvingFd /\ Alive
  BY <1>1, <1>10 DEF AcInv, Solving, FreshAccepts, Alive
<1>11. ASSUME pc # "idle" PROVE (flags' = {} /\ prep' = prep => PrepOwes')
  <2>1. (prep = Current /\ Alive => PrepOwes)'
    BY CurrentOwesNothing, PTL
  <2> QED BY <1>2, <1>10, <1>11, <2>1
<1>12. ASSUME pc # "idle", OtherConverge PROVE AcInv'
  <2>1. /\ pc' = "idle" /\ last' = "converged" /\ flags' = {} /\ UNCHANGED <<devices, prep, fd>>
    BY <1>12 DEF OtherConverge, Converge, NoneChanged
  <2>2. FdOwes'
    <3>1. CASE algo = "FDPF"
      BY <1>2, <1>10, <1>12, <2>1, <3>1 DEF FdOwes, FdKept, SolvingFd
    <3>2. CASE algo # "FDPF"
      BY <1>5, <1>6, <2>1, <3>2 DEF FdOwes
    <3> QED BY <3>1, <3>2
  <2>3. FdShape' /\ PrepShape' /\ Control' /\ Solving' /\ Ended'
    BY <1>1, <1>2, <1>10, <1>12, <2>1 DEF FdShape, PrepShape, Control, Solving, Ended, RefusalIsDeserved, AcInv, Shapes
  <2> QED BY <1>4, <1>5, <1>11, <1>12, <2>1, <2>2, <2>3
<1>13. ASSUME pc # "idle", OtherFail PROVE AcInv'
  <2>1. /\ pc' = "idle" /\ last' = "failed" /\ flags' = {} /\ UNCHANGED <<devices, prep>>
        /\ fd' = FdNothing
    BY <1>13 DEF OtherFail, NoneChanged
  <2>2. FdOwes' /\ FdShape'
    BY <1>6, <2>1 DEF FdOwes
  <2>3. PrepShape' /\ Control' /\ Solving' /\ Ended'
    BY <1>1, <2>1 DEF PrepShape, Control, Solving, Ended, RefusalIsDeserved, AcInv, Shapes
  <2> QED BY <1>4, <1>11, <1>13, <2>1, <2>2, <2>3
<1>14. CASE OtherFirst
  <2>1. ASSUME pc = "begun", pc' = "iterating", UNCHANGED <<devices, flags, prep, last>>,
               fd' = IF algo = "FDPF" /\ fd.need THEN [fd EXCEPT !.factored = fd.mat, !.need = FALSE] ELSE fd
        PROVE  AcInv'
    <3>1. FdShape' /\ FdOwes' /\ (algo # "FDPF" => fd' = FdNothing) /\ SolvingFd'
      <4>1. CASE algo = "FDPF" /\ fd.need
        <5>1. fd' = [fd EXCEPT !.factored = fd.mat, !.need = FALSE]
          BY <2>1, <4>1
        <5>2. /\ fd' = [need |-> FALSE, grid |-> fd.grid, mat |-> fd.mat, factored |-> fd.mat]
              /\ fd'.need = FALSE /\ fd'.grid = fd.grid /\ fd'.mat = fd.mat /\ fd'.factored = fd.mat
          BY <1>1, <5>1 DEF FdShape
        <5>3. FdKept
          BY <1>10, <2>1, <4>1 DEF SolvingFd
        <5>4. FdKept'
          BY <1>2, <5>2, <5>3 DEF FdKept
        <5>5. FdShape'
          BY <1>1, <5>2 DEF FdShape
        <5> QED BY <1>1, <4>1, <5>2, <5>4, <5>5 DEF FdOwes, SolvingFd
      <4>2. CASE ~(algo = "FDPF" /\ fd.need)
        <5>1. fd' = fd
          BY <2>1, <4>2
        <5>2. FdShape' /\ FdOwes'
          BY <1>1, <2>1, <5>1, SameOwes DEF FdShape, AcInv, Owes
        <5>3. SolvingFd'
          BY <1>1, <1>2, <1>10, <2>1, <4>2, <5>1 DEF SolvingFd, FdKept
        <5> QED BY <1>5, <5>1, <5>2, <5>3
      <4> QED BY <4>1, <4>2
    <3>2. PrepOwes' /\ PrepShape'
      BY <2>1, SameOwes DEF AcInv, Owes, Shapes, PrepShape
    <3>3. Control' /\ Solving' /\ Ended'
      BY <1>1, <1>2, <1>3, <1>10, <2>1, <3>1 DEF Control, Solving, Ended, RefusalIsDeserved, AcInv, Shapes
    <3> QED BY <1>1, <1>4, <2>1, <3>1, <3>2, <3>3
  <2> QED BY <1>12, <1>13, <1>14, <2>1 DEF OtherFirst
<1>15. CASE OtherIterated
  BY <1>12, <1>13, <1>15 DEF OtherIterated
<1> QED BY <1>7, <1>8, <1>9, <1>14, <1>15 DEF Other

-----------------------------------------------------------------------------
(* The theorems.                                                           *)

LEMMA AcStarts ==
    AcStart => AcInv
<1> SUFFICES ASSUME AcStart PROVE AcInv
  OBVIOUS
<1>1. /\ DevicesTypeOK /\ flags = AllChanged /\ prep = Unprepared /\ nr = Nothing /\ fd = FdNothing
      /\ pc = "idle" /\ last = "none" /\ algo = "NR" /\ coeffs = FALSE
      /\ \A h \in Hvdc : \E on \in BOOLEAN : hvdc[h].on = [k \in K |-> on] /\ hvdc[h].global = on
  BY DEF AcStart, AcInit, NewtonInit
<1>2. Shapes
  BY <1>1, NewShapes DEF Shapes, PrepShape, Unprepared, Control, KeptAlone, AlgoClasses
<1>3. PartlyOk
  <2>1. SUFFICES ASSUME NEW h \in Hvdc, NEW on \in BOOLEAN, hvdc[h].on = [k \in K |-> on], hvdc[h].global = on
                 PROVE  /\ DroopOn(h) => hvdc[h].on = [k \in K |-> TRUE]
                        /\ hvdc[h].on = [k \in K |-> TRUE] => hvdc[h].global
    BY <1>1 DEF PartlyOk
  <2>2. 1 \in K
    BY DEF K
  <2>3. CASE on
    BY <2>1, <2>3
  <2>4. CASE ~on
    <3>1. hvdc[h].on[1] = FALSE /\ [k \in K |-> TRUE][1] = TRUE
      BY <2>1, <2>2, <2>4
    <3> QED BY <2>1, <2>4, <3>1 DEF DroopOn
  <2> QED BY <2>3, <2>4
<1>4. Owes
  BY <1>1, AllToldOwes
<1>5. Solving /\ Ended
  BY <1>1 DEF Solving, Ended, RefusalIsDeserved
<1> QED BY <1>2, <1>3, <1>4, <1>5 DEF AcInv

LEMMA AcStutters ==
    AcInv /\ UNCHANGED acvars => AcInv'
<1> SUFFICES ASSUME AcInv, UNCHANGED acvars PROVE AcInv'
  OBVIOUS
<1>1. UNCHANGED <<devices, flags, prep, nr, pc, last, algo, coeffs, fd>>
  BY DEF acvars, vars, newton
<1>2. /\ Current' = Current /\ Required' = Required /\ Pulled(Current)' = Pulled(Current)
      /\ FdMatrices(Current, line)' = FdMatrices(Current, line) /\ FreshAccepts' = FreshAccepts
      /\ line' = line /\ PartlyOk' /\ DevicesTypeOK'
  BY <1>1, DevicesStay DEF AcInv, Shapes, DevicesTypeOK
<1>3. Shapes'
  BY <1>1, <1>2 DEF AcInv, Shapes, NrShape, FdShape, PrepShape, Control, KeptAlone
<1>4. Owes'
  BY <1>1, SameOwes DEF AcInv, Owes
<1>5. Solving' /\ Ended'
  BY <1>1, <1>2 DEF AcInv, Solving, SolvingNr, SolvingFd, FdKept, Ended, RefusalIsDeserved
<1> QED BY <1>2, <1>3, <1>4, <1>5 DEF AcInv

LEMMA AcInvariant ==
    AcSpec => []AcInv
<1>1. AcInv /\ [AcNext]_acvars => AcInv'
  BY ChangeKeeps, SelectKeeps, NewtonStepKeeps, OtherStepKeeps, AcStutters DEF AcNext
<1> QED BY AcStarts, <1>1, PTL DEF AcSpec

(* The variables of the AC algorithms have their types, and the two        *)
(* algorithms with something to keep never keep it together.               *)
THEOREM AcTypeCorrect == AcSpec => []AcTypeOK
BY AcInvariant, InvGives, PTL

(* An HVDC line is never in angle droop with one side open, whichever way  *)
(* it was opened.                                                          *)
THEOREM DroopsAreClosed == AcSpec => []NeverDroopHalfOpen
BY AcInvariant, InvGives, PTL

(* A powerflow judges convergence on the slack, the PV buses, the          *)
(* injections and the branches of the devices as they are.                 *)
THEOREM CurrentIsJudged == AcSpec => []JudgesCurrent
BY AcInvariant, InvGives, PTL

(* Newton-Raphson iterates with the factors of the Jacobian the devices    *)
(* ask for now, whatever was kept, refused or given up before.             *)
THEOREM NewtonIsCurrent == AcSpec => []IteratesOnCurrent
BY AcInvariant, InvGives, PTL

(* Fast decoupled solves with the factors of the matrices the grid asks    *)
(* for now, under whatever algorithms it ran before.                       *)
THEOREM FastDecoupledIsCurrent == AcSpec => []SolvesWithCurrent
BY AcInvariant, InvGives, PTL

(* A powerflow is refused exactly when a first one would be, but for the   *)
(* grids whose branches have not computed their coefficients.              *)
THEOREM RefusalsAreDeserved == AcSpec => []RefusalIsDeserved
BY AcInvariant, InvGives, PTL
=============================================================================
