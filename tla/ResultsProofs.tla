--------------------------- MODULE ResultsProofs ---------------------------
(***************************************************************************)
(* Proofs about the equations Newton-Raphson writes and the results the    *)
(* devices report, for every grid and every client AcSpec allows.          *)
(***************************************************************************)
EXTENDS Results, NewtonProofs, FunctionTheorems

-----------------------------------------------------------------------------
(* The Jacobian is square, and no row or column of it is empty.            *)

Names == Gens \cup Svcs \cup Hvdc

(* The name of a controller tells the controller.                          *)
LEMMA NamesTell ==
    ASSUME DevicesTypeOK
    PROVE  /\ \A c \in Groups : c.id \in Names \X {0, 1, 2}
           /\ \A c, d \in Groups : c.id = d.id => c = d
<1> DEFINE G == {x \in GensOn : Remote(x) \/ gen[x].reg \in GroupControlled}
           X == {y \in VscOn : StationBus(y) \in GroupControlled}
           OfGen(c, g) == c.id = <<g, 0>> /\ c = [id |-> <<g, 0>>, bus |-> gen[g].bus, reg |-> gen[g].reg]
           OfSvc(c, s) == c.id = <<s, 0>> /\ c = [id |-> <<s, 0>>, bus |-> svc[s].bus, reg |-> svc[s].reg]
           OfStation(c, x) == c.id = x /\ c = [id |-> x, bus |-> StationBus(x), reg |-> StationBus(x)]
<1>1. \A c \in Groups : \/ \E g \in G : OfGen(c, g)
                        \/ \E s \in SvcsOn : OfSvc(c, s)
                        \/ \E x \in X : OfStation(c, x)
  BY GroupsAre
<1>2. G \subseteq Gens /\ SvcsOn \subseteq Svcs /\ X \subseteq Hvdc \X {1, 2}
  BY DEF GensOn, SvcsOn, VscOn, Stations, K
<1>3. \A c \in Groups : \/ \E g \in Gens : OfGen(c, g)
                        \/ \E s \in Svcs : OfSvc(c, s)
                        \/ \E h \in Hvdc, k \in {1, 2} : OfStation(c, <<h, k>>)
  <2>1. \A x \in X : \E h \in Hvdc, k \in {1, 2} : x = <<h, k>>
    BY <1>2
  <2> HIDE DEF G, X, OfGen, OfSvc, OfStation
  <2> QED BY <1>1, <1>2, <2>1
<1>4. /\ \A c, g : OfGen(c, g) => c.id = <<g, 0>>
      /\ \A c, s : OfSvc(c, s) => c.id = <<s, 0>>
      /\ \A c, x : OfStation(c, x) => c.id = x
      /\ \A c, d, g : OfGen(c, g) /\ OfGen(d, g) => c = d
      /\ \A c, d, s : OfSvc(c, s) /\ OfSvc(d, s) => c = d
      /\ \A c, d, x : OfStation(c, x) /\ OfStation(d, x) => c = d
  OBVIOUS
<1> HIDE DEF OfGen, OfSvc, OfStation
<1>5. ASSUME NEW c \in Groups PROVE c.id \in Names \X {0, 1, 2}
  <2>1. \E n \in Names, k \in {0, 1, 2} : c.id = <<n, k>>
    <3>1. ASSUME NEW g \in Gens, OfGen(c, g) PROVE c.id = <<g, 0>> /\ g \in Names
      BY <1>4, <3>1 DEF Names
    <3>2. ASSUME NEW s \in Svcs, OfSvc(c, s) PROVE c.id = <<s, 0>> /\ s \in Names
      BY <1>4, <3>2 DEF Names
    <3>3. ASSUME NEW h \in Hvdc, NEW k \in {1, 2}, OfStation(c, <<h, k>>)
          PROVE  c.id = <<h, k>> /\ h \in Names /\ k \in {0, 1, 2}
      BY <1>4, <3>3 DEF Names
    <3> QED BY <1>3, <3>1, <3>2, <3>3
  <2> QED BY <2>1
<1>6. ASSUME NEW c \in Groups, NEW d \in Groups, c.id = d.id PROVE c = d
  <2>1. ASSUME NEW g \in Gens, OfGen(c, g) PROVE c = d
    <3>1. d.id = <<g, 0>> /\ g \notin Svcs
      BY <1>4, <1>6, <2>1, DevicesAssumption
    <3>2. \A e \in Gens : OfGen(d, e) => e = g
      BY <1>4, <3>1
    <3>3. \A e \in Svcs : ~OfSvc(d, e)
      BY <1>4, <3>1
    <3>4. \A h \in Hvdc, k \in {1, 2} : ~OfStation(d, <<h, k>>)
      BY <1>4, <3>1
    <3>5. OfGen(d, g)
      BY <1>3, <3>2, <3>3, <3>4
    <3> QED BY <1>4, <2>1, <3>5
  <2>2. ASSUME NEW s \in Svcs, OfSvc(c, s) PROVE c = d
    <3>1. d.id = <<s, 0>> /\ s \notin Gens
      BY <1>4, <1>6, <2>2, DevicesAssumption
    <3>2. \A e \in Svcs : OfSvc(d, e) => e = s
      BY <1>4, <3>1
    <3>3. \A e \in Gens : ~OfGen(d, e)
      BY <1>4, <3>1
    <3>4. \A h \in Hvdc, k \in {1, 2} : ~OfStation(d, <<h, k>>)
      BY <1>4, <3>1
    <3>5. OfSvc(d, s)
      BY <1>3, <3>2, <3>3, <3>4
    <3> QED BY <1>4, <2>2, <3>5
  <2>3. ASSUME NEW h \in Hvdc, NEW k \in {1, 2}, OfStation(c, <<h, k>>) PROVE c = d
    <3>1. d.id = <<h, k>>
      BY <1>4, <1>6, <2>3
    <3>2. \A e \in Gens : ~OfGen(d, e)
      BY <1>4, <3>1
    <3>3. \A e \in Svcs : ~OfSvc(d, e)
      BY <1>4, <3>1
    <3>4. \A i \in Hvdc, j \in {1, 2} : OfStation(d, <<i, j>>) => <<i, j>> = <<h, k>>
      BY <1>4, <3>1
    <3>5. OfStation(d, <<h, k>>)
      BY <1>3, <3>2, <3>3, <3>4
    <3> QED BY <1>4, <2>3, <3>5
  <2> QED BY <1>3, <2>1, <2>2, <2>3
<1> QED BY <1>5, <1>6

(* What a powerflow that is accepted knows of the buses: each slack and PV *)
(* bus is live, and each controller has a reactive equation at its bus and *)
(* a voltage unknown where it regulates.                                   *)
Freed == PqBuses(Current) \cup FreeVmSlack(SlackOf)
Placed ==
    /\ Current.slack = SlackOf /\ SlackOf # {} /\ SlackOf \subseteq Live
    /\ Current.pv \subseteq Live /\ Current.pv \cap SlackOf = {}
    /\ PqBuses(Current) = Live \ (SlackOf \cup Current.pv) /\ Freed \subseteq Live
    /\ Reference(Current) \in SlackOf
    /\ \A c \in Groups : c.bus \in Freed /\ c.reg \in Freed

LEMMA AcceptedIsPlaced ==
    ASSUME DevicesTypeOK, algo = "NR", FreshAccepts
    PROVE  Placed
<1>1. SlackOf # {} /\ Injectable /\ Supported(PqOf(SlackOf), SlackOf)
  <2>1. SlackGens # {} /\ Injectable /\ Supported(PqOf(SlackOf), SlackOf)
    BY DEF FreshAccepts
  <2> QED BY <2>1 DEF SlackOf
<1>2. Current.slack = SlackOf /\ Current.pv = PvOf(SlackOf)
  BY DEF Current
<1>3. \A g \in GensOn : gen[g].bus \in Live
  <2>1. SUFFICES ASSUME NEW g \in GensOn PROVE gen[g].bus \in Live
    OBVIOUS
  <2>2. [id |-> <<g, 0>>, bus |-> gen[g].bus, p |-> {}] \in Injected
    BY DEF Injected
  <2>3. [id |-> <<g, 0>>, bus |-> gen[g].bus, p |-> {}].bus \in Live
    BY <1>1, <2>2 DEF Injectable
  <2> QED BY <2>3
<1>4. \A x \in Stations : StationBus(x) \in Live
  <2>1. SUFFICES ASSUME NEW x \in Stations PROVE StationBus(x) \in Live
    OBVIOUS
  <2> DEFINE p == IF DroopOn(x[1]) THEN {} ELSE {hvdc[x[1]].p}
  <2>2. [id |-> x, bus |-> StationBus(x), p |-> p] \in Injected
    BY DEF Injected
  <2> HIDE DEF p
  <2>3. [id |-> x, bus |-> StationBus(x), p |-> p].bus \in Live
    BY <1>1, <2>2 DEF Injectable
  <2> QED BY <2>3
<1>5. SlackOf \subseteq Live
  <2>1. SlackOf \cup Targets \subseteq Live
    BY DEF FreshAccepts
  <2> QED BY <2>1
<1>6. Current.pv \subseteq Live /\ Current.pv \cap SlackOf = {}
  BY <1>2, <1>3, <1>4 DEF PvOf, Pinned, VscOn
<1>7. PqBuses(Current) = Live \ (SlackOf \cup Current.pv) /\ PqBuses(Current) = PqOf(SlackOf)
  BY <1>2 DEF PqBuses, PqOf
<1>8. Freed \subseteq Live
  BY <1>5, <1>7 DEF Freed, FreeVmSlack
<1>9. Reference(Current) \in SlackOf
  BY <1>1, <1>2 DEF Reference
<1>10. ASSUME NEW c \in Groups PROVE c.bus \in Freed /\ c.reg \in Freed
  <2>1. PICK d \in Controllers : c = [id |-> d.id, bus |-> d.bus, reg |-> d.reg]
    BY DEF Groups
  <2>2. c.bus = d.bus /\ c.reg = d.reg
    BY <2>1
  <2>3. {d.bus, d.reg} \subseteq (PqOf(SlackOf) \cup FreeVmSlack(SlackOf)) \cap Live
    BY <1>1 DEF Supported
  <2> QED BY <1>7, <2>2, <2>3 DEF Freed
<1> QED BY <1>1, <1>2, <1>5, <1>6, <1>7, <1>8, <1>9, <1>10 DEF Placed

(* The rows and the columns, all claims together.                          *)
Lead(r) == First({c \in Groups : c.reg = r})
Sharing == {c \in Groups : c # Lead(c.reg)}
Rows == {"p"} \X Live \cup {"q"} \X Freed \cup {"voltage"} \X {c.reg : c \in Groups}
        \cup {"share"} \X {c.id : c \in Sharing}
Cols == {"theta"} \X (Live \ {Reference(Current)}) \cup {"vm"} \X Freed \cup {<<"absorbed", 0>>}
        \cup {"qc"} \X {c.id : c \in Groups}

BaseHas  == [rows |-> {"p"} \X (Live \ SlackOf) \cup {"q"} \X Freed,
             cols |-> {"theta"} \X (Live \ SlackOf) \cup {"vm"} \X Freed]
SlackHas == [rows |-> {"p"} \X SlackOf,
             cols |-> {"theta"} \X (SlackOf \ {Reference(Current)}) \cup {<<"absorbed", 0>>}]
GroupHas(r) == [rows |-> {<<"voltage", r>>} \cup {"share"} \X {c.id : c \in {d \in Groups : d.reg = r} \ {Lead(r)}},
                cols |-> {"qc"} \X {c.id : c \in {d \in Groups : d.reg = r}}]

LEMMA LeadLeads ==
    ASSUME NEW c \in Groups
    PROVE  Lead(c.reg) \in Groups /\ Lead(c.reg).reg = c.reg
<1>1. c \in {d \in Groups : d.reg = c.reg}
  OBVIOUS
<1>2. Lead(c.reg) \in {d \in Groups : d.reg = c.reg}
  BY <1>1 DEF Lead, First
<1> QED BY <1>2

LEMMA ClaimsAre ==
    ASSUME Placed
    PROVE  /\ Claims(Current, Pulled(Current)) =
                {BaseHas, SlackHas} \cup {GroupHas(r) : r \in {c.reg : c \in Groups}}
           /\ Pulled(Current).groups = Groups /\ Pulled(Current).free = FreeVmSlack(SlackOf)
           /\ Regulated(Pulled(Current)) = {c.reg : c \in Groups}
<1>1. Pulled(Current).groups = Groups /\ Pulled(Current).free = FreeVmSlack(SlackOf)
  BY DEF Pulled, Placed
<1>2. BaseClaims(Current, Pulled(Current)) = BaseHas
  <2>1. Current.pv \cup PqBuses(Current) = Live \ SlackOf
    BY DEF Placed
  <2>2. PqBuses(Current) \cup Pulled(Current).free = Freed
    BY <1>1 DEF Freed
  <2> QED BY <2>1, <2>2 DEF BaseClaims, BaseHas
<1>3. SlackClaims(Current) = SlackHas
  BY DEF SlackClaims, SlackHas, Placed
<1>4. Regulated(Pulled(Current)) = {c.reg : c \in Groups}
  BY <1>1 DEF Regulated
<1>5. \A r : GroupClaims(Pulled(Current), r) = GroupHas(r)
  BY <1>1 DEF GroupClaims, GroupOf, Lead, GroupHas
<1>6. {GroupClaims(Pulled(Current), r) : r \in Regulated(Pulled(Current))}
      = {GroupHas(r) : r \in {c.reg : c \in Groups}}
  BY <1>4, <1>5
<1> QED BY <1>1, <1>2, <1>3, <1>4, <1>6 DEF Claims

LEMMA RowsAndCols ==
    ASSUME Placed
    PROVE  /\ RowsOf(Claims(Current, Pulled(Current))) = Rows
           /\ ColsOf(Claims(Current, Pulled(Current))) = Cols
<1> DEFINE claims == Claims(Current, Pulled(Current))
           Regs == {c.reg : c \in Groups}
<1>1. claims = {BaseHas, SlackHas} \cup {GroupHas(r) : r \in Regs}
  BY ClaimsAre
<1> HIDE DEF claims, Regs
<1>2. /\ RowsOf(claims) = BaseHas.rows \cup SlackHas.rows \cup UNION {GroupHas(r).rows : r \in Regs}
      /\ ColsOf(claims) = BaseHas.cols \cup SlackHas.cols \cup UNION {GroupHas(r).cols : r \in Regs}
  BY <1>1 DEF RowsOf, ColsOf
<1>3. BaseHas.rows \cup SlackHas.rows = {"p"} \X Live \cup {"q"} \X Freed
  BY DEF BaseHas, SlackHas, Placed
<1>4. BaseHas.cols \cup SlackHas.cols
      = {"theta"} \X (Live \ {Reference(Current)}) \cup {"vm"} \X Freed \cup {<<"absorbed", 0>>}
  BY DEF BaseHas, SlackHas, Placed
<1>5. UNION {GroupHas(r).rows : r \in Regs} = {"voltage"} \X Regs \cup {"share"} \X {c.id : c \in Sharing}
  <2>1. ASSUME NEW r \in Regs, NEW x \in GroupHas(r).rows
        PROVE  x \in {"voltage"} \X Regs \cup {"share"} \X {c.id : c \in Sharing}
    <3>1. CASE x = <<"voltage", r>>
      BY <3>1
    <3>2. CASE x # <<"voltage", r>>
      <4>1. PICK c \in {d \in Groups : d.reg = r} \ {Lead(r)} : x = <<"share", c.id>>
        BY <2>1, <3>2 DEF GroupHas
      <4>2. c \in Sharing
        BY <4>1 DEF Sharing
      <4> QED BY <4>1, <4>2
    <3> QED BY <3>1, <3>2
  <2>2. ASSUME NEW r \in Regs PROVE <<"voltage", r>> \in GroupHas(r).rows
    BY DEF GroupHas
  <2>3. ASSUME NEW c \in Sharing PROVE c.reg \in Regs /\ <<"share", c.id>> \in GroupHas(c.reg).rows
    <3>1. c \in Groups /\ c \in {d \in Groups : d.reg = c.reg} \ {Lead(c.reg)}
      BY DEF Sharing
    <3> QED BY <3>1 DEF GroupHas, Regs
  <2> QED BY <2>1, <2>2, <2>3
<1>6. UNION {GroupHas(r).cols : r \in Regs} = {"qc"} \X {c.id : c \in Groups}
  <2>1. ASSUME NEW c \in Groups PROVE c.reg \in Regs /\ <<"qc", c.id>> \in GroupHas(c.reg).cols
    BY DEF GroupHas, Regs
  <2>2. ASSUME NEW r \in Regs, NEW x \in GroupHas(r).cols PROVE x \in {"qc"} \X {c.id : c \in Groups}
    BY <2>2 DEF GroupHas
  <2> QED BY <2>1, <2>2
<1> QED BY <1>2, <1>3, <1>4, <1>5, <1>6 DEF Rows, Cols, claims, Regs

(* No equation and no unknown is claimed twice.                            *)
LEMMA ClaimedOnce ==
    ASSUME DevicesTypeOK, Placed,
           NEW x \in Claims(Current, Pulled(Current)), NEW y \in Claims(Current, Pulled(Current)), x # y
    PROVE  x.rows \cap y.rows = {} /\ x.cols \cap y.cols = {}
<1> DEFINE Apart(a, b) == a.rows \cap b.rows = {} /\ a.cols \cap b.cols = {}
           Regs == {c.reg : c \in Groups}
<1>1. x \in {BaseHas, SlackHas} \cup {GroupHas(r) : r \in Regs}
      /\ y \in {BaseHas, SlackHas} \cup {GroupHas(r) : r \in Regs}
  BY ClaimsAre
<1>2. Apart(BaseHas, SlackHas) /\ Apart(SlackHas, BaseHas)
  BY DEF BaseHas, SlackHas, Placed
<1>3. ASSUME NEW r \in Regs
      PROVE  /\ Apart(BaseHas, GroupHas(r)) /\ Apart(GroupHas(r), BaseHas)
             /\ Apart(SlackHas, GroupHas(r)) /\ Apart(GroupHas(r), SlackHas)
  BY DEF BaseHas, SlackHas, GroupHas
<1>4. ASSUME NEW r \in Regs, NEW s \in Regs, r # s PROVE Apart(GroupHas(r), GroupHas(s))
  <2>1. \A c, d \in Groups : c.reg = r /\ d.reg = s => c.id # d.id
    BY <1>4, NamesTell
  <2>2. GroupHas(r).cols \cap GroupHas(s).cols = {}
    BY <2>1 DEF GroupHas
  <2>3. GroupHas(r).rows \cap GroupHas(s).rows = {}
    BY <1>4, <2>1 DEF GroupHas
  <2> QED BY <2>2, <2>3
<1> HIDE DEF Apart, Regs
<1>5. Apart(x, y)
  BY <1>1, <1>2, <1>3, <1>4
<1> QED BY <1>5 DEF Apart

(* Each equation has its own unknown: the reference trades its angle for   *)
(* the power absorbed, the voltage of a group its first controller.        *)
Partner(row) == CASE row[1] = "p" -> IF row[2] = Reference(Current) THEN <<"absorbed", 0>> ELSE <<"theta", row[2]>>
                  [] row[1] = "q" -> <<"vm", row[2]>>
                  [] row[1] = "voltage" -> <<"qc", Lead(row[2]).id>>
                  [] OTHER -> <<"qc", row[2]>>

LEMMA RowCases ==
    ASSUME NEW row \in Rows
    PROVE  \/ \E b \in Live : row = <<"p", b>>
           \/ \E b \in Freed : row = <<"q", b>>
           \/ \E c \in Groups : row = <<"voltage", c.reg>>
           \/ \E c \in Sharing : row = <<"share", c.id>>
BY DEF Rows

LEMMA PartnersPair ==
    ASSUME DevicesTypeOK, Placed
    PROVE  [row \in Rows |-> Partner(row)] \in Bijection(Rows, Cols)
<1> DEFINE f == [row \in Rows |-> Partner(row)]
           ref == Reference(Current)
<1>0. Sharing \subseteq Groups
  BY DEF Sharing
<1>1. /\ \A b \in Live : Partner(<<"p", b>>) = IF b = ref THEN <<"absorbed", 0>> ELSE <<"theta", b>>
      /\ \A b \in Freed : Partner(<<"q", b>>) = <<"vm", b>>
      /\ \A c \in Groups : Partner(<<"voltage", c.reg>>) = <<"qc", Lead(c.reg).id>>
      /\ \A c \in Sharing : Partner(<<"share", c.id>>) = <<"qc", c.id>>
  BY DEF Partner
<1>2. /\ \A c \in Groups : Lead(c.reg) \in Groups /\ Lead(c.reg).reg = c.reg
      /\ \A c, d \in Groups : c.id = d.id => c = d
  BY LeadLeads, NamesTell
<1>3. \A row \in Rows : Partner(row) \in Cols
  <2> SUFFICES ASSUME NEW row \in Rows PROVE Partner(row) \in Cols
    OBVIOUS
  <2>1. CASE \E b \in Live : row = <<"p", b>>
    <3>1. PICK b \in Live : row = <<"p", b>>
      BY <2>1
    <3>2. Partner(row) = IF b = ref THEN <<"absorbed", 0>> ELSE <<"theta", b>>
      BY <1>1, <3>1
    <3> HIDE DEF Partner
    <3> QED BY <3>1, <3>2 DEF Cols
  <2>2. CASE \E b \in Freed : row = <<"q", b>>
    BY <1>1, <2>2 DEF Cols
  <2>3. CASE \E c \in Groups : row = <<"voltage", c.reg>>
    <3>1. PICK c \in Groups : row = <<"voltage", c.reg>>
      BY <2>3
    <3>2. Partner(row) = <<"qc", Lead(c.reg).id>> /\ Lead(c.reg) \in Groups
      BY <1>1, <1>2, <3>1
    <3> QED BY <3>2 DEF Cols
  <2>4. CASE \E c \in Sharing : row = <<"share", c.id>>
    BY <1>0, <1>1, <2>4 DEF Cols
  <2> QED BY <2>1, <2>2, <2>3, <2>4, RowCases
<1>4. \A row1, row2 \in Rows : Partner(row1) = Partner(row2) => row1 = row2
  <2> SUFFICES ASSUME NEW row1 \in Rows, NEW row2 \in Rows, Partner(row1) = Partner(row2) PROVE row1 = row2
    OBVIOUS
  <2> DEFINE Cases(row) == \/ \E b \in Live : row = <<"p", b>> /\ b = ref /\ Partner(row) = <<"absorbed", 0>>
                           \/ \E b \in Live : row = <<"p", b>> /\ b # ref /\ Partner(row) = <<"theta", b>>
                           \/ \E b \in Freed : row = <<"q", b>> /\ Partner(row) = <<"vm", b>>
                           \/ \E c \in Groups : row = <<"voltage", c.reg>> /\ Partner(row) = <<"qc", Lead(c.reg).id>>
                           \/ \E c \in Sharing : row = <<"share", c.id>> /\ Partner(row) = <<"qc", c.id>>
  <2>1. \A row \in Rows : Cases(row)
    BY <1>1, RowCases
  <2>2. Cases(row1) /\ Cases(row2)
    BY <2>1
  <2>3. CASE \E b \in Live : row1 = <<"p", b>> /\ b = ref /\ Partner(row1) = <<"absorbed", 0>>
    BY <2>2, <2>3
  <2>4. CASE \E b \in Live : row1 = <<"p", b>> /\ b # ref /\ Partner(row1) = <<"theta", b>>
    BY <2>2, <2>4
  <2>5. CASE \E b \in Freed : row1 = <<"q", b>> /\ Partner(row1) = <<"vm", b>>
    BY <2>2, <2>5
  <2>6. ASSUME NEW c \in Groups, row1 = <<"voltage", c.reg>>, Partner(row1) = <<"qc", Lead(c.reg).id>>
        PROVE  row1 = row2
    <3>1. \/ \E d \in Groups : row2 = <<"voltage", d.reg>> /\ Partner(row2) = <<"qc", Lead(d.reg).id>>
          \/ \E d \in Sharing : row2 = <<"share", d.id>> /\ Partner(row2) = <<"qc", d.id>>
      BY <2>2, <2>6
    <3>2. ASSUME NEW d \in Groups, row2 = <<"voltage", d.reg>>, Partner(row2) = <<"qc", Lead(d.reg).id>>
          PROVE  row1 = row2
      <4>1. Lead(c.reg).id = Lead(d.reg).id
        BY <2>6, <3>2
      <4>2. Lead(c.reg) = Lead(d.reg)
        BY <1>2, <4>1
      <4>3. c.reg = d.reg
        BY <1>2, <4>2
      <4> QED BY <2>6, <3>2, <4>3
    <3>3. ASSUME NEW d \in Sharing, Partner(row2) = <<"qc", d.id>> PROVE FALSE
      <4>1. Lead(c.reg).id = d.id
        BY <2>6, <3>3
      <4>2. Lead(c.reg) = d
        BY <1>0, <1>2, <4>1
      <4>3. d = Lead(d.reg)
        BY <1>2, <4>2
      <4> QED BY <4>3 DEF Sharing
    <3> QED BY <3>1, <3>2, <3>3
  <2>7. ASSUME NEW c \in Sharing, row1 = <<"share", c.id>>, Partner(row1) = <<"qc", c.id>>
        PROVE  row1 = row2
    <3>1. \/ \E d \in Groups : row2 = <<"voltage", d.reg>> /\ Partner(row2) = <<"qc", Lead(d.reg).id>>
          \/ \E d \in Sharing : row2 = <<"share", d.id>> /\ Partner(row2) = <<"qc", d.id>>
      BY <2>2, <2>7
    <3>2. ASSUME NEW d \in Groups, Partner(row2) = <<"qc", Lead(d.reg).id>> PROVE FALSE
      <4>1. Lead(d.reg).id = c.id
        BY <2>7, <3>2
      <4>2. Lead(d.reg) = c
        BY <1>0, <1>2, <4>1
      <4>3. c = Lead(c.reg)
        BY <1>2, <4>2
      <4> QED BY <4>3 DEF Sharing
    <3>3. ASSUME NEW d \in Sharing, row2 = <<"share", d.id>>, Partner(row2) = <<"qc", d.id>> PROVE row1 = row2
      BY <2>7, <3>3
    <3> QED BY <3>1, <3>2, <3>3
  <2> HIDE DEF Cases
  <2>8. \/ \E b \in Live : row1 = <<"p", b>> /\ b = ref /\ Partner(row1) = <<"absorbed", 0>>
        \/ \E b \in Live : row1 = <<"p", b>> /\ b # ref /\ Partner(row1) = <<"theta", b>>
        \/ \E b \in Freed : row1 = <<"q", b>> /\ Partner(row1) = <<"vm", b>>
        \/ \E c \in Groups : row1 = <<"voltage", c.reg>> /\ Partner(row1) = <<"qc", Lead(c.reg).id>>
        \/ \E c \in Sharing : row1 = <<"share", c.id>> /\ Partner(row1) = <<"qc", c.id>>
    BY <2>2 DEF Cases
  <2> QED BY <2>3, <2>4, <2>5, <2>6, <2>7, <2>8
<1>5. \A col \in Cols : \E row \in Rows : Partner(row) = col
  <2> SUFFICES ASSUME NEW col \in Cols PROVE \E row \in Rows : Partner(row) = col
    OBVIOUS
  <2>1. CASE \E b \in Live \ {ref} : col = <<"theta", b>>
    <3>1. PICK b \in Live \ {ref} : col = <<"theta", b>>
      BY <2>1
    <3>2. <<"p", b>> \in Rows /\ Partner(<<"p", b>>) = col
      BY <1>1, <3>1 DEF Rows
    <3> QED BY <3>2
  <2>2. CASE \E b \in Freed : col = <<"vm", b>>
    <3>1. PICK b \in Freed : col = <<"vm", b>>
      BY <2>2
    <3>2. <<"q", b>> \in Rows /\ Partner(<<"q", b>>) = col
      BY <1>1, <3>1 DEF Rows
    <3> QED BY <3>2
  <2>3. CASE col = <<"absorbed", 0>>
    <3>1. ref \in Live
      BY DEF Placed
    <3>2. <<"p", ref>> \in Rows /\ Partner(<<"p", ref>>) = col
      BY <1>1, <2>3, <3>1 DEF Rows
    <3> QED BY <3>2
  <2>4. CASE \E c \in Groups : col = <<"qc", c.id>>
    <3>1. PICK c \in Groups : col = <<"qc", c.id>>
      BY <2>4
    <3>2. CASE c \in Sharing
      <4>1. <<"share", c.id>> \in Rows /\ Partner(<<"share", c.id>>) = col
        BY <1>1, <3>1, <3>2 DEF Rows
      <4> QED BY <4>1
    <3>3. CASE c \notin Sharing
      <4>1. c = Lead(c.reg)
        BY <3>3 DEF Sharing
      <4>2. <<"voltage", c.reg>> \in Rows
        BY DEF Rows
      <4>3. Partner(<<"voltage", c.reg>>) = col
        BY <1>1, <3>1, <4>1
      <4> QED BY <4>2, <4>3
    <3> QED BY <3>2, <3>3
  <2> QED BY <2>1, <2>2, <2>3, <2>4 DEF Cols
<1> HIDE DEF Partner
<1>6. f \in [Rows -> Cols]
  BY <1>3
<1>7. \A a, b \in Rows : f[a] = f[b] => a = b
  BY <1>4
<1>8. \A t \in Cols : \E s \in Rows : f[s] = t
  BY <1>5
<1> HIDE DEF f
<1>9. f \in Bijection(Rows, Cols)
  BY <1>6, <1>7, <1>8, Fun_IsBij
<1> QED BY <1>9 DEF f

LEMMA RowsAreFinite ==
    ASSUME DevicesTypeOK, Placed
    PROVE  IsFiniteSet(Rows)
<1>1. IsFiniteSet(Buses) /\ IsFiniteSet(Names)
  BY DevicesAssumption DEF Names
<1>2. IsFiniteSet({0, 1, 2}) /\ IsFiniteSet({"p", "q", "voltage"}) /\ IsFiniteSet({"share"})
  <2>1. \A x : IsFiniteSet({x})
    BY FS_Singleton
  <2>2. ASSUME NEW x, NEW y, NEW z PROVE IsFiniteSet({x, y, z})
    <3> DEFINE S == {x} \cup {y} \cup {z}
    <3>1. IsFiniteSet(S)
      BY <2>1, FS_Union
    <3>2. S = {x, y, z}
      OBVIOUS
    <3> HIDE DEF S
    <3> QED BY <3>1, <3>2
  <2> QED BY <2>1, <2>2
<1>3. IsFiniteSet({"p", "q", "voltage"} \X Buses)
  BY <1>1, <1>2, FS_Product
<1>4. IsFiniteSet({"share"} \X (Names \X {0, 1, 2}))
  <2>1. IsFiniteSet(Names \X {0, 1, 2})
    BY <1>1, <1>2, FS_Product
  <2> HIDE DEF Names
  <2> QED BY <1>2, <2>1, FS_Product
<1>5. IsFiniteSet(({"p", "q", "voltage"} \X Buses) \cup ({"share"} \X (Names \X {0, 1, 2})))
  BY <1>3, <1>4, FS_Union
<1>6. Rows \subseteq ({"p", "q", "voltage"} \X Buses) \cup ({"share"} \X (Names \X {0, 1, 2}))
  <2>1. /\ Live \subseteq Buses /\ Freed \subseteq Buses /\ (\A c \in Groups : c.reg \in Buses)
        /\ (\A c \in Sharing : c.id \in Names \X {0, 1, 2})
    BY NamesTell DEF Live, Placed, Sharing
  <2> SUFFICES ASSUME NEW row \in Rows
               PROVE  row \in ({"p", "q", "voltage"} \X Buses) \cup ({"share"} \X (Names \X {0, 1, 2}))
    OBVIOUS
  <2>2. CASE \E b \in Live : row = <<"p", b>>
    BY <2>1, <2>2
  <2>3. CASE \E b \in Freed : row = <<"q", b>>
    BY <2>1, <2>3
  <2>4. CASE \E c \in Groups : row = <<"voltage", c.reg>>
    BY <2>1, <2>4
  <2>5. CASE \E c \in Sharing : row = <<"share", c.id>>
    BY <2>1, <2>5
  <2> QED BY <2>2, <2>3, <2>4, <2>5, RowCases
<1> QED BY <1>5, <1>6, FS_Subset

LEMMA AsManyEquations ==
    ASSUME DevicesTypeOK, Placed
    PROVE  Cardinality(Rows) = Cardinality(Cols)
<1>1. ExistsBijection(Rows, Cols)
  BY PartnersPair DEF ExistsBijection
<1> QED BY <1>1, RowsAreFinite, FS_Bijection

(* Each equation has an unknown, and each unknown an equation.             *)
Entries == Pattern(Current, Pulled(Current)).entries

LEMMA EntriesAre ==
    ASSUME Placed
    PROVE  /\ Entries \subseteq Rows \X Cols
           /\ \A b \in Live : <<"p", b>> \in Rows /\ <<"theta", b>> \in Cols => <<<<"p", b>>, <<"theta", b>>>> \in Entries
           /\ \A b \in Live : <<"q", b>> \in Rows /\ <<"vm", b>> \in Cols => <<<<"q", b>>, <<"vm", b>>>> \in Entries
           /\ \A b \in SlackOf : <<<<"p", b>>, <<"absorbed", 0>>>> \in Entries
           /\ \A c \in Groups : /\ <<<<"voltage", c.reg>>, <<"vm", c.reg>>>> \in Entries
                                /\ <<<<"q", c.bus>>, <<"qc", c.id>>>> \in Entries
           /\ \A c \in Sharing : <<<<"share", c.id>>, <<"qc", c.id>>>> \in Entries
<1> DEFINE seen == Pulled(Current)
           Joint == PowerEntries(Current) \cup SlackEntries(Current) \cup DroopEntries(seen)
                    \cup UNION {GroupEntries(seen, r) : r \in Regulated(seen)}
<1>1. Entries = (Rows \X Cols) \cap Joint
  BY RowsAndCols DEF Entries, Pattern
<1>2. ASSUME NEW b \in Live
      PROVE  <<<<"p", b>>, <<"theta", b>>>> \in PowerEntries(Current) /\ <<<<"q", b>>, <<"vm", b>>>> \in PowerEntries(Current)
  <2>1. <<b, b>> \in Joined(Current)
    BY DEF Joined
  <2> DEFINE of(e) == {<<"p", e[1]>>, <<"q", e[1]>>} \X {<<"theta", e[2]>>, <<"vm", e[2]>>}
  <2>2. <<<<"p", b>>, <<"theta", b>>>> \in of(<<b, b>>) /\ <<<<"q", b>>, <<"vm", b>>>> \in of(<<b, b>>)
    OBVIOUS
  <2>3. PowerEntries(Current) = UNION {of(e) : e \in Joined(Current)}
    BY DEF PowerEntries
  <2> HIDE DEF of
  <2> QED BY <2>1, <2>2, <2>3
<1>3. \A b \in SlackOf : /\ <<<<"p", b>>, <<"absorbed", 0>>>> \in SlackEntries(Current)
                         /\ <<"p", b>> \in Rows /\ <<"absorbed", 0>> \in Cols
  BY DEF SlackEntries, Placed, Rows, Cols
<1>4. seen.groups = Groups /\ Regulated(seen) = {c.reg : c \in Groups}
  BY ClaimsAre
<1>5. \A r : First(GroupOf(seen, r)) = Lead(r) /\ GroupOf(seen, r) = {d \in Groups : d.reg = r}
  BY <1>4 DEF Lead, GroupOf
<1>6. ASSUME NEW c \in Groups
      PROVE  /\ <<<<"voltage", c.reg>>, <<"vm", c.reg>>>> \in GroupEntries(seen, c.reg)
             /\ <<<<"q", c.bus>>, <<"qc", c.id>>>> \in GroupEntries(seen, c.reg)
             /\ c \in Sharing => <<<<"share", c.id>>, <<"qc", c.id>>>> \in GroupEntries(seen, c.reg)
             /\ c.reg \in Regulated(seen)
             /\ <<"voltage", c.reg>> \in Rows /\ <<"vm", c.reg>> \in Cols
             /\ <<"q", c.bus>> \in Rows /\ <<"qc", c.id>> \in Cols
             /\ c \in Sharing => <<"share", c.id>> \in Rows
  <2> DEFINE group == {d \in Groups : d.reg = c.reg}
             of(d) == {<<"share", d.id>>} \X {<<"qc", d.id>>, <<"qc", Lead(c.reg).id>>}
  <2>1. c \in group
    OBVIOUS
  <2>2. GroupEntries(seen, c.reg) = {<<<<"voltage", c.reg>>, <<"vm", c.reg>>>>}
            \cup {<<<<"q", d.bus>>, <<"qc", d.id>>>> : d \in group}
            \cup {<<<<"voltage", c.reg>>, <<"qc", d.id>>>> : d \in {x \in group : x.id[1] \in Svcs}}
            \cup UNION {of(d) : d \in group \ {Lead(c.reg)}}
    BY <1>5 DEF GroupEntries
  <2>3. c \in Sharing => c \in group \ {Lead(c.reg)}
    BY DEF Sharing
  <2>4. <<<<"share", c.id>>, <<"qc", c.id>>>> \in of(c)
    OBVIOUS
  <2> HIDE DEF group, of
  <2>5. c.reg \in Freed /\ c.bus \in Freed
    BY DEF Placed
  <2>6. c \in Sharing => <<<<"share", c.id>>, <<"qc", c.id>>>> \in GroupEntries(seen, c.reg)
    BY <2>2, <2>3, <2>4
  <2>7. /\ <<<<"voltage", c.reg>>, <<"vm", c.reg>>>> \in GroupEntries(seen, c.reg)
        /\ <<<<"q", c.bus>>, <<"qc", c.id>>>> \in GroupEntries(seen, c.reg)
    BY <2>1, <2>2
  <2>8. /\ <<"voltage", c.reg>> \in Rows /\ <<"vm", c.reg>> \in Cols
        /\ <<"q", c.bus>> \in Rows /\ <<"qc", c.id>> \in Cols
        /\ c \in Sharing => <<"share", c.id>> \in Rows
    BY <2>5 DEF Rows, Cols
  <2> QED BY <1>4, <2>6, <2>7, <2>8
<1>7. \A r \in Regulated(seen) : GroupEntries(seen, r) \subseteq Joint
  OBVIOUS
<1> HIDE DEF seen
<1>8. PowerEntries(Current) \subseteq Joint /\ SlackEntries(Current) \subseteq Joint
  OBVIOUS
<1>9. Sharing \subseteq Groups
  BY DEF Sharing
<1> HIDE DEF Joint
<1>10. \A b \in SlackOf : <<<<"p", b>>, <<"absorbed", 0>>>> \in Entries
  BY <1>1, <1>3, <1>8
<1>11. \A c \in Groups : /\ <<<<"voltage", c.reg>>, <<"vm", c.reg>>>> \in Entries
                         /\ <<<<"q", c.bus>>, <<"qc", c.id>>>> \in Entries
  BY <1>1, <1>6, <1>7
<1>12. \A c \in Sharing : <<<<"share", c.id>>, <<"qc", c.id>>>> \in Entries
  BY <1>1, <1>6, <1>7, <1>9
<1> QED BY <1>1, <1>2, <1>8, <1>10, <1>11, <1>12

LEMMA NoneIsEmpty ==
    ASSUME Placed
    PROVE  Rows = {e[1] : e \in Entries} /\ Cols = {e[2] : e \in Entries}
<1>1. Entries \subseteq Rows \X Cols
  BY EntriesAre
<1>2. ASSUME NEW row \in Rows PROVE \E e \in Entries : e[1] = row
  <2>0. Sharing \subseteq Groups
    BY DEF Sharing
  <2>1. ASSUME NEW b \in Live, row = <<"p", b>> PROVE \E e \in Entries : e[1] = row
    <3>1. CASE b = Reference(Current)
      <4>1. <<<<"p", b>>, <<"absorbed", 0>>>> \in Entries
        BY <3>1, EntriesAre DEF Placed
      <4> QED BY <2>1, <4>1
    <3>2. CASE b # Reference(Current)
      <4>1. <<"p", b>> \in Rows /\ <<"theta", b>> \in Cols
        BY <3>2 DEF Rows, Cols
      <4>2. <<<<"p", b>>, <<"theta", b>>>> \in Entries
        BY <4>1, EntriesAre
      <4> QED BY <2>1, <4>2
    <3> QED BY <3>1, <3>2
  <2>2. ASSUME NEW b \in Freed, row = <<"q", b>> PROVE \E e \in Entries : e[1] = row
    <3>1. <<"q", b>> \in Rows /\ <<"vm", b>> \in Cols /\ b \in Live
      BY DEF Rows, Cols, Placed
    <3>2. <<<<"q", b>>, <<"vm", b>>>> \in Entries
      BY <3>1, EntriesAre
    <3> QED BY <2>2, <3>2
  <2>3. ASSUME NEW c \in Groups, row = <<"voltage", c.reg>> PROVE \E e \in Entries : e[1] = row
    <3>1. <<<<"voltage", c.reg>>, <<"vm", c.reg>>>> \in Entries
      BY EntriesAre
    <3> QED BY <2>3, <3>1
  <2>4. ASSUME NEW c \in Sharing, row = <<"share", c.id>> PROVE \E e \in Entries : e[1] = row
    <3>1. <<<<"share", c.id>>, <<"qc", c.id>>>> \in Entries
      BY EntriesAre
    <3> QED BY <2>4, <3>1
  <2> QED BY <2>1, <2>2, <2>3, <2>4, RowCases
<1>3. ASSUME NEW col \in Cols PROVE \E e \in Entries : e[2] = col
  <2>1. ASSUME NEW b \in Live \ {Reference(Current)}, col = <<"theta", b>> PROVE \E e \in Entries : e[2] = col
    <3>1. <<"p", b>> \in Rows /\ <<"theta", b>> \in Cols
      BY DEF Rows, Cols
    <3>2. <<<<"p", b>>, <<"theta", b>>>> \in Entries
      BY <3>1, EntriesAre
    <3> QED BY <2>1, <3>2
  <2>2. ASSUME NEW b \in Freed, col = <<"vm", b>> PROVE \E e \in Entries : e[2] = col
    <3>1. <<"q", b>> \in Rows /\ <<"vm", b>> \in Cols /\ b \in Live
      BY DEF Rows, Cols, Placed
    <3>2. <<<<"q", b>>, <<"vm", b>>>> \in Entries
      BY <3>1, EntriesAre
    <3> QED BY <2>2, <3>2
  <2>3. CASE col = <<"absorbed", 0>>
    <3>1. <<<<"p", Reference(Current)>>, <<"absorbed", 0>>>> \in Entries
      BY EntriesAre DEF Placed
    <3> QED BY <2>3, <3>1
  <2>4. ASSUME NEW c \in Groups, col = <<"qc", c.id>> PROVE \E e \in Entries : e[2] = col
    <3>1. <<<<"q", c.bus>>, <<"qc", c.id>>>> \in Entries
      BY EntriesAre
    <3> QED BY <2>4, <3>1
  <2>5. \/ \E b \in Live \ {Reference(Current)} : col = <<"theta", b>>
        \/ \E b \in Freed : col = <<"vm", b>>
        \/ col = <<"absorbed", 0>>
        \/ \E c \in Groups : col = <<"qc", c.id>>
    BY DEF Cols
  <2> QED BY <2>1, <2>2, <2>3, <2>4, <2>5
<1>4. \A e \in Entries : e[1] \in Rows /\ e[2] \in Cols
  BY <1>1
<1> QED BY <1>2, <1>3, <1>4

(* "n_rows_ == n_cols_" (NRLedger): the Jacobian of a powerflow that is    *)
(* accepted is square, claims nothing twice and has no empty row or        *)
(* column, whatever the groups, the droops and the slack buses.            *)
THEOREM JacobianIsWellPosed == AcSpec => []WellPosed
<1>1. AcInv => WellPosed
  <2>1. SUFFICES ASSUME AcInv, pc # "idle", NEW J \in nr.J PROVE Square(J) /\ NoneEmpty(J)
    BY DEF WellPosed
  <2>2. algo = "NR"
    BY <2>1 DEF AcInv, Shapes, KeptAlone, Nothing
  <2>3. J = Required /\ FreshAccepts /\ DevicesTypeOK
    BY <2>1, <2>2 DEF AcInv, Shapes, Solving, SolvingNr
  <2>4. Placed
    BY <2>2, <2>3, AcceptedIsPlaced
  <2>5. J.claims = Claims(Current, Pulled(Current)) /\ J.entries = Entries
    BY <2>3 DEF Required, Pattern, Entries
  <2>6. RowsOf(J.claims) = Rows /\ ColsOf(J.claims) = Cols
    BY <2>4, <2>5, RowsAndCols
  <2>7. \A x, y \in J.claims : x # y => x.rows \cap y.rows = {} /\ x.cols \cap y.cols = {}
    BY <2>3, <2>4, <2>5, ClaimedOnce
  <2> QED BY <2>3, <2>4, <2>5, <2>6, <2>7, AsManyEquations, NoneIsEmpty DEF Square, NoneEmpty
<1> QED BY <1>1, AcInvariant, PTL

-----------------------------------------------------------------------------
(* What is accepted is singular exactly when the controllers are choked.   *)

(* Counting: a part and the rest, two sets apart, an image, a label.       *)
LEMMA Parts ==
    ASSUME NEW S, IsFiniteSet(S), NEW T
    PROVE  /\ IsFiniteSet(S \cap T) /\ IsFiniteSet(S \ T)
           /\ Cardinality(S) \in Nat /\ Cardinality(S \cap T) \in Nat /\ Cardinality(S \ T) \in Nat
           /\ Cardinality(S) = Cardinality(S \cap T) + Cardinality(S \ T)
<1>1. IsFiniteSet(S \cap T) /\ IsFiniteSet(S \ T)
  BY FS_Difference, FS_Intersection
<1>2. Cardinality(S) \in Nat /\ Cardinality(S \cap T) \in Nat /\ Cardinality(S \ T) \in Nat
  BY <1>1, FS_CardinalityType
<1>3. Cardinality(S \ T) = Cardinality(S) - Cardinality(S \cap T)
  BY FS_Difference
<1> QED BY <1>1, <1>2, <1>3

LEMMA Within ==
    ASSUME NEW S, NEW T, IsFiniteSet(T), S \subseteq T
    PROVE  /\ IsFiniteSet(S) /\ Cardinality(S) \in Nat /\ Cardinality(T) \in Nat
           /\ Cardinality(S) <= Cardinality(T)
           /\ Cardinality(T) = Cardinality(S) + Cardinality(T \ S) /\ Cardinality(T \ S) \in Nat
<1>1. S = T \cap S /\ S \in SUBSET T
  OBVIOUS
<1> QED BY <1>1, Parts, FS_Subset

LEMMA Disjoint ==
    ASSUME NEW S, NEW T, IsFiniteSet(S), IsFiniteSet(T), S \cap T = {}
    PROVE  /\ IsFiniteSet(S \cup T)
           /\ Cardinality(S) \in Nat /\ Cardinality(T) \in Nat
           /\ Cardinality(S \cup T) = Cardinality(S) + Cardinality(T)
<1>1. Cardinality(S \cap T) = 0
  BY FS_EmptySet
<1>2. Cardinality(S) \in Nat /\ Cardinality(T) \in Nat
  BY FS_CardinalityType
<1>3. IsFiniteSet(S \cup T) /\ Cardinality(S \cup T) = Cardinality(S) + Cardinality(T) - Cardinality(S \cap T)
  BY FS_Union
<1> QED BY <1>1, <1>2, <1>3

LEMMA Together ==
    ASSUME NEW S, NEW T, IsFiniteSet(S), IsFiniteSet(T)
    PROVE  /\ IsFiniteSet(S \cup T)
           /\ Cardinality(S \cup T) \in Nat /\ Cardinality(S) \in Nat /\ Cardinality(T) \in Nat
           /\ Cardinality(S \cup T) <= Cardinality(S) + Cardinality(T)
<1>1. IsFiniteSet(S \cup T) /\ Cardinality(S \cup T) = Cardinality(S) + Cardinality(T) - Cardinality(S \cap T)
  BY FS_Union
<1>2. Cardinality(S) \in Nat /\ Cardinality(T) \in Nat /\ Cardinality(S \cap T) \in Nat /\ Cardinality(S \cup T) \in Nat
  BY <1>1, FS_CardinalityType, FS_Intersection
<1> QED BY <1>1, <1>2

LEMMA Labelled ==
    ASSUME NEW S, IsFiniteSet(S), NEW label
    PROVE  /\ IsFiniteSet({label} \X S) /\ Cardinality({label} \X S) = Cardinality(S)
           /\ Cardinality(S) \in Nat
<1>1. IsFiniteSet({label}) /\ Cardinality({label}) = 1
  BY FS_Singleton
<1>2. IsFiniteSet({label} \X S) /\ Cardinality({label} \X S) = Cardinality({label}) * Cardinality(S)
  BY <1>1, FS_Product
<1>3. Cardinality(S) \in Nat
  BY FS_CardinalityType
<1> QED BY <1>1, <1>2, <1>3

LEMMA OneToOne ==
    ASSUME NEW S, IsFiniteSet(S), NEW f, f \in [S -> {f[x] : x \in S}],
           \A x, y \in S : f[x] = f[y] => x = y
    PROVE  IsFiniteSet({f[x] : x \in S}) /\ Cardinality({f[x] : x \in S}) = Cardinality(S)
<1> DEFINE T == {f[x] : x \in S}
<1>1. \A t \in T : \E s \in S : f[s] = t
  OBVIOUS
<1> HIDE DEF T
<1>2. f \in Bijection(S, T)
  BY <1>1, Fun_IsBij DEF T
<1>3. ExistsBijection(S, T)
  BY <1>2 DEF ExistsBijection
<1>4. IsFiniteSet(T) /\ Cardinality(T) = Cardinality(S)
  BY <1>3, FS_Bijection
<1> QED BY <1>4 DEF T

(* Hall's condition fails for a set of columns exactly when some rows use  *)
(* fewer columns than they are.                                            *)
RowsThatUse(entries, C) == {e[1] : e \in {x \in entries : x[2] \in C}}

LEMMA HallByRows ==
    ASSUME NEW rows, NEW cols, NEW entries, entries \subseteq rows \X cols,
           IsFiniteSet(rows), IsFiniteSet(cols), Cardinality(rows) = Cardinality(cols)
    PROVE  (\A C \in SUBSET cols : Cardinality(RowsThatUse(entries, C)) >= Cardinality(C))
           <=> (\A R \in SUBSET rows, D \in SUBSET cols :
                    (\A e \in entries : e[1] \in R => e[2] \in D) => Cardinality(R) <= Cardinality(D))
<1> DEFINE Met(C) == RowsThatUse(entries, C)
<1>1. \A e \in entries : e[1] \in rows /\ e[2] \in cols
  OBVIOUS
<1>2. \A C : Met(C) \subseteq rows
  BY <1>1 DEF RowsThatUse
<1>3. ASSUME \A C \in SUBSET cols : Cardinality(Met(C)) >= Cardinality(C),
             NEW R \in SUBSET rows, NEW D \in SUBSET cols,
             \A e \in entries : e[1] \in R => e[2] \in D
      PROVE  Cardinality(R) <= Cardinality(D)
  <2>1. Met(cols \ D) \subseteq rows \ R
    BY <1>1, <1>3 DEF RowsThatUse
  <2>2. Cardinality(Met(cols \ D)) >= Cardinality(cols \ D)
    BY <1>3
  <2> HIDE DEF Met
  <2>3. /\ Cardinality(R) \in Nat /\ Cardinality(D) \in Nat
        /\ Cardinality(rows \ R) \in Nat /\ Cardinality(cols \ D) \in Nat
        /\ Cardinality(rows) = Cardinality(R) + Cardinality(rows \ R)
        /\ Cardinality(cols) = Cardinality(D) + Cardinality(cols \ D)
    BY Within
  <2>4. IsFiniteSet(rows \ R)
    BY Parts
  <2>5. Cardinality(Met(cols \ D)) \in Nat /\ Cardinality(Met(cols \ D)) <= Cardinality(rows \ R)
    BY <2>1, <2>4, Within
  <2>6. Cardinality(cols \ D) <= Cardinality(rows \ R)
    BY <2>2, <2>3, <2>5
  <2>7. Cardinality(R) + Cardinality(rows \ R) = Cardinality(D) + Cardinality(cols \ D)
    BY <2>3
  <2> QED BY <2>3, <2>6, <2>7
<1>4. ASSUME \A R \in SUBSET rows, D \in SUBSET cols :
                 (\A e \in entries : e[1] \in R => e[2] \in D) => Cardinality(R) <= Cardinality(D),
             NEW C \in SUBSET cols
      PROVE  Cardinality(Met(C)) >= Cardinality(C)
  <2>1. \A e \in entries : e[1] \in rows \ Met(C) => e[2] \in cols \ C
    BY <1>1 DEF RowsThatUse
  <2>2. Met(C) \subseteq rows
    BY <1>2
  <2> HIDE DEF Met
  <2>3. rows \ Met(C) \in SUBSET rows /\ cols \ C \in SUBSET cols
    OBVIOUS
  <2>4. Cardinality(rows \ Met(C)) <= Cardinality(cols \ C)
    BY <1>4, <2>1, <2>3
  <2>5. /\ Cardinality(Met(C)) \in Nat /\ Cardinality(C) \in Nat
        /\ Cardinality(rows \ Met(C)) \in Nat /\ Cardinality(cols \ C) \in Nat
        /\ Cardinality(rows) = Cardinality(Met(C)) + Cardinality(rows \ Met(C))
        /\ Cardinality(cols) = Cardinality(C) + Cardinality(cols \ C)
    BY <2>2, Within
  <2>6. Cardinality(Met(C)) + Cardinality(rows \ Met(C)) = Cardinality(C) + Cardinality(cols \ C)
    BY <2>5
  <2> QED BY <2>4, <2>5, <2>6
<1> QED BY <1>3, <1>4

(* Which entries there are: the equations of the network are about its     *)
(* unknowns and the reactive powers injected there, the others about the   *)
(* groups.                                                                 *)
LEMMA EntryCases ==
    ASSUME Placed, NEW e \in Entries
    PROVE  /\ e[1] \in Rows /\ e[2] \in Cols
           /\ \/ e[1][1] \in {"p", "q"} /\ e[2][1] \in {"theta", "vm", "absorbed"}
              \/ \E c \in Groups : e[1] = <<"q", c.bus>> /\ e[2] = <<"qc", c.id>>
              \/ \E c \in Groups : e[1] = <<"voltage", c.reg>> /\ e[2] = <<"vm", c.reg>>
              \/ \E c \in Groups : c.id[1] \in Svcs /\ e[1] = <<"voltage", c.reg>> /\ e[2] = <<"qc", c.id>>
              \/ \E c \in Sharing : e[1] = <<"share", c.id>> /\ e[2] \in {<<"qc", c.id>>, <<"qc", Lead(c.reg).id>>}
<1> DEFINE seen == Pulled(Current)
           OfGroups == UNION {GroupEntries(seen, r) : r \in Regulated(seen)}
           Network == e[1][1] \in {"p", "q"} /\ e[2][1] \in {"theta", "vm", "absorbed"}
<1>1. Entries = (Rows \X Cols)
                \cap (PowerEntries(Current) \cup SlackEntries(Current) \cup DroopEntries(seen) \cup OfGroups)
  BY RowsAndCols DEF Entries, Pattern
<1>2. CASE e \in PowerEntries(Current)
  <2>1. PICK j \in Joined(Current) : e \in {<<"p", j[1]>>, <<"q", j[1]>>} \X {<<"theta", j[2]>>, <<"vm", j[2]>>}
    BY <1>2 DEF PowerEntries
  <2>2. Network
    BY <2>1
  <2> QED BY <1>1, <2>2
<1>3. CASE e \in SlackEntries(Current)
  <2>1. Network
    BY <1>3 DEF SlackEntries
  <2> QED BY <1>1, <2>1
<1>4. CASE e \in DroopEntries(seen)
  <2>1. PICK d \in seen.droops : e \in {<<"p", d.bus[1]>>, <<"p", d.bus[2]>>} \X {<<"theta", d.bus[1]>>, <<"theta", d.bus[2]>>}
    BY <1>4 DEF DroopEntries
  <2>2. Network
    BY <2>1
  <2> QED BY <1>1, <2>2
<1>5. CASE e \in OfGroups
  <2>1. PICK r \in Regulated(seen) : e \in GroupEntries(seen, r)
    BY <1>5
  <2> DEFINE group == {d \in Groups : d.reg = r}
             of(d) == {<<"share", d.id>>} \X {<<"qc", d.id>>, <<"qc", Lead(r).id>>}
  <2>2. GroupOf(seen, r) = group /\ First(GroupOf(seen, r)) = Lead(r)
    BY ClaimsAre DEF GroupOf, Lead
  <2>3. \E c \in Groups : c.reg = r
    BY ClaimsAre
  <2>4. GroupEntries(seen, r) = {<<<<"voltage", r>>, <<"vm", r>>>>}
            \cup {<<<<"q", d.bus>>, <<"qc", d.id>>>> : d \in group}
            \cup {<<<<"voltage", r>>, <<"qc", d.id>>>> : d \in {x \in group : x.id[1] \in Svcs}}
            \cup UNION {of(d) : d \in group \ {Lead(r)}}
    BY <2>2 DEF GroupEntries
  <2>5. CASE e = <<<<"voltage", r>>, <<"vm", r>>>>
    BY <1>1, <2>3, <2>5
  <2>6. CASE \E c \in group : e = <<<<"q", c.bus>>, <<"qc", c.id>>>>
    BY <1>1, <2>6
  <2>7. CASE \E c \in group : c.id[1] \in Svcs /\ e = <<<<"voltage", r>>, <<"qc", c.id>>>>
    BY <1>1, <2>7
  <2>8. CASE \E c \in group \ {Lead(r)} : e \in of(c)
    <3>1. PICK c \in group \ {Lead(r)} : e \in of(c)
      BY <2>8
    <3>2. c \in Sharing /\ c.reg = r
      BY <3>1 DEF Sharing
    <3> QED BY <1>1, <3>1, <3>2
  <2> HIDE DEF of, group
  <2>9. \/ e = <<<<"voltage", r>>, <<"vm", r>>>>
        \/ \E c \in group : e = <<<<"q", c.bus>>, <<"qc", c.id>>>>
        \/ \E c \in group : c.id[1] \in Svcs /\ e = <<<<"voltage", r>>, <<"qc", c.id>>>>
        \/ \E c \in group \ {Lead(r)} : e \in of(c)
    BY <2>1, <2>4
  <2> QED BY <2>5, <2>6, <2>7, <2>8, <2>9
<1> HIDE DEF OfGroups
<1> QED BY <1>1, <1>2, <1>3, <1>4, <1>5

(* Entries of the groups that EntriesAre leaves out.                       *)
LEMMA GroupsEnter ==
    ASSUME Placed, NEW c \in Groups
    PROVE  /\ c.id[1] \in Svcs => <<<<"voltage", c.reg>>, <<"qc", c.id>>>> \in Entries
           /\ c \in Sharing => <<<<"share", c.id>>, <<"qc", Lead(c.reg).id>>>> \in Entries
<1> DEFINE seen == Pulled(Current)
           r == c.reg
           group == {d \in Groups : d.reg = r}
           of(d) == {<<"share", d.id>>} \X {<<"qc", d.id>>, <<"qc", Lead(r).id>>}
           OfGroups == UNION {GroupEntries(seen, x) : x \in Regulated(seen)}
<1>1. Entries = (Rows \X Cols)
                \cap (PowerEntries(Current) \cup SlackEntries(Current) \cup DroopEntries(seen) \cup OfGroups)
  BY RowsAndCols DEF Entries, Pattern
<1>2. GroupOf(seen, r) = group /\ First(GroupOf(seen, r)) = Lead(r) /\ r \in Regulated(seen)
  BY ClaimsAre DEF GroupOf, Lead
<1>3. GroupEntries(seen, r) = {<<<<"voltage", r>>, <<"vm", r>>>>}
            \cup {<<<<"q", d.bus>>, <<"qc", d.id>>>> : d \in group}
            \cup {<<<<"voltage", r>>, <<"qc", d.id>>>> : d \in {x \in group : x.id[1] \in Svcs}}
            \cup UNION {of(d) : d \in group \ {Lead(r)}}
  BY <1>2 DEF GroupEntries
<1>4. c.id[1] \in Svcs => <<<<"voltage", r>>, <<"qc", c.id>>>> \in GroupEntries(seen, r)
  BY <1>3
<1>5. c \in Sharing => <<<<"share", c.id>>, <<"qc", Lead(r).id>>>> \in GroupEntries(seen, r)
  <2> SUFFICES ASSUME c \in Sharing PROVE <<<<"share", c.id>>, <<"qc", Lead(r).id>>>> \in GroupEntries(seen, r)
    OBVIOUS
  <2>1. c \in group \ {Lead(r)}
    BY DEF Sharing
  <2>2. <<<<"share", c.id>>, <<"qc", Lead(r).id>>>> \in of(c)
    OBVIOUS
  <2> HIDE DEF of, group, r
  <2> QED BY <1>3, <2>1, <2>2
<1>6. GroupEntries(seen, r) \subseteq OfGroups
  BY <1>2
<1>7. /\ <<"voltage", r>> \in Rows /\ <<"qc", c.id>> \in Cols /\ <<"qc", Lead(r).id>> \in Cols
      /\ c \in Sharing => <<"share", c.id>> \in Rows
  BY LeadLeads DEF Rows, Cols
<1> HIDE DEF OfGroups
<1> QED BY <1>1, <1>4, <1>5, <1>6, <1>7

(* The unknowns of the network, each with its balance equation.            *)
Net == {"theta"} \X (Live \ {Reference(Current)}) \cup {"vm"} \X Freed \cup {<<"absorbed", 0>>}
Balances == {"p"} \X Live \cup {"q"} \X Freed
BalanceOf(u) == Balance(Current, u)

LEMMA NetCases ==
    ASSUME NEW u \in Net
    PROVE  \/ \E b \in Live \ {Reference(Current)} : u = <<"theta", b>> /\ BalanceOf(u) = <<"p", b>>
           \/ \E b \in Freed : u = <<"vm", b>> /\ BalanceOf(u) = <<"q", b>>
           \/ u = <<"absorbed", 0>> /\ BalanceOf(u) = <<"p", Reference(Current)>>
<1>1. \A b : /\ BalanceOf(<<"theta", b>>) = <<"p", b>>
             /\ BalanceOf(<<"vm", b>>) = <<"q", b>>
             /\ BalanceOf(<<"absorbed", b>>) = <<"p", Reference(Current)>>
  BY DEF BalanceOf, Balance
<1> HIDE DEF BalanceOf
<1> QED BY <1>1 DEF Net

LEMMA NetIs ==
    ASSUME Placed
    PROVE  /\ Unknowns(Required) = Net /\ Net \subseteq Cols /\ Balances \subseteq Rows
           /\ \A b \in Freed : <<"vm", b>> \in Net /\ BalanceOf(<<"vm", b>>) = <<"q", b>>
           /\ \A u \in Net : BalanceOf(u) \in Balances /\ <<BalanceOf(u), u>> \in Entries
           /\ \A u, v \in Net : BalanceOf(u) = BalanceOf(v) => u = v
           /\ \A row \in Balances : \E u \in Net : BalanceOf(u) = row
<1> DEFINE ref == Reference(Current)
<1>0. ref \in SlackOf /\ ref \in Live /\ Freed \subseteq Live
  BY DEF Placed
<1>1. Unknowns(Required) = {u \in Cols : u[1] # "qc"}
  BY RowsAndCols DEF Unknowns, Required, Pattern
<1>2. Unknowns(Required) = Net
  BY <1>1 DEF Net, Cols
<1>3. Net \subseteq Cols /\ Balances \subseteq Rows
  BY DEF Net, Cols, Balances, Rows
<1>4. \A b \in Freed : <<"vm", b>> \in Net /\ BalanceOf(<<"vm", b>>) = <<"q", b>>
  BY DEF Net, BalanceOf, Balance
<1>5. ASSUME NEW u \in Net PROVE BalanceOf(u) \in Balances /\ <<BalanceOf(u), u>> \in Entries
  <2>1. ASSUME NEW b \in Live \ {ref}, u = <<"theta", b>>, BalanceOf(u) = <<"p", b>>
        PROVE  BalanceOf(u) \in Balances /\ <<BalanceOf(u), u>> \in Entries
    <3>1. <<"p", b>> \in Rows /\ <<"theta", b>> \in Cols /\ <<"p", b>> \in Balances
      BY DEF Rows, Cols, Balances
    <3> QED BY <2>1, <3>1, EntriesAre
  <2>2. ASSUME NEW b \in Freed, u = <<"vm", b>>, BalanceOf(u) = <<"q", b>>
        PROVE  BalanceOf(u) \in Balances /\ <<BalanceOf(u), u>> \in Entries
    <3>1. <<"q", b>> \in Rows /\ <<"vm", b>> \in Cols /\ <<"q", b>> \in Balances /\ b \in Live
      BY <1>0 DEF Rows, Cols, Balances
    <3> QED BY <2>2, <3>1, EntriesAre
  <2>3. ASSUME u = <<"absorbed", 0>>, BalanceOf(u) = <<"p", ref>>
        PROVE  BalanceOf(u) \in Balances /\ <<BalanceOf(u), u>> \in Entries
    BY <1>0, <2>3, EntriesAre DEF Balances
  <2> QED BY <2>1, <2>2, <2>3, NetCases
<1>6. ASSUME NEW u \in Net, NEW v \in Net, BalanceOf(u) = BalanceOf(v) PROVE u = v
  <2> DEFINE Is(w) == \/ \E b \in Live \ {ref} : w = <<"theta", b>> /\ BalanceOf(w) = <<"p", b>>
                      \/ \E b \in Freed : w = <<"vm", b>> /\ BalanceOf(w) = <<"q", b>>
                      \/ w = <<"absorbed", 0>> /\ BalanceOf(w) = <<"p", ref>>
  <2>1. Is(u) /\ Is(v)
    BY NetCases
  <2> QED BY <1>6, <2>1
<1>7. ASSUME NEW row \in Balances PROVE \E u \in Net : BalanceOf(u) = row
  <2>1. CASE row = <<"p", ref>>
    <3>1. <<"absorbed", 0>> \in Net /\ BalanceOf(<<"absorbed", 0>>) = <<"p", ref>>
      BY DEF Net, BalanceOf, Balance
    <3> QED BY <2>1, <3>1
  <2>2. ASSUME NEW b \in Live \ {ref}, row = <<"p", b>> PROVE \E u \in Net : BalanceOf(u) = row
    <3>1. <<"theta", b>> \in Net /\ BalanceOf(<<"theta", b>>) = <<"p", b>>
      BY DEF Net, BalanceOf, Balance
    <3> QED BY <2>2, <3>1
  <2>3. ASSUME NEW b \in Freed, row = <<"q", b>> PROVE \E u \in Net : BalanceOf(u) = row
    BY <1>4, <2>3
  <2>4. \/ row = <<"p", ref>>
        \/ \E b \in Live \ {ref} : row = <<"p", b>>
        \/ \E b \in Freed : row = <<"q", b>>
    BY <1>7 DEF Balances
  <2> QED BY <2>1, <2>2, <2>3, <2>4
<1> QED BY <1>2, <1>3, <1>4, <1>5, <1>6, <1>7

(* A balance equation is about the network, and the reactive powers of the *)
(* controllers at its bus.                                                 *)
LEMMA BalanceMeets ==
    ASSUME Placed, NEW u \in Net, NEW v \in Cols, <<BalanceOf(u), v>> \in Entries
    PROVE  v \in Net \/ \E c \in Groups : u = <<"vm", c.bus>> /\ v = <<"qc", c.id>>
<1> DEFINE e == <<BalanceOf(u), v>>
<1>1. e \in Entries /\ e[1] = BalanceOf(u) /\ e[2] = v
  OBVIOUS
<1>2. BalanceOf(u) \in Balances
  BY NetIs
<1>3. BalanceOf(u)[1] \in {"p", "q"}
  BY <1>2 DEF Balances
<1> HIDE DEF e
<1>4. CASE v[1] \in {"theta", "vm", "absorbed"}
  BY <1>4 DEF Net, Cols
<1>5. ASSUME NEW c \in Groups, BalanceOf(u) = <<"q", c.bus>>, v = <<"qc", c.id>> PROVE u = <<"vm", c.bus>>
  <2>1. c.bus \in Freed
    BY DEF Placed
  <2>2. <<"vm", c.bus>> \in Net /\ BalanceOf(<<"vm", c.bus>>) = BalanceOf(u)
    BY <1>5, <2>1, NetIs
  <2> QED BY <2>2, NetIs
<1>6. \/ v[1] \in {"theta", "vm", "absorbed"}
      \/ \E c \in Groups : BalanceOf(u) = <<"q", c.bus>> /\ v = <<"qc", c.id>>
  BY <1>1, <1>3, EntryCases
<1> QED BY <1>4, <1>5, <1>6

(* What is reached from some part of the network, who is shut in, who      *)
(* answers.                                                                *)
Told == {c.reg : c \in Groups}
Reached(inner) == Reach(Required, Current, inner)
Shut(inner)    == ShutIn(Required, Current, Pulled(Current), inner)
Answer(inner)  == Answering(Required, Current, Pulled(Current), inner)

LEMMA SightIs ==
    ASSUME Placed, NEW inner \in SUBSET Net
    PROVE  /\ Reached(inner) = {u \in Net : \E v \in inner : <<BalanceOf(v), u>> \in Entries}
           /\ inner \subseteq Reached(inner) /\ Reached(inner) \subseteq Net
           /\ Shut(inner) = {r \in Told : <<"vm", r>> \in Reached(inner)}
           /\ Answer(inner) \subseteq Told
           /\ \A c \in Groups : <<"vm", c.bus>> \in inner => c.reg \in Answer(inner)
           /\ \A c \in Groups : c.id[1] \in Svcs /\ c.reg \in Shut(inner) => c.reg \in Answer(inner)
           /\ \A r \in Answer(inner) :
                  \E c \in Groups : c.reg = r /\ (<<"vm", c.bus>> \in inner \/ (c.id[1] \in Svcs /\ r \in Shut(inner)))
<1>1. Required.entries = Entries
  BY DEF Required, Entries
<1>2. Unknowns(Required) = Net /\ \A u \in Net : <<BalanceOf(u), u>> \in Entries
  BY NetIs
<1>3. Pulled(Current).groups = Groups /\ Regulated(Pulled(Current)) = Told
  BY ClaimsAre DEF Told
<1>4. Reached(inner) = {u \in Net : \E v \in inner : <<BalanceOf(v), u>> \in Entries}
  BY <1>1, <1>2 DEF Reached, Reach, BalanceOf
<1>5. inner \subseteq Reached(inner) /\ Reached(inner) \subseteq Net
  BY <1>2, <1>4
<1>6. Shut(inner) = {r \in Told : <<"vm", r>> \in Reached(inner)}
  BY <1>3 DEF Shut, ShutIn, Reached
<1>7. Answer(inner) = {c.reg : c \in {d \in Groups : \/ <<"vm", d.bus>> \in inner
                                                     \/ d.id[1] \in Svcs /\ d.reg \in Shut(inner)}}
  BY <1>3 DEF Answer, Answering, Shut
<1> QED BY <1>4, <1>5, <1>6, <1>7 DEF Told

Ids(X) == {c.id : c \in X}

LEMMA GroupsFinite ==
    ASSUME DevicesTypeOK
    PROVE  /\ IsFiniteSet(Groups) /\ IsFiniteSet(Told)
           /\ \A X \in SUBSET Groups : IsFiniteSet(X) /\ IsFiniteSet(Ids(X)) /\ Cardinality(Ids(X)) = Cardinality(X)
<1>1. IsFiniteSet(Names) /\ IsFiniteSet({0, 1, 2})
  <2>1. IsFiniteSet({0} \cup {1} \cup {2})
    BY FS_Singleton, FS_Union
  <2>2. {0} \cup {1} \cup {2} = {0, 1, 2}
    OBVIOUS
  <2> QED BY <2>1, <2>2, DevicesAssumption DEF Names
<1>2. IsFiniteSet(Names \X {0, 1, 2})
  BY <1>1, FS_Product
<1>3. /\ \A c \in Groups : c.id \in Names \X {0, 1, 2}
      /\ \A c, d \in Groups : c.id = d.id => c = d
  BY NamesTell
<1>4. IsFiniteSet(Groups)
  <2> DEFINE f == [c \in Groups |-> c.id]
             ids == Names \X {0, 1, 2}
  <2>1. f \in [Groups -> ids] /\ \A c, d \in Groups : f[c] = f[d] => c = d
    BY <1>3
  <2>2. IsFiniteSet(ids)
    BY <1>2
  <2> HIDE DEF f, ids
  <2>3. f \in Injection(Groups, ids)
    BY <2>1, Fun_IsInj
  <2> QED BY <2>2, <2>3, FS_Injection
<1>5. IsFiniteSet(Told)
  <2> DEFINE f == [c \in Groups |-> c.reg]
  <2>1. f \in [Groups -> Told] /\ \A r \in Told : \E c \in Groups : f[c] = r
    BY DEF Told
  <2> HIDE DEF f
  <2>2. f \in Surjection(Groups, Told)
    BY <2>1, Fun_IsSurj
  <2> QED BY <1>4, <2>2, FS_Surjection
<1>6. ASSUME NEW X \in SUBSET Groups
      PROVE  IsFiniteSet(X) /\ IsFiniteSet(Ids(X)) /\ Cardinality(Ids(X)) = Cardinality(X)
  <2> DEFINE f == [c \in X |-> c.id]
  <2>1. IsFiniteSet(X)
    BY <1>4, FS_Subset
  <2>2. {f[x] : x \in X} = Ids(X)
    BY DEF Ids
  <2>3. f \in [X -> {f[x] : x \in X}] /\ \A x, y \in X : f[x] = f[y] => x = y
    BY <1>3
  <2> HIDE DEF f
  <2> QED BY <2>1, <2>2, <2>3, OneToOne
<1> QED BY <1>4, <1>5, <1>6

(* A group has one controller that shares with no other.                   *)
LEMMA LeadsCount ==
    ASSUME DevicesTypeOK, NEW A \in SUBSET Told
    PROVE  LET X == {c \in Groups : c.reg \in A}
           IN Cardinality(X) = Cardinality(X \cap Sharing) + Cardinality(A)
<1> DEFINE X == {c \in Groups : c.reg \in A}
           f == [r \in A |-> Lead(r)]
<1>1. \A r \in A : Lead(r) \in Groups /\ Lead(r).reg = r
  BY LeadLeads DEF Told
<1>2. X \ Sharing = {f[r] : r \in A}
  <2>1. ASSUME NEW c \in X \ Sharing PROVE c.reg \in A /\ f[c.reg] = c
    BY DEF Sharing
  <2>2. ASSUME NEW r \in A PROVE f[r] \in X \ Sharing
    BY <1>1 DEF Sharing
  <2> HIDE DEF X, f
  <2> QED BY <2>1, <2>2
<1>3. f \in [A -> {f[r] : r \in A}] /\ \A x, y \in A : f[x] = f[y] => x = y
  BY <1>1
<1>4. IsFiniteSet(A) /\ IsFiniteSet(X)
  BY GroupsFinite, FS_Subset
<1> HIDE DEF f, X
<1>5. Cardinality(X \ Sharing) = Cardinality(A)
  BY <1>2, <1>3, <1>4, OneToOne
<1>6. Cardinality(X) = Cardinality(X \cap Sharing) + Cardinality(X \ Sharing)
  BY <1>4, Parts
<1>7. Cardinality(X) = Cardinality(X \cap Sharing) + Cardinality(A)
  BY <1>5, <1>6
<1> QED BY <1>7 DEF X

LEMMA NetFinite ==
    ASSUME DevicesTypeOK, Placed
    PROVE  IsFiniteSet(Cols) /\ IsFiniteSet(Net) /\ IsFiniteSet(Rows)
<1>1. ExistsBijection(Rows, Cols)
  BY PartnersPair DEF ExistsBijection
<1>2. IsFiniteSet(Rows) /\ IsFiniteSet(Cols)
  BY <1>1, RowsAreFinite, FS_Bijection
<1>3. Net \subseteq Cols
  BY NetIs
<1> QED BY <1>2, <1>3, FS_Subset

(* Choked: the equations of what is shut in use fewer unknowns than they   *)
(* are.                                                                    *)
LEMMA ChokedIsShort ==
    ASSUME DevicesTypeOK, Placed, NEW inner \in SUBSET Net,
           Cardinality(Shut(inner)) > Cardinality(Reached(inner) \ inner) + Cardinality(Answer(inner))
    PROVE  \E R \in SUBSET Rows, D \in SUBSET Cols :
               (\A e \in Entries : e[1] \in R => e[2] \in D) /\ Cardinality(R) > Cardinality(D)
<1> DEFINE A == Answer(inner)
           X == {c \in Groups : c.reg \in A}
           Y == X \cap Sharing
           B == {BalanceOf(u) : u \in inner}
           V == {"voltage"} \X Shut(inner)
           S == {"share"} \X Ids(Y)
           Q == {"qc"} \X Ids(X)
<1>1. /\ inner \subseteq Reached(inner) /\ Reached(inner) \subseteq Net
      /\ Shut(inner) = {r \in Told : <<"vm", r>> \in Reached(inner)} /\ A \subseteq Told
  BY SightIs
<1>2. /\ B \subseteq Balances /\ Balances \subseteq Rows /\ Net \subseteq Cols
      /\ \A u, v \in Net : BalanceOf(u) = BalanceOf(v) => u = v
  <2>1. \A u \in inner : BalanceOf(u) \in Balances
    BY NetIs
  <2> QED BY <2>1, NetIs
<1>3. V \subseteq Rows
  BY <1>1 DEF Rows, Told
<1>4. S \subseteq Rows /\ Q \subseteq Cols
  BY DEF Rows, Cols, Ids
<1>5. ASSUME NEW e \in Entries, e[1] \in B \cup V \cup S PROVE e[2] \in Reached(inner) \cup Q
  <2>0. e[1] \in Rows /\ e[2] \in Cols /\ e = <<e[1], e[2]>>
    BY EntriesAre
  <2>1. CASE e[1] \in B
    <3>1. PICK u \in inner : e[1] = BalanceOf(u)
      BY <2>1
    <3>2. e[2] \in Net \/ \E c \in Groups : u = <<"vm", c.bus>> /\ e[2] = <<"qc", c.id>>
      BY <2>0, <3>1, BalanceMeets
    <3>3. CASE e[2] \in Net
      BY <2>0, <3>1, <3>3, SightIs
    <3>4. ASSUME NEW c \in Groups, u = <<"vm", c.bus>>, e[2] = <<"qc", c.id>> PROVE e[2] \in Q
      <4>1. c.reg \in A
        BY <3>4, SightIs
      <4> QED BY <3>4, <4>1 DEF Ids
    <3> QED BY <3>2, <3>3, <3>4
  <2>2. CASE e[1] \in V
    <3>1. PICK r \in Shut(inner) : e[1] = <<"voltage", r>>
      BY <2>2
    <3>2. CASE e[2] = <<"vm", r>>
      BY <1>1, <3>2
    <3>3. ASSUME NEW c \in Groups, c.id[1] \in Svcs, c.reg = r, e[2] = <<"qc", c.id>> PROVE e[2] \in Q
      <4>1. c.reg \in A
        BY <3>3, SightIs
      <4> QED BY <3>3, <4>1 DEF Ids
    <3>4. e[2] = <<"vm", r>> \/ \E c \in Groups : c.id[1] \in Svcs /\ c.reg = r /\ e[2] = <<"qc", c.id>>
      BY <3>1, EntryCases
    <3> QED BY <3>2, <3>3, <3>4
  <2>3. CASE e[1] \in S
    <3>1. PICK c \in Y : e[1] = <<"share", c.id>>
      BY <2>3 DEF Ids
    <3>2. PICK d \in Sharing : e[1] = <<"share", d.id>> /\ e[2] \in {<<"qc", d.id>>, <<"qc", Lead(d.reg).id>>}
      BY <3>1, EntryCases
    <3>3. c \in Groups /\ d \in Groups /\ c.id = d.id
      BY <3>1, <3>2 DEF Sharing
    <3>4. c = d
      BY <3>3, NamesTell
    <3>5. c \in X /\ Lead(c.reg) \in X
      BY <3>1, LeadLeads
    <3> QED BY <3>2, <3>4, <3>5 DEF Ids
  <2> QED BY <1>5, <2>1, <2>2, <2>3
<1>6. IsFiniteSet(Net) /\ IsFiniteSet(Told) /\ IsFiniteSet(Groups)
  BY GroupsFinite, NetFinite
<1>7. IsFiniteSet(inner) /\ Cardinality(inner) \in Nat /\ IsFiniteSet(Reached(inner)) /\ IsFiniteSet(Shut(inner)) /\ IsFiniteSet(A)
  BY <1>1, <1>6, Within
<1>8. IsFiniteSet(B) /\ Cardinality(B) = Cardinality(inner)
  <2> DEFINE f == [u \in inner |-> BalanceOf(u)]
  <2>1. B = {f[u] : u \in inner} /\ f \in [inner -> {f[u] : u \in inner}]
    OBVIOUS
  <2>2. \A u, v \in inner : f[u] = f[v] => u = v
    BY <1>2
  <2> HIDE DEF f, B
  <2> QED BY <1>7, <2>1, <2>2, OneToOne
<1>9. IsFiniteSet(V) /\ Cardinality(V) = Cardinality(Shut(inner)) /\ Cardinality(Shut(inner)) \in Nat
  BY <1>7, Labelled
<1>10. /\ IsFiniteSet(S) /\ Cardinality(S) = Cardinality(Y) /\ Cardinality(Y) \in Nat
       /\ IsFiniteSet(Q) /\ Cardinality(Q) = Cardinality(X) /\ Cardinality(X) \in Nat
  <2>1. X \in SUBSET Groups /\ Y \in SUBSET Groups
    OBVIOUS
  <2> HIDE DEF X, Y
  <2>2. /\ IsFiniteSet(Ids(X)) /\ Cardinality(Ids(X)) = Cardinality(X)
        /\ IsFiniteSet(Ids(Y)) /\ Cardinality(Ids(Y)) = Cardinality(Y)
    BY <2>1, GroupsFinite
  <2> QED BY <2>2, Labelled
<1>11. Cardinality(X) = Cardinality(Y) + Cardinality(A) /\ Cardinality(A) \in Nat
  <2>1. Cardinality(A) \in Nat
    BY <1>7, FS_CardinalityType
  <2> HIDE DEF A
  <2> QED BY <1>1, <2>1, LeadsCount
<1>12. /\ Cardinality(Reached(inner)) = Cardinality(inner) + Cardinality(Reached(inner) \ inner)
       /\ Cardinality(Reached(inner) \ inner) \in Nat
  BY <1>1, <1>7, Within
<1>13. B \cap V = {} /\ (B \cup V) \cap S = {} /\ Reached(inner) \cap Q = {}
  <2>1. \A x \in B : x[1] \in {"p", "q"}
    BY <1>2 DEF Balances
  <2>2. \A x \in V : x[1] = "voltage"
    OBVIOUS
  <2>3. \A x \in S : x[1] = "share"
    OBVIOUS
  <2>4. \A x \in Q : x[1] = "qc"
    OBVIOUS
  <2>5. \A x \in Net : x[1] # "qc"
    BY DEF Net
  <2> HIDE DEF B, V, S, Q
  <2> QED BY <1>1, <2>1, <2>2, <2>3, <2>4, <2>5
<1>14. B \cup V \cup S \in SUBSET Rows /\ Reached(inner) \cup Q \in SUBSET Cols
  BY <1>1, <1>2, <1>3, <1>4
<1> HIDE DEF A, X, Y, B, V, S, Q
<1>15. Cardinality(B \cup V \cup S) = Cardinality(B) + Cardinality(V) + Cardinality(S)
  <2>1. IsFiniteSet(B \cup V) /\ Cardinality(B \cup V) = Cardinality(B) + Cardinality(V)
    BY <1>8, <1>9, <1>13, Disjoint
  <2>2. Cardinality((B \cup V) \cup S) = Cardinality(B \cup V) + Cardinality(S)
    BY <1>10, <1>13, <2>1, Disjoint
  <2> QED BY <2>1, <2>2
<1>16. Cardinality(Reached(inner) \cup Q) = Cardinality(Reached(inner)) + Cardinality(Q)
  BY <1>7, <1>10, <1>13, Disjoint
<1>17. Cardinality(Shut(inner)) > Cardinality(Reached(inner) \ inner) + Cardinality(A)
  BY DEF A
<1>18. Cardinality(B \cup V \cup S) = Cardinality(inner) + Cardinality(Shut(inner)) + Cardinality(Y)
  BY <1>8, <1>9, <1>10, <1>15
<1>19. Cardinality(Reached(inner) \cup Q)
       = Cardinality(inner) + Cardinality(Reached(inner) \ inner) + Cardinality(Y) + Cardinality(A)
  BY <1>7, <1>10, <1>11, <1>12, <1>16
<1>20. Cardinality(B \cup V \cup S) > Cardinality(Reached(inner) \cup Q)
  BY <1>7, <1>9, <1>10, <1>11, <1>12, <1>17, <1>18, <1>19
<1> QED BY <1>5, <1>14, <1>20

(* And conversely: equations that use fewer unknowns than they are leave,  *)
(* of the network, a part where the controllers are choked.                *)
LEMMA ShortIsChoked ==
    ASSUME DevicesTypeOK, Placed, NEW R \in SUBSET Rows, NEW D \in SUBSET Cols,
           \A e \in Entries : e[1] \in R => e[2] \in D,
           Cardinality(R) > Cardinality(D)
    PROVE  \E inner \in SUBSET Net :
               Cardinality(Shut(inner)) > Cardinality(Reached(inner) \ inner) + Cardinality(Answer(inner))
<1> DEFINE inner == {u \in Net : BalanceOf(u) \in R}
           W == {r \in Told : <<"voltage", r>> \in R}
           S == {c \in Sharing : <<"share", c.id>> \in R}
           Q == {c \in Groups : <<"qc", c.id>> \in D}
           T == {c.reg : c \in Q}
           V == D \cap Net
           Z == Shut(inner)
           A == Answer(inner)
<1>1. inner \in SUBSET Net
  OBVIOUS
<1>2. /\ Reached(inner) = {u \in Net : \E v \in inner : <<BalanceOf(v), u>> \in Entries}
      /\ inner \subseteq Reached(inner) /\ Reached(inner) \subseteq Net
      /\ Z = {r \in Told : <<"vm", r>> \in Reached(inner)}
      /\ A \subseteq Told
      /\ \A r \in A : \E c \in Groups : c.reg = r /\ (<<"vm", c.bus>> \in inner \/ (c.id[1] \in Svcs /\ r \in Z))
  BY <1>1, SightIs
<1>3. /\ Net \subseteq Cols /\ Balances \subseteq Rows
      /\ \A u \in Net : BalanceOf(u) \in Balances /\ <<BalanceOf(u), u>> \in Entries
      /\ \A b \in Freed : <<"vm", b>> \in Net /\ BalanceOf(<<"vm", b>>) = <<"q", b>>
      /\ \A u, v \in Net : BalanceOf(u) = BalanceOf(v) => u = v
      /\ \A row \in Balances : \E u \in Net : BalanceOf(u) = row
  BY NetIs
<1>4. Reached(inner) \subseteq V
  <2>1. ASSUME NEW u \in Net, NEW v \in inner, <<BalanceOf(v), u>> \in Entries PROVE u \in D
    <3>1. <<BalanceOf(v), u>>[1] \in R
      OBVIOUS
    <3> QED BY <2>1, <3>1
  <2> QED BY <1>2, <2>1
<1>5. ASSUME NEW r \in W PROVE r \in Told /\ <<"vm", r>> \in V
  <2>1. PICK c \in Groups : r = c.reg
    BY DEF Told
  <2>2. <<<<"voltage", r>>, <<"vm", r>>>> \in Entries
    BY <2>1, EntriesAre
  <2>3. r \in Freed
    BY <2>1 DEF Placed
  <2> QED BY <1>3, <2>2, <2>3
<1>6. ASSUME NEW r \in A, r \notin T PROVE r \in Z \ W
  <2>1. PICK c \in Groups : c.reg = r /\ (<<"vm", c.bus>> \in inner \/ (c.id[1] \in Svcs /\ r \in Z))
    BY <1>2
  <2>2. c \notin Q
    BY <1>6, <2>1
  <2>3. <<"vm", c.bus>> \notin inner
    <3>1. <<<<"q", c.bus>>, <<"qc", c.id>>>> \in Entries /\ c.bus \in Freed
      BY EntriesAre DEF Placed
    <3>2. BalanceOf(<<"vm", c.bus>>) = <<"q", c.bus>>
      BY <1>3, <3>1
    <3> QED BY <2>2, <3>1, <3>2
  <2>4. c.id[1] \in Svcs /\ r \in Z
    BY <2>1, <2>3
  <2>5. r \notin W
    <3>1. <<<<"voltage", r>>, <<"qc", c.id>>>> \in Entries
      BY <2>1, <2>4, GroupsEnter
    <3> QED BY <2>2, <3>1
  <2> QED BY <2>4, <2>5
<1>7. S \subseteq Q
  <2>1. ASSUME NEW c \in S PROVE c \in Q
    <3>1. c \in Groups
      BY DEF Sharing
    <3>2. <<<<"share", c.id>>, <<"qc", c.id>>>> \in Entries
      BY EntriesAre
    <3> QED BY <3>1, <3>2
  <2> QED BY <2>1
<1>8. \A r \in T : \E c \in Q \ S : c.reg = r
  <2>1. SUFFICES ASSUME NEW c \in Q, c \in S PROVE \E d \in Q \ S : d.reg = c.reg
    OBVIOUS
  <2>2. c \in Sharing /\ c \in Groups
    BY <2>1 DEF Sharing
  <2>3. <<<<"share", c.id>>, <<"qc", Lead(c.reg).id>>>> \in Entries
    BY <2>2, GroupsEnter
  <2>4. Lead(c.reg) \in Groups /\ Lead(c.reg).reg = c.reg
    BY <2>2, LeadLeads
  <2>5. Lead(c.reg) \in Q /\ Lead(c.reg) \notin Sharing
    BY <2>1, <2>3, <2>4 DEF Sharing
  <2> QED BY <2>4, <2>5
<1>9. /\ IsFiniteSet(Net) /\ IsFiniteSet(Told) /\ IsFiniteSet(Groups) /\ IsFiniteSet(Cols)
      /\ IsFiniteSet(Rows)
  BY GroupsFinite, NetFinite
<1>10. /\ inner \subseteq Net /\ W \subseteq Told /\ Z \subseteq Told /\ Q \subseteq Groups /\ S \subseteq Groups
       /\ T \subseteq Told /\ V \subseteq Net
  BY <1>2, <1>7 DEF Told
<1> DEFINE B == {BalanceOf(u) : u \in inner}
           P == B \cup ({"voltage"} \X W) \cup ({"share"} \X Ids(S))
<1>11. R \subseteq P
  <2>1. ASSUME NEW row \in R PROVE row \in P
    <3>1. CASE row \in Balances
      BY <1>3, <3>1
    <3>2. ASSUME NEW c \in Groups, row = <<"voltage", c.reg>> PROVE row \in P
      BY <3>2 DEF Told
    <3>3. ASSUME NEW c \in Sharing, row = <<"share", c.id>> PROVE row \in P
      <4>1. c \in S
        BY <3>3
      <4> QED BY <3>3, <4>1 DEF Ids
    <3>4. \/ row \in Balances
          \/ \E c \in Groups : row = <<"voltage", c.reg>>
          \/ \E c \in Sharing : row = <<"share", c.id>>
      BY RowCases DEF Balances
    <3> QED BY <3>1, <3>2, <3>3, <3>4
  <2> QED BY <2>1
<1>12. V \cup ({"qc"} \X Ids(Q)) \subseteq D /\ V \cap ({"qc"} \X Ids(Q)) = {}
  <2>1. \A x \in Net : x[1] # "qc"
    BY DEF Net
  <2>2. ASSUME NEW x \in {"qc"} \X Ids(Q) PROVE x \in D
    <3>1. PICK c \in Q : x = <<"qc", c.id>>
      BY DEF Ids
    <3> QED BY <3>1
  <2> QED BY <2>1, <2>2
<1>13. /\ {BalanceOf(u) : u \in inner} = {[u \in inner |-> BalanceOf(u)][x] : x \in inner}
       /\ \A x, y \in inner : [u \in inner |-> BalanceOf(u)][x] = [u \in inner |-> BalanceOf(u)][y] => x = y
  BY <1>3
<1>14. \A r \in W \ Z : <<"vm", r>> \in V \ Reached(inner)
  BY <1>2, <1>5
<1>15. A \subseteq T \cup (Z \ W)
  BY <1>6
<1> HIDE DEF inner, W, S, Q, T, V, Z, A
<1>16. /\ IsFiniteSet(inner) /\ IsFiniteSet(W) /\ IsFiniteSet(Z) /\ IsFiniteSet(Q) /\ IsFiniteSet(S)
       /\ IsFiniteSet(T) /\ IsFiniteSet(V) /\ IsFiniteSet(D) /\ IsFiniteSet(Reached(inner))
       /\ Cardinality(D) \in Nat /\ Cardinality(R) \in Nat
  BY <1>2, <1>9, <1>10, Within
<1>17. IsFiniteSet(B) /\ Cardinality(B) = Cardinality(inner) /\ Cardinality(inner) \in Nat
  <2> DEFINE f == [u \in inner |-> BalanceOf(u)]
  <2>1. f \in [inner -> {f[x] : x \in inner}]
    OBVIOUS
  <2>2. B = {f[x] : x \in inner} /\ \A x, y \in inner : f[x] = f[y] => x = y
    BY <1>13
  <2> HIDE DEF f, B
  <2> QED BY <1>16, <2>1, <2>2, OneToOne, FS_CardinalityType
<1>18. /\ IsFiniteSet({"voltage"} \X W) /\ Cardinality({"voltage"} \X W) = Cardinality(W)
       /\ Cardinality(W) \in Nat
  BY <1>16, Labelled
<1>19. /\ IsFiniteSet({"share"} \X Ids(S)) /\ Cardinality({"share"} \X Ids(S)) = Cardinality(S)
       /\ IsFiniteSet({"qc"} \X Ids(Q)) /\ Cardinality({"qc"} \X Ids(Q)) = Cardinality(Q)
       /\ Cardinality(S) \in Nat /\ Cardinality(Q) \in Nat
  <2>1. /\ IsFiniteSet(Ids(S)) /\ Cardinality(Ids(S)) = Cardinality(S)
        /\ IsFiniteSet(Ids(Q)) /\ Cardinality(Ids(Q)) = Cardinality(Q)
    BY <1>10, GroupsFinite
  <2> QED BY <2>1, Labelled
<1> HIDE DEF B
<1>20. /\ IsFiniteSet(P)
       /\ Cardinality(P) <= Cardinality(inner) + Cardinality(W) + Cardinality(S)
  <2>1. /\ IsFiniteSet(B \cup ({"voltage"} \X W)) /\ Cardinality(B \cup ({"voltage"} \X W)) \in Nat
        /\ Cardinality(B \cup ({"voltage"} \X W)) <= Cardinality(B) + Cardinality({"voltage"} \X W)
    BY <1>17, <1>18, Together
  <2>2. /\ IsFiniteSet(P) /\ Cardinality(P) \in Nat
        /\ Cardinality(P) <= Cardinality(B \cup ({"voltage"} \X W)) + Cardinality({"share"} \X Ids(S))
    BY <1>19, <2>1, Together
  <2> QED BY <1>17, <1>18, <1>19, <2>1, <2>2
<1> HIDE DEF P
<1>21. Cardinality(R) <= Cardinality(inner) + Cardinality(W) + Cardinality(S)
  <2>1. Cardinality(R) <= Cardinality(P) /\ Cardinality(P) \in Nat
    BY <1>11, <1>20, Within
  <2> QED BY <1>16, <1>17, <1>18, <1>19, <1>20, <2>1
<1>22. Cardinality(V) + Cardinality(Q) <= Cardinality(D) /\ Cardinality(V) \in Nat
  <2>1. Cardinality(V \cup ({"qc"} \X Ids(Q))) = Cardinality(V) + Cardinality({"qc"} \X Ids(Q)) /\ Cardinality(V) \in Nat
    BY <1>12, <1>16, <1>19, Disjoint
  <2>2. Cardinality(V \cup ({"qc"} \X Ids(Q))) <= Cardinality(D)
    BY <1>12, <1>16, Within
  <2> QED BY <1>19, <2>1, <2>2
<1>23. Cardinality(S) + Cardinality(T) <= Cardinality(Q) /\ Cardinality(T) \in Nat
  <2> DEFINE f == [c \in {d \in Q \ S : d.reg \in T} |-> c.reg]
             O == {d \in Q \ S : d.reg \in T}
  <2>1. f \in [O -> T] /\ \A r \in T : \E c \in O : f[c] = r
    BY <1>8
  <2>2. O \subseteq Q \ S
    OBVIOUS
  <2>3. IsFiniteSet(Q \ S)
    BY <1>16, Parts
  <2> HIDE DEF f, O
  <2>4. f \in Surjection(O, T)
    BY <2>1, Fun_IsSurj
  <2>5. IsFiniteSet(O) /\ Cardinality(O) <= Cardinality(Q \ S) /\ Cardinality(O) \in Nat
    BY <2>2, <2>3, Within
  <2>6. Cardinality(T) <= Cardinality(O) /\ Cardinality(T) \in Nat
    BY <1>16, <2>4, <2>5, FS_Surjection, FS_CardinalityType
  <2>7. Cardinality(Q) = Cardinality(S) + Cardinality(Q \ S) /\ Cardinality(Q \ S) \in Nat
    BY <1>7, <1>16, Within
  <2> QED BY <1>19, <2>5, <2>6, <2>7
<1>24. /\ Cardinality(W \ Z) <= Cardinality(V \ Reached(inner))
       /\ Cardinality(W \ Z) \in Nat /\ Cardinality(V \ Reached(inner)) \in Nat
  <2> DEFINE f == [r \in W \ Z |-> <<"vm", r>>]
             X == V \ Reached(inner)
  <2>1. f \in [W \ Z -> X] /\ \A x, y \in W \ Z : f[x] = f[y] => x = y
    BY <1>14
  <2>2. IsFiniteSet(X) /\ IsFiniteSet(W \ Z)
    BY <1>16, Parts
  <2> HIDE DEF f, X
  <2>3. f \in Injection(W \ Z, X)
    BY <2>1, Fun_IsInj
  <2>4. Cardinality(W \ Z) <= Cardinality(X) /\ Cardinality(W \ Z) \in Nat /\ Cardinality(X) \in Nat
    BY <2>2, <2>3, FS_Injection, FS_CardinalityType
  <2> QED BY <2>4 DEF X
<1>25. /\ Cardinality(V) = Cardinality(Reached(inner)) + Cardinality(V \ Reached(inner))
       /\ Cardinality(Reached(inner)) \in Nat
  BY <1>4, <1>16, Within
<1>26. /\ Cardinality(Reached(inner)) = Cardinality(inner) + Cardinality(Reached(inner) \ inner)
       /\ Cardinality(Reached(inner) \ inner) \in Nat
  BY <1>2, <1>16, Within
<1>27. /\ Cardinality(A) <= Cardinality(T) + Cardinality(Z \ W)
       /\ Cardinality(A) \in Nat /\ Cardinality(Z \ W) \in Nat
  <2>1. IsFiniteSet(Z \ W)
    BY <1>16, Parts
  <2>2. /\ IsFiniteSet(T \cup (Z \ W)) /\ Cardinality(T \cup (Z \ W)) \in Nat /\ Cardinality(Z \ W) \in Nat
        /\ Cardinality(T \cup (Z \ W)) <= Cardinality(T) + Cardinality(Z \ W)
    BY <1>16, <2>1, Together
  <2>3. Cardinality(A) <= Cardinality(T \cup (Z \ W)) /\ Cardinality(A) \in Nat
    BY <1>15, <2>2, Within
  <2> QED BY <1>23, <2>2, <2>3
<1>28. /\ Cardinality(W) = Cardinality(W \cap Z) + Cardinality(W \ Z)
       /\ Cardinality(Z) = Cardinality(W \cap Z) + Cardinality(Z \ W)
       /\ Cardinality(W \cap Z) \in Nat /\ Cardinality(Z) \in Nat
  <2>1. W \cap Z = Z \cap W
    OBVIOUS
  <2>2. /\ Cardinality(W) = Cardinality(W \cap Z) + Cardinality(W \ Z)
        /\ Cardinality(W \cap Z) \in Nat
    BY <1>16, Parts
  <2>3. Cardinality(Z) = Cardinality(Z \cap W) + Cardinality(Z \ W) /\ Cardinality(Z) \in Nat
    BY <1>16, Parts
  <2> QED BY <2>1, <2>2, <2>3
<1>29. Cardinality(V) + Cardinality(S) + Cardinality(T) < Cardinality(inner) + Cardinality(W) + Cardinality(S)
  BY <1>16, <1>17, <1>18, <1>19, <1>21, <1>22, <1>23
<1>30. Cardinality(V) + Cardinality(T) < Cardinality(inner) + Cardinality(W)
  BY <1>17, <1>18, <1>19, <1>22, <1>23, <1>29
<1>31. Cardinality(Reached(inner) \ inner) + Cardinality(V \ Reached(inner)) + Cardinality(T)
       < Cardinality(W \cap Z) + Cardinality(W \ Z)
  BY <1>17, <1>18, <1>22, <1>23, <1>24, <1>25, <1>26, <1>28, <1>30
<1>32. Cardinality(Reached(inner) \ inner) + Cardinality(T) < Cardinality(W \cap Z)
  BY <1>23, <1>24, <1>26, <1>28, <1>31
<1>33. Cardinality(Z) > Cardinality(Reached(inner) \ inner) + Cardinality(A)
  BY <1>23, <1>26, <1>27, <1>28, <1>32
<1> QED BY <1>1, <1>33 DEF Z, A

LEMMA ChokedOrRegular ==
    ASSUME DevicesTypeOK, Placed
    PROVE  Regular(Required) <=> ~Choked(Required, Current, Pulled(Current))
<1>1. /\ Required.entries = Entries /\ RowsOf(Required.claims) = Rows /\ ColsOf(Required.claims) = Cols
      /\ Unknowns(Required) = Net
  BY RowsAndCols, NetIs DEF Required, Pattern, Entries
<1>2. Choked(Required, Current, Pulled(Current)) <=>
          \E inner \in SUBSET Net :
              Cardinality(Shut(inner)) > Cardinality(Reached(inner) \ inner) + Cardinality(Answer(inner))
  BY <1>1 DEF Choked, Shut, Reached, Answer
<1>3. Regular(Required) <=>
          \A R \in SUBSET Rows, D \in SUBSET Cols :
              (\A e \in Entries : e[1] \in R => e[2] \in D) => Cardinality(R) <= Cardinality(D)
  <2>1. Entries \subseteq Rows \X Cols
    BY EntriesAre
  <2>2. IsFiniteSet(Rows) /\ IsFiniteSet(Cols) /\ Cardinality(Rows) = Cardinality(Cols)
    BY NetFinite, AsManyEquations
  <2>3. Regular(Required) <=> \A C \in SUBSET Cols : Cardinality(RowsThatUse(Entries, C)) >= Cardinality(C)
    BY <1>1 DEF Regular, RowsThatUse
  <2>4. (\A C \in SUBSET Cols : Cardinality(RowsThatUse(Entries, C)) >= Cardinality(C))
        <=> (\A R \in SUBSET Rows, D \in SUBSET Cols :
                 (\A e \in Entries : e[1] \in R => e[2] \in D) => Cardinality(R) <= Cardinality(D))
    BY ONLY <2>1, <2>2, HallByRows, Zenon
  <2> QED BY ONLY <2>3, <2>4, Zenon
<1>4. \A R \in SUBSET Rows, D \in SUBSET Cols : Cardinality(R) \in Nat /\ Cardinality(D) \in Nat
  BY NetFinite, Within
<1>5. ASSUME Choked(Required, Current, Pulled(Current)) PROVE ~Regular(Required)
  <2>1. PICK inner \in SUBSET Net :
            Cardinality(Shut(inner)) > Cardinality(Reached(inner) \ inner) + Cardinality(Answer(inner))
    BY <1>2, <1>5
  <2>2. PICK R \in SUBSET Rows, D \in SUBSET Cols :
            (\A e \in Entries : e[1] \in R => e[2] \in D) /\ Cardinality(R) > Cardinality(D)
    BY <2>1, ChokedIsShort
  <2>3. ~(Cardinality(R) <= Cardinality(D))
    BY <1>4, <2>2
  <2> QED BY <1>3, <2>2, <2>3
<1>6. ASSUME ~Regular(Required) PROVE Choked(Required, Current, Pulled(Current))
  <2>1. PICK R \in SUBSET Rows, D \in SUBSET Cols :
            (\A e \in Entries : e[1] \in R => e[2] \in D) /\ ~(Cardinality(R) <= Cardinality(D))
    BY <1>3, <1>6
  <2>2. Cardinality(R) > Cardinality(D)
    BY <1>4, <2>1
  <2> QED BY <1>2, <2>1, <2>2, ShortIsChoked
<1> QED BY <1>5, <1>6

LEMMA BegunOnRequired ==
    ASSUME AcInv, pc = "begun", NEW J \in nr.J
    PROVE  J = Required /\ prep = Current /\ DevicesTypeOK /\ Placed
<1>1. algo = "NR"
  BY DEF AcInv, Shapes, KeptAlone, Nothing
<1>2. J = Required /\ prep = Current /\ FreshAccepts /\ DevicesTypeOK
  BY <1>1 DEF AcInv, Shapes, Solving, SolvingNr
<1> QED BY <1>1, <1>2, AcceptedIsPlaced

(* What fill_voltage_control_solver_data accepts has a Jacobian that can   *)
(* be factorized exactly when no controllers are choked, whatever the grid *)
(* and what was changed on it.                                             *)
THEOREM SingularWhenChoked == AcSpec => []SingularIffChoked
<1>1. AcInv => SingularIffChoked
  <2>1. SUFFICES ASSUME AcInv, pc = "begun", NEW J \in nr.J
                 PROVE  Regular(J) <=> ~Choked(J, prep, Pulled(prep))
    BY DEF SingularIffChoked
  <2> QED BY <2>1, BegunOnRequired, ChokedOrRegular
<1> QED BY <1>1, AcInvariant, PTL

(* Where each regulated bus has one of its controllers on it, or is        *)
(* regulated by a compensator, wherever that is, the Jacobian can be       *)
(* factorized: the grid between the controllers does not matter.           *)
HeldLocally == \A r \in {c.reg : c \in Groups} :
                   \E c \in Groups : c.reg = r /\ (c.bus = r \/ c.id[1] \in Svcs)

THEOREM LocalControlIsRegular ==
    AcSpec => [](pc = "begun" /\ HeldLocally => \A J \in nr.J : Regular(J))
<1>1. ASSUME DevicesTypeOK, Placed, HeldLocally PROVE Regular(Required)
  <2>1. SUFFICES ASSUME NEW inner \in SUBSET Net
                 PROVE  ~(Cardinality(Shut(inner)) > Cardinality(Reached(inner) \ inner) + Cardinality(Answer(inner)))
    <3>1. Unknowns(Required) = Net
      BY <1>1, NetIs
    <3> QED BY <1>1, <3>1, ChokedOrRegular DEF Choked, Shut, Reached, Answer
  <2> DEFINE rim == Reached(inner) \ inner
             far == Shut(inner) \ Answer(inner)
  <2>2. /\ inner \subseteq Reached(inner) /\ Reached(inner) \subseteq Net
        /\ Shut(inner) = {r \in Told : <<"vm", r>> \in Reached(inner)}
        /\ Answer(inner) \subseteq Told
        /\ \A c \in Groups : <<"vm", c.bus>> \in inner => c.reg \in Answer(inner)
        /\ \A c \in Groups : c.id[1] \in Svcs /\ c.reg \in Shut(inner) => c.reg \in Answer(inner)
    BY <1>1, SightIs
  <2>3. ASSUME NEW r \in far PROVE <<"vm", r>> \in rim
    <3>1. PICK c \in Groups : c.reg = r /\ (c.bus = r \/ c.id[1] \in Svcs)
      BY <1>1, <2>2 DEF HeldLocally, Told
    <3> QED BY <2>2, <3>1
  <2>4. IsFiniteSet(Net) /\ IsFiniteSet(Told)
    BY <1>1, GroupsFinite, NetFinite
  <2>5. /\ IsFiniteSet(Reached(inner)) /\ IsFiniteSet(Shut(inner)) /\ IsFiniteSet(Answer(inner))
    BY <2>2, <2>4, Within
  <2>6. IsFiniteSet(rim) /\ IsFiniteSet(far)
    BY <2>5, Parts
  <2>7. Cardinality(far) <= Cardinality(rim) /\ Cardinality(far) \in Nat /\ Cardinality(rim) \in Nat
    <3> DEFINE f == [r \in far |-> <<"vm", r>>]
    <3>1. f \in [far -> rim] /\ \A x, y \in far : f[x] = f[y] => x = y
      BY <2>3
    <3> HIDE DEF f, far, rim
    <3>2. f \in Injection(far, rim)
      BY <3>1, Fun_IsInj
    <3> QED BY <2>6, <3>2, FS_Injection, FS_CardinalityType
  <2>8. /\ Cardinality(Shut(inner)) = Cardinality(Shut(inner) \cap Answer(inner)) + Cardinality(far)
        /\ Cardinality(Shut(inner) \cap Answer(inner)) \in Nat /\ Cardinality(Shut(inner)) \in Nat
    BY <2>5, Parts
  <2>9. Cardinality(Shut(inner) \cap Answer(inner)) <= Cardinality(Answer(inner)) /\ Cardinality(Answer(inner)) \in Nat
    BY <2>5, Within
  <2> HIDE DEF rim, far
  <2>10. ~(Cardinality(Shut(inner)) > Cardinality(rim) + Cardinality(Answer(inner)))
    BY <2>7, <2>8, <2>9
  <2> QED BY <2>10 DEF rim
<1>2. AcInv => (pc = "begun" /\ HeldLocally => \A J \in nr.J : Regular(J))
  BY <1>1, BegunOnRequired
<1> QED BY <1>2, AcInvariant, PTL

-----------------------------------------------------------------------------
(* The results balance.                                                    *)

(* The bags here are made of sets: the term of one kind for each element.  *)
LEMMA BagsOfSets ==
    ASSUME NEW A, NEW B, A \cap B = {}
    PROVE  /\ SetToBag(A) (+) SetToBag(B) = SetToBag(A \cup B)
           /\ SetToBag(A \cup B) (-) SetToBag(A) = SetToBag(B)
<1> DEFINE U == SetToBag(A \cup B)
           D == [e \in DOMAIN U |-> IF e \in DOMAIN SetToBag(A) THEN U[e] - SetToBag(A)[e] ELSE U[e]]
<1>1. /\ DOMAIN SetToBag(A) = A /\ DOMAIN SetToBag(B) = B /\ DOMAIN U = A \cup B
      /\ \A e \in A : SetToBag(A)[e] = 1
      /\ \A e \in B : SetToBag(B)[e] = 1
      /\ \A e \in A \cup B : U[e] = 1
  BY DEF SetToBag
<1>2. SetToBag(A) (+) SetToBag(B) = [e \in A \cup B |-> 1]
  <2>1. SetToBag(A) (+) SetToBag(B) = [e \in A \cup B |-> (IF e \in A THEN SetToBag(A)[e] ELSE 0)
                                                         + (IF e \in B THEN SetToBag(B)[e] ELSE 0)]
    BY <1>1 DEF (+)
  <2>2. \A e \in A \cup B : (IF e \in A THEN SetToBag(A)[e] ELSE 0)
                             + (IF e \in B THEN SetToBag(B)[e] ELSE 0) = 1
    BY <1>1
  <2> QED BY <2>1, <2>2
<1>3. \A e \in A \cup B : D[e] = IF e \in A THEN 0 ELSE 1
  BY <1>1
<1>4. {d \in DOMAIN D : D[d] > 0} = B
  BY <1>1, <1>3
<1>5. U (-) SetToBag(A) = [e \in {d \in DOMAIN D : D[d] > 0} |-> D[e]]
  BY DEF (-)
<1> HIDE DEF D
<1>6. U (-) SetToBag(A) = [e \in B |-> 1]
  BY <1>3, <1>4, <1>5
<1> QED BY <1>2, <1>6 DEF SetToBag

LEMMA NoTerms ==
    ASSUME NEW kind
    PROVE  Terms(kind, {}) = EmptyBag
<1>1. {kind} \X {} = {}
  OBVIOUS
<1> QED BY <1>1 DEF Terms, EmptyBag

(* Active power: what the network takes is a set of distinct terms.        *)
LEMMA ActivePowerBalances ==
    ASSUME NEW b \in Live, prep.weighted = Weighted
    PROVE  ReportedP(b) = NetworkP(b) \/ (b \in prep.weighted /\ DroopP(b) # EmptyBag)
<1> DEFINE F == {"set point"} \X At(b, prep.inj)
           S == {"slack"} \X {b}
<1>1. SlackTakers(b) = {} <=> b \notin Weighted
  BY DEF SlackTakers, Weighted
<1>2. CASE b \notin Weighted
  <2>1. {b} \cap prep.weighted = {}
    BY <1>2
  <2>2. NetworkP(b) = FixedP(b) (+) DroopP(b) (+) EmptyBag
    BY <2>1, NoTerms DEF NetworkP
  <2> QED BY <1>1, <1>2, <2>2 DEF ReportedP
<1>3. CASE b \in Weighted /\ DroopP(b) = EmptyBag
  <2>1. {b} \cap prep.weighted = {b}
    BY <1>3
  <2>2. F \cap {} = {} /\ F \cup {} = F /\ F \cap S = {}
    OBVIOUS
  <2>3. FixedP(b) = SetToBag(F) /\ Terms("slack", {b} \cap prep.weighted) = SetToBag(S)
    BY <2>1 DEF FixedP, Terms
  <2> HIDE DEF F, S
  <2>4. FixedP(b) (+) DroopP(b) = SetToBag(F)
    <3>1. SetToBag(F) (+) SetToBag({}) = SetToBag(F \cup {})
      BY <2>2, BagsOfSets
    <3> QED BY <1>3, <2>2, <2>3, <3>1 DEF EmptyBag
  <2>5. NetworkP(b) = SetToBag(F \cup S)
    BY <2>2, <2>3, <2>4, BagsOfSets DEF NetworkP
  <2>6. MismatchP(b) = SetToBag(S)
    BY <2>2, <2>3, <2>5, BagsOfSets DEF MismatchP
  <2>7. ReportedP(b) = SetToBag(F) (+) SetToBag(S)
    BY <1>1, <1>3, <2>4, <2>6 DEF ReportedP
  <2> QED BY <2>2, <2>5, <2>7, BagsOfSets
<1> QED BY <1>2, <1>3

(* Who shares the reactive power of a bus: the generators that regulate    *)
(* it from there and the stations that regulate it.                        *)
LEMMA TakersAre ==
    ASSUME NEW b
    PROVE  At(b, QTakers) = {<<g, 0>> : g \in {x \in GensOn : ~Remote(x) /\ gen[x].bus = b}}
                            \cup {x \in VscOn : StationBus(x) = b}
<1>1. ASSUME NEW i \in At(b, QTakers)
      PROVE  \/ \E g \in GensOn : ~Remote(g) /\ gen[g].bus = b /\ i = <<g, 0>>
             \/ i \in VscOn /\ StationBus(i) = b
  <2>1. PICK q \in QTakers : q.bus = b /\ q.id = i
    BY DEF At
  <2>2. ASSUME NEW g \in {x \in GensOn : ~Remote(x)}, q = [id |-> <<g, 0>>, bus |-> gen[g].bus]
        PROVE  g \in GensOn /\ ~Remote(g) /\ gen[g].bus = b /\ i = <<g, 0>>
    BY <2>1, <2>2
  <2>3. ASSUME NEW x \in VscOn, q = [id |-> x, bus |-> StationBus(x)]
        PROVE  i = x /\ StationBus(x) = b
    BY <2>1, <2>3
  <2>4. \/ \E g \in {x \in GensOn : ~Remote(x)} : q = [id |-> <<g, 0>>, bus |-> gen[g].bus]
        \/ \E x \in VscOn : q = [id |-> x, bus |-> StationBus(x)]
    BY DEF QTakers
  <2> QED BY <2>2, <2>3, <2>4
<1>2. ASSUME NEW g \in GensOn, ~Remote(g), gen[g].bus = b PROVE <<g, 0>> \in At(b, QTakers)
  <2> DEFINE q == [id |-> <<g, 0>>, bus |-> gen[g].bus]
  <2>1. q \in QTakers
    BY <1>2 DEF QTakers
  <2>2. q.bus = b /\ q.id = <<g, 0>>
    BY <1>2
  <2> HIDE DEF q
  <2> QED BY <2>1, <2>2 DEF At
<1>3. ASSUME NEW x \in VscOn, StationBus(x) = b PROVE x \in At(b, QTakers)
  <2> DEFINE q == [id |-> x, bus |-> StationBus(x)]
  <2>1. q \in QTakers
    BY DEF QTakers
  <2>2. q.bus = b /\ q.id = x
    BY <1>3
  <2> HIDE DEF q
  <2> QED BY <2>1, <2>2 DEF At
<1> QED BY <1>1, <1>2, <1>3

(* Who controls a voltage from a bus.                                      *)
LEMMA AtControllers ==
    ASSUME NEW b
    PROVE  At(b, Controllers) = {c.id : c \in {d \in Groups : d.bus = b}}
<1> DEFINE told(c) == [id |-> c.id, bus |-> c.bus, reg |-> c.reg]
<1>1. Groups = {told(c) : c \in Controllers}
  BY DEF Groups
<1>2. \A c : told(c).id = c.id /\ told(c).bus = c.bus
  OBVIOUS
<1> HIDE DEF told
<1> QED BY <1>1, <1>2 DEF At

(* A controller is there for each local regulator of a bus a group         *)
(* controls.                                                               *)
LEMMA ControllersOf ==
    /\ \A g \in GensOn : Remote(g) \/ gen[g].reg \in GroupControlled =>
           \E c \in Groups : c.id = <<g, 0>> /\ c.bus = gen[g].bus /\ c.reg = gen[g].reg
    /\ \A s \in SvcsOn : \E c \in Groups : c.id = <<s, 0>> /\ c.bus = svc[s].bus /\ c.reg = svc[s].reg
    /\ \A x \in VscOn : StationBus(x) \in GroupControlled =>
           \E c \in Groups : c.id = x /\ c.bus = StationBus(x) /\ c.reg = StationBus(x)
<1>1. ASSUME NEW g \in GensOn, Remote(g) \/ gen[g].reg \in GroupControlled
      PROVE  \E c \in Groups : c.id = <<g, 0>> /\ c.bus = gen[g].bus /\ c.reg = gen[g].reg
  <2> DEFINE c == [id |-> <<g, 0>>, bus |-> gen[g].bus, reg |-> gen[g].reg]
  <2>1. c \in Groups
    BY <1>1, GroupsAre
  <2>2. c.id = <<g, 0>> /\ c.bus = gen[g].bus /\ c.reg = gen[g].reg
    OBVIOUS
  <2> HIDE DEF c
  <2> QED BY <2>1, <2>2
<1>2. ASSUME NEW s \in SvcsOn
      PROVE  \E c \in Groups : c.id = <<s, 0>> /\ c.bus = svc[s].bus /\ c.reg = svc[s].reg
  <2> DEFINE c == [id |-> <<s, 0>>, bus |-> svc[s].bus, reg |-> svc[s].reg]
  <2>1. c \in Groups
    BY GroupsAre
  <2>2. c.id = <<s, 0>> /\ c.bus = svc[s].bus /\ c.reg = svc[s].reg
    OBVIOUS
  <2> HIDE DEF c
  <2> QED BY <2>1, <2>2
<1>3. ASSUME NEW x \in VscOn, StationBus(x) \in GroupControlled
      PROVE  \E c \in Groups : c.id = x /\ c.bus = StationBus(x) /\ c.reg = StationBus(x)
  <2> DEFINE c == [id |-> x, bus |-> StationBus(x), reg |-> StationBus(x)]
  <2>1. c \in Groups
    BY <1>3, GroupsAre
  <2>2. c.id = x /\ c.bus = StationBus(x) /\ c.reg = StationBus(x)
    OBVIOUS
  <2> HIDE DEF c
  <2> QED BY <2>1, <2>2
<1> QED BY <1>1, <1>2, <1>3

(* Reactive power.                                                         *)
LEMMA ReactivePowerBalances ==
    ASSUME NEW b \in Live, DevicesTypeOK, Placed, prep = Current
    PROVE  \/ ReportedQ(b) = NetworkQ(b)
           \/ b \in FreeVmSlack(prep.slack) /\ \E x \in VscOn : StationBus(x) = b
<1> DEFINE Local == {x \in GensOn : ~Remote(x) /\ gen[x].bus = b}
           Vscs == {x \in VscOn : StationBus(x) = b}
<1>1. /\ prep.slack = SlackOf /\ prep.counted = QTakers /\ Current.pv = PvOf(SlackOf)
      /\ IsPinned(b) <=> b \notin Freed
  <2>1. RowsOf(Claims(prep, Pulled(prep))) = Rows
    BY RowsAndCols
  <2>2. <<"q", b>> \in Rows <=> b \in Freed
    BY DEF Rows
  <2> QED BY <2>1, <2>2 DEF IsPinned, Current
<1>2. At(b, QTakers) = {<<g, 0>> : g \in Local} \cup Vscs
  BY TakersAre
<1>3. Local # {} <=> b \in Pinned
  BY DEF Pinned
<1>4. UnknownQ(b) (+) EmptyBag = UnknownQ(b)
  <2>1. ({"qc"} \X At(b, Controllers)) \cap {} = {} /\ ({"qc"} \X At(b, Controllers)) \cup {} = {"qc"} \X At(b, Controllers)
    OBVIOUS
  <2> QED BY <2>1, BagsOfSets DEF UnknownQ, Terms, EmptyBag
<1>5. CASE b \in GroupControlled
  <2>1. \E c \in Groups : c.reg = b
    <3>1. CASE \E g \in GensOn : Remote(g) /\ gen[g].reg = b
      BY <3>1, ControllersOf
    <3>2. CASE \E s \in SvcsOn : svc[s].reg = b
      BY <3>2, ControllersOf
    <3> QED BY <1>5, <3>1, <3>2 DEF GroupControlled
  <2>2. b \in Freed
    BY <2>1 DEF Placed
  <2>3. KeptShares(b) = {}
    <3>1. ASSUME NEW g \in Local PROVE <<g, 0>> \in At(b, Controllers)
      <4>1. gen[g].reg = b /\ g \in GensOn /\ gen[g].bus = b
        BY DEF Remote
      <4>2. \E c \in Groups : c.id = <<g, 0>> /\ c.bus = b
        BY <1>5, <4>1, ControllersOf
      <4> QED BY <4>2, AtControllers
    <3>2. ASSUME NEW x \in Vscs PROVE x \in At(b, Controllers)
      <4>1. \E c \in Groups : c.id = x /\ c.bus = b
        BY <1>5, ControllersOf
      <4> QED BY <4>1, AtControllers
    <3> QED BY <1>2, <3>1, <3>2 DEF KeptShares
  <2>4. {x \in {b} : IsPinned(x)} = {}
    BY <1>1, <2>2
  <2>5. NetworkQ(b) = UnknownQ(b) (+) EmptyBag
    BY <2>4, NoTerms DEF NetworkQ
  <2>6. ReportedQ(b) = UnknownQ(b) (+) EmptyBag
    BY <2>3 DEF ReportedQ, SharedQ
  <2> QED BY <2>5, <2>6
<1>6. CASE b \notin GroupControlled /\ Local = {} /\ Vscs = {}
  <2>1. b \in Freed
    <3>1. CASE b \in SlackOf
      BY <1>3, <1>6, <3>1 DEF Freed, FreeVmSlack
    <3>2. CASE b \notin SlackOf
      <4>1. b \notin Current.pv
        BY <1>1, <1>3, <1>6 DEF PvOf
      <4> QED BY <3>2, <4>1 DEF Freed, Placed
    <3> QED BY <3>1, <3>2
  <2>2. KeptShares(b) = {}
    BY <1>2, <1>6 DEF KeptShares
  <2>3. {x \in {b} : IsPinned(x)} = {}
    BY <1>1, <2>1
  <2>4. NetworkQ(b) = UnknownQ(b) (+) EmptyBag
    BY <2>3, NoTerms DEF NetworkQ
  <2>5. ReportedQ(b) = UnknownQ(b) (+) EmptyBag
    BY <2>2 DEF ReportedQ, SharedQ
  <2> QED BY <2>4, <2>5
<1>7. CASE b \notin GroupControlled /\ (Local # {} \/ Vscs # {})
           /\ ~(b \in FreeVmSlack(prep.slack) /\ Vscs # {})
  <2>1. b \notin Freed
    <3>1. CASE b \in SlackOf
      <4>1. b \notin FreeVmSlack(SlackOf)
        BY <1>1, <1>3, <1>7, <3>1 DEF FreeVmSlack
      <4> QED BY <3>1, <4>1 DEF Freed, Placed
    <3>2. CASE b \notin SlackOf
      <4>1. b \in Pinned \cup {StationBus(x) : x \in VscOn}
        BY <1>3, <1>7
      <4>2. b \in Current.pv
        BY <1>1, <1>7, <3>2, <4>1 DEF PvOf
      <4> QED BY <3>2, <4>2 DEF Freed, FreeVmSlack, Placed
    <3> QED BY <3>1, <3>2
  <2>2. At(b, Controllers) = {}
    <3>1. \A c \in Groups : c.bus # b
      BY <2>1 DEF Placed
    <3> QED BY <3>1, AtControllers
  <2>3. KeptShares(b) = At(b, QTakers) /\ KeptShares(b) # {}
    BY <1>2, <1>7, <2>2 DEF KeptShares
  <2>4. SharedQ(b) = NetworkQ(b)
    BY <1>1, <2>3 DEF SharedQ
  <2>5. UnknownQ(b) = EmptyBag
    BY <2>2, NoTerms DEF UnknownQ
  <2>6. EmptyBag (+) NetworkQ(b) = NetworkQ(b)
    <3> DEFINE T == {"free"} \X {x \in {b} : IsPinned(x)}
    <3>1. {} \cap T = {} /\ {} \cup T = T
      OBVIOUS
    <3>2. NetworkQ(b) = SetToBag({}) (+) SetToBag(T)
      BY <2>5 DEF NetworkQ, Terms, EmptyBag
    <3> HIDE DEF T
    <3>3. SetToBag({}) (+) SetToBag(T) = SetToBag(T)
      BY <3>1, BagsOfSets
    <3> QED BY <3>2, <3>3 DEF EmptyBag
  <2> QED BY <2>4, <2>5, <2>6 DEF ReportedQ
<1>8. CASE b \in FreeVmSlack(prep.slack) /\ Vscs # {}
  BY <1>8
<1> QED BY <1>5, <1>6, <1>7, <1>8

(* Kirchhoff's law at every bus for what is reported once Newton-Raphson   *)
(* has converged, but for the two cases ResultsBalance names.              *)
THEOREM ReportsBalance == AcSpec => []ResultsBalance
<1>1. AcInv => ResultsBalance
  <2>1. SUFFICES ASSUME AcInv, last = "converged", algo = "NR", NEW b \in Live
                 PROVE  /\ \/ ReportedP(b) = NetworkP(b)
                           \/ b \in prep.weighted /\ DroopP(b) # EmptyBag
                        /\ \/ ReportedQ(b) = NetworkQ(b)
                           \/ b \in FreeVmSlack(prep.slack) /\ \E x \in VscOn : StationBus(x) = b
    BY DEF ResultsBalance
  <2>2. prep = Current /\ FreshAccepts /\ DevicesTypeOK
    BY <2>1 DEF AcInv, Ended, Shapes
  <2>3. Placed
    BY <2>1, <2>2, AcceptedIsPlaced
  <2>4. prep.weighted = Weighted
    BY <2>2 DEF Current
  <2> QED BY <2>2, <2>3, <2>4, ActivePowerBalances, ReactivePowerBalances
<1> QED BY <1>1, AcInvariant, PTL
=============================================================================
