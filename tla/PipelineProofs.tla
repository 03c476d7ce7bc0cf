--------------------------- MODULE PipelineProofs ---------------------------
(***************************************************************************)
(* Proofs about the powerflows of LSGrid, for every grid: what each stage  *)
(* of _pre_process_solver_impl and the whole pipeline leave in the cache,  *)
(* the type invariant and the statuses of the branches.                    *)
(***************************************************************************)
EXTENDS GridProofs

-----------------------------------------------------------------------------
(* The types of what the elements contribute.                              *)

LEMMA BranchTerms ==
    ASSUME ElementsTypeOK, NEW b \in Branches
    PROVE  /\ Ends(b) \in EndsSet
           /\ \A k \in Sides : BusOf(branch[b], k) \in Buses
           /\ branch[b].bus1 \in Buses /\ branch[b].bus2 \in Buses
           /\ branch[b].ratio \in Ratios /\ branch[b].shift \in Shifts
<1>1. branch[b] \in BranchRecord
  BY DEF ElementsTypeOK
<1>2. \A k \in Sides : BusOf(branch[b], k) \in Buses
  BY <1>1 DEF BranchRecord, BusOf, Sides
<1>3. Ends(b) \in EndsSet
  BY <1>2 DEF Ends, EndsSet
<1> QED BY <1>1, <1>2, <1>3 DEF BranchRecord

LEMMA MatrixTyped ==
    ASSUME ElementsTypeOK, NEW f \in Families
    PROVE  Matrix(f) \in MatrixRecord /\ EmptyMatrix \in MatrixRecord
<1>1. \A b \in Branches : BranchStamp(f, b) \in BranchStamps
  BY BranchTerms, ElementsAssumption DEF BranchStamp, BranchStamps
<1>2. \A s \in Shunts : [id |-> s, bus |-> shunt[s].bus, p |-> shunt[s].p, q |-> shunt[s].q]
                            \in ShuntStamps
  BY DEF ElementsTypeOK, ShuntRecord, ShuntStamps
<1>3. {BranchStamp(f, b) : b \in {x \in Branches : InMatrix(f, x)}} \in SUBSET BranchStamps
  BY <1>1
<1>4. {[id |-> s, bus |-> shunt[s].bus, p |-> shunt[s].p, q |-> shunt[s].q] : s \in ShuntsOn}
          \in SUBSET ShuntStamps
  BY <1>2 DEF ShuntsOn
<1> QED BY <1>3, <1>4 DEF Matrix, EmptyMatrix, MatrixRecord

LEMMA InjectionsTyped ==
    ASSUME ElementsTypeOK, NEW f \in Families
    PROVE  Injections(f) \in InjectionRecord /\ NoInjections \in InjectionRecord
<1>1. {[id |-> l, bus |-> load[l].bus, p |-> load[l].p] : l \in LoadsOn}
          \in SUBSET PowerStamps(Loads)
  BY DEF ElementsTypeOK, LoadRecord, PowerStamps, LoadsOn
<1>2. {[id |-> g, bus |-> gen[g].bus, p |-> gen[g].p] : g \in Injecting}
          \in SUBSET PowerStamps(Gens)
  BY DEF ElementsTypeOK, GenRecord, PowerStamps, Injecting, GensOn
<1>3. {[id |-> s, bus |-> shunt[s].bus, p |-> shunt[s].p] : s \in ShuntsOn}
          \in SUBSET PowerStamps(Shunts)
  BY DEF ElementsTypeOK, ShuntRecord, PowerStamps, ShuntsOn
<1>4. \A b \in Shifting : [id |-> b, ends |-> Ends(b), ratio |-> branch[b].ratio,
                           shift |-> branch[b].shift] \in BranchStamps
  BY BranchTerms, ElementsAssumption DEF BranchStamps, Shifting
<1> QED BY <1>1, <1>2, <1>3, <1>4 DEF Injections, NoInjections, InjectionRecord

LEMMA SlackTyped ==
    ASSUME ElementsTypeOK
    PROVE  /\ \A b : SlackGens # {} => SlackIds(b) \in SlackRecord
           /\ NoSlack \in SlackRecord
           /\ SlackBuses \subseteq Buses /\ PvClaims \subseteq Buses
           /\ SlackWeightsOf \in SUBSET WeightStamps
<1>1. \A g \in Gens : gen[g] \in GenRecord
  BY DEF ElementsTypeOK
<1>2. SlackBuses \subseteq Buses /\ PvClaims \subseteq Buses
  BY <1>1 DEF SlackBuses, SlackGens, PvClaims, GenRecord
<1>3. SlackGens # {} => gen[FirstSlack].bus \in Buses
  BY <1>1, FirstSlackIsOne DEF SlackGens, GenRecord
<1>4. \A b : SlackGens # {} => SlackIds(b) \in SlackRecord
  BY <1>2, <1>3 DEF SlackIds, SlackRecord
<1>5. SlackWeightsOf \in SUBSET WeightStamps
  BY <1>1 DEF SlackWeightsOf, WeightStamps, WeightedGens, GensOn, GenRecord
<1> QED BY <1>2, <1>4, <1>5 DEF NoSlack, SlackRecord

LEMMA LiveTyped ==
    ASSUME ElementsTypeOK
    PROVE  LiveBuses \subseteq Buses
<1>1. BranchBuses \subseteq Buses
  BY BranchTerms DEF BranchBuses
<1>2. {load[l].bus : l \in LoadsOn} \subseteq Buses
  BY DEF ElementsTypeOK, LoadRecord, LoadsOn
<1>3. {shunt[s].bus : s \in ShuntsOn} \subseteq Buses
  BY DEF ElementsTypeOK, ShuntRecord, ShuntsOn
<1>4. {gen[g].bus : g \in GensOn} \subseteq Buses
  BY DEF ElementsTypeOK, GenRecord, GensOn
<1> QED BY <1>1, <1>2, <1>3, <1>4 DEF LiveBuses, FixedBuses

-----------------------------------------------------------------------------
(* The stages, one lemma each: what a stage leaves alone, and what it      *)
(* leaves behind when it runs.  A stage that does not run is the identity. *)

WorkRecord == [ok : BOOLEAN, all : BOOLEAN, c : CacheRecord]

LEMMA PutDoes ==
    ASSUME NEW x \in WorkRecord, NEW ok \in BOOLEAN, NEW c \in CacheRecord,
           NEW y, y = Put(x, ok, c)
    PROVE  y \in WorkRecord /\ y.ok = ok /\ y.all = x.all /\ y.c = c
BY DEF WorkRecord, Put

LEMMA ThrowDoes ==
    ASSUME NEW x \in WorkRecord, NEW y, y = Throw(x)
    PROVE  y \in WorkRecord /\ y.ok = FALSE /\ y.all = x.all /\ y.c = x.c
BY DEF WorkRecord, Put, Throw

SlackIdPost(k, x, y) ==
    /\ y \in WorkRecord
    /\ y.all = x.all
    /\ y.c.lab = x.c.lab /\ y.c.mat = x.c.mat /\ y.c.slack = x.c.slack
    /\ y.c.pvpq = x.c.pvpq /\ y.c.inj = x.c.inj /\ y.c.wts = x.c.wts
    /\ ~Runs(x, k, SlackIdFlags) => y = x
    /\ ~y.ok => y.c = x.c
    /\ Runs(x, k, SlackIdFlags) /\ y.ok => IdsAre(y.c)
    /\ Runs(x, k, SlackIdFlags) /\ SlackGens # {} => y.ok

LEMMA SlackIdStageDoes ==
    ASSUME TypeOK, NEW k, NEW x \in WorkRecord, NEW y, y = SlackIdStage(k, x)
    PROVE  SlackIdPost(k, x, y)
<1> USE DEF SlackIdPost
<1> x.c \in CacheRecord
  BY DEF WorkRecord
<1>1. CASE ~Runs(x, k, SlackIdFlags)
  BY <1>1 DEF SlackIdStage, WorkRecord
<1>2. CASE Runs(x, k, SlackIdFlags) /\ SlackGens = {}
  <2>1. y = Throw(x)
    BY <1>2 DEF SlackIdStage
  <2> QED BY <1>2, <2>1, ThrowDoes
<1>3. CASE Runs(x, k, SlackIdFlags) /\ SlackGens # {}
  <2> DEFINE c == [x.c EXCEPT !.slackMe = SlackIds(forced)]
  <2>1. y = Put(x, TRUE, c)
    BY <1>3 DEF SlackIdStage
  <2>2. SlackIds(forced) \in SlackRecord
    BY <1>3, SlackTyped DEF TypeOK
  <2>3. c \in CacheRecord
    BY <2>2 DEF CacheRecord
  <2>4. /\ c.slackMe = SlackIds(forced)
        /\ c.lab = x.c.lab /\ c.mat = x.c.mat /\ c.slack = x.c.slack
        /\ c.pvpq = x.c.pvpq /\ c.inj = x.c.inj /\ c.wts = x.c.wts
    BY DEF CacheRecord
  <2> HIDE DEF c
  <2>5. y \in WorkRecord /\ y.ok = TRUE /\ y.all = x.all /\ y.c = c
    BY <2>1, <2>3 DEF Put, WorkRecord
  <2> QED BY <1>3, <2>4, <2>5 DEF IdsAre
<1> QED BY <1>1, <1>2, <1>3

LabelPost(k, status, x, y) ==
    /\ y \in WorkRecord
    /\ y.all = x.all /\ y.ok = x.ok
    /\ y.c.slackMe = x.c.slackMe /\ y.c.slack = x.c.slack
    /\ y.c.pvpq = x.c.pvpq /\ y.c.inj = x.c.inj /\ y.c.wts = x.c.wts
    /\ ~Runs(x, k, LabelFlags) => y = x
    /\ Runs(x, k, LabelFlags) => y.c.lab = status

LEMMA LabelStageDoes ==
    ASSUME TypeOK, NEW k, NEW status \in SUBSET Buses, NEW x \in WorkRecord,
           NEW y, y = LabelStage(k, status, x)
    PROVE  LabelPost(k, status, x, y)
<1> USE DEF LabelPost
<1> x.c \in CacheRecord
  BY DEF WorkRecord
<1>1. CASE ~Runs(x, k, LabelFlags)
  BY <1>1 DEF LabelStage
<1>2. CASE Runs(x, k, LabelFlags)
  <2> DEFINE mat == [lab |-> status, val |-> EmptyMatrix, base |-> snMva]
             c   == [x.c EXCEPT !.lab = status, !.mat = mat]
  <2>1. y = Put(x, TRUE, c) /\ x.ok = TRUE
    BY <1>2 DEF LabelStage, Runs, WorkRecord
  <2>2. mat \in [lab : SUBSET Buses, val : MatrixRecord, base : Bases \cup {NoBus}]
    BY DEF TypeOK, EmptyMatrix, MatrixRecord
  <2> HIDE DEF mat
  <2>3. c \in CacheRecord
    BY <2>2 DEF CacheRecord
  <2>4. /\ c.lab = status /\ c.slackMe = x.c.slackMe /\ c.slack = x.c.slack
        /\ c.pvpq = x.c.pvpq /\ c.inj = x.c.inj /\ c.wts = x.c.wts
    BY DEF CacheRecord
  <2> HIDE DEF c
  <2>5. y \in WorkRecord /\ y.ok = TRUE /\ y.all = x.all /\ y.c = c
    BY <2>1, <2>3 DEF Put, WorkRecord
  <2> QED BY <1>2, <2>1, <2>4, <2>5
<1> QED BY <1>1, <1>2

MatrixPost(f, k, x, y) ==
    /\ y \in WorkRecord
    /\ y.all = x.all
    /\ y.c.lab = x.c.lab /\ y.c.slackMe = x.c.slackMe /\ y.c.slack = x.c.slack
    /\ y.c.pvpq = x.c.pvpq /\ y.c.inj = x.c.inj /\ y.c.wts = x.c.wts
    /\ ~Runs(x, k, MatFlags) => y = x
    /\ Runs(x, k, MatFlags) => /\ y.ok <=> MatrixBuses(f) \subseteq x.c.lab
                               /\ y.ok => MatIs(f, y.c)

LEMMA MatrixStageDoes ==
    ASSUME TypeOK, NEW f \in Families, NEW k, NEW x \in WorkRecord,
           NEW y, y = MatrixStage(f, k, x)
    PROVE  MatrixPost(f, k, x, y)
<1> USE DEF MatrixPost
<1> x.c \in CacheRecord
  BY DEF WorkRecord
<1>1. CASE ~Runs(x, k, MatFlags)
  BY <1>1 DEF MatrixStage
<1>2. CASE Runs(x, k, MatFlags)
  <2> DEFINE ok  == MatrixBuses(f) \subseteq x.c.lab
             mat == [lab |-> x.c.lab, base |-> snMva,
                     val |-> IF ok THEN Matrix(f) ELSE EmptyMatrix]
             c   == [x.c EXCEPT !.mat = mat]
  <2>1. y = Put(x, ok, c) /\ ok \in BOOLEAN
    BY <1>2 DEF MatrixStage
  <2>2. mat \in [lab : SUBSET Buses, val : MatrixRecord, base : Bases \cup {NoBus}]
    BY MatrixTyped DEF TypeOK, CacheRecord
  <2>3. ok => mat = [lab |-> x.c.lab, val |-> Matrix(f), base |-> snMva]
    OBVIOUS
  <2> HIDE DEF mat
  <2>4. c \in CacheRecord
    BY <2>2 DEF CacheRecord
  <2>5. /\ c.mat = mat /\ c.lab = x.c.lab /\ c.slackMe = x.c.slackMe /\ c.slack = x.c.slack
        /\ c.pvpq = x.c.pvpq /\ c.inj = x.c.inj /\ c.wts = x.c.wts
    BY DEF CacheRecord
  <2> HIDE DEF c, ok
  <2>6. y \in WorkRecord /\ y.ok = ok /\ y.all = x.all /\ y.c = c
    BY <2>1, <2>4, PutDoes
  <2> QED BY <1>2, <2>3, <2>5, <2>6 DEF MatIs, ok
<1> QED BY <1>1, <1>2

SlackPost(k, x, y) ==
    /\ y \in WorkRecord
    /\ y.all = x.all
    /\ y.c.lab = x.c.lab /\ y.c.slackMe = x.c.slackMe /\ y.c.mat = x.c.mat
    /\ y.c.pvpq = x.c.pvpq /\ y.c.inj = x.c.inj /\ y.c.wts = x.c.wts
    /\ ~Runs(x, k, SlackFlags) => y = x
    /\ Runs(x, k, SlackFlags) =>
          /\ y.ok <=> x.c.slackMe.buses \subseteq x.c.lab
          /\ y.ok => y.c.slack = [lab |-> x.c.lab, val |-> x.c.slackMe]
          /\ y.c.slack.lab = x.c.lab

LEMMA SlackStageDoes ==
    ASSUME TypeOK, NEW k, NEW x \in WorkRecord, NEW y, y = SlackStage(k, x)
    PROVE  SlackPost(k, x, y)
<1> USE DEF SlackPost
<1> x.c \in CacheRecord
  BY DEF WorkRecord
<1>1. CASE ~Runs(x, k, SlackFlags)
  BY <1>1 DEF SlackStage
<1>2. CASE Runs(x, k, SlackFlags)
  <2> DEFINE ok    == x.c.slackMe.buses \subseteq x.c.lab
             slack == [lab |-> x.c.lab, val |-> IF ok THEN x.c.slackMe ELSE NoSlack]
             c     == [x.c EXCEPT !.slack = slack]
  <2>1. y = Put(x, ok, c) /\ ok \in BOOLEAN
    BY <1>2 DEF SlackStage
  <2>2. slack \in [lab : SUBSET Buses, val : SlackRecord]
    BY SlackTyped DEF TypeOK, CacheRecord
  <2>3. /\ ok => slack = [lab |-> x.c.lab, val |-> x.c.slackMe]
        /\ slack.lab = x.c.lab
    OBVIOUS
  <2> HIDE DEF slack
  <2>4. c \in CacheRecord
    BY <2>2 DEF CacheRecord
  <2>5. /\ c.slack = slack /\ c.lab = x.c.lab /\ c.slackMe = x.c.slackMe /\ c.mat = x.c.mat
        /\ c.pvpq = x.c.pvpq /\ c.inj = x.c.inj /\ c.wts = x.c.wts
    BY DEF CacheRecord
  <2> HIDE DEF c, ok
  <2>6. y \in WorkRecord /\ y.ok = ok /\ y.all = x.all /\ y.c = c
    BY <2>1, <2>4, PutDoes
  <2> QED BY <1>2, <2>3, <2>5, <2>6 DEF ok
<1> QED BY <1>1, <1>2

PvPqPost(k, x, y) ==
    /\ y \in WorkRecord
    /\ y.all = x.all
    /\ y.c.lab = x.c.lab /\ y.c.slackMe = x.c.slackMe /\ y.c.mat = x.c.mat
    /\ y.c.slack = x.c.slack /\ y.c.inj = x.c.inj /\ y.c.wts = x.c.wts
    /\ ~Runs(x, k, SlackFlags) => y = x
    /\ Runs(x, k, SlackFlags) =>
          /\ y.ok <=> PvClaims \subseteq x.c.lab
          /\ y.ok => y.c.pvpq = [lab |-> x.c.lab, pv |-> PvBuses(x.c.slack.val.buses),
                                 pq |-> PqBuses(x.c.lab, x.c.slack.val.buses)]
          /\ y.c.pvpq.lab = x.c.lab

LEMMA PvPqStageDoes ==
    ASSUME TypeOK, NEW k, NEW x \in WorkRecord, NEW y, y = PvPqStage(k, x)
    PROVE  PvPqPost(k, x, y)
<1> USE DEF PvPqPost
<1> x.c \in CacheRecord
  BY DEF WorkRecord
<1>1. CASE ~Runs(x, k, SlackFlags)
  BY <1>1 DEF PvPqStage
<1>2. CASE Runs(x, k, SlackFlags)
  <2> DEFINE ok    == PvClaims \subseteq x.c.lab
             slack == x.c.slack.val.buses
             pvpq  == [lab |-> x.c.lab, pv |-> IF ok THEN PvBuses(slack) ELSE {},
                       pq |-> IF ok THEN PqBuses(x.c.lab, slack) ELSE {}]
             c     == [x.c EXCEPT !.pvpq = pvpq]
  <2>1. y = Put(x, ok, c) /\ ok \in BOOLEAN
    BY <1>2 DEF PvPqStage
  <2>2. /\ x.c.lab \subseteq Buses
        /\ PvBuses(slack) \subseteq Buses /\ PqBuses(x.c.lab, slack) \subseteq Buses
    BY SlackTyped DEF TypeOK, CacheRecord, PvBuses, PqBuses
  <2>3. pvpq \in [lab : SUBSET Buses, pv : SUBSET Buses, pq : SUBSET Buses]
    BY <2>2
  <2>4. /\ ok => pvpq = [lab |-> x.c.lab, pv |-> PvBuses(slack), pq |-> PqBuses(x.c.lab, slack)]
        /\ pvpq.lab = x.c.lab
    OBVIOUS
  <2> HIDE DEF pvpq
  <2>5. c \in CacheRecord
    BY <2>3 DEF CacheRecord
  <2>6. /\ c.pvpq = pvpq /\ c.lab = x.c.lab /\ c.slackMe = x.c.slackMe /\ c.mat = x.c.mat
        /\ c.slack = x.c.slack /\ c.inj = x.c.inj /\ c.wts = x.c.wts
    BY DEF CacheRecord
  <2> HIDE DEF c, ok
  <2>7. y \in WorkRecord /\ y.ok = ok /\ y.all = x.all /\ y.c = c
    BY <2>1, <2>5, PutDoes
  <2> QED BY <1>2, <2>4, <2>6, <2>7 DEF ok
<1> QED BY <1>1, <1>2

InjectionPost(f, k, x, y) ==
    /\ y \in WorkRecord
    /\ y.all = x.all
    /\ y.c.lab = x.c.lab /\ y.c.slackMe = x.c.slackMe /\ y.c.mat = x.c.mat
    /\ y.c.slack = x.c.slack /\ y.c.pvpq = x.c.pvpq /\ y.c.wts = x.c.wts
    /\ y.c.inj.lab \in {x.c.inj.lab, x.c.lab}
    /\ ~Runs(x, k, InjFlags) => y = x
    /\ Runs(x, k, InjFlags) => /\ y.ok <=> InjectionBuses(f) \subseteq x.c.lab
                               /\ y.ok => InjIs(f, y.c)

LEMMA InjectionStageDoes ==
    ASSUME TypeOK, NEW f \in Families, NEW k, NEW x \in WorkRecord,
           NEW y, y = InjectionStage(f, k, x)
    PROVE  InjectionPost(f, k, x, y)
<1> USE DEF InjectionPost
<1> x.c \in CacheRecord
  BY DEF WorkRecord
<1>1. CASE ~Runs(x, k, InjFlags)
  BY <1>1 DEF InjectionStage
<1> DEFINE inj(val) == [lab |-> x.c.lab, val |-> val, base |-> snMva]
           c(val)   == [x.c EXCEPT !.inj = inj(val)]
<1>2. ASSUME NEW val \in InjectionRecord
      PROVE  /\ c(val) \in CacheRecord
             /\ c(val).inj = inj(val) /\ c(val).lab = x.c.lab /\ c(val).slackMe = x.c.slackMe
             /\ c(val).mat = x.c.mat /\ c(val).slack = x.c.slack /\ c(val).pvpq = x.c.pvpq
             /\ c(val).wts = x.c.wts
  <2>1. inj(val) \in [lab : SUBSET Buses, val : InjectionRecord, base : Bases \cup {NoBus}]
    BY DEF TypeOK, CacheRecord
  <2> HIDE DEF inj
  <2> QED BY <2>1 DEF CacheRecord
<1> Injections(f) \in InjectionRecord /\ NoInjections \in InjectionRecord
  BY InjectionsTyped DEF TypeOK
<1>3. CASE Runs(x, k, InjFlags) /\ InjectionBuses(f) \subseteq x.c.lab
  <2>1. y = Put(x, TRUE, c(Injections(f)))
    BY <1>3 DEF InjectionStage
  <2>2. inj(Injections(f)) = [lab |-> x.c.lab, val |-> Injections(f), base |-> snMva]
    OBVIOUS
  <2> HIDE DEF c, inj
  <2>3. y \in WorkRecord /\ y.ok = TRUE /\ y.all = x.all /\ y.c = c(Injections(f))
    BY <1>2, <2>1 DEF Put, WorkRecord
  <2> QED BY <1>2, <1>3, <2>2, <2>3 DEF InjIs
<1>4. CASE Runs(x, k, InjFlags) /\ ~(InjectionBuses(f) \subseteq x.c.lab) /\ f = "AC"
  <2>1. y = Put(x, FALSE, c(NoInjections))
    BY <1>4 DEF InjectionStage
  <2>3. inj(NoInjections).lab = x.c.lab
    OBVIOUS
  <2> HIDE DEF c, inj
  <2>2. y \in WorkRecord /\ y.ok = FALSE /\ y.all = x.all /\ y.c = c(NoInjections)
    BY <1>2, <2>1 DEF Put, WorkRecord
  <2> QED BY <1>2, <1>4, <2>2, <2>3
<1>5. CASE Runs(x, k, InjFlags) /\ ~(InjectionBuses(f) \subseteq x.c.lab) /\ f # "AC"
  <2>1. y = Throw(x)
    BY <1>5 DEF InjectionStage
  <2> QED BY <1>5, <2>1, ThrowDoes
<1> QED BY <1>1, <1>3, <1>4, <1>5

TargetPost(isPf, x, y) ==
    /\ y \in WorkRecord /\ y.all = x.all /\ y.c = x.c
    /\ y.ok <=> x.ok /\ (~isPf \/ TargetBuses \subseteq x.c.lab)

LEMMA TargetStageDoes ==
    ASSUME TypeOK, NEW isPf, NEW x \in WorkRecord, NEW y, y = TargetStage(isPf, x)
    PROVE  TargetPost(isPf, x, y)
<1> USE DEF TargetPost
<1>1. CASE x.ok /\ isPf /\ ~(TargetBuses \subseteq x.c.lab)
  <2>1. y = Throw(x)
    BY <1>1 DEF TargetStage
  <2> QED BY <1>1, <2>1, ThrowDoes
<1>2. CASE ~(x.ok /\ isPf /\ ~(TargetBuses \subseteq x.c.lab))
  BY <1>2 DEF TargetStage
<1> QED BY <1>1, <1>2

WeightPost(k, x, y) ==
    /\ y \in WorkRecord
    /\ y.all = x.all
    /\ y.c.lab = x.c.lab /\ y.c.slackMe = x.c.slackMe /\ y.c.mat = x.c.mat
    /\ y.c.slack = x.c.slack /\ y.c.pvpq = x.c.pvpq /\ y.c.inj = x.c.inj
    /\ ~Runs(x, k, WeightFlags) => y = x
    /\ Runs(x, k, WeightFlags) => /\ y.ok <=> WeightedBuses \subseteq x.c.lab
                                  /\ y.ok => WtsIs(y.c)

LEMMA WeightStageDoes ==
    ASSUME TypeOK, NEW k, NEW x \in WorkRecord, NEW y, y = WeightStage(k, x)
    PROVE  WeightPost(k, x, y)
<1> USE DEF WeightPost
<1> x.c \in CacheRecord
  BY DEF WorkRecord
<1>1. CASE ~Runs(x, k, WeightFlags)
  BY <1>1 DEF WeightStage
<1>2. CASE Runs(x, k, WeightFlags) /\ WeightedBuses \subseteq x.c.lab
  <2> DEFINE wts == [lab |-> x.c.lab, val |-> SlackWeightsOf]
             c   == [x.c EXCEPT !.wts = wts]
  <2>1. y = Put(x, TRUE, c)
    BY <1>2 DEF WeightStage
  <2>2. wts \in [lab : SUBSET Buses, val : SUBSET WeightStamps]
    BY SlackTyped DEF TypeOK, CacheRecord
  <2>3. wts = [lab |-> x.c.lab, val |-> SlackWeightsOf]
    OBVIOUS
  <2> HIDE DEF wts
  <2>4. c \in CacheRecord
    BY <2>2 DEF CacheRecord
  <2>5. /\ c.wts = wts /\ c.lab = x.c.lab /\ c.slackMe = x.c.slackMe /\ c.mat = x.c.mat
        /\ c.slack = x.c.slack /\ c.pvpq = x.c.pvpq /\ c.inj = x.c.inj
    BY DEF CacheRecord
  <2> HIDE DEF c
  <2>6. y \in WorkRecord /\ y.ok = TRUE /\ y.all = x.all /\ y.c = c
    BY <2>1, <2>4 DEF Put, WorkRecord
  <2> QED BY <1>2, <2>3, <2>5, <2>6 DEF WtsIs
<1>3. CASE Runs(x, k, WeightFlags) /\ ~(WeightedBuses \subseteq x.c.lab)
  <2>1. y = Throw(x)
    BY <1>3 DEF WeightStage
  <2> QED BY <1>3, <2>1, ThrowDoes
<1> QED BY <1>1, <1>2, <1>3

(* A flag that relabels the buses has everything but the weights rebuilt,  *)
(* and a flag that redoes everything is among those of each datum.         *)
LEMMA FlagsNested ==
    ASSUME NEW r
    PROVE  /\ AnyOf(RedoFlags, r) => /\ AnyOf(LabelFlags, r) /\ AnyOf(SlackIdFlags, r)
                                   /\ AnyOf(StatusFlags, r) /\ AnyOf(WeightFlags, r)
           /\ AnyOf(LabelFlags, r) => AnyOf(MatFlags, r) /\ AnyOf(SlackFlags, r)
           /\ AnyOf(SlackIdFlags, r) => AnyOf(SlackFlags, r)
           /\ AnyOf(SlackFlags, r) => AnyOf(InjFlags, r)
BY DEF AnyOf, RedoFlags, LabelFlags, SlackIdFlags, StatusFlags, WeightFlags, MatFlags,
       SlackFlags, InjFlags

SlackFilled(c) == /\ c.slackMe.buses \subseteq c.lab
                  /\ c.slack = [lab |-> c.lab, val |-> c.slackMe]
                  /\ c.pvpq = [lab |-> c.lab, pv |-> PvBuses(c.slackMe.buses),
                               pq |-> PqBuses(c.lab, c.slackMe.buses)]

(* The whole pipeline.  What no flag asks for is left alone; what is asked *)
(* for is fresh when nothing throws, in a labelling that holds the buses   *)
(* it uses; and when everything is rebuilt in a labelling that holds every *)
(* bus in use, nothing throws before it.                                   *)
StagesPost(f, r, status, x, y) ==
    /\ y \in WorkRecord /\ y.all = x.all /\ y.c.slackMe = x.c.slackMe
    /\ y.ok => x.ok
    /\ ~x.ok => y.c = x.c
    /\ y.c.lab = IF Runs(x, r, LabelFlags) THEN status ELSE x.c.lab
    /\ ~x.all => /\ ~AnyOf(MatFlags, r) => y.c.mat = x.c.mat
                 /\ ~AnyOf(SlackFlags, r) => y.c.slack = x.c.slack /\ y.c.pvpq = x.c.pvpq
                 /\ ~AnyOf(InjFlags, r) => y.c.inj = x.c.inj
                 /\ ~AnyOf(WeightFlags, r) => y.c.wts = x.c.wts
    /\ y.ok => /\ x.all \/ AnyOf(MatFlags, r) => MatIs(f, y.c)
               /\ x.all \/ AnyOf(SlackFlags, r) => SlackFilled(y.c)
               /\ x.all \/ AnyOf(InjFlags, r) => InjIs(f, y.c)
               /\ x.all \/ AnyOf(WeightFlags, r) => WtsIs(y.c)
    /\ y.ok => /\ x.all \/ AnyOf(MatFlags, r) => MatrixBuses(f) \subseteq y.c.lab
               /\ x.all \/ AnyOf(InjFlags, r) => InjectionBuses(f) \subseteq y.c.lab
               /\ x.all \/ AnyOf(WeightFlags, r) => WeightedBuses \subseteq y.c.lab
    /\ x.ok /\ x.all /\ MatrixBuses(f) \subseteq status =>
          /\ MatIs(f, y.c)
          /\ x.c.slackMe.buses \subseteq status /\ PvClaims \subseteq status =>
                /\ SlackFilled(y.c)
                /\ InjectionBuses(f) \subseteq status => InjIs(f, y.c)
          /\ WeightedBuses \subseteq status => WtsIs(y.c) \/ y.c.wts = x.c.wts

LEMMA StagesDo ==
    ASSUME TypeOK, NEW f \in Families, NEW r, NEW status \in SUBSET Buses, NEW isPf,
           NEW x \in WorkRecord, NEW y, y = Stages(f, r, status, isPf, x)
    PROVE  StagesPost(f, r, status, x, y)
<1> DEFINE x1 == LabelStage(r, status, x)
           x2 == MatrixStage(f, r, x1)
           x3 == SlackStage(r, x2)
           x4 == PvPqStage(r, x3)
           x5 == InjectionStage(f, r, x4)
           x6 == TargetStage(isPf, x5)
           x7 == WeightStage(r, x6)
<1>0. y = x7
  BY DEF Stages
<1>1. LabelPost(r, status, x, x1)
  BY LabelStageDoes
<1>2. x1 \in WorkRecord /\ MatrixPost(f, r, x1, x2)
  BY <1>1, MatrixStageDoes DEF LabelPost
<1>3. x2 \in WorkRecord /\ SlackPost(r, x2, x3)
  BY <1>2, SlackStageDoes DEF MatrixPost
<1>4. x3 \in WorkRecord /\ PvPqPost(r, x3, x4)
  BY <1>3, PvPqStageDoes DEF SlackPost
<1>5. x4 \in WorkRecord /\ InjectionPost(f, r, x4, x5)
  BY <1>4, InjectionStageDoes DEF PvPqPost
<1>6. x5 \in WorkRecord /\ TargetPost(isPf, x5, x6)
  BY <1>5, TargetStageDoes DEF InjectionPost
<1>7. x6 \in WorkRecord /\ WeightPost(r, x6, x7)
  BY <1>6, WeightStageDoes DEF TargetPost
<1> HIDE DEF x1, x2, x3, x4, x5, x6, x7
<1>8. /\ y \in WorkRecord /\ y.all = x.all /\ y.c.slackMe = x.c.slackMe
      /\ x1.all = x.all /\ x2.all = x.all /\ x3.all = x.all /\ x4.all = x.all
      /\ x5.all = x.all /\ x6.all = x.all
  BY <1>0, <1>1, <1>2, <1>3, <1>4, <1>5, <1>6, <1>7
     DEF LabelPost, MatrixPost, SlackPost, PvPqPost, InjectionPost, TargetPost, WeightPost
<1>b. /\ x.all \in BOOLEAN /\ x.ok \in BOOLEAN
      /\ x1.ok \in BOOLEAN /\ x2.ok \in BOOLEAN /\ x3.ok \in BOOLEAN
      /\ x4.ok \in BOOLEAN /\ x5.ok \in BOOLEAN /\ x6.ok \in BOOLEAN /\ y.ok \in BOOLEAN
  BY <1>2, <1>3, <1>4, <1>5, <1>6, <1>7, <1>8 DEF WorkRecord
(* A stage after the first to throw does not run.                          *)
<1>9. /\ (y.ok => x6.ok) /\ (x6.ok => x5.ok) /\ (x5.ok => x4.ok)
      /\ (x4.ok => x3.ok) /\ (x3.ok => x2.ok) /\ (x2.ok => x1.ok)
      /\ x1.ok = x.ok
  BY <1>0, <1>1, <1>2, <1>3, <1>4, <1>5, <1>6, <1>7
     DEF LabelPost, MatrixPost, SlackPost, PvPqPost, InjectionPost, TargetPost, WeightPost, Runs
<1>10. /\ y.c.lab = x1.c.lab /\ x2.c.lab = x1.c.lab /\ x3.c.lab = x1.c.lab
       /\ x4.c.lab = x1.c.lab /\ x5.c.lab = x1.c.lab /\ x6.c.lab = x1.c.lab
       /\ x1.c.lab = IF Runs(x, r, LabelFlags) THEN status ELSE x.c.lab
  BY <1>0, <1>1, <1>2, <1>3, <1>4, <1>5, <1>6, <1>7
     DEF LabelPost, MatrixPost, SlackPost, PvPqPost, InjectionPost, TargetPost, WeightPost
<1>11. /\ y.c.mat = x2.c.mat
       /\ y.c.slack = x3.c.slack /\ x2.c.slack = x.c.slack
       /\ y.c.pvpq = x4.c.pvpq /\ x3.c.pvpq = x.c.pvpq
       /\ y.c.inj = x5.c.inj /\ x4.c.inj = x.c.inj
       /\ x6.c.wts = x.c.wts
       /\ x2.c.slackMe = x.c.slackMe
       /\ x4.c.slack = x3.c.slack
  BY <1>0, <1>1, <1>2, <1>3, <1>4, <1>5, <1>6, <1>7
     DEF LabelPost, MatrixPost, SlackPost, PvPqPost, InjectionPost, TargetPost, WeightPost
<1>12. ~x.ok => y.c = x.c
  BY <1>0, <1>1, <1>2, <1>3, <1>4, <1>5, <1>6, <1>7, <1>9
     DEF LabelPost, MatrixPost, SlackPost, PvPqPost, InjectionPost, TargetPost, WeightPost, Runs
<1>13. ASSUME ~x.all
       PROVE  /\ ~AnyOf(MatFlags, r) => y.c.mat = x.c.mat
              /\ ~AnyOf(SlackFlags, r) => y.c.slack = x.c.slack /\ y.c.pvpq = x.c.pvpq
              /\ ~AnyOf(InjFlags, r) => y.c.inj = x.c.inj
              /\ ~AnyOf(WeightFlags, r) => y.c.wts = x.c.wts
  BY <1>0, <1>1, <1>2, <1>3, <1>4, <1>5, <1>7, <1>8, <1>11, <1>13, FlagsNested
     DEF LabelPost, MatrixPost, SlackPost, PvPqPost, InjectionPost, WeightPost, Runs
(* What a stage that ran without throwing leaves stays to the end.         *)
<1>14. Runs(x1, r, MatFlags) /\ x2.ok => MatIs(f, y.c)
  BY <1>2, <1>10, <1>11 DEF MatrixPost, MatIs
<1>15. /\ Runs(x2, r, SlackFlags) /\ x3.ok => /\ y.c.slackMe.buses \subseteq y.c.lab
                                              /\ y.c.slack = [lab |-> y.c.lab, val |-> y.c.slackMe]
       /\ Runs(x2, r, SlackFlags) /\ x4.ok => SlackFilled(y.c)
  <2>1. Runs(x2, r, SlackFlags) /\ x3.ok => /\ y.c.slackMe.buses \subseteq y.c.lab
                                            /\ y.c.slack = [lab |-> y.c.lab, val |-> y.c.slackMe]
    BY <1>3, <1>8, <1>10, <1>11 DEF SlackPost
  <2>2. Runs(x2, r, SlackFlags) /\ x4.ok => Runs(x3, r, SlackFlags)
    BY <1>b, <1>8, <1>9 DEF Runs
  <2>3. Runs(x3, r, SlackFlags) /\ x4.ok =>
          y.c.pvpq = [lab |-> y.c.lab, pv |-> PvBuses(y.c.slack.val.buses),
                      pq |-> PqBuses(y.c.lab, y.c.slack.val.buses)]
    BY <1>4, <1>10, <1>11 DEF PvPqPost
  <2> QED BY <1>9, <2>1, <2>2, <2>3 DEF SlackFilled
<1>16. Runs(x4, r, InjFlags) /\ x5.ok => InjIs(f, y.c)
  BY <1>5, <1>10, <1>11 DEF InjectionPost, InjIs
<1>17. Runs(x6, r, WeightFlags) /\ y.ok => WtsIs(y.c)
  BY <1>0, <1>7 DEF WeightPost
<1>18. ASSUME y.ok
       PROVE  /\ x.all \/ AnyOf(MatFlags, r) => MatIs(f, y.c)
              /\ x.all \/ AnyOf(SlackFlags, r) => SlackFilled(y.c)
              /\ x.all \/ AnyOf(InjFlags, r) => InjIs(f, y.c)
              /\ x.all \/ AnyOf(WeightFlags, r) => WtsIs(y.c)
  BY <1>b, <1>8, <1>9, <1>14, <1>15, <1>16, <1>17, <1>18 DEF Runs
<1>19. ASSUME x.ok, x.all, MatrixBuses(f) \subseteq status
       PROVE  /\ MatIs(f, y.c)
              /\ x.c.slackMe.buses \subseteq status /\ PvClaims \subseteq status =>
                    /\ SlackFilled(y.c)
                    /\ InjectionBuses(f) \subseteq status => InjIs(f, y.c)
              /\ WeightedBuses \subseteq status => WtsIs(y.c) \/ y.c.wts = x.c.wts
  <2>1. x1.c.lab = status /\ x1.ok
    BY <1>1, <1>19 DEF LabelPost, Runs
  <2>2. Runs(x1, r, MatFlags) /\ x2.ok
    BY <1>2, <1>8, <1>19, <2>1 DEF MatrixPost, Runs
  <2>3. Runs(x2, r, SlackFlags)
    BY <1>8, <1>19, <2>2 DEF Runs
  <2>4. ASSUME x.c.slackMe.buses \subseteq status, PvClaims \subseteq status
        PROVE  x3.ok /\ x4.ok /\ Runs(x4, r, InjFlags)
    <3>1. x3.ok
      BY <1>3, <1>10, <1>11, <2>1, <2>3, <2>4 DEF SlackPost
    <3>2. x4.ok
      BY <1>4, <1>8, <1>10, <1>19, <2>1, <2>4, <3>1 DEF PvPqPost, Runs
    <3> QED BY <1>8, <1>19, <3>1, <3>2 DEF Runs
  <2>5. ASSUME Runs(x4, r, InjFlags), InjectionBuses(f) \subseteq status
        PROVE  x5.ok
    BY <1>5, <1>10, <2>1, <2>5 DEF InjectionPost
  <2>6. WeightedBuses \subseteq status => WtsIs(y.c) \/ y.c.wts = x.c.wts
    <3>1. CASE Runs(x6, r, WeightFlags)
      BY <1>0, <1>7, <1>10, <1>17, <2>1, <3>1 DEF WeightPost
    <3>2. CASE ~Runs(x6, r, WeightFlags)
      BY <1>0, <1>7, <1>11, <3>2 DEF WeightPost
    <3> QED BY <3>1, <3>2
  <2> QED BY <1>14, <1>15, <1>16, <2>2, <2>3, <2>4, <2>5, <2>6
<1>20. ASSUME y.ok
       PROVE  /\ x.all \/ AnyOf(MatFlags, r) => MatrixBuses(f) \subseteq y.c.lab
              /\ x.all \/ AnyOf(InjFlags, r) => InjectionBuses(f) \subseteq y.c.lab
              /\ x.all \/ AnyOf(WeightFlags, r) => WeightedBuses \subseteq y.c.lab
  <2>1. /\ x1.ok /\ x2.ok /\ x4.ok /\ x5.ok /\ x6.ok
        /\ x1.all = x.all /\ x4.all = x.all /\ x6.all = x.all
    BY <1>b, <1>8, <1>9, <1>20
  <2>2. Runs(x1, r, MatFlags) => MatrixBuses(f) \subseteq y.c.lab
    BY <1>2, <1>10, <2>1 DEF MatrixPost
  <2>3. Runs(x4, r, InjFlags) => InjectionBuses(f) \subseteq y.c.lab
    BY <1>5, <1>10, <2>1 DEF InjectionPost
  <2>4. Runs(x6, r, WeightFlags) => WeightedBuses \subseteq y.c.lab
    BY <1>0, <1>7, <1>10, <1>20 DEF WeightPost
  <2> QED BY <2>1, <2>2, <2>3, <2>4 DEF Runs
<1> QED BY <1>8, <1>9, <1>10, <1>12, <1>13, <1>18, <1>19, <1>20 DEF StagesPost

(* The labelling a pipeline works in, and that it holds the buses that    *)
(* its stages look up, but for the voltage targets.                        *)
LabelledBy(r, status, x) == LabelStage(r, status, x).c.lab

HoldsUsed(f, x, lab) ==
    /\ MatrixBuses(f) \subseteq lab /\ InjectionBuses(f) \subseteq lab
    /\ PvClaims \subseteq lab /\ WeightedBuses \subseteq lab
    /\ x.ok => x.c.slackMe.buses \subseteq lab

(* The stages of a powerflow throw then for a voltage target only.         *)
LEMMA StagesSucceed ==
    ASSUME TypeOK, NEW f \in Families, NEW r, NEW status \in SUBSET Buses,
           NEW x \in WorkRecord, HoldsUsed(f, x, LabelledBy(r, status, x))
    PROVE  Stages(f, r, status, TRUE, x).ok
               <=> x.ok /\ TargetBuses \subseteq LabelledBy(r, status, x)
<1> DEFINE y   == Stages(f, r, status, TRUE, x)
           lab == LabelledBy(r, status, x)
<1> DEFINE x1 == LabelStage(r, status, x)
           x2 == MatrixStage(f, r, x1)
           x3 == SlackStage(r, x2)
           x4 == PvPqStage(r, x3)
           x5 == InjectionStage(f, r, x4)
           x6 == TargetStage(TRUE, x5)
           x7 == WeightStage(r, x6)
<1>0. y = x7 /\ x1.c.lab = lab
  BY DEF Stages, LabelledBy
<1> HoldsUsed(f, x, lab)
  OBVIOUS
<1>1. LabelPost(r, status, x, x1)
  BY LabelStageDoes
<1>2. x1 \in WorkRecord /\ MatrixPost(f, r, x1, x2)
  BY <1>1, MatrixStageDoes DEF LabelPost
<1>3. x2 \in WorkRecord /\ SlackPost(r, x2, x3)
  BY <1>2, SlackStageDoes DEF MatrixPost
<1>4. x3 \in WorkRecord /\ PvPqPost(r, x3, x4)
  BY <1>3, PvPqStageDoes DEF SlackPost
<1>5. x4 \in WorkRecord /\ InjectionPost(f, r, x4, x5)
  BY <1>4, InjectionStageDoes DEF PvPqPost
<1>6. x5 \in WorkRecord /\ TargetPost(TRUE, x5, x6)
  BY <1>5, TargetStageDoes DEF InjectionPost
<1>7. x6 \in WorkRecord /\ WeightPost(r, x6, x7)
  BY <1>6, WeightStageDoes DEF TargetPost
<1> HIDE DEF y, lab, x1, x2, x3, x4, x5, x6, x7
<1>8. x1.c.lab = lab /\ x1.ok = x.ok /\ x1.c.slackMe = x.c.slackMe
  BY <1>0, <1>1 DEF LabelPost
<1>9. x2.ok = x.ok /\ x2.c.lab = lab /\ x2.c.slackMe = x.c.slackMe
  <2>1. x2 \in WorkRecord /\ x2.c.lab = lab /\ x2.c.slackMe = x.c.slackMe
    BY <1>2, <1>8 DEF MatrixPost
  <2>2. x2.ok <=> x.ok
    BY <1>2, <1>8 DEF HoldsUsed, MatrixPost, Runs
  <2> QED BY <2>1, <2>2 DEF WorkRecord
<1>10. x3.ok = x.ok /\ x3.c.lab = lab
  <2>1. x3 \in WorkRecord /\ x3.c.lab = lab
    BY <1>3, <1>9 DEF SlackPost
  <2>2. x3.ok <=> x.ok
    BY <1>3, <1>9 DEF HoldsUsed, SlackPost, Runs
  <2> QED BY <2>1, <2>2 DEF WorkRecord
<1>11. x4.ok = x.ok /\ x4.c.lab = lab
  <2>1. x4 \in WorkRecord /\ x4.c.lab = lab
    BY <1>4, <1>10 DEF PvPqPost
  <2>2. x4.ok <=> x.ok
    BY <1>4, <1>10 DEF HoldsUsed, PvPqPost, Runs
  <2> QED BY <2>1, <2>2 DEF WorkRecord
<1>12. x5.ok = x.ok /\ x5.c.lab = lab
  <2>1. x5 \in WorkRecord /\ x5.c.lab = lab
    BY <1>5, <1>11 DEF InjectionPost
  <2>2. x5.ok <=> x.ok
    BY <1>5, <1>11 DEF HoldsUsed, InjectionPost, Runs
  <2> QED BY <2>1, <2>2 DEF WorkRecord
<1>13. /\ x6.c.lab = lab
       /\ x6.ok <=> x.ok /\ TargetBuses \subseteq lab
  BY <1>6, <1>12 DEF TargetPost
<1>14. y.ok <=> x6.ok
  BY <1>0, <1>7, <1>13 DEF HoldsUsed, WeightPost, Runs
<1> QED BY <1>13, <1>14 DEF y, lab

(* Where each datum of the cache is labelled once the pipeline has run, or *)
(* thrown: as it was, or as the buses are now.  When the buses are         *)
(* labelled anew and the new labels hold the buses in use, the slack       *)
(* always is, and the PV and PQ buses and the injections both are or       *)
(* neither.                                                                *)
HoldsBuses(f, lab) == MatrixBuses(f) \cup PvClaims \cup InjectionBuses(f) \subseteq lab

LabelsPost(f, r, status, x, y) ==
    /\ y.c.slack.lab \in {x.c.slack.lab, y.c.lab}
    /\ y.c.pvpq.lab \in {x.c.pvpq.lab, y.c.lab}
    /\ y.c.inj.lab \in {x.c.inj.lab, y.c.lab}
    /\ Runs(x, r, LabelFlags) /\ HoldsBuses(f, status) =>
          /\ y.c.slack.lab = y.c.lab
          /\ \/ y.c.pvpq.lab = x.c.pvpq.lab /\ y.c.inj.lab = x.c.inj.lab
             \/ y.c.pvpq.lab = y.c.lab /\ y.c.inj.lab = y.c.lab

LEMMA StagesLabel ==
    ASSUME TypeOK, NEW f \in Families, NEW r, NEW status \in SUBSET Buses, NEW isPf,
           NEW x \in WorkRecord, NEW y, y = Stages(f, r, status, isPf, x)
    PROVE  LabelsPost(f, r, status, x, y)
<1> DEFINE x1 == LabelStage(r, status, x)
           x2 == MatrixStage(f, r, x1)
           x3 == SlackStage(r, x2)
           x4 == PvPqStage(r, x3)
           x5 == InjectionStage(f, r, x4)
           x6 == TargetStage(isPf, x5)
           x7 == WeightStage(r, x6)
<1>0. y = x7
  BY DEF Stages
<1>1. LabelPost(r, status, x, x1)
  BY LabelStageDoes
<1>2. x1 \in WorkRecord /\ MatrixPost(f, r, x1, x2)
  BY <1>1, MatrixStageDoes DEF LabelPost
<1>3. x2 \in WorkRecord /\ SlackPost(r, x2, x3)
  BY <1>2, SlackStageDoes DEF MatrixPost
<1>4. x3 \in WorkRecord /\ PvPqPost(r, x3, x4)
  BY <1>3, PvPqStageDoes DEF SlackPost
<1>5. x4 \in WorkRecord /\ InjectionPost(f, r, x4, x5)
  BY <1>4, InjectionStageDoes DEF PvPqPost
<1>6. x5 \in WorkRecord /\ TargetPost(isPf, x5, x6)
  BY <1>5, TargetStageDoes DEF InjectionPost
<1>7. x6 \in WorkRecord /\ WeightPost(r, x6, x7)
  BY <1>6, WeightStageDoes DEF TargetPost
<1> HIDE DEF x1, x2, x3, x4, x5, x6, x7
<1>8. /\ x1.c.slack = x.c.slack /\ x1.c.pvpq = x.c.pvpq /\ x1.c.inj = x.c.inj
      /\ x2.c.slack = x1.c.slack /\ x2.c.pvpq = x1.c.pvpq /\ x2.c.inj = x1.c.inj
      /\ x3.c.pvpq = x2.c.pvpq /\ x3.c.inj = x2.c.inj /\ x4.c.inj = x3.c.inj
      /\ x4.c.slack = x3.c.slack /\ x5.c.slack = x4.c.slack /\ x5.c.pvpq = x4.c.pvpq
  BY <1>1, <1>2, <1>3, <1>4, <1>5 DEF LabelPost, MatrixPost, SlackPost, PvPqPost, InjectionPost
<1>9. y.c.slack = x3.c.slack /\ y.c.pvpq = x4.c.pvpq /\ y.c.inj = x5.c.inj
  BY <1>0, <1>6, <1>7, <1>8 DEF TargetPost, WeightPost
<1>10. /\ x2.c.lab = y.c.lab /\ x3.c.lab = y.c.lab /\ x4.c.lab = y.c.lab
       /\ x1.c.lab = y.c.lab
  BY <1>0, <1>2, <1>3, <1>4, <1>5, <1>6, <1>7
     DEF MatrixPost, SlackPost, PvPqPost, InjectionPost, TargetPost, WeightPost
<1>11. y.c.slack.lab \in {x.c.slack.lab, y.c.lab}
  BY <1>3, <1>8, <1>9, <1>10 DEF SlackPost
<1>12. y.c.pvpq.lab \in {x.c.pvpq.lab, y.c.lab}
  BY <1>4, <1>8, <1>9, <1>10 DEF PvPqPost
<1>13. y.c.inj.lab \in {x.c.inj.lab, y.c.lab}
  BY <1>5, <1>8, <1>9, <1>10 DEF InjectionPost
<1>14. ASSUME Runs(x, r, LabelFlags), HoldsBuses(f, status)
       PROVE  /\ y.c.slack.lab = y.c.lab
              /\ \/ y.c.pvpq.lab = x.c.pvpq.lab /\ y.c.inj.lab = x.c.inj.lab
                 \/ y.c.pvpq.lab = y.c.lab /\ y.c.inj.lab = y.c.lab
  <2>1. /\ x.all \/ (AnyOf(MatFlags, r) /\ AnyOf(SlackFlags, r) /\ AnyOf(InjFlags, r))
        /\ x.ok /\ HoldsBuses(f, y.c.lab)
    BY <1>1, <1>10, <1>14, FlagsNested DEF Runs, LabelPost
  <2>2. x1.ok /\ x1.all = x.all
    BY <1>1, <2>1 DEF LabelPost
  <2>3. x2.ok /\ x2.all = x.all
    BY <1>2, <1>10, <2>1, <2>2 DEF MatrixPost, Runs, HoldsBuses
  <2>4. Runs(x2, r, SlackFlags)
    BY <2>1, <2>3 DEF Runs
  <2>5. y.c.slack.lab = y.c.lab
    BY <1>3, <1>9, <1>10, <2>4 DEF SlackPost
  <2>6. x3.all = x.all /\ x4.all = x.all
    BY <1>3, <1>4, <2>3 DEF SlackPost, PvPqPost
  <2>7. CASE x3.ok
    <3>1. Runs(x3, r, SlackFlags)
      BY <2>1, <2>6, <2>7 DEF Runs
    <3>2. x4.ok /\ y.c.pvpq.lab = y.c.lab
      BY <1>4, <1>9, <1>10, <2>1, <3>1 DEF PvPqPost, HoldsBuses
    <3>3. Runs(x4, r, InjFlags)
      BY <2>1, <2>6, <3>2 DEF Runs
    <3>4. y.c.inj.lab = y.c.lab
      BY <1>5, <1>9, <1>10, <2>1, <3>3 DEF InjectionPost, HoldsBuses, InjIs
    <3> QED BY <2>5, <3>2, <3>4
  <2>8. CASE ~x3.ok
    <3>1. x4 = x3 /\ x5 = x4
      BY <1>4, <1>5, <2>8 DEF PvPqPost, InjectionPost, Runs
    <3> QED BY <1>8, <1>9, <2>5, <3>1
  <2> QED BY <2>7, <2>8
<1> QED BY <1>11, <1>12, <1>13, <1>14 DEF LabelsPost

-----------------------------------------------------------------------------
(* The type invariant.                                                     *)

LEMMA CachedTyped ==
    ASSUME TypeOK, NEW f \in Families
    PROVE  Cached(f) \in WorkRecord /\ Cached(f).c = cache[f] /\ Cached(f).all = ~Usable(f)
           /\ Cached(f).ok
<1>1. (~Usable(f)) \in BOOLEAN
  BY DEF Usable
<1> QED BY <1>1 DEF Cached, WorkRecord, TypeOK

LEMMA AfterTyped ==
    ASSUME TypeOK, NEW refresh
    PROVE  /\ StatusAfter(refresh) \in SUBSET Buses
           /\ CtlAfter(refresh) \in [Families -> SUBSET Flags]
           /\ \A g \in Families :
                 /\ ctl[g] \subseteq CtlAfter(refresh)[g]
                 /\ refresh /\ snap[g] # LiveBuses => "dimension" \in CtlAfter(refresh)[g]
                 /\ ~refresh => CtlAfter(refresh)[g] = ctl[g]
<1>1. StatusAfter(refresh) \in SUBSET Buses
  BY LiveTyped DEF TypeOK, StatusAfter
<1>2. {"dimension"} \in SUBSET Flags /\ {} \in SUBSET Flags
  BY DEF Flags
<1> QED BY <1>1, <1>2 DEF TypeOK, CtlAfter

LEMMA PreparedTyped ==
    ASSUME TypeOK, NEW f \in Families
    PROVE  /\ PfIds(f) \in WorkRecord /\ SlackIdPost(ctl[f], Cached(f), PfIds(f))
           /\ PfFlags(f) \in SUBSET Flags
           /\ StagesPost(f, PfFlags(f), StatusAfter(PfRefresh(f)), PfIds(f), PfPrepared(f))
           /\ PfPrepared(f).c \in CacheRecord
<1>1. PfIds(f) \in WorkRecord /\ SlackIdPost(ctl[f], Cached(f), PfIds(f))
  BY CachedTyped, SlackIdStageDoes DEF PfIds, SlackIdPost
<1>2. StagesPost(f, PfFlags(f), StatusAfter(PfRefresh(f)), PfIds(f), PfPrepared(f))
  BY <1>1, AfterTyped, StagesDo DEF PfPrepared
<1>3. PfPrepared(f).c \in CacheRecord
  BY <1>2 DEF StagesPost, WorkRecord
<1>4. PfFlags(f) \in SUBSET Flags
  BY AfterTyped DEF PfFlags
<1> QED BY <1>1, <1>2, <1>3, <1>4

LEMMA CheckTyped ==
    ASSUME TypeOK, "AC" \in Families
    PROVE  /\ CheckIds \in WorkRecord /\ SlackIdPost(CheckFlags, Cached("AC"), CheckIds)
           /\ CheckFlags \in SUBSET Flags
           /\ StagesPost("AC", CheckFlags, StatusAfter(CheckRefresh), CheckIds, CheckPrepared)
           /\ CheckPrepared.c \in CacheRecord
<1>1. CheckIds \in WorkRecord /\ SlackIdPost(CheckFlags, Cached("AC"), CheckIds)
  BY CachedTyped, SlackIdStageDoes DEF CheckIds, SlackIdPost
<1>2. StagesPost("AC", CheckFlags, StatusAfter(CheckRefresh), CheckIds, CheckPrepared)
  BY <1>1, AfterTyped, StagesDo DEF CheckPrepared
<1>3. CheckPrepared.c \in CacheRecord
  BY <1>2 DEF StagesPost, WorkRecord
<1>4. CheckFlags \in SUBSET Flags
  BY DEF CheckFlags, AllChanged, NoneChanged
<1> QED BY <1>1, <1>2, <1>3, <1>4

LEMMA TellTyped ==
    ASSUME NEW f, NEW k \in SUBSET Flags
    PROVE  Tell(f, k) \in SUBSET Flags /\ k \subseteq Tell(f, k)
BY DEF Tell, AllChanged

(* A powerflow ends in one of five ways, on what its stages left.          *)
LEMMA PowerFlowEnds ==
    ASSUME NEW f, PowerFlow(f)
    PROVE  \/ PfThrows(f, PfRefresh(f), PfPrepared(f))
           \/ PfAlgorithmThrows(f, PfRefresh(f), PfPrepared(f))
           \/ PfDiverges(f, PfRefresh(f), PfPrepared(f))
           \/ PfResultsThrow(f, PfRefresh(f), PfPrepared(f))
           \/ PfConverges(f, PfRefresh(f), PfPrepared(f))
BY DEF PowerFlow

(* The steps of a powerflow are typed.                                     *)
LEMMA PowerFlowTyped ==
    ASSUME TypeOK, NEW f \in Families, PowerFlow(f)
    PROVE  TypeOK'
<1>1. Preparing(f, PfRefresh(f), PfPrepared(f))
  BY PowerFlowEnds DEF PfThrows, PfAlgorithmThrows, PfDiverges, PfResultsThrow, PfConverges, Converging
<1>2. ElementsTypeOK' /\ allow' \in [Families -> BOOLEAN]
      /\ forced' \in Buses \cup {NoBus} /\ snMva' \in Bases
  BY <1>1 DEF Preparing, TypeOK, ElementsTypeOK, elements
<1>3. cache' \in [Families -> CacheRecord]
  <2>1. cache' = [cache EXCEPT ![f] = PfPrepared(f).c]
    BY <1>1 DEF Preparing
  <2> QED BY <2>1, PreparedTyped DEF TypeOK
<1>4. busStatus' \in SUBSET Buses
  BY <1>1, AfterTyped DEF Preparing
<1>5. ctl' \in [Families -> SUBSET Flags] /\ snap' \in [Families -> SUBSET Buses]
  <2>1. KeepFlags(PfRefresh(f)) \/ MarkValid(f, PfRefresh(f))
    BY PowerFlowEnds DEF PfThrows, PfAlgorithmThrows, PfDiverges, PfResultsThrow, PfConverges
  <2> DEFINE after == CtlAfter(PfRefresh(f))
             status == StatusAfter(PfRefresh(f))
  <2>2. \/ ctl' = after /\ snap' = snap
        \/ ctl' = [after EXCEPT ![f] = {}] /\ snap' = [snap EXCEPT ![f] = status]
    BY <2>1 DEF KeepFlags, MarkValid, NoneChanged
  <2>3. after \in [Families -> SUBSET Flags] /\ status \in SUBSET Buses
    BY AfterTyped
  <2> HIDE DEF after, status
  <2> QED BY <2>2, <2>3 DEF TypeOK
<1>6. /\ ready' \in [Families -> BOOLEAN] /\ needsRebuild' \in [Families -> BOOLEAN]
      /\ told' \in [Families -> SUBSET Flags] /\ last' \in Families \cup {"none"}
  <2>1. \A k : ReadyAfter(f, k) \in BOOLEAN
    BY DEF ReadyAfter
  <2>2. Tell(f, PfFlags(f)) \in SUBSET Flags
    BY TellTyped, PreparedTyped
  <2>3. \/ told' = told
        \/ told' = [told EXCEPT ![f] = Tell(f, PfFlags(f))]
    BY PowerFlowEnds DEF PfThrows, PfAlgorithmThrows, PfDiverges, PfResultsThrow, PfConverges,
                         Converging, Telling, PfFlags
  <2>4. /\ \/ ready' = [ready EXCEPT ![f] = ReadyAfter(f, ctl[f])]
           \/ \E r \in BOOLEAN : ready' = [ready EXCEPT ![f] = r]
        /\ needsRebuild' = needsRebuild \/ \E r \in BOOLEAN : needsRebuild' = [needsRebuild EXCEPT ![f] = r]
        /\ last' \in {f, "none"}
    BY PowerFlowEnds DEF PfThrows, PfAlgorithmThrows, PfDiverges, PfResultsThrow, PfConverges,
                         Converging
  <2> QED BY <2>1, <2>2, <2>3, <2>4 DEF TypeOK
<1> QED BY <1>2, <1>3, <1>4, <1>5, <1>6 DEF TypeOK

LEMMA CheckSolutionTyped ==
    ASSUME TypeOK, CheckSolution
    PROVE  TypeOK'
<1>1. "AC" \in Families /\ UNCHANGED <<elements, snap, allow, needsRebuild, forced, snMva>>
  BY DEF CheckSolution
<1>2. cache' \in [Families -> CacheRecord]
  BY <1>1, CheckTyped DEF CheckSolution, TypeOK
<1>3. busStatus' \in SUBSET Buses /\ ctl' \in [Families -> SUBSET Flags]
  BY AfterTyped DEF CheckSolution
<1>4. told' \in [Families -> SUBSET Flags]
  BY <1>1, TellTyped, CheckTyped DEF CheckSolution, TypeOK
<1>5. ready' \in [Families -> BOOLEAN] /\ last' \in Families \cup {"none"}
  BY DEF CheckSolution, TypeOK, ReadyAfter
<1> QED BY <1>1, <1>2, <1>3, <1>4, <1>5 DEF TypeOK, ElementsTypeOK, elements

Typed == TypeOK /\ StatusConsistent

(* A cache that was never filled.                                          *)
LEMMA ColdTyped == Cold \in CacheRecord
<1>1. NoSlack \in SlackRecord /\ EmptyMatrix \in MatrixRecord /\ NoInjections \in InjectionRecord
  BY DEF NoSlack, SlackRecord, EmptyMatrix, MatrixRecord, NoInjections, InjectionRecord
<1> QED BY <1>1 DEF Cold, CacheRecord

LEMMA InitTyped == Init => Typed
<1> SUFFICES ASSUME Init PROVE Typed
  OBVIOUS
<1> /\ AllChanged \in SUBSET Flags
    /\ {} \in SUBSET Buses
  BY DEF AllChanged
<1>1. TypeOK
  BY ColdTyped DEF Init, TypeOK
<1>2. StatusConsistent
  BY <1>1 DEF Init, StatusConsistent, TypeOK, ElementsTypeOK, BranchRecord
<1> QED BY <1>1, <1>2 DEF Typed

LEMMA NextTyped == Typed /\ [Next]_vars => Typed'
<1> SUFFICES ASSUME Typed, [Next]_vars PROVE Typed'
  OBVIOUS
<1> TypeOK /\ StatusConsistent
  BY DEF Typed
<1> /\ AllChanged \in SUBSET Flags /\ NoneChanged \in SUBSET Flags
    /\ {"slack_part"} \in SUBSET Flags /\ {"slack_part", "slack_weight"} \in SUBSET Flags
    /\ {"reset"} \in SUBSET Flags /\ {} \in SUBSET Flags
  BY DEF AllChanged, NoneChanged, Flags
<1>0. UNCHANGED branch => StatusConsistent'
  BY DEF StatusConsistent
<1>1. CASE Modify
  <2>1. ElementsTypeOK' /\ CtlTypeOK' /\ KeepsConsistent
    BY <1>1, ElementTyped DEF Modify, TypeOK, CtlTypeOK
  <2>2. StatusConsistent'
    <3>1. ConsistentOn(Branches)'
      BY <2>1, ConsistentEverywhere DEF KeepsConsistent
    <3>2. (StatusConsistent <=> ConsistentOn(Branches))'
      BY ConsistentEverywhere, PTL
    <3> QED BY <3>1, <3>2
  <2> QED BY <1>1, <2>1, <2>2 DEF Modify, TypeOK, CtlTypeOK, Typed
<1>2. ASSUME NEW f \in Families, PowerFlow(f)
      PROVE  Typed'
  <2>1. UNCHANGED branch
    BY <1>2, PowerFlowEnds DEF PfThrows, PfAlgorithmThrows, PfDiverges, PfResultsThrow, PfConverges,
                Converging, Preparing, elements
  <2> QED BY <1>0, <1>2, <2>1, PowerFlowTyped DEF Typed
<1>3. CASE CheckSolution
  BY <1>0, <1>3, CheckSolutionTyped DEF CheckSolution, elements, Typed
<1>4. ASSUME NEW f \in Families, NEW allowed \in BOOLEAN, AllowCacheReuse(f, allowed)
      PROVE  Typed'
  BY <1>0, <1>4 DEF AllowCacheReuse, TypeOK, ElementsTypeOK, elements, Typed
<1>5. ASSUME NEW f \in Families, PreventReuse(f)
      PROVE  Typed'
  BY <1>0, <1>5 DEF PreventReuse, PreventCacheReuse, TypeOK, ElementsTypeOK, elements, Typed
<1>6. CASE UnsetChanges
  BY <1>0, <1>6 DEF UnsetChanges, TypeOK, ElementsTypeOK, elements, Typed
<1>7. ASSUME NEW flag \in {"ybus", "sbus", "sparsity"}, TellChanged(flag)
      PROVE  Typed'
  <2>1. CtlTypeOK'
    BY <1>7, RaiseTyped DEF TellChanged, Raise, TypeOK, CtlTypeOK, Flags
  <2> QED BY <1>0, <1>7, <2>1 DEF TellChanged, TypeOK, CtlTypeOK, ElementsTypeOK, elements, Typed
<1>8. ASSUME NEW f \in Families, NEW same \in BOOLEAN, ChangeAlgorithm(f, same)
      PROVE  Typed'
  <2>1. (ready[f] /\ same) \in BOOLEAN
    OBVIOUS
  <2> QED BY <1>0, <1>8, <2>1 DEF ChangeAlgorithm, TypeOK, ElementsTypeOK, elements, Typed
<1>9. ASSUME NEW base \in Bases, SetSnMva(base)
      PROVE  Typed'
  BY <1>0, <1>9 DEF SetSnMva, PreventCacheReuse, TypeOK, ElementsTypeOK, elements, Typed
<1>10. ASSUME NEW b \in Buses \cup {NoBus}, SetReferenceSlackBus(b)
       PROVE  Typed'
  <2>1. CtlTypeOK'
    BY <1>10, RaiseTyped DEF SetReferenceSlackBus, Raise, TypeOK, CtlTypeOK
  <2> QED BY <1>0, <1>10, <2>1
          DEF SetReferenceSlackBus, TypeOK, CtlTypeOK, ElementsTypeOK, elements, Typed
<1> DEFINE moved(b) == [g \in Gens |-> [gen[g] EXCEPT !.weight =
                                            IF g \in Producing(b) THEN gen[g].p ELSE 0]]
           forgot == [f \in Families |->
                         [cache[f] EXCEPT !.slack = [lab |-> {}, val |-> NoSlack],
                                          !.wts = [lab |-> {}, val |-> {}]]]
<1>11. /\ \A b : moved(b) \in [Gens -> GenRecord]
       /\ forgot \in [Families -> CacheRecord]
  <2>1. \A b : moved(b) \in [Gens -> GenRecord]
    BY ElementsAssumption DEF TypeOK, ElementsTypeOK, GenRecord
  <2>2. [lab |-> {}, val |-> NoSlack] \in [lab : SUBSET Buses, val : SlackRecord]
    BY DEF NoSlack, SlackRecord
  <2>3. \A c \in CacheRecord : [c EXCEPT !.slack = [lab |-> {}, val |-> NoSlack],
                                         !.wts = [lab |-> {}, val |-> {}]] \in CacheRecord
    BY <2>2 DEF CacheRecord
  <2> QED BY <2>1, <2>3 DEF TypeOK
<1>12. CASE AssignSlack
  <2>1. CtlTypeOK'
    BY <1>12, RaiseTyped DEF AssignSlack, Raise, TypeOK, CtlTypeOK
  <2>2. gen' = moved(MostConnected) /\ cache' = forgot
    BY <1>12 DEF AssignSlack, MoveSlack, ForgetSlack
  <2> HIDE DEF moved, forgot
  <2> QED BY <1>0, <1>11, <1>12, <2>1, <2>2
          DEF AssignSlack, TypeOK, CtlTypeOK, ElementsTypeOK, Typed
<1>13. CASE AssignNoSlack
  <2>1. gen' = moved(MostConnected) /\ (cache' = forgot \/ cache' = cache)
    BY <1>13 DEF AssignNoSlack, MoveSlack, ForgetSlack
  <2> HIDE DEF moved, forgot
  <2> QED BY <1>0, <1>11, <1>13, <2>1 DEF AssignNoSlack, TypeOK, ElementsTypeOK, Typed
<1>14. ASSUME NEW b \in Buses, DeactivateBus(b) \/ ReactivateBus(b)
       PROVE  Typed'
  BY <1>0, <1>14
     DEF DeactivateBus, ReactivateBus, SetBusStatus, TypeOK, ElementsTypeOK, elements, Typed
<1>15. CASE CopyGrid
  <2>1. NoSlack \in SlackRecord /\ EmptyMatrix \in MatrixRecord /\ NoInjections \in InjectionRecord
    BY DEF NoSlack, SlackRecord, EmptyMatrix, MatrixRecord, NoInjections, InjectionRecord
  <2>2. Cold \in CacheRecord
    BY <2>1 DEF Cold, CacheRecord
  <2> QED BY <1>0, <1>15, <2>2 DEF CopyGrid, TypeOK, ElementsTypeOK, elements, Typed
<1>16. CASE UNCHANGED vars
  BY <1>0, <1>16 DEF vars, elements, solver, TypeOK, ElementsTypeOK, Typed
<1> QED
  BY <1>1, <1>2, <1>3, <1>4, <1>5, <1>6, <1>7, <1>8, <1>9, <1>10, <1>12, <1>13, <1>14, <1>15,
     <1>16 DEF Next

(* Every variable has its type, in every state of every grid.              *)
THEOREM TypeCorrect == Spec => []TypeOK
<1>1. Typed => TypeOK
  BY DEF Typed
<1> QED BY <1>1, InitTyped, NextTyped, PTL DEF Spec

(* The three statuses of every branch agree in every state.                *)
THEOREM StatusesAgree == Spec => []StatusConsistent
<1>1. Typed => StatusConsistent
  BY DEF Typed
<1> QED BY <1>1, InitTyped, NextTyped, PTL DEF Spec
=============================================================================
