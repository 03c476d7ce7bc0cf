----------------------------- MODULE CacheReuse -----------------------------
(***************************************************************************)
(* What must hold of the cache of LSGrid: the properties of the runs, and  *)
(* the invariant behind them.                                              *)
(***************************************************************************)
EXTENDS LSGrid

(* The values the matrices, the injections and the weights are made of.    *)
EndsSet      == SUBSET (Sides \X Buses)
BranchStamps == [id : Branches, ends : EndsSet, ratio : Ratios, shift : Shifts]
PowerStamps(Ids) == [id : Ids, bus : Buses, p : Levels]
ShuntStamps  == [id : Shunts, bus : Buses, p : Levels, q : Levels]
WeightStamps == [id : Gens, bus : Buses, weight : SlackWeights \cup Levels]

SlackRecord  == [buses : SUBSET Buses, reference : Buses \cup {NoBus}]
MatrixRecord == [branches : SUBSET BranchStamps, shunts : SUBSET ShuntStamps]
InjectionRecord == [loads : SUBSET PowerStamps(Loads), gens : SUBSET PowerStamps(Gens),
                    shunts : SUBSET PowerStamps(Shunts), shifts : SUBSET BranchStamps]
CacheRecord ==
    [lab     : SUBSET Buses,
     mat     : [lab : SUBSET Buses, val : MatrixRecord, base : Bases \cup {NoBus}],
     slackMe : SlackRecord,
     slack   : [lab : SUBSET Buses, val : SlackRecord],
     pvpq    : [lab : SUBSET Buses, pv : SUBSET Buses, pq : SUBSET Buses],
     inj     : [lab : SUBSET Buses, val : InjectionRecord, base : Bases \cup {NoBus}],
     wts     : [lab : SUBSET Buses, val : SUBSET WeightStamps]]

(* Every variable has its type.                                            *)
TypeOK ==
    /\ ElementsTypeOK
    /\ ctl \in [Families -> SUBSET Flags]
    /\ cache \in [Families -> CacheRecord]
    /\ busStatus \in SUBSET Buses
    /\ snap \in [Families -> SUBSET Buses]
    /\ allow \in [Families -> BOOLEAN]
    /\ needsRebuild \in [Families -> BOOLEAN]
    /\ told \in [Families -> SUBSET Flags]
    /\ ready \in [Families -> BOOLEAN]
    /\ forced \in Buses \cup {NoBus}
    /\ snMva \in Bases
    /\ last \in Families \cup {"none"}

(* The three statuses of a branch agree: the sides follow each other when  *)
(* they are synchronised, and the global status follows them when they     *)
(* agree, unless it is ignored (resolve_status).                           *)
StatusConsistent ==
    \A b \in Branches :
        /\ b \in SynchSides => branch[b].on1 = branch[b].on2
        /\ IF b \in IgnoreGlobal THEN branch[b].global
           ELSE branch[b].on1 = branch[b].on2 => branch[b].global = branch[b].on1

(* The clients the properties below are about.  deactivate_bus and         *)
(* reactivate_bus raise no flag, unset_changes drops those of a family     *)
(* that caches by itself, the slack may be moved only to generators, and   *)
(* in DC a transformer that shifts is neither opened on one side nor given *)
(* another ratio: after any of these a powerflow may answer for a grid     *)
(* that is no more (README.md, "What the code does that it says it does    *)
(* not").                                                                  *)
SoundClient ==
    /\ Calls \cap {"deactivate_bus", "reactivate_bus", "unset_changes",
                    "assign_slack_without_producer"} = {}
    /\ \/ "DC" \notin Families
       \/ Shifts = {0}
       \/ Calls \cap {"deactivate_side", "change_ratio_trafo"} = {}

-----------------------------------------------------------------------------
(* Each datum of a cache `c` against what a rebuild would give.            *)

MatIs(f, c)   == c.mat = [lab |-> c.lab, val |-> Matrix(f), base |-> snMva]
InjIs(f, c)   == c.inj = [lab |-> c.lab, val |-> Injections(f), base |-> snMva]
IdsAre(c)     == SlackGens # {} /\ c.slackMe = SlackIds(forced)
SlackIs(c)    == /\ SlackGens # {} /\ SlackBuses \subseteq c.lab
                 /\ c.slack = [lab |-> c.lab, val |-> SlackIds(forced)]
PvPqIs(c)     == c.pvpq = [lab |-> c.lab, pv |-> PvBuses(SlackBuses),
                           pq |-> PqBuses(c.lab, SlackBuses)]
WtsIs(c)      == c.wts = [lab |-> c.lab, val |-> SlackWeightsOf]

GenBuses == {gen[g].bus : g \in Gens}
LabCovers(c) == /\ FixedBuses \subseteq c.lab
                /\ c.lab \subseteq FixedBuses \cup GenBuses

(* The change flags say enough: whatever no flag of the family asks to     *)
(* rebuild is, in its cache, exactly what a rebuild would give.  Every     *)
(* modification method owes this to the next powerflow (LSGrid.hpp,        *)
(* "cache reuse").                                                         *)
Clean(f, flags) == ~AnyOf(flags, ctl[f])
LabelClean(f)  == Clean(f, RedoFlags) => cache[f].lab = snap[f] /\ busStatus = snap[f]
StatusClean(f) == Clean(f, StatusFlags) => LabCovers(cache[f])
MatClean(f)    == Clean(f, MatFlags) => MatIs(f, cache[f])
IdsClean(f)    == Clean(f, SlackIdFlags) => IdsAre(cache[f])
SlackClean(f)  == Clean(f, SlackFlags) => SlackIs(cache[f]) /\ PvPqIs(cache[f])
InjClean(f)    == Clean(f, InjFlags) => InjIs(f, cache[f])
WtsClean(f)    == Clean(f, WeightFlags) => WtsIs(cache[f])

FamilyClean(f) == /\ LabelClean(f) /\ StatusClean(f) /\ MatClean(f) /\ IdsClean(f)
                  /\ SlackClean(f) /\ InjClean(f) /\ WtsClean(f)
FlagsSuffice == \A f \in Families : FamilyClean(f)

(* A powerflow that returns results was computed on the matrix, the        *)
(* injections, the slack, PV and PQ buses and the weights of the grid as   *)
(* it is, all in the same labelling, which holds every bus that carries a  *)
(* load, a shunt or a branch.                                              *)
IsFresh(f, c) == /\ MatIs(f, c) /\ InjIs(f, c) /\ SlackIs(c) /\ PvPqIs(c) /\ WtsIs(c)
                 /\ LabCovers(c)
AnswerIsCurrent == \A f \in Families : last = f => IsFresh(f, cache[f])

(* The same as a refinement: LSGrid keeps the promise of PowerflowPromise. *)
PictureOf(f) == [matrix |-> Matrix(f), injections |-> Injections(f), base |-> snMva,
                 slack |-> IF SlackGens = {} THEN NoSlack ELSE SlackIds(forced),
                 pv |-> PvBuses(SlackBuses), weights |-> SlackWeightsOf]
SolvedOf(f)  == [matrix |-> cache[f].mat.val, injections |-> cache[f].inj.val,
                 base |-> cache[f].mat.base, slack |-> cache[f].slack.val,
                 pv |-> cache[f].pvpq.pv, weights |-> cache[f].wts.val]

Promise == INSTANCE PowerflowPromise WITH
               picture <- [f \in Families |-> PictureOf(f)],
               answer  <- {[family |-> f, solved |-> SolvedOf(f)] : f \in {g \in Families : last = g}}
KeepsPromise == Promise!Spec

(* "The answer is identical either way" (LSGrid.hpp, allow_ac_cache_reuse): *)
(* the next powerflow prepares the same data whether it reuses the cache   *)
(* of the family or rebuilds everything from nothing, and throws in the    *)
(* one case when it does in the other.                                     *)
Fresh(f)    == [ok |-> TRUE, all |-> TRUE, c |-> Cold]
FreshPrepared(f) == Stages(f, AllChanged, LiveBuses, TRUE, SlackIdStage(AllChanged, Fresh(f)))
ReuseIsInvisible ==
    \A f \in Families :
        LET reused == PfPrepared(f)
            fresh  == FreshPrepared(f)
        IN reused.ok = fresh.ok /\ (reused.ok => reused.c = fresh.c)

(* The guard on sizes is enough for the indices: however few flags the     *)
(* client raises, a powerflow gives its algorithm a matrix and vectors of  *)
(* one size, and slack, PV and PQ positions below it ("can then cost time, *)
(* never memory safety", LSGrid.cpp).                                      *)
SameSize(c) ==
    LET n == Cardinality(c.lab)
    IN /\ Cardinality(c.mat.lab) = n /\ Cardinality(c.inj.lab) = n /\ Cardinality(c.wts.lab) = n
       /\ Cardinality(c.slack.lab) = n /\ Cardinality(c.pvpq.lab) = n
SizesAgree == \A f \in Families : LET x == PfPrepared(f) IN x.ok => SameSize(x.c)

(* The clients that extend no pattern.  The flag that does, and it alone,  *)
(* labels the buses anew without the slack weights: after it the weights   *)
(* may keep the size of the labelling before, if that changed under a      *)
(* client that also drops flags.                                           *)
KeepsPattern ==
    Calls \cap {"reactivate_branch", "reactivate_side", "change_bus_branch", "tell_changed"} = {}

(* What the sizes rest on for them: no flag but those that redo everything *)
(* labels the buses anew, and a cache, whichever stage threw last, has as  *)
(* many PV and PQ labels as injections and, unless the weights are gone,   *)
(* as many slack labels as buses.  The guard compares the rest.            *)
SparsityRedone == \A f \in Families : "sparsity" \in ctl[f] => AnyOf(RedoFlags, ctl[f])
SizesFollow(c) ==
    /\ Cardinality(c.pvpq.lab) = Cardinality(c.inj.lab)
    /\ Cardinality(c.slack.lab) = Cardinality(c.lab) \/ c.wts.lab = {}
SizesGuarded == SparsityRedone /\ \A f \in Families : SizesFollow(cache[f])

-----------------------------------------------------------------------------
(* Steps.                                                                  *)

(* Only a powerflow of the family drops a flag of the family, and only     *)
(* after the algorithm was handed every flag that it drops.                *)
Solved(f) == last' = f \/ needsRebuild'[f]
FlagsOutliveFailures ==
    [][\A f \in Families :
          ~(ctl[f] \subseteq ctl'[f]) => Solved(f) /\ ctl[f] \subseteq told'[f]]_vars

(* The algorithm of f lost its internals, and nothing is left to tell the  *)
(* next powerflow of it: no flag, no divergence before, no unusable cache. *)
Forgotten(f) == ~ready[f] /\ "reset" \notin ctl[f] /\ ~needsRebuild[f] /\ Usable(f)

(* The calls that may leave it so.  An unusable cache resets the algorithm *)
(* without a flag, and when the call ends before the algorithm has run,    *)
(* with a cache that is usable again, nothing remembers the reset: that is *)
(* so of a check_solution, of an algorithm that throws, and of what a full *)
(* rebuild may throw on midway, a slack bus or a regulated bus out of      *)
(* service.  The two others make the cache usable, or drop the flag.       *)
Forgetting(f) ==
    \/ ~Usable(f) /\ f = "AC" /\ CheckSolution
    \/ ~Usable(f) /\ PfAlgorithmThrows(f, PfRefresh(f), PfPrepared(f))
    \/ /\ ~Usable(f) /\ ~(SlackBuses \cup TargetBuses \subseteq LiveBuses)
       /\ PfThrows(f, PfRefresh(f), PfPrepared(f))
    \/ AllowCacheReuse(f, TRUE)
    \/ UnsetChanges

(* An algorithm that was reset, replaced or never run is told to rebuild   *)
(* before it answers ("all it is promised is the AlgoControl it is handed",*)
(* LSGrid.cpp), through divergences, failures, replaced algorithms, resets *)
(* asked for and copies of the grid: no call makes the grid forget it but  *)
(* the five above.                                                         *)
Tells(f) == last' = f /\ ~ready[f] => "reset" \in told'[f]
Remembers(f) == Forgotten(f)' => Forgotten(f) \/ Forgetting(f)
ResetIsTold == [][\A f \in Families : (~Forgotten(f) => Tells(f)) /\ Remembers(f)]_vars

(* "if a bus is deactivated, but an element is still connected to it, it   *)
(* will throw an exception" (LSGrid.hpp, deactivate_bus).                  *)
DeactivatedBusIsRefused == last # "none" => LiveBuses \subseteq busStatus
=============================================================================
