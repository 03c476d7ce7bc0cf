------------------------------- MODULE LSGrid -------------------------------
(***************************************************************************)
(* The powerflows of a grid and the cache that carries them from one solve *)
(* to the next.  Each solver family (AC, DC) keeps what its last powerflow *)
(* built: the bus labelling, the matrix, the injections, the slack, PV and *)
(* PQ buses and the slack weights.  The next one rebuilds only what the    *)
(* change flags of the family ask for, in a pipeline of stages each of     *)
(* which may throw and leave the rest of the cache as it was.              *)
(***************************************************************************)
EXTENDS Stamps

CONSTANTS Bases          \* the values of sn_mva_, the base of the per-unit system

ASSUME LSGridAssumption == Bases # {} /\ Buses \subseteq Nat

VARIABLES cache,         \* [Families -> CacheRecord]: the solver-side data
          busStatus,     \* the buses SubstationContainer holds as connected
          snap,          \* last_bus_status_saved_ / last_bus_status_dc_
          allow,         \* allow_ac_cache_reuse_ / allow_dc_cache_reuse_
          needsRebuild,  \* ac_algo_needs_rebuild_ / dc_algo_needs_rebuild_
          told,          \* the AlgoControl last handed to the algorithm
          ready,         \* has the algorithm run to the end since its last reset?
          forced,        \* _forced_ref_slack_bus_id
          snMva,         \* sn_mva_
          last           \* the family whose powerflow has just given its results

solver == <<cache, busStatus, snap, allow, needsRebuild, told, ready, forced, snMva, last>>
vars   == <<elements, ctl, solver>>

NoBus  == -1
NoSlack == [buses |-> {}, reference |-> NoBus]

(* The cache of a family.  Each datum carries the labelling its indices    *)
(* refer to, the empty labelling standing for a default-constructed datum. *)
Cold == [lab     |-> {},
         mat     |-> [lab |-> {}, val |-> EmptyMatrix, base |-> NoBus],
         slackMe |-> NoSlack,
         slack   |-> [lab |-> {}, val |-> NoSlack],
         pvpq    |-> [lab |-> {}, pv |-> {}, pq |-> {}],
         inj     |-> [lab |-> {}, val |-> NoInjections, base |-> NoBus],
         wts     |-> [lab |-> {}, val |-> {}]]

(* Mutant: nothing is asked of the weights.                                *)
UsableWeightless(f) ==
    LET c == cache[f]
        n == Cardinality(c.lab)
    IN /\ allow[f]
       /\ n # 0
       /\ Cardinality(c.mat.lab) = n
       /\ Cardinality(c.inj.lab) = n
       /\ Cardinality(c.pvpq.pv) + Cardinality(c.pvpq.pq) <= n

(* cache_unusable, negated: only the sizes are compared.                   *)
Usable(f) ==
    LET c == cache[f]
        n == Cardinality(c.lab)
    IN /\ allow[f]
       /\ n # 0
       /\ Cardinality(c.mat.lab) = n
       /\ Cardinality(c.inj.lab) = n
       /\ Cardinality(c.wts.lab) = n
       /\ Cardinality(c.pvpq.pv) + Cardinality(c.pvpq.pq) <= n

-----------------------------------------------------------------------------
(* The stages of _pre_process_solver_impl for the family f.  `x` holds the *)
(* cache so far, whether no stage has thrown, and whether everything is    *)
(* rebuilt whatever the flags; `k` is the set of flags the stage reads.    *)
(* `Put` is what a stage leaves: did it throw, and the cache it wrote.     *)

Runs(x, k, flags) == x.ok /\ (x.all \/ AnyOf(flags, k))
Put(x, ok, c) == [ok |-> ok, all |-> x.all, c |-> c]
Throw(x) == Put(x, FALSE, x.c)

SlackIdStage(k, x) ==
    IF ~Runs(x, k, SlackIdFlags) THEN x
    ELSE IF SlackGens = {} THEN Throw(x)
    ELSE Put(x, TRUE, [x.c EXCEPT !.slackMe = SlackIds(forced)])

LabelStage(k, status, x) ==
    IF ~Runs(x, k, LabelFlags) THEN x
    ELSE Put(x, TRUE, [x.c EXCEPT !.lab = status,
                                  !.mat = [lab |-> status, val |-> EmptyMatrix, base |-> snMva]])

(* The matrix is emptied before the elements are asked for their terms.    *)
MatrixStage(f, k, x) ==
    IF ~Runs(x, k, MatFlags) THEN x
    ELSE LET ok == MatrixBuses(f) \subseteq x.c.lab
         IN Put(x, ok, [x.c EXCEPT !.mat = [lab |-> x.c.lab, base |-> snMva,
                                            val |-> IF ok THEN Matrix(f) ELSE EmptyMatrix]])

(* init_slack_bus: on an exception the vector is sized but not filled.     *)
SlackStage(k, x) ==
    IF ~Runs(x, k, SlackFlags) THEN x
    ELSE LET ok == x.c.slackMe.buses \subseteq x.c.lab
         IN Put(x, ok, [x.c EXCEPT !.slack = [lab |-> x.c.lab,
                                              val |-> IF ok THEN x.c.slackMe ELSE NoSlack]])

(* fillpv_pq: both vectors are emptied first.                              *)
PvPqStage(k, x) ==
    IF ~Runs(x, k, SlackFlags) THEN x
    ELSE LET ok    == PvClaims \subseteq x.c.lab
             slack == x.c.slack.val.buses
         IN Put(x, ok, [x.c EXCEPT !.pvpq = [lab |-> x.c.lab,
                                             pv |-> IF ok THEN PvBuses(slack) ELSE {},
                                             pq |-> IF ok THEN PqBuses(x.c.lab, slack) ELSE {}]])

(* prepare_injection: the AC vector is filled in place, the DC one is      *)
(* assigned once it is complete.                                           *)
InjectionStage(f, k, x) ==
    IF ~Runs(x, k, InjFlags) THEN x
    ELSE IF InjectionBuses(f) \subseteq x.c.lab
    THEN Put(x, TRUE, [x.c EXCEPT !.inj = [lab |-> x.c.lab, val |-> Injections(f), base |-> snMva]])
    ELSE IF f = "AC"
    THEN Put(x, FALSE, [x.c EXCEPT !.inj = [lab |-> x.c.lab, val |-> NoInjections, base |-> snMva]])
    ELSE Throw(x)

(* set_vm: only a powerflow starts from the voltage targets.               *)
TargetStage(isPf, x) ==
    IF x.ok /\ isPf /\ ~(TargetBuses \subseteq x.c.lab) THEN Throw(x) ELSE x

WeightStage(k, x) ==
    IF ~Runs(x, k, WeightFlags) THEN x
    ELSE IF WeightedBuses \subseteq x.c.lab
    THEN Put(x, TRUE, [x.c EXCEPT !.wts = [lab |-> x.c.lab, val |-> SlackWeightsOf]])
    ELSE Throw(x)

(* init_bus_status, part of the pipeline: the status of the buses is       *)
(* computed anew, and each family whose snapshot differs is told that the  *)
(* dimension changed.                                                      *)
Refreshes(k, x) == Runs(x, k, StatusFlags)
StatusAfter(refresh) == IF refresh THEN LiveBuses ELSE busStatus
CtlAfter(refresh) ==
    IF refresh
    THEN [g \in Families |-> ctl[g] \cup (IF snap[g] # LiveBuses THEN {"dimension"} ELSE {})]
    ELSE ctl

Stages(f, r, status, isPf, x) ==
    LET x1 == LabelStage(r, status, x)
        x2 == MatrixStage(f, r, x1)
        x3 == SlackStage(r, x2)
        x4 == PvPqStage(r, x3)
        x5 == InjectionStage(f, r, x4)
        x6 == TargetStage(isPf, x5)
    IN WeightStage(r, x6)

(* A powerflow reads the flags of its family, and sees the one that        *)
(* init_bus_status may raise meanwhile; check_solution brings its own set  *)
(* of flags, which nobody changes.                                         *)
Cached(f)    == [ok |-> TRUE, all |-> ~Usable(f), c |-> cache[f]]
PfIds(f)     == SlackIdStage(ctl[f], Cached(f))
PfRefresh(f) == Refreshes(ctl[f], PfIds(f))
PfFlags(f)   == CtlAfter(PfRefresh(f))[f]
PfPrepared(f) == Stages(f, PfFlags(f), StatusAfter(PfRefresh(f)), TRUE, PfIds(f))

CheckFlags == IF cache["AC"].lab = {} THEN AllChanged ELSE NoneChanged
CheckIds      == SlackIdStage(CheckFlags, Cached("AC"))
CheckRefresh  == Refreshes(CheckFlags, CheckIds)
CheckPrepared == Stages("AC", CheckFlags, StatusAfter(CheckRefresh), FALSE, CheckIds)

(* The algorithm is reset before the first stage.                          *)
Resets(f, k) == ~Usable(f) \/ "reset" \in k
ReadyAfter(f, k) == ready[f] /\ ~Resets(f, k)
TellHanded(f, k) == IF ~Usable(f) THEN AllChanged ELSE k    \* mutant of Tell
Tell(f, k) == IF ~Usable(f) \/ needsRebuild[f] THEN AllChanged ELSE k

-----------------------------------------------------------------------------
(* ac_pf and dc_pf.                                                        *)

PfCall(f) == Calling(IF f = "AC" THEN "ac_pf" ELSE "dc_pf")

Preparing(f, refresh, x) ==
    /\ PfCall(f)
    /\ cache' = [cache EXCEPT ![f] = x.c]
    /\ busStatus' = StatusAfter(refresh)
    /\ UNCHANGED <<elements, allow, forced, snMva>>

KeepFlags(refresh) == ctl' = CtlAfter(refresh) /\ UNCHANGED snap

(* _mark_cache_valid, unless the family may not reuse its cache.           *)
MarkValid(f, refresh) ==
    IF allow[f]
    THEN /\ ctl' = [CtlAfter(refresh) EXCEPT ![f] = NoneChanged]
         /\ snap' = [snap EXCEPT ![f] = StatusAfter(refresh)]
    ELSE KeepFlags(refresh)

(* A stage throws: the flags stay raised.                                  *)
PfThrows(f, refresh, x) ==
    /\ Preparing(f, refresh, x) /\ ~x.ok
    /\ KeepFlags(refresh)
    /\ ready' = [ready EXCEPT ![f] = ReadyAfter(f, ctl[f])]
    /\ last' = "none"
    /\ UNCHANGED <<needsRebuild, told>>

Telling(f, refresh, x) == x.ok /\ told' = [told EXCEPT ![f] = Tell(f, CtlAfter(refresh)[f])]

(* Mutant: an algorithm that throws is taken for one that diverged.        *)
PfAlgorithmThrowsMarked(f, refresh, x) ==
    /\ Preparing(f, refresh, x) /\ Telling(f, refresh, x)
    /\ MarkValid(f, refresh)
    /\ ready' = [ready EXCEPT ![f] = ReadyAfter(f, ctl[f])]
    /\ last' = "none"
    /\ UNCHANGED needsRebuild

(* The algorithm throws, or a plugin returns vectors of the wrong size.    *)
PfAlgorithmThrows(f, refresh, x) ==
    /\ Preparing(f, refresh, x) /\ Telling(f, refresh, x)
    /\ KeepFlags(refresh)
    /\ ready' = [ready EXCEPT ![f] = ReadyAfter(f, ctl[f])]
    /\ last' = "none"
    /\ UNCHANGED needsRebuild

PfDiverges(f, refresh, x) ==
    /\ Preparing(f, refresh, x) /\ Telling(f, refresh, x)
    /\ MarkValid(f, refresh)
    /\ ready' = [ready EXCEPT ![f] = FALSE]
    /\ needsRebuild' = [needsRebuild EXCEPT ![f] = TRUE]
    /\ last' = "none"

(* The results of every connected element and of every connected bus are   *)
(* read through the labelling.                                             *)
Readable(refresh, x) ==
    LiveBuses \subseteq x.c.lab /\ StatusAfter(refresh) \subseteq x.c.lab

Converging(f, refresh, x) ==
    /\ Preparing(f, refresh, x) /\ Telling(f, refresh, x)
    /\ ready' = [ready EXCEPT ![f] = TRUE]
    /\ needsRebuild' = [needsRebuild EXCEPT ![f] = FALSE]

PfResultsThrow(f, refresh, x) ==
    Converging(f, refresh, x) /\ ~Readable(refresh, x) /\ KeepFlags(refresh) /\ last' = "none"
PfConverges(f, refresh, x) ==
    Converging(f, refresh, x) /\ Readable(refresh, x) /\ MarkValid(f, refresh) /\ last' = f

(* All of them on what the stages left; each set below has one member.     *)
PowerFlow(f) ==
    \E refresh \in {PfRefresh(f)}, x \in {PfPrepared(f)} :
        \/ PfThrows(f, refresh, x) \/ PfAlgorithmThrows(f, refresh, x) \/ PfDiverges(f, refresh, x)
        \/ PfResultsThrow(f, refresh, x) \/ PfConverges(f, refresh, x)

-----------------------------------------------------------------------------
(* Mutant: check_solution marks the cache as a powerflow does.             *)
CheckSolutionMarks ==
    /\ Calling("check_solution") /\ "AC" \in Families
    /\ cache' = [cache EXCEPT !["AC"] = CheckPrepared.c]
    /\ busStatus' = StatusAfter(CheckRefresh)
    /\ ctl' = [CtlAfter(CheckRefresh) EXCEPT !["AC"] = NoneChanged]
    /\ snap' = [snap EXCEPT !["AC"] = StatusAfter(CheckRefresh)]
    /\ ready' = [ready EXCEPT !["AC"] = ReadyAfter("AC", CheckFlags)]
    /\ told' = IF CheckPrepared.ok THEN [told EXCEPT !["AC"] = Tell("AC", CheckFlags)] ELSE told
    /\ last' = "none"
    /\ UNCHANGED <<elements, allow, needsRebuild, forced, snMva>>

(* check_solution: prepares the AC data and calls no algorithm.            *)
CheckSolution ==
    /\ Calling("check_solution") /\ "AC" \in Families
    /\ cache' = [cache EXCEPT !["AC"] = CheckPrepared.c]
    /\ busStatus' = StatusAfter(CheckRefresh)
    /\ ctl' = CtlAfter(CheckRefresh)
    /\ ready' = [ready EXCEPT !["AC"] = ReadyAfter("AC", CheckFlags)]
    /\ told' = IF CheckPrepared.ok THEN [told EXCEPT !["AC"] = Tell("AC", CheckFlags)] ELSE told
    /\ last' = "none"
    /\ UNCHANGED <<elements, snap, allow, needsRebuild, forced, snMva>>

-----------------------------------------------------------------------------
(* The cache-reuse API.                                                    *)

AllowCacheReuse(f, allowed) ==
    /\ Calling("allow_cache_reuse") /\ allow[f] # allowed
    /\ allow' = [allow EXCEPT ![f] = allowed]
    /\ last' = "none"
    /\ UNCHANGED <<elements, ctl, cache, busStatus, snap, needsRebuild, told, ready, forced, snMva>>

PreventCacheReuse(F) ==
    /\ snap' = [f \in Families |-> IF f \in F THEN {} ELSE snap[f]]
    /\ ctl' = [f \in Families |-> ctl[f] \cup (IF f \in F THEN {"reset"} ELSE {})]
    /\ last' = "none"

PreventReuse(f) ==
    /\ Calling("prevent_cache_reuse")
    /\ PreventCacheReuse({f})
    /\ UNCHANGED <<elements, cache, busStatus, allow, needsRebuild, told, ready, forced, snMva>>

(* unset_changes: nothing when both families cache by themselves, and      *)
(* otherwise both are marked.                                              *)
UnsetChanges ==
    /\ Calling("unset_changes")
    /\ \E f \in Families : ~allow[f]
    /\ ctl' = [f \in Families |-> NoneChanged]
    /\ snap' = [f \in Families |-> busStatus]
    /\ last' = "none"
    /\ UNCHANGED <<elements, cache, busStatus, allow, needsRebuild, told, ready, forced, snMva>>

(* tell_recompute_ybus, tell_recompute_sbus and                            *)
(* tell_ybus_change_sparsity_pattern.                                      *)
TellChanged(flag) ==
    /\ Calling("tell_changed")
    /\ Raise({flag})
    /\ last' = "none"
    /\ UNCHANGED <<elements, cache, busStatus, snap, allow, needsRebuild, told, ready, forced, snMva>>

(* change_algorithm: to the same built-in algorithm it keeps the object.   *)
ChangeAlgorithm(f, same) ==
    /\ Calling("change_algorithm")
    /\ ctl' = [ctl EXCEPT ![f] = AllChanged]
    /\ ready' = [ready EXCEPT ![f] = @ /\ same]
    /\ last' = "none"
    /\ UNCHANGED <<elements, cache, busStatus, snap, allow, needsRebuild, told, forced, snMva>>

-----------------------------------------------------------------------------
(* Changes of the grid that are not those of one element.                  *)

SetSnMva(base) ==
    /\ Calling("set_sn_mva") /\ snMva # base
    /\ snMva' = base
    /\ PreventCacheReuse(Families)
    /\ UNCHANGED <<elements, cache, busStatus, allow, needsRebuild, told, ready, forced>>

(* Mutant: the reference is taken for a matter of weights.                 *)
SetReferenceSlackBusWeight(b) ==
    /\ Calling("set_reference_slack_bus")
    /\ forced' = b
    /\ Raise({"slack_weight"})
    /\ last' = "none"
    /\ UNCHANGED <<elements, cache, busStatus, snap, allow, needsRebuild, told, ready, snMva>>

SetReferenceSlackBus(b) ==
    /\ Calling("set_reference_slack_bus")
    /\ forced' = b
    /\ Raise({"slack_part"})
    /\ last' = "none"
    /\ UNCHANGED <<elements, cache, busStatus, snap, allow, needsRebuild, told, ready, snMva>>

(* assign_slack_to_most_connected picks, among the buses where the active  *)
(* powers of the loads, generators and shunts add up to more than 0, the   *)
(* first with the most ends of branches.                                   *)
Powered == {load[l].bus : l \in {m \in LoadsOn : load[m].p > 0}}
           \cup {gen[g].bus : g \in {h \in GensOn : gen[h].p > 0}}
           \cup {shunt[s].bus : s \in {t \in ShuntsOn : shunt[t].p > 0}}
LineEnds(b) == Cardinality({bk \in Branches \X Sides :
                              branch[bk[1]].global /\ BusOf(branch[bk[1]], bk[2]) = b})
MostConnected == CHOOSE b \in Powered : \A c \in Powered :
                    \/ LineEnds(b) > LineEnds(c)
                    \/ LineEnds(b) = LineEnds(c) /\ b <= c

GensAt(b) == {g \in GensOn : gen[g].bus = b}
Producing(b) == {g \in GensAt(b) : gen[g].p > 0}

(* Every slack is removed, on a control nobody reads, before the new ones  *)
(* are added.  Their weights are their shares of the production.           *)
MoveSlack(b) ==
    gen' = [g \in Gens |-> [gen[g] EXCEPT !.weight = IF g \in Producing(b) THEN gen[g].p ELSE 0]]

ForgetSlack == cache' = [f \in Families |->
    [cache[f] EXCEPT !.slack = [lab |-> {}, val |-> NoSlack], !.wts = [lab |-> {}, val |-> {}]]]

AssignSlack ==
    /\ Calling("assign_slack_to_most_connected")
    /\ Powered # {}
    /\ Producing(MostConnected) # {}
    /\ MoveSlack(MostConnected)
    /\ ForgetSlack
    /\ Raise({"slack_part", "slack_weight"})
    /\ last' = "none"
    /\ UNCHANGED <<load, offIsPv, branch, shunt, busStatus, snap, allow, needsRebuild, told,
                   ready, forced, snMva>>

(* The same call on a grid where no generator of the chosen bus produces:  *)
(* with generators there it assigns no slack, without it throws after the  *)
(* old slacks are gone.                                                    *)
AssignNoSlack ==
    /\ Calling("assign_slack_without_producer")
    /\ Powered # {}
    /\ Producing(MostConnected) = {}
    /\ MoveSlack(MostConnected)
    /\ IF GensAt(MostConnected) = {} THEN UNCHANGED cache ELSE ForgetSlack
    /\ last' = "none"
    /\ UNCHANGED <<load, offIsPv, branch, shunt, ctl, busStatus, snap, allow, needsRebuild, told,
                   ready, forced, snMva>>

(* deactivate_bus / reactivate_bus: the calls on the two controls there    *)
(* are getters, so that no flag is raised.                                 *)
SetBusStatus(status) ==
    /\ busStatus' = status
    /\ last' = "none"
    /\ UNCHANGED <<elements, ctl, cache, snap, allow, needsRebuild, told, ready, forced, snMva>>

DeactivateBus(b) == Calling("deactivate_bus") /\ b \in busStatus /\ SetBusStatus(busStatus \ {b})
ReactivateBus(b) == Calling("reactivate_bus") /\ b \notin busStatus /\ SetBusStatus(busStatus \cup {b})

(* The client goes on with a copy of the grid: its elements, its bus       *)
(* status and its switches, with an empty cache and new algorithms.        *)
CopyGrid ==
    /\ Calling("copy")
    /\ cache' = [f \in Families |-> Cold]
    /\ ctl' = [f \in Families |-> AllChanged]
    /\ snap' = [f \in Families |-> {}]
    /\ needsRebuild' = [f \in Families |-> FALSE]
    /\ told' = [f \in Families |-> AllChanged]
    /\ ready' = [f \in Families |-> FALSE]
    /\ forced' = NoBus
    /\ last' = "none"
    /\ UNCHANGED <<elements, busStatus, allow, snMva>>

(* A change of one element leaves the solver side alone.                   *)
Modify == ElementStep /\ last' = "none"
          /\ UNCHANGED <<cache, busStatus, snap, allow, needsRebuild, told, ready, forced, snMva>>

-----------------------------------------------------------------------------
(* A grid just built: every element is connected, every bus is.            *)
Init ==
    /\ ElementsTypeOK
    /\ \A l \in Loads : load[l].on
    /\ \A g \in Gens : gen[g].on /\ gen[g].reg = gen[g].bus
    /\ \A b \in Branches : branch[b].on1 /\ branch[b].on2 /\ branch[b].global
    /\ \A s \in Shunts : shunt[s].on
    /\ ctl = [f \in Families |-> AllChanged]
    /\ cache = [f \in Families |-> Cold]
    /\ busStatus = Buses
    /\ snap = [f \in Families |-> {}]
    /\ allow = [f \in Families |-> TRUE]
    /\ needsRebuild = [f \in Families |-> FALSE]
    /\ told = [f \in Families |-> AllChanged]
    /\ ready = [f \in Families |-> FALSE]
    /\ forced = NoBus
    /\ snMva \in Bases
    /\ last = "none"

Next ==
    \/ Modify
    \/ \E f \in Families : PowerFlow(f)
    \/ CheckSolution
    \/ \E f \in Families, allowed \in BOOLEAN : AllowCacheReuse(f, allowed)
    \/ \E f \in Families : PreventReuse(f)
    \/ UnsetChanges
    \/ \E flag \in {"ybus", "sbus", "sparsity"} : TellChanged(flag)
    \/ \E f \in Families, same \in BOOLEAN : ChangeAlgorithm(f, same)
    \/ \E base \in Bases : SetSnMva(base)
    \/ \E b \in Buses \cup {NoBus} : SetReferenceSlackBus(b)
    \/ AssignSlack
    \/ AssignNoSlack
    \/ \E b \in Buses : DeactivateBus(b) \/ ReactivateBus(b)
    \/ CopyGrid

Spec == Init /\ [][Next]_vars
=============================================================================
