------------------------------- MODULE Newton -------------------------------
(***************************************************************************)
(* The Newton-Raphson algorithm on those devices.  The Jacobian, the       *)
(* symbolic analysis of its pattern and its factors are kept from one      *)
(* powerflow to the next and redone when the change flags ask for it.      *)
(* The linear solver is KLU, which refuses a factorization without an      *)
(* analysis.                                                               *)
(***************************************************************************)
EXTENDS Jacobian

VARIABLES prep,    \* what LSGrid prepared: [slack, pv, inj, line, counted, weighted]
          nr,      \* NRAlgo and its NRSystem: [need, init, seen, J, analysed, factored]
          pc,      \* "idle", "begun" (before the first iteration), "iterating"
          last     \* how the last powerflow ended, if nothing changed since:
                   \* "none", "refused", "converged", "failed"

newton == <<prep, nr, pc, last>>
vars   == <<devices, flags, newton>>

(* Sets of at most one element stand for what may be missing.              *)
Nothing == [need |-> TRUE, init |-> TRUE, seen |-> {}, J |-> {}, analysed |-> {}, factored |-> {}]

-----------------------------------------------------------------------------
(* ac_pf prepares: each datum is redone when a flag that concerns it is    *)
(* raised (LSGrid has the whole pipeline).                                 *)

Redo(set, new, old) == IF AnyOf(flags, set) THEN new ELSE old

Prepared ==
    LET slack == Redo(SlackIdFlags, SlackOf, prep.slack)
    IN [slack |-> slack,
        pv    |-> Redo(SlackFlags, PvOf(slack), prep.pv),
        inj   |-> Redo(InjFlags, Injected, prep.inj),
        line  |-> Redo(MatFlags, line, prep.line),
        counted |-> Redo(LimitFlags, QTakers, prep.counted),
        weighted |-> Redo(WeightFlags, Weighted, prep.weighted)]

(* What does not throw, in the order of the stages: get_slack_bus_id,      *)
(* init_slack_bus, prepare_injection (and fillpv_pq, which looks at no     *)
(* other bus), set_vm at every powerflow, get_slack_weights_solver.        *)
Preparable ==
    /\ AnyOf(flags, SlackIdFlags) => SlackGens # {}
    /\ AnyOf(flags, SlackFlags) => Prepared.slack \subseteq Live
    /\ AnyOf(flags, InjFlags) => Injectable
    /\ Targets \subseteq Live
    /\ AnyOf(flags, WeightFlags) => Weighted \subseteq Live

(* Without a connected slack generator the weights are 0/0: an algorithm   *)
(* that reads them never meets its tolerance.                              *)
Weighable == prep.weighted # {}

-----------------------------------------------------------------------------
(* The system.  update_state pulls, at every powerflow, the free slack     *)
(* buses, the groups and the droops; the rows and columns are claimed      *)
(* when the topology is initialised.                                       *)

Groups == {[id |-> c.id, bus |-> c.bus, reg |-> c.reg] : c \in Controllers}
Pulled(p) == [free |-> FreeVmSlack(p.slack), groups |-> Groups, droops |-> Droops]
Pullable(p) == Supported(PqBuses(p), p.slack) /\ DroopsOk

(* Mutant: the PV buses are left to pq_changed.                            *)
RebuildFlagsNoPv == {"reset", "dimension", "slack_part", "sparsity", "coeffs_zero", "ybus", "pq"}
RebuildFlags == {"reset", "dimension", "slack_part", "sparsity", "coeffs_zero", "ybus", "pv", "pq"}
NeedRebuild == nr.need \/ AnyOf(flags, RebuildFlags)

Rebuilt(p) ==
    IF NeedRebuild
    THEN [nr EXCEPT !.need = @ \/ "reset" \in flags, !.init = TRUE, !.seen = {Pulled(p)},
                    !.J = {Pattern(p, Pulled(p))}, !.analysed = {}, !.factored = {}]
    ELSE [nr EXCEPT !.init = FALSE, !.seen = {Pulled(p)}]

(* update_state throws: the linear solver alone was reset.                 *)
HalfRebuilt == IF NeedRebuild THEN [nr EXCEPT !.analysed = {}, !.factored = {}] ELSE nr

-----------------------------------------------------------------------------
(* compute_pf.                                                             *)

(* The flags stay: what the stages before the throw redid is redone.       *)
RefusedInPrep ==
    /\ ~Preparable
    /\ last' = "refused" /\ UNCHANGED <<devices, flags, prep, nr, pc>>
RefusedInUpdate ==
    /\ Preparable /\ ~Pullable(Prepared)
    /\ prep' = Prepared /\ nr' = HalfRebuilt
    /\ last' = "refused" /\ UNCHANGED <<devices, flags, pc>>
Begin ==
    /\ Preparable /\ Pullable(Prepared)
    /\ prep' = Prepared /\ nr' = Rebuilt(Prepared)
    /\ pc' = "begun" /\ last' = "none" /\ UNCHANGED <<devices, flags>>
AcPf == pc = "idle" /\ (RefusedInPrep \/ RefusedInUpdate \/ Begin)

(* process_results: in both cases the cache is marked valid; an algorithm  *)
(* that failed is reset.                                                   *)
Converge == /\ pc' = "idle" /\ last' = "converged" /\ flags' = NoneChanged
            /\ UNCHANGED <<devices, prep>>
Fail == /\ pc' = "idle" /\ last' = "failed" /\ flags' = NoneChanged
        /\ nr' = Nothing /\ UNCHANGED <<devices, prep>>

(* The voltages given may solve the system already.                        *)
ZeroIteration == pc = "begun" /\ Weighable /\ Converge /\ UNCHANGED nr

(* The first iteration analyses a new pattern, and factorizes; a pattern   *)
(* kept is refactorized, or factorized when that fails.                    *)
Factors(first) ==
    IF first THEN [nr EXCEPT !.analysed = nr.J, !.factored = nr.J, !.init = FALSE, !.need = FALSE]
    ELSE [nr EXCEPT !.factored = nr.J]
Factorizable == nr.init \/ nr.analysed # {}
FirstIteration ==
    /\ pc = "begun" /\ Factorizable
    /\ \/ nr' = Factors(nr.init) /\ pc' = "iterating" /\ UNCHANGED <<devices, flags, prep, last>>
       \/ Fail
NotFactorizable == pc = "begun" /\ ~Factorizable /\ Fail

(* Later iterations refactorize, or not, as the policy says.               *)
Iterated == pc = "iterating" /\ ((Weighable /\ Converge /\ UNCHANGED nr) \/ Fail)

Solve  == AcPf \/ ZeroIteration \/ FirstIteration \/ NotFactorizable \/ Iterated
Change == pc = "idle" /\ DeviceStep /\ last' = "none" /\ UNCHANGED <<prep, nr, pc>>

Unprepared == [slack |-> {}, pv |-> {}, inj |-> {}, line |-> FALSE, counted |-> {},
               weighted |-> {}]
NewtonInit ==
    /\ flags = AllChanged /\ cut = {}
    /\ prep = Unprepared
    /\ nr = Nothing /\ pc = "idle" /\ last = "none"

-----------------------------------------------------------------------------
(* The variables have their types.                                         *)
NewtonTypeOK ==
    /\ DevicesTypeOK
    /\ {prep.slack, prep.pv, prep.weighted} \subseteq SUBSET Buses /\ prep.line \in BOOLEAN
    /\ nr.need \in BOOLEAN /\ nr.init \in BOOLEAN
    /\ \A part \in {"seen", "J", "analysed", "factored"} : Cardinality(nr[part]) \in {0, 1}
    /\ pc \in {"idle", "begun", "iterating"}
    /\ last \in {"none", "refused", "converged", "failed"}

Current  == [slack |-> SlackOf, pv |-> PvOf(SlackOf), inj |-> Injected, line |-> line,
             counted |-> QTakers, weighted |-> Weighted]
Required == Pattern(Current, Pulled(Current))

(* "n_rows_ == n_cols_" (NRLedger): the components together bring as many  *)
(* equations as unknowns, none twice, and each equation has an unknown and *)
(* each unknown an equation, the reactive power of a controller included.  *)
WellPosed == pc # "idle" => \A J \in nr.J : Square(J) /\ NoneEmpty(J)

(* What is accepted can be factorized, for some values of its entries,     *)
(* exactly when the controllers are not choked: the checks of              *)
(* fill_voltage_control_solver_data look at the buses of each controller,  *)
(* not at what joins them.                                                 *)
SingularIffChoked ==
    pc = "begun" => \A J \in nr.J : Regular(J) <=> ~Choked(J, prep, Pulled(prep))

(* Convergence is judged, from the first evaluation on, on the equations   *)
(* of the devices as they are: slack, voltages, droops and injections.     *)
JudgesCurrent ==
    pc # "idle" => prep = Current

(* "This should never happen": an HVDC line is never in angle droop with   *)
(* one side open, whichever way it was opened.                             *)
NeverDroopHalfOpen == \A h \in Hvdc : DroopOn(h) => hvdc[h].on = [k \in K |-> TRUE]

(* A pattern is analysed before it is refactorized (NRAlgo.tpp: the linear *)
(* solver is initialized in phase 2).                                      *)
AnalysedBeforeRefactor == pc = "begun" /\ ~nr.init => nr.analysed = nr.J
=============================================================================
