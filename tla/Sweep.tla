------------------------------- MODULE Sweep -------------------------------
(***************************************************************************)
(* The batch sweeps (BaseBatchSweep): one powerflow per row, each row with *)
(* its own injections, voltage targets and contingency, the rows split     *)
(* over threads.  Each worker edits its matrix for the contingency of a    *)
(* row, solves, and undoes the edit; rows fail one by one; an exception    *)
(* ends the range of its worker and is thrown again once all have ended.   *)
(* Rows count from 1 here and from 0 in the source.                        *)
(***************************************************************************)
EXTENDS DcAlgo, Sequences, Functions

CONSTANTS Calls,           \* the calls the client makes
          Kinds,           \* the instantiations of the template
          Families,        \* the algorithms: "NR", "FD" (no masking) and "DC"
          MaxThreads,
          InjectionRows,   \* what modify_gen_p, modify_load_p... may be given,
          TargetRows,      \* modify_gen_v,
          MaskRows,        \* set_contingency_lines and set_contingency_trafos
          ListOrder,       \* the contingencies a client may list, as std::set sorts them
          Targets,         \* the voltage targets of a row
          GridInjection, GridTarget,   \* those of the grid itself
          Slacks, SlackWeight          \* the slack buses in their order, their weights

AllKinds == {"TimeSeries", "InjectionSweep", "ContingencyAnalysis", "ScenarioSweep"}

ASSUME SweepAssumption ==
    /\ Kinds \subseteq AllKinds /\ Families \subseteq {"NR", "FD", "DC"}
    /\ MaxThreads \in Nat \ {0}
    /\ InjectionRows \subseteq Seq(Injections) /\ GridInjection \in Injections
    /\ TargetRows \subseteq Seq(Targets) /\ GridTarget \in Targets
    /\ MaskRows \subseteq Seq(SUBSET Branches) /\ ListOrder \in Seq(SUBSET Branches)
    /\ Slacks \in Seq(BusIds) /\ Slacks # <<>> /\ SlackWeight \in [BusIds -> Nat]

VARIABLES kind,       \* which of the four classes the object is
          family,     \* its algorithm
          setup,      \* _nb_thread, _handle_disconnected_grid, _compute_limit_violations_
          asked,      \* the rows of each axis, their locked number, the listed contingencies
          stale,      \* _results_stale_
          coeffs,     \* li_coeffs
          ybus,       \* Ybus_ or Bbus_: the side it was built for, and the matrix
          volts,      \* _voltages: the answer of each row, if it has one
          conv,       \* _converged_mask_
          status,     \* _status
          counts,     \* _nb_solved, _nb_converged
          flows,      \* _amps_flows: the voltages of a row, the branches set to zero
          said,       \* what is_grid_connected_after_contingency has just returned
          phase,      \* where compute() is
          th          \* the workers of compute()

inputs  == <<kind, family, setup, asked>>
results == <<volts, conv, status, counts>>
vars    == <<inputs, stale, coeffs, ybus, results, flows, said, phase, th>>

NoAnswer == [matrix |-> NoMatrix]
NoCounts == [solved |-> 0, converged |-> 0]
NothingAsked == [inj |-> <<>>, targets |-> <<>>, masks |-> <<>>, rows |-> -1, listed |-> {}]

Init == /\ kind \in Kinds /\ family \in Families
        /\ setup = [threads |-> 1, mask |-> FALSE, limits |-> FALSE]
        /\ asked = NothingAsked /\ stale = FALSE
        /\ coeffs = <<>> /\ ybus = [side |-> "none", matrix |-> NoMatrix]
        /\ volts = <<>> /\ conv = <<>> /\ status = 1 /\ counts = NoCounts
        /\ flows = <<>> /\ said = <<>> /\ phase = "idle" /\ th = <<>>

Varies     == kind # "ContingencyAnalysis"
Contingent == kind \in {"ContingencyAnalysis", "ScenarioSweep"}
Chained    == kind = "TimeSeries"
Side       == IF family = "DC" THEN "DC" ELSE "AC"

-----------------------------------------------------------------------------
(* The rows.                                                               *)

Listed == LET upto[n \in 0 .. Len(ListOrder)] ==
                 IF n = 0 THEN <<>> ELSE IF ListOrder[n] \in asked.listed
                 THEN Append(upto[n - 1], ListOrder[n]) ELSE upto[n - 1]
          IN upto[Len(ListOrder)]
NbRows == IF Varies THEN asked.rows ELSE Len(Listed)

Out(i)          == IF ~Varies THEN Listed[i]
                   ELSE IF Contingent /\ asked.masks # <<>> THEN asked.masks[i] ELSE {}
RowInjection(i) == IF Varies /\ asked.inj # <<>> THEN asked.inj[i] ELSE GridInjection
RowTarget(i)    == IF Varies /\ asked.targets # <<>> THEN asked.targets[i] ELSE GridTarget

FreshCoeffs == [i \in 1 .. NbRows |-> IF Contingent THEN Coeffs(Out(i)) ELSE {}]

(* The buses that each contingency cuts off: a table, computed once.       *)
CutOff == {[out |-> S, buses |-> Disconnected(Without(S))] : S \in SUBSET Branches}
Masked == [S \in SUBSET Branches |-> (CHOOSE cut \in CutOff : cut.out = S).buses]

(* What a row is asked to answer.                                          *)
Problem(i) == [matrix |-> Without(Out(i)), mask |-> Masked[Out(i)],
               inj |-> RowInjection(i), target |-> RowTarget(i),
               seed |-> IF Chained /\ Side = "AC" THEN i - 1 ELSE 0]

(* _select_ref_slack_and_masks: the slack that the fewest rows strand, and *)
(* the rows that strand it all the same.                                   *)
Strands(bus) == Cardinality({i \in DOMAIN coeffs : bus \in Masked[coeffs[i]]})
Better(a, b) == \/ Strands(a) < Strands(b)
                \/ Strands(a) = Strands(b) /\ SlackWeight[a] > SlackWeight[b]
                \/ Strands(a) = Strands(b) /\ SlackWeight[a] = SlackWeight[b] /\ a < b
Candidates   == LET weighted == {b \in Range(Slacks) : SlackWeight[b] > 0}
                IN IF weighted # {} THEN weighted ELSE Range(Slacks)
RefSlack     == CHOOSE a \in Candidates : \A b \in Candidates \ {a} : Better(a, b)
Skipped(i)   == RefSlack \in Masked[coeffs[i]]

-----------------------------------------------------------------------------
(* The setters.  Each of them first marks the results stale, then refuses  *)
(* a number of rows that is not the one already locked.                    *)

Free == phase \in {"idle", "returned"}
Calling(call) == call \in Calls /\ Free /\ phase' = "idle" /\ said' = <<>> /\ th' = <<>>

(* Mutant: only the call that locks the number of rows marks the results.  *)
LockRowsOnce(rows) == stale' = (stale \/ asked.rows < 0)
LockRows(rows) == stale' = TRUE

SetAxis(axis, rows) ==
    /\ LockRows(rows)
    /\ asked' = IF asked.rows \in {-1, Len(rows)}
                THEN [asked EXCEPT ![axis] = rows, !.rows = Len(rows)] ELSE asked
    /\ UNCHANGED <<kind, family, setup, coeffs, ybus, results, flows>>

ModifyInjections == /\ Calling("modify_gen_p") /\ Varies
                    /\ \E rows \in InjectionRows : SetAxis("inj", rows)
ModifyGenV       == /\ Calling("modify_gen_v") /\ Varies
                    /\ \E rows \in TargetRows : SetAxis("targets", rows)
SetContingencies == /\ Calling("set_contingency_lines") /\ Varies /\ Contingent
                    /\ \E rows \in MaskRows : SetAxis("masks", rows)

(* clear_results_only, and clear() of BaseBatchSolverSynch.                *)
DropResults == volts' = <<>> /\ conv' = <<>> /\ counts' = NoCounts /\ flows' = <<>>

ChangeList(call, listed) ==
    /\ Calling(call) /\ ~Varies
    /\ asked' = [asked EXCEPT !.listed = listed]
    /\ DropResults
    /\ UNCHANGED <<kind, family, setup, stale, coeffs, ybus, status>>

AddContingency    == \E c \in Range(ListOrder) : ChangeList("add_nk", asked.listed \cup {c})
RemoveContingency == \E c \in Range(ListOrder) : ChangeList("remove_nk", asked.listed \ {c})

Clears == /\ DropResults
          /\ asked' = NothingAsked /\ coeffs' = <<>> /\ status' = 1
          /\ UNCHANGED <<kind, stale, ybus>>

Clear == Calling("clear") /\ Clears /\ setup' = [setup EXCEPT !.mask = FALSE] /\ UNCHANGED family

ChangeAlgorithm ==
    /\ Calling("change_algorithm") /\ Clears
    /\ family' \in Families /\ setup' = [setup EXCEPT !.mask = FALSE]

SetComputeLimitViolations ==
    /\ Calling("set_compute_limit_violations") /\ Contingent /\ Clears
    /\ setup' = [setup EXCEPT !.mask = FALSE, !.limits = ~@] /\ UNCHANGED family

SetUp(call, new) == /\ Calling(call) /\ setup' = new
                    /\ UNCHANGED <<kind, family, asked, stale, coeffs, ybus, results, flows>>

SetNbThread == \E n \in 1 .. MaxThreads :
    (n = 1 \/ ~Chained) /\ SetUp("set_nb_thread", [setup EXCEPT !.threads = n])
SetHandleDisconnectedGrid ==
    Contingent /\ SetUp("set_handle_disconnected_grid", [setup EXCEPT !.mask = ~@])

-----------------------------------------------------------------------------
(* What is read without a compute().                                       *)

(* The matrix and the coefficients are kept when their sizes still fit.    *)
InspectContingencies(call) ==
    LET kept == ybus.side = Side /\ Len(coeffs) = Len(Listed)
    IN /\ call \in Calls /\ Free /\ ~Varies
       /\ coeffs' = IF kept THEN coeffs ELSE FreshCoeffs
       /\ ybus' = IF kept THEN ybus ELSE [side |-> Side, matrix |-> Base]
       /\ said' = IF call = "pick_reference_slack" THEN <<>>
                  ELSE [i \in DOMAIN coeffs' |-> Connected(Remove(ybus'.matrix, coeffs'[i]))]
       /\ phase' = "idle"
       /\ UNCHANGED <<inputs, stale, results, flows, th>>

(* pre_process_solver throws.                                              *)
InspectionThrows ==
    /\ {"is_grid_connected_after_contingency", "pick_reference_slack"} \cap Calls # {}
    /\ Free /\ ~Varies /\ ~(ybus.side = Side /\ Len(coeffs) = Len(Listed))
    /\ ybus' = [side |-> "none", matrix |-> NoMatrix] /\ said' = <<>> /\ phase' = "idle"
    /\ UNCHANGED <<inputs, stale, coeffs, results, flows, th>>

IsGridConnected    == InspectContingencies("is_grid_connected_after_contingency")
PickReferenceSlack == InspectContingencies("pick_reference_slack")

ResultsMatchDefaults == IF Varies THEN Contingent => ~stale ELSE Len(volts) = Len(Listed)

ComputeFlows ==
    /\ Calling("compute_flows") /\ ResultsMatchDefaults /\ volts # <<>>
    /\ flows' = [i \in DOMAIN volts |-> [of |-> volts[i], zeroed |-> IF Contingent THEN Out(i) ELSE {}]]
    /\ UNCHANGED <<inputs, stale, coeffs, ybus, results>>

-----------------------------------------------------------------------------
(* compute(): what is done before the first row, and the ways it ends there. *)

Outcomes(a, matrix, inj, flags) ==
    IF Side = "DC" THEN DcOutcomes(a, inj, flags) ELSE AcOutcomes(a, matrix, inj)

BaseOutcomes == Outcomes(FreshAlgo, Base, GridInjection, AllChanged)
NoRows(nothing) == [i \in 1 .. NbRows |-> nothing]
Begins == "compute" \in Calls /\ Free /\ said' = <<>> /\ status' = 0 /\ counts' = NoCounts

ComputeNothingSet ==
    /\ Begins /\ NbRows < 0 /\ phase' = "idle"
    /\ UNCHANGED <<inputs, stale, coeffs, ybus, volts, conv, flows, th>>

(* pre_process_solver throws.                                              *)
ComputeUnprepared ==
    /\ Begins /\ NbRows >= 0 /\ phase' = "idle"
    /\ conv' = NoRows(FALSE) /\ ybus' = [side |-> "none", matrix |-> NoMatrix]
    /\ UNCHANGED <<inputs, stale, coeffs, volts, flows, th>>

Prepares == /\ NbRows >= 0 /\ conv' = NoRows(FALSE)
            /\ ybus' = [side |-> Side, matrix |-> Base] /\ coeffs' = FreshCoeffs

MasksUnsupported == setup.mask /\ family = "FD"

ComputeUnmaskable ==
    /\ Begins /\ Prepares /\ MasksUnsupported /\ phase' = "idle"
    /\ UNCHANGED <<inputs, stale, volts, flows, th>>

(* The powerflow without contingency fails: the classes that vary their    *)
(* injections return, the contingency analysis throws.                     *)
ComputeBaseDiverges ==
    /\ Begins /\ Prepares /\ ~MasksUnsupported /\ phase' = "idle"
    /\ volts' = NoRows(NoAnswer) /\ flows' = <<>>
    /\ stale' = (stale /\ ~Varies)
    /\ UNCHANGED <<inputs, th>>

(* The limits are not consistent: checking the powerflow without           *)
(* contingency against them throws.                                        *)
ComputeChecksThrow ==
    /\ Begins /\ Prepares /\ ~MasksUnsupported /\ setup.limits /\ phase' = "idle"
    /\ volts' = NoRows(NoAnswer) /\ flows' = <<>>
    /\ UNCHANGED <<inputs, stale, th>>

(* split_range: the first n % nb workers take one row more.                *)
Least(a, b) == IF a < b THEN a ELSE b
SplitBegin(n, nb, t) == t * (n \div nb) + Least(t, n % nb)
SplitEnd(n, nb, t)   == SplitBegin(n, nb, t) + n \div nb + (IF t < n % nb THEN 1 ELSE 0)

NbWorkers == IF Least(NbRows, setup.threads) <= 1 THEN 1 ELSE Least(NbRows, setup.threads)
RowFlags  == IF Side = "DC" /\ ~setup.mask THEN {"sbus"} ELSE {}

(* Alone, a worker goes on with the algorithm of the base powerflow; one   *)
(* of several has a fresh algorithm and is told that all has changed.      *)
Worker(t, warm) ==
    [next |-> SplitBegin(NbRows, NbWorkers, t) + 1, last |-> SplitEnd(NbRows, NbWorkers, t),
     matrix |-> Base, seed |-> 0,
     algo |-> IF NbWorkers = 1 THEN warm ELSE FreshAlgo,
     ctl  |-> IF NbWorkers = 1 THEN RowFlags ELSE AllChanged,
     solved |-> 0, converged |-> 0, diverged |-> FALSE, error |-> FALSE]

ComputeStarts ==
    /\ Begins /\ Prepares /\ ~MasksUnsupported /\ phase' = "running"
    /\ volts' = NoRows(NoAnswer) /\ flows' = <<>>
    /\ \E o \in BaseOutcomes :
         o.conv /\ th' = [t \in 0 .. NbWorkers - 1 |-> Worker(t, o.algo)]
    /\ UNCHANGED <<inputs, stale>>

-----------------------------------------------------------------------------
(* One row of one worker.                                                  *)

AtRow(t) == phase = "running" /\ t \in DOMAIN th /\ ~th[t].error /\ th[t].next <= th[t].last

(* The coefficients leave the matrix of the worker, or that its algorithm  *)
(* keeps, and come back.                                                   *)
Taken(w, c)    == IF Side = "DC" THEN [w EXCEPT !.algo = Edit(@, c, FALSE)]
                  ELSE [w EXCEPT !.matrix = Remove(@, c)]
Restored(w, c) == IF Side = "DC" THEN [w EXCEPT !.algo = Edit(@, c, TRUE)]
                  ELSE [w EXCEPT !.matrix = Readd(@, c)]

(* Mutant: a row without an answer ends the range of its worker.           *)
AfterRowStops(w, ok) == [w EXCEPT !.next = IF ok THEN @ + 1 ELSE w.last + 1,
                                  !.diverged = @ \/ ~ok, !.ctl = RowFlags]
(* Mutant: a row without an answer is tried again.                         *)
AfterRowRetries(w, ok) == [w EXCEPT !.next = IF ok THEN @ + 1 ELSE @,
                                    !.diverged = @ \/ ~ok, !.ctl = RowFlags]

(* A row without an answer ends the range only where rows are chained.     *)
AfterRow(w, ok) == [w EXCEPT !.next = IF ok \/ ~Chained THEN @ + 1 ELSE w.last + 1,
                             !.diverged = @ \/ ~ok, !.ctl = RowFlags]

(* A contingency that splits the grid, or strands the reference slack when *)
(* the others are masked, is not simulated.                                *)
NotSimulated(w, i) ==
    IF setup.mask THEN Skipped(i)
    ELSE Contingent /\ Side = "AC" /\ ~Connected(Remove(w.matrix, coeffs[i]))

(* mat_bus_id_ is read before the algorithm has ever filled it.            *)
ReadsUnbuilt(w, i) == Side = "DC" /\ coeffs[i] # {} /\ ~w.algo.built

SkipRow(t) ==
    LET w == th[t]
        i == w.next
    IN /\ AtRow(t) /\ NotSimulated(w, i)
       /\ th' = [th EXCEPT ![t] = IF setup.mask THEN [AfterRow(w, FALSE) EXCEPT !.ctl = w.ctl]
                                  ELSE AfterRow(w, FALSE)]
       /\ conv' = [conv EXCEPT ![i] = FALSE]
       /\ UNCHANGED <<inputs, stale, coeffs, ybus, volts, status, counts, flows, said, phase>>

RowMask(i) == IF setup.mask THEN Masked[coeffs[i]] ELSE {}

(* The voltages a row is stored with: alternating-current ones start from  *)
(* the row before where rows are chained.                                  *)
Answer(solved, i, seed) ==
    [matrix |-> solved.matrix, mask |-> solved.mask, inj |-> solved.inj,
     target |-> RowTarget(i), seed |-> seed]

(* The limits of an answer are checked before the voltages are stored, or  *)
(* after when buses are masked; this may throw.                            *)
SolveRow(t) ==
    LET w == th[t]
        i == w.next
        r == Taken(w, coeffs[i])
    IN /\ AtRow(t) /\ ~NotSimulated(w, i) /\ ~ReadsUnbuilt(w, i)
       /\ \E o \in Outcomes([r.algo EXCEPT !.mask = RowMask(i)], r.matrix, RowInjection(i), w.ctl) :
          \E throws \in {FALSE, setup.limits /\ o.conv} :
             LET back == Restored([r EXCEPT !.algo = [o.algo EXCEPT !.mask = {}]], coeffs[i])
                 done == [AfterRow(back, o.conv) EXCEPT !.solved = @ + 1,
                             !.converged = IF o.conv THEN @ + 1 ELSE @,
                             !.seed = IF o.conv /\ Chained /\ Side = "AC" THEN i ELSE @,
                             !.error = throws]
             IN /\ th' = [th EXCEPT ![t] = done]
                /\ conv' = [conv EXCEPT ![i] = o.conv]
                /\ volts' = IF o.conv /\ (throws => setup.mask)
                            THEN [volts EXCEPT ![i] = Answer(o.solved, i, w.seed)] ELSE volts
       /\ UNCHANGED <<inputs, stale, coeffs, ybus, status, counts, flows, said, phase>>

(* The algorithm throws, and nothing undoes the edit of the matrix; or the *)
(* edit itself reads what was never built, and the process ends there.     *)
RowBreaks(t) ==
    LET w == th[t] IN
    /\ AtRow(t) /\ ~NotSimulated(w, w.next)
    /\ th' = [th EXCEPT ![t] = [Taken(w, coeffs[w.next]) EXCEPT !.error = TRUE]]
    /\ phase' = IF ReadsUnbuilt(w, w.next) THEN "crashed" ELSE phase
    /\ UNCHANGED <<inputs, stale, coeffs, ybus, results, flows, said>>

Row(t) == SkipRow(t) \/ SolveRow(t) \/ RowBreaks(t)

-----------------------------------------------------------------------------
(* All the workers have ended: an exception is thrown again, or the counts *)
(* are put together.  Alone, a worker counts in the object itself and has  *)
(* edited its matrix.                                                      *)

Joined == phase = "running" /\ \A t \in DOMAIN th : th[t].error \/ th[t].next > th[t].last
Failed == \E t \in DOMAIN th : th[t].error

Total(part) == LET upto[n \in 0 .. NbWorkers] == IF n = 0 THEN 0 ELSE upto[n - 1] + part[n - 1]
               IN upto[NbWorkers]
Counted == [solved    |-> Total([t \in DOMAIN th |-> th[t].solved]),
            converged |-> Total([t \in DOMAIN th |-> th[t].converged])]

(* Mutant: the status is the number of rows that converged.                *)
StatusCounts == Counted.converged
StatusOf == IF \E t \in DOMAIN th : th[t].diverged THEN 0 ELSE 1

Alone == DOMAIN th = {0}
MemberMatrix == ybus' = IF Alone THEN [ybus EXCEPT !.matrix = th[0].matrix] ELSE ybus

ComputeThrows ==
    /\ Joined /\ Failed
    /\ counts' = IF Alone THEN Counted ELSE counts
    /\ MemberMatrix /\ phase' = "idle" /\ th' = <<>>
    /\ UNCHANGED <<inputs, stale, coeffs, volts, conv, status, flows, said>>

ComputeEnds ==
    /\ Joined /\ ~Failed
    /\ counts' = Counted
    /\ status' = IF Varies THEN StatusOf ELSE status
    /\ stale' = FALSE
    /\ MemberMatrix /\ phase' = "returned" /\ th' = <<>>
    /\ UNCHANGED <<inputs, coeffs, volts, conv, flows, said>>

-----------------------------------------------------------------------------
(* What keeps the results, what drops them, what computes them.            *)
Keeps == \/ ModifyInjections \/ ModifyGenV \/ SetContingencies
         \/ SetNbThread \/ SetHandleDisconnectedGrid
         \/ IsGridConnected \/ PickReferenceSlack \/ InspectionThrows \/ ComputeFlows
         \/ ComputeNothingSet
Drops == \/ AddContingency \/ RemoveContingency \/ Clear \/ ChangeAlgorithm
         \/ SetComputeLimitViolations

ComputeFails == ComputeUnprepared \/ ComputeUnmaskable \/ ComputeChecksThrow

Client == Keeps \/ Drops \/ ComputeFails \/ ComputeBaseDiverges \/ ComputeStarts

Next == \/ Client
        \/ \E t \in 0 .. MaxThreads - 1 : Row(t)
        \/ ComputeThrows \/ ComputeEnds

(* The operating system runs every worker, an algorithm stops at its last  *)
(* allowed iteration, and compute() joins the workers when all have ended. *)
Fairness == /\ \A t \in 0 .. MaxThreads - 1 : WF_vars(Row(t))
            /\ WF_vars(ComputeThrows \/ ComputeEnds)

Spec == Init /\ [][Next]_vars /\ Fairness
-----------------------------------------------------------------------------
(* Every variable keeps its type.                                          *)
Answers == [matrix : Matrices, mask : SUBSET BusIds, inj : Injections \cup {NoInjection},
            target : Targets, seed : Nat] \cup {NoAnswer}
Algos   == [built : BOOLEAN, matrix : Matrices, factors : [matrix : Matrices, mask : SUBSET BusIds],
            factorize : BOOLEAN, refactor : BOOLEAN, mask : SUBSET BusIds,
            inj : Injections \cup {NoInjection}]
Workers == [next : Nat, last : Nat, matrix : Matrices, seed : Nat, algo : Algos, ctl : SUBSET Flags,
            solved : Nat, converged : Nat, diverged : BOOLEAN, error : BOOLEAN]

TypeOK ==
    /\ kind \in AllKinds /\ family \in {"NR", "FD", "DC"}
    /\ setup \in [threads : 1 .. MaxThreads, mask : BOOLEAN, limits : BOOLEAN]
    /\ asked \in [inj : Seq(Injections), targets : Seq(Targets), masks : Seq(SUBSET Branches),
                  rows : Nat \cup {-1}, listed : SUBSET Range(ListOrder)]
    /\ stale \in BOOLEAN /\ coeffs \in Seq(SUBSET Branches)
    /\ ybus \in [side : {"none", "AC", "DC"}, matrix : Matrices]
    /\ volts \in Seq(Answers) /\ conv \in Seq(BOOLEAN) /\ status \in {0, 1}
    /\ counts \in [solved : Nat, converged : Nat]
    /\ flows \in Seq([of : Answers, zeroed : SUBSET Branches]) /\ said \in Seq(BOOLEAN)
    /\ phase \in {"idle", "running", "returned", "crashed"}
    /\ DOMAIN th \subseteq 0 .. MaxThreads - 1 /\ \A t \in DOMAIN th : th[t] \in Workers

(* The rows a compute() that returns has handed to its algorithm.          *)
Attempted == {i \in DOMAIN volts :
    /\ Chained => \A j \in 1 .. i - 1 : conv[j]
    /\ ~(IF setup.mask THEN Skipped(i) ELSE Contingent /\ Side = "AC" /\ Masked[coeffs[i]] # {})}

(* When compute() returns, every row has been handed to the algorithm once *)
(* unless its contingency forbids it or the chain broke before it, whoever *)
(* its worker was and whatever failed before it; the rows marked as        *)
(* converged are those that hold voltages; the counts of the workers and   *)
(* the status add up to them.                                              *)
CountsAgree ==
    LET ok == {i \in DOMAIN conv : conv[i]} IN
    phase = "returned" =>
        /\ ok = {i \in DOMAIN volts : volts[i] # NoAnswer}
        /\ counts = [solved |-> Cardinality(Attempted), converged |-> Cardinality(ok)]
        /\ Varies => (status = 1 <=> ok = DOMAIN volts)

(* A table of flows sets to zero the branches of the contingency its       *)
(* voltages were solved for, and no other: voltages of an earlier          *)
(* compute() never meet the masks of a later call.                         *)
FlowsMatchInputs ==
    \A i \in DOMAIN flows :
        Contingent /\ flows[i].of # NoAnswer => flows[i].of.matrix = Without(flows[i].zeroed)

(* What can be read answers, row by row, the problem the row is asked now: *)
(* its own injections, targets and contingency, and no trace of the rows   *)
(* solved before it by the same worker.                                    *)
Readable == IF stale \/ ~Free THEN {} ELSE {i \in DOMAIN volts : volts[i] # NoAnswer}
Promise == INSTANCE SweepPromise WITH
    problems <- [i \in 1 .. NbRows |-> Problem(i)], answers <- [i \in Readable |-> volts[i]]
KeepsSweepPromise == Promise!Spec

(* compute() always gives the object back: no row, no failure and no       *)
(* worker holds it up.                                                     *)
ComputeReturns == phase = "running" ~> Free

(* No worker reads what its algorithm has not built: the number of threads *)
(* does not decide whether a sweep runs.                                   *)
NeverCrashes == phase # "crashed"
=============================================================================
