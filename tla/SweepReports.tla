---------------------------- MODULE SweepReports ----------------------------
(***************************************************************************)
(* The limit violations a sweep reports: a list for each row and one for   *)
(* the grid without contingency (get_violations, get_violations_n), kept   *)
(* beside the voltages.  Which limits are violated is left out; a report   *)
(* is what was checked, or why nothing was.  The lists have no other way   *)
(* to tell that a row has no answer.                                       *)
(***************************************************************************)
EXTENDS Sweep

CONSTANT Thresholds      \* the thresholds a client may set; the largest, at first

ASSUME ReportsAssumption == Thresholds \subseteq Nat /\ IsFiniteSet(Thresholds) /\ Thresholds # {}

VARIABLES reports,       \* _violations_n_, _violations
          threshold      \* _violation_threshold_: what is above is reported

(* An empty list reads as a row without violation.                         *)
Untold   == [told |-> "nothing"]
Sentinel(reason) == [told |-> reason]
NoReports == [n |-> Untold, rows |-> <<>>]
Reset == [n |-> Untold, rows |-> NoRows(Untold)]

-----------------------------------------------------------------------------
(* What is checked of a row: the voltages it is stored with, the branches  *)
(* left aside since its contingency opened them, the buses left aside      *)
(* since it cut them off.                                                  *)

CheckedRow(i) == [told |-> "checked", of |-> volts'[i], skipped |-> Out(i),
                  unchecked |-> RowMask(i), at |-> threshold]
Tells(i, report) == reports' = IF setup.limits THEN [reports EXCEPT !.rows[i] = report] ELSE reports

(* Mutant: a row that is not simulated is told as one that diverged.       *)
TellSkippedAsDiverged(t) == SkipRow(t) /\ Tells(th[t].next, Sentinel("diverged"))
TellSkipped(t) == SkipRow(t) /\ Tells(th[t].next, Sentinel("not simulated"))
TellSolved(t) ==
    LET i == th[t].next IN
    /\ SolveRow(t)
    /\ Tells(i, IF th'[t].error THEN Untold
                ELSE IF conv'[i] THEN CheckedRow(i) ELSE Sentinel("diverged"))

(* compute() empties the lists before it prepares anything.  The list of a *)
(* check that threw may hold what was found before: it tells nothing.      *)
TellFailed == ComputeFails /\ reports' = IF setup.limits THEN Reset ELSE reports
TellBaseDiverged ==
    /\ ComputeBaseDiverges
    /\ reports' = IF ~setup.limits THEN reports ELSE IF ~Varies THEN Reset
                  ELSE [n |-> Sentinel("diverged"), rows |-> NoRows(Sentinel("diverged"))]
TellBase ==
    /\ ComputeStarts
    /\ reports' = IF setup.limits THEN [Reset EXCEPT !.n = [told |-> "checked", at |-> threshold]]
                  ELSE reports

-----------------------------------------------------------------------------
(* Mutant: a tighter threshold leaves the results there.                   *)
SetViolationThresholdOnly ==
    /\ Calling("set_violation_threshold") /\ Contingent
    /\ threshold' \in Thresholds \ {threshold}
    /\ UNCHANGED <<inputs, stale, coeffs, ybus, results, flows, reports>>

(* A tighter threshold drops the results.                                  *)
SetViolationThreshold ==
    /\ Calling("set_violation_threshold") /\ Contingent
    /\ threshold' \in Thresholds \ {threshold}
    /\ IF threshold' < threshold
       THEN DropResults /\ reports' = NoReports
       ELSE UNCHANGED <<volts, conv, counts, flows, reports>>
    /\ UNCHANGED <<inputs, stale, coeffs, ybus, status>>

ReportsInit == Init /\ reports = NoReports
               /\ threshold \in Thresholds /\ \A s \in Thresholds : s <= threshold

Told == \/ \E t \in 0 .. MaxThreads - 1 : \/ TellSkipped(t) \/ TellSolved(t)
                                          \/ RowBreaks(t) /\ UNCHANGED reports
        \/ TellFailed \/ TellBaseDiverged \/ TellBase
        \/ (Keeps \/ ComputeThrows \/ ComputeEnds) /\ UNCHANGED reports
        \/ Drops /\ reports' = NoReports

ReportsNext == (Told /\ UNCHANGED threshold) \/ SetViolationThreshold

ReportsSpec == ReportsInit /\ [][ReportsNext]_<<vars, reports, threshold>> /\ Fairness

(* The client that avoids the calls the violations single out: in direct   *)
(* current, contingencies on one thread, each of them with a connected     *)
(* branch, and masked buses only without injections of their own.          *)
Sound == Side = "DC" /\ Contingent /\ phase = "running" =>
            /\ setup.threads = 1 \/ NbRows <= 1
            /\ \A i \in 1 .. NbRows : Coeffs(Out(i)) # {}
            /\ setup.mask => ~Varies

SoundSpec == ReportsInit /\ [][ReportsNext /\ Sound']_<<vars, reports, threshold>> /\ Fairness
-----------------------------------------------------------------------------
(* The variables of this module keep their types.                          *)
RowReports == {Untold, Sentinel("diverged"), Sentinel("not simulated")}
              \cup [told : {"checked"}, of : Answers, skipped : SUBSET Branches,
                    unchecked : SUBSET BusIds, at : Thresholds]
ReportsTypeOK ==
    /\ TypeOK
    /\ reports.rows \in Seq(RowReports) /\ reports.n.told \in {"nothing", "diverged", "checked"}
    /\ threshold \in Thresholds

(* A report is about the voltages that are stored: it leaves aside the     *)
(* branches and the buses they were solved without, and no other, and no   *)
(* limit that the present threshold would find; a row that has no voltages *)
(* is told as such.  Whatever was set, listed, cleared or thrown since.    *)
ReportsTellRows ==
    \A i \in DOMAIN reports.rows :
        LET report == reports.rows[i] IN
        /\ report.told = "checked" =>
               /\ i \in DOMAIN volts /\ report.of = volts[i]
               /\ Without(report.skipped) = volts[i].matrix /\ report.unchecked = volts[i].mask
               /\ report.at <= threshold
        /\ report.told \in {"diverged", "not simulated"} => volts[i] = NoAnswer

(* "a violation list is meant to fully encode row status by itself"        *)
(* (BaseBatchSweep.cpp): when compute() returns, each row has been told,   *)
(* and as not simulated when it was not.                                   *)
EveryRowIsTold ==
    phase = "returned" /\ setup.limits =>
        /\ reports.n.told = "checked" /\ DOMAIN reports.rows = DOMAIN volts
        /\ \A i \in DOMAIN volts :
               /\ reports.rows[i].told # "nothing"
               /\ reports.rows[i].told = "not simulated" <=> i \notin Attempted
=============================================================================
