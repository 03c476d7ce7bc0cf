------------------------------- MODULE DcAlgo -------------------------------
(***************************************************************************)
(* What a powerflow algorithm keeps between two rows of a sweep.  The      *)
(* direct-current algorithm keeps its own copy of the matrix, which the    *)
(* contingencies edit in place, the factors of a matrix and the injections *)
(* it last prepared; each of them is redone only when a flag asks for it.  *)
(* The alternating-current ones iterate until they balance the matrix and  *)
(* the injections they are given, and carry no answer over.                *)
(***************************************************************************)
EXTENDS Islands, AlgoControl

CONSTANTS Injections,    \* the injections of a row
          NoInjection    \* none was prepared yet

NoMatrix == [b \in Branches |-> 0]
System(a) == [matrix |-> a.matrix, mask |-> a.mask]

(* `built`: the buses have their place in the reduced system (mat_bus_id_).*)
(* `factors`: the matrix the linear solver last factorised, and its mask.  *)
FreshAlgo == [built |-> FALSE, matrix |-> NoMatrix,
              factors |-> [matrix |-> NoMatrix, mask |-> {}],
              factorize |-> TRUE, refactor |-> TRUE, mask |-> {}, inj |-> NoInjection]

(* Mutant: the removal does not ask for new factors.                       *)
EditUnfactored(a, c, add) ==
    [a EXCEPT !.matrix = IF add THEN Readd(@, c) ELSE Remove(@, c)]

(* update_internal_Ybus, for the coefficients of one contingency.          *)
Edit(a, c, add) ==
    [a EXCEPT !.matrix = IF add THEN Readd(@, c) ELSE Remove(@, c),
              !.refactor = @ \/ (~add /\ c # {})]

ResetFlags == {"reset", "dimension", "slack_part", "sparsity", "coeffs_zero"}

(* The start of compute_pf_dc: a reset drops everything, the mask too; the *)
(* matrix is copied from the grid's and the injections are prepared when   *)
(* asked for, but not for a masked row, which makes its own.               *)
Prepared(a, inj, flags) ==
    LET anew == a.factorize \/ AnyOf(flags, ResetFlags)
        b    == IF anew THEN FreshAlgo ELSE a
        c    == IF anew \/ AnyOf(flags, {"ybus"})
                THEN [b EXCEPT !.built = TRUE, !.matrix = Base, !.factorize = TRUE] ELSE b
    IN IF c.mask = {} /\ (c.factorize \/ AnyOf(flags, {"sbus", "slack_weight"}))
       THEN [c EXCEPT !.inj = inj] ELSE c

Refactors(p) == p.factorize \/ p.refactor \/ p.mask # {}
Factored(p)  == [p EXCEPT !.factors = IF Refactors(p) THEN System(p) ELSE @,
                          !.factorize = FALSE,
                          !.refactor = @ /\ ~p.factorize]
Unfactored(p) == [p EXCEPT !.factors = FreshAlgo.factors]

(* A system has a solution when what is not masked holds together.         *)
Solvable(s) == s.mask # {} \/ Connected(s.matrix)

(* The ways a solve may end: with an answer if there is one, without, or   *)
(* while factorising.                                                      *)
Outcome(conv, algo, solved) == [conv |-> conv, algo |-> algo, solved |-> solved]

(* compute_pf_dc: it solves with the factors it has.                       *)
DcOutcomes(a, inj, flags) ==
    LET p == Prepared(a, inj, flags)
        f == Factored(p)
        answer == [matrix |-> f.factors.matrix, mask |-> f.factors.mask,
                   inj |-> IF f.mask = {} THEN f.inj ELSE inj]
    IN {o \in { Outcome(TRUE, [f EXCEPT !.refactor = FALSE], answer),
                Outcome(FALSE, f, answer),
                Outcome(FALSE, Unfactored(p), answer) } :
          /\ o.conv => Solvable(f.factors)
          /\ o.algo = Unfactored(p) => Refactors(p)}

(* compute_pf of an iterative algorithm, on the matrix it is given.        *)
AcOutcomes(a, matrix, inj) ==
    LET answer == [matrix |-> matrix, mask |-> a.mask, inj |-> inj]
    IN {o \in {Outcome(c, a, answer) : c \in BOOLEAN} : o.conv => Solvable(answer)}
=============================================================================
