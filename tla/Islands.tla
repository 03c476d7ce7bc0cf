------------------------------ MODULE Islands ------------------------------
(***************************************************************************)
(* The matrix of a grid, as far as a contingency changes it: how many      *)
(* times each branch is stamped in it, and the buses it still ties to one  *)
(* another.                                                                *)
(***************************************************************************)
EXTENDS Integers, FiniteSets

CONSTANTS NbBuses,       \* the buses of the solver are 0 .. NbBuses - 1
          Branches,      \* powerlines, then transformers
          Ends,          \* [Branches -> the set of the two buses of the branch]
          Live           \* the branches that are connected in the grid

BusIds == 0 .. NbBuses - 1

ASSUME IslandsAssumption ==
    /\ NbBuses \in Nat \ {0}
    /\ IsFiniteSet(Branches)
    /\ Ends \in [Branches -> SUBSET BusIds]
    /\ Live \subseteq Branches

(* A matrix: the number of times each branch is stamped.                   *)
Matrices == [Branches -> Int]
Base     == [b \in Branches |-> IF b \in Live THEN 1 ELSE 0]

(* The coefficients of a contingency: those of its connected branches.     *)
Coeffs(out) == out \cap Live

Remove(m, c) == [b \in Branches |-> IF b \in c THEN m[b] - 1 ELSE m[b]]
Readd(m, c)  == [b \in Branches |-> IF b \in c THEN m[b] + 1 ELSE m[b]]

Without(out) == Remove(Base, Coeffs(out))

-----------------------------------------------------------------------------
(* What a search breadth first from a bus reaches: the buses that no set   *)
(* closed under the branches of the matrix can leave out.                  *)
Closed(m, S) == \A b \in Branches : m[b] # 0 /\ Ends[b] \cap S # {} => Ends[b] \subseteq S
Reached(m, bus) == {i \in BusIds : \A S \in SUBSET BusIds : bus \in S /\ Closed(m, S) => i \in S}

(* check_invertible: everything is reached from the first bus.             *)
Connected(m) == Reached(m, 0) = BusIds

Components(m) == {Reached(m, i) : i \in BusIds}

(* The largest component, the one numbered first among equals.             *)
MainComponent(m) ==
    CHOOSE C \in Components(m) :
        \A D \in Components(m) \ {C} :
            \/ Cardinality(D) < Cardinality(C)
            \/ /\ Cardinality(D) = Cardinality(C)
               /\ \E i \in C : \A j \in D : i < j

(* _disconnected_buses: what the main component leaves out.                *)
Disconnected(m) == BusIds \ MainComponent(m)
=============================================================================
