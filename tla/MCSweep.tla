------------------------------ MODULE MCSweep ------------------------------
(***************************************************************************)
(* Small instances of SweepReports for TLC: three buses in a row, the      *)
(* first two tied by two branches, the others by one, and an open branch.  *)
(***************************************************************************)
EXTENDS SweepReports

Lines == 0 .. 3
LineEnds == [b \in Lines |-> IF b < 2 THEN {0, 1} ELSE IF b = 2 THEN {1, 2} ELSE {0, 2}]
Standing == {0, 1, 2}

(* Two injections and two targets, 0 being the grid's; the sequences of    *)
(* rows include two lengths, so that a setter may be refused.              *)
SomeInjections == {<<0, 1, 1>>, <<1, 0>>}
SomeTargets == {<<1, 0, 1>>}
SomeMasks == {<<{0}, {2}, {1}>>, <<{0, 1}, {0}, {2}>>}
SomeList == <<{0}, {0, 1}, {2}>>
OneSlack == <<0>>
TwoSlacks == <<0, 2>>
EqualWeights == [b \in BusIds |-> 1]
=============================================================================
