------------------------------ MODULE Results ------------------------------
(***************************************************************************)
(* What the devices report once a powerflow has converged                  *)
(* (compute_results), against what the network takes at each bus.  The     *)
(* powers are not computed: each is a bag of the terms it is the sum of,   *)
(* the set points, the flows of the lines in droop, the power the slack    *)
(* absorbs, the reactive unknowns of the controllers, and the reactive     *)
(* power that is left free where the voltage is pinned.                    *)
(***************************************************************************)
EXTENDS AcAlgorithms, Bags

Terms(kind, S) == SetToBag({kind} \X S)
At(b, S)       == {x.id : x \in {y \in S : y.bus = b}}

-----------------------------------------------------------------------------
(* Active power.  The mismatch is what the injections leave unexplained;   *)
(* the slack absorbs it at the buses that have a weight.                   *)

FixedP(b)    == Terms("set point", At(b, prep.inj))
DroopP(b)    == Terms("droop", {x \in Hvdc \X K : DroopOn(x[1]) /\ StationBus(x) = b})
NetworkP(b)  == FixedP(b) (+) DroopP(b) (+) Terms("slack", {b} \cap prep.weighted)
MismatchP(b) == NetworkP(b) (-) FixedP(b)

(* set_p_slack: the slack generators of a bus share its mismatch.          *)
SlackTakers(b) == {g \in GensOn \cap SlackGens : gen[g].bus = b}
ReportedP(b)   == FixedP(b) (+) DroopP(b)
                  (+) (IF SlackTakers(b) = {} THEN EmptyBag ELSE MismatchP(b))

-----------------------------------------------------------------------------
(* Reactive power.                                                         *)

IsPinned(b)  == <<"q", b>> \notin RowsOf(Claims(prep, Pulled(prep)))
UnknownQ(b) == Terms("qc", At(b, Controllers))
NetworkQ(b) == UnknownQ(b) (+) Terms("free", {x \in {b} : IsPinned(x)})

(* Mutant: the controllers keep their part of the mismatch as well.        *)
KeptSharesOfAll(b) == At(b, QTakers)

(* set_q gives each taker its part of the mismatch, counted over those     *)
(* init_q_vector found; the controllers then report what they solved for.  *)
KeptShares(b) == At(b, QTakers) \ At(b, Controllers)
SharedQ(b) ==
    IF KeptShares(b) = {} THEN EmptyBag
    ELSE IF KeptShares(b) = At(b, prep.counted) THEN NetworkQ(b)
    ELSE Terms("part", {b})
ReportedQ(b) == UnknownQ(b) (+) SharedQ(b)

-----------------------------------------------------------------------------
(* Kirchhoff's law at every bus for what is reported, but for two cases:   *)
(* a line in droop that ends where a slack generator is on, whose flow is  *)
(* counted again as the power of the slack; a station that regulates at a  *)
(* slack bus that nothing else pins, which reports the power of the        *)
(* controllers there.                                                      *)
(* The other algorithms solve for no controller.                           *)
ResultsBalance ==
    last = "converged" /\ algo = "NR" =>
        \A b \in Live :
            /\ \/ ReportedP(b) = NetworkP(b)
               \/ b \in prep.weighted /\ DroopP(b) # EmptyBag
            /\ \/ ReportedQ(b) = NetworkQ(b)
               \/ b \in FreeVmSlack(prep.slack) /\ \E x \in VscOn : StationBus(x) = b
=============================================================================
