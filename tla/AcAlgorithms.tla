---------------------------- MODULE AcAlgorithms ----------------------------
(***************************************************************************)
(* The algorithms an AC powerflow may use, one at a time: Newton-Raphson   *)
(* ("NR"), fast decoupled ("FDPF") and Gauss-Seidel ("GS").  The last two  *)
(* know neither the groups nor the droops: the buses of a group are PQ     *)
(* buses to them, and a droop is refused.  Gauss-Seidel keeps nothing      *)
(* between two powerflows.  Fast decoupled keeps the factors of B' and B'' *)
(* and reads the branches in the grid itself, through coefficients the     *)
(* containers compute on demand.                                           *)
(***************************************************************************)
EXTENDS Newton

VARIABLES algo,      \* the algorithm selected
          coeffs,    \* have the branches computed their coefficients for B' and B''?
          fd         \* BaseFDPFAlgo: [need, grid, mat, factored]

AlgoClasses == {"NR", "FDPF", "GS"}
acvars == <<vars, algo, coeffs, fd>>

(* As in Newton, sets of at most one element.                              *)
FdNothing == [need |-> TRUE, grid |-> {}, mat |-> {}, factored |-> {}]

-----------------------------------------------------------------------------
(* AlgorithmSelector.  The algorithm in place is kept when it is asked for *)
(* again.  By type, the coefficients are computed on the way; by name, and *)
(* so in a grid that is restored, they are not.                            *)

Selected(a) == IF a = algo THEN UNCHANGED <<nr, fd>> ELSE nr' = Nothing /\ fd' = FdNothing

Select(a, computed) ==
    /\ pc = "idle" /\ algo' = a
    /\ coeffs' = (coeffs \/ computed) /\ Selected(a)
    /\ flags' = AllChanged /\ last' = "none" /\ UNCHANGED <<devices, prep, pc>>
ChangeAlgorithmByType(a) == Select(a, a = "FDPF")
ChangeAlgorithmByName(a) == Select(a, FALSE)

(* The grid goes on in another object: a copy has the containers of the    *)
(* grid, a restored one computes its own; both start with new algorithms.  *)
Replaced(kept) ==
    /\ pc = "idle" /\ coeffs' = (coeffs /\ kept)
    /\ nr' = Nothing /\ fd' = FdNothing /\ prep' = Unprepared
    /\ flags' = AllChanged /\ last' = "none" /\ UNCHANGED <<devices, pc, algo>>
CopyGrid    == Replaced(TRUE)
RestoreGrid == Replaced(FALSE)

-----------------------------------------------------------------------------
(* Fast decoupled.                                                         *)

FdResetFlags == {"reset", "dimension", "sparsity", "coeffs_zero", "slack_part", "pv", "pq"}
FdGridFlags  == {"reset", "dimension", "sparsity", "coeffs_zero", "ybus"}

(* B' and B'' on the buses this powerflow solves: the rows of the one are  *)
(* the PV buses (the other slack buses among them) and the PQ buses, those *)
(* of the other the PQ buses.                                              *)
FdMatrices(p, closed) ==
    [pv |-> (p.slack \ {Reference(p)}) \cup p.pv, pq |-> PqBuses(p), line |-> closed]

FdCurrent == IF AnyOf(flags, FdResetFlags) THEN FdNothing ELSE fd

(* Mutant: an algorithm that was reset does not read the branches again.   *)
FdReadsGridOnFlags == AnyOf(flags, FdGridFlags)
FdReadsGrid == FdCurrent.need \/ AnyOf(flags, FdGridFlags)

FdRead == IF FdReadsGrid THEN [FdCurrent EXCEPT !.grid = {line}] ELSE FdCurrent
FdFilled(p) ==
    IF FdReadsGrid \/ AnyOf(flags, {"slack_part", "pv", "pq"})
    THEN [FdRead EXCEPT !.mat = {FdMatrices(p, b) : b \in FdRead.grid}, !.need = TRUE]
    ELSE FdRead

-----------------------------------------------------------------------------
(* ac_pf with these two.                                                   *)

DroopRefused == algo # "NR" /\ \E h \in Hvdc : DroopOn(h)
CannotReadBranches == algo = "FDPF" /\ FdReadsGrid /\ ~coeffs

OtherRefused ==
    /\ pc = "idle" /\ (DroopRefused \/ ~Preparable)
    /\ last' = "refused" /\ UNCHANGED <<devices, flags, prep, pc, fd>>
OtherThrows ==
    /\ pc = "idle" /\ ~DroopRefused /\ Preparable /\ CannotReadBranches
    /\ prep' = Prepared /\ fd' = [FdCurrent EXCEPT !.grid = {}]
    /\ last' = "refused" /\ UNCHANGED <<devices, flags, pc>>
OtherBegin ==
    /\ pc = "idle" /\ ~DroopRefused /\ Preparable /\ ~CannotReadBranches
    /\ prep' = Prepared /\ fd' = IF algo = "FDPF" THEN FdFilled(Prepared) ELSE fd
    /\ pc' = "begun" /\ last' = "none" /\ UNCHANGED <<devices, flags>>

(* Gauss-Seidel reads no slack weight.                                     *)
OtherConverge == (algo = "GS" \/ Weighable) /\ Converge /\ UNCHANGED fd
OtherFail == /\ pc' = "idle" /\ last' = "failed" /\ flags' = NoneChanged
             /\ fd' = FdNothing /\ UNCHANGED <<devices, prep>>

(* The first half iteration factorizes what was filled.                    *)
OtherFirst ==
    /\ pc = "begun"
    /\ \/ OtherConverge
       \/ /\ fd' = IF algo = "FDPF" /\ fd.need THEN [fd EXCEPT !.factored = fd.mat, !.need = FALSE] ELSE fd
          /\ pc' = "iterating" /\ UNCHANGED <<devices, flags, prep, last>>
       \/ OtherFail
OtherIterated == pc = "iterating" /\ (OtherConverge \/ OtherFail)

Other == /\ algo # "NR"
         /\ OtherRefused \/ OtherThrows \/ OtherBegin \/ OtherFirst \/ OtherIterated
         /\ UNCHANGED <<nr, algo, coeffs>>

AcChange == Change /\ UNCHANGED <<algo, coeffs, fd>>
AcNewton == algo = "NR" /\ Solve /\ UNCHANGED <<algo, coeffs, fd>>
AcSelect == \/ \E a \in AlgoClasses : ChangeAlgorithmByType(a) \/ ChangeAlgorithmByName(a)
            \/ CopyGrid \/ RestoreGrid

AcInit == NewtonInit /\ algo = "NR" /\ coeffs = FALSE /\ fd = FdNothing

(* Any grid whose HVDC lines are each on or off as a whole.                *)
AcStart == /\ AcInit /\ DevicesTypeOK
           /\ \A h \in Hvdc : \E on \in BOOLEAN : hvdc[h].on = [k \in K |-> on] /\ hvdc[h].global = on

(* A station that does not regulate does not move while its line is in     *)
(* droop: it raises no flag the Jacobian is rebuilt for (README.md).       *)
SoundMove == \A x \in (Hvdc \X K) \ Vsc :
                 DroopOn(x[1]) => hvdc'[x[1]].bus[x[2]] = StationBus(x)

AcNext == (AcChange /\ SoundMove) \/ AcSelect \/ AcNewton \/ Other
AcSpec == AcStart /\ [][AcNext]_acvars

-----------------------------------------------------------------------------
(* The two algorithms with something to keep never keep it together, and   *)
(* the variables of this module have their types.                          *)
AcTypeOK ==
    /\ NewtonTypeOK
    /\ algo \in AlgoClasses /\ coeffs \in BOOLEAN /\ fd.need \in BOOLEAN
    /\ \A part \in {"grid", "mat", "factored"} : Cardinality(fd[part]) \in {0, 1}
    /\ nr = Nothing \/ fd = FdNothing

(* An iteration solves with the factors of the Jacobian the devices ask    *)
(* for now, whatever was kept, refused or given up before.                 *)
IteratesOnCurrent ==
    pc = "iterating" /\ algo = "NR" =>
                        /\ nr.factored = {Required} /\ nr.J = {Required}
                        /\ nr.seen = {Pulled(Current)}

(* A half iteration of the fast-decoupled powerflow solves with factors,   *)
(* and they are those of the matrices the grid asks for now, whatever was  *)
(* kept, thrown or given up before, under this algorithm or another.       *)
SolvesWithCurrent ==
    pc = "iterating" /\ algo = "FDPF" => fd.factored = {FdMatrices(Current, line)}

(* A powerflow is refused exactly when the same grid, solved for the first *)
(* time with this algorithm, would be; but for a grid that was given the   *)
(* fast-decoupled algorithm by name, or restored with it, whose branches   *)
(* have not computed their coefficients (README.md).                       *)
FreshAccepts ==
    /\ SlackGens # {} /\ SlackOf \cup Targets \subseteq Live /\ Injectable
    /\ IF algo = "NR" THEN DroopsOk /\ Supported(PqOf(SlackOf), SlackOf)
       ELSE \A h \in Hvdc : ~DroopOn(h)
RefusalIsDeserved ==
    /\ last = "refused" => ~FreshAccepts \/ (algo = "FDPF" /\ ~coeffs)
    /\ pc # "idle" => FreshAccepts
=============================================================================
