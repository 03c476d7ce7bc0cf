----------------------------- MODULE MCElements -----------------------------
(***************************************************************************)
(* LSGrid for TLC, with an element of every kind.  To follow them all at   *)
(* once would multiply their states; here each behaviour chooses, once and *)
(* for all, the elements that change and the family that is solved.  The   *)
(* others stay where they are.                                             *)
(***************************************************************************)
EXTENDS CacheReuse

VARIABLES moving,        \* the elements that change
          solving        \* the family that is solved

Focus == <<moving, solving>>

(* Everything connected to the first bus, at its neutral set point.        *)
Neutral == /\ load \in [Loads -> [on : {TRUE}, bus : {0}, p : {0}]]
           /\ gen \in [Gens -> [on : {TRUE}, bus : {0}, reg : {0}, p : {1}, weight : {1}]]
           /\ branch \in [Branches -> [on1 : {TRUE}, on2 : {TRUE}, global : {TRUE},
                                      bus1 : {0}, bus2 : {0}, ratio : {1}, shift : {0}]]
           /\ shunt \in [Shunts -> [on : {TRUE}, bus : {0}, p : {0}, q : {0}]]
           /\ offIsPv = TRUE /\ snMva = 1

(* One element per behaviour; with the generator goes the option "turned   *)
(* off generators are PV".                                                 *)
FocusInit == /\ Neutral
             /\ Init
             /\ moving \in {{e} : e \in Loads \cup Gens \cup Branches \cup Shunts}
             /\ solving \in Families

OnlyMoving == /\ \A l \in Loads \ moving : load'[l] = load[l]
              /\ \A g \in Gens \ moving : gen'[g] = gen[g]
              /\ Gens \cap moving = {} => UNCHANGED offIsPv
              /\ \A b \in Branches \ moving : branch'[b] = branch[b]
              /\ \A s \in Shunts \ moving : shunt'[s] = shunt[s]

(* In DC a transformer keeps its ratio and is not opened by one side: the  *)
(* run ratio_dc shows why for the ratio, README.md for the side.           *)
SoundInDC == solving = "DC" =>
    \A b \in Trafos : /\ branch'[b].ratio = branch[b].ratio
                      /\ \A k \in Sides : ~DeactivateSide(b, k)

FocusNext == /\ \/ Modify /\ OnlyMoving /\ SoundInDC
                \/ PowerFlow(solving)
             /\ UNCHANGED Focus

FocusSpec == FocusInit /\ [][FocusNext]_<<vars, Focus>>
=============================================================================
