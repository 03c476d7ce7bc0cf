-------------------------- MODULE PowerflowPromise --------------------------
(***************************************************************************)
(* What a client of LSGrid is promised: a powerflow that returns results   *)
(* has answered for the grid as it is now, as if nothing were ever cached. *)
(* Giving an answer never changes the grid; any other step may change it,  *)
(* or fail, and drops the answer.                                          *)
(***************************************************************************)
CONSTANTS Families

VARIABLES picture,     \* [Families -> what the grid is, for that family]
          answer       \* at most one: the family and the picture it was solved for

Init == answer = {}

Solve(f) ==
    /\ answer' = {[family |-> f, solved |-> picture[f]]}
    /\ UNCHANGED picture

Change == answer' = {}

Next == (\E f \in Families : Solve(f)) \/ Change

Spec == Init /\ [][Next]_<<picture, answer>>
=============================================================================
