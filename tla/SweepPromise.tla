---------------------------- MODULE SweepPromise ----------------------------
(***************************************************************************)
(* What a client of a sweep is promised: the answers it can read are the   *)
(* answers to the problems it asks, each row to its own, as if the rows    *)
(* were solved one by one on a new grid.  Some rows may have none.  A      *)
(* change of the problems withdraws every answer.                          *)
(***************************************************************************)
VARIABLES problems,    \* the problem of each row
          answers      \* a function: what some rows hold

Init == answers = <<>>

Answer == /\ UNCHANGED problems
          /\ DOMAIN answers' \subseteq DOMAIN problems
          /\ \A i \in DOMAIN answers' : answers'[i] = problems[i]

Change == answers' = <<>>

Next == Answer \/ Change

Spec == Init /\ [][Next]_<<problems, answers>>
=============================================================================
