--------------------------- MODULE ArchivePromise ---------------------------
(***************************************************************************)
(* What saving and loading a binary file promise: the file is seen whole.  *)
(* A load answers for the file as it was when the load opened it, unless   *)
(* somebody wrote into that very file since (save_binary with atomic=False *)
(* has no protection); an atomic save puts a complete file, or none.       *)
(***************************************************************************)
CONSTANTS Loaders, Requests,
          Contents,             \* what a file may hold; Missing: there is none
          Missing, Unsure,
          Complete(_),          \* whether that is all of a saved object
          Answers, NoAnswer,
          Reading(_, _, _)      \* the answers of a loader, to a request, on a file

VARIABLES kept,     \* the file
          held,     \* what each loader has opened, and what for
          answer    \* its answer

vars == <<kept, held, answer>>

Init == /\ kept \in Contents
        /\ held \in [Loaders -> [file : {Missing}, asks : Requests]]
        /\ answer = [l \in Loaders |-> NoAnswer]

Replace == /\ kept' \in {c \in Contents : Complete(c)} \cup {Missing}
           /\ UNCHANGED <<held, answer>>

(* Writing in place: the file changes under those that have opened it.     *)
Overwrite == /\ kept' \in Contents
             /\ \E S \in SUBSET Loaders :
                   held' = [l \in Loaders |-> IF l \in S THEN [held[l] EXCEPT !.file = Unsure]
                                              ELSE held[l]]
             /\ UNCHANGED answer

Answer(l, file, asks) ==
    \E a \in Answers : /\ file # Unsure => a \in Reading(l, asks, file)
                       /\ answer' = [answer EXCEPT ![l] = a]

Open(l) == /\ \E asks \in Requests :
                 /\ held' = [held EXCEPT ![l] = [file |-> kept, asks |-> asks]]
                 /\ IF kept = Missing THEN Answer(l, kept, asks)
                    ELSE answer' = [answer EXCEPT ![l] = NoAnswer]
           /\ UNCHANGED kept

Return(l) == /\ answer[l] = NoAnswer /\ Answer(l, held[l].file, held[l].asks)
             /\ \E asks \in Requests :
                   held' = [held EXCEPT ![l] = [file |-> Missing, asks |-> asks]]
             /\ UNCHANGED kept

Next == Replace \/ Overwrite \/ \E l \in Loaders : Open(l) \/ Return(l)
Spec == Init /\ [][Next]_vars
=============================================================================
