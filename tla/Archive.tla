------------------------------ MODULE Archive ------------------------------
(***************************************************************************)
(* Binary files (BinaryArchive, save_binary, load_binary): a process saves *)
(* objects to one path, through a temporary file or in place, and others   *)
(* load it, part by part, while it may be replaced.  The saving process    *)
(* may crash, the disk may be full, and a name is not a file: one that is  *)
(* open outlives its name (POSIX).                                         *)
(***************************************************************************)
EXTENDS Naturals, Sequences, FiniteSets

CONSTANTS Loaders,
          Objects,            \* what can be saved
          Tag, NbParts,       \* its class, the fields of the StateRes of a class
          Sound,              \* those that check_grid (and set_state) accept
          Algorithm,          \* the algorithm each was saved with
          Format, Supported,  \* BINARY_FORMAT_VERSION of the writer, and those each loader reads
          Registered,         \* the algorithms known to each loader
          Found,              \* what the path may hold beforehand
          Atomic,             \* the values of `atomic` that are used
          Missing, Unsure     \* no file; a file written into while it was read

ASSUME ArchiveAssumption ==
    /\ Objects # {} /\ NbParts \in [{Tag[o] : o \in Objects} -> Nat \ {0}]
    /\ Format \in Nat /\ Supported \in [Loaders -> SUBSET Nat]
    /\ Sound \subseteq Objects /\ Atomic \subseteq BOOLEAN
    /\ \A o \in Objects : o \notin {"none", "error", "mixture", "hole"}

VARIABLES files,    \* what is behind path_ and behind tmp_path_
          saver, loader

vars == <<files, saver, loader>>

Tags == {Tag[o] : o \in Objects}
Requests == [tag : Tags, algorithm : BOOLEAN]

-----------------------------------------------------------------------------
(* Contents: the header, then the fields of the state in their order.      *)

Header(o, f)  == [part |-> 0, of |-> Tag[o], format |-> f]
Part(o, k, f) == [part |-> k, of |-> o, format |-> f]
Whole(o, f) == [i \in 1 .. NbParts[Tag[o]] + 1 |->
                    IF i = 1 THEN Header(o, f) ELSE Part(o, i - 1, f)]
Complete(c) == \E o \in Objects : c = Whole(o, Format)

(* There is no checksum: a file found there may be cut, have bytes after   *)
(* its end or be of another program, but nothing has altered its inside.   *)
Items     == [part : Nat, of : Objects \cup Tags \cup {"hole"}, format : Nat]
IsOf(c, o) == \A i \in DOMAIN c : i <= NbParts[Tag[o]] + 1 => c[i] = Whole(o, c[1].format)[i]
Unaltered(c) == /\ c \in Seq(Items)
                /\ c # <<>> /\ c[1].part = 0 => \E o \in Objects : IsOf(c, o)

ASSUME FilesAssumption ==
    /\ Missing # Unsure /\ Missing \notin Seq(Items) /\ Unsure \notin Seq(Items)
    /\ \A c \in Found : c = Missing \/ Unaltered(c)

Busy(at) == at \notin {"idle", "returned", "raised", "crashed"}
IdleSaver  == [at |-> "idle", of |-> CHOOSE o \in Objects : TRUE, atomic |-> TRUE, done |-> 0]
IdleLoader == [at |-> "idle", asks |-> CHOOSE r \in Requests : TRUE, got |-> <<>>,
               answer |-> "none", size |-> 0, opened |-> Missing, orphan |-> Missing]

Init == /\ files \in [path : Found, tmp : {Missing}]
        /\ saver = IdleSaver
        /\ loader = [l \in Loaders |-> IdleLoader]

(* The file a loader has open: the one behind the path, until that name is *)
(* taken away.                                                             *)
Opened(l) == IF loader[l].orphan = Missing THEN files.path ELSE loader[l].orphan
Linked(l) == Busy(loader[l].at) /\ loader[l].orphan = Missing

-----------------------------------------------------------------------------
(* Saving.                                                                 *)

SaverEnds(how) == saver' = [IdleSaver EXCEPT !.at = how]

Writes(atomic, c) ==
    IF atomic THEN files' = [files EXCEPT !.tmp = c] /\ UNCHANGED loader
    ELSE /\ files' = [files EXCEPT !.path = c]
         /\ loader' = [l \in Loaders |-> IF Linked(l) THEN [loader[l] EXCEPT !.opened = Unsure]
                                         ELSE loader[l]]

(* The constructor: creates or truncates the file it will write.           *)
OpenToWrite == /\ ~Busy(saver.at)
               /\ \E o \in Objects, atomic \in Atomic :
                     /\ Writes(atomic, <<>>)
                     /\ saver' = [at |-> "writing", of |-> o, atomic |-> atomic, done |-> 0]

CannotOpenToWrite == ~Busy(saver.at) /\ SaverEnds("raised") /\ UNCHANGED <<files, loader>>

(* write_header, then archive_write_value, field by field.                 *)
State == Whole(saver.of, Format)
Write == /\ saver.at = "writing" /\ saver.done < Len(State)
         /\ Writes(saver.atomic, SubSeq(State, 1, saver.done + 1))
         /\ saver' = [saver EXCEPT !.done = @ + 1]

(* The destructor of an archive that did not commit.                       *)
Abandon == /\ files' = IF saver.atomic THEN [files EXCEPT !.tmp = Missing] ELSE files
           /\ SaverEnds("raised") /\ UNCHANGED loader

(* A full disk: write_raw, or the flush of commit, throws.                 *)
WriteFails == saver.at = "writing" /\ Abandon

(* commit: flush and close, then remove the destination and rename.        *)
(* Mutant: committing is not held back until all has been written. *)
FlushedEarly == saver.at = "writing"
Flushed == saver.at = "writing" /\ saver.done = Len(State)
CommitInPlace == /\ Flushed /\ ~saver.atomic
                 /\ SaverEnds("returned") /\ UNCHANGED <<files, loader>>

CommitRemoves == /\ Flushed /\ saver.atomic
                 /\ files' = [files EXCEPT !.path = Missing]
                 /\ loader' = [l \in Loaders |->
                       IF Linked(l) THEN [loader[l] EXCEPT !.orphan = files.path] ELSE loader[l]]
                 /\ saver' = [saver EXCEPT !.at = "removed"]

CommitRenames == /\ saver.at = "removed"
                 /\ files' = [path |-> files.tmp, tmp |-> Missing]
                 /\ SaverEnds("returned") /\ UNCHANGED loader

RenameFails == saver.at = "removed" /\ Abandon

(* The process ends wherever it is, without its destructors.               *)
Crash == Busy(saver.at) /\ SaverEnds("crashed") /\ UNCHANGED <<files, loader>>

-----------------------------------------------------------------------------
(* Loading.                                                                *)

Ends(l, answer) == loader' = [loader EXCEPT ![l] = [IdleLoader EXCEPT !.answer = answer]]
Raises(l) == Ends(l, "error")

(* The constructor: opens the file and notes its size.                     *)
OpenToRead(l) ==
    /\ ~Busy(loader[l].at)
    /\ IF files.path = Missing THEN Raises(l)
       ELSE \E asks \in Requests :
               loader' = [loader EXCEPT ![l] = [IdleLoader EXCEPT
                   !.at = "header", !.asks = asks, !.size = Len(files.path), !.opened = files.path]]
    /\ UNCHANGED <<files, saver>>

(* check_header: the magic, then the format, then the class.               *)
HeaderIsFor(l, c) == /\ c # <<>> /\ c[1].part = 0
                     /\ c[1].format \in Supported[l] /\ c[1].of = loader[l].asks.tag
ReadHeader(l) ==
    LET c == Opened(l)
    IN /\ loader[l].at = "header"
       /\ IF HeaderIsFor(l, c) THEN loader' = [loader EXCEPT ![l].at = "parts"] ELSE Raises(l)
       /\ UNCHANGED <<files, saver>>

(* archive_read_value.  Counts are checked against the bytes that remain:  *)
(* what is not the expected field is rejected, or read as garbage.         *)
Field(c, k, tag) == {o \in Objects : Tag[o] = tag /\ c[k + 1] = Part(o, k, c[1].format)}
GetsField(l, c, k) ==
    \E o \in IF Field(c, k, loader[l].asks.tag) = {} THEN {"hole"}
              ELSE Field(c, k, loader[l].asks.tag) :
        loader' = [loader EXCEPT ![l].got = Append(@, o)]

(* Mutant: a read past the end of the file is not an error. *)
ReadPartWaits(l) ==
    LET r == loader[l]  c == Opened(l)  k == Len(r.got) + 1
    IN /\ r.at = "parts" /\ k <= NbParts[r.asks.tag] /\ k < Len(c)
       /\ GetsField(l, c, k) \/ (Field(c, k, r.asks.tag) = {} /\ Raises(l))
       /\ UNCHANGED <<files, saver>>
ReadPart(l) ==
    LET r == loader[l]  c == Opened(l)  k == Len(r.got) + 1
    IN /\ r.at = "parts" /\ k <= NbParts[r.asks.tag]
       /\ \/ k < Len(c) /\ GetsField(l, c, k)
          \/ (k < Len(c) => Field(c, k, r.asks.tag) = {}) /\ Raises(l)
       /\ UNCHANGED <<files, saver>>

(* check_fully_consumed, the fix-up of the version, then set_state on a    *)
(* new object: it selects the algorithm and ends in check_grid.            *)
Mixture == "mixture"
Read(got) == IF \E o \in Objects : \A i \in DOMAIN got : got[i] = o
             THEN CHOOSE o \in Objects : \A i \in DOMAIN got : got[i] = o ELSE Mixture
(* Mutant: what follows the state is ignored. *)
LeavesNothing(r) == FALSE
LeavesBytes(r) == r.size > Len(r.got) + 1
Restorable(l, asks, o) == o \in Sound /\ (asks.algorithm => Algorithm[o] \in Registered[l])

Restore(l) ==
    LET r == loader[l]  o == Read(r.got)
    IN /\ r.at = "parts" /\ Len(r.got) = NbParts[r.asks.tag]
       /\ \/ ~LeavesBytes(r) /\ (o = Mixture \/ Restorable(l, r.asks, o)) /\ Ends(l, o)
          \/ (LeavesBytes(r) \/ o = Mixture \/ ~Restorable(l, r.asks, o)) /\ Raises(l)
       /\ UNCHANGED <<files, saver>>

-----------------------------------------------------------------------------
SaverStep == Write \/ WriteFails \/ CommitInPlace \/ CommitRemoves \/ CommitRenames \/ RenameFails
LoaderStep(l) == ReadHeader(l) \/ ReadPart(l) \/ Restore(l)

Next == \/ OpenToWrite \/ CannotOpenToWrite \/ SaverStep \/ Crash
        \/ \E l \in Loaders : OpenToRead(l) \/ LoaderStep(l)

Spec == Init /\ [][Next]_vars

(* A call that has begun goes on: nothing in it waits for another process. *)
FairSpec == Spec /\ WF_vars(SaverStep) /\ \A l \in Loaders : WF_vars(LoaderStep(l))

-----------------------------------------------------------------------------
(* Properties.                                                             *)

(* The shape of the state; and a temporary file grows with its save, which *)
(* has all of it when the destination is removed.                          *)
Contents == {Missing} \cup Seq(Items)
TypeOK ==
    /\ files \in [path : Contents, tmp : Contents]
    /\ saver \in [at : {"idle", "writing", "removed", "returned", "raised", "crashed"},
                  of : Objects, atomic : BOOLEAN, done : Nat]
    /\ Busy(saver.at) /\ saver.atomic => files.tmp = SubSeq(State, 1, saver.done)
    /\ saver.at = "removed" => /\ saver.atomic /\ files.path = Missing
                              /\ files.tmp = State
    /\ loader \in [Loaders -> [at : {"idle", "header", "parts"}, asks : Requests,
                               got : Seq(Objects \cup {"hole"}),
                               answer : Objects \cup {"none", "error", Mixture}, size : Nat,
                               opened : {Unsure} \cup Contents, orphan : Contents]]
    /\ \A l \in Loaders : /\ Len(loader[l].got) <= NbParts[loader[l].asks.tag]
                          /\ Busy(loader[l].at) => loader[l].answer = "none" /\ Opened(l) # Missing

(* What a loader answers on a file that nobody touches.                    *)
Reading(l, asks, c) ==
    LET good == {o \in Objects : /\ Tag[o] = asks.tag /\ Restorable(l, asks, o)
                                 /\ \E f \in Supported[l] : c = Whole(o, f)}
    IN IF good = {} THEN {"error"} ELSE good

P == INSTANCE ArchivePromise WITH
        NoAnswer <- "none", Answers <- Objects \cup {"error", Mixture},
        kept <- files.path,
        held <- [l \in Loaders |-> [file |-> loader[l].opened, asks |-> loader[l].asks]],
        answer <- [l \in Loaders |-> loader[l].answer]

(* The file is seen whole: a load gives the very object whose save put the *)
(* file there, or raises because the format, the class, the algorithm or   *)
(* the grid is not acceptable, or the file is cut or too long; a save that *)
(* runs at the same time through a temporary file changes nothing to it.   *)
KeepsArchivePromise == P!Spec

(* Every save and every load that has begun ends, whatever was found in    *)
(* the file and whatever happens to it meanwhile.                          *)
CallsEnd == /\ Busy(saver.at) ~> ~Busy(saver.at)
            /\ \A l \in Loaders : Busy(loader[l].at) ~> ~Busy(loader[l].at)

(* BinaryArchive.hpp:30-36: "a crash / full disk mid-save never destroys a *)
(* previously good file".                                                  *)
GoodFileSurvives == Busy(saver.at) \/ Complete(files.path)
=============================================================================
