--------------------------- MODULE ArchiveProofs ---------------------------
(***************************************************************************)
(* Proofs that a file is always seen whole (ArchivePromise), for every set *)
(* of objects, of formats, of loaders and of files found beforehand.       *)
(***************************************************************************)
EXTENDS Archive, SequenceTheorems, TLAPS

-----------------------------------------------------------------------------
(* What a file holds.                                                      *)

LEMMA WholeIs ==
    ASSUME NEW o \in Objects, NEW f \in Nat
    PROVE  /\ NbParts[Tag[o]] \in Nat \ {0}
           /\ Whole(o, f) \in Seq(Items) /\ Len(Whole(o, f)) = NbParts[Tag[o]] + 1
           /\ Whole(o, f)[1] = Header(o, f)
           /\ \A i \in 2 .. NbParts[Tag[o]] + 1 : Whole(o, f)[i] = Part(o, i - 1, f)
<1> DEFINE n == NbParts[Tag[o]] + 1
<1>1. NbParts[Tag[o]] \in Nat \ {0} /\ n \in Nat /\ Tag[o] \in Tags
  BY ArchiveAssumption DEF Tags
<1>2. Header(o, f) \in Items
  BY <1>1 DEF Header, Items
<1>3. \A i \in 2 .. n : Part(o, i - 1, f) \in Items
  BY <1>1 DEF Part, Items
<1>4. \A i \in 1 .. n : (IF i = 1 THEN Header(o, f) ELSE Part(o, i - 1, f)) \in Items
  BY <1>1, <1>2, <1>3
<1>5. Whole(o, f) = [i \in 1 .. n |-> IF i = 1 THEN Header(o, f) ELSE Part(o, i - 1, f)]
  BY DEF Whole
<1>6. Whole(o, f) \in [1 .. n -> Items]
  BY <1>4, <1>5
<1>7. Whole(o, f) \in Seq(Items) /\ Len(Whole(o, f)) = n
  <2> DEFINE w == Whole(o, f)
  <2>1. n \in Nat /\ w \in [1 .. n -> Items]
    BY <1>1, <1>6
  <2> HIDE DEF n, w
  <2>2. w \in Seq(Items)
    BY <2>1, SeqDef
  <2>3. DOMAIN w = 1 .. n /\ DOMAIN w = 1 .. Len(w) /\ Len(w) \in Nat
    BY <2>1, <2>2, LenProperties
  <2> QED BY <2>1, <2>2, <2>3 DEF w
<1> QED BY <1>1, <1>5, <1>7

(* The beginning of a saved file is unaltered, and it is a file.           *)
LEMMA PrefixUnaltered ==
    ASSUME NEW o \in Objects, NEW n \in 0 .. Len(Whole(o, Format))
    PROVE  /\ SubSeq(Whole(o, Format), 1, n) \in Seq(Items)
           /\ Unaltered(SubSeq(Whole(o, Format), 1, n))
<1> DEFINE w == Whole(o, Format)
           c == SubSeq(w, 1, n)
<1>1. w \in Seq(Items) /\ w[1] = Header(o, Format)
  BY WholeIs, ArchiveAssumption
<1> HIDE DEF w
<1>2. c \in Seq(Items) /\ Len(c) = n /\ \A i \in 1 .. n : c[i] = w[i]
  BY <1>1 DEF w
<1>3. DOMAIN c = 1 .. n
  BY <1>2
<1>4. ASSUME c # <<>>
      PROVE  IsOf(c, o)
  <2>1. 1 \in 1 .. n
    BY <1>2, <1>4
  <2>2. c[1].format = Format
    BY <1>1, <1>2, <2>1 DEF Header
  <2> QED BY <1>2, <1>3, <2>2 DEF IsOf, w
<1> QED BY <1>2, <1>4 DEF Unaltered, w

(* Files are not the values that stand for none.                           *)
LEMMA FilesAreFiles ==
    ASSUME NEW c \in Seq(Items)
    PROVE  c # Missing /\ c # Unsure
BY FilesAssumption

(* Reading an unaltered file of the class asked for gives the fields of    *)
(* the object it is of.                                                    *)
LEMMA FieldOfUnaltered ==
    ASSUME NEW c, Unaltered(c), c # <<>>, NEW o \in Objects, IsOf(c, o),
           NEW k \in 1 .. NbParts[Tag[o]], k < Len(c), c[1].format \in Nat
    PROVE  Field(c, k, Tag[o]) = {o}
<1>1. c \in Seq(Items) /\ k + 1 \in DOMAIN c /\ k + 1 \in 2 .. NbParts[Tag[o]] + 1
  <2>0. NbParts[Tag[o]] \in Nat
    BY WholeIs
  <2>1. k \in Nat /\ k >= 1 /\ k + 1 <= NbParts[Tag[o]] + 1
    BY <2>0
  <2>2. c \in Seq(Items)
    BY DEF Unaltered
  <2>3. Len(c) \in Nat /\ DOMAIN c = 1 .. Len(c)
    BY <2>2, LenProperties
  <2> QED BY <2>0, <2>1, <2>2, <2>3
<1>2. c[k + 1] = Part(o, k, c[1].format)
  <2> DEFINE i == k + 1
             f == c[1].format
  <2>1. k \in Nat /\ i # 1 /\ i - 1 = k /\ NbParts[Tag[o]] \in Nat
    BY WholeIs
  <2>2. i \in DOMAIN c /\ i \in 1 .. NbParts[Tag[o]] + 1 /\ i <= NbParts[Tag[o]] + 1
    BY <1>1, <2>1
  <2> HIDE DEF i, f
  <2>3. c[i] = Whole(o, f)[i]
    BY <2>2 DEF IsOf, f
  <2>4. Whole(o, f)[i] = Part(o, i - 1, f)
    BY <2>1, <2>2, WholeIs DEF f
  <2> QED BY <2>1, <2>3, <2>4 DEF i, f
<1>3. \A p \in Objects : Part(p, k, c[1].format) = Part(o, k, c[1].format) => p = o
  BY DEF Part
<1> QED BY <1>2, <1>3 DEF Field

-----------------------------------------------------------------------------
(* The state keeps its shape.                                              *)

LoaderRecord == [at : {"idle", "header", "parts"}, asks : Requests,
                 got : Seq(Objects \cup {"hole"}),
                 answer : Objects \cup {"none", "error", Mixture}, size : Nat,
                 opened : {Unsure} \cup Contents, orphan : Contents]

LEMMA IdleTyped == /\ IdleSaver.of \in Objects /\ IdleLoader \in LoaderRecord
                   /\ \A r \in Requests : 0 <= NbParts[r.tag]
<1>1. PICK o \in Objects : TRUE
  BY ArchiveAssumption
<1>2. [tag |-> Tag[o], algorithm |-> TRUE] \in Requests
  BY DEF Requests, Tags
<1>3. IdleLoader.asks \in Requests
  BY <1>2 DEF IdleLoader
<1>4. <<>> \in Seq(Objects \cup {"hole"})
  BY EmptySeq
<1>5. \A r \in Requests : 0 <= NbParts[r.tag]
  BY ArchiveAssumption DEF Requests, Tags
<1> QED BY <1>1, <1>2, <1>3, <1>4, <1>5 DEF IdleSaver, IdleLoader, LoaderRecord, Contents

LEMMA InitTyped == Init => TypeOK
<1> SUFFICES ASSUME Init PROVE TypeOK
  OBVIOUS
<1>1. files \in [path : Contents, tmp : Contents]
  BY FilesAssumption DEF Init, Contents, Unaltered
<1>2. saver \in [at : {"idle", "writing", "removed", "returned", "raised", "crashed"},
                 of : Objects, atomic : BOOLEAN, done : Nat] /\ saver.at = "idle"
  BY IdleTyped DEF Init, IdleSaver
<1>3. loader \in [Loaders -> LoaderRecord]
  BY IdleTyped DEF Init
<1>4. \A l \in Loaders : loader[l] = IdleLoader
  BY DEF Init
<1>5. Len(<<>>) = 0
  BY EmptySeq
<1> QED BY <1>1, <1>2, <1>3, <1>4, <1>5, IdleTyped
        DEF TypeOK, LoaderRecord, Busy, IdleLoader

(* The parts of TypeOK.                                                    *)
FilesTyped  == files \in [path : Contents, tmp : Contents]
SaverTyped  == saver \in [at : {"idle", "writing", "removed", "returned", "raised", "crashed"},
                          of : Objects, atomic : BOOLEAN, done : Nat]
TmpGrows    == /\ Busy(saver.at) /\ saver.atomic => files.tmp = SubSeq(State, 1, saver.done)
               /\ saver.at = "removed" => /\ saver.atomic /\ files.path = Missing
                                         /\ files.tmp = State
LoaderTyped == /\ loader \in [Loaders -> LoaderRecord]
               /\ \A l \in Loaders :
                     /\ Len(loader[l].got) <= NbParts[loader[l].asks.tag]
                     /\ Busy(loader[l].at) => loader[l].answer = "none" /\ Opened(l) # Missing

LEMMA TypeParts == TypeOK <=> FilesTyped /\ SaverTyped /\ TmpGrows /\ LoaderTyped
BY DEF TypeOK, FilesTyped, SaverTyped, TmpGrows, LoaderTyped, LoaderRecord

LEMMA TypePartsNext == TypeOK' <=> FilesTyped' /\ SaverTyped' /\ TmpGrows' /\ LoaderTyped'
BY DEF TypeOK, FilesTyped, SaverTyped, TmpGrows, LoaderTyped, LoaderRecord

(* Writing into a file, whichever it is.                                   *)
LEMMA WritesTyped ==
    ASSUME TypeOK, NEW atomic \in BOOLEAN, NEW c \in Seq(Items), Writes(atomic, c)
    PROVE  /\ FilesTyped' /\ LoaderTyped'
           /\ atomic => files'.tmp = c /\ files'.path = files.path
           /\ ~atomic => files'.tmp = files.tmp /\ files'.path = c
<1> USE TypeParts DEF FilesTyped, LoaderTyped
<1>1. c \in Contents /\ c # Missing
  BY FilesAreFiles DEF Contents
<1>2. CASE atomic
  <2>1. files' = [files EXCEPT !.tmp = c] /\ loader' = loader
    BY <1>2 DEF Writes
  <2>2. \A l \in Loaders : Opened(l)' = Opened(l)
    BY <2>1 DEF Opened
  <2> QED BY <1>1, <1>2, <2>1, <2>2
<1>3. CASE ~atomic
  <2>1. /\ files' = [files EXCEPT !.path = c]
        /\ loader' = [l \in Loaders |-> IF Linked(l) THEN [loader[l] EXCEPT !.opened = Unsure]
                                        ELSE loader[l]]
    BY <1>3 DEF Writes
  <2>2. ASSUME NEW l \in Loaders
        PROVE  /\ loader'[l] \in LoaderRecord
               /\ loader'[l].got = loader[l].got /\ loader'[l].asks = loader[l].asks
               /\ loader'[l].at = loader[l].at /\ loader'[l].answer = loader[l].answer
               /\ loader'[l].orphan = loader[l].orphan
    <3>1. loader[l] \in LoaderRecord
      BY DEF TypeOK
    <3>2. [loader[l] EXCEPT !.opened = Unsure] \in LoaderRecord
      BY <3>1 DEF LoaderRecord
    <3> QED BY <2>1, <3>1, <3>2 DEF LoaderRecord
  <2>3. \A l \in Loaders : Opened(l) # Missing => Opened(l)' # Missing
    BY <1>1, <2>1, <2>2 DEF Opened
  <2>4. loader' \in [Loaders -> LoaderRecord]
    BY <2>1, <2>2
  <2> QED BY <1>1, <1>3, <2>1, <2>2, <2>3, <2>4
<1> QED BY <1>2, <1>3

(* A loader moves, and the file does not.                                  *)
LEMMA LoaderMoves ==
    ASSUME TypeOK, UNCHANGED files, NEW l \in Loaders, NEW r \in LoaderRecord,
           loader' = [loader EXCEPT ![l] = r],
           Len(r.got) <= NbParts[r.asks.tag],
           Busy(r.at) => r.answer = "none" /\ (r.orphan # Missing \/ files.path # Missing)
    PROVE  LoaderTyped'
<1> USE TypeParts DEF LoaderTyped
<1>1. loader' \in [Loaders -> LoaderRecord] /\ loader'[l] = r
  BY DEF LoaderRecord
<1>2. \A m \in Loaders \ {l} : loader'[m] = loader[m] /\ Opened(m)' = Opened(m)
  BY DEF Opened
<1>3. Busy(r.at) => Opened(l)' # Missing
  BY <1>1 DEF Opened
<1> QED BY <1>1, <1>2, <1>3

LEMMA LoaderEnds ==
    ASSUME TypeOK, UNCHANGED <<files, saver>>, NEW l \in Loaders,
           NEW a \in Objects \cup {"error", Mixture}, Ends(l, a)
    PROVE  TypeOK'
<1> DEFINE r == [IdleLoader EXCEPT !.answer = a]
<1>1. r \in LoaderRecord /\ r.got = <<>> /\ r.at = "idle"
  BY IdleTyped DEF LoaderRecord, IdleLoader
<1>2. Len(r.got) <= NbParts[r.asks.tag]
  BY <1>1, IdleTyped, EmptySeq DEF LoaderRecord
<1>3. LoaderTyped'
  BY <1>1, <1>2, LoaderMoves DEF Ends, Busy
<1> QED BY <1>3, TypeParts, TypePartsNext DEF FilesTyped, SaverTyped, TmpGrows, State

LEMMA SaverStepTyped ==
    ASSUME TypeOK, OpenToWrite \/ CannotOpenToWrite \/ SaverStep \/ Crash
    PROVE  TypeOK'
<1> USE TypeParts DEF SaverTyped, TmpGrows
<1> DEFINE ats == {"idle", "writing", "removed", "returned", "raised", "crashed"}
<1>1. State \in Seq(Items)
  BY WholeIs, ArchiveAssumption DEF State
<1>2. ASSUME NEW how \in {"returned", "raised", "crashed"}, SaverEnds(how)
      PROVE  SaverTyped' /\ TmpGrows'
  BY <1>2, IdleTyped DEF SaverEnds, IdleSaver, Busy
<1>3. ASSUME Abandon
      PROVE  FilesTyped' /\ LoaderTyped' /\ files'.path = files.path
  <2>1. files' \in [path : Contents, tmp : Contents] /\ files'.path = files.path
    BY <1>3 DEF Abandon, FilesTyped, Contents
  <2>2. loader' = loader
    BY <1>3 DEF Abandon
  <2> QED BY <2>1, <2>2 DEF LoaderTyped, Opened, FilesTyped
<1>4. ASSUME Abandon PROVE TypeOK'
  BY <1>2, <1>3, <1>4, TypePartsNext DEF Abandon
<1>5. ASSUME OpenToWrite PROVE TypeOK'
  <2>1. PICK o \in Objects, atomic \in Atomic :
            /\ Writes(atomic, <<>>)
            /\ saver' = [at |-> "writing", of |-> o, atomic |-> atomic, done |-> 0]
    BY <1>5 DEF OpenToWrite
  <2>2. FilesTyped' /\ LoaderTyped' /\ (atomic => files'.tmp = <<>>)
    BY <2>1, WritesTyped, EmptySeq, ArchiveAssumption
  <2>3. SubSeq(State', 1, 0) = <<>>
    BY EmptySeq DEF State
  <2> QED BY <2>1, <2>2, <2>3, TypePartsNext, ArchiveAssumption
<1>6. ASSUME Write PROVE TypeOK'
  <2>1. saver.at = "writing" /\ Writes(saver.atomic, SubSeq(State, 1, saver.done + 1))
        /\ saver.done < Len(State) /\ saver' = [saver EXCEPT !.done = @ + 1]
    BY <1>6 DEF Write
  <2>2. SubSeq(State, 1, saver.done + 1) \in Seq(Items)
    BY <1>1, <2>1, SubSeqProperties
  <2>3. State' = State
    BY <2>1 DEF State
  <2>4. FilesTyped' /\ LoaderTyped'
        /\ (saver.atomic => files'.tmp = SubSeq(State, 1, saver.done + 1))
    BY <2>1, <2>2, WritesTyped
  <2> QED BY <2>1, <2>3, <2>4, TypePartsNext
<1>7. ASSUME UNCHANGED <<files, loader>>
      PROVE  FilesTyped' /\ LoaderTyped'
  BY <1>7 DEF FilesTyped, LoaderTyped, Opened
<1>8. ASSUME CannotOpenToWrite \/ CommitInPlace \/ Crash PROVE TypeOK'
  BY <1>2, <1>7, <1>8, TypePartsNext DEF CannotOpenToWrite, CommitInPlace, Crash
<1>9. ASSUME CommitRemoves PROVE TypeOK'
  <2>1. /\ saver.at = "writing" /\ saver.done = Len(State) /\ saver.atomic
        /\ files' = [files EXCEPT !.path = Missing] /\ saver' = [saver EXCEPT !.at = "removed"]
        /\ loader' = [l \in Loaders |->
               IF Linked(l) THEN [loader[l] EXCEPT !.orphan = files.path] ELSE loader[l]]
    BY <1>9 DEF CommitRemoves, Flushed
  <2>2. files.path \in Contents /\ Missing \in Contents
    BY DEF FilesTyped, Contents
  <2>3. ASSUME NEW l \in Loaders
        PROVE  /\ loader'[l] \in LoaderRecord
               /\ loader'[l].got = loader[l].got /\ loader'[l].asks = loader[l].asks
               /\ loader'[l].at = loader[l].at /\ loader'[l].answer = loader[l].answer
               /\ loader'[l].orphan = IF Linked(l) THEN files.path ELSE loader[l].orphan
    <3>1. loader[l] \in LoaderRecord
      BY DEF LoaderTyped
    <3>2. [loader[l] EXCEPT !.orphan = files.path] \in LoaderRecord
      BY <2>2, <3>1 DEF LoaderRecord
    <3> QED BY <2>1, <3>1, <3>2 DEF LoaderRecord
  <2>4. \A l \in Loaders : Busy(loader[l].at) => Opened(l)' # Missing
    BY <2>3 DEF Opened, Linked, LoaderTyped
  <2>5. loader' \in [Loaders -> LoaderRecord]
    BY <2>1, <2>3
  <2>6. LoaderTyped'
    BY <2>3, <2>4, <2>5 DEF LoaderTyped
  <2>7. SubSeq(State, 1, saver.done) = State
    BY <1>1, <2>1
  <2>8. FilesTyped' /\ State' = State /\ files'.tmp = files.tmp /\ files'.path = Missing
    BY <2>1, <2>2 DEF FilesTyped, State
  <2> QED BY <2>1, <2>6, <2>7, <2>8, TypePartsNext DEF Busy
<1>10. ASSUME CommitRenames PROVE TypeOK'
  <2>1. saver.at = "removed" /\ files' = [path |-> files.tmp, tmp |-> Missing]
        /\ SaverEnds("returned") /\ loader' = loader
    BY <1>10 DEF CommitRenames
  <2>2. FilesTyped' /\ files'.path # Missing
    BY <1>1, <2>1, FilesAreFiles DEF FilesTyped, Contents
  <2>3. LoaderTyped'
    BY <2>1, <2>2 DEF LoaderTyped, Opened
  <2> QED BY <1>2, <2>1, <2>2, <2>3, TypePartsNext
<1> QED BY <1>4, <1>5, <1>6, <1>8, <1>9, <1>10 DEF SaverStep, WriteFails, RenameFails

LEMMA ReadTyped == \A got : Read(got) \in Objects \cup {Mixture}
BY DEF Read

LEMMA LoaderStepTyped ==
    ASSUME TypeOK, NEW l \in Loaders, OpenToRead(l) \/ LoaderStep(l)
    PROVE  TypeOK'
<1> USE TypeParts
<1> DEFINE r == loader[l]
<1>1. r \in LoaderRecord /\ UNCHANGED <<files, saver>> /\ files.path \in Contents
  BY DEF LoaderTyped, FilesTyped, OpenToRead, LoaderStep, ReadHeader, ReadPart, Restore
<1>2. ASSUME LoaderTyped' PROVE TypeOK'
  BY <1>1, <1>2, TypePartsNext DEF FilesTyped, SaverTyped, TmpGrows, State
<1>3. Busy(r.at) => /\ r.answer = "none" /\ (r.orphan # Missing \/ files.path # Missing)
                    /\ Len(r.got) <= NbParts[r.asks.tag]
  BY DEF LoaderTyped, Opened
<1>4. ASSUME Raises(l) PROVE TypeOK'
  BY <1>1, <1>4, LoaderEnds DEF Raises
<1>5. ASSUME OpenToRead(l), ~Raises(l) PROVE TypeOK'
  <2>1. PICK asks \in Requests :
            loader' = [loader EXCEPT ![l] = [IdleLoader EXCEPT
                !.at = "header", !.asks = asks, !.size = Len(files.path), !.opened = files.path]]
    BY <1>5 DEF OpenToRead
  <2> DEFINE n == [IdleLoader EXCEPT
                !.at = "header", !.asks = asks, !.size = Len(files.path), !.opened = files.path]
  <2>2. files.path # Missing /\ files.path \in Seq(Items)
    BY <1>1, <1>5 DEF OpenToRead, Contents
  <2>3. Len(files.path) \in Nat
    BY <2>2, LenProperties
  <2>4. n \in LoaderRecord
    BY <1>1, <2>3, IdleTyped DEF LoaderRecord
  <2>5. n.got = <<>> /\ n.asks = asks /\ n.answer = "none"
    BY IdleTyped DEF LoaderRecord, IdleLoader
  <2>6. Len(n.got) <= NbParts[n.asks.tag]
    BY <2>5, IdleTyped, EmptySeq
  <2> QED BY <1>1, <1>2, <2>1, <2>2, <2>4, <2>5, <2>6, LoaderMoves
<1>6. ASSUME ReadHeader(l), ~Raises(l) PROVE TypeOK'
  <2>1. loader' = [loader EXCEPT ![l] = [r EXCEPT !.at = "parts"]] /\ r.at = "header"
    BY <1>6 DEF ReadHeader
  <2>2. [r EXCEPT !.at = "parts"] \in LoaderRecord
    BY <1>1 DEF LoaderRecord
  <2>3. LET n == [r EXCEPT !.at = "parts"]
        IN  n.got = r.got /\ n.asks = r.asks /\ n.answer = r.answer /\ n.orphan = r.orphan
    BY <1>1 DEF LoaderRecord
  <2>4. LoaderTyped'
    BY <1>1, <1>3, <2>1, <2>2, <2>3, LoaderMoves DEF Busy
  <2> QED BY <1>2, <2>4
<1>7. ASSUME ReadPart(l), ~Raises(l) PROVE TypeOK'
  <2> DEFINE c == Opened(l)
             k == Len(r.got) + 1
  <2>1. r.at = "parts" /\ k <= NbParts[r.asks.tag] /\ GetsField(l, c, k)
    BY <1>7 DEF ReadPart
  <2>2. PICK o \in Objects \cup {"hole"} : loader' = [loader EXCEPT ![l].got = Append(@, o)]
    BY <2>1 DEF GetsField, Field
  <2> DEFINE n == [r EXCEPT !.got = Append(r.got, o)]
  <2>3. r.got \in Seq(Objects \cup {"hole"})
    BY <1>1 DEF LoaderRecord
  <2>4. Append(r.got, o) \in Seq(Objects \cup {"hole"}) /\ Len(Append(r.got, o)) = k
    BY <2>3, AppendProperties
  <2>5. n \in LoaderRecord
    BY <1>1, <2>4 DEF LoaderRecord
  <2>6. /\ n.got = Append(r.got, o) /\ n.asks = r.asks
        /\ n.answer = r.answer /\ n.orphan = r.orphan
    BY <1>1 DEF LoaderRecord
  <2>7. loader' = [loader EXCEPT ![l] = n]
    BY <2>2
  <2> HIDE DEF n
  <2>8. LoaderTyped'
    BY <1>1, <1>3, <2>1, <2>4, <2>5, <2>6, <2>7, LoaderMoves DEF Busy
  <2> QED BY <1>2, <2>8
<1>8. ASSUME Restore(l), ~Raises(l) PROVE TypeOK'
  <2>1. Ends(l, Read(r.got))
    BY <1>8 DEF Restore
  <2> QED BY <1>1, <2>1, LoaderEnds, ReadTyped
<1> QED BY <1>4, <1>5, <1>6, <1>7, <1>8 DEF LoaderStep

(* The files, the save and the loads keep their shape, a temporary file    *)
(* grows with its save, and it is whole when the destination is removed    *)
(* for it.                                                                 *)
THEOREM ArchiveTypeCorrect == Spec => []TypeOK
<1>1. Init => TypeOK
  BY InitTyped
<1>2. TypeOK /\ [Next]_vars => TypeOK'
  <2>1. ASSUME TypeOK, Next PROVE TypeOK'
    BY <2>1, SaverStepTyped, LoaderStepTyped DEF Next
  <2>2. ASSUME TypeOK, UNCHANGED vars PROVE TypeOK'
    BY <2>2 DEF vars, TypeOK, State, Opened
  <2> QED BY <2>1, <2>2
<1> QED BY <1>1, <1>2, PTL DEF Spec

-----------------------------------------------------------------------------
(* A loader whose file nobody wrote into: the file is the one it opened,   *)
(* of the size it noted, and what it has read is the object the file is of.*)

KnowsItsFile(l) ==
    LET r == loader[l]  c == Opened(l)
    IN  Busy(r.at) /\ r.opened # Unsure =>
            /\ r.opened = c /\ r.size = Len(c) /\ (r.at = "header" => r.got = <<>>)
            /\ r.at = "parts" =>
                  /\ HeaderIsFor(l, c) /\ Len(r.got) < Len(c)
                  /\ \A o \in Objects : IsOf(c, o) => \A i \in DOMAIN r.got : r.got[i] = o

Unmixed(c) == c = Missing \/ Unaltered(c)

ReadsWhole == /\ Unmixed(files.path)
              /\ \A l \in Loaders : Unmixed(loader[l].orphan) /\ KnowsItsFile(l)

LEMMA KnowsStill ==
    ASSUME NEW l \in Loaders, KnowsItsFile(l),
           Busy(loader[l].at) => loader'[l] = loader[l] /\ Opened(l)' = Opened(l),
           ~Busy(loader[l].at) => ~Busy(loader'[l].at)
    PROVE  KnowsItsFile(l)'
BY DEF KnowsItsFile, HeaderIsFor

LEMMA IdleReads == ASSUME Init PROVE ReadsWhole
BY FilesAssumption DEF Init, ReadsWhole, Unmixed, KnowsItsFile, IdleLoader, Busy

LEMMA WritesReads ==
    ASSUME TypeOK, ReadsWhole, NEW atomic \in BOOLEAN, NEW c, Unaltered(c), Writes(atomic, c)
    PROVE  ReadsWhole'
<1> USE TypeParts DEF FilesTyped, LoaderTyped
<1>1. CASE atomic
  <2>1. files'.path = files.path /\ loader' = loader
    BY <1>1 DEF Writes
  <2>2. \A l \in Loaders : Opened(l)' = Opened(l)
    BY <2>1 DEF Opened
  <2>3. \A l \in Loaders : KnowsItsFile(l)'
    BY <2>1, <2>2, KnowsStill DEF ReadsWhole
  <2> QED BY <2>1, <2>3 DEF ReadsWhole
<1>2. CASE ~atomic
  <2>1. files'.path = c
    BY <1>2 DEF Writes
  <2>2. ASSUME NEW l \in Loaders
        PROVE  Unmixed(loader'[l].orphan) /\ KnowsItsFile(l)'
    <3>1. loader[l] \in LoaderRecord /\ Unmixed(loader[l].orphan) /\ KnowsItsFile(l)
      BY DEF ReadsWhole
    <3>2. CASE Linked(l)
      <4>1. loader'[l] = [loader[l] EXCEPT !.opened = Unsure]
        BY <1>2, <3>2 DEF Writes
      <4>2. loader'[l].opened = Unsure /\ loader'[l].orphan = loader[l].orphan
        BY <3>1, <4>1 DEF LoaderRecord
      <4> QED BY <3>1, <4>2 DEF KnowsItsFile
    <3>3. CASE ~Linked(l)
      <4>1. loader'[l] = loader[l]
        BY <1>2, <3>3 DEF Writes
      <4>2. Busy(loader[l].at) => Opened(l)' = Opened(l)
        BY <3>3, <4>1 DEF Linked, Opened
      <4> QED BY <3>1, <4>1, <4>2, KnowsStill
    <3> QED BY <3>2, <3>3
  <2> QED BY <2>1, <2>2 DEF ReadsWhole, Unmixed
<1> QED BY <1>1, <1>2

LEMMA SaverStepReads ==
    ASSUME TypeOK, ReadsWhole, OpenToWrite \/ CannotOpenToWrite \/ SaverStep \/ Crash
    PROVE  ReadsWhole'
<1> USE TypeParts DEF FilesTyped, LoaderTyped, SaverTyped
<1>1. saver.of \in Objects /\ \A n \in 0 .. Len(State) : Unaltered(SubSeq(State, 1, n))
  BY PrefixUnaltered DEF State
<1>2. State \in Seq(Items) /\ Len(State) \in Nat /\ Unaltered(State)
  <2>1. State \in Seq(Items)
    BY <1>1, WholeIs, ArchiveAssumption DEF State
  <2>2. Len(State) \in Nat
    BY <2>1, LenProperties
  <2>3. SubSeq(State, 1, Len(State)) = State
    BY <2>1
  <2>4. Unaltered(SubSeq(State, 1, Len(State)))
    BY <1>1, <2>2
  <2> QED BY <2>1, <2>2, <2>3, <2>4
<1>3. ASSUME files'.path = files.path, loader' = loader
      PROVE  ReadsWhole'
  <2>1. \A l \in Loaders : Opened(l)' = Opened(l)
    BY <1>3 DEF Opened
  <2>2. \A l \in Loaders : KnowsItsFile(l)'
    BY <1>3, <2>1, KnowsStill DEF ReadsWhole
  <2> QED BY <1>3, <2>2 DEF ReadsWhole
<1>4. ASSUME CannotOpenToWrite \/ CommitInPlace \/ Crash \/ WriteFails \/ RenameFails
      PROVE  ReadsWhole'
  BY <1>3, <1>4 DEF CannotOpenToWrite, CommitInPlace, Crash, WriteFails, RenameFails, Abandon
<1>5. ASSUME OpenToWrite PROVE ReadsWhole'
  <2>1. Unaltered(<<>>)
    BY EmptySeq DEF Unaltered
  <2>2. PICK atomic \in BOOLEAN : Writes(atomic, <<>>)
    BY <1>5, ArchiveAssumption DEF OpenToWrite
  <2> QED BY <2>1, <2>2, WritesReads
<1>6. ASSUME Write PROVE ReadsWhole'
  <2>1. saver.done + 1 \in 0 .. Len(State) /\ saver.atomic \in BOOLEAN
    BY <1>2, <1>6 DEF Write
  <2> QED BY <1>1, <1>6, <2>1, WritesReads DEF Write
<1>7. ASSUME CommitRemoves PROVE ReadsWhole'
  <2>1. files'.path = Missing
    BY <1>7 DEF CommitRemoves
  <2>2. ASSUME NEW l \in Loaders
        PROVE  Unmixed(loader'[l].orphan) /\ KnowsItsFile(l)'
    <3>1. /\ loader[l] \in LoaderRecord /\ Unmixed(loader[l].orphan) /\ KnowsItsFile(l)
          /\ Unmixed(files.path)
      BY DEF ReadsWhole
    <3>2. CASE Linked(l)
      <4>1. loader'[l] = [loader[l] EXCEPT !.orphan = files.path]
        BY <1>7, <3>2 DEF CommitRemoves
      <4>2. /\ loader'[l].orphan = files.path /\ loader'[l].at = loader[l].at
            /\ loader'[l].opened = loader[l].opened /\ loader'[l].size = loader[l].size
            /\ loader'[l].got = loader[l].got /\ loader'[l].asks = loader[l].asks
        BY <3>1, <4>1 DEF LoaderRecord
      <4>3. Opened(l)' = Opened(l)
        BY <3>2, <4>2 DEF Linked, Opened
      <4> QED BY <3>1, <4>2, <4>3 DEF KnowsItsFile, HeaderIsFor
    <3>3. CASE ~Linked(l)
      <4>1. loader'[l] = loader[l]
        BY <1>7, <3>3 DEF CommitRemoves
      <4>2. Busy(loader[l].at) => Opened(l)' = Opened(l)
        BY <3>3, <4>1 DEF Linked, Opened
      <4> QED BY <3>1, <4>1, <4>2, KnowsStill
    <3> QED BY <3>2, <3>3
  <2> QED BY <2>1, <2>2 DEF ReadsWhole, Unmixed
<1>8. ASSUME CommitRenames PROVE ReadsWhole'
  <2>1. files.path = Missing /\ files.tmp = State /\ files'.path = files.tmp /\ loader' = loader
    BY <1>8 DEF CommitRenames, TmpGrows
  <2>2. Unmixed(files'.path)
    BY <1>2, <2>1 DEF Unmixed
  <2>3. \A l \in Loaders : Busy(loader[l].at) => Opened(l)' = Opened(l)
    BY <2>1 DEF Opened
  <2>4. \A l \in Loaders : KnowsItsFile(l)'
    BY <2>1, <2>3, KnowsStill DEF ReadsWhole
  <2> QED BY <2>1, <2>2, <2>4 DEF ReadsWhole
<1> QED BY <1>4, <1>5, <1>6, <1>7, <1>8 DEF SaverStep

(* The next field of a file that nobody wrote into.                        *)
LEMMA NextField ==
    ASSUME NEW l \in Loaders, NEW c, HeaderIsFor(l, c), Unaltered(c),
           NEW o \in Objects, IsOf(c, o)
    PROVE  /\ Tag[o] = loader[l].asks.tag /\ c[1].format \in Supported[l]
           /\ \A k \in 1 .. NbParts[Tag[o]] :
                 k < Len(c) => Field(c, k, loader[l].asks.tag) = {o}
<1>1. c # <<>> /\ c[1].format \in Supported[l] /\ c[1].of = loader[l].asks.tag
  BY DEF HeaderIsFor
<1>2. c[1].format \in Nat
  BY <1>1, ArchiveAssumption
<1>3. c \in Seq(Items) /\ Len(c) \in Nat /\ DOMAIN c = 1 .. Len(c) /\ Len(c) > 0
  BY <1>1, EmptySeq, LenProperties DEF Unaltered
<1>4. c[1] = Header(o, c[1].format)
  <2>1. NbParts[Tag[o]] \in Nat /\ Whole(o, c[1].format)[1] = Header(o, c[1].format)
    BY <1>2, WholeIs
  <2>2. 1 \in DOMAIN c /\ 1 <= NbParts[Tag[o]] + 1
    BY <1>3, <2>1
  <2> QED BY <2>1, <2>2 DEF IsOf
<1>5. Tag[o] = loader[l].asks.tag
  BY <1>1, <1>4 DEF Header
<1> QED BY <1>1, <1>2, <1>5, FieldOfUnaltered

LEMMA LoaderStepReads ==
    ASSUME TypeOK, ReadsWhole, NEW l \in Loaders, OpenToRead(l) \/ LoaderStep(l)
    PROVE  ReadsWhole'
<1> USE TypeParts DEF LoaderTyped
<1> DEFINE r == loader[l]
           c == Opened(l)
<1>1. r \in LoaderRecord /\ UNCHANGED <<files, saver>> /\ files.path \in Contents
  BY DEF FilesTyped, OpenToRead, LoaderStep, ReadHeader, ReadPart, Restore
<1>2. /\ Unmixed(files.path) /\ Unmixed(r.orphan) /\ KnowsItsFile(l)
      /\ Unmixed(c)
  BY DEF ReadsWhole, Opened
<1>3. ASSUME NEW n \in LoaderRecord, loader' = [loader EXCEPT ![l] = n],
             Unmixed(n.orphan), KnowsItsFile(l)'
      PROVE  ReadsWhole'
  <2>1. loader'[l] = n /\ \A m \in Loaders \ {l} : loader'[m] = loader[m]
    BY <1>3
  <2>2. \A m \in Loaders \ {l} : Opened(m)' = Opened(m)
    BY <1>1, <2>1 DEF Opened
  <2>3. \A m \in Loaders \ {l} : KnowsItsFile(m)'
    BY <2>1, <2>2, KnowsStill DEF ReadsWhole
  <2> QED BY <1>1, <1>3, <2>1, <2>3 DEF ReadsWhole
<1>4. ASSUME NEW a \in Objects \cup {"error", Mixture}, Ends(l, a) PROVE ReadsWhole'
  <2> DEFINE n == [IdleLoader EXCEPT !.answer = a]
  <2>1. n \in LoaderRecord /\ n.at = "idle" /\ n.orphan = Missing
    BY IdleTyped DEF LoaderRecord, IdleLoader
  <2>2. loader' = [loader EXCEPT ![l] = n] /\ loader'[l] = n
    BY <1>4 DEF Ends
  <2>3. KnowsItsFile(l)'
    BY <2>1, <2>2 DEF KnowsItsFile, Busy
  <2> QED BY <1>3, <2>1, <2>2, <2>3 DEF Unmixed
<1>5. ASSUME OpenToRead(l), ~Raises(l) PROVE ReadsWhole'
  <2>1. PICK asks \in Requests :
            loader' = [loader EXCEPT ![l] = [IdleLoader EXCEPT
                !.at = "header", !.asks = asks, !.size = Len(files.path), !.opened = files.path]]
    BY <1>5 DEF OpenToRead
  <2> DEFINE n == [IdleLoader EXCEPT
                !.at = "header", !.asks = asks, !.size = Len(files.path), !.opened = files.path]
  <2>2. files.path # Missing /\ files.path \in Seq(Items) /\ Len(files.path) \in Nat
    BY <1>1, <1>5, LenProperties DEF OpenToRead, Contents
  <2>3. /\ n \in LoaderRecord /\ n.orphan = Missing /\ n.opened = files.path
        /\ n.size = Len(files.path) /\ n.at = "header" /\ n.got = <<>>
    BY <1>1, <2>2, IdleTyped DEF LoaderRecord, IdleLoader
  <2>4. loader'[l] = n /\ Opened(l)' = files.path
    BY <1>1, <2>1, <2>3 DEF Opened
  <2> HIDE DEF n
  <2>5. KnowsItsFile(l)'
    BY <2>3, <2>4 DEF KnowsItsFile
  <2> QED BY <1>3, <2>1, <2>3, <2>5 DEF Unmixed, n
<1>6. ASSUME ReadHeader(l), ~Raises(l) PROVE ReadsWhole'
  <2> DEFINE n == [r EXCEPT !.at = "parts"]
  <2>1. loader' = [loader EXCEPT ![l] = n] /\ r.at = "header" /\ HeaderIsFor(l, c)
    BY <1>6 DEF ReadHeader
  <2>2. /\ n \in LoaderRecord /\ n.orphan = r.orphan /\ n.opened = r.opened
        /\ n.size = r.size /\ n.at = "parts" /\ n.got = r.got /\ n.asks = r.asks
    BY <1>1 DEF LoaderRecord
  <2>3. loader'[l] = n /\ Opened(l)' = c
    BY <1>1, <2>1, <2>2 DEF Opened
  <2>4. ASSUME r.opened # Unsure
        PROVE  r.opened = c /\ r.size = Len(c) /\ r.got = <<>> /\ Len(r.got) < Len(c)
    <3>1. r.opened = c /\ r.size = Len(c) /\ r.got = <<>>
      BY <1>2, <2>1, <2>4 DEF KnowsItsFile, Busy
    <3>2. c # <<>> /\ c \in Seq(Items)
      BY <1>1, <1>2, <2>1 DEF Unmixed, Unaltered, HeaderIsFor, Busy
    <3> QED BY <3>1, <3>2, EmptySeq, LenProperties
  <2> HIDE DEF n
  <2>5. KnowsItsFile(l)'
    BY <2>1, <2>2, <2>3, <2>4, EmptySeq DEF KnowsItsFile, HeaderIsFor
  <2> QED BY <1>2, <1>3, <2>1, <2>2, <2>5
<1>7. ASSUME ReadPart(l), ~Raises(l) PROVE ReadsWhole'
  <2> DEFINE k == Len(r.got) + 1
  <2>1. r.at = "parts" /\ k <= NbParts[r.asks.tag] /\ k < Len(c) /\ GetsField(l, c, k)
    BY <1>7 DEF ReadPart
  <2>2. PICK o \in Objects \cup {"hole"} :
           /\ loader' = [loader EXCEPT ![l].got = Append(@, o)]
           /\ \A p : Field(c, k, r.asks.tag) = {p} => o = p
    BY <2>1 DEF GetsField, Field
  <2> DEFINE n == [r EXCEPT !.got = Append(r.got, o)]
  <2>3. r.got \in Seq(Objects \cup {"hole"})
    BY <1>1 DEF LoaderRecord
  <2>4. /\ Append(r.got, o) \in Seq(Objects \cup {"hole"}) /\ Len(Append(r.got, o)) = k
        /\ DOMAIN Append(r.got, o) = 1 .. k /\ DOMAIN r.got = 1 .. k - 1 /\ k \in Nat
        /\ Append(r.got, o)[k] = o /\ \A i \in 1 .. k - 1 : Append(r.got, o)[i] = r.got[i]
    BY <2>3, AppendProperties, LenProperties
  <2>5. /\ n \in LoaderRecord /\ n.got = Append(r.got, o) /\ n.asks = r.asks /\ n.at = r.at
        /\ n.opened = r.opened /\ n.size = r.size /\ n.orphan = r.orphan
    BY <1>1, <2>4 DEF LoaderRecord
  <2>6. loader' = [loader EXCEPT ![l] = n] /\ loader'[l] = n /\ Opened(l)' = c
    BY <1>1, <2>2, <2>5 DEF Opened
  <2> HIDE DEF n
  <2>7. ASSUME r.opened # Unsure
        PROVE  /\ HeaderIsFor(l, c) /\ r.opened = c /\ r.size = Len(c)
               /\ \A p \in Objects : IsOf(c, p) => \A i \in 1 .. k : Append(r.got, o)[i] = p
    <3>1. /\ HeaderIsFor(l, c) /\ r.opened = c /\ r.size = Len(c)
          /\ \A p \in Objects : IsOf(c, p) => \A i \in 1 .. k - 1 : r.got[i] = p
      BY <1>2, <2>1, <2>4, <2>7 DEF KnowsItsFile, Busy
    <3>2. Unaltered(c)
      <4>1. c # Missing
        BY <2>1 DEF Busy
      <4> QED BY <1>2, <4>1 DEF Unmixed
    <3>3. ASSUME NEW p \in Objects, IsOf(c, p), NEW i \in 1 .. k
          PROVE  Append(r.got, o)[i] = p
      <4>1. Tag[p] = r.asks.tag
        BY <3>1, <3>2, <3>3, NextField
      <4>2. NbParts[Tag[p]] \in Nat
        BY WholeIs, ArchiveAssumption
      <4>3. k \in 1 .. NbParts[Tag[p]]
        BY <2>1, <2>4, <4>1, <4>2
      <4>4. Field(c, k, r.asks.tag) = {p}
        <5> HIDE DEF c
        <5>1. HeaderIsFor(l, c) /\ Unaltered(c) /\ IsOf(c, p)
          BY <3>1, <3>2, <3>3
        <5>2. \A j \in 1 .. NbParts[Tag[p]] : j < Len(c) => Field(c, j, loader[l].asks.tag) = {p}
          BY <5>1, NextField
        <5> HIDE DEF k
        <5> QED BY <2>1, <4>3, <5>2
      <4>5. o = p
        BY <2>2, <4>4
      <4>6. CASE i = k
        BY <2>4, <4>5, <4>6
      <4>7. CASE i # k
        <5>1. i \in 1 .. k - 1
          BY <2>4, <4>7
        <5> QED BY <2>4, <3>1, <3>3, <5>1
      <4> QED BY <4>6, <4>7
    <3> QED BY <3>1, <3>3
  <2>8. KnowsItsFile(l)'
    <3> DEFINE h == Append(r.got, o)
    <3>1. /\ loader'[l].got = h /\ loader'[l].at = "parts" /\ loader'[l].opened = r.opened
          /\ loader'[l].size = r.size /\ loader'[l].asks = r.asks
      BY <2>1, <2>5, <2>6
    <3>2. Len(h) < Len(c) /\ DOMAIN h = 1 .. k
      BY <2>1, <2>4
    <3> HIDE DEF h
    <3>3. HeaderIsFor(l, c) => HeaderIsFor(l, c)'
      BY <2>6, <3>1 DEF HeaderIsFor
    <3> QED BY <2>6, <2>7, <3>1, <3>2, <3>3 DEF KnowsItsFile, h
  <2> QED BY <1>2, <1>3, <2>5, <2>6, <2>8
<1>8. ASSUME Raises(l) PROVE ReadsWhole'
  BY <1>4, <1>8 DEF Raises
<1>9. ASSUME Restore(l) PROVE ReadsWhole'
  BY <1>4, <1>8, <1>9, ReadTyped DEF Restore
<1> QED BY <1>5, <1>6, <1>7, <1>8, <1>9 DEF LoaderStep

LEMMA SpecReads == Spec => [](TypeOK /\ ReadsWhole)
<1>1. Init => TypeOK /\ ReadsWhole
  BY InitTyped, IdleReads
<1>2. TypeOK /\ ReadsWhole /\ [Next]_vars => (TypeOK /\ ReadsWhole)'
  <2>1. ASSUME TypeOK, ReadsWhole, Next PROVE TypeOK' /\ ReadsWhole'
    BY <2>1, SaverStepTyped, LoaderStepTyped, SaverStepReads, LoaderStepReads DEF Next
  <2>2. ASSUME TypeOK, ReadsWhole, UNCHANGED vars PROVE TypeOK' /\ ReadsWhole'
    BY <2>2 DEF vars, TypeOK, State, Opened, ReadsWhole, KnowsItsFile, HeaderIsFor
  <2> QED BY <2>1, <2>2
<1> QED BY <1>1, <1>2, PTL DEF Spec

-----------------------------------------------------------------------------
(* The answers are those of the file that was opened.                      *)

LEMMA WholeFile ==
    ASSUME NEW l \in Loaders, NEW o \in Objects, NEW f \in Supported[l],
           NEW c, c = Whole(o, f)
    PROVE  /\ IsOf(c, o) /\ Unaltered(c) /\ Len(c) = NbParts[Tag[o]] + 1
           /\ Tag[o] = loader[l].asks.tag => HeaderIsFor(l, c)
<1>1. f \in Nat
  BY ArchiveAssumption
<1>2. c \in Seq(Items) /\ Len(c) = NbParts[Tag[o]] + 1 /\ c[1] = Header(o, f)
      /\ NbParts[Tag[o]] \in Nat \ {0}
  BY <1>1, WholeIs
<1>3. c[1].format = f /\ c[1].part = 0 /\ c[1].of = Tag[o]
  BY <1>2 DEF Header
<1>4. IsOf(c, o)
  BY <1>3 DEF IsOf
<1>5. c # <<>>
  BY <1>2, EmptySeq
<1> QED BY <1>2, <1>3, <1>4, <1>5 DEF Unaltered, HeaderIsFor

(* What a loader reads in full is the object the file is of.               *)
LEMMA ReadIs ==
    ASSUME NEW got, NEW n \in Nat \ {0}, DOMAIN got = 1 .. n,
           NEW o \in Objects, \A i \in DOMAIN got : got[i] = o
    PROVE  Read(got) = o
<1>1. 1 \in DOMAIN got
  OBVIOUS
<1>2. \A p : (\A i \in DOMAIN got : got[i] = p) => p = o
  BY <1>1
<1> QED BY <1>2 DEF Read

(* A load that raises has nothing to give.                                 *)
LEMMA RaiseIsRight ==
    ASSUME TypeOK, ReadsWhole, NEW l \in Loaders, LoaderStep(l), Raises(l),
           loader[l].opened # Unsure
    PROVE  "error" \in Reading(l, loader[l].asks, loader[l].opened)
<1> USE TypeParts DEF LoaderTyped
<1> DEFINE r == loader[l]
           c == Opened(l)
<1>1. /\ Busy(r.at) /\ r.opened = c /\ r.size = Len(c) /\ r \in LoaderRecord
      /\ KnowsItsFile(l)
  BY DEF ReadsWhole, KnowsItsFile, LoaderStep, ReadHeader, ReadPart, Restore, Busy
<1>2. SUFFICES ASSUME NEW o \in Objects, Tag[o] = r.asks.tag, Restorable(l, r.asks, o),
                      NEW f \in Supported[l], c = Whole(o, f)
               PROVE  FALSE
  BY <1>1 DEF Reading
<1>3. /\ IsOf(c, o) /\ Unaltered(c) /\ Len(c) = NbParts[r.asks.tag] + 1 /\ HeaderIsFor(l, c)
      /\ NbParts[r.asks.tag] \in Nat \ {0}
  <2> HIDE DEF c
  <2>1. IsOf(c, o) /\ Unaltered(c) /\ Len(c) = NbParts[Tag[o]] + 1 /\ HeaderIsFor(l, c)
    BY <1>2, WholeFile
  <2>2. NbParts[Tag[o]] \in Nat \ {0}
    BY ArchiveAssumption
  <2> QED BY <1>2, <2>1, <2>2
<1>4. r.got \in Seq(Objects \cup {"hole"}) /\ DOMAIN r.got = 1 .. Len(r.got) /\ Len(r.got) \in Nat
  BY <1>1, LenProperties DEF LoaderRecord
<1>5. r.at = "parts" => \A i \in DOMAIN r.got : r.got[i] = o
  BY <1>1, <1>3 DEF KnowsItsFile
<1>6. CASE ReadHeader(l)
  <2>1. r.at = "header" /\ loader' = [loader EXCEPT ![l].at = "parts"]
    BY <1>3, <1>6 DEF ReadHeader
  <2>2. loader'[l].at = "parts"
    BY <1>1, <2>1 DEF LoaderRecord
  <2>3. loader'[l].at = "idle"
    BY IdleTyped DEF Raises, Ends, LoaderRecord, IdleLoader
  <2> QED BY <2>2, <2>3
<1>7. CASE ReadPart(l)
  <2> DEFINE k == Len(r.got) + 1
  <2>1. r.at = "parts" /\ k <= NbParts[r.asks.tag]
    BY <1>7 DEF ReadPart
  <2>2. k < Len(c) /\ k \in 1 .. NbParts[r.asks.tag]
    BY <1>3, <1>4, <2>1
  <2>3. Field(c, k, r.asks.tag) = {o}
    <3> HIDE DEF c
    <3>1. HeaderIsFor(l, c) /\ Unaltered(c) /\ IsOf(c, o)
      BY <1>3
    <3>2. \A j \in 1 .. NbParts[Tag[o]] : j < Len(c) => Field(c, j, loader[l].asks.tag) = {o}
      BY <3>1, NextField
    <3> HIDE DEF k
    <3> QED BY <1>2, <2>2, <3>2
  <2>4. GetsField(l, c, k)
    BY <1>7, <2>2, <2>3 DEF ReadPart
  <2>5. loader' = [loader EXCEPT ![l].got = Append(@, o)]
    BY <2>3, <2>4 DEF GetsField
  <2>6. loader'[l].at = r.at
    BY <1>1, <2>5 DEF LoaderRecord
  <2>7. loader'[l].at = "idle"
    BY IdleTyped DEF Raises, Ends, LoaderRecord, IdleLoader
  <2> QED BY <2>1, <2>6, <2>7
<1>8. CASE Restore(l)
  <2>1. r.at = "parts" /\ Len(r.got) = NbParts[r.asks.tag]
    BY <1>8 DEF Restore
  <2>2. Read(r.got) = o
    BY <1>3, <1>4, <1>5, <2>1, ReadIs
  <2>3. ~LeavesBytes(r)
    BY <1>1, <1>3, <2>1 DEF LeavesBytes
  <2>4. o # Mixture
    BY ArchiveAssumption DEF Mixture
  <2>5. Ends(l, o)
    BY <1>2, <1>8, <2>2, <2>3, <2>4 DEF Restore
  <2>6. loader'[l].answer = o /\ loader'[l].answer = "error"
    BY <2>5, IdleTyped DEF Raises, Ends, LoaderRecord, IdleLoader
  <2> QED BY <2>6, ArchiveAssumption
<1> QED BY <1>6, <1>7, <1>8 DEF LoaderStep

(* A load that answers gives the object the file is of.                    *)
LEMMA AnswerIsRight ==
    ASSUME TypeOK, ReadsWhole, NEW l \in Loaders, Restore(l), ~Raises(l),
           loader[l].opened # Unsure
    PROVE  Read(loader[l].got) \in Reading(l, loader[l].asks, loader[l].opened)
<1> USE TypeParts DEF LoaderTyped
<1> DEFINE r == loader[l]
           c == Opened(l)
           f == c[1].format
<1>1. r.at = "parts" /\ Len(r.got) = NbParts[r.asks.tag] /\ ~LeavesBytes(r)
      /\ (Read(r.got) = Mixture \/ Restorable(l, r.asks, Read(r.got)))
  BY DEF Restore
<1>2. /\ r.opened = c /\ r.size = Len(c) /\ r \in LoaderRecord /\ HeaderIsFor(l, c)
      /\ Len(r.got) < Len(c) /\ Unmixed(c) /\ c # Missing
      /\ \A o \in Objects : IsOf(c, o) => \A i \in DOMAIN r.got : r.got[i] = o
  BY <1>1 DEF ReadsWhole, KnowsItsFile, Busy, Opened
<1>3. Unaltered(c) /\ c \in Seq(Items) /\ f \in Supported[l]
  BY <1>2 DEF Unmixed, Unaltered, HeaderIsFor
<1>4. PICK o \in Objects : IsOf(c, o)
  BY <1>2, <1>3 DEF Unaltered, HeaderIsFor
<1>5. Tag[o] = r.asks.tag /\ f \in Nat
  BY <1>2, <1>3, <1>4, NextField, ArchiveAssumption
<1>6. NbParts[Tag[o]] \in Nat \ {0} /\ Len(c) \in Nat /\ DOMAIN c = 1 .. Len(c)
  BY <1>3, LenProperties, ArchiveAssumption
<1>7. Len(c) = NbParts[Tag[o]] + 1
  BY <1>1, <1>2, <1>5, <1>6 DEF LeavesBytes
<1>8. c = Whole(o, f)
  <2>1. /\ Whole(o, f) \in Seq(Items) /\ Len(Whole(o, f)) = NbParts[Tag[o]] + 1
    BY <1>5, WholeIs
  <2>2. \A i \in 1 .. Len(c) : c[i] = Whole(o, f)[i]
    BY <1>4, <1>6, <1>7 DEF IsOf
  <2> HIDE DEF c, f
  <2> QED BY <1>3, <1>7, <2>1, <2>2, SeqEqual
<1>9. Read(r.got) = o
  <2>1. r.got \in Seq(Objects \cup {"hole"}) /\ DOMAIN r.got = 1 .. Len(r.got)
    BY <1>2, LenProperties DEF LoaderRecord
  <2>2. \A i \in DOMAIN r.got : r.got[i] = o
    BY <1>2, <1>4
  <2> QED BY <1>1, <1>5, <1>6, <2>1, <2>2, ReadIs
<1>10. o # Mixture
  BY ArchiveAssumption DEF Mixture
<1> DEFINE good == {p \in Objects : /\ Tag[p] = r.asks.tag /\ Restorable(l, r.asks, p)
                                    /\ \E g \in Supported[l] : r.opened = Whole(p, g)}
<1>11. o \in good
  BY <1>1, <1>2, <1>3, <1>4, <1>5, <1>8, <1>9, <1>10
<1>12. Reading(l, r.asks, r.opened) = IF good = {} THEN {"error"} ELSE good
  BY DEF Reading
<1> QED BY <1>9, <1>11, <1>12

-----------------------------------------------------------------------------
(* The refinement.                                                         *)

heldOf   == [l \in Loaders |-> [file |-> loader[l].opened, asks |-> loader[l].asks]]
answerOf == [l \in Loaders |-> loader[l].answer]

(* Moving one loader moves what it holds and what it answers, no more.     *)
LEMMA LoaderMapped ==
    ASSUME TypeOK, NEW l \in Loaders, NEW r \in LoaderRecord,
           loader' = [loader EXCEPT ![l] = r]
    PROVE  /\ heldOf' = [heldOf EXCEPT ![l] = [file |-> r.opened, asks |-> r.asks]]
           /\ answerOf' = [answerOf EXCEPT ![l] = r.answer]
<1>1. loader'[l] = r /\ \A m \in Loaders \ {l} : loader'[m] = loader[m]
  BY DEF TypeOK
<1>2. /\ heldOf' = [m \in Loaders |-> [file |-> loader'[m].opened, asks |-> loader'[m].asks]]
      /\ answerOf' = [m \in Loaders |-> loader'[m].answer]
  BY DEF heldOf, answerOf
<1>3. heldOf' = [m \in Loaders |-> IF m = l THEN [file |-> r.opened, asks |-> r.asks] ELSE heldOf[m]]
  BY <1>1, <1>2 DEF heldOf
<1>4. answerOf' = [m \in Loaders |-> IF m = l THEN r.answer ELSE answerOf[m]]
  BY <1>1, <1>2 DEF answerOf
<1>5. DOMAIN heldOf = Loaders /\ DOMAIN answerOf = Loaders
  BY DEF heldOf, answerOf
<1> QED BY <1>3, <1>4, <1>5

LEMMA InitMapped == Init => P!Init
<1> SUFFICES ASSUME Init PROVE P!Init
  OBVIOUS
<1>1. files.path \in Contents
  BY FilesAssumption DEF Init, Contents, Unaltered
<1>2. \A l \in Loaders : /\ loader[l].opened = Missing /\ loader[l].asks \in Requests
                         /\ loader[l].answer = "none"
  BY IdleTyped DEF Init, IdleLoader, LoaderRecord
<1> QED BY <1>1, <1>2 DEF P!Init

LEMMA SaverMapped ==
    ASSUME TypeOK, ReadsWhole, OpenToWrite \/ CannotOpenToWrite \/ SaverStep \/ Crash
    PROVE  [P!Next]_(P!vars)
<1> USE TypeParts
<1>1. State \in Seq(Items) /\ saver.of \in Objects
  BY WholeIs, ArchiveAssumption DEF State, SaverTyped
<1>2. ASSUME files'.path = files.path, loader' = loader
      PROVE  UNCHANGED P!vars
  BY <1>2 DEF P!vars
<1>3. ASSUME NEW atomic \in BOOLEAN, NEW c \in Seq(Items), Writes(atomic, c)
      PROVE  [P!Next]_(P!vars)
  <2>1. CASE atomic
    <3>1. files'.path = files.path /\ loader' = loader
      BY <1>3, <2>1 DEF Writes, FilesTyped
    <3> QED BY <1>2, <3>1
  <2>2. CASE ~atomic
    <3> DEFINE S == {l \in Loaders : Linked(l)}
    <3>1. /\ files' = [files EXCEPT !.path = c]
          /\ loader' = [l \in Loaders |-> IF Linked(l) THEN [loader[l] EXCEPT !.opened = Unsure]
                                          ELSE loader[l]]
      BY <1>3, <2>2 DEF Writes
    <3>2. files'.path \in Contents
      BY <1>3, <3>1 DEF FilesTyped, Contents
    <3>3. \A l \in Loaders : /\ loader'[l].asks = loader[l].asks
                             /\ loader'[l].answer = loader[l].answer
                             /\ loader'[l].opened = IF l \in S THEN Unsure ELSE loader[l].opened
      BY <3>1 DEF LoaderTyped, LoaderRecord
    <3>4. heldOf' = [l \in Loaders |-> IF l \in S THEN [heldOf[l] EXCEPT !.file = Unsure]
                                      ELSE heldOf[l]]
      BY <3>3 DEF heldOf
    <3>5. answerOf' = answerOf
      BY <3>3 DEF answerOf
    <3>6. P!Overwrite
      BY <3>2, <3>4, <3>5 DEF P!Overwrite, heldOf, answerOf
    <3> QED BY <3>6 DEF P!Next
  <2> QED BY <2>1, <2>2
<1>4. CASE OpenToWrite
  <2>1. PICK atomic \in BOOLEAN : Writes(atomic, <<>>)
    BY <1>4, ArchiveAssumption DEF OpenToWrite
  <2> QED BY <1>3, <2>1, EmptySeq
<1>5. CASE Write
  <2>1. SubSeq(State, 1, saver.done + 1) \in Seq(Items)
    BY <1>1, <1>5, SubSeqProperties DEF Write, SaverTyped
  <2> QED BY <1>3, <1>5, <2>1 DEF Write, SaverTyped
<1>6. CASE CannotOpenToWrite \/ CommitInPlace \/ Crash \/ WriteFails \/ RenameFails
  BY <1>2, <1>6 DEF CannotOpenToWrite, CommitInPlace, Crash, WriteFails, RenameFails, Abandon,
                    FilesTyped
<1>7. CASE CommitRemoves
  <2>1. files'.path = Missing
    BY <1>7 DEF CommitRemoves, FilesTyped
  <2>2. loader' = [l \in Loaders |-> IF Linked(l) THEN [loader[l] EXCEPT !.orphan = files.path]
                                    ELSE loader[l]]
    BY <1>7 DEF CommitRemoves
  <2>3. \A l \in Loaders : /\ loader'[l].asks = loader[l].asks
                           /\ loader'[l].answer = loader[l].answer
                           /\ loader'[l].opened = loader[l].opened
    BY <2>2 DEF LoaderTyped, LoaderRecord
  <2>4. P!Replace
    BY <2>1, <2>3 DEF P!Replace
  <2> QED BY <2>4 DEF P!Next
<1>8. CASE CommitRenames
  <2>1. files'.path = State /\ loader' = loader
    BY <1>8 DEF CommitRenames, TmpGrows, FilesTyped
  <2>2. Complete(State) /\ State \in Contents
    BY <1>1 DEF Complete, State, Contents
  <2>3. P!Replace
    BY <2>1, <2>2 DEF P!Replace
  <2> QED BY <2>3 DEF P!Next
<1> QED BY <1>4, <1>5, <1>6, <1>7, <1>8 DEF SaverStep

LEMMA LoaderStepMapped ==
    ASSUME TypeOK, ReadsWhole, NEW l \in Loaders, OpenToRead(l) \/ LoaderStep(l)
    PROVE  [P!Next]_(P!vars)
<1> USE TypeParts
<1> DEFINE r == loader[l]
<1>1. r \in LoaderRecord /\ UNCHANGED <<files, saver>> /\ files.path \in Contents
  BY DEF LoaderTyped, FilesTyped, OpenToRead, LoaderStep, ReadHeader, ReadPart, Restore
<1>2. ASSUME NEW a \in Objects \cup {"error", Mixture}, Ends(l, a)
      PROVE  /\ IdleLoader.asks \in Requests
             /\ heldOf' = [heldOf EXCEPT ![l] = [file |-> Missing, asks |-> IdleLoader.asks]]
             /\ answerOf' = [answerOf EXCEPT ![l] = a]
  <2> DEFINE n == [IdleLoader EXCEPT !.answer = a]
  <2>1. n \in LoaderRecord /\ n.opened = Missing /\ n.asks = IdleLoader.asks /\ n.answer = a
    BY IdleTyped DEF LoaderRecord, IdleLoader
  <2>2. loader' = [loader EXCEPT ![l] = n]
    BY <1>2 DEF Ends
  <2> HIDE DEF n
  <2> QED BY <2>1, <2>2, LoaderMapped DEF LoaderRecord
<1>3. ASSUME NEW n \in LoaderRecord, loader' = [loader EXCEPT ![l] = n],
             n.opened = r.opened, n.asks = r.asks, n.answer = r.answer
      PROVE  UNCHANGED P!vars
  <2>1. heldOf' = heldOf /\ answerOf' = answerOf
    BY <1>3, LoaderMapped DEF heldOf, answerOf
  <2> QED BY <1>1, <2>1 DEF P!vars, heldOf, answerOf
<1>4. ASSUME NEW a \in Objects \cup {"error", Mixture}, Ends(l, a), LoaderStep(l),
             r.opened # Unsure => a \in Reading(l, r.asks, r.opened)
      PROVE  P!Next
  <2>1. answerOf[l] = "none" /\ heldOf[l] = [file |-> r.opened, asks |-> r.asks]
    BY <1>4 DEF LoaderTyped, LoaderStep, ReadHeader, ReadPart, Restore, Busy, answerOf, heldOf
  <2>2. P!Return(l)
    BY <1>1, <1>2, <1>4, <2>1 DEF P!Return, P!Answer, heldOf, answerOf
  <2> QED BY <2>2 DEF P!Next
<1>5. CASE LoaderStep(l) /\ Raises(l)
  BY <1>4, <1>5, RaiseIsRight DEF Raises
<1>6. CASE Restore(l) /\ ~Raises(l)
  <2>1. Ends(l, Read(r.got))
    BY <1>6 DEF Restore
  <2> QED BY <1>4, <1>6, <2>1, AnswerIsRight, ReadTyped DEF LoaderStep
<1>7. CASE ReadHeader(l) /\ ~Raises(l)
  <2> DEFINE n == [r EXCEPT !.at = "parts"]
  <2>1. loader' = [loader EXCEPT ![l] = n]
    BY <1>7 DEF ReadHeader
  <2>2. n \in LoaderRecord /\ n.opened = r.opened /\ n.asks = r.asks /\ n.answer = r.answer
    BY <1>1 DEF LoaderRecord
  <2> QED BY <1>3, <2>1, <2>2
<1>8. CASE ReadPart(l) /\ ~Raises(l)
  <2>1. PICK o \in Objects \cup {"hole"} : loader' = [loader EXCEPT ![l].got = Append(@, o)]
    BY <1>8 DEF ReadPart, GetsField, Field
  <2> DEFINE n == [r EXCEPT !.got = Append(r.got, o)]
  <2>2. Append(r.got, o) \in Seq(Objects \cup {"hole"})
    BY <1>1, AppendProperties DEF LoaderRecord
  <2>3. n \in LoaderRecord /\ n.opened = r.opened /\ n.asks = r.asks /\ n.answer = r.answer
    BY <1>1, <2>2 DEF LoaderRecord
  <2>4. loader' = [loader EXCEPT ![l] = n]
    BY <2>1
  <2> QED BY <1>3, <2>3, <2>4
<1>9. CASE OpenToRead(l) /\ files.path = Missing
  <2>1. Ends(l, "error")
    BY <1>9 DEF OpenToRead, Raises
  <2>2. ASSUME NEW asks \in Requests
        PROVE  "error" \in Reading(l, asks, files.path)
    <3>1. \A o \in Objects, f \in Supported[l] : files.path # Whole(o, f)
      BY <1>9, WholeIs, FilesAreFiles, ArchiveAssumption
    <3> QED BY <3>1 DEF Reading
  <2>3. P!Open(l)
    BY <1>1, <1>2, <1>9, <2>1, <2>2 DEF P!Open, P!Answer, heldOf, answerOf
  <2> QED BY <2>3 DEF P!Next
<1>10. CASE OpenToRead(l) /\ files.path # Missing
  <2>1. PICK asks \in Requests :
            loader' = [loader EXCEPT ![l] = [IdleLoader EXCEPT
                !.at = "header", !.asks = asks, !.size = Len(files.path), !.opened = files.path]]
    BY <1>10 DEF OpenToRead
  <2> DEFINE n == [IdleLoader EXCEPT
                !.at = "header", !.asks = asks, !.size = Len(files.path), !.opened = files.path]
  <2>2. files.path \in Seq(Items) /\ Len(files.path) \in Nat
    BY <1>1, <1>10, LenProperties DEF Contents
  <2>3. n \in LoaderRecord /\ n.opened = files.path /\ n.asks = asks /\ n.answer = "none"
    BY <1>1, <2>2, IdleTyped DEF LoaderRecord, IdleLoader
  <2>4. loader' = [loader EXCEPT ![l] = n]
    BY <2>1
  <2> HIDE DEF n
  <2>5. /\ heldOf' = [heldOf EXCEPT ![l] = [file |-> n.opened, asks |-> n.asks]]
        /\ answerOf' = [answerOf EXCEPT ![l] = n.answer]
    BY <2>3, <2>4, LoaderMapped
  <2>6. P!Open(l)
    BY <1>1, <1>10, <2>3, <2>5 DEF P!Open, heldOf, answerOf
  <2> QED BY <2>6 DEF P!Next
<1> QED BY <1>5, <1>6, <1>7, <1>8, <1>9, <1>10 DEF LoaderStep

(* A file is seen whole by every load, whenever it is replaced, and by an  *)
(* atomic save at whatever point it stops: BinaryArchive implements        *)
(* ArchivePromise.                                                         *)
THEOREM ArchivePromiseKept == Spec => KeepsArchivePromise
<1>1. Init => P!Init
  BY InitMapped
<1>2. TypeOK /\ ReadsWhole /\ [Next]_vars => [P!Next]_(P!vars)
  <2>1. ASSUME TypeOK, ReadsWhole, Next PROVE [P!Next]_(P!vars)
    BY <2>1, SaverMapped, LoaderStepMapped DEF Next
  <2>2. ASSUME UNCHANGED vars PROVE UNCHANGED P!vars
    BY <2>2 DEF vars, P!vars
  <2> QED BY <2>1, <2>2
<1> QED BY <1>1, <1>2, SpecReads, PTL DEF Spec, KeepsArchivePromise, P!Spec
=============================================================================
