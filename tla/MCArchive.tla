----------------------------- MODULE MCArchive -----------------------------
(***************************************************************************)
(* One process that saves, and one that loads, without the plugin and with *)
(* the current format only; three objects, of two classes.                 *)
(***************************************************************************)
EXTENDS Archive, TLC

CONSTANTS grid, plugin, lines, bare

TagOf     == (grid :> "LSGrid") @@ (plugin :> "LSGrid")
                @@ (lines :> "LineContainer")
PartsOf   == ("LSGrid" :> 2) @@ ("LineContainer" :> 1)
SoundOnes == {grid, plugin}
Solver    == (grid :> "NR") @@ (plugin :> "custom") @@ (lines :> "NR")
Reads     == (bare :> {2})
Knows     == (bare :> {"NR"})

Noise == [part |-> 1, of |-> "hole", format |-> 0]

(* No file; a cut one, an empty one, one with bytes after its end, one of  *)
(* the older format, one of another program.                               *)
FoundFiles == {Missing, <<>>, SubSeq(Whole(grid, 2), 1, 2), Whole(grid, 2) \o <<Noise>>,
               Whole(grid, 1), <<Noise>>}
GoodFile   == {Whole(grid, 2)}
=============================================================================
