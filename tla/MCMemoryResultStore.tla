------------------------ MODULE MCMemoryResultStore ------------------------
(***************************************************************************)
(* An instance of MemoryResultStore with an empty payload, small ones that *)
(* together fill the store, one as large as an item may be, and one above. *)
(***************************************************************************)
EXTENDS MemoryResultStore, TLC

CONSTANTS none, a, b, c, d, huge

MCSize == none :> 0 @@ a :> 1 @@ b :> 2 @@ d :> 1 @@ c :> 3 @@ huge :> 4
MCBatches == {<<>>, <<a>>, <<a, b>>, <<b, c>>, <<c, a>>, <<a, none>>, <<b, huge>>, <<a, a>>, <<a, b, d>>}
=============================================================================
