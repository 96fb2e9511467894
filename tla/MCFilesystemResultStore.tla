---------------------- MODULE MCFilesystemResultStore ----------------------
(***************************************************************************)
(* An instance of FilesystemResultStore: two processes, payloads of one    *)
(* and two bytes, a store of two entries and three bytes.                  *)
(***************************************************************************)
EXTENDS FilesystemResultStore, TLC

CONSTANTS p1, p2, a, b, c

MCSize == a :> 1 @@ b :> 1 @@ c :> 2
\* the empty batch and the one of three are refused, <<a, a>> names a payload
\* twice, and <<c, b>> fills the store
MCBatches == {<<a>>, <<c>>, <<c, b>>, <<>>, <<a, a>>, <<a, b, c>>}
MCDigestOrder == [ids \in MCBatches |->
  CASE ids = <<a>> -> 1 [] ids = <<c>> -> 3 [] ids = <<c, b>> -> 5
    [] ids = <<>> -> 6 [] ids = <<a, a>> -> 7 [] ids = <<a, b, c>> -> 8]
=============================================================================
