--------------------------- MODULE MCDeltaCreate ----------------------------
(* Small instances of DeltaCreate for TLC. *)
EXTENDS DeltaCreate, TLC

CONSTANTS a, b, z

(* Two chunks each, z and a pair: the first is reused, the second is read  *)
(* and rebuilt from the old chunk or added.  The other contents have other *)
(* bytes, chunks, lengths or none.                                         *)
EditInitial  == "old" :> <<z, a, b>> @@ "new" :> <<z, b, b>>
EditContents ==
    "old" :> {<<z, a, b>>, <<z, a, a>>, <<a, z, b>>, <<z, a, b, a>>, <<z, a>>}
    @@ "new" :> {<<z, b, b>>, <<z, b, a>>, <<a, z, b>>, <<z, b, b, z>>, <<>>}
OnceEach     == "old" :> 1 @@ "new" :> 1

(* An old file that changes and changes back.                              *)
TwiceOld     == "old" :> 2 @@ "new" :> 0
=============================================================================
