------------------------ MODULE MCOutputTransaction ------------------------
(* Small instances of OutputTransaction for TLC. *)
EXTENDS OutputTransaction, TLC

CONSTANTS t1, t2, p1, p2, d, in, old, src, private, public

(* Race: two processes replace the same destination, a private file, one   *)
(* of them past a leftover of an earlier run.                              *)
RaceOwner     == t1 :> p1 @@ t2 :> p2
RaceDest      == t1 :> d @@ t2 :> d
RaceInputs    == t1 :> {in} @@ t2 :> {in}
RaceInitial   == d :> old @@ in :> src
RaceTaken     == {<<t1, 1>>}
RaceGivenPerm == old :> private @@ src :> public @@ Directory :> public
                 @@ Stub :> public @@ Leftover :> public

(* Pool: one process with more transactions than slots; one is aimed at   *)
(* its own input, and other programs rebind the destination of the other.  *)
PoolOwner     == t1 :> p1 @@ t2 :> p1
PoolDest      == t1 :> d @@ t2 :> in

(* Alone: one transaction, for the statements the code does not keep.      *)
AloneOwner    == t1 :> p1
AloneDest     == t1 :> d
AloneInputs   == t1 :> {in}
=============================================================================
