---------------------------- MODULE MCSnapshotStore ----------------------------
(* LoadAll of two packages and a concurrent Load of a third, with up to two   *)
(* artifacts each, over                                                       *)
(* contents of one, one and two bytes, so that contents are shared within a   *)
(* package and between packages and every quota is reached.                   *)
EXTENDS SnapshotStore, TLC

CONSTANTS x, y, z

MCContents == {x, y, z}
MCSize == (x :> 1) @@ (y :> 1) @@ (z :> 2)
LeaseSymmetry == Permutations(Leases) \cup Permutations(Batch) \cup Permutations(Loads \ Batch)
===============================================================================
