---------------------------- MODULE MCSlabEvac ----------------------------
(* An instance of SlabEvac for TLC: two slabs of two objects, one of one. *)
EXTENDS SlabEvac, TLC

CONSTANTS s1, s2, s3

Slabs == {s1, s2, s3}
Objects == ({s1, s2} \X {1, 2}) \cup {<<s3, 1>>}
SlabOfObject == [o \in Objects |-> o[1]]
=============================================================================
