--------------------------- MODULE MCBindingLease ---------------------------
(* Model-checking instances of BindingLease.  A unit of time is 5 s. *)
EXTENDS BindingLease, TLC

CONSTANTS s1, s2, s3

TwoSupervisors   == {s1, s2}
ThreeSupervisors == {s1, s2, s3}
Interchangeable  == Permutations(ThreeSupervisors)
=============================================================================
