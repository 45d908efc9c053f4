------------------------------ MODULE MCWakers ------------------------------
(* Instances of the wakers for TLC.                                        *)
EXTENDS Wakers, TLC

(* Addresses are interchangeable, and so are the names of clones.          *)
Symmetry == Permutations(Addr) \cup Permutations(Copy)

=============================================================================
