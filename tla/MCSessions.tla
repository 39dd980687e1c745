---------------------------- MODULE MCSessions ----------------------------
(* Small instances of Sessions for TLC.                                     *)
EXTENDS Sessions, TLC

\* Connections are interchangeable, and so are participants.
Symmetry == Permutations(Conns) \union Permutations(Ids)
=============================================================================
