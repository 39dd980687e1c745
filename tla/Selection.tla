------------------------------ MODULE Selection ------------------------------
(***************************************************************************)
(* The elements of a sequence that lie in a set, in their order.  This is  *)
(* SelectSeq with its computation spelled out, for the proofs.             *)
(***************************************************************************)
EXTENDS Naturals, Sequences

Keep(s, S) ==
  LET f[i \in 0 .. Len(s)] ==
        IF i = 0 THEN <<>> ELSE IF s[i] \in S THEN Append(f[i - 1], s[i]) ELSE f[i - 1]
  IN  f[Len(s)]
=============================================================================
