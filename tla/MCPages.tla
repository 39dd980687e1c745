------------------------------- MODULE MCPages ------------------------------
(* Small instances of Pages for TLC.                                        *)
EXTENDS Pages

Both(v, w) == [p \in Parts |-> IF p = "public" THEN v ELSE w]

\* What is stored first differs in both parts from what is in the form first, and both
\* parts may be edited on their own; the latter cannot be saved as it is.
MCFirst == Both(1, 1)
MCHtml == Both(2, 2)
MCValid == {MCFirst, Both(1, 2), Both(2, 1)}
=============================================================================
