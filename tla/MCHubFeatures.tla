--------------------------- MODULE MCHubFeatures ---------------------------
(* Small instances of HubFeatures for TLC.                                  *)
EXTENDS HubFeatures, TLC

\* Each of the two races of the hands has a kind of departure that it needs.
AllButOne == {{"leave", "takeover"}, {"leave", "drop"}}

\* One participant comes back while cameras are sent, and nobody while screens
\* are, too.
SmallSetups == {[roles |-> {"camera"}, returns |-> 1], [roles |-> {"camera", "screen"}, returns |-> 0]}

Symmetry == Permutations(Ids) \union Permutations(Admins)
=============================================================================
