--------------------------- MODULE MCMeetingPage ---------------------------
(* Small instances of MeetingPage for TLC.  Messages are interchangeable,   *)
(* and so are the other participants.                                       *)
EXTENDS MeetingPage, TLC

Symmetry == Permutations(Messages) \union Permutations(People \ {Self})
=============================================================================
