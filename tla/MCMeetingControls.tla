-------------------------- MODULE MCMeetingControls --------------------------
(* Small instances of MeetingControls for TLC.                              *)
EXTENDS MeetingControls
MCBudgets == {[bits |-> 1, fps |-> 7], [bits |-> 2, fps |-> 3]}
MCMedias == {[mic |-> "on", camera |-> "on"], [mic |-> "on", camera |-> "paused"],
             [mic |-> "off", camera |-> "off"]}
MCSizes == {4 * i : i \in 0 .. 14}
=============================================================================
