---------------------------- MODULE MCMediaState ----------------------------
(* Small instances of MediaState for TLC.                                   *)
EXTENDS MediaState
=============================================================================
