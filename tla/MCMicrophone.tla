---------------------------- MODULE MCMicrophone ----------------------------
(* Small instances of Microphone for TLC.                                   *)
EXTENDS Microphone
=============================================================================
