---------------------------- MODULE HubFeatures ----------------------------
(***************************************************************************)
(* Three features of the hub that its members meet in the same connections:*)
(* the raised hands, the right to share the screen, and the forwarding of  *)
(* media.  Their handlers and broadcasts touch disjoint parts of the hub's *)
(* state and disjoint fields of a browser's tiles, so an interleaving of   *)
(* them shows nothing that the interleavings of each do not; a behaviour   *)
(* exercises one of them.                                                  *)
(***************************************************************************)
EXTENDS RaisedHands, ScreenShare, Router

VARIABLE feature  \* the feature that is exercised

featureVars == <<feature, handsVars, screenVars, routerVars>>

FeaturesInit ==
  /\ HandsInit /\ ScreenInit /\ RouterInit
  /\ feature \in {"hands", "screen", "router"}
  /\ feature # "hands" => <<max, departures>> =
       CHOOSE start \in Limits \X DepartureChoices : start[1] >= 1
  /\ feature # "router" => setup = CHOOSE s \in Setups : TRUE

FeaturesNext ==
  /\ \/ feature = "hands" /\ HandsNext /\ UNCHANGED <<screenVars, routerVars>>
     \/ feature = "screen" /\ ScreenNext /\ UNCHANGED <<handsVars, routerVars>>
     \/ feature = "router" /\ RouterNext /\ UNCHANGED <<handsVars, screenVars>>
  /\ UNCHANGED feature

FeaturesSpec == FeaturesInit /\ [][FeaturesNext]_featureVars

----------------------------------------------------------------------------
(* Properties.                                                             *)

\* The copies that the handlers keep agree with the state they copy: the table's
\* two records of a hand, a connection's own record, and the lease with the
\* connection that holds it.
FeaturesInv ==
  /\ HandsTypeOK /\ ScreenTypeOK /\ RouterTypeOK
  /\ HandQueueConsistent /\ CopyKnowsHand /\ LeaseDiesWithConnection
=============================================================================
