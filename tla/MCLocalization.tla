---------------------------- MODULE MCLocalization ----------------------------
(***************************************************************************)
(* The publisher of the sensor samples, and the filter with the map.  They *)
(* share nothing but messages, and the filter is checked for any of them,  *)
(* so a behaviour moves one of the two and leaves the other at its start.  *)
(***************************************************************************)
EXTENDS Navigation, UbloxPublisher

VARIABLE side   \* which of the two moves

MCSamples == [imu |-> 2, pos |-> 2, vel |-> 2]

\* Bound: two measurements with one epoch, or two epochs with one measurement.
MCFew == output["imu"] = 2 => output["pos"] < 2

MCInit ==
  /\ Init
  /\ PublisherInit
  /\ side \in {"publisher", "navigation"}

Navigate(A) == side = "navigation" /\ A /\ UNCHANGED <<side, publisherVars>>

MCNext ==
  \/ Navigate(Next)
  \/ side = "publisher" /\ PublisherNext /\ MCFew' /\ UNCHANGED <<side, vars>>

MCSpec ==
  /\ MCInit
  /\ [][MCNext]_<<vars, side, publisherVars>>
  /\ WF_vars(Navigate(ImuArrives))
  /\ WF_vars(Navigate(GnssArrives))
  /\ WF_vars(Navigate(NavReachesTheMap))

=============================================================================
