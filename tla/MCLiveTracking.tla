--------------------------- MODULE MCLiveTracking ---------------------------
(* Instances of LiveTracking for TLC: every panel shows the first trip.      *)
EXTENDS LiveTracking, TLC

FollowsFirst == [v \in Viewers |-> 1]

=============================================================================
