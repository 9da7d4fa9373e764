---------------------------- MODULE MCShareLinks ----------------------------
(* Constants of the TLC run of ShareLinks.                                 *)
EXTENDS ShareLinks, TLC

CONSTANTS t1, pod

MCDocTrip == (pod :> t1)
MCDocType == (pod :> "pod")
\* A trip without an ETA, so that one notice is refused.
MCColumns == [t \in Trips |-> {"carrier_name", "price", "driver_name", "vehicle", "amount"}]

=============================================================================
