-------------------------- MODULE MCTripLifecycle --------------------------
(* Constants of the TLC runs of TripLifecycle.                             *)
EXTENDS TripLifecycle, TLC

CONSTANTS boss, ann, ben, t1, t2, r1, r2

\* ben works for himself: a driver who holds trip:*.
MCDrivers == {ann, ben}

\* Trips and requests are interchangeable.
MCSymmetry == Permutations({t1, t2}) \cup Permutations({r1, r2})

=============================================================================
