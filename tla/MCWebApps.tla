----------------------------- MODULE MCWebApps -----------------------------
(* Constants of the TLC runs of WebApps.                                   *)
EXTENDS WebApps, TLC

CONSTANTS boss, ben, i1, i2

MCUsers == {boss, ben}
\* A dispatcher and a driver of one fleet.
MCRole == (boss :> "dispatcher") @@ (ben :> "driver")
MCMaxFlight == [fleet |-> 3, customer |-> 2, solo |-> 2]

=============================================================================
