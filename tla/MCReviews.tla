----------------------------- MODULE MCReviews -----------------------------
(* Constants of the TLC runs of Reviews.                                   *)
EXTENDS Reviews, TLC

CONSTANTS org1, cust1, cust2, a1, a2, a3, a4

\* One carrier delivers four times; cust2 has no portal login.
MCActions == {a1, a2, a3, a4}
MCRater == [a \in MCActions |->
  [s \in Sides |-> IF s = "org" THEN org1 ELSE IF a = a4 THEN cust2 ELSE cust1]]

\* The deliveries for cust1 are interchangeable.
MCSymmetry == Permutations({a1, a2, a3})

=============================================================================
