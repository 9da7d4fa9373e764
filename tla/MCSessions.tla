----------------------------- MODULE MCSessions -----------------------------
(* Two owners of one fleet, and a customer who may take a freed address.  *)
EXTENDS Sessions, TLC
CONSTANTS ann, bob, new, k1, h1, r1, r2
MCUsers == {ann, bob, new}
MCMembers == {ann, bob}
MCOwners == {ann, bob}
MCOrgOf == (ann :> "fleet") @@ (bob :> "fleet") @@ (new :> "none")
MCAddressOf == (ann :> "a@") @@ (bob :> "b@") @@ (new :> "a@")
MCSymmetry == Permutations({r1, r2})
=============================================================================
