----------------------------- MODULE MCMembers -----------------------------
(* Two addresses, two Google identities with the first of them, two browsers. *)
EXTENDS Members, TLC

CONSTANTS u1, u2, e1, e2, g1, g2, b1, b2

MCGoogleMail == g1 :> e1 @@ g2 :> e1
Symmetric == Permutations(Users) \cup Permutations(Browsers) \cup Permutations(Identities)
=============================================================================
