----------------------- MODULE MCRoutingChatManager -----------------------
(* Instances of RoutingChatManager for TLC. *)
EXTENDS RoutingChatManager, TLC

CONSTANTS c1, c2, c3, k1, k2, k3, r1, r2

\* One session, written one way.
OneKey == {k1}
TrimOne == k1 :> "s1"

\* Two sessions, the first written with and without blanks around it.
ThreeKeys == {k1, k2, k3}
TrimThree == (k1 :> "s1") @@ (k2 :> "s1") @@ (k3 :> "s2")

CallSymmetry == Permutations(Calls)
=============================================================================
