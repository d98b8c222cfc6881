---------------------------- MODULE MCOnboarding ----------------------------
(***************************************************************************)
(* An instance of NetworkOnboarding for TLC: three network specs, of which *)
(* A and C use one router and one group, and a subnet of A overlaps that   *)
(* of B.                                                                   *)
(***************************************************************************)
EXTENDS NetworkOnboarding, TLC

CONSTANTS A, B, C, na, nb, nc, a1, a2, b1, c1, r1, sg

ThreeNets == (A :> na) @@ (B :> nb) @@ (C :> nc)
ThreeVlans == (A :> 1) @@ (B :> 2) @@ (C :> 3)
ThreeSubnets == (A :> <<a1, a2>>) @@ (B :> <<b1>>) @@ (C :> <<c1>>)
SharedRouter == (A :> r1) @@ (B :> NoName) @@ (C :> r1)
SharedGroup == (A :> sg) @@ (B :> NoName) @@ (C :> sg)
OneRule == (A :> 1) @@ (B :> 0) @@ (C :> 1)
OneOverlap == {<<a2, b1>>, <<b1, a2>>}
=============================================================================
