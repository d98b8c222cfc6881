------------------------------- MODULE MCWave -------------------------------
(***************************************************************************)
(* Instances of MigrationWave for TLC: a region of two nodes under         *)
(* maintenance and a spare one, each with an instance.                     *)
(***************************************************************************)
EXTENDS MigrationWave, TLC

CONSTANTS ha, hb, hc, i1, i2, i3, i4

\* Roomy: any two nodes can be emptied.  Tight: any one, until another
\* instance is created.
Roomy == (ha :> 2) @@ (hb :> 2) @@ (hc :> 3)
Tight == (ha :> 2) @@ (hb :> 1) @@ (hc :> 2)

OnePerHost == (i1 :> ha) @@ (i2 :> hb) @@ (i3 :> NoHost) @@ (i4 :> hc)
=============================================================================
