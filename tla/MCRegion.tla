------------------------------ MODULE MCRegion ------------------------------
(***************************************************************************)
(* Instances of Region for TLC.                                            *)
(***************************************************************************)
EXTENDS Region, TLC

CONSTANTS h1, h2, i1, i2

OneToDrain == [i \in Instance |-> IF i = i1 THEN h2 ELSE NoHost]
AllOrSome == {Stages, {"aggregates", "services"}, {"verify", "neutron", "placement"}}
=============================================================================
