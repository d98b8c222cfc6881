-------------------------------- MODULE MCVm --------------------------------
(***************************************************************************)
(* Instances of VmMigration for TLC.                                       *)
(***************************************************************************)
EXTENDS VmMigration

Everything == PHASES
AssessOnly == <<"assess">>

\* The last phases once more, by hand.
BuildAgain == <<"provision", "validate">>

TheLists == {Everything, AssessOnly, BuildAgain}
FullList == {Everything}
=============================================================================
