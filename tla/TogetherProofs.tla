--------------------------- MODULE TogetherProofs ---------------------------
(***************************************************************************)
(* The run that checks eight tools at once checks each by itself: its      *)
(* behaviours are behaviours of every one of the eight specifications.     *)
(***************************************************************************)
EXTENDS MCTools, OnboardingProofs, ToolProofs, SecurityProofs

\* A step of the run is a step of one tool, and the others stutter.
LEMMA OneToolSteps ==
  ASSUME [Next]_<<tool, ovars, avars, tvars, nvars, mvars, pvars, cvars, updateVars>>
  PROVE  /\ [OnboardingStep]_ovars /\ [AuditStep]_avars /\ [ThrottleStep]_tvars
         /\ [NtpStep]_nvars /\ [MonitorStep]_mvars /\ [PureStep]_pvars
         /\ [CertNext]_cvars /\ [UpdateNext]_updateVars
  BY DEF Next

\* Whatever holds of a tool by itself holds of it in the run.
THEOREM EachByItself ==
  Spec => /\ OnboardingSpec /\ AuditSpec /\ ThrottleSpec /\ NtpSpec
          /\ MonitorSpec /\ PureSpec /\ CertSpec /\ UpdateSpec
<1>1. Init => /\ OnboardingInit /\ AuditInit /\ ThrottleInit /\ NtpInit
              /\ MonitorInit /\ PureInit /\ CertInit /\ UpdateInit
  BY DEF Init
<1> QED
  BY <1>1, OneToolSteps, PTL
  DEF Spec, OnboardingSpec, AuditSpec, ThrottleSpec, NtpSpec, MonitorSpec, PureSpec,
      CertSpec, UpdateSpec

\* Every variable of every tool keeps its type.
THEOREM ToolsTypeCorrect == Spec => []ToolsTypeOK
<1>1. /\ OnboardingTypeOK /\ AuditTypeOK /\ ThrottleTypeOK /\ NtpTypeOK
      /\ MonitorTypeOK /\ PureTypeOK /\ CertTypeOK /\ PolicyTypeOK
      => ToolsTypeOK
  BY DEF ToolsTypeOK
<1> QED
  BY <1>1, EachByItself, OnboardingTypeCorrect, AuditTypeCorrect, ThrottleTypeCorrect,
     NtpTypeCorrect, MonitorTypeCorrect, PureTypeCorrect, CertTypeCorrect,
     PolicyTypeCorrect, PTL
=============================================================================
