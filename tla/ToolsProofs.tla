----------------------------- MODULE ToolsProofs -----------------------------
(***************************************************************************)
(* The specification that is model-checked runs Startup and TopicAdmin     *)
(* side by side (MCTools). It implements both of them, with the other one  *)
(* stuttering, so that each theorem about one of the two is a theorem      *)
(* about the specification TLC runs.                                       *)
(***************************************************************************)
EXTENDS MCTools, StartupProofs, TopicAdminProofs

both == <<part, startup, admin>>

\* A behaviour of the two side by side is one of the start-up and one of the admin
\* commands: the two share no state and neither blocks the other.
THEOREM ToolsImplementBoth == Spec => StartupSpec /\ AdminSpec
<1>1. Init => StartupInit /\ AdminInit
  BY DEF Init
<1>2. [Next]_both => [StartupNext]_startup /\ [AdminNext]_admin
  BY DEF Next, both
<1> QED
  BY <1>1, <1>2, PTL DEF Spec, both, StartupSpec, AdminSpec

\* Type correctness of both, in the specification that is checked.
THEOREM ToolsTypeCorrect == Spec => []TypeOK
<1>1. StartupTypeOK /\ AdminTypeOK => TypeOK
  BY DEF TypeOK
<1> QED
  BY <1>1, ToolsImplementBoth, StartupTypeCorrect, AdminTypeCorrect, PTL

\* What was proved of each of the two holds of the specification that is checked.
COROLLARY ToolsAreSafe ==
  Spec => /\ [](LastLineWins /\ OverlaysRescue /\ ClientIsComplete /\ ModeIsHonoured
             /\ SomeBrokerKnows)
          /\ RetainedIsNotUnderstated
  BY ToolsImplementBoth, LastLinesWin, OverlaysDoRescue, ClientsAreComplete,
     ModesAreHonoured, WaitsAreForSomething, RetainedIsCounted, PTL

=============================================================================
