---------------------------- MODULE MCPhaseMachine ----------------------------
(* PhaseMachine on the toggles that give its phase chains.                     *)
EXTENDS PhaseMachine

Run(k, o, s, e) == [kernel |-> k, optimize |-> o, sweep |-> s, enablement |-> e]

\* Every phase but the bring-up lane's; and that lane, with nothing to optimise or sweep.
MCRunFlags == {Run(TRUE, TRUE, TRUE, FALSE), Run(FALSE, FALSE, FALSE, TRUE)}
=============================================================================
