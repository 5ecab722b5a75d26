--------------------------- MODULE PowerAbstract ---------------------------
(***************************************************************************)
(* What the chipset power state machine promises, as spec.md sections 3    *)
(* and 4.1 state it: the machine is always in exactly one power state, it  *)
(* moves only along the edges of the transition table, and a transitional  *)
(* state always resolves to its target or back toward G3, never sticks.    *)
(* The detailed module BaytrailPower is checked to implement it.          *)
(***************************************************************************)

VARIABLE state

Steady       == {"G3", "S5", "S3", "S0"}
Transitional == {"G3S5", "S5S3", "S3S0", "S0S3", "S3S5", "S5G3"}
PowerStates  == Steady \cup Transitional

(* The transition table: steady states leave toward a transitional state, *)
(* a transitional state ends in its target or falls back toward off; the  *)
(* only way back up from S3S5 is the restart edge to G3S5.                *)
Edge ==
  { <<"G3", "G3S5">>,
    <<"S5", "S5S3">>,
    <<"S3", "S3S0">>, <<"S3", "S3S5">>,
    <<"S0", "S0S3">>,
    <<"G3S5", "S5">>, <<"G3S5", "G3">>,
    <<"S5S3", "S3">>, <<"S5S3", "S5G3">>,
    <<"S3S0", "S0">>, <<"S3S0", "S3">>,
    <<"S0S3", "S3">>,
    <<"S3S5", "S5">>, <<"S3S5", "S5G3">>, <<"S3S5", "G3S5">>,
    <<"S5G3", "G3">> }

(* power_chipset_init starts the machine in G3, or in S0 after a jump     *)
(* between images while the AP is running.                                *)
Init == state \in {"G3", "S0"}

Step == \E e \in Edge : e[1] = state /\ state' = e[2]

Resolve == state \in Transitional /\ Step

Spec == Init /\ [][Step]_state /\ WF_state(Resolve)

=============================================================================
