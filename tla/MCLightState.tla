---------------------------- MODULE MCLightState ----------------------------
(* Model values for checking LightState with TLC. *)
EXTENDS LightState

Step(led, colour, type, value) ==
    [led |-> led, colour |-> colour, type |-> type, value |-> value]

\* One animation can set, fade, overwrite and wait on the same component: a colour
\* there is not and red are both the red one.
MCSteps ==
    {Step(2, 3, BlockStepSetPWM, 200), Step(2, 0, BLockStepFadeOut, 100),
     Step(1, 0, BlockStepDelay, 1023)}

\* Only steps that never wait.
MCUndelayedSteps == {Step(3, 0, BlockStepSetPWM, 255)}

=============================================================================
