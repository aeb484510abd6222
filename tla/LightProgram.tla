---------------------------- MODULE LightProgram ----------------------------
(***************************************************************************)
(* What LightState.cpp makes of the fields of a LightState: the program    *)
(* Update() writes for the AW9120, and the other registers it sets.        *)
(***************************************************************************)
EXTENDS AW9120, Sequences

Technology == {"wifi", "bluetooth", "cellular"}

BlockStepSetPWM == 0
BlockStepFadeIn == 1
BLockStepFadeOut == 2
BlockStepDelay == 3

BlockAnimStep ==
    [led : Nat, colour : Nat, type : 0 .. 3, value : 0 .. 1023]

\* The steps LEDs lets through to handleSetBlockRGB, and the torch's own step.
IsBlockStep(step) ==
    /\ step \in BlockAnimStep
    /\ step.led \in 1 .. 5
    /\ step.type = BlockStepDelay \/ step.value \in 0 .. 255

TorchStep == [led |-> 31, colour |-> 0, type |-> BlockStepSetPWM, value |-> 255]

POWER_LEVEL_20b001s == 1     \* the three bits every LED has in the constant
POWER_LEVEL_20b111s == 7

Lights ==
    [capsLock : BOOLEAN, connectivity : [Technology -> BOOLEAN],
     callEarpiece : BOOLEAN, callLeftUp : BOOLEAN,
     steps : Seq(BlockAnimStep),
     powerLevels : {POWER_LEVEL_20b001s, POWER_LEVEL_20b111s}]

powerState == 0              \* never assigned: the branch on it is dead

-----------------------------------------------------------------------------
(* The program Update() writes *)

When(condition, words) == IF condition THEN words ELSE << >>

\* Mutant: the colour is not switched off again.
Blink_StaysOn(condition, channel, level) ==
    When(condition, <<SETPWMI + channel + level, WAITI + WAIT_PRE_16MS + \h80>>)

Blink(condition, channel, level) ==
    When(condition, <<SETPWMI + channel + level,
                      WAITI + WAIT_PRE_16MS + \h80,
                      SETPWMI + channel>>)

CallWords(s) ==
    IF s.callLeftUp
    THEN <<SETPWMI + CH_6_RED + \ha0, SETPWMI + CH_6_GREEN>>
    ELSE <<SETPWMI + CH_6_RED, SETPWMI + CH_6_GREEN + \h50>>

ConnectivityWords(s) ==
    When(s.connectivity["cellular"], <<SETPWMI + CH_6_RED + \ha0>>)
    \o When(s.connectivity["wifi"], <<SETPWMI + CH_6_GREEN + \h50>>)
    \o When(s.connectivity["bluetooth"],
            <<SETPWMI + CH_6_BLUE
              + IF s.connectivity["wifi"] THEN \hc0 ELSE \hff>>)

Prelude(s) ==
    <<SET_STEP_TMRI + CH_ALL_LEDS + 3, SETPWMI + CH_ALL_LEDS>>
    \o (IF s.callEarpiece THEN CallWords(s) ELSE ConnectivityWords(s))
    \o When(s.capsLock, <<SETPWMI + CH_7_RED + \ha0>>)
    \o When(powerState # 0, <<SETPWMI + CH_7_BLUE + \hff>>)

\* Mutant: LED 2 numbered with LEDs 3 to 5.
AWLEDCodeForStep_NoLED2(step) ==
    (IF step.led \in 2 .. 5 THEN (step.led - 2) * 3 * 256
     ELSE IF step.led = 31 /\ step.colour = 0 THEN CH_ALL_LEDS
     ELSE 0)
    + (IF step.colour \in 1 .. 2 THEN step.colour * 256 ELSE 0)

AWLEDCodeForStep(step) ==
    (IF step.led = 2 THEN \hc00
     ELSE IF step.led > 2 /\ step.led < 6 THEN (step.led - 2) * 3 * 256
     ELSE IF step.led = 31 /\ step.colour = 0 THEN CH_ALL_LEDS
     ELSE 0)
    + (CASE step.colour = 2 -> \h200
         [] step.colour = 1 -> \h100
         [] OTHER -> 0)

StepWord(step) ==
    CASE step.type = BlockStepDelay -> WAITI + WAIT_PRE_16MS + step.value
      [] step.type = BlockStepSetPWM ->
            SETPWMI + AWLEDCodeForStep(step) + step.value
      [] step.type = BlockStepFadeIn ->
            RAMPI_IN + AWLEDCodeForStep(step) + step.value
      [] step.type = BLockStepFadeOut ->
            RAMPI_OUT + AWLEDCodeForStep(step) + step.value

StepWords(steps) == [i \in 1 .. Len(steps) |-> StepWord(steps[i])]

delaySet(steps) == \E i \in 1 .. Len(steps) : steps[i].type = BlockStepDelay

\* Mutant: no wait when no technology is on.
FallbackWords_NoIdleWait(s) ==
    IF s.callEarpiece
    THEN <<WAITI + WAIT_PRE_16MS + MAX_WAIT>>
    ELSE <<SETPWMI + CH_6_RED, SETPWMI + CH_6_GREEN, SETPWMI + CH_6_BLUE>>
         \o Blink(s.connectivity["cellular"], CH_6_RED, \ha0)
         \o Blink(s.connectivity["wifi"], CH_6_GREEN, \h50)
         \o Blink(s.connectivity["bluetooth"], CH_6_BLUE, \hff)

\* What is put after the steps when none of them waits.
FallbackWords(s) ==
    IF s.callEarpiece
    THEN <<WAITI + WAIT_PRE_16MS + MAX_WAIT>>
    ELSE <<SETPWMI + CH_6_RED, SETPWMI + CH_6_GREEN, SETPWMI + CH_6_BLUE>>
         \o Blink(s.connectivity["cellular"], CH_6_RED, \ha0)
         \o Blink(s.connectivity["wifi"], CH_6_GREEN, \h50)
         \o Blink(s.connectivity["bluetooth"], CH_6_BLUE, \hff)
         \o When(\A tech \in Technology : ~ s.connectivity[tech],
                 <<WAITI + WAIT_PRE_16MS + MAX_WAIT>>)

\* The words a program has beside its steps: the prelude at most 6, the fallback
\* at most 12, and the jump.
OVERHEAD == 19

\* The loop closes on loopStartPC, the length of the prelude.
Program(s) ==
    Prelude(s) \o StepWords(s.steps)
    \o When(~ delaySet(s.steps), FallbackWords(s))
    \o <<Len(Prelude(s))>>

-----------------------------------------------------------------------------
(* The other registers *)

\* Mutant: the nibble of LED 4 is past the register.
maxLED_FourthNibble(led, level) ==
    level * (CASE led % 4 = 0 -> 65536 [] led % 4 = 1 -> 16
               [] led % 4 = 2 -> 256 [] led % 4 = 3 -> 4096)

\* LED led's current limit within its register of four: its nibble.
maxLED(led, level) ==
    level * (CASE led % 4 = 0 -> 1 [] led % 4 = 1 -> 16
               [] led % 4 = 2 -> 256 [] led % 4 = 3 -> 4096)

Imax(level) ==
    [r \in 1 .. 5 |-> maxLED(4 * r, level) + maxLED(4 * r - 1, level)
                      + maxLED(4 * r - 2, level) + maxLED(4 * r - 3, level)]

\* A word this program did not write: it is whatever an earlier program left
\* there, and no loop can be trusted to it.
LeftoverWord == \hFFFF

\* ResetSramLoadAddrAW9120, then WriteSramProgAW9120 for each word: words past
\* the SRAM are counted but not written.
Load(words) ==
    [a \in Address |-> IF a < Len(words) THEN words[a + 1] ELSE LeftoverWord]

Updated(s) ==
    [enabled |-> TRUE,
     running |-> TRUE,
     imax    |-> Imax(s.powerLevels),
     sram    |-> Load(Program(s)),
     red     |-> s.callEarpiece /\ ~ s.callLeftUp,
     green   |-> s.callEarpiece /\ s.callLeftUp]

Constructed ==
    [capsLock |-> FALSE, connectivity |-> [tech \in Technology |-> FALSE],
     callEarpiece |-> FALSE, callLeftUp |-> FALSE,
     steps |-> << >>, powerLevels |-> POWER_LEVEL_20b001s]

=============================================================================
