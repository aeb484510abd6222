----------------------------- MODULE LightState -----------------------------
(***************************************************************************)
(* The LightState class: what the daemon knows of caps lock, connectivity, *)
(* calls, torch and block animation, and the handlers that change it and   *)
(* write it to the AW9120.  Here each handler is one step, as it is when a *)
(* single thread calls them; UpdateRace takes Update() apart.              *)
(***************************************************************************)
EXTENDS LightProgram

CONSTANTS
    Steps,       \* the animation steps handleSetBlockRGB is called with
    MAX_STEPS    \* bound: steps held at once (the code has no limit)

ASSUME StepsAssumption ==
    /\ \A step \in Steps : IsBlockStep(step)
    /\ MAX_STEPS \in Nat \ {0}

VARIABLES
    lights,      \* the fields of LightState
    chip,        \* the AW9120's registers and SRAM, and the two class LEDs
    shown        \* history: {the fields the last Update() read}, {} before it

vars == <<lights, chip, shown>>

-----------------------------------------------------------------------------
(* The handlers *)

Update == /\ chip' = Updated(lights')
          /\ shown' = {lights'}

\* The chip as the daemon finds it: running the program of an earlier daemon or
\* switched off.
FoundChips ==
    [enabled : BOOLEAN, running : BOOLEAN, imax : {Imax(POWER_LEVEL_20b001s)},
     sram : {Load(<< >>)}, red : {FALSE}, green : {FALSE}]

Init == /\ lights = Constructed
        /\ chip \in FoundChips
        /\ shown = {}

handleCapsLock(state) ==
    /\ lights' = [lights EXCEPT !.capsLock = state]
    /\ Update

\* handleConnectivityWifi, handleConnectivityBluetooth, handleConnectivityCellular
handleConnectivity(tech, state) ==
    /\ lights' = [lights EXCEPT !.connectivity[tech] = state]
    /\ Update

handleClearBlock ==
    /\ lights' = [lights EXCEPT !.steps = << >>]
    /\ UNCHANGED <<chip, shown>>

handlePushBlock ==
    /\ UNCHANGED lights
    /\ Update

handleSetBlockRGB(step) ==
    /\ Len(lights.steps) < MAX_STEPS
    /\ lights' = [lights EXCEPT !.steps = Append(@, step)]
    /\ UNCHANGED <<chip, shown>>

\* Mutant: the torch leaves the current as it is.
handleTorch_SameCurrent(on) ==
    /\ lights' = [lights EXCEPT !.steps = When(on, <<TorchStep>>)]
    /\ Update

\* Update() runs twice here, through handlePushBlock() and again at the end: the
\* second leaves what the first did.
handleTorch(on) ==
    /\ lights' = [lights EXCEPT
                    !.powerLevels = IF on THEN POWER_LEVEL_20b111s
                                          ELSE POWER_LEVEL_20b001s,
                    !.steps = When(on, <<TorchStep>>)]
    /\ Update

\* Mutant: the call is not shown before some other handler's Update().
handleCall_NoUpdate(earpiece, leftUp) ==
    /\ lights' = [lights EXCEPT !.callEarpiece = earpiece, !.callLeftUp = leftUp]
    /\ UNCHANGED <<chip, shown>>

handleCall(earpiece, leftUp) ==
    /\ lights' = [lights EXCEPT !.callEarpiece = earpiece, !.callLeftUp = leftUp]
    /\ Update

Next ==
    \/ \E state \in BOOLEAN : handleCapsLock(state)
    \/ \E tech \in Technology, state \in BOOLEAN : handleConnectivity(tech, state)
    \/ handleClearBlock
    \/ handlePushBlock
    \/ \E step \in Steps : handleSetBlockRGB(step)
    \/ \E on \in BOOLEAN : handleTorch(on)
    \/ \E earpiece, leftUp \in BOOLEAN : handleCall(earpiece, leftUp)

Spec == Init /\ [][Next]_vars

-----------------------------------------------------------------------------
(* Properties *)

Chips ==
    [enabled : BOOLEAN, running : BOOLEAN, imax : [1 .. 5 -> Word],
     sram : [Address -> Word], red : BOOLEAN, green : BOOLEAN]

\* The fields keep their types, and every register of the chip its width: a sum
\* of opcode, channel and value, or of four nibbles, never carries out of it.
TypeOK ==
    /\ lights \in Lights
    /\ chip \in Chips
    /\ shown \subseteq Lights /\ \A r, s \in shown : r = s

\* Whatever was sent, in whatever order, if the steps and the 19 words beside them
\* fit the SRAM, a chip that Update() has programmed runs a closed loop and waits
\* in it: it never runs off the end of the program into words of an older one.
\* What WriteSramProgAW9120 does with more is DocumentedCapacity's subject
\* (LightState.cpp:178-183, 286).
ChipLoops ==
    shown # {} => chip.enabled /\ chip.running /\ RunsForEver(chip.sram)

\* README.md:34 gives a program of the SRAM's words less one, about 8 of them
\* used by the daemon: what is left takes that many steps of an animation.
DocumentedCapacity ==
    \A s \in shown :
        Len(s.steps) <= SRAM_WORDS - 1 - 8 => RunsForEver(chip.sram)

Torch(s) == \E i \in DOMAIN s.steps : s.steps[i].led = 31

On(condition, level) == IF condition THEN level ELSE 0

\* The levels the connectivity LED should be seen at: steady while an animation
\* plays or a call is on, otherwise one colour after the other.
StatusLED(s) ==
    LET conn == s.connectivity
        blink(tech, level) ==
            {level : t \in {tech} \cap {t \in Technology : conn[t]}}
            \cup {0 : t \in {t \in Technology \ {tech} : conn[t]}}
            \cup {0 : t \in {tech} \cap {t \in Technology : ~ conn[t]}}
        steady(r, g, b) == [red |-> {r}, green |-> {g}, blue |-> {b}]
    IN  IF s.callEarpiece /\ Torch(s) THEN steady(255, 255, 255)
        ELSE IF s.callEarpiece
             THEN steady(On(s.callLeftUp, 160), On(~ s.callLeftUp, 80), 0)
        ELSE IF ~ delaySet(s.steps)
             THEN [red   |-> blink("cellular", 160),
                   green |-> blink("wifi", 80),
                   blue  |-> blink("bluetooth", 255)]
        ELSE IF Torch(s) THEN steady(255, 255, 255)
        ELSE steady(On(conn["cellular"], 160), On(conn["wifi"], 80),
                    On(conn["bluetooth"], IF conn["wifi"] THEN 192 ELSE 255))

\* The indicators show the state the last Update() read, whatever block
\* animation runs beside them: the connectivity LED and the caps lock LED on the
\* chip, and the two class LEDs of a call.
IndicatorsFaithful ==
    \A s \in shown :
        /\ Visible(chip.sram, 15) = StatusLED(s).red
        /\ Visible(chip.sram, 16) = StatusLED(s).green
        /\ Visible(chip.sram, 17) = StatusLED(s).blue
        /\ Visible(chip.sram, 18) = {IF Torch(s) THEN 255 ELSE On(s.capsLock, 160)}
        /\ Visible(chip.sram, 19) = {On(Torch(s), 255)}
        /\ s.callEarpiece => chip.red # chip.green /\ chip.green = s.callLeftUp
        /\ ~ s.callEarpiece => ~ chip.red /\ ~ chip.green

\* The channel each block LED's red component is wired to.
WiredTo == <<0, 12, 3, 6, 9>>

StepLevel(step) ==
    CASE step.type = BlockStepSetPWM -> step.value
      [] step.type = BlockStepFadeIn -> 255
      [] step.type = BLockStepFadeOut -> 0

\* What block LED led's colour component shows while steps wait at index i, in
\* the words of README.md:22-34: the step that set it last, going round.
BlockLevel(steps, led, colour, i) ==
    LET sets(lo, hi) ==
            {k \in lo .. hi :
                /\ steps[k].type # BlockStepDelay
                /\ \/ steps[k].led = 31
                   \/ /\ steps[k].led = led
                      /\ \/ steps[k].colour = colour
                         \/ colour = 0 /\ steps[k].colour \notin 1 .. 2}
        before == sets(1, i)
        after  == sets(i + 1, Len(steps))
    IN  IF before # {} THEN StepLevel(steps[LatestIn(before)])
        ELSE IF after # {} THEN StepLevel(steps[LatestIn(after)])
        ELSE 0

\* Each of the five block LEDs shows the animation's frames and nothing else:
\* the indicators' own words never reach a block LED, and the words of one block
\* LED never reach another.
AnimationFaithful ==
    \A s \in shown, led \in 1 .. 5, colour \in 0 .. 2 :
        Visible(chip.sram, WiredTo[led] + colour) =
            IF delaySet(s.steps)
            THEN {BlockLevel(s.steps, led, colour, i) :
                    i \in {k \in DOMAIN s.steps : s.steps[k].type = BlockStepDelay}}
            ELSE {BlockLevel(s.steps, led, colour, Len(s.steps))}

\* No handler forgets its Update(): all that can differ between what is known
\* and what is shown is the animation being edited (Set and Clear before Push).
OnlyStepsPending ==
    \A s \in shown : [s EXCEPT !.steps = lights.steps] = lights

\* LED led's current limit, as the chip reads its IMAX registers.
LimitOf(imax, led) == (imax[(led + 3) \div 4] \div 16 ^ (led % 4)) % 16

\* A torch lights every LED at the highest current, also when it is shown again
\* by another handler's Update(), and no LED's limit spills into another's.
TorchAtFullCurrent ==
    \A s \in shown, led \in 1 .. 20 :
        /\ LimitOf(chip.imax, led) = s.powerLevels
        /\ Torch(s) => LimitOf(chip.imax, led) = POWER_LEVEL_20b111s

=============================================================================
