----------------------------- MODULE LEDsProofs -----------------------------
(***************************************************************************)
(* What holds of LightState, and of LEDs above it, for every SRAM size,    *)
(* every set of steps and calls and every bound on their number.           *)
(*                                                                         *)
(* LightState: the invariant ties the chip to the fields the last Update() *)
(* read, and what is then to be shown of a reachable chip is a fact about  *)
(* Updated(s), that is about the program made from s.  LEDs: what is       *)
(* queued has been verified, so that each step is a step of LightState,    *)
(* and the queue leads from the fields as they are to those the calls ask  *)
(* for.                                                                    *)
(***************************************************************************)
EXTENDS LEDs, LightProgramProofs

-----------------------------------------------------------------------------
(* LightState: its invariant *)

\* A torch is among the steps only while the current is the torch's.
TorchHeld(s) == Torch(s) => s.powerLevels = POWER_LEVEL_20b111s

Held(s) == LightsOK(s) /\ Len(s.steps) <= MAX_STEPS /\ TorchHeld(s)

\* The chip holds what Updated makes of the fields last read, and those differ
\* from the present ones in the steps alone.
ChipFollows ==
    \A s \in shown :
        /\ Held(s)
        /\ chip = Updated(s)
        /\ [s EXCEPT !.steps = lights.steps] = lights

IInv == TypeOK /\ Held(lights) /\ ChipFollows

-----------------------------------------------------------------------------
(* The fields each handler leaves *)

LEMMA HeldConstructed == Held(Constructed)
<1>1. << >> \in Seq(BlockAnimStep) /\ Len(<< >>) = 0
    BY EmptySeq
<1>2. Constructed \in Lights
    BY <1>1 DEF Constructed, Lights
<1>3. Constructed.steps = << >> /\ DOMAIN Constructed.steps = {}
    BY DEF Constructed
<1> QED BY <1>1, <1>2, <1>3, StepsAssumption DEF Held, LightsOK, TorchHeld, Torch

LEMMA HeldSame ==
    ASSUME NEW s, Held(s), NEW t \in Lights, t.steps = s.steps,
           t.powerLevels = s.powerLevels
    PROVE  Held(t)
BY DEF Held, LightsOK, TorchHeld, Torch

LEMMA HeldTorch ==
    ASSUME NEW on \in BOOLEAN, NEW t \in Lights, t.steps = When(on, <<TorchStep>>),
           on => t.powerLevels = POWER_LEVEL_20b111s
    PROVE  Held(t)
<1>1. CASE on
  <2>1. t.steps = <<TorchStep>>
    BY <1>1 DEF When
  <2>2. Len(t.steps) = 1 /\ DOMAIN t.steps = {1} /\ t.steps[1] = TorchStep
    BY <2>1
  <2>3. \A i \in DOMAIN t.steps : StepOK(t.steps[i])
    BY <2>2 DEF StepOK
  <2>4. \A n \in Nat \ {0} : 1 <= n
    OBVIOUS
  <2>5. Len(t.steps) <= MAX_STEPS
    BY <2>2, <2>4, StepsAssumption
  <2> QED BY <1>1, <2>3, <2>5 DEF Held, LightsOK, TorchHeld
<1>2. CASE ~ on
  <2>1. t.steps = << >>
    BY <1>2 DEF When
  <2>2. Len(t.steps) = 0 /\ DOMAIN t.steps = {}
    BY <2>1
  <2> QED BY <2>2, StepsAssumption DEF Held, LightsOK, TorchHeld, Torch
<1> QED BY <1>1, <1>2

LEMMA TorchSteps ==
    ASSUME NEW on \in BOOLEAN
    PROVE  When(on, <<TorchStep>>) \in Seq(BlockAnimStep)
<1>1. TorchStep \in BlockAnimStep
  <2>1. 31 \in Nat /\ 0 \in Nat /\ 0 \in 0 .. 3
    OBVIOUS
  <2>2. 255 \in 0 .. 1023
    OBVIOUS
  <2> QED BY <2>1, <2>2 DEF TorchStep, BlockAnimStep, BlockStepSetPWM
<1>2. <<TorchStep>> \in Seq(BlockAnimStep)
    BY <1>1
<1> QED BY <1>2, EmptySeq DEF When

LEMMA ChipOfUpdate ==
    ASSUME NEW s, LightsOK(s)
    PROVE  Updated(s) \in Chips
<1>1. Load(Program(s)) \in [Address -> Word]
    BY ProgramWords
<1>2. Imax(s.powerLevels) \in [1 .. 5 -> Word]
    BY ImaxWords DEF LightsOK, Lights
<1>3. s.callEarpiece \in BOOLEAN /\ s.callLeftUp \in BOOLEAN
    BY DEF LightsOK, Lights
<1> QED BY <1>1, <1>2, <1>3 DEF Updated, Chips

\* A handler that ends in Update() re-establishes the invariant whatever it was.
LEMMA UpdateEstablishes ==
    ASSUME Held(lights)', Update
    PROVE  IInv'
<1>1. chip' = Updated(lights') /\ shown' = {lights'} /\ lights' \in Lights
    BY DEF Update, Held, LightsOK
<1>2. chip' \in Chips
    BY <1>1, ChipOfUpdate DEF Held
<1>3. [lights' EXCEPT !.steps = lights'.steps] = lights'
    BY <1>1 DEF Lights
<1>4. TypeOK'
    BY <1>1, <1>2 DEF TypeOK
<1>5. ChipFollows'
    BY <1>1, <1>3 DEF ChipFollows
<1> QED BY <1>4, <1>5 DEF IInv

\* A handler that only edits the steps leaves what is shown as it was.
LEMMA EditPreserves ==
    ASSUME IInv, NEW steps \in Seq(BlockAnimStep),
           lights' = [lights EXCEPT !.steps = steps],
           UNCHANGED <<chip, shown>>, Held(lights)'
    PROVE  IInv'
<1>1. lights \in Lights /\ lights' \in Lights /\ lights'.steps = steps
    BY DEF IInv, TypeOK, Lights
<1>2. TypeOK'
    BY <1>1 DEF IInv, TypeOK
<1>3. ASSUME NEW s \in shown
      PROVE  [s EXCEPT !.steps = lights'.steps] = lights'
  <2>1. s \in Lights /\ [s EXCEPT !.steps = lights.steps] = lights
    BY DEF IInv, ChipFollows, Held, LightsOK
  <2>2. [s EXCEPT !.steps = steps] = [lights EXCEPT !.steps = steps]
    BY <1>1, <2>1 DEF Lights
  <2> QED BY <1>1, <2>2
<1>4. ChipFollows'
    BY <1>3 DEF IInv, ChipFollows, Held
<1> QED BY <1>2, <1>4 DEF IInv

-----------------------------------------------------------------------------
(* The invariant *)

LEMMA InitInvariant == Init => IInv
<1> SUFFICES ASSUME Init PROVE IInv
    OBVIOUS
<1>1. Held(lights) /\ lights \in Lights
    BY HeldConstructed DEF Init, Held, LightsOK
<1>2. Load(<< >>) \in [Address -> Word]
  <2>1. ASSUME NEW a \in Address PROVE ~ (a < Len(<< >>))
    BY SramAssumption, EmptySeq DEF Address
  <2>2. LeftoverWord \in Word
    BY DEF LeftoverWord, Word
  <2> QED BY <2>1, <2>2 DEF Load
<1>3. Imax(POWER_LEVEL_20b001s) \in [1 .. 5 -> Word]
    BY ImaxWords
<1>4. chip \in Chips
    BY <1>2, <1>3 DEF Init, FoundChips, Chips
<1>5. shown = {}
    BY DEF Init
<1> QED BY <1>1, <1>4, <1>5 DEF IInv, TypeOK, ChipFollows

LEMMA StepInvariant == IInv /\ [Next]_vars => IInv'
<1> SUFFICES ASSUME IInv, [Next]_vars PROVE IInv'
    OBVIOUS
<1>0. Held(lights) /\ lights \in Lights
    BY DEF IInv, TypeOK
<1>1. ASSUME NEW state \in BOOLEAN, handleCapsLock(state) PROVE IInv'
  <2>1. /\ lights' \in Lights /\ lights'.steps = lights.steps
        /\ lights'.powerLevels = lights.powerLevels
    BY <1>0, <1>1 DEF handleCapsLock, Lights
  <2>2. Held(lights')
    BY <1>0, <2>1, HeldSame
  <2> QED BY <1>1, <2>2, UpdateEstablishes DEF handleCapsLock, Held
<1>2. ASSUME NEW tech \in Technology, NEW state \in BOOLEAN,
             handleConnectivity(tech, state)
      PROVE  IInv'
  <2>1. /\ lights' \in Lights /\ lights'.steps = lights.steps
        /\ lights'.powerLevels = lights.powerLevels
    BY <1>0, <1>2 DEF handleConnectivity, Lights
  <2>2. Held(lights')
    BY <1>0, <2>1, HeldSame
  <2> QED BY <1>2, <2>2, UpdateEstablishes DEF handleConnectivity, Held
<1>3. CASE handleClearBlock
  <2>1. << >> \in Seq(BlockAnimStep) /\ Len(<< >>) = 0 /\ DOMAIN << >> = {}
    BY EmptySeq
  <2>2. lights' \in Lights /\ lights'.steps = << >>
    BY <1>0, <1>3, <2>1 DEF handleClearBlock, Lights
  <2>3. Held(lights')
    BY <2>1, <2>2, StepsAssumption DEF Held, LightsOK, TorchHeld, Torch
  <2> QED BY <1>3, <2>1, <2>3, EditPreserves DEF handleClearBlock, Held
<1>4. CASE handlePushBlock
    BY <1>0, <1>4, UpdateEstablishes DEF handlePushBlock, Held
<1>5. ASSUME NEW step \in Steps, handleSetBlockRGB(step) PROVE IInv'
  <2> DEFINE steps == Append(lights.steps, step)
  <2>1. step \in BlockAnimStep /\ StepOK(step)
    BY StepsAssumption DEF IsBlockStep, StepOK
  <2>2. lights.steps \in Seq(BlockAnimStep)
    BY <1>0 DEF Lights
  <2>3. /\ steps \in Seq(BlockAnimStep) /\ Len(steps) = Len(lights.steps) + 1
        /\ \A i \in 1 .. Len(lights.steps) : steps[i] = lights.steps[i]
        /\ steps[Len(lights.steps) + 1] = step
    BY <2>1, <2>2, AppendProperties
  <2>4. /\ Len(lights.steps) \in Nat /\ DOMAIN lights.steps = 1 .. Len(lights.steps)
        /\ DOMAIN steps = 1 .. Len(lights.steps) + 1
    BY <2>2, <2>3, LenProperties
  <2>5. lights' = [lights EXCEPT !.steps = steps] /\ UNCHANGED <<chip, shown>>
        /\ Len(lights.steps) < MAX_STEPS
    BY <1>5 DEF handleSetBlockRGB
  <2> HIDE DEF steps
  <2>6. /\ lights' \in Lights /\ lights'.steps = steps
        /\ lights'.powerLevels = lights.powerLevels
    BY <1>0, <2>3, <2>5 DEF Lights
  <2>7. \A i \in DOMAIN steps : StepOK(steps[i])
    BY <1>0, <2>1, <2>3, <2>4 DEF Held, LightsOK
  <2>8. TorchHeld(lights')
    <3>1. step.led # 31
      BY StepsAssumption DEF IsBlockStep
    <3>2. Torch(lights') => Torch(lights)
      BY <2>3, <2>4, <2>6, <3>1 DEF Torch
    <3> QED BY <1>0, <2>6, <3>2 DEF Held, TorchHeld
  <2>9. Held(lights')
    BY <2>3, <2>4, <2>5, <2>6, <2>7, <2>8, StepsAssumption DEF Held, LightsOK
  <2> QED BY <2>3, <2>5, <2>9, EditPreserves DEF Held
<1>6. ASSUME NEW on \in BOOLEAN, handleTorch(on) PROVE IInv'
  <2>1. /\ lights' \in Lights /\ lights'.steps = When(on, <<TorchStep>>)
        /\ on => lights'.powerLevels = POWER_LEVEL_20b111s
    BY <1>0, <1>6, TorchSteps DEF handleTorch, Lights, POWER_LEVEL_20b001s, POWER_LEVEL_20b111s
  <2>2. Held(lights')
    BY <2>1, HeldTorch
  <2> QED BY <1>6, <2>2, UpdateEstablishes DEF handleTorch, Held
<1>7. ASSUME NEW earpiece \in BOOLEAN, NEW leftUp \in BOOLEAN,
             handleCall(earpiece, leftUp)
      PROVE  IInv'
  <2>1. /\ lights' \in Lights /\ lights'.steps = lights.steps
        /\ lights'.powerLevels = lights.powerLevels
    BY <1>0, <1>7 DEF handleCall, Lights
  <2>2. Held(lights')
    BY <1>0, <2>1, HeldSame
  <2> QED BY <1>7, <2>2, UpdateEstablishes DEF handleCall, Held
<1>8. CASE UNCHANGED vars
    BY <1>8 DEF vars, IInv, TypeOK, ChipFollows
<1> QED BY <1>1, <1>2, <1>3, <1>4, <1>5, <1>6, <1>7, <1>8 DEF Next

\* In every reachable state the fields hold verified steps only, the chip holds
\* what Update() makes of the fields last read, and those differ from the present
\* ones in the animation alone (LightState.cpp:20-79).
THEOREM Invariance == Spec => []IInv
<1> QED BY InitInvariant, StepInvariant, PTL DEF Spec

-----------------------------------------------------------------------------
(* What follows from it *)

\* Type correctness: in particular no register of the chip is ever given more
\* than its sixteen bits, whatever steps are sent.
THEOREM TypeCorrect == Spec => []TypeOK
<1>1. IInv => TypeOK
    BY DEF IInv
<1> QED BY <1>1, Invariance, PTL

\* No handler forgets its Update(), in any sequence of them.
THEOREM NothingForgotten == Spec => []OnlyStepsPending
<1>1. IInv => OnlyStepsPending
    BY DEF IInv, ChipFollows, OnlyStepsPending
<1> QED BY <1>1, Invariance, PTL

\* If the animations are kept OVERHEAD words shorter than the SRAM (the code
\* does not do so itself), the chip is never left running off its program.
THEOREM NeverRunsOff ==
    ASSUME MAX_STEPS + OVERHEAD <= SRAM_WORDS
    PROVE  Spec => []ChipLoops
<1>1. IInv => ChipLoops
  <2> SUFFICES ASSUME IInv, NEW s \in shown
               PROVE  chip.enabled /\ chip.running /\ RunsForEver(chip.sram)
    BY DEF ChipLoops
  <2>1. LightsOK(s) /\ Len(s.steps) <= MAX_STEPS /\ chip = Updated(s)
    BY DEF IInv, ChipFollows, Held
  <2>2. Len(s.steps) \in Nat
    BY <2>1, LenProperties DEF LightsOK, Lights
  <2>3. Len(s.steps) + OVERHEAD <= SRAM_WORDS
    BY <2>1, <2>2, StepsAssumption, SramAssumption DEF OVERHEAD
  <2>4. RunsForEver(Load(Program(s)))
    BY <2>1, <2>3, ProgramLoops
  <2> QED BY <2>1, <2>4 DEF Updated
<1> QED BY <1>1, Invariance, PTL

\* Each LED's nibble of its register, as the chip reads it, is the level it was given.
LEMMA LimitGiven ==
    ASSUME NEW level \in {POWER_LEVEL_20b001s, POWER_LEVEL_20b111s}, NEW led \in 1 .. 20
    PROVE  LimitOf(Imax(level), led) = level
<1>1. level \in Nat /\ level < 16
  BY DEF POWER_LEVEL_20b001s, POWER_LEVEL_20b111s
<1> DEFINE r == (led + 3) \div 4
           n == led % 4
<1>2. r \in 1 .. 5 /\ n \in 0 .. 3
  OBVIOUS
<1>3. Imax(level)[r] = level + level * 4096 + level * 256 + level * 16
  <2>1. (4 * r) % 4 = 0 /\ (4 * r - 1) % 4 = 3
        /\ (4 * r - 2) % 4 = 2 /\ (4 * r - 3) % 4 = 1
    BY <1>2
  <2>2. /\ maxLED(4 * r, level) = level /\ maxLED(4 * r - 1, level) = level * 4096
        /\ maxLED(4 * r - 2, level) = level * 256 /\ maxLED(4 * r - 3, level) = level * 16
    BY <1>1, <2>1 DEF maxLED
  <2> HIDE DEF r
  <2> QED BY <1>2, <2>2 DEF Imax
<1>4. 16 ^ 0 = 1 /\ 16 ^ 1 = 16 /\ 16 ^ 2 = 256 /\ 16 ^ 3 = 4096
  OBVIOUS
<1>5. LimitOf(Imax(level), led) = (Imax(level)[r] \div 16 ^ n) % 16
  BY DEF LimitOf
<1> HIDE DEF r, n
<1>6. (Imax(level)[r] \div 16 ^ n) % 16 = level
  <2>1. CASE n = 0
    BY <1>1, <1>3, <1>4, <2>1
  <2>2. CASE n = 1
    BY <1>1, <1>3, <1>4, <2>2
  <2>3. CASE n = 2
    BY <1>1, <1>3, <1>4, <2>3
  <2>4. CASE n = 3
    BY <1>1, <1>3, <1>4, <2>4
  <2> QED BY <1>2, <2>1, <2>2, <2>3, <2>4
<1> QED BY <1>5, <1>6

\* Whatever handlers show the lights again, a torch that is on is at the highest
\* current, and each LED has the limit it was given (LightState.cpp:64-72, 147-160).
THEOREM TorchIsBright == Spec => []TorchAtFullCurrent
<1>1. IInv => TorchAtFullCurrent
  <2> SUFFICES ASSUME IInv, NEW s \in shown, NEW led \in 1 .. 20
               PROVE  /\ LimitOf(chip.imax, led) = s.powerLevels
                      /\ Torch(s) => LimitOf(chip.imax, led) = POWER_LEVEL_20b111s
    BY DEF TorchAtFullCurrent
  <2>1. /\ chip = Updated(s) /\ TorchHeld(s)
        /\ s.powerLevels \in {POWER_LEVEL_20b001s, POWER_LEVEL_20b111s}
    BY DEF IInv, ChipFollows, Held, LightsOK, Lights
  <2>2. chip.imax = Imax(s.powerLevels)
    BY <2>1 DEF Updated
  <2> QED BY <2>1, <2>2, LimitGiven DEF TorchHeld
<1> QED BY <1>1, Invariance, PTL

-----------------------------------------------------------------------------
(* LightState: what is seen *)

\* Whether step sets colour component colour of block LED led: its own LED's
\* steps do, a colour out of 0..2 counting as 0, and the torch's.
SetsLED(step, led, colour) ==
    /\ step.type # BlockStepDelay
    /\ \/ step.led = 31
       \/ /\ step.led = led
          /\ \/ step.colour = colour
             \/ colour = 0 /\ step.colour \notin 1 .. 2

LEMMA CodeIsWiring ==
    ASSUME NEW step, IsBlockStep(step), NEW led \in 1 .. 5, NEW colour \in 0 .. 2
    PROVE  AWLEDCodeForStep(step) = (WiredTo[led] + colour) * 256
             <=> /\ step.led = led
                 /\ \/ step.colour = colour
                    \/ colour = 0 /\ step.colour \notin 1 .. 2
<1> DEFINE l == step.led
           k == step.colour
           c == IF k \in 1 .. 2 THEN k ELSE 0
<1>1. l \in 1 .. 5 /\ k \in Nat
  BY DEF IsBlockStep, BlockAnimStep
<1>2. \A n \in 1 .. 5 : WiredTo[n] = IF n = 2 THEN 12 ELSE IF n = 1 THEN 0 ELSE (n - 2) * 3
  BY DEF WiredTo
<1>3. AWLEDCodeForStep(step) = (WiredTo[l] + c) * 256
  <2>1. AWLEDCodeForStep(step)
          = (IF l = 2 THEN 3072
             ELSE IF l > 2 /\ l < 6 THEN (l - 2) * 3 * 256
             ELSE IF l = 31 /\ k = 0 THEN 7936 ELSE 0)
            + (CASE k = 2 -> 512 [] k = 1 -> 256 [] OTHER -> 0)
    BY DEF AWLEDCodeForStep, CH_ALL_LEDS
  <2>2. (CASE k = 2 -> 512 [] k = 1 -> 256 [] OTHER -> 0) = c * 256
    BY <1>1
  <2> HIDE DEF l, k, c
  <2>3. c \in 0 .. 2
    BY <1>1 DEF c
  <2> QED BY <1>1, <1>2, <2>1, <2>2, <2>3
<1>4. c \in 0 .. 2 /\ (c = colour <=> k = colour \/ (colour = 0 /\ k \notin 1 .. 2))
  BY <1>1
<1> HIDE DEF l, k, c
<1>5. WiredTo[l] + c = WiredTo[led] + colour <=> l = led /\ c = colour
  BY <1>1, <1>2, <1>4
<1>6. WiredTo[l] \in Nat /\ WiredTo[led] \in Nat
  BY <1>1, <1>2
<1>7. (WiredTo[l] + c) * 256 = (WiredTo[led] + colour) * 256
        <=> WiredTo[l] + c = WiredTo[led] + colour
  BY <1>4, <1>6
<1> QED BY <1>3, <1>4, <1>5, <1>7 DEF l, k

\* The word of a step drives just the channels the step is about, to the level
\* the step asks for.
LEMMA StepDrives ==
    ASSUME NEW step, StepOK(step)
    PROVE  /\ \A led \in 1 .. 5, colour \in 0 .. 2 :
                Drives(StepWord(step), WiredTo[led] + colour) <=> SetsLED(step, led, colour)
           /\ \A ch \in 15 .. 19 : Drives(StepWord(step), ch) <=> step.led = 31
           /\ step.type # BlockStepDelay => LevelOf(StepWord(step)) = StepLevel(step)
           /\ step.led = 31 => step.type # BlockStepDelay /\ LevelOf(StepWord(step)) = 255
<1> DEFINE w == StepWord(step)
<1>1. CASE step = TorchStep
  <2>1. step.led = 31 /\ step.type = BlockStepSetPWM /\ step.value = 255
    BY <1>1 DEF TorchStep
  <2>2. \A ch : Drives(w, ch)
    BY <1>1, TorchWord DEF Drives
  <2>3. LevelOf(w) = 255
    BY <1>1, TorchWord
  <2>4. StepLevel(step) = 255 /\ step.type # BlockStepDelay
    BY <2>1 DEF StepLevel, BlockStepSetPWM, BlockStepFadeIn, BLockStepFadeOut, BlockStepDelay
  <2>5. \A led \in 1 .. 5, colour \in 0 .. 2 : SetsLED(step, led, colour)
    BY <2>1, <2>4 DEF SetsLED
  <2> HIDE DEF w
  <2> QED BY <2>1, <2>2, <2>3, <2>4, <2>5 DEF w
<1>2. CASE IsBlockStep(step)
  <2>1. step.led \in 1 .. 5 /\ step.led # 31 /\ step.type \in 0 .. 3
    BY <1>2 DEF IsBlockStep, BlockAnimStep
  <2>2. CASE step.type = BlockStepDelay
    <3>1. IsWait(w) /\ w \in Nat
      BY <1>2, <2>2, StepsStayInTheBlock DEF Instruction
    <3>2. ~ IsLevel(w)
      BY <3>1, LevelsAreNoWaits
    <3>3. \A ch : ~ Drives(w, ch)
      BY <3>2 DEF Drives
    <3> HIDE DEF w
    <3> QED BY <2>1, <2>2, <3>3 DEF w, SetsLED
  <2>3. CASE step.type # BlockStepDelay
    <3>1. /\ IsLevel(w) /\ ChannelOf(w) \in 0 .. 14
          /\ AWLEDCodeForStep(step) = ChannelOf(w) * 256
      BY <1>2, <2>3, StepsStayInTheBlock
    <3>2. LevelOf(w) = StepLevel(step)
      BY <1>2, <2>1, <2>3, StepsStayInTheBlock
         DEF StepLevel, BlockStepDelay, BlockStepSetPWM, BlockStepFadeIn, BLockStepFadeOut
    <3> HIDE DEF w
    <3>3. \A ch \in 15 .. 19 : ~ Drives(w, ch)
      BY <3>1 DEF Drives
    <3>4. ASSUME NEW led \in 1 .. 5, NEW colour \in 0 .. 2
          PROVE  Drives(w, WiredTo[led] + colour) <=> SetsLED(step, led, colour)
      <4>1. WiredTo[led] + colour \in 0 .. 14
        <5>1. \A n \in 1 .. 5 : WiredTo[n] \in 0 .. 12
          BY DEF WiredTo
        <5> QED BY <5>1
      <4>2. Drives(w, WiredTo[led] + colour) <=> ChannelOf(w) = WiredTo[led] + colour
        BY <3>1, <4>1 DEF Drives
      <4>3. AWLEDCodeForStep(step) = (WiredTo[led] + colour) * 256
              <=> ChannelOf(w) = WiredTo[led] + colour
        BY <3>1, <4>1
      <4> QED BY <1>2, <2>1, <2>3, <4>2, <4>3, CodeIsWiring DEF SetsLED
    <3> QED BY <2>1, <2>3, <3>2, <3>3, <3>4 DEF w
  <2> QED BY <2>2, <2>3
<1> QED BY <1>1, <1>2 DEF StepOK

LEMMA StepAt ==
    ASSUME NEW s, LightsOK(s), NEW i \in 1 .. Len(s.steps)
    PROVE  StepOK(s.steps[i]) /\ StepWords(s.steps)[i] = StepWord(s.steps[i])
<1>1. DOMAIN s.steps = 1 .. Len(s.steps)
  BY LenProperties DEF LightsOK, Lights
<1> QED BY <1>1 DEF LightsOK, StepWords

\* A step of a block LED colour is the last that set it, going round.
LEMMA BlockLevels ==
    ASSUME NEW s, LightsOK(s), NEW led \in 1 .. 5, NEW colour \in 0 .. 2,
           NEW i \in 0 .. Len(s.steps)
    PROVE  LET words == StepWords(s.steps)
               ch == WiredTo[led] + colour
           IN  LevelAt(words, i, ch, After(words, ch, 0)) = BlockLevel(s.steps, led, colour, i)
<1> DEFINE words == StepWords(s.steps)
           ch == WiredTo[led] + colour
           n == Len(s.steps)
           sets(lo, hi) == {k \in lo .. hi : SetsLED(s.steps[k], led, colour)}
           before == sets(1, i)
           after == sets(i + 1, n)
           round == sets(1, n)
<1>1. BlockLevel(s.steps, led, colour, i)
        = IF before # {} THEN StepLevel(s.steps[LatestIn(before)])
          ELSE IF after # {} THEN StepLevel(s.steps[LatestIn(after)])
          ELSE 0
  BY DEF BlockLevel, SetsLED
<1>2. n \in Nat /\ Len(words) = n
  BY StepWordsShort, LenProperties DEF LightsOK, Lights
<1>3. \A k \in 1 .. n : /\ Drives(words[k], ch) <=> SetsLED(s.steps[k], led, colour)
                        /\ SetsLED(s.steps[k], led, colour)
                             => LevelOf(words[k]) = StepLevel(s.steps[k])
  <2> SUFFICES ASSUME NEW k \in 1 .. Len(s.steps)
               PROVE  /\ Drives(words[k], ch) <=> SetsLED(s.steps[k], led, colour)
                      /\ SetsLED(s.steps[k], led, colour)
                           => LevelOf(words[k]) = StepLevel(s.steps[k])
    OBVIOUS
  <2> DEFINE step == s.steps[k]
  <2>1. StepOK(step) /\ words[k] = StepWord(step)
    BY StepAt
  <2> HIDE DEF step, words
  <2>2. SetsLED(step, led, colour) => step.type # BlockStepDelay
    BY DEF SetsLED
  <2>3. /\ Drives(StepWord(step), ch) <=> SetsLED(step, led, colour)
        /\ step.type # BlockStepDelay => LevelOf(StepWord(step)) = StepLevel(step)
    BY <2>1, StepDrives
  <2> QED BY <2>1, <2>2, <2>3 DEF step
<1> HIDE DEF words, ch, n
<1>4. Driving(words, 1, i, ch) = before /\ Driving(words, 1, n, ch) = round
  <2>1. i \in 0 .. n
    BY DEF n
  <2> QED BY <1>2, <1>3, <2>1 DEF Driving
<1>5. CASE before # {}
  <2>1. LatestIn(before) \in before
    <3>1. i \in Nat
      BY <1>2 DEF n
    <3> HIDE DEF before
    <3> QED BY <1>4, <1>5, <3>1, DrivenOnce
  <2>2. LatestIn(before) \in 1 .. n /\ SetsLED(s.steps[LatestIn(before)], led, colour)
    BY <1>2, <2>1 DEF n
  <2> HIDE DEF before
  <2>3. LevelAt(words, i, ch, After(words, ch, 0)) = LevelOf(words[LatestIn(before)])
    BY <1>4, <1>5 DEF LevelAt
  <2>4. LevelAt(words, i, ch, After(words, ch, 0)) = StepLevel(s.steps[LatestIn(before)])
    BY <1>3, <2>2, <2>3
  <2> QED BY <1>1, <1>5, <2>4 DEF words, ch
<1>6. CASE before = {}
  <2>1. round = after
    <3>1. i \in Nat /\ i <= n /\ n \in Nat
      BY <1>2 DEF n
    <3>2. \A k \in 1 .. i : ~ SetsLED(s.steps[k], led, colour)
      BY <1>6
    <3>3. \A k : k \in 1 .. n <=> k \in 1 .. i \/ k \in i + 1 .. n
      BY <3>1
    <3> QED BY <3>2, <3>3
  <2>2. LevelAt(words, i, ch, After(words, ch, 0)) = After(words, ch, 0)
    BY <1>4, <1>6 DEF LevelAt
  <2>3. CASE round # {}
    <3>1. LatestIn(round) \in round
      BY <1>2, <1>4, <2>3, DrivenOnce
    <3>2. LatestIn(round) \in 1 .. n /\ SetsLED(s.steps[LatestIn(round)], led, colour)
      BY <3>1
    <3> HIDE DEF round, before, after
    <3>3. After(words, ch, 0) = LevelOf(words[LatestIn(round)])
      BY <1>2, <1>4, <2>3 DEF LevelAt, After
    <3>4. After(words, ch, 0) = StepLevel(s.steps[LatestIn(round)])
      BY <1>3, <3>2, <3>3
    <3> QED BY <1>1, <1>6, <2>1, <2>2, <2>3, <3>4 DEF words, ch
  <2>4. CASE round = {}
    <3> HIDE DEF round, before, after
    <3>1. After(words, ch, 0) = 0
      BY <1>2, <1>4, <2>4 DEF LevelAt, After
    <3> QED BY <1>1, <1>6, <2>1, <2>2, <2>4, <3>1 DEF words, ch
  <2> QED BY <2>3, <2>4
<1> QED BY <1>5, <1>6

\* The indicators' channels are set by the torch's step alone.
LEMMA IndicatorLevels ==
    ASSUME NEW s, LightsOK(s), NEW ch \in 15 .. 19, NEW x, NEW i \in 0 .. Len(s.steps)
    PROVE  LET words == StepWords(s.steps)
           IN  /\ After(words, ch, x) = IF Torch(s) THEN 255 ELSE x
               /\ LevelAt(words, i, ch, After(words, ch, x)) = After(words, ch, x)
<1> DEFINE words == StepWords(s.steps)
           n == Len(s.steps)
<1>1. n \in Nat /\ Len(words) = n /\ DOMAIN s.steps = 1 .. n
  BY StepWordsShort, LenProperties DEF LightsOK, Lights
<1>2. \A k \in 1 .. n : /\ Drives(words[k], ch) <=> s.steps[k].led = 31
                        /\ s.steps[k].led = 31 => LevelOf(words[k]) = 255
  BY StepAt, StepDrives
<1>3. Torch(s) <=> \E k \in 1 .. n : s.steps[k].led = 31
  BY <1>1 DEF Torch
<1>4. i \in 0 .. n
  OBVIOUS
<1> HIDE DEF words, n
<1>5. ASSUME NEW j \in 0 .. n, NEW y, Driving(words, 1, j, ch) # {}
      PROVE  LevelAt(words, j, ch, y) = 255
  <2> DEFINE last == LatestIn(Driving(words, 1, j, ch))
  <2>1. last \in Driving(words, 1, j, ch)
    BY <1>5, DrivenOnce
  <2>2. LevelAt(words, j, ch, y) = LevelOf(words[last])
    BY <1>5 DEF LevelAt
  <2> HIDE DEF last
  <2>3. last \in 1 .. n /\ Drives(words[last], ch)
    BY <1>1, <2>1 DEF Driving
  <2> QED BY <1>2, <2>2, <2>3
<1>6. Torch(s) <=> Driving(words, 1, n, ch) # {}
  BY <1>2, <1>3 DEF Driving
<1>7. After(words, ch, x) = IF Torch(s) THEN 255 ELSE x
  <2>1. CASE Torch(s)
    <3>1. n \in 0 .. n
      BY <1>1
    <3> QED BY <1>1, <1>5, <1>6, <2>1, <3>1 DEF After
  <2>2. CASE ~ Torch(s)
    BY <1>1, <1>6, <2>2 DEF After, LevelAt
  <2> QED BY <2>1, <2>2
<1>8. LevelAt(words, i, ch, After(words, ch, x)) = After(words, ch, x)
  <2>1. CASE Driving(words, 1, i, ch) = {}
    BY <2>1 DEF LevelAt
  <2>2. CASE Driving(words, 1, i, ch) # {}
    <3>1. Driving(words, 1, n, ch) # {}
      BY <1>1, <1>4, <2>2 DEF Driving
    <3> QED BY <1>4, <1>5, <1>6, <1>7, <2>2, <3>1
  <2> QED BY <2>1, <2>2
<1> QED BY <1>7, <1>8 DEF words

LEMMA WaitsOfSteps ==
    ASSUME NEW s, LightsOK(s)
    PROVE  /\ Len(s.steps) \in Nat /\ Len(StepWords(s.steps)) = Len(s.steps)
           /\ Waits(StepWords(s.steps))
                = {k \in DOMAIN s.steps : s.steps[k].type = BlockStepDelay}
           /\ delaySet(s.steps) <=> Waits(StepWords(s.steps)) # {}
<1> DEFINE words == StepWords(s.steps)
           n == Len(s.steps)
<1>1. n \in Nat /\ Len(words) = n /\ DOMAIN s.steps = 1 .. n
  BY StepWordsShort, LenProperties DEF LightsOK, Lights
<1>2. \A k \in 1 .. n : IsWait(words[k]) <=> s.steps[k].type = BlockStepDelay
  BY StepAt, StepWaits
<1>3. delaySet(s.steps) <=> \E k \in 1 .. n : s.steps[k].type = BlockStepDelay
  BY DEF delaySet
<1> HIDE DEF words, n
<1>4. Waits(words) = {k \in 1 .. n : s.steps[k].type = BlockStepDelay}
  BY <1>1, <1>2 DEF Waits
<1> QED BY <1>1, <1>3, <1>4 DEF words, n

\* What a program shows on the indicators' channels.
LEMMA IndicatorsSeen ==
    ASSUME NEW s, LightsOK(s), Len(s.steps) + OVERHEAD <= SRAM_WORDS, NEW ch \in 15 .. 19
    PROVE  LET level == IF Torch(s) THEN 255 ELSE PreludeLevel(s, ch)
           IN  Visible(Load(Program(s)), ch)
                 = IF delaySet(s.steps) \/ s.callEarpiece \/ ch \in 18 .. 19 THEN {level}
                   ELSE FallbackSeen(s, ch, 0)
<1> DEFINE words == StepWords(s.steps)
           x == PreludeLevel(s, ch)
           level == IF Torch(s) THEN 255 ELSE x
           again == After(words, ch, After(FallbackWords(s), ch, level))
<1>1. ch \in Channel
  BY DEF Channel
<1>2. \A y : /\ After(words, ch, y) = IF Torch(s) THEN 255 ELSE y
             /\ \A i \in 0 .. Len(s.steps) :
                  LevelAt(words, i, ch, After(words, ch, y)) = After(words, ch, y)
  <2>1. 0 \in 0 .. Len(s.steps)
    BY WaitsOfSteps
  <2>2. ASSUME NEW y, NEW i \in 0 .. Len(s.steps)
        PROVE  /\ After(words, ch, y) = IF Torch(s) THEN 255 ELSE y
               /\ LevelAt(words, i, ch, After(words, ch, y)) = After(words, ch, y)
    BY IndicatorLevels
  <2> HIDE DEF words
  <2> QED BY <2>1, <2>2
<1>3. After(words, ch, x) = level
  BY <1>2
<1>4. Visible(Load(Program(s)), ch)
        = IF delaySet(s.steps) THEN Seen(words, ch, level) ELSE FallbackSeen(s, ch, again)
  BY <1>1, <1>3, LoadedShows DEF ProgramShows
<1>5. CASE delaySet(s.steps)
  <2>1. \A i \in Waits(words) : LevelAt(words, i, ch, level) = level
    <3>1. \A i \in Waits(words) : i \in 0 .. Len(s.steps)
      BY WaitsOfSteps DEF Waits
    <3> QED BY <1>2, <1>3, <3>1
  <2>2. Waits(words) # {}
    BY <1>5, WaitsOfSteps
  <2> HIDE DEF words, level
  <2>3. Seen(words, ch, level) = {level}
    BY <2>1, <2>2 DEF Seen
  <2> QED BY <1>4, <1>5, <2>3 DEF level
<1>6. CASE ~ delaySet(s.steps) /\ (s.callEarpiece \/ ch \in 18 .. 19)
  <2>1. After(FallbackWords(s), ch, level) = level
    <3>1. s.callEarpiece \/ ch \notin 15 .. 17
      BY <1>6
    <3> QED BY <1>1, <3>1, FallbackLevels
  <2>2. again = level
    BY <1>2, <2>1
  <2> HIDE DEF again, level
  <2>3. FallbackSeen(s, ch, level) = {level}
    BY <1>6 DEF FallbackSeen
  <2> QED BY <1>4, <1>6, <2>2, <2>3 DEF level
<1>7. CASE ~ delaySet(s.steps) /\ ~ s.callEarpiece /\ ch \notin 18 .. 19
  <2>1. ch = 15 \/ ch = 16 \/ ch = 17
    BY <1>7
  <2> HIDE DEF again
  <2>2. FallbackSeen(s, ch, again) = FallbackSeen(s, ch, 0)
    BY <1>7, <2>1 DEF FallbackSeen
  <2> QED BY <1>4, <1>7, <2>2
<1> QED BY <1>5, <1>6, <1>7

\* What AnimationFaithful wants to be seen of a colour of a block LED.
BlockShown(s, led, colour) ==
    IF delaySet(s.steps)
    THEN {BlockLevel(s.steps, led, colour, i) :
            i \in {k \in DOMAIN s.steps : s.steps[k].type = BlockStepDelay}}
    ELSE {BlockLevel(s.steps, led, colour, Len(s.steps))}

\* What a program shows on the block LEDs.
LEMMA BlockSeen ==
    ASSUME NEW s, LightsOK(s), Len(s.steps) + OVERHEAD <= SRAM_WORDS,
           NEW led \in 1 .. 5, NEW colour \in 0 .. 2
    PROVE  Visible(Load(Program(s)), WiredTo[led] + colour) = BlockShown(s, led, colour)
<1> DEFINE words == StepWords(s.steps)
           ch == WiredTo[led] + colour
           first == After(words, ch, 0)
<1>1. ch \in 0 .. 14
  <2>1. \A n \in 1 .. 5 : WiredTo[n] \in 0 .. 12
    BY DEF WiredTo
  <2>2. WiredTo[led] \in 0 .. 12
    BY <2>1
  <2> QED BY <2>2
<1>2. \A i \in 0 .. Len(s.steps) :
         LevelAt(words, i, ch, first) = BlockLevel(s.steps, led, colour, i)
  BY BlockLevels
<1> HIDE DEF ch
<1>3. ch \in Channel /\ ch # 15 /\ ch # 16 /\ ch # 17 /\ ch # 18 /\ ch \notin 15 .. 17
  BY <1>1 DEF Channel
<1>4. PreludeLevel(s, ch) = 0
  BY <1>3 DEF PreludeLevel
<1>5. After(FallbackWords(s), ch, first) = first
  BY <1>3, FallbackLevels
<1>6. \A y : FallbackSeen(s, ch, y) = {y}
  BY <1>3 DEF FallbackSeen
<1> HIDE DEF words
<1>7. Visible(Load(Program(s)), ch)
        = IF delaySet(s.steps) THEN Seen(words, ch, first) ELSE {After(words, ch, first)}
  BY <1>3, <1>4, <1>5, <1>6, LoadedShows DEF ProgramShows, words
<1>8. CASE delaySet(s.steps)
  <2>1. \A i \in Waits(words) : i \in 0 .. Len(s.steps)
    BY WaitsOfSteps DEF Waits, words
  <2> HIDE DEF first
  <2>2. Seen(words, ch, first) = {BlockLevel(s.steps, led, colour, i) : i \in Waits(words)}
    BY <1>2, <2>1 DEF Seen
  <2> QED BY <1>7, <1>8, <2>2, WaitsOfSteps DEF words, ch, BlockShown
<1>9. CASE ~ delaySet(s.steps)
  <2>1. Len(words) = Len(s.steps) /\ Len(s.steps) \in 0 .. Len(s.steps)
    BY WaitsOfSteps DEF words
  <2> HIDE DEF first
  <2>2. After(words, ch, first) = BlockLevel(s.steps, led, colour, Len(s.steps))
    BY <1>2, <2>1 DEF After
  <2> QED BY <1>7, <1>9, <2>2 DEF ch, BlockShown
<1> QED BY <1>8, <1>9

LEMMA ReadFits ==
    ASSUME MAX_STEPS + OVERHEAD <= SRAM_WORDS, IInv, NEW s \in shown
    PROVE  LightsOK(s) /\ chip = Updated(s) /\ Len(s.steps) + OVERHEAD <= SRAM_WORDS
<1>1. LightsOK(s) /\ Len(s.steps) <= MAX_STEPS /\ chip = Updated(s)
  BY DEF IInv, ChipFollows, Held
<1>2. Len(s.steps) \in Nat
  BY <1>1, LenProperties DEF LightsOK, Lights
<1>3. Len(s.steps) + OVERHEAD <= SRAM_WORDS
  BY <1>1, <1>2, StepsAssumption, SramAssumption DEF OVERHEAD
<1> QED BY <1>1, <1>3

\* The block LEDs show the animation and nothing else, frame by frame, whatever
\* its steps are and whatever indicators are lit beside it
\* (LightState.cpp:236-258, 291-311).
THEOREM AnimationShown ==
    ASSUME MAX_STEPS + OVERHEAD <= SRAM_WORDS
    PROVE  Spec => []AnimationFaithful
<1>1. IInv => AnimationFaithful
  <2> SUFFICES ASSUME IInv, NEW s \in shown, NEW led \in 1 .. 5, NEW colour \in 0 .. 2
               PROVE  Visible(chip.sram, WiredTo[led] + colour)
                        = BlockShown(s, led, colour)
    BY DEF AnimationFaithful, BlockShown
  <2>1. LightsOK(s) /\ chip = Updated(s) /\ Len(s.steps) + OVERHEAD <= SRAM_WORDS
    BY ReadFits
  <2>2. chip.sram = Load(Program(s))
    BY <2>1 DEF Updated
  <2> QED BY <2>1, <2>2, BlockSeen
<1> QED BY <1>1, Invariance, PTL

\* The connectivity LED as IndicatorsFaithful wants it, colour by colour.
LEMMA StatusColours ==
    ASSUME NEW s, LightsOK(s)
    PROVE  LET seen(ch) == IF delaySet(s.steps) \/ s.callEarpiece
                           THEN {IF Torch(s) THEN 255 ELSE PreludeLevel(s, ch)}
                           ELSE FallbackSeen(s, ch, 0)
           IN  /\ StatusLED(s).red = seen(15)
               /\ StatusLED(s).green = seen(16)
               /\ StatusLED(s).blue = seen(17)
<1> DEFINE cellular == s.connectivity["cellular"]
           wifi == s.connectivity["wifi"]
           bluetooth == s.connectivity["bluetooth"]
           torch == Torch(s)
<1>1. CASE s.callEarpiece
  <2>1. CASE torch
    BY <1>1, <2>1 DEF StatusLED
  <2>2. CASE ~ torch
    BY <1>1, <2>2 DEF StatusLED, PreludeLevel, On, Lit
  <2> QED BY <2>1, <2>2
<1>2. CASE ~ s.callEarpiece /\ delaySet(s.steps)
  <2>1. CASE torch
    BY <1>2, <2>1 DEF StatusLED
  <2>2. CASE ~ torch
    BY <1>2, <2>2 DEF StatusLED, PreludeLevel, On, Lit
  <2> QED BY <2>1, <2>2
<1>3. CASE ~ s.callEarpiece /\ ~ delaySet(s.steps)
  <2>1. \A tech \in Technology, level \in {80, 160, 255} :
          {level : t \in {tech} \cap {t \in Technology : s.connectivity[t]}}
            \cup {0 : t \in {t \in Technology \ {tech} : s.connectivity[t]}}
            \cup {0 : t \in {tech} \cap {t \in Technology : ~ s.connectivity[t]}}
          = (IF s.connectivity[tech] THEN {level} ELSE {0})
            \cup (IF \E other \in Technology \ {tech} : s.connectivity[other] THEN {0} ELSE {})
    <3> SUFFICES ASSUME NEW tech \in Technology, NEW level \in {80, 160, 255}
                 PROVE {level : t \in {tech} \cap {t \in Technology : s.connectivity[t]}}
                         \cup {0 : t \in {t \in Technology \ {tech} : s.connectivity[t]}}
                         \cup {0 : t \in {tech} \cap {t \in Technology : ~ s.connectivity[t]}}
                       = (IF s.connectivity[tech] THEN {level} ELSE {0})
                         \cup (IF \E other \in Technology \ {tech} : s.connectivity[other]
                               THEN {0} ELSE {})
      OBVIOUS
    <3>1. CASE s.connectivity[tech]
      BY <3>1
    <3>2. CASE ~ s.connectivity[tech]
      BY <3>2
    <3> QED BY <3>1, <3>2
  <2>2. "cellular" \in Technology /\ "wifi" \in Technology /\ "bluetooth" \in Technology
    BY DEF Technology
  <2>3. StatusLED(s).red = FallbackSeen(s, 15, 0)
    BY <1>3, <2>1, <2>2 DEF StatusLED, FallbackSeen
  <2>4. StatusLED(s).green = FallbackSeen(s, 16, 0)
    BY <1>3, <2>1, <2>2 DEF StatusLED, FallbackSeen
  <2>5. StatusLED(s).blue = FallbackSeen(s, 17, 0)
    BY <1>3, <2>1, <2>2 DEF StatusLED, FallbackSeen
  <2> QED BY <1>3, <2>3, <2>4, <2>5
<1> QED BY <1>1, <1>2, <1>3

\* The indicators show the state the last Update() read, whatever the animation
\* beside them and whether or not it waits (LightState.cpp:199-233, 259-285).
THEOREM IndicatorsShown ==
    ASSUME MAX_STEPS + OVERHEAD <= SRAM_WORDS
    PROVE  Spec => []IndicatorsFaithful
<1>1. IInv => IndicatorsFaithful
  <2> SUFFICES ASSUME IInv, NEW s \in shown
               PROVE  /\ Visible(chip.sram, 15) = StatusLED(s).red
                      /\ Visible(chip.sram, 16) = StatusLED(s).green
                      /\ Visible(chip.sram, 17) = StatusLED(s).blue
                      /\ Visible(chip.sram, 18) = {IF Torch(s) THEN 255 ELSE On(s.capsLock, 160)}
                      /\ Visible(chip.sram, 19) = {On(Torch(s), 255)}
                      /\ s.callEarpiece => chip.red # chip.green /\ chip.green = s.callLeftUp
                      /\ ~ s.callEarpiece => ~ chip.red /\ ~ chip.green
    BY DEF IndicatorsFaithful
  <2>1. LightsOK(s) /\ chip = Updated(s) /\ Len(s.steps) + OVERHEAD <= SRAM_WORDS
    BY ReadFits
  <2>2. /\ chip.sram = Load(Program(s))
        /\ chip.red = (s.callEarpiece /\ ~ s.callLeftUp)
        /\ chip.green = (s.callEarpiece /\ s.callLeftUp)
    BY <2>1, Zenon DEF Updated
  <2>3. s.callEarpiece \in BOOLEAN /\ s.callLeftUp \in BOOLEAN /\ s.capsLock \in BOOLEAN
    BY <2>1 DEF LightsOK, Lights
  <2> DEFINE seen(ch) == IF delaySet(s.steps) \/ s.callEarpiece
                         THEN {IF Torch(s) THEN 255 ELSE PreludeLevel(s, ch)}
                         ELSE FallbackSeen(s, ch, 0)
  <2>4. \A ch \in 15 .. 17 : Visible(chip.sram, ch) = seen(ch)
    BY <2>1, <2>2, IndicatorsSeen
  <2>5. /\ Visible(chip.sram, 15) = StatusLED(s).red
        /\ Visible(chip.sram, 16) = StatusLED(s).green
        /\ Visible(chip.sram, 17) = StatusLED(s).blue
    <3>1. /\ StatusLED(s).red = seen(15)
          /\ StatusLED(s).green = seen(16)
          /\ StatusLED(s).blue = seen(17)
      BY <2>1, StatusColours
    <3>2. 15 \in 15 .. 17 /\ 16 \in 15 .. 17 /\ 17 \in 15 .. 17
      OBVIOUS
    <3> HIDE DEF seen
    <3>3. /\ Visible(chip.sram, 15) = seen(15)
          /\ Visible(chip.sram, 16) = seen(16)
          /\ Visible(chip.sram, 17) = seen(17)
      BY <2>4, <3>2
    <3> QED BY <3>1, <3>3
  <2>6. \A ch \in 18 .. 19 :
          Visible(chip.sram, ch) = {IF Torch(s) THEN 255 ELSE PreludeLevel(s, ch)}
    BY <2>1, <2>2, IndicatorsSeen
  <2>7. PreludeLevel(s, 18) = On(s.capsLock, 160) /\ PreludeLevel(s, 19) = 0
    BY DEF PreludeLevel, On, Lit
  <2>8. /\ Visible(chip.sram, 18) = {IF Torch(s) THEN 255 ELSE On(s.capsLock, 160)}
        /\ Visible(chip.sram, 19) = {On(Torch(s), 255)}
    BY <2>6, <2>7 DEF On
  <2>9. /\ s.callEarpiece => chip.red # chip.green /\ chip.green = s.callLeftUp
        /\ ~ s.callEarpiece => ~ chip.red /\ ~ chip.green
    BY <2>2, <2>3, Zenon
  <2> QED BY <2>5, <2>8, <2>9
<1> QED BY <1>1, Invariance, PTL

-----------------------------------------------------------------------------
(* LEDs: the queue *)

\* What dbus_method_call and the timers enqueue.
QueuedAction ==
    [do : {"capsLock"}, state : BOOLEAN]
    \cup [do : {"setBlock"}, step : Steps]
    \cup [do : {"clearBlock", "pushBlock"}]
    \cup [do : {"torch"}, on : BOOLEAN, by : {"client", "timer"}]
    \cup [do : {"call"}, earpiece : BOOLEAN, leftUp : BOOLEAN]

QueueOK == action_queue \in Seq(QueuedAction)

\* What an action makes of the fields.
Perform(s, ev) ==
    CASE ev.do = "capsLock" -> [s EXCEPT !.capsLock = ev.state]
      [] ev.do = "setBlock" -> [s EXCEPT !.steps = Append(@, ev.step)]
      [] ev.do = "clearBlock" -> [s EXCEPT !.steps = << >>]
      [] ev.do = "pushBlock" -> s
      [] ev.do = "torch" ->
            [s EXCEPT !.steps = IF ev.on THEN <<TorchStep>> ELSE << >>,
                      !.powerLevels = IF ev.on THEN 7 ELSE 1]
      [] ev.do = "call" ->
            [s EXCEPT !.callEarpiece = ev.earpiece, !.callLeftUp = ev.leftUp]

\* A step is added to the fields s only while the animation has room for it.
HasRoom(s, ev) == ev.do = "setBlock" => Len(s.steps) < MAX_STEPS

\* states are the fields after each of the actions that wait, from now to when
\* all of them are done.
Leads(states) ==
    /\ states \in [1 .. Len(action_queue) + 1 -> Lights]
    /\ states[1] = lights
    /\ states[Len(action_queue) + 1] = wanted
    /\ \A i \in 1 .. Len(action_queue) :
         /\ states[i + 1] = Perform(states[i], action_queue[i])
         /\ HasRoom(states[i], action_queue[i])

QueueLeads == \E states : Leads(states)

LEDsInv == QueueOK /\ QueueLeads

-----------------------------------------------------------------------------
(* Verification *)

\* The three tests of SetLEDBlockStep let through what IsBlockStep says, exactly.
LEMMA VerifiedIsBlockStep ==
    ASSUME NEW step \in [led : Nat, colour : Nat, type : Nat, value : Nat]
    PROVE  verifyLed(step.led) /\ verifyType(step.type) /\ verifyValue(step.type, step.value)
               <=> IsBlockStep(step)
<1>1. /\ step.led \in Nat /\ step.colour \in Nat /\ step.type \in Nat /\ step.value \in Nat
      /\ step = [led |-> step.led, colour |-> step.colour, type |-> step.type,
                 value |-> step.value]
  OBVIOUS
<1>2. verifyLed(step.led) <=> step.led \in 1 .. 5
  BY <1>1 DEF verifyLed
<1>3. verifyType(step.type) <=> step.type \in 0 .. 3
  BY <1>1 DEF verifyType, BlockStepMax
<1>4. verifyValue(step.type, step.value)
        <=> step.value \in 0 .. 1023 /\ (step.type = 3 \/ step.value \in 0 .. 255)
  BY <1>1 DEF verifyValue, BlockStepDelay
<1>5. step \in BlockAnimStep <=> step.type \in 0 .. 3 /\ step.value \in 0 .. 1023
  BY <1>1 DEF BlockAnimStep
<1> QED BY <1>2, <1>3, <1>4, <1>5 DEF IsBlockStep, BlockStepDelay

LEMMA PerformType ==
    ASSUME NEW s \in Lights, NEW ev \in QueuedAction
    PROVE  Perform(s, ev) \in Lights
<1>1. CASE ev \in [do : {"capsLock"}, state : BOOLEAN]
  BY <1>1 DEF Perform, Lights
<1>2. CASE ev \in [do : {"setBlock"}, step : Steps]
  <2>1. ev.step \in BlockAnimStep
    BY <1>2, StepsAssumption DEF IsBlockStep
  <2>2. Append(s.steps, ev.step) \in Seq(BlockAnimStep)
    BY <2>1, AppendProperties DEF Lights
  <2>3. Perform(s, ev) = [s EXCEPT !.steps = Append(s.steps, ev.step)]
    BY <1>2 DEF Perform, Lights
  <2> QED BY <2>2, <2>3 DEF Lights
<1>3. CASE ev \in [do : {"clearBlock", "pushBlock"}]
  <2>1. << >> \in Seq(BlockAnimStep)
    BY EmptySeq
  <2> QED BY <1>3, <2>1 DEF Perform, Lights
<1>4. CASE ev \in [do : {"torch"}, on : BOOLEAN, by : {"client", "timer"}]
  <2>1. (IF ev.on THEN <<TorchStep>> ELSE << >>) \in Seq(BlockAnimStep)
    BY <1>4, TorchSteps DEF When
  <2>2. (IF ev.on THEN 7 ELSE 1) \in {1, 7}
    OBVIOUS
  <2>3. Perform(s, ev) = [s EXCEPT !.steps = IF ev.on THEN <<TorchStep>> ELSE << >>,
                                   !.powerLevels = IF ev.on THEN 7 ELSE 1]
    BY <1>4 DEF Perform
  <2> QED BY <2>1, <2>2, <2>3 DEF Lights, POWER_LEVEL_20b001s, POWER_LEVEL_20b111s
<1>5. CASE ev \in [do : {"call"}, earpiece : BOOLEAN, leftUp : BOOLEAN]
  BY <1>5 DEF Perform, Lights
<1> QED BY <1>1, <1>2, <1>3, <1>4, <1>5 DEF QueuedAction

-----------------------------------------------------------------------------
(* The path from the fields to what is wanted *)

\* An action is enqueued, and wanted at once.
LEMMA LeadsEnqueue ==
    ASSUME LEDsInv, NEW a \in QueuedAction, action_queue' = Append(action_queue, a),
           wanted' = Perform(wanted, a), HasRoom(wanted, a), UNCHANGED lights
    PROVE  LEDsInv'
<1> DEFINE n == Len(action_queue)
<1>1. /\ n \in Nat /\ action_queue' \in Seq(QueuedAction) /\ Len(action_queue') = n + 1
      /\ \A i \in 1 .. n : action_queue'[i] = action_queue[i]
      /\ action_queue'[n + 1] = a
  BY AppendProperties, LenProperties DEF LEDsInv, QueueOK
<1>2. PICK states : Leads(states)
  BY DEF LEDsInv, QueueLeads
<1>3. /\ states \in [1 .. n + 1 -> Lights] /\ states[1] = lights /\ states[n + 1] = wanted
      /\ \A i \in 1 .. n : /\ states[i + 1] = Perform(states[i], action_queue[i])
                           /\ HasRoom(states[i], action_queue[i])
  BY <1>2 DEF Leads
<1>4. Perform(wanted, a) \in Lights
  BY <1>1, <1>3, PerformType
<1> HIDE DEF n
<1>5. PICK after \in [1 .. n + 2 -> Lights] :
        /\ \A i \in 1 .. n + 1 : after[i] = states[i]
        /\ after[n + 2] = Perform(wanted, a)
  <2> DEFINE f == [i \in 1 .. n + 2 |-> IF i = n + 2 THEN Perform(wanted, a) ELSE states[i]]
  <2>1. f \in [1 .. n + 2 -> Lights]
    BY <1>1, <1>3, <1>4
  <2>2. (\A i \in 1 .. n + 1 : f[i] = states[i]) /\ f[n + 2] = Perform(wanted, a)
    BY <1>1
  <2> QED BY <2>1, <2>2
<1>6. ASSUME NEW i \in 1 .. n + 1
      PROVE  after[i + 1] = Perform(after[i], action_queue'[i]) /\ HasRoom(after[i], action_queue'[i])
  <2>1. CASE i = n + 1
    <3>1. after[i] = wanted /\ i + 1 = n + 2
      BY <1>1, <1>3, <1>5, <2>1
    <3> QED BY <1>1, <1>5, <2>1, <3>1
  <2>2. CASE i # n + 1
    <3>1. i \in 1 .. n /\ i + 1 \in 1 .. n + 1
      BY <1>1, <2>2
    <3> QED BY <1>1, <1>3, <1>5, <3>1
  <2> QED BY <2>1, <2>2
<1>7. after[1] = lights' /\ after[(n + 1) + 1] = wanted'
  BY <1>1, <1>3, <1>5
<1>8. after \in [1 .. (n + 1) + 1 -> Lights]
  BY <1>1, <1>5
<1>9. Leads(after)'
  BY <1>1, <1>6, <1>7, <1>8 DEF Leads
<1> QED BY <1>1, <1>9 DEF LEDsInv, QueueOK, QueueLeads

\* The action at the head is performed.
LEMMA LeadsPerform ==
    ASSUME LEDsInv, action_queue # << >>, action_queue' = Tail(action_queue),
           lights' = Perform(lights, Head(action_queue)), UNCHANGED wanted
    PROVE  LEDsInv'
<1> DEFINE n == Len(action_queue)
<1>1. /\ n \in Nat \ {0} /\ action_queue' \in Seq(QueuedAction) /\ Len(action_queue') = n - 1
      /\ \A i \in 1 .. n - 1 : action_queue'[i] = action_queue[i + 1]
      /\ Head(action_queue) = action_queue[1]
  BY HeadTailProperties, EmptySeq DEF LEDsInv, QueueOK
<1>2. PICK states : Leads(states)
  BY DEF LEDsInv, QueueLeads
<1>3. /\ states \in [1 .. n + 1 -> Lights] /\ states[1] = lights /\ states[n + 1] = wanted
      /\ \A i \in 1 .. n : /\ states[i + 1] = Perform(states[i], action_queue[i])
                           /\ HasRoom(states[i], action_queue[i])
  BY <1>2 DEF Leads
<1> HIDE DEF n
<1>4. PICK k \in Nat : n = k + 1
  BY <1>1
<1> DEFINE after == [i \in 1 .. k + 1 |-> states[i + 1]]
<1>5. after \in [1 .. k + 1 -> Lights]
  BY <1>3, <1>4
<1>6. \A i \in 1 .. k + 1 : after[i] = states[i + 1]
  OBVIOUS
<1> HIDE DEF after
<1>7. ASSUME NEW i \in 1 .. k
      PROVE  after[i + 1] = Perform(after[i], action_queue'[i]) /\ HasRoom(after[i], action_queue'[i])
  <2>1. i + 1 \in 1 .. n /\ i + 1 \in 1 .. k + 1 /\ i \in 1 .. k + 1 /\ i \in 1 .. n - 1
    BY <1>4
  <2>2. /\ states[(i + 1) + 1] = Perform(states[i + 1], action_queue[i + 1])
        /\ HasRoom(states[i + 1], action_queue[i + 1])
    BY <1>3, <2>1
  <2>3. action_queue'[i] = action_queue[i + 1]
    BY <1>1, <2>1
  <2> QED BY <1>6, <2>1, <2>2, <2>3
<1>8. after[1] = lights'
  <2>1. 1 \in 1 .. n /\ 1 \in 1 .. k + 1
    BY <1>4
  <2>2. states[1 + 1] = Perform(states[1], action_queue[1])
    BY <1>3, <2>1
  <2> QED BY <1>1, <1>3, <1>6, <2>1, <2>2
<1>9. after[k + 1] = wanted'
  BY <1>3, <1>4, <1>6
<1>10. Len(action_queue') = k
  BY <1>1, <1>4
<1>11. Leads(after)'
  BY <1>5, <1>7, <1>8, <1>9, <1>10 DEF Leads
<1> QED BY <1>1, <1>11 DEF LEDsInv, QueueOK, QueueLeads

\* Nothing that waits is about connectivity: it changes all along the path.
LEMMA PerformConnectivity ==
    ASSUME NEW s \in Lights, NEW ev \in QueuedAction,
           NEW tech \in Technology, NEW powered \in BOOLEAN
    PROVE  Perform([s EXCEPT !.connectivity[tech] = powered], ev)
             = [Perform(s, ev) EXCEPT !.connectivity[tech] = powered]
<1>1. CASE ev.do = "capsLock"
  BY <1>1 DEF Perform, Lights
<1>2. CASE ev.do = "setBlock"
  BY <1>2 DEF Perform, Lights
<1>3. CASE ev.do = "clearBlock" \/ ev.do = "pushBlock"
  BY <1>3 DEF Perform, Lights
<1>4. CASE ev.do = "torch"
  BY <1>4 DEF Perform, Lights
<1>5. CASE ev.do = "call"
  BY <1>5 DEF Perform, Lights
<1> QED BY <1>1, <1>2, <1>3, <1>4, <1>5 DEF QueuedAction

LEMMA LeadsConnectivity ==
    ASSUME LEDsInv, NEW tech \in Technology, NEW powered \in BOOLEAN,
           lights' = [lights EXCEPT !.connectivity[tech] = powered],
           wanted' = [wanted EXCEPT !.connectivity[tech] = powered],
           UNCHANGED action_queue
    PROVE  LEDsInv'
<1> DEFINE n == Len(action_queue)
           with(s) == [s EXCEPT !.connectivity[tech] = powered]
<1>1. n \in Nat /\ \A i \in 1 .. n : action_queue[i] \in QueuedAction
  BY LenProperties, ElementOfSeq DEF LEDsInv, QueueOK
<1>2. PICK states : Leads(states)
  BY DEF LEDsInv, QueueLeads
<1>3. /\ states \in [1 .. n + 1 -> Lights] /\ states[1] = lights /\ states[n + 1] = wanted
      /\ \A i \in 1 .. n : /\ states[i + 1] = Perform(states[i], action_queue[i])
                           /\ HasRoom(states[i], action_queue[i])
  BY <1>2 DEF Leads
<1>4. \A s \in Lights : with(s) \in Lights /\ with(s).steps = s.steps
  BY DEF Lights
<1>5. \A s \in Lights, ev \in QueuedAction : Perform(with(s), ev) = with(Perform(s, ev))
  BY PerformConnectivity
<1>6. lights' = with(lights) /\ wanted' = with(wanted)
  OBVIOUS
<1> HIDE DEF with, n
<1>7. PICK after \in [1 .. n + 1 -> Lights] : \A i \in 1 .. n + 1 : after[i] = with(states[i])
  <2> DEFINE f == [i \in 1 .. n + 1 |-> with(states[i])]
  <2>1. f \in [1 .. n + 1 -> Lights]
    BY <1>3, <1>4
  <2> QED BY <2>1
<1>8. Len(action_queue') = n
  BY DEF n
<1>9. ASSUME NEW i \in 1 .. n
      PROVE  after[i + 1] = Perform(after[i], action_queue'[i]) /\ HasRoom(after[i], action_queue'[i])
  <2>1. i \in 1 .. n + 1 /\ i + 1 \in 1 .. n + 1
    BY <1>1
  <2>2. /\ states[i + 1] = Perform(states[i], action_queue[i]) /\ states[i] \in Lights
        /\ HasRoom(states[i], action_queue[i])
    BY <1>3, <2>1
  <2>3. Perform(with(states[i]), action_queue[i]) = with(states[i + 1])
    BY <1>1, <1>5, <2>2
  <2>4. HasRoom(with(states[i]), action_queue[i])
    BY <1>4, <2>2 DEF HasRoom
  <2> QED BY <1>7, <2>1, <2>3, <2>4
<1>10. 1 \in 1 .. n + 1 /\ n + 1 \in 1 .. n + 1
  BY <1>1
<1>11. after[1] = lights' /\ after[n + 1] = wanted'
  BY <1>3, <1>6, <1>7, <1>10
<1>12. Leads(after)'
  BY <1>7, <1>8, <1>9, <1>11 DEF Leads
<1> QED BY <1>12 DEF LEDsInv, QueueOK, QueueLeads

-----------------------------------------------------------------------------
(* Each step *)

LEMMA LEDsInitInv == LEDsInit => LEDsInv
<1> SUFFICES ASSUME LEDsInit PROVE LEDsInv
  OBVIOUS
<1>1. action_queue \in Seq(QueuedAction) /\ Len(action_queue) = 0
  BY EmptySeq DEF LEDsInit
<1>2. lights = Constructed /\ wanted = Constructed /\ Constructed \in Lights
  BY HeldConstructed DEF LEDsInit, Init, Held, LightsOK
<1> DEFINE states == [i \in 1 .. 1 |-> lights]
<1>3. states \in [1 .. 0 + 1 -> Lights] /\ states[1] = lights /\ states[0 + 1] = wanted
  BY <1>2
<1> HIDE DEF states
<1>4. Leads(states)
  BY <1>1, <1>3 DEF Leads
<1> QED BY <1>1, <1>4 DEF LEDsInv, QueueOK, QueueLeads

\* A method call enqueues at most one action, and what it wants is what that does.
LEMMA MethodKeeps ==
    ASSUME LEDsInv, NEW r \in Requests, dbus_method_call(r)
    PROVE  LEDsInv'
<1>0. UNCHANGED lights
  BY DEF dbus_method_call
<1>1. CASE r.method = "SetCapsLock" /\ SetCapsLock(r.state)
  <2> DEFINE a == [do |-> "capsLock", state |-> r.state]
  <2>1. a \in QueuedAction
    BY <1>1, RequestsAssumption DEF QueuedAction
  <2>2. action_queue' = Append(action_queue, a) /\ wanted' = Perform(wanted, a)
    BY <1>1 DEF SetCapsLock, enqueue_action, Perform
  <2>3. HasRoom(wanted, a)
    BY DEF HasRoom
  <2> QED BY <1>0, <2>1, <2>2, <2>3, LeadsEnqueue
<1>2. CASE r.method = "SetLEDBlockStep" /\ SetLEDBlockStep(r.step)
  <2> DEFINE a == [do |-> "setBlock", step |-> r.step]
  <2>1. r.step \in [led : Nat, colour : Nat, type : Nat, value : Nat]
    BY <1>2, RequestsAssumption
  <2>2. CASE IsBlockStep(r.step)
    <3>1. a \in QueuedAction
      BY <1>2, <2>2, StepsOfRequests DEF QueuedAction
    <3>2. action_queue' = Append(action_queue, a)
      BY <1>2, <2>1, <2>2, VerifiedIsBlockStep DEF SetLEDBlockStep, enqueue_action
    <3>3. wanted' = Perform(wanted, a)
      BY <1>2, <2>2 DEF SetLEDBlockStep, Perform
    <3>4. HasRoom(wanted, a)
      BY <1>2, <2>2 DEF SetLEDBlockStep, HasRoom
    <3> QED BY <1>0, <3>1, <3>2, <3>3, <3>4, LeadsEnqueue
  <2>3. CASE ~ IsBlockStep(r.step)
    <3>1. UNCHANGED <<action_queue, wanted>>
      BY <1>2, <2>1, <2>3, VerifiedIsBlockStep DEF SetLEDBlockStep
    <3> QED BY <1>0, <3>1 DEF LEDsInv, QueueOK, QueueLeads, Leads
  <2> QED BY <2>2, <2>3
<1>3. CASE r.method = "ClearLEDBlockAnimation" /\ ClearLEDBlockAnimation
  <2> DEFINE a == [do |-> "clearBlock"]
  <2>1. a \in QueuedAction
    BY DEF QueuedAction
  <2>2. action_queue' = Append(action_queue, a) /\ wanted' = Perform(wanted, a)
    BY <1>3 DEF ClearLEDBlockAnimation, enqueue_action, Perform
  <2>3. HasRoom(wanted, a)
    BY DEF HasRoom
  <2> QED BY <1>0, <2>1, <2>2, <2>3, LeadsEnqueue
<1>4. CASE r.method = "PushLEDBlockAnimation" /\ PushLEDBlockAnimation
  <2> DEFINE a == [do |-> "pushBlock"]
  <2>1. a \in QueuedAction
    BY DEF QueuedAction
  <2>2. action_queue' = Append(action_queue, a) /\ wanted' = Perform(wanted, a)
    BY <1>4 DEF PushLEDBlockAnimation, enqueue_action, Perform
  <2>3. HasRoom(wanted, a)
    BY DEF HasRoom
  <2> QED BY <1>0, <2>1, <2>2, <2>3, LeadsEnqueue
<1>5. CASE r.method = "SetTorch" /\ SetTorch(r.on, r.duration)
  <2> DEFINE a == [do |-> "torch", on |-> r.on, by |-> "client"]
  <2>1. a \in QueuedAction
    BY <1>5, RequestsAssumption DEF QueuedAction
  <2>2. action_queue' = Append(action_queue, a) /\ wanted' = Perform(wanted, a)
    BY <1>5 DEF SetTorch, TorchWanted, enqueue_action, Perform
  <2>3. HasRoom(wanted, a)
    BY DEF HasRoom
  <2> QED BY <1>0, <2>1, <2>2, <2>3, LeadsEnqueue
<1>6. CASE r.method = "SetCall" /\ SetCall(r.earpiece, r.leftUp)
  <2> DEFINE a == [do |-> "call", earpiece |-> r.earpiece, leftUp |-> r.leftUp]
  <2>1. a \in QueuedAction
    BY <1>6, RequestsAssumption DEF QueuedAction
  <2>2. action_queue' = Append(action_queue, a) /\ wanted' = Perform(wanted, a)
    BY <1>6 DEF SetCall, enqueue_action, Perform
  <2>3. HasRoom(wanted, a)
    BY DEF HasRoom
  <2> QED BY <1>0, <2>1, <2>2, <2>3, LeadsEnqueue
<1>7. CASE r.method = "other" /\ UNCHANGED <<action_queue, timers, wanted>>
  BY <1>0, <1>7 DEF LEDsInv, QueueOK, QueueLeads, Leads
<1> QED BY <1>1, <1>2, <1>3, <1>4, <1>5, <1>6, <1>7 DEF dbus_method_call

LEMMA TimerKeeps ==
    ASSUME LEDsInv, TorchTimer
    PROVE  LEDsInv'
<1> DEFINE a == [do |-> "torch", on |-> FALSE, by |-> "timer"]
<1>1. a \in QueuedAction
  BY DEF QueuedAction
<1>2. action_queue' = Append(action_queue, a) /\ wanted' = Perform(wanted, a)
  BY DEF TorchTimer, TorchWanted, enqueue_action, Perform
<1>3. HasRoom(wanted, a)
  BY DEF HasRoom
<1> QED BY <1>1, <1>2, <1>3, LeadsEnqueue DEF TorchTimer

\* What run() performs is what the queue says.
LEMMA RunKeeps ==
    ASSUME LEDsInv, RunAction
    PROVE  LEDsInv'
<1>1. action_queue # << >> /\ action_queue' = Tail(action_queue) /\ UNCHANGED wanted
  BY DEF RunAction
<1> DEFINE ev == Head(action_queue)
<1>2. lights' = Perform(lights, ev)
  <2>1. CASE ev.do = "capsLock" /\ handleCapsLock(ev.state)
    BY <2>1 DEF handleCapsLock, Perform
  <2>2. CASE ev.do = "setBlock" /\ handleSetBlockRGB(ev.step)
    BY <2>2 DEF handleSetBlockRGB, Perform
  <2>3. CASE ev.do = "clearBlock" /\ handleClearBlock
    BY <2>3 DEF handleClearBlock, Perform
  <2>4. CASE ev.do = "pushBlock" /\ handlePushBlock
    BY <2>4 DEF handlePushBlock, Perform
  <2>5. CASE ev.do = "torch" /\ handleTorch(ev.on)
    BY <2>5 DEF handleTorch, Perform, When, POWER_LEVEL_20b001s, POWER_LEVEL_20b111s
  <2>6. CASE ev.do = "call" /\ handleCall(ev.earpiece, ev.leftUp)
    BY <2>6 DEF handleCall, Perform
  <2> QED BY <2>1, <2>2, <2>3, <2>4, <2>5, <2>6 DEF RunAction
<1> QED BY <1>1, <1>2, LeadsPerform

LEMMA LEDsStepInv == LEDsInv /\ [LEDsNext]_ledsVars => LEDsInv'
<1> SUFFICES ASSUME LEDsInv, [LEDsNext]_ledsVars PROVE LEDsInv'
  OBVIOUS
<1>1. CASE UNCHANGED ledsVars
  BY <1>1 DEF ledsVars, LEDsInv, QueueOK, QueueLeads, Leads
<1>2. ASSUME NEW tech \in Technology, NEW powered \in BOOLEAN, saveStateForPath(tech, powered)
      PROVE  LEDsInv'
  BY <1>2, LeadsConnectivity DEF saveStateForPath, handleConnectivity
<1> QED BY <1>1, <1>2, MethodKeeps, TimerKeeps, RunKeeps DEF LEDsNext

-----------------------------------------------------------------------------
(* The theorems *)

\* The queue always leads from the fields as they are to those the calls so far
\* ask for, by way of verified actions alone (LEDs.cpp:131-190).
THEOREM LEDsInvariance == LEDsSpec => []LEDsInv
BY LEDsInitInv, LEDsStepInv, PTL DEF LEDsSpec

\* The bound on a client's animation stops clients, never the main thread: a step
\* that comes to be performed has room (LEDs.cpp:144-157, LightState.cpp:60-62).
THEOREM StepsHaveRoom ==
    LEDsSpec => [](action_queue # << >> => HasRoom(lights, Head(action_queue)))
<1>1. LEDsInv => (action_queue # << >> => HasRoom(lights, Head(action_queue)))
  <2> SUFFICES ASSUME LEDsInv, action_queue # << >>
               PROVE  HasRoom(lights, Head(action_queue))
    OBVIOUS
  <2>1. PICK states : Leads(states)
    BY DEF LEDsInv, QueueLeads
  <2>2. 1 \in 1 .. Len(action_queue) /\ Head(action_queue) = action_queue[1]
    BY EmptySeq, HeadTailProperties DEF LEDsInv, QueueOK
  <2> QED BY <2>1, <2>2 DEF Leads
<1> QED BY <1>1, LEDsInvariance, PTL

\* A step of the whole is a step of LightState, whose handlers are called with
\* what has been verified.
LEMMA LEDsStep == LEDsInv /\ [LEDsNext]_ledsVars => [Next]_vars
<1> SUFFICES ASSUME LEDsInv, [LEDsNext]_ledsVars PROVE [Next]_vars
  OBVIOUS
<1>1. CASE UNCHANGED ledsVars
  BY <1>1 DEF ledsVars, vars
<1>2. ASSUME NEW r \in Requests, dbus_method_call(r) PROVE UNCHANGED vars
  BY <1>2 DEF dbus_method_call, vars
<1>3. CASE TorchTimer
  BY <1>3 DEF TorchTimer, vars
<1>4. CASE RunAction
  <2> DEFINE ev == Head(action_queue)
  <2>1. ev \in QueuedAction
    BY <1>4, HeadTailProperties DEF RunAction, LEDsInv, QueueOK
  <2>2. CASE ev.do = "capsLock" /\ handleCapsLock(ev.state)
    <3>1. ev.state \in BOOLEAN
      BY <2>1, <2>2 DEF QueuedAction
    <3> QED BY <2>2, <3>1 DEF Next
  <2>3. CASE ev.do = "setBlock" /\ handleSetBlockRGB(ev.step)
    <3>1. ev.step \in Steps
      BY <2>1, <2>3 DEF QueuedAction
    <3> QED BY <2>3, <3>1 DEF Next
  <2>4. CASE ev.do = "clearBlock" /\ handleClearBlock
    BY <2>4 DEF Next
  <2>5. CASE ev.do = "pushBlock" /\ handlePushBlock
    BY <2>5 DEF Next
  <2>6. CASE ev.do = "torch" /\ handleTorch(ev.on)
    <3>1. ev.on \in BOOLEAN
      BY <2>1, <2>6 DEF QueuedAction
    <3> QED BY <2>6, <3>1 DEF Next
  <2>7. CASE ev.do = "call" /\ handleCall(ev.earpiece, ev.leftUp)
    <3>1. ev.earpiece \in BOOLEAN /\ ev.leftUp \in BOOLEAN
      BY <2>1, <2>7 DEF QueuedAction
    <3> QED BY <2>7, <3>1 DEF Next
  <2> QED BY <1>4, <2>2, <2>3, <2>4, <2>5, <2>6, <2>7 DEF RunAction
<1>5. ASSUME NEW tech \in Technology, NEW powered \in BOOLEAN, saveStateForPath(tech, powered)
      PROVE  Next
  BY <1>5 DEF saveStateForPath, Next
<1> QED BY <1>1, <1>2, <1>3, <1>4, <1>5 DEF LEDsNext

\* Whatever clients call, and however the timers and connectivity come between,
\* the lights do what LightState's own specification says, so that what is proved
\* of LightState alone holds of the daemon (LEDs.cpp:131-190, Daemon.cpp:59-117).
THEOREM LEDsImplementsLightState == LEDsSpec => Spec
<1>1. LEDsInit => Init
  BY DEF LEDsInit
<1> QED BY <1>1, LEDsStep, LEDsInvariance, PTL DEF LEDsSpec, Spec

\* When the queue is empty, each accepted call has taken effect, in order, and no
\* other has: any number of calls (LEDs.cpp:131-190).
THEOREM CallsTakeEffect == LEDsSpec => []RequestsTakeEffect
<1>1. LEDsInv => RequestsTakeEffect
  <2> SUFFICES ASSUME LEDsInv, action_queue = << >> PROVE lights = wanted
    BY DEF RequestsTakeEffect
  <2>1. PICK states : Leads(states)
    BY DEF LEDsInv, QueueLeads
  <2>2. Len(action_queue) + 1 = 1
    BY EmptySeq
  <2> QED BY <2>1, <2>2 DEF Leads
<1> QED BY <1>1, LEDsInvariance, PTL

\* The words of a queued or held step are waits or levels of the block's channels,
\* for every four numbers a client may send (LEDs.cpp:151, 196-202,
\* LightState.cpp:236-258).
THEOREM ClientsStayInTheBlock == LEDsSpec => []BlockIsolation
<1> DEFINE isolated(step) ==
             LET w == StepWord(step)
             IN  IF step.type = BlockStepDelay THEN IsWait(w)
                 ELSE IsLevel(w) /\ ChannelOf(w) < 15
                      /\ LevelOf(w) = CASE step.type = BlockStepSetPWM -> step.value
                                        [] step.type = BlockStepFadeIn -> 255
                                        [] OTHER -> 0
<1>1. ASSUME NEW step, IsBlockStep(step) PROVE isolated(step)
  <2>1. step.type \in 0 .. 3
    BY <1>1 DEF IsBlockStep, BlockAnimStep
  <2>2. \A c \in 0 .. 14 : c < 15
    OBVIOUS
  <2>3. CASE step.type = BlockStepDelay
    BY <1>1, <2>3, StepsStayInTheBlock
  <2>4. CASE step.type # BlockStepDelay
    <3>1. IsLevel(StepWord(step)) /\ ChannelOf(StepWord(step)) < 15
      BY <1>1, <2>2, <2>4, StepsStayInTheBlock
    <3>2. step.type = 0 \/ step.type = 1 \/ step.type = 2
      BY <2>1, <2>4 DEF BlockStepDelay
    <3>3. LevelOf(StepWord(step)) = CASE step.type = BlockStepSetPWM -> step.value
                                      [] step.type = BlockStepFadeIn -> 255
                                      [] OTHER -> 0
      BY <1>1, <2>4, <3>2, StepsStayInTheBlock
         DEF BlockStepSetPWM, BlockStepFadeIn, BLockStepFadeOut
    <3> QED BY <2>4, <3>1, <3>3
  <2> QED BY <2>3, <2>4
<1> HIDE DEF isolated
<1>2. LEDsInv /\ IInv => BlockIsolation
  <2> SUFFICES ASSUME LEDsInv, IInv PROVE BlockIsolation
    OBVIOUS
  <2>1. ASSUME NEW i \in DOMAIN action_queue, action_queue[i].do = "setBlock"
        PROVE  isolated(action_queue[i].step)
    <3>1. action_queue[i] \in QueuedAction
      BY ElementOfSeq, LenProperties DEF LEDsInv, QueueOK
    <3>2. action_queue[i].step \in Steps
      BY <2>1, <3>1 DEF QueuedAction
    <3> QED BY <1>1, <3>2, StepsAssumption
  <2>2. ASSUME NEW i \in DOMAIN lights.steps
        PROVE  lights.steps[i] = TorchStep \/ isolated(lights.steps[i])
    BY <1>1 DEF IInv, Held, LightsOK, StepOK
  <2> QED BY <2>1, <2>2 DEF BlockIsolation, isolated
<1> QED BY <1>2, LEDsInvariance, LEDsImplementsLightState, Invariance, PTL

\* What is proved of LightState holds of the daemon, whatever clients call, however
\* often, and whenever timers end: it shows the animation, the state and the torch
\* it was asked for, if no client adds more than MAX_STEPS steps to one animation
\* and that many fit the SRAM; the code does not see to either.
THEOREM DaemonShows ==
    ASSUME MAX_STEPS + OVERHEAD <= SRAM_WORDS
    PROVE  LEDsSpec => [](AnimationFaithful /\ IndicatorsFaithful /\ TorchAtFullCurrent)
<1>1. Spec => []AnimationFaithful
  BY AnimationShown
<1>2. Spec => []IndicatorsFaithful
  BY IndicatorsShown
<1> QED BY <1>1, <1>2, TorchIsBright, LEDsImplementsLightState, PTL

-----------------------------------------------------------------------------
(* The end of a torch *)

LEMMA AppendTorch ==
    ASSUME NEW q \in Seq(QueuedAction), NEW a \in QueuedAction
    PROVE  /\ SetsTorch(a, FALSE) => EndsOff(Append(q, a))
           /\ ~ SetsTorch(a, TRUE) => /\ EndsOff(q) => EndsOff(Append(q, a))
                                      /\ NoTorchIn(q) => NoTorchIn(Append(q, a))
<1> DEFINE n == Len(q)
           after == Append(q, a)
<1>1. /\ n \in Nat /\ DOMAIN q = 1 .. n /\ DOMAIN after = 1 .. n + 1
      /\ \A i \in 1 .. n : after[i] = q[i]
      /\ after[n + 1] = a
  BY AppendProperties, LenProperties
<1> HIDE DEF n, after
<1>2. /\ n + 1 \in 1 .. n + 1 /\ \A i \in 1 .. n : i \in 1 .. n + 1
      /\ \A i \in 1 .. n + 1 : i = n + 1 \/ i \in 1 .. n
      /\ \A i \in 1 .. n + 1 : ~ (i > n + 1)
  BY <1>1
<1>3. SetsTorch(a, FALSE) => EndsOff(after)
  BY <1>1, <1>2 DEF EndsOff
<1>4. ASSUME ~ SetsTorch(a, TRUE), EndsOff(q) PROVE EndsOff(after)
  <2>1. PICK i \in 1 .. n :
          SetsTorch(q[i], FALSE) /\ \A j \in 1 .. n : j > i => ~ SetsTorch(q[j], TRUE)
    BY <1>1, <1>4 DEF EndsOff
  <2>2. \A j \in 1 .. n + 1 : j > i => ~ SetsTorch(after[j], TRUE)
    BY <1>1, <1>2, <1>4, <2>1
  <2> QED BY <1>1, <1>2, <2>1, <2>2 DEF EndsOff
<1>5. ~ SetsTorch(a, TRUE) /\ NoTorchIn(q) => NoTorchIn(after)
  BY <1>1, <1>2 DEF NoTorchIn
<1> QED BY <1>3, <1>4, <1>5 DEF after

LEMMA TailTorch ==
    ASSUME NEW q \in Seq(QueuedAction), q # << >>
    PROVE  /\ NoTorchIn(q) => ~ SetsTorch(Head(q), TRUE) /\ NoTorchIn(Tail(q))
           /\ EndsOff(q) =>
                EndsOff(Tail(q)) \/ (SetsTorch(Head(q), FALSE) /\ NoTorchIn(Tail(q)))
<1> DEFINE rest == Tail(q)
<1>1. PICK k \in Nat : Len(q) = k + 1
  BY EmptySeq, LenProperties
<1>2. /\ DOMAIN q = 1 .. k + 1 /\ DOMAIN rest = 1 .. k
      /\ \A i \in 1 .. k : rest[i] = q[i + 1]
      /\ Head(q) = q[1]
  BY <1>1, HeadTailProperties, LenProperties
<1> HIDE DEF rest
<1>3. 1 \in 1 .. k + 1 /\ \A i \in 1 .. k : i + 1 \in 1 .. k + 1 /\ i + 1 > 1
  BY <1>1
<1>4. NoTorchIn(q) => ~ SetsTorch(q[1], TRUE) /\ NoTorchIn(rest)
  BY <1>2, <1>3 DEF NoTorchIn
<1>5. ASSUME EndsOff(q)
      PROVE  EndsOff(rest) \/ (SetsTorch(q[1], FALSE) /\ NoTorchIn(rest))
  <2>1. PICK i \in 1 .. k + 1 :
          SetsTorch(q[i], FALSE) /\ \A j \in 1 .. k + 1 : j > i => ~ SetsTorch(q[j], TRUE)
    BY <1>2, <1>5 DEF EndsOff
  <2>2. CASE i = 1
    BY <1>2, <1>3, <2>1, <2>2 DEF NoTorchIn
  <2>3. CASE i # 1
    <3>1. PICK m \in 1 .. k : i = m + 1
      <4>1. i - 1 \in 1 .. k /\ i = (i - 1) + 1
        BY <1>1, <2>3
      <4> QED BY <4>1
    <3>2. \A j \in 1 .. k : j > m => ~ SetsTorch(rest[j], TRUE)
      <4> SUFFICES ASSUME NEW j \in 1 .. k, j > m PROVE ~ SetsTorch(rest[j], TRUE)
        OBVIOUS
      <4>1. j + 1 \in 1 .. k + 1 /\ j + 1 > i
        BY <1>1, <3>1
      <4> QED BY <1>2, <2>1, <4>1
    <3> QED BY <1>2, <2>1, <3>1, <3>2 DEF EndsOff
  <2> QED BY <2>2, <2>3
<1> QED BY <1>2, <1>4, <1>5 DEF rest

\* Only a torch that goes on lights one.
Dark == ~ Torch(lights) /\ ~ TorchShown

LEMMA StaysDark ==
    ASSUME IInv, IInv', Dark, NEW action \in QueuedAction, ~ SetsTorch(action, TRUE),
           \/ action.do = "capsLock" /\ handleCapsLock(action.state)
           \/ action.do = "setBlock" /\ handleSetBlockRGB(action.step)
           \/ action.do = "clearBlock" /\ handleClearBlock
           \/ action.do = "pushBlock" /\ handlePushBlock
           \/ action.do = "torch" /\ handleTorch(action.on)
           \/ action.do = "call" /\ handleCall(action.earpiece, action.leftUp)
    PROVE  Dark'
<1>1. lights \in Lights /\ lights.steps \in Seq(BlockAnimStep)
  BY DEF IInv, TypeOK, Lights
<1>2. ASSUME ~ Torch(lights)', shown' = shown \/ shown' = {lights'} PROVE Dark'
  BY <1>2 DEF Dark, TorchShown, Torch
<1>3. ASSUME lights'.steps = lights.steps PROVE ~ Torch(lights)'
  BY <1>3 DEF Dark, Torch
<1>4. ASSUME lights'.steps = << >> PROVE ~ Torch(lights)'
  <2>1. DOMAIN << >> = {}
    OBVIOUS
  <2> QED BY <1>4, <2>1 DEF Torch
<1>5. CASE action.do = "capsLock" /\ handleCapsLock(action.state)
  <2>1. lights'.steps = lights.steps /\ shown' = {lights'}
    BY <1>1, <1>5 DEF handleCapsLock, Update, Lights
  <2> QED BY <1>2, <1>3, <2>1
<1>6. CASE action.do = "setBlock" /\ handleSetBlockRGB(action.step)
  <2>1. action.step \in Steps
    BY <1>6 DEF QueuedAction
  <2>2. action.step \in BlockAnimStep /\ action.step.led # 31
    BY <2>1, StepsAssumption DEF IsBlockStep
  <2>3. lights'.steps = Append(lights.steps, action.step) /\ shown' = shown
    BY <1>1, <1>6 DEF handleSetBlockRGB, Lights
  <2>4. \A i \in DOMAIN lights'.steps :
          lights'.steps[i] = action.step \/ \E j \in DOMAIN lights.steps : lights'.steps[i] = lights.steps[j]
    <3>1. /\ Len(lights.steps) \in Nat /\ DOMAIN lights.steps = 1 .. Len(lights.steps)
          /\ DOMAIN lights'.steps = 1 .. Len(lights.steps) + 1
          /\ \A i \in 1 .. Len(lights.steps) : lights'.steps[i] = lights.steps[i]
          /\ lights'.steps[Len(lights.steps) + 1] = action.step
      BY <1>1, <2>2, <2>3, AppendProperties, LenProperties
    <3>2. \A i \in 1 .. Len(lights.steps) + 1 : i = Len(lights.steps) + 1 \/ i \in 1 .. Len(lights.steps)
      BY <3>1
    <3> QED BY <3>1, <3>2
  <2>5. ~ Torch(lights)'
    BY <2>2, <2>4 DEF Dark, Torch
  <2> QED BY <1>2, <2>3, <2>5
<1>7. CASE action.do = "clearBlock" /\ handleClearBlock
  <2>1. lights'.steps = << >> /\ shown' = shown
    BY <1>1, <1>7 DEF handleClearBlock, Lights
  <2> QED BY <1>2, <1>4, <2>1
<1>8. CASE action.do = "pushBlock" /\ handlePushBlock
  <2>1. lights'.steps = lights.steps /\ shown' = {lights'}
    BY <1>8 DEF handlePushBlock, Update
  <2> QED BY <1>2, <1>3, <2>1
<1>9. CASE action.do = "torch" /\ handleTorch(action.on)
  <2>1. action.on = FALSE
    BY <1>9 DEF QueuedAction, SetsTorch
  <2>2. lights'.steps = << >> /\ shown' = {lights'}
    BY <1>1, <1>9, <2>1 DEF handleTorch, Update, When, Lights
  <2> QED BY <1>2, <1>4, <2>2
<1>10. CASE action.do = "call" /\ handleCall(action.earpiece, action.leftUp)
  <2>1. lights'.steps = lights.steps /\ shown' = {lights'}
    BY <1>1, <1>10 DEF handleCall, Update, Lights
  <2> QED BY <1>2, <1>3, <2>1
<1> QED BY <1>5, <1>6, <1>7, <1>8, <1>9, <1>10

\* The torch going off leaves the dark.
LEMMA OffLeavesDark ==
    ASSUME IInv, handleTorch(FALSE)
    PROVE  Dark'
<1>1. lights \in Lights
  BY DEF IInv, TypeOK
<1>2. lights'.steps = << >> /\ shown' = {lights'}
  BY <1>1 DEF handleTorch, Update, When, Lights
<1>3. DOMAIN << >> = {}
  OBVIOUS
<1> QED BY <1>2, <1>3 DEF Dark, TorchShown, Torch

TorchInv ==
    /\ timers \in Nat
    /\ TorchesTimed => \/ timers > 0
                       \/ EndsOff(action_queue)
                       \/ Dark /\ NoTorchIn(action_queue)

LEMMA InitTorchInv == LEDsInit => TorchInv
<1> SUFFICES ASSUME LEDsInit PROVE TorchInv
  OBVIOUS
<1>1. DOMAIN << >> = {}
  OBVIOUS
<1>2. ~ Torch(lights)
  BY <1>1 DEF LEDsInit, Init, Constructed, Torch
<1> QED BY <1>1, <1>2 DEF LEDsInit, Init, TorchInv, Dark, TorchShown, NoTorchIn

\* What a method call enqueues is no torch that goes on, or sets a timer.
LEMMA MethodTorch ==
    ASSUME LEDsInv, TorchInv, NEW r \in Requests, dbus_method_call(r)
    PROVE  TorchInv'
<1>1. action_queue \in Seq(QueuedAction) /\ timers \in Nat /\ UNCHANGED <<lights, shown>>
  BY DEF LEDsInv, QueueOK, TorchInv, dbus_method_call
<1>2. Dark' <=> Dark
  BY <1>1 DEF Dark, TorchShown, Torch
<1>3. ASSUME NEW a \in QueuedAction, ~ SetsTorch(a, TRUE),
             action_queue' = Append(action_queue, a), timers' = timers
      PROVE  TorchInv'
  BY <1>1, <1>2, <1>3, AppendTorch DEF TorchInv
<1>4. ASSUME UNCHANGED <<action_queue, timers>> PROVE TorchInv'
  BY <1>2, <1>4 DEF TorchInv
<1>5. CASE r.method = "SetCapsLock" /\ SetCapsLock(r.state)
  <2> DEFINE a == [do |-> "capsLock", state |-> r.state]
  <2>1. a \in QueuedAction /\ ~ SetsTorch(a, TRUE)
    BY <1>5, RequestsAssumption DEF QueuedAction, SetsTorch
  <2> QED BY <1>3, <1>5, <2>1 DEF SetCapsLock, enqueue_action
<1>6. CASE r.method = "SetLEDBlockStep" /\ SetLEDBlockStep(r.step)
  <2> DEFINE a == [do |-> "setBlock", step |-> r.step]
  <2>1. r.step \in [led : Nat, colour : Nat, type : Nat, value : Nat]
    BY <1>6, RequestsAssumption
  <2>2. CASE IsBlockStep(r.step)
    <3>1. a \in QueuedAction /\ ~ SetsTorch(a, TRUE)
      BY <1>6, <2>2, StepsOfRequests DEF QueuedAction, SetsTorch
    <3>2. action_queue' = Append(action_queue, a) /\ timers' = timers
      BY <1>6, <2>1, <2>2, VerifiedIsBlockStep DEF SetLEDBlockStep, enqueue_action
    <3> QED BY <1>3, <3>1, <3>2
  <2>3. CASE ~ IsBlockStep(r.step)
    <3>1. UNCHANGED <<action_queue, timers>>
      BY <1>6, <2>1, <2>3, VerifiedIsBlockStep DEF SetLEDBlockStep
    <3> QED BY <1>4, <3>1
  <2> QED BY <2>2, <2>3
<1>7. CASE r.method = "ClearLEDBlockAnimation" /\ ClearLEDBlockAnimation
  <2> DEFINE a == [do |-> "clearBlock"]
  <2>1. a \in QueuedAction /\ ~ SetsTorch(a, TRUE)
    BY DEF QueuedAction, SetsTorch
  <2> QED BY <1>3, <1>7, <2>1 DEF ClearLEDBlockAnimation, enqueue_action
<1>8. CASE r.method = "PushLEDBlockAnimation" /\ PushLEDBlockAnimation
  <2> DEFINE a == [do |-> "pushBlock"]
  <2>1. a \in QueuedAction /\ ~ SetsTorch(a, TRUE)
    BY DEF QueuedAction, SetsTorch
  <2> QED BY <1>3, <1>8, <2>1 DEF PushLEDBlockAnimation, enqueue_action
<1>9. CASE r.method = "SetTorch" /\ SetTorch(r.on, r.duration)
  <2> DEFINE a == [do |-> "torch", on |-> r.on, by |-> "client"]
  <2>1. r.on \in BOOLEAN /\ r.duration \in Nat
    BY <1>9, RequestsAssumption
  <2>2. a \in QueuedAction /\ a.do = "torch" /\ a.on = r.on
    BY <2>1 DEF QueuedAction
  <2>3. /\ action_queue' = Append(action_queue, a)
        /\ timers' = timers + IF r.on /\ r.duration > 0 THEN 1 ELSE 0
    BY <1>9 DEF SetTorch, enqueue_action
  <2> HIDE DEF a
  <2>4. CASE r.on = FALSE
    <3>1. timers' \in Nat
      BY <1>1, <2>3, <2>4
    <3>2. SetsTorch(a, FALSE)
      BY <2>2, <2>4 DEF SetsTorch
    <3> QED BY <1>1, <2>2, <2>3, <3>1, <3>2, AppendTorch DEF TorchInv
  <2>5. CASE r.on = TRUE
    <3>1. timers' \in Nat /\ (r.duration > 0 => timers' > 0)
      BY <1>1, <2>3, <2>5
    <3>2. TorchesTimed => r.duration > 0
      BY <1>9, <2>5 DEF TorchesTimed
    <3> QED BY <3>1, <3>2 DEF TorchInv, TorchesTimed
  <2> QED BY <2>1, <2>4, <2>5
<1>10. CASE r.method = "SetCall" /\ SetCall(r.earpiece, r.leftUp)
  <2> DEFINE a == [do |-> "call", earpiece |-> r.earpiece, leftUp |-> r.leftUp]
  <2>1. a \in QueuedAction /\ ~ SetsTorch(a, TRUE)
    BY <1>10, RequestsAssumption DEF QueuedAction, SetsTorch
  <2> QED BY <1>3, <1>10, <2>1 DEF SetCall, enqueue_action
<1>11. CASE r.method = "other" /\ UNCHANGED <<action_queue, timers, wanted>>
  BY <1>4, <1>11
<1> QED BY <1>5, <1>6, <1>7, <1>8, <1>9, <1>10, <1>11 DEF dbus_method_call

LEMMA TimerTorch ==
    ASSUME LEDsInv, TorchInv, TorchTimer
    PROVE  TorchInv'
<1> DEFINE a == [do |-> "torch", on |-> FALSE, by |-> "timer"]
<1>1. a \in QueuedAction /\ SetsTorch(a, FALSE)
  BY DEF QueuedAction, SetsTorch
<1>2. action_queue' = Append(action_queue, a) /\ timers' = timers - 1 /\ timers > 0
  BY DEF TorchTimer, enqueue_action
<1>3. timers' \in Nat
  BY <1>2 DEF TorchInv
<1>4. EndsOff(action_queue')
  BY <1>1, <1>2, AppendTorch DEF LEDsInv, QueueOK
<1> QED BY <1>3, <1>4 DEF TorchInv

LEMMA RunTorch ==
    ASSUME LEDsInv, IInv, IInv', TorchInv, RunAction
    PROVE  TorchInv'
<1> DEFINE ev == Head(action_queue)
<1>1. /\ action_queue \in Seq(QueuedAction) /\ action_queue # << >>
      /\ action_queue' = Tail(action_queue) /\ timers' = timers
  BY DEF RunAction, LEDsInv, QueueOK
<1>2. ev \in QueuedAction
  BY <1>1, HeadTailProperties
<1>3. \/ ev.do = "capsLock" /\ handleCapsLock(ev.state)
      \/ ev.do = "setBlock" /\ handleSetBlockRGB(ev.step)
      \/ ev.do = "clearBlock" /\ handleClearBlock
      \/ ev.do = "pushBlock" /\ handlePushBlock
      \/ ev.do = "torch" /\ handleTorch(ev.on)
      \/ ev.do = "call" /\ handleCall(ev.earpiece, ev.leftUp)
  BY DEF RunAction
<1> HIDE DEF ev
<1>4. CASE EndsOff(action_queue)
  <2>1. CASE EndsOff(action_queue')
    BY <1>1, <2>1 DEF TorchInv
  <2>2. CASE SetsTorch(ev, FALSE) /\ NoTorchIn(action_queue')
    <3>1. handleTorch(FALSE)
      BY <1>3, <2>2 DEF SetsTorch
    <3> QED BY <1>1, <2>2, <3>1, OffLeavesDark DEF TorchInv
  <2> QED BY <1>1, <1>4, <2>1, <2>2, TailTorch DEF ev
<1>5. CASE Dark /\ NoTorchIn(action_queue)
  <2>1. ~ SetsTorch(ev, TRUE) /\ NoTorchIn(action_queue')
    BY <1>1, <1>5, TailTorch DEF ev
  <2>2. Dark'
    BY <1>2, <1>3, <1>5, <2>1, StaysDark
  <2> QED BY <1>1, <2>1, <2>2 DEF TorchInv
<1>6. CASE timers > 0
  BY <1>1, <1>6 DEF TorchInv
<1>7. CASE ~ TorchesTimed
  BY <1>1, <1>7 DEF TorchInv, TorchesTimed
<1> QED BY <1>4, <1>5, <1>6, <1>7 DEF TorchInv

LEMMA NextTorchInv == LEDsInv /\ IInv /\ IInv' /\ TorchInv /\ [LEDsNext]_ledsVars => TorchInv'
<1> SUFFICES ASSUME LEDsInv, IInv, IInv', TorchInv, [LEDsNext]_ledsVars PROVE TorchInv'
  OBVIOUS
<1>1. CASE UNCHANGED ledsVars
  <2>1. Dark' <=> Dark
    BY <1>1 DEF ledsVars, Dark, TorchShown, Torch
  <2> QED BY <1>1, <2>1 DEF ledsVars, TorchInv
<1>2. ASSUME NEW tech \in Technology, NEW powered \in BOOLEAN, saveStateForPath(tech, powered)
      PROVE  TorchInv'
  <2>1. UNCHANGED <<action_queue, timers>> /\ handleConnectivity(tech, powered)
    BY <1>2 DEF saveStateForPath
  <2>2. lights \in Lights
    BY DEF IInv, TypeOK
  <2>3. lights'.steps = lights.steps /\ shown' = {lights'}
    BY <2>1, <2>2 DEF handleConnectivity, Update, Lights
  <2>4. Dark => Dark'
    BY <2>3 DEF Dark, TorchShown, Torch
  <2> QED BY <2>1, <2>4 DEF TorchInv
<1> QED BY <1>1, <1>2, MethodTorch, TimerTorch, RunTorch DEF LEDsNext

\* If every torch is asked for with a duration, a torch that burns, or will, always
\* has its end before it, for any calls and timers (LEDs.cpp:166-178).
THEOREM TorchesHaveAnEnd == LEDsSpec => []TorchHasEnd
<1>1. Spec => []IInv
  BY Invariance
<1>2. LEDsSpec => []TorchInv
  BY <1>1, InitTorchInv, NextTorchInv, LEDsInvariance, LEDsImplementsLightState, PTL
     DEF LEDsSpec
<1>3. TorchInv => TorchHasEnd
  BY DEF TorchInv, TorchHasEnd, Dark
<1> QED BY <1>2, <1>3, PTL

=============================================================================
