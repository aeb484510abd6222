-------------------------- MODULE LightProgramProofs --------------------------
(***************************************************************************)
(* What the program Update() writes is, for every SRAM size and every      *)
(* sequence of steps: instructions that never carry into one another, a    *)
(* wait in the loop, and one jump at the end of what the SRAM holds.  And  *)
(* what can be seen of each channel while the program goes round.          *)
(***************************************************************************)
EXTENDS LightProgram, SequenceTheorems, WellFoundedInduction, TLAPS

-----------------------------------------------------------------------------
(* Sequences of instructions that are not jumps *)

Instruction == {w \in Nat : 256 <= w /\ w <= 65535}

Short(words, n) == words \in Seq(Instruction) /\ Len(words) <= n

HasWait(words) == \E i \in 1 .. Len(words) : IsWait(words[i])

LEMMA ShortConcat ==
    ASSUME NEW m \in Nat, NEW n \in Nat, NEW u, NEW v, Short(u, m), Short(v, n)
    PROVE  Short(u \o v, m + n)
<1>1. u \in Seq(Instruction) /\ v \in Seq(Instruction)
    BY DEF Short
<1>2. u \o v \in Seq(Instruction) /\ Len(u \o v) = Len(u) + Len(v)
    BY <1>1, ConcatProperties
<1>3. Len(u) \in Nat /\ Len(v) \in Nat
    BY <1>1, LenProperties
<1> QED BY <1>2, <1>3 DEF Short

LEMMA ShortWhen ==
    ASSUME NEW n \in Nat, NEW c, NEW words, c => Short(words, n)
    PROVE  Short(When(c, words), n)
<1>1. Short(<< >>, n)
    BY EmptySeq DEF Short
<1> QED BY <1>1 DEF When

LEMMA WaitConcat ==
    ASSUME NEW u \in Seq(Instruction), NEW v \in Seq(Instruction),
           HasWait(u) \/ HasWait(v)
    PROVE  HasWait(u \o v)
<1>1. /\ Len(u \o v) = Len(u) + Len(v)
      /\ \A i \in 1 .. Len(u) + Len(v) :
            (u \o v)[i] = IF i <= Len(u) THEN u[i] ELSE v[i - Len(u)]
    BY ConcatProperties
<1>2. Len(u) \in Nat /\ Len(v) \in Nat
    BY LenProperties
<1>3. CASE HasWait(u)
  <2>1. PICK i \in 1 .. Len(u) : IsWait(u[i])
    BY <1>3 DEF HasWait
  <2>2. i \in 1 .. Len(u \o v) /\ (u \o v)[i] = u[i]
    BY <1>1, <1>2
  <2> QED BY <2>1, <2>2 DEF HasWait
<1>4. CASE HasWait(v)
  <2>1. PICK i \in 1 .. Len(v) : IsWait(v[i])
    BY <1>4 DEF HasWait
  <2>2. Len(u) + i \in 1 .. Len(u \o v) /\ (u \o v)[Len(u) + i] = v[i]
    BY <1>1, <1>2
  <2> QED BY <2>1, <2>2 DEF HasWait
<1> QED BY <1>3, <1>4

-----------------------------------------------------------------------------
(* The words of a program *)

\* Steps as LEDs lets them through, or the torch's.
StepOK(step) == IsBlockStep(step) \/ step = TorchStep

LightsOK(s) ==
    /\ s \in Lights
    /\ \A i \in DOMAIN s.steps : StepOK(s.steps[i])

\* A word that sets a level: an opcode, a channel and a value, added up.
LevelWord(w, opcode, channel, value) ==
    /\ opcode \in {160, 192, 224} /\ channel \in 0 .. 31 /\ value \in 0 .. 255
    /\ w = opcode * 256 + channel * 256 + value

\* They do not carry into one another.
LEMMA LevelDecoded ==
    ASSUME NEW w, NEW opcode, NEW channel, NEW value, LevelWord(w, opcode, channel, value)
    PROVE  /\ w \in Instruction /\ IsLevel(w) /\ ~ IsWait(w) /\ ChannelOf(w) = channel
           /\ opcode = 160 => LevelOf(w) = value
           /\ opcode = 224 => LevelOf(w) = 255
           /\ opcode = 192 => LevelOf(w) = 0
<1> DEFINE high == opcode + channel
<1>1. /\ opcode \in {160, 192, 224} /\ channel \in 0 .. 31 /\ value \in 0 .. 255
      /\ w = opcode * 256 + channel * 256 + value
  BY DEF LevelWord
<1>2. high \in Nat /\ high \in opcode .. opcode + 31 /\ high % 32 = channel
  BY <1>1
<1>3. w = high * 256 + value
  BY <1>1
<1> HIDE DEF high
<1>4. w \in opcode * 256 .. opcode * 256 + 8191
  BY <1>1, <1>2, <1>3
<1>5. w \div 256 = high /\ w % 256 = value
  <2>1. w \in Nat /\ high * 256 <= w /\ w < (high + 1) * 256
    BY <1>1, <1>2, <1>3
  <2>2. high \in Nat /\ value \in 0 .. 255
    BY <1>1, <1>2
  <2>3. w \div 256 = high
    BY <2>1, <2>2
  <2> QED BY <1>3, <2>1, <2>2, <2>3
<1>6. ChannelOf(w) = channel
  BY <1>2, <1>5 DEF ChannelOf
<1>7. w \in Nat /\ 40960 <= w /\ w <= 65535
  BY <1>1, <1>4
<1>8. w \in Instruction /\ IsLevel(w)
  BY <1>7 DEF Instruction, IsLevel, SETPWMI
<1>9. ~ IsWait(w)
  BY <1>7 DEF IsWait, WAITI, WAIT_PRE_16MS, MAX_WAIT
<1>10. ASSUME opcode = 160 PROVE LevelOf(w) = value
  <2>1. w <= 49151
    BY <1>4, <1>10
  <2> QED BY <1>5, <1>7, <2>1 DEF LevelOf, RAMPI_IN, RAMPI_OUT
<1>11. ASSUME opcode = 224 PROVE LevelOf(w) = 255
  <2>1. w >= 57344
    BY <1>4, <1>11
  <2> QED BY <1>7, <2>1 DEF LevelOf, RAMPI_IN, RAMPI_OUT
<1>12. ASSUME opcode = 192 PROVE LevelOf(w) = 0
  <2>1. w >= 49152 /\ w <= 57343
    BY <1>4, <1>12
  <2> QED BY <1>7, <2>1 DEF LevelOf, RAMPI_IN, RAMPI_OUT
<1> QED BY <1>6, <1>8, <1>9, <1>10, <1>11, <1>12

\* A step that passed LEDs' tests becomes one instruction that is no jump: a wait
\* if it is a delay, otherwise a level of a channel below the indicators'.  The
\* sums of opcode, channel and value never carry into one another.
THEOREM StepsStayInTheBlock ==
    ASSUME NEW step, IsBlockStep(step)
    PROVE  /\ StepWord(step) \in Instruction
           /\ step.type = BlockStepDelay => IsWait(StepWord(step))
           /\ step.type # BlockStepDelay =>
                /\ IsLevel(StepWord(step))
                /\ ChannelOf(StepWord(step)) \in 0 .. 14
                /\ AWLEDCodeForStep(step) = ChannelOf(StepWord(step)) * 256
                /\ step.type = BlockStepSetPWM => LevelOf(StepWord(step)) = step.value
                /\ step.type = BlockStepFadeIn => LevelOf(StepWord(step)) = 255
                /\ step.type = BLockStepFadeOut => LevelOf(StepWord(step)) = 0
<1>1. /\ step.led \in 1 .. 5 /\ step.colour \in Nat
      /\ step.type \in 0 .. 3 /\ step.value \in 0 .. 1023
      /\ step.type = 3 \/ step.value \in 0 .. 255
    BY DEF IsBlockStep, BlockAnimStep, BlockStepDelay
<1>2. PICK channel \in 0 .. 14 : AWLEDCodeForStep(step) = channel * 256
  <2>1. \E colour \in 0 .. 2 :
          (CASE step.colour = 2 -> 512 [] step.colour = 1 -> 256 [] OTHER -> 0)
            = colour * 256
    BY <1>1
  <2>2. \E first \in {0, 3, 6, 9, 12} :
          (IF step.led = 2 THEN 3072
           ELSE IF step.led > 2 /\ step.led < 6 THEN (step.led - 2) * 3 * 256
           ELSE IF step.led = 31 /\ step.colour = 0 THEN 7936
           ELSE 0) = first * 256
    BY <1>1
  <2> QED BY <2>1, <2>2 DEF AWLEDCodeForStep, CH_ALL_LEDS
<1> USE DEF BlockStepDelay, BlockStepSetPWM, BlockStepFadeIn, BLockStepFadeOut
<1>3. CASE step.type = 3
  <2>1. StepWord(step) = 15360 + step.value
    BY <1>3 DEF StepWord, WAITI, WAIT_PRE_16MS
  <2>2. StepWord(step) \in 15360 .. 16383
    BY <1>1, <2>1
  <2>3. IsWait(StepWord(step)) /\ StepWord(step) \in Instruction
    BY <2>2 DEF IsWait, WAITI, WAIT_PRE_16MS, MAX_WAIT, Instruction
  <2> QED BY <1>3, <2>3
<1>4. CASE step.type = 0
  <2> DEFINE w == StepWord(step)
             value == step.value
  <2>1. w = 160 * 256 + channel * 256 + value
    BY <1>2, <1>4 DEF StepWord, SETPWMI
  <2>2. value \in 0 .. 255
    BY <1>1, <1>4
  <2> HIDE DEF w, value
  <2>3. LevelWord(w, 160, channel, value)
    BY <2>1, <2>2 DEF LevelWord
  <2>4. /\ w \in Instruction /\ IsLevel(w) /\ ChannelOf(w) = channel
        /\ LevelOf(w) = value
    BY <2>3, LevelDecoded
  <2> QED BY <1>2, <1>4, <2>4 DEF w, value
<1>5. CASE step.type = 1
  <2> DEFINE w == StepWord(step)
             value == step.value
  <2>1. w = 224 * 256 + channel * 256 + value
    BY <1>2, <1>5 DEF StepWord, RAMPI_IN
  <2>2. value \in 0 .. 255
    BY <1>1, <1>5
  <2> HIDE DEF w, value
  <2>3. LevelWord(w, 224, channel, value)
    BY <2>1, <2>2 DEF LevelWord
  <2>4. /\ w \in Instruction /\ IsLevel(w) /\ ChannelOf(w) = channel
        /\ LevelOf(w) = 255
    BY <2>3, LevelDecoded
  <2> QED BY <1>2, <1>5, <2>4 DEF w, value
<1>6. CASE step.type = 2
  <2> DEFINE w == StepWord(step)
             value == step.value
  <2>1. w = 192 * 256 + channel * 256 + value
    BY <1>2, <1>6 DEF StepWord, RAMPI_OUT
  <2>2. value \in 0 .. 255
    BY <1>1, <1>6
  <2> HIDE DEF w, value
  <2>3. LevelWord(w, 192, channel, value)
    BY <2>1, <2>2 DEF LevelWord
  <2>4. /\ w \in Instruction /\ IsLevel(w) /\ ChannelOf(w) = channel
        /\ LevelOf(w) = 0
    BY <2>3, LevelDecoded
  <2> QED BY <1>2, <1>6, <2>4 DEF w, value
<1> QED BY <1>1, <1>3, <1>4, <1>5, <1>6

LEMMA StepWordsShort ==
    ASSUME NEW s, LightsOK(s)
    PROVE  /\ Short(StepWords(s.steps), Len(s.steps))
           /\ Len(StepWords(s.steps)) = Len(s.steps)
           /\ delaySet(s.steps) => HasWait(StepWords(s.steps))
<1> DEFINE n == Len(s.steps)
<1>1. n \in Nat /\ DOMAIN s.steps = 1 .. n
    BY LenProperties DEF LightsOK, Lights
<1>2. StepWord(TorchStep) \in Instruction
  <2>1. AWLEDCodeForStep(TorchStep) = 7936
    BY DEF AWLEDCodeForStep, TorchStep, CH_ALL_LEDS
  <2>2. StepWord(TorchStep) = 40960 + 7936 + 255
    BY <2>1 DEF StepWord, TorchStep, SETPWMI, BlockStepDelay, BlockStepSetPWM,
                BlockStepFadeIn, BLockStepFadeOut
  <2> QED BY <2>2 DEF Instruction
<1>3. \A i \in 1 .. n : StepWord(s.steps[i]) \in Instruction
    BY <1>1, <1>2, StepsStayInTheBlock DEF LightsOK, StepOK
<1>4. StepWords(s.steps) \in [1 .. n -> Instruction]
    BY <1>3 DEF StepWords
<1>5. StepWords(s.steps) \in Seq(Instruction) /\ Len(StepWords(s.steps)) = n
    BY <1>1, <1>4
<1>6. ASSUME delaySet(s.steps) PROVE HasWait(StepWords(s.steps))
  <2>1. PICK i \in 1 .. n : s.steps[i].type = BlockStepDelay
    BY <1>6 DEF delaySet
  <2>2. IsBlockStep(s.steps[i])
    BY <1>1, <2>1 DEF LightsOK, StepOK, TorchStep, BlockStepDelay, BlockStepSetPWM
  <2>3. IsWait(StepWord(s.steps[i]))
    BY <2>1, <2>2, StepsStayInTheBlock
  <2> QED BY <1>5, <2>3 DEF HasWait, StepWords
<1> QED BY <1>1, <1>5, <1>6 DEF Short

LEMMA PreludeShort ==
    ASSUME NEW s, LightsOK(s)
    PROVE  Short(Prelude(s), 6)
<1> USE DEF SETPWMI, CH_6_RED, CH_6_GREEN, CH_6_BLUE, CH_7_RED, CH_7_BLUE,
            CH_ALL_LEDS, SET_STEP_TMRI, Instruction
<1> DEFINE head == <<SET_STEP_TMRI + CH_ALL_LEDS + 3, SETPWMI + CH_ALL_LEDS>>
           red == <<SETPWMI + CH_6_RED + 160>>
           green == <<SETPWMI + CH_6_GREEN + 80>>
           blue == <<SETPWMI + CH_6_BLUE
                     + IF s.connectivity["wifi"] THEN 192 ELSE 255>>
           caps == <<SETPWMI + CH_7_RED + 160>>
           power == <<SETPWMI + CH_7_BLUE + 255>>
           conn == s.connectivity
<1>1. Short(head, 2)
    BY DEF Short
<1>2. Short(red, 1) /\ Short(green, 1) /\ Short(blue, 1) /\ Short(caps, 1)
    BY DEF Short
<1>3. Short(When(conn["cellular"], red) \o When(conn["wifi"], green)
              \o When(conn["bluetooth"], blue), 3)
  <2>1. Short(When(conn["cellular"], red) \o When(conn["wifi"], green), 1 + 1)
    <3>1. Short(When(conn["cellular"], red), 1) /\ Short(When(conn["wifi"], green), 1)
        BY <1>2, ShortWhen
    <3> QED BY <3>1, ShortConcat
  <2>2. Short(When(conn["bluetooth"], blue), 1)
    BY <1>2, ShortWhen
  <2>3. Short(When(conn["cellular"], red) \o When(conn["wifi"], green)
              \o When(conn["bluetooth"], blue), 2 + 1)
    BY <2>1, <2>2, ShortConcat
  <2> QED BY <2>3
<1>4. Short(CallWords(s), 3)
  <2> DEFINE up == <<SETPWMI + CH_6_RED + 160, SETPWMI + CH_6_GREEN>>
             down == <<SETPWMI + CH_6_RED, SETPWMI + CH_6_GREEN + 80>>
  <2>1. Short(up, 3) /\ Short(down, 3)
    BY DEF Short
  <2>2. CallWords(s) = IF s.callLeftUp THEN up ELSE down
    BY DEF CallWords
  <2> HIDE DEF up, down
  <2> QED BY <2>1, <2>2
<1>5. Short(IF s.callEarpiece THEN CallWords(s) ELSE ConnectivityWords(s), 3)
    BY <1>3, <1>4 DEF ConnectivityWords
<1>6. Short(When(s.capsLock, caps), 1) /\ Short(When(powerState # 0, power), 0)
  <2>1. Short(When(s.capsLock, caps), 1)
    BY <1>2, ShortWhen
  <2>2. When(powerState # 0, power) = << >>
    BY DEF When, powerState
  <2>3. Short(<< >>, 0)
    BY EmptySeq DEF Short
  <2> QED BY <2>1, <2>2, <2>3
<1>7. Short(head \o (IF s.callEarpiece THEN CallWords(s) ELSE ConnectivityWords(s)), 2 + 3)
    BY <1>1, <1>5, ShortConcat
<1>8. Short(head \o (IF s.callEarpiece THEN CallWords(s) ELSE ConnectivityWords(s))
              \o When(s.capsLock, caps), 5 + 1)
    BY <1>6, <1>7, ShortConcat
<1>9. Short(head \o (IF s.callEarpiece THEN CallWords(s) ELSE ConnectivityWords(s))
              \o When(s.capsLock, caps) \o When(powerState # 0, power), 6 + 0)
    BY <1>6, <1>8, ShortConcat
<1> QED BY <1>9 DEF Prelude

LEMMA Single ==
    ASSUME NEW u \in Instruction
    PROVE  Short(<<u>>, 1) /\ (IsWait(u) => HasWait(<<u>>))
<1>1. <<u>> \in Seq(Instruction) /\ Len(<<u>>) = 1 /\ <<u>>[1] = u
    OBVIOUS
<1>2. 1 \in 1 .. Len(<<u>>)
    BY <1>1
<1> QED BY <1>1, <1>2 DEF Short, HasWait

LEMMA Triple ==
    ASSUME NEW u \in Instruction, NEW v \in Instruction, NEW w \in Instruction
    PROVE  Short(<<u, v, w>>, 3) /\ (IsWait(v) => HasWait(<<u, v, w>>))
<1>1. <<u, v, w>> \in Seq(Instruction) /\ Len(<<u, v, w>>) = 3 /\ <<u, v, w>>[2] = v
    OBVIOUS
<1>2. 2 \in 1 .. Len(<<u, v, w>>)
    BY <1>1
<1> QED BY <1>1, <1>2 DEF Short, HasWait

LEMMA BlinkShort ==
    ASSUME NEW c \in BOOLEAN, NEW channel \in Nat, NEW level \in Nat,
           channel <= 4352, level <= 255
    PROVE  Short(Blink(c, channel, level), 3) /\ (c => HasWait(Blink(c, channel, level)))
<1> DEFINE on == SETPWMI + channel + level
           wait == WAITI + WAIT_PRE_16MS + 128
           off == SETPWMI + channel
           words == <<on, wait, off>>
<1>1. on \in Instruction
    BY DEF Instruction, SETPWMI
<1>2. off \in Instruction
    BY DEF Instruction, SETPWMI
<1>3. wait \in Instruction
    BY DEF Instruction, WAITI, WAIT_PRE_16MS
<1>4. IsWait(wait)
    BY DEF IsWait, WAITI, WAIT_PRE_16MS, MAX_WAIT
<1>7. Blink(c, channel, level) = When(c, words)
    BY DEF Blink
<1> HIDE DEF on, wait, off
<1>8. Short(words, 3) /\ HasWait(words)
    BY <1>1, <1>2, <1>3, <1>4, Triple
<1> HIDE DEF words
<1>9. Short(When(c, words), 3)
    BY <1>8, ShortWhen
<1>10. c => HasWait(When(c, words))
    BY <1>8 DEF When
<1> QED BY <1>7, <1>9, <1>10

\* The fallback always waits: for a technology's blink, or because none is on.
LEMMA FallbackShort ==
    ASSUME NEW s, LightsOK(s)
    PROVE  Short(FallbackWords(s), 12) /\ HasWait(FallbackWords(s))
<1> DEFINE idle == WAITI + WAIT_PRE_16MS + MAX_WAIT
           conn == s.connectivity
           off == <<SETPWMI + CH_6_RED, SETPWMI + CH_6_GREEN, SETPWMI + CH_6_BLUE>>
           red == Blink(conn["cellular"], CH_6_RED, 160)
           green == Blink(conn["wifi"], CH_6_GREEN, 80)
           blue == Blink(conn["bluetooth"], CH_6_BLUE, 255)
           none == \A tech \in Technology : ~ conn[tech]
           rest == When(none, <<idle>>)
<1>0. conn \in [Technology -> BOOLEAN]
    BY DEF LightsOK, Lights
<1>1. idle \in Instruction
    BY DEF Instruction, WAITI, WAIT_PRE_16MS, MAX_WAIT
<1>2. IsWait(idle)
    BY DEF IsWait, WAITI, WAIT_PRE_16MS, MAX_WAIT
<1>3. Short(off, 3)
  <2>1. SETPWMI + CH_6_RED \in Instruction
    BY DEF Instruction, SETPWMI, CH_6_RED
  <2>2. SETPWMI + CH_6_GREEN \in Instruction
    BY DEF Instruction, SETPWMI, CH_6_GREEN
  <2>3. SETPWMI + CH_6_BLUE \in Instruction
    BY DEF Instruction, SETPWMI, CH_6_BLUE
  <2> QED BY <2>1, <2>2, <2>3, Triple
<1>4. Short(red, 3) /\ (conn["cellular"] => HasWait(red))
    BY <1>0, BlinkShort DEF CH_6_RED, Technology
<1>5. Short(green, 3) /\ (conn["wifi"] => HasWait(green))
    BY <1>0, BlinkShort DEF CH_6_GREEN, Technology
<1>6. Short(blue, 3) /\ (conn["bluetooth"] => HasWait(blue))
    BY <1>0, BlinkShort DEF CH_6_BLUE, Technology
<1>7. Short(<<idle>>, 1) /\ HasWait(<<idle>>)
    BY <1>1, <1>2, Single
<1>8. FallbackWords(s) = IF s.callEarpiece THEN <<idle>>
                         ELSE off \o red \o green \o blue \o rest
    BY DEF FallbackWords
<1>9. none => red = << >> /\ green = << >> /\ blue = << >>
    BY DEF Blink, When, Technology
<1> HIDE DEF idle, off, red, green, blue
<1>10. CASE s.callEarpiece
  <2>1. FallbackWords(s) = <<idle>>
    BY <1>8, <1>10
  <2>2. Short(FallbackWords(s), 12)
    BY <1>7, <2>1 DEF Short
  <2> QED BY <1>7, <2>1, <2>2
<1>11. CASE ~ s.callEarpiece /\ none
  <2>1. FallbackWords(s) = off \o << >> \o << >> \o << >> \o <<idle>>
    BY <1>8, <1>9, <1>11 DEF When
  <2>2. off \in Seq(Instruction) /\ <<idle>> \in Seq(Instruction)
    BY <1>3, <1>7 DEF Short
  <2>3. off \o << >> = off
    BY <2>2, ConcatEmptySeq
  <2>4. FallbackWords(s) = off \o <<idle>>
    BY <2>1, <2>3
  <2>5. Short(off \o <<idle>>, 3 + 1)
    BY <1>3, <1>7, ShortConcat
  <2>6. HasWait(off \o <<idle>>)
    BY <1>7, <2>2, WaitConcat
  <2> QED BY <2>4, <2>5, <2>6 DEF Short
<1>12. CASE ~ s.callEarpiece /\ ~ none
  <2>1. rest = << >>
    BY <1>12 DEF When
  <2>2. Short(off \o red, 3 + 3)
    BY <1>3, <1>4, ShortConcat
  <2>3. Short(off \o red \o green, 6 + 3)
    BY <1>5, <2>2, ShortConcat
  <2>4. Short(off \o red \o green \o blue, 9 + 3)
    BY <1>6, <2>3, ShortConcat
  <2>5. FallbackWords(s) = off \o red \o green \o blue
    <3>1. off \o red \o green \o blue \o << >> = off \o red \o green \o blue
        BY <2>4, ConcatEmptySeq DEF Short
    <3> QED BY <1>8, <1>12, <2>1, <3>1
  <2>6. HasWait(red) \/ HasWait(green) \/ HasWait(blue)
    BY <1>4, <1>5, <1>6, <1>12 DEF Technology
  <2>7. HasWait(off \o red) \/ HasWait(green) \/ HasWait(blue)
    BY <1>3, <1>4, <2>6, WaitConcat DEF Short
  <2>8. HasWait(off \o red \o green) \/ HasWait(blue)
    BY <1>5, <2>2, <2>7, WaitConcat DEF Short
  <2>9. HasWait(off \o red \o green \o blue)
    BY <1>6, <2>3, <2>8, WaitConcat DEF Short
  <2>10. Short(FallbackWords(s), 12)
    BY <2>4, <2>5
  <2> QED BY <2>5, <2>9, <2>10
<1> QED BY <1>10, <1>11, <1>12

\* The SRAM holds the words, from its start on; what is behind them is left open.
Carries(sram, words) == \A i \in 1 .. Len(words) : sram[i - 1] = words[i]

LEMMA LoadCarries ==
    ASSUME NEW words, Len(words) \in Nat, Len(words) <= SRAM_WORDS
    PROVE  Carries(Load(words), words)
<1> SUFFICES ASSUME NEW i \in 1 .. Len(words) PROVE Load(words)[i - 1] = words[i]
  BY DEF Carries
<1>1. i - 1 \in Address /\ i - 1 < Len(words) /\ (i - 1) + 1 = i
  BY SramAssumption DEF Address
<1> QED BY <1>1 DEF Load

LEMMA LoopShape ==
    ASSUME NEW prelude \in Seq(Instruction), NEW loop \in Seq(Instruction), NEW sram,
           Len(prelude) < 256, HasWait(loop),
           Len(prelude) + Len(loop) < SRAM_WORDS,
           Carries(sram, prelude \o loop \o <<Len(prelude)>>)
    PROVE  RunsForEver(sram)
<1> DEFINE body == prelude \o loop
           words == body \o <<Len(prelude)>>
           start == Len(prelude)
           j == Len(body)
<1>1. start \in Nat /\ Len(loop) \in Nat
    BY LenProperties
<1>2. /\ body \in Seq(Instruction)
      /\ j = start + Len(loop)
      /\ \A i \in 1 .. start + Len(loop) :
            body[i] = IF i <= start THEN prelude[i] ELSE loop[i - start]
    BY ConcatProperties
<1>3. j \in Nat /\ j < SRAM_WORDS /\ start <= j /\ j \in Address
    BY <1>1, <1>2, SramAssumption DEF Address
<1>4. /\ body \in Seq(Nat) /\ <<start>> \in Seq(Nat)
      /\ Len(<<start>>) = 1 /\ <<start>>[1] = start
    BY <1>1, <1>2 DEF Instruction
<1> HIDE DEF body, j, start
<1>5. /\ Len(words) = j + 1
      /\ \A i \in 1 .. j + 1 :
            words[i] = IF i <= j THEN body[i] ELSE <<start>>[i - j]
    BY <1>4, ConcatProperties DEF j, start
<1> HIDE DEF words
<1>6. \A a \in 0 .. j : a \in Address /\ sram[a] = words[a + 1]
  <2> SUFFICES ASSUME NEW a \in 0 .. j PROVE a \in Address /\ sram[a] = words[a + 1]
    OBVIOUS
  <2>1. a \in Address /\ a + 1 \in 1 .. Len(words) /\ (a + 1) - 1 = a
    BY <1>3, <1>5, SramAssumption DEF Address
  <2>2. \A i \in 1 .. Len(words) : sram[i - 1] = words[i]
    BY DEF Carries, words, body
  <2>3. sram[(a + 1) - 1] = words[a + 1]
    BY <2>1, <2>2
  <2> QED BY <2>1, <2>3
<1>7. \A a \in 0 .. j - 1 : sram[a] = body[a + 1] /\ sram[a] \in Instruction
  <2> SUFFICES ASSUME NEW a \in 0 .. j - 1
               PROVE  sram[a] = body[a + 1] /\ sram[a] \in Instruction
    OBVIOUS
  <2>1. a \in 0 .. j /\ a + 1 \in 1 .. j + 1 /\ a + 1 <= j
    BY <1>3
  <2>2. sram[a] = body[a + 1]
    BY <1>5, <1>6, <2>1
  <2>3. body[a + 1] \in Instruction
    BY <1>2, <1>3, <2>1, ElementOfSeq DEF j
  <2> QED BY <2>2, <2>3
<1>8. sram[j] = start
    BY <1>3, <1>4, <1>5, <1>6
<1>9. LoopEndsAt(sram, j)
  <2>1. IsJump(sram[j])
    BY <1>8 DEF IsJump, start
  <2>2. \A a \in 0 .. j - 1 : ~ IsJump(sram[a])
    BY <1>7 DEF IsJump, Instruction
  <2> QED BY <1>3, <1>8, <2>1, <2>2 DEF LoopEndsAt
<1>10. PICK i \in 1 .. Len(loop) : IsWait(loop[i])
    BY DEF HasWait
<1>11. sram[start + i - 1] = loop[i] /\ start + i - 1 \in sram[j] .. j
  <2>1. start + i \in 1 .. start + Len(loop)
    BY <1>1, <1>10
  <2>2. body[start + i] = loop[i]
    <3> DEFINE k == start + i
    <3>1. ~ (k <= start) /\ k - start = i /\ k \in 1 .. start + Len(loop)
      BY <1>1, <1>10, <2>1 DEF start
    <3> HIDE DEF k
    <3>2. body[k] = loop[i]
      BY <1>2, <3>1
    <3> QED BY <3>2 DEF k
  <2>3. start + i - 1 \in 0 .. j - 1 /\ start + i - 1 + 1 = start + i
    BY <1>1, <1>2, <2>1 DEF start
  <2> QED BY <1>1, <1>3, <1>7, <1>8, <1>10, <2>2, <2>3 DEF start
<1>12. RunsForEver(sram)
    BY <1>3, <1>9, <1>10, <1>11 DEF RunsForEver
<1> QED BY <1>12

\* A program that fits: a prelude, a loop of the steps and perhaps the fallback, which
\* waits, and the jump to the start of that loop.
LEMMA ProgramFits ==
    ASSUME NEW s, LightsOK(s), Len(s.steps) + OVERHEAD <= SRAM_WORDS
    PROVE  LET prelude == Prelude(s)
               steps == StepWords(s.steps)
               tail == When(~ delaySet(s.steps), FallbackWords(s))
               loop == steps \o tail
           IN  /\ Program(s) = prelude \o loop \o <<Len(prelude)>>
               /\ prelude \in Seq(Instruction) /\ steps \in Seq(Instruction)
               /\ tail \in Seq(Instruction) /\ loop \in Seq(Instruction)
               /\ HasWait(loop)
               /\ Len(prelude) < 256 /\ Len(prelude) + Len(loop) < SRAM_WORDS
               /\ Program(s) \in Seq(Nat) /\ Len(Program(s)) <= SRAM_WORDS
<1> DEFINE prelude == Prelude(s)
           steps == StepWords(s.steps)
           fallback == FallbackWords(s)
           tail == When(~ delaySet(s.steps), fallback)
           loop == steps \o tail
           body == prelude \o loop
           jump == <<Len(prelude)>>
           n == Len(s.steps)
<1>1. n \in Nat
    BY LenProperties DEF LightsOK, Lights
<1>2. Short(prelude, 6)
    BY PreludeShort
<1>3. Short(steps, n) /\ (delaySet(s.steps) => HasWait(steps))
    BY StepWordsShort
<1>4. Short(tail, 12) /\ (~ delaySet(s.steps) => HasWait(tail))
  <2>1. Short(fallback, 12) /\ HasWait(fallback)
    BY FallbackShort
  <2>2. Short(tail, 12)
    BY <2>1, ShortWhen
  <2> QED BY <2>1, <2>2 DEF When
<1>5. Program(s) = prelude \o steps \o tail \o jump
    BY DEF Program
<1> HIDE DEF prelude, steps, tail, n
<1>6. /\ prelude \in Seq(Instruction) /\ steps \in Seq(Instruction)
      /\ tail \in Seq(Instruction)
    BY <1>2, <1>3, <1>4 DEF Short
<1>7. Program(s) = prelude \o loop \o jump
    BY <1>5, <1>6, ConcatAssociative
<1>8. Short(loop, n + 12)
    BY <1>1, <1>3, <1>4, ShortConcat
<1>9. HasWait(loop)
    BY <1>3, <1>4, <1>6, WaitConcat
<1> HIDE DEF loop
<1>10. loop \in Seq(Instruction)
    BY <1>8 DEF Short
<1>11. Len(prelude) \in Nat /\ Len(prelude) <= 6
    BY <1>2, LenProperties DEF Short
<1>12. Len(loop) \in Nat /\ Len(loop) <= n + 12
    BY <1>8, LenProperties DEF Short
<1>13. Len(prelude) < 256 /\ Len(prelude) + Len(loop) < SRAM_WORDS
  <2>1. n + 19 <= SRAM_WORDS
    BY DEF OVERHEAD, n
  <2> QED BY <1>1, <1>11, <1>12, <2>1, SramAssumption
<1>14. Program(s) \in Seq(Nat) /\ Len(Program(s)) = Len(prelude) + Len(loop) + 1
  <2>1. body \in Seq(Instruction) /\ Len(body) = Len(prelude) + Len(loop)
    BY <1>6, <1>10, ConcatProperties
  <2>2. jump \in Seq(Nat) /\ Len(jump) = 1
    BY <1>11
  <2>3. body \in Seq(Nat)
    BY <2>1 DEF Instruction
  <2> HIDE DEF body, jump
  <2>4. body \o jump \in Seq(Nat) /\ Len(body \o jump) = Len(body) + Len(jump)
    BY <2>2, <2>3, ConcatProperties
  <2> QED BY <1>7, <2>1, <2>2, <2>4 DEF body
<1>15. Program(s) \in Seq(Nat) /\ Len(Program(s)) <= SRAM_WORDS
    BY <1>11, <1>12, <1>13, <1>14, SramAssumption
<1> QED BY <1>6, <1>7, <1>9, <1>10, <1>13, <1>15 DEF prelude, steps, tail, loop

\* However long the animation is, as long as its program fits the SRAM a chip that
\* holds it is in a closed loop that waits: with a delay of the animation's own, or
\* with the fallback's.
THEOREM CarriedLoops ==
    ASSUME NEW s, LightsOK(s), Len(s.steps) + OVERHEAD <= SRAM_WORDS,
           NEW sram, Carries(sram, Program(s))
    PROVE  RunsForEver(sram)
<1> DEFINE prelude == Prelude(s)
           loop == StepWords(s.steps) \o When(~ delaySet(s.steps), FallbackWords(s))
<1>1. /\ Program(s) = prelude \o loop \o <<Len(prelude)>>
      /\ prelude \in Seq(Instruction) /\ loop \in Seq(Instruction) /\ HasWait(loop)
      /\ Len(prelude) < 256 /\ Len(prelude) + Len(loop) < SRAM_WORDS
    BY ProgramFits
<1> HIDE DEF prelude, loop
<1>2. Carries(sram, prelude \o loop \o <<Len(prelude)>>)
    BY <1>1
<1> QED BY <1>1, <1>2, LoopShape

\* Update() leaves the chip so.
THEOREM ProgramLoops ==
    ASSUME NEW s, LightsOK(s), Len(s.steps) + OVERHEAD <= SRAM_WORDS
    PROVE  RunsForEver(Load(Program(s)))
<1>1. Len(Program(s)) \in Nat /\ Len(Program(s)) <= SRAM_WORDS
    BY ProgramFits, LenProperties
<1> QED BY <1>1, LoadCarries, CarriedLoops

\* Every word of a program and every current register fits sixteen bits.
LEMMA ProgramWords ==
    ASSUME NEW s, LightsOK(s)
    PROVE  Load(Program(s)) \in [Address -> Word]
<1> DEFINE prelude == Prelude(s)
           steps == StepWords(s.steps)
           fallback == When(~ delaySet(s.steps), FallbackWords(s))
<1>1. prelude \in Seq(Instruction) /\ Len(prelude) <= 6
    BY PreludeShort DEF Short
<1>2. steps \in Seq(Instruction)
    BY StepWordsShort DEF Short
<1>3. fallback \in Seq(Instruction)
  <2>1. Short(FallbackWords(s), 12)
    BY FallbackShort
  <2> QED BY <2>1, ShortWhen DEF Short
<1>4. \A w \in Instruction : w \in Word
    BY DEF Instruction, Word
<1>5. prelude \in Seq(Word) /\ steps \in Seq(Word) /\ fallback \in Seq(Word)
    BY <1>1, <1>2, <1>3, <1>4
<1>6. Len(prelude) \in Word
    BY <1>1, LenProperties DEF Word
<1>7. <<Len(prelude)>> \in Seq(Word)
    BY <1>6
<1> HIDE DEF prelude, steps, fallback
<1>8. prelude \o steps \o fallback \o <<Len(prelude)>> \in Seq(Word)
    BY <1>5, <1>7, ConcatProperties
<1>9. Program(s) \in Seq(Word)
    BY <1>8 DEF Program, prelude, steps, fallback
<1>10. LeftoverWord \in Word
    BY DEF LeftoverWord, Word
<1>11. ASSUME NEW a \in Address, a < Len(Program(s)) PROVE Program(s)[a + 1] \in Word
  <2>1. Len(Program(s)) \in Nat
    BY <1>9, LenProperties
  <2>2. a \in Nat
    BY SramAssumption DEF Address
  <2>3. a + 1 \in 1 .. Len(Program(s))
    BY <1>11, <2>1, <2>2
  <2> QED BY <1>9, <2>3, ElementOfSeq
<1> QED BY <1>10, <1>11 DEF Load

LEMMA ImaxWords ==
    ASSUME NEW level \in {POWER_LEVEL_20b001s, POWER_LEVEL_20b111s}
    PROVE  Imax(level) \in [1 .. 5 -> Word]
<1>1. level \in Nat /\ level <= 7
    BY DEF POWER_LEVEL_20b001s, POWER_LEVEL_20b111s
<1>2. ASSUME NEW r \in 1 .. 5
      PROVE  maxLED(4 * r, level) + maxLED(4 * r - 1, level)
             + maxLED(4 * r - 2, level) + maxLED(4 * r - 3, level) \in Word
  <2>1. (4 * r) % 4 = 0 /\ (4 * r - 1) % 4 = 3
        /\ (4 * r - 2) % 4 = 2 /\ (4 * r - 3) % 4 = 1
    OBVIOUS
  <2>2. maxLED(4 * r, level) = level
    BY <1>1, <2>1 DEF maxLED
  <2>3. maxLED(4 * r - 1, level) = level * 4096
    BY <1>1, <2>1 DEF maxLED
  <2>4. maxLED(4 * r - 2, level) = level * 256
    BY <1>1, <2>1 DEF maxLED
  <2>5. maxLED(4 * r - 3, level) = level * 16
    BY <1>1, <2>1 DEF maxLED
  <2> QED BY <1>1, <2>2, <2>3, <2>4, <2>5 DEF Word
<1> QED BY <1>2 DEF Imax

-----------------------------------------------------------------------------
(* The last of some places *)

LEMMA LatestIs ==
    ASSUME NEW S \in SUBSET Int, NEW a \in S, \A b \in S : b <= a
    PROVE  LatestIn(S) = a
<1>1. LatestIn(S) \in S /\ \A b \in S : b <= LatestIn(S)
  BY Zenon DEF LatestIn
<1> DEFINE m == LatestIn(S)
<1>2. m \in S /\ m <= a /\ a <= m
  BY <1>1
<1> HIDE DEF m
<1>3. m = a
  <2>1. m \in Int /\ a \in Int
    BY <1>2
  <2> QED BY <1>2, <2>1
<1> QED BY <1>3 DEF m

LEMMA LatestExists ==
    ASSUME NEW n \in Nat, NEW S \in SUBSET (0 .. n), S # {}
    PROVE  LatestIn(S) \in S /\ \A b \in S : b <= LatestIn(S)
<1> DEFINE T == {n - b : b \in S}
<1>1. T \subseteq Nat
  OBVIOUS
<1>2. T # {}
  <2>1. PICK b : b \in S
    OBVIOUS
  <2>2. n - b \in T
    BY <2>1
  <2> QED BY <2>2
<1>3. \E x \in T : \A y \in T : ~ (<<y, x>> \in OpToRel(<, Nat))
  BY <1>1, <1>2, NatLessThanWellFounded, WFMin
<1>4. PICK x \in T : \A y \in T : ~ (y < x)
  BY <1>1, <1>3 DEF OpToRel
<1>5. PICK a \in S : x = n - a
  OBVIOUS
<1>6. \A b \in S : b <= a
  <2> SUFFICES ASSUME NEW b \in S PROVE b <= a
    OBVIOUS
  <2>1. ~ (n - b < x) /\ a \in Int /\ b \in Int
    BY <1>4
  <2> HIDE DEF T
  <2> QED BY <1>5, <2>1
<1>7. S \in SUBSET Int
  OBVIOUS
<1>8. LatestIn(S) = a
  BY <1>6, <1>7, LatestIs
<1> QED BY <1>6, <1>8

LEMMA LatestShifted ==
    ASSUME NEW n \in Nat, NEW S \in SUBSET (0 .. n), S # {}, NEW d \in Int
    PROVE  LatestIn({k + d : k \in S}) = LatestIn(S) + d
<1>1. LatestIn(S) \in S /\ \A b \in S : b <= LatestIn(S)
  BY LatestExists
<1> DEFINE a == LatestIn(S)
           T == {k + d : k \in S}
<1> HIDE DEF a
<1>2. a \in S /\ a \in Int /\ \A b \in S : b <= a /\ b \in Int
  <2>1. a \in S /\ \A b \in S : b <= a
    BY <1>1 DEF a
  <2>2. \A b \in 0 .. n : b \in Int
    OBVIOUS
  <2> QED BY <2>1, <2>2
<1>3. a + d \in T
  BY <1>2
<1>4. T \in SUBSET Int
  BY <1>2
<1>5. ASSUME NEW b \in T PROVE b <= a + d
  <2>1. PICK k \in S : b = k + d
    OBVIOUS
  <2> HIDE DEF T
  <2> QED BY <1>2, <2>1
<1> HIDE DEF T
<1> QED BY <1>3, <1>4, <1>5, LatestIs DEF a, T

-----------------------------------------------------------------------------
(* The levels of a channel along a run of words *)

Driving(words, m, n, ch) == {k \in m .. n : Drives(words[k], ch)}

\* The level of channel ch at the nth word, x before the first of them.
LevelAt(words, n, ch, x) ==
    IF Driving(words, 1, n, ch) = {} THEN x
    ELSE LevelOf(words[LatestIn(Driving(words, 1, n, ch))])

After(words, ch, x) == LevelAt(words, Len(words), ch, x)

Waits(words) == {i \in 1 .. Len(words) : IsWait(words[i])}

Seen(words, ch, x) == {LevelAt(words, i, ch, x) : i \in Waits(words)}

LEMMA DrivenOnce ==
    ASSUME NEW words, NEW n \in Nat, NEW ch, Driving(words, 1, n, ch) # {}
    PROVE  LatestIn(Driving(words, 1, n, ch)) \in Driving(words, 1, n, ch)
<1>1. Driving(words, 1, n, ch) \in SUBSET (0 .. n)
  BY DEF Driving
<1> QED BY <1>1, LatestExists

LEMMA ConcatWords ==
    ASSUME NEW u \in Seq(Instruction), NEW v \in Seq(Instruction)
    PROVE  /\ Len(u) \in Nat /\ Len(v) \in Nat /\ Len(u \o v) = Len(u) + Len(v)
           /\ u \o v \in Seq(Instruction)
           /\ \A i \in 1 .. Len(u) : (u \o v)[i] = u[i]
           /\ \A i \in 1 .. Len(v) : (u \o v)[Len(u) + i] = v[i]
<1>1. /\ Len(u \o v) = Len(u) + Len(v)
      /\ u \o v \in Seq(Instruction)
      /\ \A i \in 1 .. Len(u) + Len(v) :
            (u \o v)[i] = IF i <= Len(u) THEN u[i] ELSE v[i - Len(u)]
  BY ConcatProperties
<1>2. Len(u) \in Nat /\ Len(v) \in Nat
  BY LenProperties
<1>3. \A i \in 1 .. Len(v) : ~ (Len(u) + i <= Len(u)) /\ Len(u) + i - Len(u) = i
                             /\ Len(u) + i \in 1 .. Len(u) + Len(v)
  BY <1>2
<1> QED BY <1>1, <1>2, <1>3

LEMMA LevelBefore ==
    ASSUME NEW u \in Seq(Instruction), NEW v \in Seq(Instruction), NEW ch, NEW x,
           NEW i \in 0 .. Len(u)
    PROVE  LevelAt(u \o v, i, ch, x) = LevelAt(u, i, ch, x)
<1>1. i \in Nat /\ \A k \in 1 .. i : (u \o v)[k] = u[k]
  BY ConcatWords
<1>2. Driving(u \o v, 1, i, ch) = Driving(u, 1, i, ch)
  BY <1>1 DEF Driving
<1>3. CASE Driving(u, 1, i, ch) = {}
  BY <1>2, <1>3 DEF LevelAt
<1>4. CASE Driving(u, 1, i, ch) # {}
  <2>1. LatestIn(Driving(u, 1, i, ch)) \in 1 .. i
    BY <1>1, <1>4, DrivenOnce DEF Driving
  <2> QED BY <1>1, <1>2, <1>4, <2>1 DEF LevelAt
<1> QED BY <1>3, <1>4

LEMMA LevelBeyond ==
    ASSUME NEW u \in Seq(Instruction), NEW v \in Seq(Instruction), NEW ch, NEW x,
           NEW i \in 0 .. Len(v)
    PROVE  LevelAt(u \o v, Len(u) + i, ch, x) = LevelAt(v, i, ch, After(u, ch, x))
<1> DEFINE n == Len(u)
           words == u \o v
           whole == Driving(words, 1, n + i, ch)
           first == Driving(words, 1, n, ch)
           second == Driving(v, 1, i, ch)
<1>1. /\ n \in Nat /\ i \in Nat /\ n + i \in Nat
      /\ \A k \in 1 .. i : words[n + k] = v[k]
  BY ConcatWords
<1>2. LevelAt(words, n, ch, x) = After(u, ch, x)
  BY <1>1, LevelBefore DEF After
<1>3. whole = first \cup {k + n : k \in second}
  <2>1. ASSUME NEW k \in whole PROVE k \in first \cup {l + n : l \in second}
    <3>1. k \in 1 .. n + i /\ Drives(words[k], ch)
      BY DEF Driving
    <3>2. CASE k <= n
      BY <1>1, <3>1, <3>2 DEF Driving
    <3>3. CASE k > n
      <4>1. k - n \in 1 .. i /\ n + (k - n) = k /\ (k - n) + n = k
        BY <1>1, <3>1, <3>3
      <4>2. k - n \in second
        BY <1>1, <3>1, <4>1 DEF Driving
      <4> QED BY <4>1, <4>2
    <3> QED BY <1>1, <3>1, <3>2, <3>3
  <2>2. ASSUME NEW k \in first PROVE k \in whole
    BY <1>1 DEF Driving
  <2>3. ASSUME NEW k \in second PROVE k + n \in whole
    <3>1. k \in 1 .. i /\ Drives(v[k], ch) /\ k + n = n + k /\ k + n \in 1 .. n + i
      BY <1>1 DEF Driving
    <3> QED BY <1>1, <3>1 DEF Driving
  <2> QED BY <2>1, <2>2, <2>3
<1>4. CASE second = {}
  <2>1. whole = first
    BY <1>3, <1>4
  <2>2. LevelAt(words, n + i, ch, x) = LevelAt(words, n, ch, x)
    BY <2>1 DEF LevelAt
  <2> QED BY <1>2, <1>4, <2>2 DEF LevelAt
<1>5. CASE second # {}
  <2> DEFINE m == LatestIn(second)
  <2>1. m \in second /\ \A k \in second : k <= m
    <3>1. second \in SUBSET (0 .. i)
      BY DEF Driving
    <3> QED BY <1>1, <1>5, <3>1, LatestExists
  <2> HIDE DEF m
  <2>2. m \in 1 .. i /\ second \in SUBSET (1 .. i) /\ first \in SUBSET (1 .. n)
    BY <2>1 DEF Driving
  <2> HIDE DEF first, second, whole
  <2>3. m + n \in whole
    BY <1>3, <2>1
  <2>4. ASSUME NEW k \in whole PROVE k <= m + n
    <3>1. CASE k \in first
      BY <1>1, <2>2, <3>1
    <3>2. CASE k \in {l + n : l \in second}
      <4>1. PICK l \in second : k = l + n
        BY <3>2
      <4> QED BY <1>1, <2>1, <2>2, <4>1
    <3> QED BY <1>3, <3>1, <3>2
  <2>5. whole \in SUBSET Int
    BY <1>1 DEF whole, Driving
  <2>6. LatestIn(whole) = m + n
    BY <2>3, <2>4, <2>5, LatestIs
  <2>7. m + n = n + m /\ words[m + n] = v[m]
    BY <1>1, <2>2
  <2>8. LevelAt(words, n + i, ch, x) = LevelOf(v[m])
    BY <2>3, <2>6, <2>7 DEF LevelAt, whole
  <2>9. LevelAt(v, i, ch, After(u, ch, x)) = LevelOf(v[m])
    BY <1>5 DEF LevelAt, second, m
  <2> QED BY <2>8, <2>9
<1> QED BY <1>4, <1>5

LEMMA AfterConcat ==
    ASSUME NEW u \in Seq(Instruction), NEW v \in Seq(Instruction), NEW ch, NEW x
    PROVE  After(u \o v, ch, x) = After(v, ch, After(u, ch, x))
<1>1. Len(v) \in 0 .. Len(v) /\ Len(u \o v) = Len(u) + Len(v)
  BY ConcatWords
<1>2. LevelAt(u \o v, Len(u) + Len(v), ch, x) = LevelAt(v, Len(v), ch, After(u, ch, x))
  BY <1>1, LevelBeyond
<1> QED BY <1>1, <1>2 DEF After

LEMMA SeenConcat ==
    ASSUME NEW u \in Seq(Instruction), NEW v \in Seq(Instruction), NEW ch, NEW x
    PROVE  Seen(u \o v, ch, x) = Seen(u, ch, x) \cup Seen(v, ch, After(u, ch, x))
<1> DEFINE n == Len(u)
           words == u \o v
           y == After(u, ch, x)
<1>1. /\ n \in Nat /\ Len(v) \in Nat /\ Len(words) = n + Len(v)
      /\ \A i \in 1 .. n : words[i] = u[i]
      /\ \A i \in 1 .. Len(v) : words[n + i] = v[i]
  BY ConcatWords
<1>2. \A i \in 1 .. n : LevelAt(words, i, ch, x) = LevelAt(u, i, ch, x)
  BY <1>1, LevelBefore
<1>3. \A i \in 1 .. Len(v) : LevelAt(words, n + i, ch, x) = LevelAt(v, i, ch, y)
  BY <1>1, LevelBeyond
<1> HIDE DEF n, words, y
<1>4. ASSUME NEW i \in Waits(words)
      PROVE  LevelAt(words, i, ch, x) \in Seen(u, ch, x) \cup Seen(v, ch, y)
  <2>1. i \in 1 .. n + Len(v) /\ IsWait(words[i])
    BY <1>1 DEF Waits
  <2>2. CASE i <= n
    <3>1. i \in Waits(u)
      BY <1>1, <2>1, <2>2 DEF Waits, n
    <3> QED BY <1>1, <1>2, <2>1, <2>2, <3>1 DEF Seen
  <2>3. CASE i > n
    <3>1. i - n \in 1 .. Len(v) /\ n + (i - n) = i
      BY <1>1, <2>1, <2>3
    <3>2. i - n \in Waits(v)
      BY <1>1, <2>1, <3>1 DEF Waits
    <3>3. LevelAt(words, i, ch, x) = LevelAt(v, i - n, ch, y)
      BY <1>3, <3>1
    <3> QED BY <3>2, <3>3 DEF Seen
  <2> QED BY <1>1, <2>1, <2>2, <2>3
<1>5. ASSUME NEW i \in Waits(u) PROVE LevelAt(u, i, ch, x) \in Seen(words, ch, x)
  <2>1. i \in 1 .. n /\ IsWait(u[i])
    BY DEF Waits, n
  <2>2. i \in 1 .. n + Len(v)
    BY <1>1, <2>1
  <2>3. i \in Waits(words)
    BY <1>1, <2>1, <2>2 DEF Waits
  <2> QED BY <1>2, <2>1, <2>3 DEF Seen
<1>6. ASSUME NEW i \in Waits(v) PROVE LevelAt(v, i, ch, y) \in Seen(words, ch, x)
  <2>1. i \in 1 .. Len(v) /\ IsWait(v[i])
    BY DEF Waits
  <2>2. n + i \in 1 .. n + Len(v)
    BY <1>1, <2>1
  <2>3. n + i \in Waits(words)
    BY <1>1, <2>1, <2>2 DEF Waits
  <2> QED BY <1>3, <2>1, <2>3 DEF Seen
<1>7. Seen(words, ch, x) = Seen(u, ch, x) \cup Seen(v, ch, y)
  BY <1>4, <1>5, <1>6 DEF Seen
<1> QED BY <1>7 DEF words, y

LEMMA JoinLevels ==
    ASSUME NEW u \in Seq(Instruction), NEW v \in Seq(Instruction), NEW ch, NEW x
    PROVE  /\ u \o v \in Seq(Instruction)
           /\ After(u \o v, ch, x) = After(v, ch, After(u, ch, x))
           /\ Seen(u \o v, ch, x) = Seen(u, ch, x) \cup Seen(v, ch, After(u, ch, x))
BY AfterConcat, SeenConcat, ConcatProperties

LEMMA NoWords ==
    ASSUME NEW ch, NEW x
    PROVE  After(<< >>, ch, x) = x /\ Seen(<< >>, ch, x) = {}
<1>1. Len(<< >>) = 0 /\ 1 .. 0 = {}
  BY EmptySeq
<1>2. Driving(<< >>, 1, 0, ch) = {} /\ Waits(<< >>) = {}
  BY <1>1 DEF Driving, Waits
<1> QED BY <1>1, <1>2 DEF After, LevelAt, Seen

\* Words that do not drive a channel leave it as it was.
LEMMA QuietWords ==
    ASSUME NEW words \in Seq(Instruction), NEW ch, NEW x,
           \A i \in 1 .. Len(words) : ~ Drives(words[i], ch)
    PROVE  /\ After(words, ch, x) = x
           /\ Seen(words, ch, x) = IF HasWait(words) THEN {x} ELSE {}
<1>1. Len(words) \in Nat
  BY LenProperties
<1>2. ASSUME NEW i \in 1 .. Len(words) PROVE LevelAt(words, i, ch, x) = x
  <2>1. Driving(words, 1, i, ch) = {}
    BY <1>1 DEF Driving
  <2> QED BY <2>1 DEF LevelAt
<1>3. After(words, ch, x) = x
  <2>1. Driving(words, 1, Len(words), ch) = {}
    BY <1>1 DEF Driving
  <2> QED BY <2>1 DEF After, LevelAt
<1>4. HasWait(words) <=> Waits(words) # {}
  BY DEF HasWait, Waits
<1>5. Seen(words, ch, x) = {x : i \in Waits(words)}
  BY <1>2 DEF Seen, Waits
<1>6. Seen(words, ch, x) = IF HasWait(words) THEN {x} ELSE {}
  BY <1>4, <1>5
<1> QED BY <1>3, <1>6

LEMMA WaitsDriveNothing ==
    ASSUME NEW w \in Nat, IsWait(w), NEW ch
    PROVE  ~ Drives(w, ch)
BY DEF IsWait, WAITI, WAIT_PRE_16MS, MAX_WAIT, Drives, IsLevel, SETPWMI

LEMMA JumpsDriveNothing ==
    ASSUME NEW w \in 0 .. 255, NEW ch
    PROVE  ~ IsWait(w) /\ ~ Drives(w, ch)
BY DEF IsWait, WAITI, WAIT_PRE_16MS, MAX_WAIT, Drives, IsLevel, SETPWMI

LEMMA OneWord ==
    ASSUME NEW w \in Instruction, NEW ch, NEW x
    PROVE  /\ <<w>> \in Seq(Instruction)
           /\ After(<<w>>, ch, x) = IF Drives(w, ch) THEN LevelOf(w) ELSE x
           /\ Seen(<<w>>, ch, x) = IF IsWait(w) THEN {x} ELSE {}
<1>1. <<w>> \in Seq(Instruction) /\ Len(<<w>>) = 1 /\ <<w>>[1] = w /\ 1 .. 1 = {1}
  OBVIOUS
<1> DEFINE words == <<w>>
<1> HIDE DEF words
<1>2. Len(words) = 1 /\ words[1] = w /\ words \in Seq(Instruction)
  BY <1>1 DEF words
<1>3. CASE ~ Drives(w, ch)
  <2>1. \A i \in 1 .. Len(words) : ~ Drives(words[i], ch)
    BY <1>2, <1>3
  <2>2. HasWait(words) <=> IsWait(w)
    BY <1>2 DEF HasWait
  <2> QED BY <1>2, <1>3, <2>1, <2>2, QuietWords DEF words
<1>4. CASE Drives(w, ch)
  <2>1. ~ IsWait(w)
    BY <1>4, WaitsDriveNothing DEF Instruction
  <2>2. Waits(words) = {}
    BY <1>2, <2>1 DEF Waits
  <2>3. Driving(words, 1, 1, ch) = {1}
    BY <1>1, <1>2, <1>4 DEF Driving
  <2>4. LatestIn({1}) = 1
    BY LatestIs
  <2>5. After(words, ch, x) = LevelOf(w)
    BY <1>2, <2>3, <2>4 DEF After, LevelAt
  <2> QED BY <1>2, <1>4, <2>1, <2>2, <2>5 DEF Seen, words
<1> QED BY <1>3, <1>4

\* A run of words in the SRAM: word k is at k + d.
HoldsAt(sram, d, words, n) == \A k \in 1 .. n : sram[k + d] = words[k]

LevelIn(sram, S, x) == IF S # {} THEN LevelOf(sram[LatestIn(S)]) ELSE x

DrivingAt(words, n, d, ch) == {k + d : k \in Driving(words, 1, n, ch)}

LEMMA LevelPlaced ==
    ASSUME NEW words, NEW n \in Nat, NEW sram, NEW d \in Int, NEW ch, NEW x,
           HoldsAt(sram, d, words, n)
    PROVE  LevelAt(words, n, ch, x) = LevelIn(sram, DrivingAt(words, n, d, ch), x)
<1> DEFINE driving == Driving(words, 1, n, ch)
           there == DrivingAt(words, n, d, ch)
<1>1. CASE driving = {}
  BY <1>1 DEF LevelAt, DrivingAt, LevelIn
<1>2. CASE driving # {}
  <2>1. LatestIn(driving) \in driving
    BY <1>2, DrivenOnce
  <2>2. driving \in SUBSET (0 .. n)
    BY DEF Driving
  <2>3. LatestIn(there) = LatestIn(driving) + d
    BY <1>2, <2>2, LatestShifted DEF DrivingAt
  <2>4. LatestIn(driving) \in 1 .. n
    BY <2>1 DEF Driving
  <2>5. there # {}
    BY <1>2 DEF DrivingAt
  <2>6. sram[LatestIn(there)] = words[LatestIn(driving)]
    BY <2>3, <2>4 DEF HoldsAt
  <2> QED BY <1>2, <2>5, <2>6 DEF LevelAt, LevelIn
<1> QED BY <1>1, <1>2

\* The levels seen while the controller runs a closed program are those along its
\* loop, entered with what the prelude and a round of the loop have left.
LEMMA VisibleIsSeen ==
    ASSUME NEW prelude \in Seq(Instruction), NEW loop \in Seq(Instruction), NEW ch,
           NEW sram, Len(prelude) < 256, Len(prelude) + Len(loop) < SRAM_WORDS,
           Carries(sram, prelude \o loop \o <<Len(prelude)>>)
    PROVE  Visible(sram, ch) = Seen(loop, ch, After(loop, ch, After(prelude, ch, 0)))
<1> DEFINE body == prelude \o loop
           words == body \o <<Len(prelude)>>
           start == Len(prelude)
           n == Len(loop)
           j == start + n
<1>1. /\ start \in Nat /\ n \in Nat /\ Len(body) = j /\ body \in Seq(Instruction)
      /\ \A i \in 1 .. start : body[i] = prelude[i]
      /\ \A i \in 1 .. n : body[start + i] = loop[i]
  BY ConcatWords
<1>2. /\ body \in Seq(Nat) /\ <<start>> \in Seq(Nat)
      /\ Len(<<start>>) = 1 /\ <<start>>[1] = start
  BY <1>1 DEF Instruction
<1> HIDE DEF body, start
<1>3. /\ Len(words) = j + 1
      /\ \A i \in 1 .. j + 1 :
            words[i] = IF i <= j THEN body[i] ELSE <<start>>[i - j]
  BY <1>1, <1>2, ConcatProperties DEF start
<1>4. j \in Nat /\ j \in Address /\ 0 .. j \subseteq Address
  BY <1>1, SramAssumption DEF Address, start
<1> HIDE DEF words, n
<1>5. \A a \in 0 .. j : sram[a] = words[a + 1]
  <2> SUFFICES ASSUME NEW a \in 0 .. j PROVE sram[a] = words[a + 1]
    OBVIOUS
  <2>1. a + 1 \in 1 .. Len(words) /\ (a + 1) - 1 = a
    BY <1>3, <1>4
  <2>2. \A i \in 1 .. Len(words) : sram[i - 1] = words[i]
    BY DEF Carries, words, body, start
  <2>3. sram[(a + 1) - 1] = words[a + 1]
    BY <2>1, <2>2
  <2> QED BY <2>1, <2>3
<1>6. sram[j] = start
  BY <1>1, <1>2, <1>3, <1>5
<1>7. \A a \in 0 .. j - 1 : sram[a] = body[a + 1] /\ sram[a] \in Instruction
  <2> SUFFICES ASSUME NEW a \in 0 .. j - 1
               PROVE  sram[a] = body[a + 1] /\ sram[a] \in Instruction
    OBVIOUS
  <2>1. a \in 0 .. j /\ a + 1 \in 1 .. j + 1 /\ a + 1 <= j /\ a + 1 \in 1 .. j
    BY <1>1
  <2>2. sram[a] = body[a + 1]
    BY <1>3, <1>5, <2>1
  <2>3. body[a + 1] \in Instruction
    BY <1>1, <2>1, ElementOfSeq
  <2> QED BY <2>2, <2>3
<1>8. \A k \in 1 .. start : sram[k - 1] = prelude[k]
  BY <1>1, <1>7
<1>9. \A k \in 1 .. n : sram[k + (start - 1)] = loop[k]
  BY <1>1, <1>7
<1>10. \A a \in 0 .. j - 1 : ~ IsJump(sram[a])
  BY <1>7 DEF IsJump, Instruction
<1>11. start < 256 /\ start <= j
  BY <1>1 DEF start
<1>12. LoopEndsAt(sram, j)
  BY <1>6, <1>10, <1>11 DEF LoopEndsAt, IsJump
<1>13. (CHOOSE k \in Address : LoopEndsAt(sram, k)) = j
  <2>1. ASSUME NEW k \in Address, LoopEndsAt(sram, k) PROVE k = j
    <3>1. IsJump(sram[k]) /\ \A a \in 0 .. k - 1 : ~ IsJump(sram[a])
      BY <2>1 DEF LoopEndsAt
    <3>2. IsJump(sram[j])
      BY <1>12 DEF LoopEndsAt
    <3>3. k \in Nat
      BY SramAssumption DEF Address
    <3>4. ~ (k < j)
      BY <1>4, <1>10, <3>1, <3>3
    <3>5. ~ (j < k)
      BY <1>4, <3>1, <3>2, <3>3
    <3> QED BY <1>4, <3>3, <3>4, <3>5
  <2> QED BY <1>4, <1>12, <2>1
<1> DEFINE d == start - 1
           before == After(prelude, ch, 0)
           round == After(loop, ch, before)
<1>14. ~ IsWait(sram[j]) /\ ~ Drives(sram[j], ch)
  <2>1. sram[j] \in 0 .. 255
    BY <1>1, <1>6, <1>11
  <2> QED BY <2>1, JumpsDriveNothing
<1>15. {b \in start .. j : IsWait(sram[b])} = {i + d : i \in Waits(loop)}
  <2>1. ASSUME NEW b \in start .. j, IsWait(sram[b]) PROVE b \in {i + d : i \in Waits(loop)}
    <3>1. b # j
      BY <1>14, <2>1
    <3>2. b - d \in 1 .. n /\ (b - d) + d = b
      BY <1>1, <3>1
    <3>3. sram[b] = loop[b - d]
      BY <1>9, <3>2
    <3>4. b - d \in Waits(loop)
      BY <2>1, <3>2, <3>3 DEF Waits, n
    <3> QED BY <3>2, <3>4
  <2>2. ASSUME NEW i \in Waits(loop) PROVE i + d \in start .. j /\ IsWait(sram[i + d])
    <3>1. i \in 1 .. n /\ IsWait(loop[i])
      BY DEF Waits, n
    <3> QED BY <1>1, <1>9, <3>1
  <2> QED BY <2>1, <2>2
<1>16. ASSUME NEW i \in 1 .. n
       PROVE  SteadyLevel(sram, j, ch, i + d) = LevelAt(loop, i, ch, round)
  <2> DEFINE driven(lo, hi) == {b \in lo .. hi : Drives(sram[b], ch)}
             thisRound == driven(start, i + d)
             lastRound == driven(i + d, j)
             first == driven(0, start - 1)
  <2>1. thisRound = DrivingAt(loop, i, d, ch)
    <3>1. ASSUME NEW b \in thisRound PROVE b \in {k + d : k \in Driving(loop, 1, i, ch)}
      <4>1. b - d \in 1 .. i /\ b - d \in 1 .. n /\ (b - d) + d = b
        BY <1>1
      <4>2. b - d \in Driving(loop, 1, i, ch)
        BY <1>9, <4>1 DEF Driving
      <4> QED BY <4>1, <4>2
    <3>2. ASSUME NEW k \in Driving(loop, 1, i, ch) PROVE k + d \in thisRound
      <4>1. k \in 1 .. i /\ k \in 1 .. n /\ Drives(loop[k], ch)
        BY <1>1 DEF Driving
      <4> QED BY <1>1, <1>9, <4>1
    <3> QED BY <3>1, <3>2 DEF DrivingAt
  <2>2. ASSUME thisRound = {} PROVE lastRound = DrivingAt(loop, n, d, ch)
    <3>1. ASSUME NEW b \in lastRound PROVE b \in {k + d : k \in Driving(loop, 1, n, ch)}
      <4>1. b # j
        BY <1>14
      <4>2. b - d \in 1 .. n /\ (b - d) + d = b
        BY <1>1, <4>1
      <4>3. b - d \in Driving(loop, 1, n, ch)
        BY <1>9, <4>2 DEF Driving
      <4> QED BY <4>2, <4>3
    <3>2. ASSUME NEW k \in Driving(loop, 1, n, ch) PROVE k + d \in lastRound
      <4>1. k \in 1 .. n /\ Drives(loop[k], ch) /\ sram[k + d] = loop[k]
        BY <1>9 DEF Driving
      <4>2. k > i
        <5>1. k + d \notin thisRound
          BY <2>2
        <5> QED BY <1>1, <4>1, <5>1
      <4> QED BY <1>1, <4>1, <4>2
    <3> QED BY <3>1, <3>2 DEF DrivingAt
  <2>3. first = DrivingAt(prelude, start, -1, ch)
    <3>1. ASSUME NEW b \in first PROVE b \in {k + (-1) : k \in Driving(prelude, 1, start, ch)}
      <4>1. b + 1 \in 1 .. start /\ (b + 1) + (-1) = b /\ (b + 1) - 1 = b
        BY <1>1
      <4>2. b + 1 \in Driving(prelude, 1, start, ch)
        BY <1>8, <4>1 DEF Driving
      <4> QED BY <4>1, <4>2
    <3>2. ASSUME NEW k \in Driving(prelude, 1, start, ch) PROVE k + (-1) \in first
      <4>1. k \in 1 .. start /\ Drives(prelude[k], ch) /\ sram[k - 1] = prelude[k]
            /\ k + (-1) = k - 1
        BY <1>1, <1>8 DEF Driving
      <4> QED BY <1>1, <4>1
    <3> QED BY <3>1, <3>2 DEF DrivingAt
  <2>4. LevelAt(loop, i, ch, round) = LevelIn(sram, thisRound, round)
    <3>1. HoldsAt(sram, d, loop, i)
      BY <1>1, <1>9 DEF HoldsAt
    <3>2. i \in Nat /\ d \in Int
      BY <1>1
    <3> HIDE DEF thisRound, d, round
    <3> QED BY <2>1, <3>1, <3>2, LevelPlaced
  <2>5. thisRound = {} => round = LevelIn(sram, lastRound, before)
    <3>1. d \in Int /\ round = LevelAt(loop, n, ch, before)
      BY <1>1 DEF After, n
    <3>2. HoldsAt(sram, d, loop, n)
      BY <1>9 DEF HoldsAt
    <3> HIDE DEF thisRound, lastRound, d, round, before
    <3> QED BY <1>1, <2>2, <3>1, <3>2, LevelPlaced
  <2>6. before = LevelIn(sram, first, 0)
    <3>1. HoldsAt(sram, -1, prelude, start)
      BY <1>1, <1>8 DEF HoldsAt
    <3>2. -1 \in Int /\ before = LevelAt(prelude, start, ch, 0)
      BY DEF After, start
    <3> HIDE DEF first, before
    <3> QED BY <1>1, <2>3, <3>1, <3>2, LevelPlaced
  <2>7. SteadyLevel(sram, j, ch, i + d)
          = LevelIn(sram, thisRound, LevelIn(sram, lastRound, LevelIn(sram, first, 0)))
    BY <1>6 DEF SteadyLevel, LevelIn
  <2>8. LevelIn(sram, thisRound, round)
          = LevelIn(sram, thisRound, LevelIn(sram, lastRound, before))
    <3> HIDE DEF thisRound, lastRound, round, before
    <3> QED BY <2>5 DEF LevelIn
  <2> HIDE DEF thisRound, lastRound, first, round, before
  <2> QED BY <2>4, <2>6, <2>7, <2>8
<1>17. Visible(sram, ch) = {SteadyLevel(sram, j, ch, a) : a \in {i + d : i \in Waits(loop)}}
  BY <1>6, <1>13, <1>15 DEF Visible
<1>18. \A i \in Waits(loop) : SteadyLevel(sram, j, ch, i + d) = LevelAt(loop, i, ch, round)
  BY <1>16 DEF Waits, n
<1> HIDE DEF d, j, round
<1>19. Visible(sram, ch) = {LevelAt(loop, i, ch, round) : i \in Waits(loop)}
  BY <1>17, <1>18
<1> QED BY <1>19 DEF Seen, round, before

-----------------------------------------------------------------------------
(* The levels of the words Update() writes beside the steps *)

\* The one word that sets a channel, or all of them (31), to a level.
Sets(words, channel, level) ==
    /\ channel \in 0 .. 31 /\ level \in 0 .. 255
    /\ words = <<SETPWMI + channel * 256 + level>>

LEMMA SetsLevels ==
    ASSUME NEW words, NEW channel, NEW level, Sets(words, channel, level),
           NEW ch \in Channel, NEW x
    PROVE  /\ words \in Seq(Instruction)
           /\ After(words, ch, x) = IF channel = ch \/ channel = 31 THEN level ELSE x
           /\ Seen(words, ch, x) = {}
<1> DEFINE w == SETPWMI + channel * 256 + level
<1>1. channel \in 0 .. 31 /\ level \in 0 .. 255 /\ words = <<w>>
  BY DEF Sets
<1>2. LevelWord(w, 160, channel, level)
  BY <1>1 DEF LevelWord, SETPWMI
<1> HIDE DEF w
<1>3. /\ w \in Instruction /\ IsLevel(w) /\ ~ IsWait(w) /\ ChannelOf(w) = channel
      /\ LevelOf(w) = level
  BY <1>2, LevelDecoded
<1>4. Drives(w, ch) <=> channel = ch \/ channel = 31
  BY <1>3 DEF Drives
<1> QED BY <1>1, <1>3, <1>4, OneWord

LEMMA WhenWords ==
    ASSUME NEW c, NEW words \in Seq(Instruction)
    PROVE  When(c, words) \in Seq(Instruction)
BY DEF When

LEMMA WhenLevels ==
    ASSUME NEW c, NEW words, NEW ch, NEW x
    PROVE  /\ After(When(c, words), ch, x) = IF c THEN After(words, ch, x) ELSE x
           /\ Seen(When(c, words), ch, x) = IF c THEN Seen(words, ch, x) ELSE {}
<1>1. CASE c
  <2>1. When(c, words) = words
    BY <1>1 DEF When
  <2> QED BY <1>1, <2>1
<1>2. CASE ~ c
  <2>1. When(c, words) = << >>
    BY <1>2 DEF When
  <2> QED BY <1>2, <2>1, NoWords
<1> QED BY <1>1, <1>2

Lit(condition, level) == IF condition THEN level ELSE 0

\* What the prelude leaves on a channel.
PreludeLevel(s, ch) ==
    LET conn == s.connectivity
    IN  CASE ch = 15 -> IF s.callEarpiece THEN Lit(s.callLeftUp, 160)
                        ELSE Lit(conn["cellular"], 160)
          [] ch = 16 -> IF s.callEarpiece THEN Lit(~ s.callLeftUp, 80)
                        ELSE Lit(conn["wifi"], 80)
          [] ch = 17 -> IF s.callEarpiece THEN 0
                        ELSE Lit(conn["bluetooth"], IF conn["wifi"] THEN 192 ELSE 255)
          [] ch = 18 -> Lit(s.capsLock, 160)
          [] OTHER -> 0

LEMMA PreludeHead ==
    ASSUME NEW ch \in Channel
    PROVE  LET head == <<SET_STEP_TMRI + CH_ALL_LEDS + 3, SETPWMI + CH_ALL_LEDS>>
           IN  head \in Seq(Instruction) /\ After(head, ch, 0) = 0
<1> DEFINE head == <<SET_STEP_TMRI + CH_ALL_LEDS + 3, SETPWMI + CH_ALL_LEDS>>
           w == SET_STEP_TMRI + CH_ALL_LEDS + 3
           timer == <<w>>
           off == <<SETPWMI + CH_ALL_LEDS>>
<1>1. head = timer \o off
  OBVIOUS
<1>2. w = 40707
  BY DEF SET_STEP_TMRI, CH_ALL_LEDS
<1>3. Sets(off, 31, 0)
  BY DEF Sets, SETPWMI, CH_ALL_LEDS
<1> HIDE DEF w, off, head
<1>4. w \in Instruction /\ ~ Drives(w, ch)
  BY <1>2 DEF Instruction, Drives, IsLevel, SETPWMI
<1>5. timer \in Seq(Instruction)
  BY <1>4, OneWord
<1> HIDE DEF timer
<1>6. off \in Seq(Instruction) /\ \A x : After(off, ch, x) = 0
  BY <1>3, SetsLevels
<1>7. timer \o off \in Seq(Instruction) /\ After(timer \o off, ch, 0) = 0
  BY <1>5, <1>6, JoinLevels
<1>8. head \in Seq(Instruction) /\ After(head, ch, 0) = 0
  BY <1>1, <1>7
<1> QED BY <1>8 DEF head

LEMMA CallLevels ==
    ASSUME NEW s, NEW ch \in Channel
    PROVE  /\ CallWords(s) \in Seq(Instruction)
           /\ After(CallWords(s), ch, 0) = IF s.callLeftUp THEN Lit(ch = 15, 160)
                                                           ELSE Lit(ch = 16, 80)
<1> DEFINE redOn == <<SETPWMI + CH_6_RED + 160>>
           redOff == <<SETPWMI + CH_6_RED>>
           greenOn == <<SETPWMI + CH_6_GREEN + 80>>
           greenOff == <<SETPWMI + CH_6_GREEN>>
<1>1. <<SETPWMI + CH_6_RED + 160, SETPWMI + CH_6_GREEN>> = redOn \o greenOff
  OBVIOUS
<1>6. <<SETPWMI + CH_6_RED, SETPWMI + CH_6_GREEN + 80>> = redOff \o greenOn
  OBVIOUS
<1>2. /\ Sets(redOn, 15, 160) /\ Sets(redOff, 15, 0)
      /\ Sets(greenOn, 16, 80) /\ Sets(greenOff, 16, 0)
  BY DEF Sets, SETPWMI, CH_6_RED, CH_6_GREEN
<1> HIDE DEF redOn, redOff, greenOn, greenOff
<1>3. /\ redOn \in Seq(Instruction) /\ redOff \in Seq(Instruction)
      /\ greenOn \in Seq(Instruction) /\ greenOff \in Seq(Instruction)
  BY <1>2, SetsLevels
<1>4. CASE s.callLeftUp
  <2>1. CallWords(s) = redOn \o greenOff
    BY <1>1, <1>4 DEF CallWords
  <2>2. After(redOn, ch, 0) = Lit(ch = 15, 160)
    BY <1>2, SetsLevels DEF Lit
  <2>3. After(greenOff, ch, Lit(ch = 15, 160)) = Lit(ch = 15, 160)
    BY <1>2, SetsLevels DEF Lit
  <2> QED BY <1>3, <1>4, <2>1, <2>2, <2>3, JoinLevels
<1>5. CASE ~ s.callLeftUp
  <2>1. CallWords(s) = redOff \o greenOn
    BY <1>5, <1>6 DEF CallWords
  <2>2. After(redOff, ch, 0) = 0
    BY <1>2, SetsLevels
  <2>3. After(greenOn, ch, 0) = Lit(ch = 16, 80)
    BY <1>2, SetsLevels DEF Lit
  <2> QED BY <1>3, <1>5, <2>1, <2>2, <2>3, JoinLevels
<1> QED BY <1>4, <1>5

LEMMA ConnectivityLevels ==
    ASSUME NEW s, LightsOK(s), NEW ch \in Channel
    PROVE  /\ ConnectivityWords(s) \in Seq(Instruction)
           /\ After(ConnectivityWords(s), ch, 0)
                = CASE ch = 15 -> Lit(s.connectivity["cellular"], 160)
                    [] ch = 16 -> Lit(s.connectivity["wifi"], 80)
                    [] ch = 17 -> Lit(s.connectivity["bluetooth"],
                                      IF s.connectivity["wifi"] THEN 192 ELSE 255)
                    [] OTHER -> 0
<1> DEFINE cellular == s.connectivity["cellular"]
           wifi == s.connectivity["wifi"]
           bluetooth == s.connectivity["bluetooth"]
           level == IF wifi THEN 192 ELSE 255
           red == <<SETPWMI + CH_6_RED + 160>>
           green == <<SETPWMI + CH_6_GREEN + 80>>
           blue == <<SETPWMI + CH_6_BLUE + level>>
           first == When(cellular, red)
           second == When(wifi, green)
           third == When(bluetooth, blue)
<1>1. ConnectivityWords(s) = first \o second \o third
  BY DEF ConnectivityWords
<1>2. level \in 0 .. 255
  OBVIOUS
<1> HIDE DEF cellular, bluetooth, level
<1>3. Sets(red, 15, 160) /\ Sets(green, 16, 80) /\ Sets(blue, 17, level)
  BY <1>2 DEF Sets, SETPWMI, CH_6_RED, CH_6_GREEN, CH_6_BLUE
<1> HIDE DEF red, green, blue
<1>4. red \in Seq(Instruction) /\ green \in Seq(Instruction) /\ blue \in Seq(Instruction)
  BY <1>3, SetsLevels
<1>5. first \in Seq(Instruction) /\ second \in Seq(Instruction) /\ third \in Seq(Instruction)
  BY <1>4, WhenWords
<1>6. After(first, ch, 0) = IF cellular /\ ch = 15 THEN 160 ELSE 0
  <2>1. After(red, ch, 0) = IF ch = 15 THEN 160 ELSE 0
    BY <1>3, SetsLevels
  <2> QED BY <2>1, WhenLevels
<1>7. ASSUME NEW x PROVE After(second, ch, x) = IF wifi /\ ch = 16 THEN 80 ELSE x
  <2>1. After(green, ch, x) = IF ch = 16 THEN 80 ELSE x
    BY <1>3, SetsLevels
  <2> QED BY <2>1, WhenLevels
<1>8. ASSUME NEW x PROVE After(third, ch, x) = IF bluetooth /\ ch = 17 THEN level ELSE x
  <2>1. After(blue, ch, x) = IF ch = 17 THEN level ELSE x
    BY <1>3, SetsLevels
  <2> QED BY <2>1, WhenLevels
<1> HIDE DEF first, second, third, wifi
<1> DEFINE both == first \o second
<1>9. both \in Seq(Instruction) /\ After(both, ch, 0) = After(second, ch, After(first, ch, 0))
  BY <1>5, JoinLevels
<1>10. ConnectivityWords(s) = both \o third
  BY <1>1
<1> HIDE DEF both
<1>11. /\ ConnectivityWords(s) \in Seq(Instruction)
       /\ After(ConnectivityWords(s), ch, 0) = After(third, ch, After(both, ch, 0))
  BY <1>5, <1>9, <1>10, JoinLevels
<1>12. After(ConnectivityWords(s), ch, 0)
         = IF bluetooth /\ ch = 17 THEN level
           ELSE IF wifi /\ ch = 16 THEN 80
           ELSE IF cellular /\ ch = 15 THEN 160 ELSE 0
  BY <1>6, <1>7, <1>8, <1>9, <1>11
<1> QED BY <1>11, <1>12 DEF Lit, cellular, wifi, bluetooth, level

LEMMA PreludeLevels ==
    ASSUME NEW s, LightsOK(s), NEW ch \in Channel
    PROVE  After(Prelude(s), ch, 0) = PreludeLevel(s, ch)
<1> DEFINE head == <<SET_STEP_TMRI + CH_ALL_LEDS + 3, SETPWMI + CH_ALL_LEDS>>
           middle == IF s.callEarpiece THEN CallWords(s) ELSE ConnectivityWords(s)
           red == <<SETPWMI + CH_7_RED + 160>>
           caps == When(s.capsLock, red)
           first == head \o middle
<1>1. When(powerState # 0, <<SETPWMI + CH_7_BLUE + 255>>) = << >>
  BY DEF When, powerState
<1>2. Prelude(s) = first \o caps \o << >>
  BY <1>1 DEF Prelude
<1>3. head \in Seq(Instruction) /\ After(head, ch, 0) = 0
  BY PreludeHead
<1>4. Sets(red, 18, 160)
  BY DEF Sets, SETPWMI, CH_7_RED
<1> HIDE DEF head, red
<1>5. red \in Seq(Instruction) /\ \A x : After(red, ch, x) = IF ch = 18 THEN 160 ELSE x
  BY <1>4, SetsLevels
<1>6. caps \in Seq(Instruction)
  BY <1>5, WhenWords
<1>7. ASSUME NEW x PROVE After(caps, ch, x) = IF s.capsLock /\ ch = 18 THEN 160 ELSE x
  BY <1>5, WhenLevels
<1>8. middle \in Seq(Instruction)
  BY CallLevels, ConnectivityLevels
<1>9. After(middle, ch, 0) = IF ch = 18 THEN 0 ELSE PreludeLevel(s, ch)
  <2>1. CASE s.callEarpiece
    <3>1. middle = CallWords(s)
      BY <2>1
    <3> HIDE DEF middle
    <3> QED BY <2>1, <3>1, CallLevels DEF PreludeLevel, Lit
  <2>2. CASE ~ s.callEarpiece
    <3>1. middle = ConnectivityWords(s)
      BY <2>2
    <3> HIDE DEF middle
    <3> QED BY <2>2, <3>1, ConnectivityLevels DEF PreludeLevel, Lit
  <2> QED BY <2>1, <2>2
<1> HIDE DEF caps, middle
<1>10. first \in Seq(Instruction) /\ After(first, ch, 0) = After(middle, ch, 0)
  BY <1>3, <1>8, JoinLevels
<1> HIDE DEF first
<1>11. first \o caps \in Seq(Instruction)
       /\ After(first \o caps, ch, 0) = After(caps, ch, After(middle, ch, 0))
  BY <1>6, <1>10, JoinLevels
<1>12. After(Prelude(s), ch, 0) = After(caps, ch, After(middle, ch, 0))
  BY <1>2, <1>11, ConcatEmptySeq
<1> QED BY <1>7, <1>9, <1>12 DEF PreludeLevel, Lit

\* A blink of a channel.
BlinkOf(words, c, channel, level) ==
    /\ channel \in 0 .. 30 /\ level \in 0 .. 255
    /\ words = When(c, <<SETPWMI + channel * 256 + level,
                         WAITI + WAIT_PRE_16MS + 128,
                         SETPWMI + channel * 256>>)

LEMMA BlinkLevels ==
    ASSUME NEW words, NEW c, NEW channel, NEW level, BlinkOf(words, c, channel, level),
           NEW ch \in Channel, NEW x
    PROVE  /\ words \in Seq(Instruction)
           /\ After(words, ch, x) = IF c /\ channel = ch THEN 0 ELSE x
           /\ Seen(words, ch, x)
                = IF c THEN {IF channel = ch THEN level ELSE x} ELSE {}
<1> DEFINE on == <<SETPWMI + channel * 256 + level>>
           w == WAITI + WAIT_PRE_16MS + 128
           wait == <<w>>
           off == <<SETPWMI + channel * 256>>
           first == on \o wait
           all == first \o off
           lit == IF channel = ch THEN level ELSE x
<1>1. <<SETPWMI + channel * 256 + level, w, SETPWMI + channel * 256>> = on \o wait \o off
  OBVIOUS
<1>2. words = When(c, all)
  BY <1>1 DEF BlinkOf
<1>3. Sets(on, channel, level) /\ Sets(off, channel, 0)
  BY DEF BlinkOf, Sets, SETPWMI
<1>4. channel # 31
  BY DEF BlinkOf
<1>5. w = 15488
  BY DEF WAITI, WAIT_PRE_16MS
<1> HIDE DEF on, off, w
<1>6. w \in Instruction /\ IsWait(w)
  BY <1>5 DEF Instruction, IsWait, WAITI, WAIT_PRE_16MS, MAX_WAIT
<1>7. ~ Drives(w, ch)
  BY <1>6, WaitsDriveNothing DEF Instruction
<1>8. wait \in Seq(Instruction) /\ \A y : After(wait, ch, y) = y /\ Seen(wait, ch, y) = {y}
  BY <1>6, <1>7, OneWord
<1>9. /\ on \in Seq(Instruction) /\ off \in Seq(Instruction)
      /\ After(on, ch, x) = lit /\ Seen(on, ch, x) = {}
  BY <1>3, <1>4, SetsLevels
<1>12. /\ After(off, ch, lit) = IF channel = ch THEN 0 ELSE x
       /\ Seen(off, ch, lit) = {}
  BY <1>3, <1>4, SetsLevels
<1> HIDE DEF wait, lit
<1>10. /\ first \in Seq(Instruction)
       /\ After(first, ch, x) = lit /\ Seen(first, ch, x) = {lit}
  BY <1>8, <1>9, JoinLevels
<1> HIDE DEF first
<1>11. /\ all \in Seq(Instruction)
       /\ After(all, ch, x) = After(off, ch, lit)
       /\ Seen(all, ch, x) = {lit}
  BY <1>9, <1>10, <1>12, JoinLevels
<1> HIDE DEF all
<1>13. /\ words \in Seq(Instruction)
       /\ After(words, ch, x) = IF c THEN After(off, ch, lit) ELSE x
       /\ Seen(words, ch, x) = IF c THEN {lit} ELSE {}
  BY <1>2, <1>11, WhenWords, WhenLevels
<1> QED BY <1>12, <1>13 DEF lit

\* What the fallback shows on a channel that was at level x.
FallbackSeen(s, ch, x) ==
    LET conn == s.connectivity
        blink(tech, level) ==
            (IF conn[tech] THEN {level} ELSE {0})
            \cup (IF \E other \in Technology \ {tech} : conn[other] THEN {0} ELSE {})
    IN  CASE s.callEarpiece -> {x}
          [] ~ s.callEarpiece /\ ch = 15 -> blink("cellular", 160)
          [] ~ s.callEarpiece /\ ch = 16 -> blink("wifi", 80)
          [] ~ s.callEarpiece /\ ch = 17 -> blink("bluetooth", 255)
          [] OTHER -> {x}

\* Three runs of words, one after the other.
LEMMA ThreeRuns ==
    ASSUME NEW u \in Seq(Instruction), NEW v \in Seq(Instruction),
           NEW w \in Seq(Instruction), NEW ch, NEW x
    PROVE  /\ u \o v \o w \in Seq(Instruction)
           /\ After(u \o v \o w, ch, x) = After(w, ch, After(v, ch, After(u, ch, x)))
           /\ Seen(u \o v \o w, ch, x)
                = Seen(u, ch, x) \cup Seen(v, ch, After(u, ch, x))
                  \cup Seen(w, ch, After(v, ch, After(u, ch, x)))
<1> DEFINE first == u \o v
<1>1. /\ first \in Seq(Instruction)
      /\ After(first, ch, x) = After(v, ch, After(u, ch, x))
      /\ Seen(first, ch, x) = Seen(u, ch, x) \cup Seen(v, ch, After(u, ch, x))
  BY JoinLevels
<1> HIDE DEF first
<1>2. first \in Seq(Instruction)
  BY <1>1
<1>3. After(first \o w, ch, x) = After(w, ch, After(first, ch, x))
  BY <1>2, AfterConcat
<1>4. Seen(first \o w, ch, x) = Seen(first, ch, x) \cup Seen(w, ch, After(first, ch, x))
  BY <1>2, SeenConcat
<1>5. first \o w \in Seq(Instruction)
  BY <1>2, ConcatProperties
<1> QED BY <1>1, <1>3, <1>4, <1>5 DEF first

LEMMA FallbackOff ==
    ASSUME NEW ch \in Channel, NEW x
    PROVE  LET off == <<SETPWMI + CH_6_RED, SETPWMI + CH_6_GREEN, SETPWMI + CH_6_BLUE>>
           IN  /\ off \in Seq(Instruction)
               /\ After(off, ch, x) = IF ch \in 15 .. 17 THEN 0 ELSE x
               /\ Seen(off, ch, x) = {}
<1> DEFINE off == <<SETPWMI + CH_6_RED, SETPWMI + CH_6_GREEN, SETPWMI + CH_6_BLUE>>
           red == <<SETPWMI + CH_6_RED>>
           green == <<SETPWMI + CH_6_GREEN>>
           blue == <<SETPWMI + CH_6_BLUE>>
           y == IF ch = 15 THEN 0 ELSE x
           z == IF ch = 16 THEN 0 ELSE y
<1>1. off = red \o green \o blue
  OBVIOUS
<1>2. Sets(red, 15, 0) /\ Sets(green, 16, 0) /\ Sets(blue, 17, 0)
  BY DEF Sets, SETPWMI, CH_6_RED, CH_6_GREEN, CH_6_BLUE
<1> HIDE DEF off, red, green, blue
<1>3. /\ red \in Seq(Instruction) /\ After(red, ch, x) = y /\ Seen(red, ch, x) = {}
      /\ green \in Seq(Instruction) /\ After(green, ch, y) = z /\ Seen(green, ch, y) = {}
      /\ blue \in Seq(Instruction) /\ Seen(blue, ch, z) = {}
  BY <1>2, SetsLevels
<1>7. After(blue, ch, z) = IF ch = 17 THEN 0 ELSE z
  BY <1>2, SetsLevels
<1>4. ch \in 15 .. 17 <=> ch = 15 \/ ch = 16 \/ ch = 17
  BY DEF Channel
<1> HIDE DEF y, z
<1>5. /\ off \in Seq(Instruction)
      /\ After(off, ch, x) = After(blue, ch, z)
      /\ Seen(off, ch, x) = {}
  <2>1. red \in Seq(Instruction) /\ green \in Seq(Instruction) /\ blue \in Seq(Instruction)
    BY <1>3
  <2>2. /\ red \o green \o blue \in Seq(Instruction)
        /\ After(red \o green \o blue, ch, x)
             = After(blue, ch, After(green, ch, After(red, ch, x)))
        /\ Seen(red \o green \o blue, ch, x)
             = Seen(red, ch, x) \cup Seen(green, ch, After(red, ch, x))
               \cup Seen(blue, ch, After(green, ch, After(red, ch, x)))
    BY <2>1, ThreeRuns
  <2> QED BY <1>1, <1>3, <2>2
<1>6. After(off, ch, x) = IF ch \in 15 .. 17 THEN 0 ELSE x
  BY <1>4, <1>5, <1>7 DEF y, z
<1> QED BY <1>5, <1>6 DEF off

LEMMA FallbackLevels ==
    ASSUME NEW s, LightsOK(s), NEW ch \in Channel, NEW x
    PROVE  /\ Seen(FallbackWords(s), ch, x) = FallbackSeen(s, ch, x)
           /\ s.callEarpiece \/ ch \notin 15 .. 17 => After(FallbackWords(s), ch, x) = x
<1> DEFINE cellular == s.connectivity["cellular"]
           wifi == s.connectivity["wifi"]
           bluetooth == s.connectivity["bluetooth"]
           none == \A tech \in Technology : ~ s.connectivity[tech]
           w == WAITI + WAIT_PRE_16MS + MAX_WAIT
           idle == <<w>>
           off == <<SETPWMI + CH_6_RED, SETPWMI + CH_6_GREEN, SETPWMI + CH_6_BLUE>>
           red == Blink(cellular, CH_6_RED, 160)
           green == Blink(wifi, CH_6_GREEN, 80)
           blue == Blink(bluetooth, CH_6_BLUE, 255)
           rest == When(none, idle)
           one == off \o red
           two == one \o green
           three == two \o blue
           all == three \o rest
           y == IF ch \in 15 .. 17 THEN 0 ELSE x
<1>1. FallbackWords(s) = IF s.callEarpiece THEN idle ELSE all
  BY DEF FallbackWords
<1>2. none <=> ~ cellular /\ ~ wifi /\ ~ bluetooth
  BY DEF Technology
<1>3. /\ BlinkOf(red, cellular, 15, 160) /\ BlinkOf(green, wifi, 16, 80)
      /\ BlinkOf(blue, bluetooth, 17, 255)
  BY DEF BlinkOf, Blink, CH_6_RED, CH_6_GREEN, CH_6_BLUE
<1>4. /\ off \in Seq(Instruction) /\ After(off, ch, x) = y /\ Seen(off, ch, x) = {}
  BY FallbackOff
<1>5. w = 16383
  BY DEF WAITI, WAIT_PRE_16MS, MAX_WAIT
<1>6. y = IF ch = 15 \/ ch = 16 \/ ch = 17 THEN 0 ELSE x
  BY DEF Channel
<1> HIDE DEF w, off, red, green, blue, y
<1>7. w \in Instruction /\ IsWait(w)
  BY <1>5 DEF Instruction, IsWait, WAITI, WAIT_PRE_16MS, MAX_WAIT
<1>8. ~ Drives(w, ch)
  BY <1>7, WaitsDriveNothing DEF Instruction
<1>9. idle \in Seq(Instruction) /\ \A z : After(idle, ch, z) = z /\ Seen(idle, ch, z) = {z}
  BY <1>7, <1>8, OneWord
<1> HIDE DEF idle, none, cellular, wifi, bluetooth
<1>10. /\ rest \in Seq(Instruction)
       /\ After(rest, ch, y) = y /\ Seen(rest, ch, y) = IF none THEN {y} ELSE {}
  BY <1>9, WhenWords, WhenLevels
<1>11. /\ red \in Seq(Instruction) /\ After(red, ch, y) = y
       /\ Seen(red, ch, y) = IF cellular THEN {IF ch = 15 THEN 160 ELSE y} ELSE {}
  <2>1. /\ red \in Seq(Instruction)
        /\ After(red, ch, y) = IF cellular /\ 15 = ch THEN 0 ELSE y
        /\ Seen(red, ch, y) = IF cellular THEN {IF 15 = ch THEN 160 ELSE y} ELSE {}
    BY <1>3, BlinkLevels
  <2> QED BY <1>6, <2>1
<1>12. /\ green \in Seq(Instruction) /\ After(green, ch, y) = y
       /\ Seen(green, ch, y) = IF wifi THEN {IF ch = 16 THEN 80 ELSE y} ELSE {}
  <2>1. /\ green \in Seq(Instruction)
        /\ After(green, ch, y) = IF wifi /\ 16 = ch THEN 0 ELSE y
        /\ Seen(green, ch, y) = IF wifi THEN {IF 16 = ch THEN 80 ELSE y} ELSE {}
    BY <1>3, BlinkLevels
  <2> QED BY <1>6, <2>1
<1>13. /\ blue \in Seq(Instruction) /\ After(blue, ch, y) = y
       /\ Seen(blue, ch, y) = IF bluetooth THEN {IF ch = 17 THEN 255 ELSE y} ELSE {}
  <2>1. /\ blue \in Seq(Instruction)
        /\ After(blue, ch, y) = IF bluetooth /\ 17 = ch THEN 0 ELSE y
        /\ Seen(blue, ch, y) = IF bluetooth THEN {IF 17 = ch THEN 255 ELSE y} ELSE {}
    BY <1>3, BlinkLevels
  <2> QED BY <1>6, <2>1
<1> HIDE DEF rest
<1>14. /\ one \in Seq(Instruction) /\ After(one, ch, x) = y
       /\ Seen(one, ch, x) = Seen(red, ch, y)
  BY <1>4, <1>11, JoinLevels
<1> HIDE DEF one
<1>15. /\ two \in Seq(Instruction) /\ After(two, ch, x) = y
       /\ Seen(two, ch, x) = Seen(red, ch, y) \cup Seen(green, ch, y)
  BY <1>12, <1>14, JoinLevels
<1> HIDE DEF two
<1>16. /\ three \in Seq(Instruction) /\ After(three, ch, x) = y
       /\ Seen(three, ch, x) = Seen(red, ch, y) \cup Seen(green, ch, y) \cup Seen(blue, ch, y)
  BY <1>13, <1>15, JoinLevels
<1> HIDE DEF three
<1>17. /\ After(all, ch, x) = y
       /\ Seen(all, ch, x) = Seen(red, ch, y) \cup Seen(green, ch, y) \cup Seen(blue, ch, y)
                             \cup Seen(rest, ch, y)
  BY <1>10, <1>16, JoinLevels
<1> HIDE DEF all
<1>18. CASE s.callEarpiece
  <2>1. FallbackWords(s) = idle
    BY <1>1, <1>18
  <2> QED BY <1>9, <1>18, <2>1 DEF FallbackSeen
<1>19. CASE ~ s.callEarpiece
  <2>1. FallbackWords(s) = all
    BY <1>1, <1>19
  <2>2. Seen(all, ch, x) = (IF cellular THEN {IF ch = 15 THEN 160 ELSE y} ELSE {})
                           \cup (IF wifi THEN {IF ch = 16 THEN 80 ELSE y} ELSE {})
                           \cup (IF bluetooth THEN {IF ch = 17 THEN 255 ELSE y} ELSE {})
                           \cup (IF none THEN {y} ELSE {})
    BY <1>10, <1>11, <1>12, <1>13, <1>17
  <2>3. CASE ch = 15
    <3>1. (\E other \in Technology \ {"cellular"} : s.connectivity[other]) <=> wifi \/ bluetooth
      BY DEF Technology, wifi, bluetooth
    <3>2. FallbackSeen(s, ch, x) = (IF cellular THEN {160} ELSE {0})
                                   \cup (IF wifi \/ bluetooth THEN {0} ELSE {})
      BY <1>19, <2>3, <3>1 DEF FallbackSeen, cellular
    <3>3. y = 0 /\ ch \in 15 .. 17
      BY <1>6, <2>3
    <3>4. Seen(all, ch, x) = FallbackSeen(s, ch, x)
      <4>1. CASE cellular
        BY <1>2, <2>2, <2>3, <3>2, <3>3, <4>1
      <4>2. CASE ~ cellular
        BY <1>2, <2>2, <2>3, <3>2, <3>3, <4>2
      <4> QED BY <4>1, <4>2
    <3> QED BY <1>19, <2>1, <3>3, <3>4
  <2>4. CASE ch = 16
    <3>1. (\E other \in Technology \ {"wifi"} : s.connectivity[other]) <=> cellular \/ bluetooth
      BY DEF Technology, cellular, bluetooth
    <3>2. FallbackSeen(s, ch, x) = (IF wifi THEN {80} ELSE {0})
                                   \cup (IF cellular \/ bluetooth THEN {0} ELSE {})
      BY <1>19, <2>4, <3>1 DEF FallbackSeen, wifi
    <3>3. y = 0 /\ ch \in 15 .. 17
      BY <1>6, <2>4
    <3>4. Seen(all, ch, x) = FallbackSeen(s, ch, x)
      <4>1. CASE wifi
        BY <1>2, <2>2, <2>4, <3>2, <3>3, <4>1
      <4>2. CASE ~ wifi
        BY <1>2, <2>2, <2>4, <3>2, <3>3, <4>2
      <4> QED BY <4>1, <4>2
    <3> QED BY <1>19, <2>1, <3>3, <3>4
  <2>5. CASE ch = 17
    <3>1. (\E other \in Technology \ {"bluetooth"} : s.connectivity[other]) <=> cellular \/ wifi
      BY DEF Technology, cellular, wifi
    <3>2. FallbackSeen(s, ch, x) = (IF bluetooth THEN {255} ELSE {0})
                                   \cup (IF cellular \/ wifi THEN {0} ELSE {})
      BY <1>19, <2>5, <3>1 DEF FallbackSeen, bluetooth
    <3>3. y = 0 /\ ch \in 15 .. 17
      BY <1>6, <2>5
    <3>4. Seen(all, ch, x) = FallbackSeen(s, ch, x)
      <4>1. CASE bluetooth
        BY <1>2, <2>2, <2>5, <3>2, <3>3, <4>1
      <4>2. CASE ~ bluetooth
        BY <1>2, <2>2, <2>5, <3>2, <3>3, <4>2
      <4> QED BY <4>1, <4>2
    <3> QED BY <1>19, <2>1, <3>3, <3>4
  <2>6. CASE ch # 15 /\ ch # 16 /\ ch # 17
    <3>1. FallbackSeen(s, ch, x) = {x} /\ y = x
      BY <1>6, <1>19, <2>6 DEF FallbackSeen
    <3> QED BY <1>2, <1>17, <2>1, <2>2, <2>6, <3>1
  <2> QED BY <2>3, <2>4, <2>5, <2>6
<1> QED BY <1>18, <1>19

\* The torch's step sets every channel to the highest level.
LEMMA TorchWord ==
    /\ StepWord(TorchStep) \in Instruction
    /\ IsLevel(StepWord(TorchStep))
    /\ ChannelOf(StepWord(TorchStep)) = 31
    /\ LevelOf(StepWord(TorchStep)) = 255
<1>1. AWLEDCodeForStep(TorchStep) = 7936
  BY DEF AWLEDCodeForStep, TorchStep, CH_ALL_LEDS
<1>2. StepWord(TorchStep) = 49151
  BY <1>1 DEF StepWord, TorchStep, SETPWMI, BlockStepDelay, BlockStepSetPWM,
              BlockStepFadeIn, BLockStepFadeOut
<1> QED BY <1>2 DEF Instruction, IsLevel, ChannelOf, LevelOf, SETPWMI, RAMPI_IN, RAMPI_OUT

\* Only a delay makes a wait: neither a level nor the torch's step reads as one.
LEMMA LevelsAreNoWaits ==
    ASSUME NEW w \in Nat, IsLevel(w)
    PROVE  ~ IsWait(w)
<1>1. w >= 40960
  BY DEF IsLevel, SETPWMI
<1>2. WAITI + WAIT_PRE_16MS + MAX_WAIT = 16383 /\ WAITI = 14336
  BY DEF WAITI, WAIT_PRE_16MS, MAX_WAIT
<1> QED BY <1>1, <1>2 DEF IsWait

LEMMA StepWaits ==
    ASSUME NEW step, StepOK(step)
    PROVE  IsWait(StepWord(step)) <=> step.type = BlockStepDelay
<1>1. CASE step = TorchStep
  <2>1. ~ IsWait(StepWord(step))
    BY <1>1, TorchWord, LevelsAreNoWaits DEF Instruction
  <2>2. step.type # BlockStepDelay
    BY <1>1 DEF TorchStep, BlockStepSetPWM, BlockStepDelay
  <2> QED BY <2>1, <2>2
<1>2. CASE IsBlockStep(step)
  BY <1>2, StepsStayInTheBlock, LevelsAreNoWaits DEF Instruction
<1> QED BY <1>1, <1>2 DEF StepOK

\* What can be seen of a channel while Update()'s program goes round: what the steps
\* show in a later round of the loop, or what the fallback shows after them.
ProgramShows(s, ch) ==
    LET words == StepWords(s.steps)
        first == After(words, ch, PreludeLevel(s, ch))
    IN  IF delaySet(s.steps) THEN Seen(words, ch, first)
        ELSE FallbackSeen(s, ch, After(words, ch, After(FallbackWords(s), ch, first)))

\* A chip that holds the program shows that, whatever it holds behind it.
THEOREM ProgramSeen ==
    ASSUME NEW s, LightsOK(s), Len(s.steps) + OVERHEAD <= SRAM_WORDS,
           NEW ch \in Channel, NEW sram, Carries(sram, Program(s))
    PROVE  Visible(sram, ch) = ProgramShows(s, ch)
<1> DEFINE prelude == Prelude(s)
           steps == StepWords(s.steps)
           fallback == FallbackWords(s)
           tail == When(~ delaySet(s.steps), fallback)
           loop == steps \o tail
           x == PreludeLevel(s, ch)
           first == After(steps, ch, x)
<1>1. /\ Program(s) = prelude \o loop \o <<Len(prelude)>>
      /\ prelude \in Seq(Instruction) /\ steps \in Seq(Instruction)
      /\ tail \in Seq(Instruction) /\ loop \in Seq(Instruction)
      /\ Len(prelude) < 256 /\ Len(prelude) + Len(loop) < SRAM_WORDS
  BY ProgramFits
<1>2. After(prelude, ch, 0) = x
  BY PreludeLevels
<1>3. \A y : Seen(fallback, ch, y) = FallbackSeen(s, ch, y)
  BY FallbackLevels
<1>4. delaySet(s.steps) => tail = << >>
  BY DEF When
<1>5. ~ delaySet(s.steps) => tail = fallback
  BY DEF When
<1>6. ~ delaySet(s.steps) => Waits(steps) = {}
  <2>1. ASSUME NEW i \in 1 .. Len(steps), ~ delaySet(s.steps) PROVE ~ IsWait(steps[i])
    <3>1. /\ i \in 1 .. Len(s.steps) /\ steps[i] = StepWord(s.steps[i])
          /\ i \in DOMAIN s.steps
      BY StepWordsShort, LenProperties DEF StepWords, LightsOK, Lights
    <3> QED BY <2>1, <3>1, StepWaits DEF LightsOK, delaySet
  <2> QED BY <2>1 DEF Waits
<1> HIDE DEF prelude, steps, fallback, tail, loop, x
<1>7. Visible(sram, ch) = Seen(loop, ch, After(loop, ch, x))
  <2>1. Carries(sram, prelude \o loop \o <<Len(prelude)>>)
    BY <1>1
  <2> QED BY <1>1, <1>2, <2>1, VisibleIsSeen
<1>8. CASE delaySet(s.steps)
  <2>1. loop = steps
    BY <1>1, <1>4, <1>8, ConcatEmptySeq DEF loop
  <2>2. Visible(sram, ch) = Seen(steps, ch, first)
    BY <1>7, <2>1
  <2> QED BY <1>8, <2>2 DEF ProgramShows, steps, x
<1>9. CASE ~ delaySet(s.steps)
  <2>1. loop = steps \o fallback /\ fallback \in Seq(Instruction)
    BY <1>1, <1>5, <1>9 DEF loop
  <2>2. \A y : /\ After(loop, ch, y) = After(fallback, ch, After(steps, ch, y))
               /\ Seen(loop, ch, y)
                    = Seen(steps, ch, y) \cup Seen(fallback, ch, After(steps, ch, y))
    BY <1>1, <2>1, JoinLevels
  <2>3. \A y : Seen(steps, ch, y) = {}
    BY <1>6, <1>9 DEF Seen
  <2> DEFINE again == After(loop, ch, x)
  <2>4. again = After(fallback, ch, first)
    BY <2>2
  <2>5. Seen(loop, ch, again) = Seen(fallback, ch, After(steps, ch, again))
    BY <2>2, <2>3
  <2> HIDE DEF again, first
  <2>6. Seen(loop, ch, again) = FallbackSeen(s, ch, After(steps, ch, After(fallback, ch, first)))
    BY <1>3, <2>4, <2>5
  <2>7. Visible(sram, ch) = FallbackSeen(s, ch, After(steps, ch, After(fallback, ch, first)))
    BY <1>7, <2>6 DEF again
  <2> QED BY <1>9, <2>7 DEF ProgramShows, steps, x, fallback, first
<1> QED BY <1>8, <1>9

LEMMA LoadedShows ==
    ASSUME NEW s, LightsOK(s), Len(s.steps) + OVERHEAD <= SRAM_WORDS, NEW ch \in Channel
    PROVE  Visible(Load(Program(s)), ch) = ProgramShows(s, ch)
<1>1. Len(Program(s)) \in Nat /\ Len(Program(s)) <= SRAM_WORDS
  BY ProgramFits, LenProperties
<1> QED BY <1>1, LoadCarries, ProgramSeen

=============================================================================
