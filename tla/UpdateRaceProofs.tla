-------------------------- MODULE UpdateRaceProofs --------------------------
(***************************************************************************)
(* What two threads in Update() at once cannot do, for any number of       *)
(* handler calls: leave the chip off or held, or any damage that the next  *)
(* Update() which is alone does not put right.                             *)
(***************************************************************************)
EXTENDS UpdateRace, LightProgramProofs

Registers ==
    [enabled : BOOLEAN, running : BOOLEAN, imax : [1 .. 5 -> Word],
     sram : [Address -> Nat], waddr : Nat, red : BOOLEAN, green : BOOLEAN]

\* There is no step but the torch's here.
Typed ==
    /\ RaceTypeOK
    /\ aw9120 \in Registers
    /\ fields.steps \in {<< >>, <<TorchStep>>}

\* The chip is off only while a thread is on its way to enabling it, and is held
\* only while one is on its way to running it.
Executing ==
    /\ changes > 0 /\ ~ aw9120.enabled =>
         \E t \in Updaters : at[t] \in {"steps_change", "disable", "setup", "enable"}
    /\ changes > 0 /\ ~ aw9120.running => \E t \in Updaters : ~ Idle(t)

\* The counter, the chip's load address and the SRAM are those of a program that
\* so far has these words.
Loaded(registers, counter, words) ==
    /\ counter = Len(words) /\ registers.waddr = Len(words)
    /\ \A i \in 1 .. Len(words) : registers.sram[i - 1] = words[i]

Written(words) == Loaded(aw9120, programCounter, words)

BeforeFallback(s) == Prelude(s) \o StepWords(s.steps)
Fallback(s) == When(~ delaySet(s.steps), FallbackWords(s))
BeforeJump(s) == BeforeFallback(s) \o Fallback(s)

WithSteps == {"steps", "fallback", "jump"}
WithPrelude == WithSteps \cup {"loop_start", "run"}
WithReset == WithPrelude \cup {"prelude"}
WithEnabled == WithReset \cup {"hold", "reset"}
WithSetup == WithEnabled \cup {"enable"}

\* What a thread that has been alone in its handler has done so far.
Progress(t) ==
    /\ at[t] \in WithSetup => aw9120.imax = Imax(fields.powerLevels)
    /\ at[t] \in WithEnabled => aw9120.enabled
    /\ at[t] = "prelude" => Written(<< >>)
    /\ at[t] \in {"loop_start", "steps"} => Written(Prelude(fields))
    /\ at[t] \in WithPrelude =>
         /\ aw9120.red = (fields.callEarpiece /\ ~ fields.callLeftUp)
         /\ aw9120.green = (fields.callEarpiece /\ fields.callLeftUp)
    /\ at[t] \in WithSteps => loopStartPC[t] = Len(Prelude(fields))
    /\ at[t] = "fallback" => Written(BeforeFallback(fields))
    /\ at[t] = "jump" => Written(BeforeJump(fields))
    /\ at[t] = "run" => Written(Program(fields))

Alone(t) == ~ Idle(t) /\ t \notin overlapped

Solo == \A t \in Updaters : Alone(t) => Idle(Other(t)) /\ Progress(t)

-----------------------------------------------------------------------------
(* The two threads *)

LEMMA Others ==
    ASSUME NEW t \in Updaters
    PROVE  /\ Other(t) \in Updaters /\ Other(t) # t
           /\ \A u \in Updaters : u = t \/ u = Other(t)
           /\ Other(Other(t)) = t
<1>1. \A v \in Updaters : Other(v) \in Updaters /\ Other(v) # v
  BY UpdatersAssumption DEF Other, Updaters
<1> QED BY <1>1 DEF Updaters

-----------------------------------------------------------------------------
(* Words that are written *)

LEMMA WordTypes ==
    ASSUME Typed
    PROVE  /\ LightsOK(fields)
           /\ Short(Prelude(fields), 6)
           /\ Short(StepWords(fields.steps), 1)
           /\ Short(Fallback(fields), 12)
           /\ Short(<<LeftoverWord>>, 1) /\ Short(<< >>, 1)
<1>1. fields \in Lights /\ fields.steps \in {<< >>, <<TorchStep>>}
  BY DEF Typed, RaceTypeOK
<1>2. /\ fields.steps = << >> => DOMAIN fields.steps = {}
      /\ fields.steps = <<TorchStep>> => DOMAIN fields.steps = {1} /\ fields.steps[1] = TorchStep
  OBVIOUS
<1>3. LightsOK(fields)
  BY <1>1, <1>2 DEF LightsOK, StepOK
<1>4. Len(fields.steps) \in {0, 1}
  BY <1>1
<1>5. Short(StepWords(fields.steps), 1)
  <2>1. Short(StepWords(fields.steps), Len(fields.steps))
    BY <1>3, StepWordsShort
  <2>2. Len(StepWords(fields.steps)) \in {0, 1}
    BY <1>3, <1>4, StepWordsShort
  <2>3. \A n \in {0, 1} : n <= 1
    OBVIOUS
  <2> QED BY <2>1, <2>2, <2>3 DEF Short
<1>6. Short(Fallback(fields), 12)
  BY <1>3, FallbackShort, ShortWhen DEF Fallback
<1>7. LeftoverWord \in Instruction
  BY DEF LeftoverWord, Instruction
<1>8. Short(<<LeftoverWord>>, 1) /\ Short(<< >>, 1)
  BY <1>7, Single, EmptySeq DEF Short
<1> QED BY <1>3, <1>5, <1>6, <1>8, PreludeShort

LEMMA WriteTypes ==
    ASSUME aw9120 \in Registers, programCounter \in Nat, NEW words \in Seq(Nat)
    PROVE  /\ WriteWords(words) \in Registers
           /\ WriteWords(words).enabled = aw9120.enabled
           /\ WriteWords(words).running = aw9120.running
           /\ WriteWords(words).imax = aw9120.imax
           /\ WriteWords(words).red = aw9120.red
           /\ WriteWords(words).green = aw9120.green
<1> DEFINE room == SRAM_WORDS - programCounter
           kept == IF Len(words) <= room THEN Len(words) ELSE IF room > 0 THEN room ELSE 0
           sram == [a \in Address |->
                      IF a - aw9120.waddr \in 0 .. kept - 1
                      THEN words[a - aw9120.waddr + 1] ELSE aw9120.sram[a]]
<1>1. Len(words) \in Nat /\ room \in Int
  BY LenProperties, SramAssumption
<1>2. kept \in Nat /\ kept <= Len(words)
  BY <1>1
<1>3. WriteWords(words) = [aw9120 EXCEPT !.sram = sram, !.waddr = aw9120.waddr + kept]
  BY DEF WriteWords, Registers
<1>4. aw9120.waddr \in Nat /\ aw9120.sram \in [Address -> Nat]
  BY DEF Registers
<1> HIDE DEF kept, room
<1>5. ASSUME NEW a \in Address, a - aw9120.waddr \in 0 .. kept - 1
      PROVE  words[a - aw9120.waddr + 1] \in Nat
  <2>1. a \in Int
    BY SramAssumption DEF Address
  <2>2. a - aw9120.waddr + 1 \in 1 .. Len(words)
    BY <1>1, <1>2, <1>4, <1>5, <2>1
  <2> QED BY <2>2, ElementOfSeq
<1>6. sram \in [Address -> Nat]
  BY <1>4, <1>5
<1>7. aw9120.waddr + kept \in Nat
  BY <1>2, <1>4
<1> HIDE DEF sram
<1> QED BY <1>3, <1>6, <1>7 DEF Registers

\* What is written after the words so far follows them, if there is room.
LEMMA WriteExtends ==
    ASSUME aw9120 \in Registers, NEW sofar \in Seq(Nat), NEW words \in Seq(Nat),
           Written(sofar), Len(sofar) + Len(words) <= SRAM_WORDS,
           aw9120'.sram = WriteWords(words).sram, aw9120'.waddr = WriteWords(words).waddr,
           programCounter' = programCounter + Len(words)
    PROVE  Loaded(aw9120', programCounter', sofar \o words)
<1> DEFINE m == Len(sofar)
           n == Len(words)
<1>1. m \in Nat /\ n \in Nat
  BY LenProperties
<1>2. /\ sofar \o words \in Seq(Nat) /\ Len(sofar \o words) = m + n
      /\ \A i \in 1 .. m + n : (sofar \o words)[i] = IF i <= m THEN sofar[i] ELSE words[i - m]
  BY ConcatProperties
<1>3. programCounter = m /\ aw9120.waddr = m /\ \A i \in 1 .. m : aw9120.sram[i - 1] = sofar[i]
  BY DEF Written, Loaded
<1> DEFINE kept == IF Len(words) <= SRAM_WORDS - programCounter THEN Len(words)
                   ELSE IF SRAM_WORDS - programCounter > 0 THEN SRAM_WORDS - programCounter
                   ELSE 0
<1>4. kept = n
  BY <1>1, <1>3, SramAssumption
<1>5. /\ aw9120'.waddr = m + n
      /\ aw9120'.sram = [a \in Address |-> IF a - m \in 0 .. n - 1
                                            THEN words[a - m + 1] ELSE aw9120.sram[a]]
  BY <1>3, <1>4 DEF WriteWords, Registers
<1>6. m + n <= SRAM_WORDS /\ SRAM_WORDS \in Nat
  BY SramAssumption
<1> HIDE DEF kept, m, n
<1>7. ASSUME NEW i \in 1 .. m + n
      PROVE  aw9120'.sram[i - 1] = (sofar \o words)[i]
  <2>1. i - 1 \in Address
    BY <1>1, <1>6 DEF Address
  <2>2. CASE i <= m
    <3>1. ~ (i - 1 - m \in 0 .. n - 1) /\ i \in 1 .. m
      BY <1>1, <2>2
    <3> QED BY <1>2, <1>3, <1>5, <2>1, <2>2, <3>1
  <2>3. CASE ~ (i <= m)
    <3>1. i - 1 - m \in 0 .. n - 1 /\ i - 1 - m + 1 = i - m
      BY <1>1, <2>3
    <3> QED BY <1>2, <1>5, <2>1, <2>3, <3>1
  <2> QED BY <2>2, <2>3
<1>8. programCounter' = m + n
  BY <1>3 DEF n
<1> QED BY <1>2, <1>5, <1>7, <1>8 DEF Loaded

-----------------------------------------------------------------------------
(* Types *)

LEMMA TypedInit == RaceInit => Typed
<1> SUFFICES ASSUME RaceInit PROVE Typed
  OBVIOUS
<1>1. << >> \in Seq(BlockAnimStep) /\ Len(<< >>) = 0
  BY EmptySeq
<1>2. fields = Constructed /\ Constructed \in Lights
  BY <1>1 DEF RaceInit, Constructed, Lights
<1>3. Load(<< >>) \in [Address -> Nat]
  <2>1. ASSUME NEW a \in Address PROVE ~ (a < Len(<< >>))
    BY <1>1, SramAssumption DEF Address
  <2>2. LeftoverWord \in Nat
    BY DEF LeftoverWord
  <2> QED BY <2>1, <2>2 DEF Load
<1>4. Imax(POWER_LEVEL_20b001s) \in [1 .. 5 -> Word]
  BY ImaxWords
<1> DEFINE program == Load(<< >>)
           limits == Imax(POWER_LEVEL_20b001s)
<1>5. aw9120 \in [enabled : BOOLEAN, running : {FALSE}, imax : {limits}, sram : {program},
                  waddr : {0}, red : {FALSE}, green : {FALSE}]
  BY DEF RaceInit
<1>6. program \in [Address -> Nat] /\ limits \in [1 .. 5 -> Word]
  BY <1>3, <1>4
<1> HIDE DEF program, limits
<1>7. aw9120 \in Registers
  <2>1. PICK on \in BOOLEAN :
           aw9120 = [enabled |-> on, running |-> FALSE, imax |-> limits, sram |-> program,
                     waddr |-> 0, red |-> FALSE, green |-> FALSE]
    BY <1>5
  <2> QED BY <1>6, <2>1 DEF Registers
<1>8. fields.steps = << >>
  BY <1>2 DEF Constructed
<1>9. at \in [Updaters -> Places] /\ loopStartPC \in [Updaters -> Nat]
  BY DEF RaceInit, Places
<1>10. /\ fields \in Lights /\ programCounter \in Nat
       /\ changes \in 0 .. MAX_CHANGES /\ overlapped \subseteq Updaters
  BY <1>2, UpdatersAssumption DEF RaceInit
<1>11. again \in BOOLEAN
  BY Zenon DEF RaceInit
<1>12. RaceTypeOK
  BY <1>7, <1>9, <1>10, <1>11 DEF RaceTypeOK, Registers
<1> QED BY <1>7, <1>8, <1>12 DEF Typed

LEMMA TypedCall ==
    ASSUME Typed, NEW t \in Updaters, Call(t), NEW to \in Places, Move(t, "idle", to),
           fields' \in Lights, fields'.steps \in {<< >>, <<TorchStep>>}, again' \in BOOLEAN
    PROVE  Typed'
<1>1. changes' \in 0 .. MAX_CHANGES
  BY UpdatersAssumption DEF Typed, RaceTypeOK, Call
<1>2. overlapped' \subseteq Updaters
  BY DEF Typed, RaceTypeOK, Call
<1>3. at' \in [Updaters -> Places]
  BY DEF Typed, RaceTypeOK, Move
<1> QED BY <1>1, <1>2, <1>3 DEF Typed, RaceTypeOK, Call

LEMMA TypedStep ==
    ASSUME Typed, NEW t \in Updaters, NEW from, NEW to \in Places, Move(t, from, to),
           aw9120' \in Registers, programCounter' \in Nat,
           loopStartPC' \in [Updaters -> Nat], UNCHANGED <<fields, changes>>,
           again' \in BOOLEAN, overlapped' \subseteq Updaters
    PROVE  Typed'
<1>1. at' \in [Updaters -> Places]
  BY DEF Typed, RaceTypeOK, Move
<1> QED BY <1>1 DEF Typed, RaceTypeOK, Registers

LEMMA CountTypes ==
    ASSUME NEW t \in Updaters, NEW n \in Nat, programCounter \in Nat, Count(t, n)
    PROVE  programCounter' \in Nat
BY DEF Count

\* What the loop over the steps can write.
LEMMA StepsReadTypes ==
    ASSUME Typed, NEW t \in Updaters, NEW words \in StepsRead(t)
    PROVE  words \in Seq(Nat)
<1>1. Seq(Instruction) \subseteq Seq(Nat)
  BY DEF Instruction
<1>2. Short(words, 1)
  BY WordTypes DEF StepsRead
<1> QED BY <1>1, <1>2 DEF Short

LEMMA ShortNat ==
    ASSUME NEW words, NEW n \in Nat, Short(words, n)
    PROVE  words \in Seq(Nat) /\ Len(words) \in Nat /\ Len(words) <= n
<1>1. Seq(Instruction) \subseteq Seq(Nat)
  BY DEF Instruction
<1> QED BY <1>1, LenProperties DEF Short

LEMMA UpdateTyped ==
    ASSUME Typed, NEW t \in Updaters, Update(t)
    PROVE  Typed'
<1>1. /\ aw9120 \in Registers /\ programCounter \in Nat
      /\ loopStartPC \in [Updaters -> Nat] /\ fields \in Lights
      /\ again \in BOOLEAN /\ overlapped \subseteq Updaters
  BY DEF Typed, RaceTypeOK
<1>2. CASE DisableAW9120(t)
  <2>1. aw9120' \in Registers
    BY <1>1, <1>2 DEF DisableAW9120, Writes, Registers
  <2> QED BY <1>1, <1>2, <2>1, TypedStep DEF DisableAW9120, Writes, Places
<1>3. CASE SetupAW9120(t)
  <2>1. Imax(fields.powerLevels) \in [1 .. 5 -> Word]
    BY <1>1, ImaxWords DEF Lights
  <2>2. aw9120' \in Registers
    BY <1>1, <1>3, <2>1 DEF SetupAW9120, Writes, Registers
  <2> QED BY <1>1, <1>3, <2>2, TypedStep DEF SetupAW9120, Writes, Places
<1>4. CASE EnableAW9120(t)
  <2>1. aw9120' \in Registers
    BY <1>1, <1>4 DEF EnableAW9120, Writes, Registers
  <2> QED BY <1>1, <1>4, <2>1, TypedStep DEF EnableAW9120, Writes, Places
<1>5. CASE HoldSramAW9120(t)
  <2>1. aw9120' \in Registers
    BY <1>1, <1>5 DEF HoldSramAW9120, Writes, Registers
  <2> QED BY <1>1, <1>5, <2>1, TypedStep DEF HoldSramAW9120, Writes, Places
<1>6. CASE ResetSramLoadAddrAW9120(t)
  <2>1. aw9120' \in Registers /\ programCounter' \in Nat
    BY <1>1, <1>6 DEF ResetSramLoadAddrAW9120, Writes, Registers
  <2> QED BY <1>1, <1>6, <2>1, TypedStep DEF ResetSramLoadAddrAW9120, Writes, Places
<1>7. CASE WritePrelude(t)
  <2>1. Prelude(fields) \in Seq(Nat) /\ Len(Prelude(fields)) \in Nat
    BY WordTypes, ShortNat
  <2>2. WriteWords(Prelude(fields)) \in Registers
    BY <1>1, <2>1, WriteTypes
  <2>3. fields.callEarpiece \in BOOLEAN /\ fields.callLeftUp \in BOOLEAN
    BY <1>1 DEF Lights
  <2> DEFINE written == WriteWords(Prelude(fields))
             red == fields.callEarpiece /\ ~ fields.callLeftUp
             green == fields.callEarpiece /\ fields.callLeftUp
  <2>4. aw9120' = [written EXCEPT !.red = red, !.green = green]
    BY <1>7 DEF WritePrelude, Writes
  <2>5. written \in Registers /\ red \in BOOLEAN /\ green \in BOOLEAN
    BY <2>2, <2>3
  <2> HIDE DEF written, red, green
  <2>6. aw9120' \in Registers
    BY <2>4, <2>5 DEF Registers
  <2>7. programCounter' \in Nat
    BY <1>1, <1>7, <2>1, CountTypes DEF WritePrelude
  <2> QED BY <1>1, <1>7, <2>6, <2>7, TypedStep DEF WritePrelude, Writes, Places
<1>8. CASE LoopStart(t)
  <2>1. loopStartPC' \in [Updaters -> Nat]
    BY <1>1, <1>8 DEF LoopStart
  <2> QED BY <1>1, <1>8, <2>1, TypedStep DEF LoopStart, Places
<1>9. CASE WriteSteps(t)
  <2>1. PICK words \in StepsRead(t) : Writes(WriteWords(words)) /\ Count(t, Len(words))
    BY <1>9 DEF WriteSteps
  <2>2. words \in Seq(Nat) /\ Len(words) \in Nat
    BY StepsReadTypes, LenProperties
  <2>3. aw9120' \in Registers
    BY <1>1, <2>1, <2>2, WriteTypes DEF Writes
  <2>4. programCounter' \in Nat
    BY <1>1, <2>1, <2>2, CountTypes
  <2> QED BY <1>1, <1>9, <2>1, <2>3, <2>4, TypedStep DEF WriteSteps, Writes, Places
<1>10. CASE WriteFallback(t)
  <2>1. Fallback(fields) \in Seq(Nat) /\ Len(Fallback(fields)) \in Nat
    BY WordTypes, ShortNat
  <2>2. Writes(WriteWords(Fallback(fields))) /\ Count(t, Len(Fallback(fields)))
    BY <1>10 DEF WriteFallback, Fallback
  <2>3. aw9120' \in Registers
    BY <1>1, <2>1, <2>2, WriteTypes DEF Writes
  <2>4. programCounter' \in Nat
    BY <1>1, <2>1, <2>2, CountTypes
  <2> QED BY <1>1, <1>10, <2>2, <2>3, <2>4, TypedStep DEF WriteFallback, Writes, Places
<1>11. CASE WriteJump(t)
  <2>1. loopStartPC[t] \in Nat
    BY <1>1
  <2>2. <<loopStartPC[t]>> \in Seq(Nat)
    BY <2>1
  <2>3. aw9120' \in Registers
    BY <1>1, <1>11, <2>2, WriteTypes DEF WriteJump, Writes
  <2>4. programCounter' \in Nat
    BY <1>1, <1>11, CountTypes DEF WriteJump
  <2> QED BY <1>1, <1>11, <2>3, <2>4, TypedStep DEF WriteJump, Writes, Places
<1>12. CASE RunSramAW9120(t)
  <2>1. aw9120' \in Registers /\ loopStartPC' \in [Updaters -> Nat]
    BY <1>1, <1>12 DEF RunSramAW9120, EndUpdate, Registers
  <2>2. again' \in BOOLEAN /\ overlapped' \subseteq Updaters
    BY <1>1, <1>12 DEF RunSramAW9120, EndUpdate
  <2>3. PICK to \in {"idle", "disable"} : Move(t, "run", to)
    BY <1>12 DEF RunSramAW9120, EndUpdate
  <2>4. to \in Places
    BY DEF Places
  <2> QED BY <1>1, <1>12, <2>1, <2>2, <2>3, <2>4, TypedStep DEF RunSramAW9120
<1> QED BY <1>2, <1>3, <1>4, <1>5, <1>6, <1>7, <1>8, <1>9, <1>10, <1>11, <1>12 DEF Update

\* A handler is a call of its thread, and changes the fields within their types.
Calling(t) ==
    /\ Call(t)
    /\ \E to \in {"disable", "steps_change"} : Move(t, "idle", to)

LEMMA HandlersCall ==
    ASSUME Typed, RaceNext
    PROVE  \/ \E t \in Updaters : Calling(t) /\ Typed'
           \/ StepsChanged
           \/ \E t \in Updaters : Update(t)
<1>1. fields \in Lights /\ fields.steps \in {<< >>, <<TorchStep>>}
  BY DEF Typed, RaceTypeOK
<1>0. again \in BOOLEAN
  BY DEF Typed, RaceTypeOK
<1>2. MainThread \in Updaters /\ Watcher \in Updaters
  BY DEF Updaters
<1>3. "disable" \in Places /\ "steps_change" \in Places
  BY DEF Places
<1>4. ASSUME NEW state \in States, handleCapsLock(state)
      PROVE  Calling(MainThread) /\ Typed'
  <2>1. fields' \in Lights /\ fields'.steps = fields.steps
    BY <1>1, <1>4, UpdatersAssumption DEF handleCapsLock, Lights
  <2> QED BY <1>0, <1>1, <1>2, <1>3, <1>4, <2>1, TypedCall DEF handleCapsLock, Calling
<1>5. ASSUME NEW call \in Calls, handleCall(call[1], call[2])
      PROVE  Calling(MainThread) /\ Typed'
  <2>1. call[1] \in BOOLEAN /\ call[2] \in BOOLEAN
    BY UpdatersAssumption
  <2>2. fields' \in Lights /\ fields'.steps = fields.steps
    BY <1>1, <1>5, <2>1 DEF handleCall, Lights
  <2> QED BY <1>0, <1>1, <1>2, <1>3, <1>5, <2>2, TypedCall DEF handleCall, Calling
<1>6. ASSUME NEW on \in States, handleTorch(on)
      PROVE  Calling(MainThread) /\ Typed'
  <2>0. on \in BOOLEAN
    BY UpdatersAssumption
  <2>1. When(on, <<TorchStep>>) \in {<< >>, <<TorchStep>>}
    BY DEF When
  <2>2. When(on, <<TorchStep>>) \in Seq(BlockAnimStep)
    <3>1. 31 \in Nat /\ 0 \in Nat /\ 0 \in 0 .. 3 /\ 255 \in 0 .. 1023
      OBVIOUS
    <3>2. TorchStep \in BlockAnimStep
      BY <3>1 DEF TorchStep, BlockAnimStep, BlockStepSetPWM
    <3>3. <<TorchStep>> \in Seq(BlockAnimStep)
      BY <3>2
    <3> QED BY <2>1, <3>3, EmptySeq
  <2>3. fields' \in Lights /\ fields'.steps = When(on, <<TorchStep>>)
    BY <1>1, <1>6, <2>0, <2>2 DEF handleTorch, Lights
  <2> QED BY <1>2, <1>3, <1>6, <2>1, <2>3, TypedCall DEF handleTorch, Calling
<1>7. ASSUME NEW tech \in Watched, NEW state \in States, handleConnectivity(tech, state)
      PROVE  Calling(Watcher) /\ Typed'
  <2>1. tech \in Technology /\ state \in BOOLEAN
    BY UpdatersAssumption
  <2>2. fields' \in Lights /\ fields'.steps = fields.steps
    BY <1>1, <1>7, <2>1 DEF handleConnectivity, Lights
  <2> QED BY <1>0, <1>1, <1>2, <1>3, <1>7, <2>2, TypedCall DEF handleConnectivity, Calling
<1> QED BY <1>2, <1>4, <1>5, <1>6, <1>7 DEF RaceNext

LEMMA TypedNext == Typed /\ [RaceNext]_raceVars => Typed'
<1> SUFFICES ASSUME Typed, [RaceNext]_raceVars PROVE Typed'
  OBVIOUS
<1>1. CASE StepsChanged
  <2>1. /\ Move(MainThread, "steps_change", "disable")
        /\ UNCHANGED <<fields, aw9120, programCounter, loopStartPC, again, changes, overlapped>>
    BY <1>1 DEF StepsChanged
  <2>2. MainThread \in Updaters /\ "disable" \in Places
    BY DEF Updaters, Places
  <2>3. /\ aw9120' \in Registers /\ programCounter' \in Nat
        /\ loopStartPC' \in [Updaters -> Nat] /\ again' \in BOOLEAN
        /\ overlapped' \subseteq Updaters
    BY <2>1 DEF Typed, RaceTypeOK
  <2> QED BY <2>1, <2>2, <2>3, TypedStep
<1>2. CASE UNCHANGED raceVars
  BY <1>2 DEF raceVars, Typed, RaceTypeOK
<1> QED BY <1>1, <1>2, HandlersCall, UpdateTyped

\* Writing words leaves the chip's other registers alone.
LEMMA WriteKeeps ==
    ASSUME Typed, NEW t \in Updaters,
           WritePrelude(t) \/ WriteSteps(t) \/ WriteFallback(t) \/ WriteJump(t)
    PROVE  /\ aw9120'.enabled = aw9120.enabled
           /\ aw9120'.imax = aw9120.imax
           /\ ~ WritePrelude(t) => aw9120'.red = aw9120.red /\ aw9120'.green = aw9120.green
<1>1. aw9120 \in Registers /\ programCounter \in Nat /\ loopStartPC[t] \in Nat
  BY DEF Typed, RaceTypeOK
<1>2. CASE WritePrelude(t)
  <2>1. Prelude(fields) \in Seq(Nat)
    BY WordTypes, ShortNat
  <2> DEFINE written == WriteWords(Prelude(fields))
  <2>2. /\ written \in Registers /\ written.enabled = aw9120.enabled
        /\ written.imax = aw9120.imax
    BY <1>1, <2>1, WriteTypes
  <2>3. aw9120' = [written EXCEPT !.red = fields.callEarpiece /\ ~ fields.callLeftUp,
                                  !.green = fields.callEarpiece /\ fields.callLeftUp]
    BY <1>2 DEF WritePrelude, Writes
  <2> HIDE DEF written
  <2>4. aw9120'.enabled = written.enabled /\ aw9120'.imax = written.imax
    BY <2>2, <2>3 DEF Registers
  <2> QED BY <1>2, <2>2, <2>4
<1>3. ASSUME NEW words \in Seq(Nat), Writes(WriteWords(words))
      PROVE  /\ aw9120'.enabled = aw9120.enabled /\ aw9120'.imax = aw9120.imax
             /\ aw9120'.red = aw9120.red /\ aw9120'.green = aw9120.green
  BY <1>1, <1>3, WriteTypes DEF Writes
<1>4. CASE WriteSteps(t)
  <2>1. PICK words \in StepsRead(t) : Writes(WriteWords(words))
    BY <1>4 DEF WriteSteps
  <2> QED BY <1>3, <2>1, StepsReadTypes
<1>5. CASE WriteFallback(t)
  <2>1. Fallback(fields) \in Seq(Nat)
    BY WordTypes, ShortNat
  <2> QED BY <1>3, <1>5, <2>1 DEF WriteFallback, Fallback
<1>6. CASE WriteJump(t)
  <2>1. <<loopStartPC[t]>> \in Seq(Nat)
    BY <1>1
  <2> QED BY <1>3, <1>6, <2>1 DEF WriteJump
<1> QED BY <1>2, <1>4, <1>5, <1>6

-----------------------------------------------------------------------------
(* The chip is left running *)

RaceInv == Typed /\ Executing

LEMMA ExecutingNext == RaceInv /\ [RaceNext]_raceVars => Executing'
<1> SUFFICES ASSUME Typed, Executing, [RaceNext]_raceVars PROVE Executing'
  BY DEF RaceInv
<1>1. aw9120 \in Registers /\ at \in [Updaters -> Places] /\ changes \in Nat
  BY UpdatersAssumption DEF Typed, RaceTypeOK
<1>2. ASSUME NEW t \in Updaters, Calling(t) PROVE Executing'
  <2>1. at'[t] \in {"disable", "steps_change"} /\ UNCHANGED aw9120
    BY <1>1, <1>2 DEF Calling, Call, Move
  <2> QED BY <2>1 DEF Executing, Idle
<1>3. CASE StepsChanged
  <2>1. /\ MainThread \in Updaters /\ at'[MainThread] = "disable" /\ UNCHANGED <<aw9120, changes>>
    BY <1>1, <1>3 DEF StepsChanged, Move, Updaters
  <2> QED BY <2>1 DEF Executing, Idle
<1>4. ASSUME NEW t \in Updaters, Update(t) PROVE Executing'
  <2>1. UNCHANGED changes
    BY <1>4 DEF Update, DisableAW9120, SetupAW9120, EnableAW9120, HoldSramAW9120,
                ResetSramLoadAddrAW9120, WritePrelude, LoopStart, WriteSteps, WriteFallback,
                WriteJump, RunSramAW9120, Writes
  <2>2. CASE DisableAW9120(t)
    <3>1. at'[t] = "setup"
      BY <1>1, <2>2 DEF DisableAW9120, Move
    <3> QED BY <3>1 DEF Executing, Idle
  <2>3. CASE SetupAW9120(t)
    <3>1. at'[t] = "enable"
      BY <1>1, <2>3 DEF SetupAW9120, Move
    <3> QED BY <3>1 DEF Executing, Idle
  <2>4. CASE EnableAW9120(t)
    <3>1. at'[t] = "hold" /\ aw9120'.enabled
      BY <1>1, <2>4 DEF EnableAW9120, Move, Writes, Registers
    <3> QED BY <3>1 DEF Executing, Idle
  <2>5. ASSUME at[t] \in WithEnabled, at'[t] \in WithEnabled,
               \A u \in Updaters : u # t => at'[u] = at[u],
               aw9120'.enabled = aw9120.enabled
        PROVE  Executing'
    BY <2>1, <2>5 DEF Executing, Idle, WithEnabled, WithReset, WithPrelude, WithSteps
  <2>6. CASE HoldSramAW9120(t) \/ ResetSramLoadAddrAW9120(t) \/ LoopStart(t)
    <3>1. /\ at[t] \in WithEnabled /\ at'[t] \in WithEnabled
          /\ \A u \in Updaters : u # t => at'[u] = at[u]
      BY <1>1, <2>6 DEF HoldSramAW9120, ResetSramLoadAddrAW9120, LoopStart, Move,
                        WithEnabled, WithReset, WithPrelude, WithSteps
    <3>2. aw9120'.enabled = aw9120.enabled
      BY <1>1, <2>6 DEF HoldSramAW9120, ResetSramLoadAddrAW9120, LoopStart, Writes, Registers
    <3> QED BY <2>5, <3>1, <3>2
  <2>7. CASE WritePrelude(t) \/ WriteSteps(t) \/ WriteFallback(t) \/ WriteJump(t)
    <3>1. /\ at[t] \in WithEnabled /\ at'[t] \in WithEnabled
          /\ \A u \in Updaters : u # t => at'[u] = at[u]
      BY <1>1, <2>7 DEF WritePrelude, WriteSteps, WriteFallback, WriteJump, Move,
                        WithEnabled, WithReset, WithPrelude, WithSteps
    <3>2. aw9120'.enabled = aw9120.enabled
      BY <1>1, <2>7, WriteKeeps
    <3> QED BY <2>5, <3>1, <3>2
  <2>8. CASE RunSramAW9120(t)
    <3>1. /\ aw9120'.running /\ aw9120'.enabled = aw9120.enabled /\ at[t] = "run"
          /\ \A u \in Updaters : u # t => at'[u] = at[u]
      BY <1>1, <2>8 DEF RunSramAW9120, EndUpdate, Move, Registers
    <3> QED BY <2>1, <3>1 DEF Executing
  <2> QED BY <1>4, <2>2, <2>3, <2>4, <2>6, <2>7, <2>8 DEF Update
<1>5. CASE UNCHANGED raceVars
  BY <1>5 DEF raceVars, Executing, Idle
<1> QED BY <1>2, <1>3, <1>4, <1>5, HandlersCall

LEMMA RaceInvariance == RaceSpec => []RaceInv
<1>1. RaceInit => RaceInv
  <2>1. RaceInit => Executing
    BY DEF RaceInit, Executing
  <2> QED BY <2>1, TypedInit DEF RaceInv
<1>2. RaceInv /\ [RaceNext]_raceVars => RaceInv'
  BY TypedNext, ExecutingNext DEF RaceInv
<1> QED BY <1>1, <1>2, PTL DEF RaceSpec

\* The fields, the registers, the shared counter and the threads' places are what
\* they can be, for any number of calls (LightState.h:62-97).
THEOREM RaceTypeCorrect == RaceSpec => []RaceTypeOK
<1>1. RaceInv => RaceTypeOK
  BY DEF RaceInv, Typed
<1> QED BY <1>1, RaceInvariance, PTL

\* However many Updates interleave, and however, the chip is on and executing
\* when none runs (LightState.cpp:133-194, 286-289).
THEOREM LeftRunning == RaceSpec => []QuiescentChipRuns
<1>1. RaceInv => QuiescentChipRuns
  BY DEF RaceInv, Executing, QuiescentChipRuns, Idle
<1> QED BY <1>1, RaceInvariance, PTL

-----------------------------------------------------------------------------
(* An Update that is alone *)

\* A program whose parts have these lengths fits.
LEMMA PartsFit ==
    ASSUME NEW p \in Seq(Nat), NEW s \in Seq(Nat), NEW f \in Seq(Nat),
           Len(p) \in 0 .. 6, Len(s) \in 0 .. 1, Len(f) \in 0 .. 12,
           OVERHEAD < SRAM_WORDS
    PROVE  /\ p \o s \in Seq(Nat) /\ (p \o s) \o f \in Seq(Nat)
           /\ << >> \in Seq(Nat) /\ << >> \o p = p
           /\ <<Len(p)>> \in Seq(Nat) /\ Len(<<Len(p)>>) = 1
           /\ Len(<< >>) + Len(p) <= SRAM_WORDS
           /\ Len(p) + Len(s) <= SRAM_WORDS
           /\ Len(p \o s) + Len(f) <= SRAM_WORDS
           /\ Len((p \o s) \o f) + 1 <= SRAM_WORDS
<1>1. SRAM_WORDS \in Nat /\ 19 < SRAM_WORDS
  BY SramAssumption DEF OVERHEAD
<1>2. /\ p \o s \in Seq(Nat) /\ Len(p \o s) = Len(p) + Len(s)
      /\ << >> \in Seq(Nat) /\ Len(<< >>) = 0 /\ << >> \o p = p
  BY ConcatProperties, EmptySeq
<1>3. (p \o s) \o f \in Seq(Nat) /\ Len((p \o s) \o f) = Len(p \o s) + Len(f)
  BY <1>2, ConcatProperties
<1>4. Len(p) \in Nat
  BY LenProperties
<1>5. <<Len(p)>> \in Seq(Nat) /\ Len(<<Len(p)>>) = 1
  BY <1>4
<1>6. \A i \in 0 .. 6, j \in 0 .. 1, k \in 0 .. 12 :
        /\ 0 + i <= SRAM_WORDS /\ i + j <= SRAM_WORDS
        /\ (i + j) + k <= SRAM_WORDS /\ ((i + j) + k) + 1 <= SRAM_WORDS
  BY <1>1
<1> QED BY <1>2, <1>3, <1>5, <1>6

LEMMA ProgramParts ==
    ASSUME Typed, OVERHEAD < SRAM_WORDS
    PROVE  /\ Prelude(fields) \in Seq(Nat) /\ StepWords(fields.steps) \in Seq(Nat)
           /\ Fallback(fields) \in Seq(Nat)
           /\ BeforeFallback(fields) \in Seq(Nat) /\ BeforeJump(fields) \in Seq(Nat)
           /\ << >> \in Seq(Nat) /\ << >> \o Prelude(fields) = Prelude(fields)
           /\ <<Len(Prelude(fields))>> \in Seq(Nat) /\ Len(<<Len(Prelude(fields))>>) = 1
           /\ Len(<< >>) + Len(Prelude(fields)) <= SRAM_WORDS
           /\ Len(Prelude(fields)) + Len(StepWords(fields.steps)) <= SRAM_WORDS
           /\ Len(BeforeFallback(fields)) + Len(Fallback(fields)) <= SRAM_WORDS
           /\ Len(BeforeJump(fields)) + 1 <= SRAM_WORDS
           /\ Program(fields) = BeforeJump(fields) \o <<Len(Prelude(fields))>>
           /\ Program(fields) \in Seq(Nat)
<1>1. /\ Prelude(fields) \in Seq(Nat) /\ Len(Prelude(fields)) \in 0 .. 6
      /\ StepWords(fields.steps) \in Seq(Nat) /\ Len(StepWords(fields.steps)) \in 0 .. 1
      /\ Fallback(fields) \in Seq(Nat) /\ Len(Fallback(fields)) \in 0 .. 12
  <2>1. ASSUME NEW words, NEW n \in Nat, Short(words, n)
        PROVE  words \in Seq(Nat) /\ Len(words) \in 0 .. n
    BY <2>1, ShortNat
  <2>2. 6 \in Nat /\ 1 \in Nat /\ 12 \in Nat
    OBVIOUS
  <2> QED BY <2>1, <2>2, WordTypes, Zenon
<1>2. Program(fields) = BeforeJump(fields) \o <<Len(Prelude(fields))>>
  BY DEF Program, BeforeJump, BeforeFallback, Fallback
<1>3. /\ BeforeJump(fields) \in Seq(Nat) /\ <<Len(Prelude(fields))>> \in Seq(Nat)
      /\ BeforeFallback(fields) \in Seq(Nat)
  BY <1>1, PartsFit, Zenon DEF BeforeJump, BeforeFallback
<1>4. Program(fields) \in Seq(Nat)
  BY <1>2, <1>3, ConcatProperties
<1> QED BY <1>1, <1>2, <1>3, <1>4, PartsFit, Zenon DEF BeforeJump, BeforeFallback

\* What a thread alone writes follows what it has written.
LEMMA AloneWrites ==
    ASSUME Typed, NEW t \in Updaters, Idle(Other(t)),
           NEW sofar \in Seq(Nat), NEW words \in Seq(Nat), Written(sofar),
           Len(sofar) + Len(words) <= SRAM_WORDS, Count(t, Len(words)),
           aw9120'.sram = WriteWords(words).sram, aw9120'.waddr = WriteWords(words).waddr
    PROVE  Loaded(aw9120', programCounter', sofar \o words)
<1>1. ~ Counting(Other(t))
  BY DEF Counting, Idle
<1>2. programCounter' = programCounter + Len(words)
  BY <1>1 DEF Count
<1> QED BY <1>2, WriteExtends DEF Typed

\* One step of a thread that is alone.
LEMMA ProgressStep ==
    ASSUME Typed, OVERHEAD < SRAM_WORDS, NEW t \in Updaters, Update(t),
           Idle(Other(t)), Progress(t), ~ Idle(t)'
    PROVE  Progress(t)'
<1> USE DEF WithSetup, WithEnabled, WithReset, WithPrelude, WithSteps
<1>1. /\ aw9120 \in Registers /\ at \in [Updaters -> Places] /\ programCounter \in Nat
      /\ loopStartPC \in [Updaters -> Nat] /\ fields \in Lights
  BY DEF Typed, RaceTypeOK
<1>2. CASE DisableAW9120(t)
  <2>1. at'[t] = "setup"
    BY <1>1, <1>2 DEF DisableAW9120, Move
  <2> QED BY <2>1 DEF Progress
<1>3. CASE SetupAW9120(t)
  <2>1. at'[t] = "enable" /\ aw9120'.imax = Imax(fields'.powerLevels)
    BY <1>1, <1>3 DEF SetupAW9120, Move, Writes, Registers
  <2> QED BY <2>1 DEF Progress
<1>4. CASE EnableAW9120(t)
  <2>1. /\ at[t] = "enable" /\ at'[t] = "hold" /\ aw9120'.enabled
        /\ aw9120'.imax = aw9120.imax /\ UNCHANGED fields
    BY <1>1, <1>4 DEF EnableAW9120, Move, Writes, Registers
  <2> QED BY <2>1 DEF Progress
<1>5. CASE HoldSramAW9120(t)
  <2>1. /\ at[t] = "hold" /\ at'[t] = "reset" /\ aw9120'.enabled = aw9120.enabled
        /\ aw9120'.imax = aw9120.imax /\ UNCHANGED fields
    BY <1>1, <1>5 DEF HoldSramAW9120, Move, Writes, Registers
  <2> QED BY <2>1 DEF Progress
<1>6. CASE ResetSramLoadAddrAW9120(t)
  <2>1. /\ at[t] = "reset" /\ at'[t] = "prelude" /\ aw9120'.enabled = aw9120.enabled
        /\ aw9120'.imax = aw9120.imax /\ UNCHANGED fields
        /\ aw9120'.waddr = 0 /\ programCounter' = 0
    BY <1>1, <1>6 DEF ResetSramLoadAddrAW9120, Move, Writes, Registers, Counting, Idle
  <2>2. Written(<< >>)'
    BY <2>1 DEF Written, Loaded
  <2> QED BY <2>1, <2>2 DEF Progress
<1>7. CASE WritePrelude(t)
  <2>1. /\ at[t] = "prelude" /\ at'[t] = "loop_start" /\ UNCHANGED fields
        /\ aw9120'.enabled = aw9120.enabled /\ aw9120'.imax = aw9120.imax
    BY <1>1, <1>7, WriteKeeps DEF WritePrelude, Move, Writes
  <2>2. Prelude(fields) \in Seq(Nat)
    BY ProgramParts
  <2> DEFINE written == WriteWords(Prelude(fields))
             red == fields.callEarpiece /\ ~ fields.callLeftUp
             green == fields.callEarpiece /\ fields.callLeftUp
  <2>3. written \in Registers
    BY <1>1, <2>2, WriteTypes
  <2>4. aw9120' = [written EXCEPT !.red = red, !.green = green]
    BY <1>7 DEF WritePrelude, Writes
  <2> HIDE DEF written, red, green
  <2>5. /\ aw9120'.red = red /\ aw9120'.green = green
        /\ aw9120'.sram = written.sram /\ aw9120'.waddr = written.waddr
    BY <2>3, <2>4 DEF Registers
  <2>6. Loaded(aw9120', programCounter', << >> \o Prelude(fields))
    <3>1. /\ << >> \in Seq(Nat) /\ Len(<< >>) + Len(Prelude(fields)) <= SRAM_WORDS
      BY ProgramParts
    <3>2. Written(<< >>) /\ Count(t, Len(Prelude(fields)))
      BY <1>7, <2>1 DEF Progress, WritePrelude
    <3> QED BY <2>2, <2>5, <3>1, <3>2, AloneWrites, Zenon DEF written
  <2>7. << >> \o Prelude(fields) = Prelude(fields)
    BY ProgramParts
  <2>8. Written(Prelude(fields))'
    BY <2>1, <2>6, <2>7 DEF Written
  <2> QED BY <2>1, <2>5, <2>8 DEF Progress, red, green
<1>8. CASE LoopStart(t)
  <2>1. /\ at[t] = "loop_start" /\ at'[t] = "steps"
        /\ UNCHANGED <<fields, aw9120, programCounter>>
        /\ loopStartPC'[t] = programCounter
    BY <1>1, <1>8 DEF LoopStart, Move
  <2>2. Written(Prelude(fields)) /\ loopStartPC'[t] = Len(Prelude(fields))
    BY <2>1 DEF Progress, Written, Loaded
  <2>3. Written(Prelude(fields))'
    BY <2>1, <2>2 DEF Written
  <2> QED BY <2>1, <2>2, <2>3 DEF Progress
<1>9. CASE WriteSteps(t)
  <2>1. /\ at[t] = "steps" /\ at'[t] = "fallback" /\ UNCHANGED <<fields, loopStartPC>>
        /\ aw9120'.enabled = aw9120.enabled /\ aw9120'.imax = aw9120.imax
        /\ aw9120'.red = aw9120.red /\ aw9120'.green = aw9120.green
    BY <1>1, <1>9, WriteKeeps DEF WriteSteps, WritePrelude, Move, Writes
  <2>2. StepsRead(t) = {StepWords(fields.steps)}
    BY DEF StepsRead, Idle
  <2>3. aw9120' = WriteWords(StepWords(fields.steps)) /\ Count(t, Len(StepWords(fields.steps)))
    BY <1>9, <2>2 DEF WriteSteps, Writes
  <2>4. Loaded(aw9120', programCounter', Prelude(fields) \o StepWords(fields.steps))
    <3>1. /\ Prelude(fields) \in Seq(Nat) /\ StepWords(fields.steps) \in Seq(Nat)
          /\ Len(Prelude(fields)) + Len(StepWords(fields.steps)) <= SRAM_WORDS
      BY ProgramParts
    <3>2. Written(Prelude(fields))
      BY <2>1 DEF Progress
    <3> QED BY <2>3, <3>1, <3>2, AloneWrites, Zenon
  <2>5. Written(BeforeFallback(fields))'
    BY <2>1, <2>4 DEF Written, BeforeFallback
  <2> QED BY <2>1, <2>5 DEF Progress
<1>10. CASE WriteFallback(t)
  <2>1. /\ at[t] = "fallback" /\ at'[t] = "jump" /\ UNCHANGED <<fields, loopStartPC>>
        /\ aw9120'.enabled = aw9120.enabled /\ aw9120'.imax = aw9120.imax
        /\ aw9120'.red = aw9120.red /\ aw9120'.green = aw9120.green
    BY <1>1, <1>10, WriteKeeps DEF WriteFallback, WritePrelude, Move, Writes
  <2>2. aw9120' = WriteWords(Fallback(fields)) /\ Count(t, Len(Fallback(fields)))
    BY <1>10 DEF WriteFallback, Writes, Fallback
  <2>3. Loaded(aw9120', programCounter', BeforeFallback(fields) \o Fallback(fields))
    <3>1. /\ BeforeFallback(fields) \in Seq(Nat) /\ Fallback(fields) \in Seq(Nat)
          /\ Len(BeforeFallback(fields)) + Len(Fallback(fields)) <= SRAM_WORDS
      BY ProgramParts
    <3>2. Written(BeforeFallback(fields))
      BY <2>1 DEF Progress
    <3> QED BY <2>2, <3>1, <3>2, AloneWrites, Zenon
  <2>4. Written(BeforeJump(fields))'
    BY <2>1, <2>3 DEF Written, BeforeJump
  <2> QED BY <2>1, <2>4 DEF Progress
<1>11. CASE WriteJump(t)
  <2>1. /\ at[t] = "jump" /\ at'[t] = "run" /\ UNCHANGED <<fields, loopStartPC>>
        /\ aw9120'.enabled = aw9120.enabled /\ aw9120'.imax = aw9120.imax
        /\ aw9120'.red = aw9120.red /\ aw9120'.green = aw9120.green
    BY <1>1, <1>11, WriteKeeps DEF WriteJump, WritePrelude, Move, Writes
  <2>2. loopStartPC[t] = Len(Prelude(fields))
    BY <2>1 DEF Progress
  <2> DEFINE jump == <<Len(Prelude(fields))>>
  <2>3. jump \in Seq(Nat) /\ Len(jump) = 1
    BY ProgramParts
  <2>4. aw9120' = WriteWords(jump) /\ Count(t, 1)
    BY <1>11, <2>2 DEF WriteJump, Writes
  <2> HIDE DEF jump
  <2>5. Loaded(aw9120', programCounter', BeforeJump(fields) \o jump)
    <3>1. BeforeJump(fields) \in Seq(Nat) /\ Len(BeforeJump(fields)) + Len(jump) <= SRAM_WORDS
      BY <2>3, ProgramParts
    <3>2. Written(BeforeJump(fields)) /\ Count(t, Len(jump))
      BY <2>1, <2>3, <2>4 DEF Progress
    <3> QED BY <2>3, <2>4, <3>1, <3>2, AloneWrites, Zenon
  <2>6. Program(fields) = BeforeJump(fields) \o jump
    BY ProgramParts DEF jump
  <2>7. Written(Program(fields))'
    BY <2>1, <2>5, <2>6 DEF Written
  <2> QED BY <2>1, <2>7 DEF Progress
<1>12. CASE RunSramAW9120(t)
  <2>1. at'[t] = "idle" \/ at'[t] = "disable"
    BY <1>1, <1>12 DEF RunSramAW9120, EndUpdate, Move
  <2> QED BY <2>1 DEF Progress
<1> QED BY <1>2, <1>3, <1>4, <1>5, <1>6, <1>7, <1>8, <1>9, <1>10, <1>11, <1>12 DEF Update

LEMMA SoloNext == RaceInv /\ Solo /\ OVERHEAD < SRAM_WORDS /\ [RaceNext]_raceVars => Solo'
<1> SUFFICES ASSUME Typed, Solo, OVERHEAD < SRAM_WORDS, [RaceNext]_raceVars PROVE Solo'
  BY DEF RaceInv
<1>1. at \in [Updaters -> Places]
  BY DEF Typed, RaceTypeOK
<1>2. ASSUME NEW t \in Updaters, Calling(t) PROVE Solo'
  <2>1. /\ at[t] = "idle" /\ at'[t] \in {"disable", "steps_change"} /\ at'[Other(t)] = at[Other(t)]
        /\ overlapped' = IF Idle(Other(t)) THEN overlapped \ {t} ELSE Updaters
    BY <1>1, <1>2, Others DEF Calling, Call, Move, Idle
  <2>2. Idle(Other(t)) => Idle(Other(t))' /\ Progress(t)'
    <3>1. Idle(Other(t)) => Idle(Other(t))'
      BY <2>1 DEF Idle
    <3>2. Progress(t)'
      BY <2>1 DEF Progress, WithSetup, WithEnabled, WithReset, WithPrelude, WithSteps
    <3> QED BY <3>1, <3>2
  <2>3. ~ Idle(Other(t)) => \A u \in Updaters : ~ Alone(u)'
    BY <2>1 DEF Alone
  <2>4. Idle(Other(t)) => ~ Alone(Other(t))'
    BY <2>2 DEF Alone
  <2> QED BY <2>2, <2>3, <2>4, Others DEF Solo
<1>3. ASSUME NEW t \in Updaters, at[t] # "idle", at'[Other(t)] = at[Other(t)],
             \/ /\ UNCHANGED overlapped
                /\ Idle(Other(t)) /\ Progress(t) /\ ~ Idle(t)' => Progress(t)'
             \/ overlapped' = overlapped \ {t} /\ Idle(Other(t)) /\ Progress(t)'
      PROVE  Solo'
  <2>1. ~ Idle(t)
    BY <1>3 DEF Idle
  <2>2. Idle(Other(t))' <=> Idle(Other(t))
    BY <1>3 DEF Idle
  <2>3. Alone(t)' => Idle(Other(t))' /\ Progress(t)'
    <3>1. CASE UNCHANGED overlapped /\ Alone(t)'
      BY <1>3, <2>1, <2>2, <3>1 DEF Alone, Solo
    <3>2. CASE overlapped' = overlapped \ {t} /\ Idle(Other(t)) /\ Progress(t)'
      BY <2>2, <3>2
    <3> QED BY <1>3, <3>1, <3>2
  <2>4. ~ Alone(Other(t))'
    <3>1. CASE Idle(Other(t))
      BY <2>2, <3>1 DEF Alone
    <3>2. CASE UNCHANGED overlapped
      <4>1. Alone(Other(t))' => Alone(Other(t))
        BY <2>2, <3>2 DEF Alone
      <4> QED BY <2>1, <4>1, Others DEF Solo
    <3> QED BY <1>3, <3>1, <3>2
  <2> QED BY <2>3, <2>4, Others DEF Solo
<1>4. CASE StepsChanged
  <2>1. MainThread \in Updaters
    BY DEF Updaters
  <2>2. /\ at[MainThread] = "steps_change" /\ at'[MainThread] = "disable"
        /\ at'[Other(MainThread)] = at[Other(MainThread)] /\ UNCHANGED overlapped
    BY <1>1, <1>4, <2>1, Others DEF StepsChanged, Move
  <2>3. Progress(MainThread)'
    BY <2>2 DEF Progress, WithSetup, WithEnabled, WithReset, WithPrelude, WithSteps
  <2> QED BY <1>3, <2>1, <2>2, <2>3
<1>5. ASSUME NEW t \in Updaters, Update(t) PROVE Solo'
  <2>1. at[t] # "idle" /\ at'[Other(t)] = at[Other(t)]
    BY <1>1, <1>5, Others
       DEF Update, DisableAW9120, SetupAW9120, EnableAW9120, HoldSramAW9120,
           ResetSramLoadAddrAW9120, WritePrelude, LoopStart, WriteSteps, WriteFallback,
           WriteJump, RunSramAW9120, EndUpdate, Writes, Move
  <2>2. \/ UNCHANGED overlapped
        \/ Move(t, "run", "disable") /\ Idle(Other(t)) /\ overlapped' = overlapped \ {t}
    BY <1>5
       DEF Update, DisableAW9120, SetupAW9120, EnableAW9120, HoldSramAW9120,
           ResetSramLoadAddrAW9120, WritePrelude, LoopStart, WriteSteps, WriteFallback,
           WriteJump, RunSramAW9120, EndUpdate, Writes
  <2>3. CASE UNCHANGED overlapped
    <3>1. Idle(Other(t)) /\ Progress(t) /\ ~ Idle(t)' => Progress(t)'
      BY <1>5, ProgressStep
    <3> QED BY <1>3, <2>1, <2>3, <3>1
  <2>4. CASE Move(t, "run", "disable") /\ Idle(Other(t)) /\ overlapped' = overlapped \ {t}
    <3>1. at'[t] = "disable"
      BY <1>1, <2>4 DEF Move
    <3>2. Progress(t)'
      BY <3>1 DEF Progress, WithSetup, WithEnabled, WithReset, WithPrelude, WithSteps
    <3> QED BY <1>3, <2>1, <2>4, <3>2
  <2> QED BY <2>2, <2>3, <2>4
<1>6. CASE UNCHANGED raceVars
  BY <1>6 DEF raceVars, Solo, Alone, Idle, Other, Progress, Written
<1> QED BY <1>2, <1>4, <1>5, <1>6, HandlersCall

LEMMA SoloRepairs ==
    ASSUME Typed, Solo, OVERHEAD < SRAM_WORDS, NEW t \in Updaters, [RaceNext]_raceVars,
           at[t] = "run", at'[t] # "run", t \notin overlapped
    PROVE  Holds(aw9120', fields')
<1>1. aw9120 \in Registers /\ at \in [Updaters -> Places]
  BY DEF Typed, RaceTypeOK
<1>2. Progress(t)
  BY DEF Solo, Alone, Idle
<1>3. RunSramAW9120(t)
  <2>1. ~ UNCHANGED raceVars
    BY DEF raceVars
  <2>2. RaceNext /\ \A u \in Updaters : ~ Calling(u)
    BY <1>1, <2>1 DEF Calling, Call, Move, Idle
  <2>3. ~ StepsChanged
    BY <1>1 DEF StepsChanged, Move, Updaters
  <2>4. PICK u \in Updaters : Update(u)
    BY <2>2, <2>3, HandlersCall
  <2>5. u = t
    BY <1>1, <2>4
       DEF Update, DisableAW9120, SetupAW9120, EnableAW9120, HoldSramAW9120,
           ResetSramLoadAddrAW9120, WritePrelude, LoopStart, WriteSteps, WriteFallback,
           WriteJump, RunSramAW9120, EndUpdate, Move
  <2> QED BY <2>4, <2>5
       DEF Update, DisableAW9120, SetupAW9120, EnableAW9120, HoldSramAW9120,
           ResetSramLoadAddrAW9120, WritePrelude, LoopStart, WriteSteps, WriteFallback,
           WriteJump, RunSramAW9120, EndUpdate, Move
<1>4. aw9120' = [aw9120 EXCEPT !.running = TRUE] /\ fields' = fields
  BY <1>3 DEF RunSramAW9120
<1>5. /\ aw9120'.running /\ aw9120'.enabled = aw9120.enabled /\ aw9120'.imax = aw9120.imax
      /\ aw9120'.red = aw9120.red /\ aw9120'.green = aw9120.green
      /\ aw9120'.sram = aw9120.sram
  BY <1>1, <1>4 DEF Registers
<1>6. /\ aw9120.enabled /\ aw9120.imax = Imax(fields.powerLevels)
      /\ aw9120.red = (fields.callEarpiece /\ ~ fields.callLeftUp)
      /\ aw9120.green = (fields.callEarpiece /\ fields.callLeftUp)
      /\ Written(Program(fields))
  BY <1>2 DEF Progress, WithSetup, WithEnabled, WithReset, WithPrelude, WithSteps
<1>7. DOMAIN Program(fields) = 1 .. Len(Program(fields))
  <2>1. Program(fields) \in Seq(Nat)
    BY ProgramParts
  <2> QED BY <2>1
<1> QED BY <1>4, <1>5, <1>6, <1>7 DEF Holds, Written, Loaded

\* If the longest program fits, an Update that no other overlaps leaves the chip
\* with the state of the fields, whatever those before it have left
\* (LightState.cpp:133-289).
THEOREM RepairsAlone == ASSUME OVERHEAD < SRAM_WORDS PROVE RaceSpec => SoloUpdateRepairs
<1>1. RaceInit => Solo
  BY DEF RaceInit, Solo, Alone, Idle
<1>2. RaceInv /\ Solo /\ [RaceNext]_raceVars => Solo'
  BY SoloNext
<1>3. RaceInv /\ Solo /\ [RaceNext]_raceVars =>
        [\A t \in Updaters :
           at[t] = "run" /\ at'[t] # "run" /\ t \notin overlapped
               => Holds(aw9120', fields')]_raceVars
  BY SoloRepairs DEF RaceInv
<1> QED BY <1>1, <1>2, <1>3, RaceInvariance, PTL DEF RaceSpec, SoloUpdateRepairs

LEMMA HeldIsShown ==
    ASSUME Typed', OVERHEAD < SRAM_WORDS, Holds(aw9120', fields')
    PROVE  /\ RunsForEver(aw9120'.sram)
           /\ \A ch \in Channel :
                Visible(aw9120'.sram, ch) = Visible(Updated(fields').sram, ch)
<1> DEFINE s == fields'
           sram == aw9120'.sram
<1>1. s \in Lights /\ s.steps \in {<< >>, <<TorchStep>>}
  BY DEF Typed, RaceTypeOK
<1>2. \A i \in 1 .. Len(Program(s)) : Program(s) \in Seq(Nat) => sram[i - 1] = Program(s)[i]
  BY LenProperties DEF Holds
<1> HIDE DEF s, sram
<1>3. LightsOK(s) /\ Len(s.steps) \in 0 .. 1
  <2>1. CASE s.steps = << >>
    BY <1>1, <2>1, EmptySeq DEF LightsOK
  <2>2. CASE s.steps = <<TorchStep>>
    <3>1. DOMAIN <<TorchStep>> = {1} /\ <<TorchStep>>[1] = TorchStep /\ Len(<<TorchStep>>) = 1
      OBVIOUS
    <3> QED BY <1>1, <2>2, <3>1 DEF LightsOK, StepOK
  <2> QED BY <1>1, <2>1, <2>2
<1>4. Len(s.steps) + OVERHEAD <= SRAM_WORDS
  <2> DEFINE n == Len(s.steps)
  <2>1. n \in 0 .. 1 /\ SRAM_WORDS \in Nat /\ SRAM_WORDS >= OVERHEAD + 1
    BY <1>3, SramAssumption DEF OVERHEAD
  <2> HIDE DEF n
  <2>2. n + OVERHEAD <= SRAM_WORDS
    BY <2>1 DEF OVERHEAD
  <2> QED BY <2>2 DEF n
<1>5. Program(s) \in Seq(Nat) /\ Len(Program(s)) <= SRAM_WORDS
  BY <1>3, <1>4, ProgramFits
<1>6. Carries(sram, Program(s))
  BY <1>2, <1>5 DEF Carries
<1>7. RunsForEver(sram)
  BY <1>3, <1>4, <1>6, CarriedLoops
<1>8. \A ch \in Channel : Visible(sram, ch) = Visible(Load(Program(s)), ch)
  BY <1>3, <1>4, <1>6, ProgramSeen, LoadedShows
<1>9. Updated(s).sram = Load(Program(s))
  BY DEF Updated
<1> QED BY <1>7, <1>8, <1>9 DEF s, sram

\* After an Update that no other overlaps the chip goes round a loop that waits, and
\* every channel is seen as LightState's undivided Update() has it, whatever words of
\* other programs are left behind this one (LightState.cpp:178-289).
THEOREM RepairedShows ==
    ASSUME OVERHEAD < SRAM_WORDS
    PROVE  RaceSpec =>
             [][\A t \in Updaters :
                  at[t] = "run" /\ at'[t] # "run" /\ t \notin overlapped
                    => /\ RunsForEver(aw9120'.sram)
                       /\ \A ch \in Channel :
                            Visible(aw9120'.sram, ch) = Visible(Updated(fields').sram, ch)
               ]_raceVars
<1>1. RaceSpec => SoloUpdateRepairs
  BY RepairsAlone
<1>2. Typed' /\ [\A t \in Updaters :
                   at[t] = "run" /\ at'[t] # "run" /\ t \notin overlapped
                     => Holds(aw9120', fields')]_raceVars
        => [\A t \in Updaters :
              at[t] = "run" /\ at'[t] # "run" /\ t \notin overlapped
                => /\ RunsForEver(aw9120'.sram)
                   /\ \A ch \in Channel :
                        Visible(aw9120'.sram, ch) = Visible(Updated(fields').sram, ch)]_raceVars
  BY HeldIsShown
<1>3. RaceInv => Typed
  BY DEF RaceInv
<1> QED BY <1>1, <1>2, <1>3, RaceInvariance, PTL DEF SoloUpdateRepairs

=============================================================================
