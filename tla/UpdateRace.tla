----------------------------- MODULE UpdateRace -----------------------------
(***************************************************************************)
(* Update() taken apart: the handlers of LightState as the two threads     *)
(* that call them run them, the main thread through the action queue and   *)
(* the ConnectionWatcher's loop directly, with no lock between them.       *)
(*                                                                         *)
(* A step is one group of register writes of Update() with the fields it   *)
(* reads; groups of different threads interleave.                          *)
(***************************************************************************)
EXTENDS LightProgram

CONSTANTS
    MainThread, Watcher,
    Watched,         \* the technologies whose power changes
    Calls,           \* the pairs <<earpiece, leftUp>> that handleCall gets
    States,          \* what caps lock, the torch and the technologies change to
    MAX_CHANGES,     \* bound: handler calls of both threads together
    MAX_LOST         \* bound: increments that a group of writes loses to a race

ASSUME UpdatersAssumption ==
    /\ MainThread # Watcher
    /\ Watched \subseteq Technology /\ Calls \subseteq BOOLEAN \X BOOLEAN
    /\ States \subseteq BOOLEAN /\ MAX_CHANGES \in Nat /\ MAX_LOST \in Nat

Updaters == {MainThread, Watcher}

VARIABLES
    fields,          \* the fields of LightState
    aw9120,          \* the registers of the AW9120, and the two class LEDs
    programCounter,  \* the field of that name, shared by all calls of Update()
    at,              \* where each thread is in its handler
    loopStartPC,     \* Update()'s local variable
    again,           \* handleTorch() is yet to call Update() a second time
    changes,         \* handler calls so far
    overlapped       \* history: the threads whose current or last Update() ran
                     \* while the other was in a handler

raceVars == <<fields, aw9120, programCounter, at, loopStartPC, again,
              changes, overlapped>>

Other(t) == CHOOSE u \in Updaters : u # t
Idle(t) == at[t] = "idle"
Move(t, from, to) == at[t] = from /\ at' = [at EXCEPT ![t] = to]

\* Where a thread increments the shared counter.
Counting(t) == at[t] \in {"prelude", "steps", "fallback", "jump"}

RaceInit ==
    /\ fields = Constructed
    /\ aw9120 \in [enabled : BOOLEAN, running : {FALSE},
                   imax : {Imax(POWER_LEVEL_20b001s)}, sram : {Load(<< >>)},
                   waddr : {0}, red : {FALSE}, green : {FALSE}]
    /\ programCounter = 0
    /\ at = [t \in Updaters |-> "idle"]
    /\ loopStartPC = [t \in Updaters |-> 0]
    /\ again = FALSE
    /\ changes = 0
    /\ overlapped = {}

-----------------------------------------------------------------------------
(* A handler changes its fields and calls Update()                         *)

Call(t) ==
    /\ Idle(t)
    /\ changes < MAX_CHANGES
    /\ changes' = changes + 1
    /\ overlapped' = IF Idle(Other(t)) THEN overlapped \ {t} ELSE Updaters
    /\ UNCHANGED <<aw9120, programCounter, loopStartPC>>

handleCapsLock(state) ==
    /\ Call(MainThread) /\ Move(MainThread, "idle", "disable")
    /\ fields' = [fields EXCEPT !.capsLock = state]
    /\ UNCHANGED again

handleCall(earpiece, leftUp) ==
    /\ Call(MainThread) /\ Move(MainThread, "idle", "disable")
    /\ fields' = [fields EXCEPT !.callEarpiece = earpiece, !.callLeftUp = leftUp]
    /\ UNCHANGED again

\* The vector of steps is cleared and added to: while that goes on, another
\* thread that reads it reads anything.
handleTorch(on) ==
    /\ Call(MainThread) /\ Move(MainThread, "idle", "steps_change")
    /\ fields' = [fields EXCEPT
                    !.powerLevels = IF on THEN POWER_LEVEL_20b111s
                                          ELSE POWER_LEVEL_20b001s,
                    !.steps = When(on, <<TorchStep>>)]
    /\ again' = TRUE

StepsChanged ==
    /\ Move(MainThread, "steps_change", "disable")
    /\ UNCHANGED <<fields, aw9120, programCounter, loopStartPC, again, changes, overlapped>>

handleConnectivity(tech, state) ==
    /\ Call(Watcher) /\ Move(Watcher, "idle", "disable")
    /\ fields' = [fields EXCEPT !.connectivity[tech] = state]
    /\ UNCHANGED again

-----------------------------------------------------------------------------
(* Update() *)

Writes(registers) ==
    /\ aw9120' = registers
    /\ UNCHANGED <<fields, loopStartPC, again, changes, overlapped>>

DisableAW9120(t) ==
    /\ Move(t, "disable", "setup")
    /\ Writes([aw9120 EXCEPT !.enabled = FALSE])
    /\ UNCHANGED programCounter

SetupAW9120(t) ==
    /\ Move(t, "setup", "enable")
    /\ Writes([aw9120 EXCEPT !.imax = Imax(fields.powerLevels)])
    /\ UNCHANGED programCounter

EnableAW9120(t) ==
    /\ Move(t, "enable", "hold")
    /\ Writes([aw9120 EXCEPT !.enabled = TRUE])
    /\ UNCHANGED programCounter

HoldSramAW9120(t) ==
    /\ Move(t, "hold", "reset")
    /\ Writes([aw9120 EXCEPT !.running = FALSE])
    /\ UNCHANGED programCounter

\* Mutant: the counter goes on from the last program.
ResetSramLoadAddrAW9120_Counts(t) ==
    /\ Move(t, "reset", "prelude")
    /\ Writes([aw9120 EXCEPT !.waddr = 0])
    /\ UNCHANGED programCounter

\* An increment of the other thread that read the counter before is stored over
\* the zero.
ResetSramLoadAddrAW9120(t) ==
    /\ Move(t, "reset", "prelude")
    /\ Writes([aw9120 EXCEPT !.waddr = 0])
    /\ \/ programCounter' = 0
       \/ Counting(Other(t)) /\ UNCHANGED programCounter

\* Words go where the chip's load address is, while the shared counter is within
\* the SRAM.
WriteWords(words) ==
    LET room == SRAM_WORDS - programCounter
        kept == IF Len(words) <= room THEN Len(words) ELSE IF room > 0 THEN room ELSE 0
    IN  [aw9120 EXCEPT
           !.sram = [a \in Address |->
                       IF a - aw9120.waddr \in 0 .. kept - 1
                       THEN words[a - aw9120.waddr + 1] ELSE @[a]],
           !.waddr = @ + kept]

\* The increments are no atomic operations: when the other thread counts too, its
\* increments or this one's can be lost, one or several.
Count(t, n) ==
    \/ programCounter' = programCounter + n
    \/ /\ Counting(Other(t)) /\ n > 0
       /\ \E lost \in 1 .. MAX_LOST :
            lost <= programCounter + n /\ programCounter' = programCounter + n - lost

WritePrelude(t) ==
    /\ Move(t, "prelude", "loop_start")
    /\ Writes([WriteWords(Prelude(fields)) EXCEPT
                 !.red = fields.callEarpiece /\ ~ fields.callLeftUp,
                 !.green = fields.callEarpiece /\ fields.callLeftUp])
    /\ Count(t, Len(Prelude(fields)))

LoopStart(t) ==
    /\ Move(t, "loop_start", "steps")
    /\ loopStartPC' = [loopStartPC EXCEPT ![t] = programCounter]
    /\ UNCHANGED <<fields, aw9120, programCounter, again, changes, overlapped>>

\* What the loop over the steps writes: if the vector changes meanwhile, anything.
StepsRead(t) ==
    IF at[Other(t)] = "steps_change" THEN {<< >>, <<LeftoverWord>>}
    ELSE {StepWords(fields.steps)}

WriteSteps(t) ==
    /\ Move(t, "steps", "fallback")
    /\ \E words \in StepsRead(t) :
         /\ Writes(WriteWords(words))
         /\ Count(t, Len(words))

WriteFallback(t) ==
    LET words == When(~ delaySet(fields.steps), FallbackWords(fields))
    IN  /\ Move(t, "fallback", "jump")
        /\ Writes(WriteWords(words))
        /\ Count(t, Len(words))

WriteJump(t) ==
    /\ Move(t, "jump", "run")
    /\ Writes(WriteWords(<<loopStartPC[t]>>))
    /\ Count(t, 1)

\* The local variable ends with the call.  handleTorch() has called Update() through
\* handlePushBlock() and calls it once more itself.
EndUpdate(t) ==
    /\ loopStartPC' = [loopStartPC EXCEPT ![t] = 0]
    /\ \/ /\ t = MainThread /\ again
          /\ Move(t, "run", "disable")
          /\ again' = FALSE
          /\ overlapped' = IF Idle(Other(t)) THEN overlapped \ {t} ELSE overlapped
       \/ /\ ~ (t = MainThread /\ again)
          /\ Move(t, "run", "idle")
          /\ UNCHANGED <<again, overlapped>>

\* Mutant: an Update that finds another one under way leaves it to that one to run
\* the program, whether or not that one is past doing so.
RunSramAW9120_LeftToOther(t) ==
    /\ EndUpdate(t)
    /\ aw9120' = [aw9120 EXCEPT !.running = @ \/ t \notin overlapped]
    /\ UNCHANGED <<fields, programCounter, changes>>

RunSramAW9120(t) ==
    /\ EndUpdate(t)
    /\ aw9120' = [aw9120 EXCEPT !.running = TRUE]
    /\ UNCHANGED <<fields, programCounter, changes>>

Update(t) ==
    \/ DisableAW9120(t) \/ SetupAW9120(t) \/ EnableAW9120(t) \/ HoldSramAW9120(t)
    \/ ResetSramLoadAddrAW9120(t) \/ WritePrelude(t) \/ LoopStart(t)
    \/ WriteSteps(t) \/ WriteFallback(t) \/ WriteJump(t) \/ RunSramAW9120(t)

RaceNext ==
    \/ \E state \in States : handleCapsLock(state)
    \/ \E call \in Calls : handleCall(call[1], call[2])
    \/ \E on \in States : handleTorch(on)
    \/ StepsChanged
    \/ \E tech \in Watched, state \in States : handleConnectivity(tech, state)
    \/ \E t \in Updaters : Update(t)

RaceSpec == RaceInit /\ [][RaceNext]_raceVars

-----------------------------------------------------------------------------
(* Properties *)

Places == {"idle", "steps_change", "disable", "setup", "enable", "hold", "reset",
           "prelude", "loop_start", "steps", "fallback", "jump", "run"}

RaceTypeOK ==
    /\ fields \in Lights
    /\ aw9120.enabled \in BOOLEAN /\ aw9120.running \in BOOLEAN
    /\ aw9120.imax \in [1 .. 5 -> Word] /\ aw9120.sram \in [Address -> Nat]
    /\ aw9120.waddr \in Nat
    /\ aw9120.red \in BOOLEAN /\ aw9120.green \in BOOLEAN
    /\ programCounter \in Nat
    /\ at \in [Updaters -> Places]
    /\ loopStartPC \in [Updaters -> Nat]
    /\ again \in BOOLEAN
    /\ changes \in 0 .. MAX_CHANGES
    /\ overlapped \subseteq Updaters

\* However two Updates interleave, the chip is on and executing when both are
\* over: the last to switch it off or hold it is not the last to write it.
QuiescentChipRuns ==
    changes > 0 /\ (\A t \in Updaters : Idle(t)) => aw9120.enabled /\ aw9120.running

\* The chip has the state s, up to the words beyond its program.
Holds(registers, s) ==
    /\ registers.enabled /\ registers.running
    /\ registers.imax = Imax(s.powerLevels)
    /\ registers.red = (s.callEarpiece /\ ~ s.callLeftUp)
    /\ registers.green = (s.callEarpiece /\ s.callLeftUp)
    /\ \A i \in DOMAIN Program(s) : registers.sram[i - 1] = Program(s)[i]

\* An Update that no other handler overlaps leaves the chip with exactly the
\* state of the fields, whatever earlier Updates that did overlap have left in
\* the registers, the counter and the SRAM.  This is what makes it right to take
\* a handler for one step, as LightState does.
SoloUpdateRepairs ==
    [][\A t \in Updaters :
        at[t] = "run" /\ at'[t] # "run" /\ t \notin overlapped
            => Holds(aw9120', fields')]_raceVars

\* README.md:13: all the LEDs are updated at once, from what is known of all of
\* them.  So when no Update is running the chip has the state of the fields.
AllUpdatedAtOnce ==
    changes > 0 /\ (\A t \in Updaters : Idle(t)) => Holds(aw9120, fields)

=============================================================================
