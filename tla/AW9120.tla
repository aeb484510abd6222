------------------------------- MODULE AW9120 -------------------------------
(***************************************************************************)
(* The AW9120 LED controller as LightState.cpp uses it: the instruction    *)
(* words it is programmed with, and what it shows while it runs a program. *)
(*                                                                         *)
(* The controller is not part of the repository.  The word layout is the   *)
(* one LightState.cpp builds its words from (the #defines of lines 97-113  *)
(* and the sums Update() writes): opcode in the high bits, LED channel in  *)
(* bits 8..12, PWM value in bits 0..7; a WAIT has ten bits of time; a word *)
(* below 256 jumps to that address.                                        *)
(***************************************************************************)
EXTENDS Integers, FiniteSets

CONSTANT SRAM_WORDS      \* instruction words the controller holds (256)

ASSUME SramAssumption == SRAM_WORDS \in 1..256

Address == 0 .. SRAM_WORDS - 1
Word == {w \in Nat : w < 65536}
Channel == 0 .. 19       \* one PWM channel per LED colour component

SETPWMI == \hA000
WAITI == \h3800
WAIT_PRE_16MS == \h400
MAX_WAIT == \h3ff
SET_STEP_TMRI == \h8000
RAMPI_IN == \hE000
RAMPI_OUT == \hC000
CH_ALL_LEDS == \h1f00
CH_6_RED == \h0f00
CH_6_GREEN == \h1000
CH_6_BLUE == \h1100
CH_7_RED == \h1200
CH_7_BLUE == \h1300

-----------------------------------------------------------------------------
(* Decoding *)

IsJump(w) == w < 256
IsWait(w) == w \in WAITI .. WAITI + WAIT_PRE_16MS + MAX_WAIT
IsLevel(w) == w >= SETPWMI          \* SETPWM or either ramp: sets a PWM level

ChannelOf(w) == (w \div 256) % 32
Drives(w, ch) == IsLevel(w) /\ (ChannelOf(w) = ch \/ ChannelOf(w) = 31)

\* The level a channel has after the word: a ramp ends fully on or fully off.
LevelOf(w) == IF w >= RAMPI_IN THEN 255
              ELSE IF w >= RAMPI_OUT THEN 0
              ELSE w % 256

-----------------------------------------------------------------------------
(* Running a program: from address 0, straight on to the first jump word,  *)
(* then round the loop that jump closes.                                   *)

LoopEndsAt(sram, j) ==
    /\ IsJump(sram[j])
    /\ \A a \in 0 .. j - 1 : ~ IsJump(sram[a])
    /\ sram[j] <= j

\* The program runs for ever without spinning: its loop is closed by a jump
\* and the controller waits somewhere in it.
RunsForEver(sram) ==
    \E j \in Address :
        /\ LoopEndsAt(sram, j)
        /\ \E a \in sram[j] .. j : IsWait(sram[a])

LatestIn(S) == CHOOSE a \in S : \A b \in S : b <= a

\* The level of channel ch when the controller, in a later round of the loop
\* that ends at j, is at address a: set last in this round, or in the round
\* before, or before the loop.
SteadyLevel(sram, j, ch, a) ==
    LET driven(lo, hi) == {b \in lo .. hi : Drives(sram[b], ch)}
        thisRound == driven(sram[j], a)
        lastRound == driven(a, j)
        prelude   == driven(0, sram[j] - 1)
    IN  IF thisRound # {} THEN LevelOf(sram[LatestIn(thisRound)])
        ELSE IF lastRound # {} THEN LevelOf(sram[LatestIn(lastRound)])
        ELSE IF prelude # {} THEN LevelOf(sram[LatestIn(prelude)])
        ELSE 0

\* What can be seen on a channel: its levels whenever the controller waits.
Visible(sram, ch) ==
    LET j == CHOOSE k \in Address : LoopEndsAt(sram, k)
    IN  {SteadyLevel(sram, j, ch, a) : a \in {b \in sram[j] .. j : IsWait(sram[b])}}

=============================================================================
