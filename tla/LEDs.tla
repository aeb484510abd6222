-------------------------------- MODULE LEDs --------------------------------
(***************************************************************************)
(* The LEDs class composed with the action queue and LightState: the D-Bus *)
(* method calls handled on the LEDs event loop, the torch timers of that   *)
(* loop, the actions they enqueue and the main thread that performs them.  *)
(* The queue is the one ActionQueue promises, before any stop.             *)
(* Connectivity comes from the ConnectionWatcher's thread, which calls     *)
(* LightState without the queue.                                           *)
(***************************************************************************)
EXTENDS LightState

CONSTANTS
    Requests,        \* the method calls that clients make
    MAX_REQUESTS     \* bound: calls made, and connectivity changes, in all

ASSUME RequestsAssumption ==
    /\ MAX_REQUESTS \in Nat
    /\ \A r \in Requests :
         \/ r.method = "SetCapsLock" /\ r.state \in BOOLEAN
         \/ r.method = "SetLEDBlockStep"
            /\ r.step \in [led : Nat, colour : Nat, type : Nat, value : Nat]
         \/ r.method \in {"ClearLEDBlockAnimation", "PushLEDBlockAnimation", "other"}
         \/ r.method = "SetTorch" /\ r.on \in BOOLEAN /\ r.duration \in Nat
         \/ r.method = "SetCall" /\ r.earpiece \in BOOLEAN /\ r.leftUp \in BOOLEAN

\* LightState is told of the steps the clients may add, and of no others.
ASSUME StepsOfRequests ==
    \A r \in Requests : r.method = "SetLEDBlockStep" /\ IsBlockStep(r.step) => r.step \in Steps

VARIABLES
    action_queue,    \* the Daemon's queue
    timers,          \* one-shot torch timers pending on the loop
    requests,        \* requests and connectivity changes so far
    wanted           \* history: the fields, had each request taken effect at once

ledsVars == <<lights, chip, shown, action_queue, timers, requests, wanted>>

-----------------------------------------------------------------------------
(* The event loop of LEDs *)

BlockStepMax == 4

\* Mutant: one LED too many.
verifyLed_Six(led) == led > 0 /\ led <= 6

verifyLed(led) == led > 0 /\ led < 6
verifyType(type) == type < BlockStepMax
\* Mutant: the limit of a delay for every type.
verifyValue_Delay(type, value) == value < 1024

verifyValue(type, value) ==
    (type = BlockStepDelay /\ value < 1024) \/ value < 256

enqueue_action(action) == action_queue' = Append(action_queue, action)

SetCapsLock(state) ==
    /\ enqueue_action([do |-> "capsLock", state |-> state])
    /\ wanted' = [wanted EXCEPT !.capsLock = state]
    /\ UNCHANGED timers

\* MAX_STEPS bounds what clients put into one animation, counted as they ask for
\* it, so that handleSetBlockRGB() finds room when its turn comes; a call that is
\* refused has no bound.
SetLEDBlockStep(step) ==
    /\ IsBlockStep(step) => Len(wanted.steps) < MAX_STEPS
    /\ IF verifyLed(step.led) /\ verifyType(step.type) /\ verifyValue(step.type, step.value)
       THEN enqueue_action([do |-> "setBlock", step |-> step])
       ELSE UNCHANGED action_queue
    /\ wanted' = IF IsBlockStep(step) THEN [wanted EXCEPT !.steps = Append(@, step)]
                                       ELSE wanted
    /\ UNCHANGED timers

ClearLEDBlockAnimation ==
    /\ enqueue_action([do |-> "clearBlock"])
    /\ wanted' = [wanted EXCEPT !.steps = << >>]
    /\ UNCHANGED timers

PushLEDBlockAnimation ==
    /\ enqueue_action([do |-> "pushBlock"])
    /\ UNCHANGED <<timers, wanted>>

TorchWanted(on) ==
    [wanted EXCEPT !.steps = IF on THEN <<TorchStep>> ELSE << >>,
                   !.powerLevels = IF on THEN 7 ELSE 1]

\* Mutant: the timer is set when the torch goes off.
SetTorch_TimerWhenOff(on, duration) ==
    /\ enqueue_action([do |-> "torch", on |-> on, by |-> "client"])
    /\ timers' = timers + IF ~ on /\ duration > 0 THEN 1 ELSE 0
    /\ wanted' = TorchWanted(on)

\* Nothing ever cancels the timer.
SetTorch(on, duration) ==
    /\ enqueue_action([do |-> "torch", on |-> on, by |-> "client"])
    /\ timers' = timers + IF on /\ duration > 0 THEN 1 ELSE 0
    /\ wanted' = TorchWanted(on)

\* Mutant: the arguments change places.
SetCall_Swapped(earpiece, leftUp) ==
    /\ enqueue_action([do |-> "call", earpiece |-> leftUp, leftUp |-> earpiece])
    /\ wanted' = [wanted EXCEPT !.callEarpiece = earpiece, !.callLeftUp = leftUp]
    /\ UNCHANGED timers

SetCall(earpiece, leftUp) ==
    /\ enqueue_action([do |-> "call", earpiece |-> earpiece, leftUp |-> leftUp])
    /\ wanted' = [wanted EXCEPT !.callEarpiece = earpiece, !.callLeftUp = leftUp]
    /\ UNCHANGED timers

\* An unknown method is answered with an error.
dbus_method_call(r) ==
    /\ requests < MAX_REQUESTS
    /\ requests' = requests + 1
    /\ \/ r.method = "SetCapsLock" /\ SetCapsLock(r.state)
       \/ r.method = "SetLEDBlockStep" /\ SetLEDBlockStep(r.step)
       \/ r.method = "ClearLEDBlockAnimation" /\ ClearLEDBlockAnimation
       \/ r.method = "PushLEDBlockAnimation" /\ PushLEDBlockAnimation
       \/ r.method = "SetTorch" /\ SetTorch(r.on, r.duration)
       \/ r.method = "SetCall" /\ SetCall(r.earpiece, r.leftUp)
       \/ r.method = "other" /\ UNCHANGED <<action_queue, timers, wanted>>
    /\ UNCHANGED <<lights, chip, shown>>

\* A duration is over: timers with different durations end in any order.
TorchTimer ==
    /\ timers > 0
    /\ timers' = timers - 1
    /\ enqueue_action([do |-> "torch", on |-> FALSE, by |-> "timer"])
    /\ wanted' = TorchWanted(FALSE)
    /\ UNCHANGED <<lights, chip, shown, requests>>

-----------------------------------------------------------------------------
(* The main thread and the ConnectionWatcher's *)

\* run() performs the action at the head of the queue.
RunAction ==
    /\ action_queue # << >>
    /\ LET ev == Head(action_queue)
       IN  \/ ev.do = "capsLock" /\ handleCapsLock(ev.state)
           \/ ev.do = "setBlock" /\ handleSetBlockRGB(ev.step)
           \/ ev.do = "clearBlock" /\ handleClearBlock
           \/ ev.do = "pushBlock" /\ handlePushBlock
           \/ ev.do = "torch" /\ handleTorch(ev.on)
           \/ ev.do = "call" /\ handleCall(ev.earpiece, ev.leftUp)
    /\ action_queue' = Tail(action_queue)
    /\ UNCHANGED <<timers, requests, wanted>>

saveStateForPath(tech, powered) ==
    /\ requests < MAX_REQUESTS
    /\ requests' = requests + 1
    /\ handleConnectivity(tech, powered)
    /\ wanted' = [wanted EXCEPT !.connectivity[tech] = powered]
    /\ UNCHANGED <<action_queue, timers>>

LEDsInit ==
    /\ Init
    /\ action_queue = << >> /\ timers = 0 /\ requests = 0 /\ wanted = Constructed

LEDsNext ==
    \/ \E r \in Requests : dbus_method_call(r)
    \/ TorchTimer
    \/ RunAction
    \/ \E tech \in Technology, powered \in BOOLEAN : saveStateForPath(tech, powered)

LEDsSpec == LEDsInit /\ [][LEDsNext]_ledsVars

\* A timer ends, and the main thread runs while its queue has an action.
LEDsFairSpec == LEDsSpec /\ WF_ledsVars(TorchTimer) /\ WF_ledsVars(RunAction)

-----------------------------------------------------------------------------
(* Properties *)

\* The words an accepted request is turned into drive a block LED or wait: no
\* client can reach the indicators' channels, another opcode or a jump, with
\* whatever led, colour, type and value it calls (LEDs.cpp:151, 196-202,
\* LightState.cpp:236-258).
BlockIsolation ==
    LET isolated(step) ==
            LET w == StepWord(step)
            IN  IF step.type = BlockStepDelay THEN IsWait(w)
                ELSE IsLevel(w) /\ ChannelOf(w) < 15
                     /\ LevelOf(w) = CASE step.type = BlockStepSetPWM -> step.value
                                       [] step.type = BlockStepFadeIn -> 255
                                       [] OTHER -> 0
    IN  /\ \A i \in DOMAIN action_queue :
             action_queue[i].do = "setBlock" => isolated(action_queue[i].step)
        /\ \A i \in DOMAIN lights.steps :
             lights.steps[i] = TorchStep \/ isolated(lights.steps[i])

\* When no action is waiting, LightState has what the requests so far amount to,
\* taken in the order they came: none is lost, doubled or overtaken, and those
\* refused changed nothing.
RequestsTakeEffect == action_queue = << >> => lights = wanted

TorchShown == \E s \in shown : Torch(s)

TorchesTimed == \A r \in Requests : r.method = "SetTorch" /\ r.on => r.duration > 0

SetsTorch(action, on) == action.do = "torch" /\ action.on = on

\* No torch is queued after one that goes off, and none at all.
EndsOff(queue) ==
    \E i \in DOMAIN queue :
        SetsTorch(queue[i], FALSE) /\ \A j \in DOMAIN queue : j > i => ~ SetsTorch(queue[j], TRUE)
NoTorchIn(queue) == \A i \in DOMAIN queue : ~ SetsTorch(queue[i], TRUE)

\* When every torch is asked for with a duration, one that burns, or is held or
\* queued to be lit, has its end before it: a timer is set, or the queue ends with
\* the torch going off, whatever calls are performed between (LEDs.cpp:166-178).
TorchHasEnd ==
    TorchesTimed => \/ timers > 0
                    \/ EndsOff(action_queue)
                    \/ ~ Torch(lights) /\ ~ TorchShown /\ NoTorchIn(action_queue)

\* So none burns for ever, whatever animations, calls and other torches come
\* between (LEDs.cpp:166-178).
TimedTorchEnds == TorchesTimed => (TorchShown ~> ~ TorchShown)

Performed(what) ==
    /\ action_queue # << >>
    /\ Head(action_queue).do \in what
    /\ action_queue' = Tail(action_queue)

\* README.md:24: a client clears the animation, adds its steps and pushes them.
\* The end of an earlier torch does not take away steps added after a clear.
AnimationOutlivesTorch ==
    [][Performed({"torch"}) /\ Head(action_queue).by = "timer"
         => lights.steps = << >> \/ Head(lights.steps) = TorchStep]_ledsVars

=============================================================================
