----------------------------- MODULE Lifecycle ------------------------------
(***************************************************************************)
(* The life of the daemon: the main thread constructs LEDs with its event  *)
(* loop, registers the Daemon's handlers on that loop, puts the object on  *)
(* the bus and asks for its name; runs; and undoes all of it, while        *)
(* clients call methods and torch timers end whenever they like.           *)
(*                                                                         *)
(* The loop is an EventLoop.  The bus, and GDBus, which looks the object up *)
(* when a call comes and again when it is dispatched, are external.  What  *)
(* run() does with its queue is Daemon's.                                  *)
(***************************************************************************)
EXTENDS Naturals, Sequences

CONSTANTS
    Calls            \* the method calls of clients

\* The handlers, in the order Daemon registers and its vector destroys them.
HandlerOrder == <<"capsLock", "block", "clearBlock", "pushBlock", "torch", "call">>
Handlers == {HandlerOrder[i] : i \in 1 .. 6}

\* A call for a handler; the torch's may have a duration, after which it is over.
ASSUME CallsAssumption ==
    \A c \in Calls : /\ c.do = "method" /\ c.what \in Handlers
                     /\ c.duration \in BOOLEAN /\ (c.duration => c.what = "torch")

-----------------------------------------------------------------------------
(* What the main thread does, one step after the other *)

Step(do, what) == [do |-> do, what |-> what]
ForEach(do) == [i \in 1 .. 6 |-> Step(do, HandlerOrder[i])]

\* The members of LEDs, the first first.
LEDsConstructor == <<Step("connect", "bus"), Step("construct", "loop")>>
register_event_handlers == ForEach("register")

\* Mutant: the name is requested before the object is there.
start_processing_NameFirst ==
    <<Step("request_name", "name"), Step("register", "object")>>

start_processing ==
    <<Step("register", "object"), Step("request_name", "name")>>

\* The vector of registrations is destroyed when run() returns.
DestroyRegistrations == ForEach("unregister")

\* Mutant: the loop is declared after the registration.
DestroyLEDs_LoopFirst ==
    <<Step("destroy", "handlers"), Step("stop", "loop"), Step("unregister", "object"),
      Step("close", "bus")>>

\* The members of LEDs, the last first.
DestroyLEDs ==
    <<Step("destroy", "handlers"), Step("unregister", "object"), Step("stop", "loop"),
      Step("close", "bus")>>

\* Mutant: processing is started before the handlers are registered.
run_StartsFirst ==
    start_processing \o register_event_handlers \o <<Step("loop", "queue")>>
        \o DestroyRegistrations

run ==
    register_event_handlers \o start_processing \o <<Step("loop", "queue")>>
        \o DestroyRegistrations

Script == LEDsConstructor \o run \o DestroyLEDs

-----------------------------------------------------------------------------

VARIABLES
    object, loop_thread, is_running, idle, timed, current, future, enqueued,
    next,            \* the main thread's step
    handler,         \* the std::function members of LEDs
    exported,        \* the object is registered with GDBus
    name,            \* who owns leds_bus_name
    terminated,      \* by an exception nobody catches, or a crash
    reached          \* history: what each call and timer of the loop has called

loopVars == <<object, loop_thread, is_running, idle, timed, current, future, enqueued>>
vars == <<loopVars, next, handler, exported, name, terminated, reached>>

Timer(c) == [do |-> "timer", what |-> "torch", of |-> c]
Timers == {Timer(c) : c \in {d \in Calls : d.duration}}
Registering == {Step(do, what) : do \in {"register", "unregister"},
                                 what \in Handlers \cup {"object"}}

Loop == INSTANCE EventLoop WITH
    Callbacks <- Calls \cup Timers \cup Registering \cup {Step("construct", "loop")},
    Timed     <- Calls \cup Timers,
    Started   <- Step("construct", "loop")

Init ==
    /\ Loop!Init
    /\ next = 1
    /\ handler = [h \in Handlers |-> IF h = "capsLock" THEN "null" ELSE "empty"]
    /\ exported = FALSE
    /\ name \in {"free", "other"}
    /\ terminated = FALSE
    /\ reached = [c \in Calls \cup Timers |-> "none"]

-----------------------------------------------------------------------------
(* The main thread *)

Over == terminated \/ next > Len(Script)
At(do) == ~ Over /\ Script[next].do = do
Past(do) == \E i \in 1 .. Len(Script) : i < next /\ Script[i].do = do

Goes == next' = next + 1
membersSame == UNCHANGED <<handler, exported, name, terminated, reached>>

\* Nothing catches the exception thrown without a bus.
Connect ==
    /\ At("connect")
    /\ \/ Goes /\ UNCHANGED terminated
       \/ terminated' = TRUE /\ UNCHANGED next
    /\ UNCHANGED <<loopVars, handler, exported, name, reached>>

ConstructLoop ==
    /\ At("construct")
    /\ \/ Loop!Construct /\ UNCHANGED next
       \/ Loop!ConstructorReturns /\ Goes
    /\ membersSame

\* enqueue(...) of a registration, or of what undoes it.
Enqueue ==
    /\ At("register") \/ At("unregister")
    /\ Loop!enqueue(Script[next])
    /\ UNCHANGED next /\ membersSame

\* Mutant: the future is not waited for.
Wait_Not ==
    /\ At("register") \/ At("unregister")
    /\ future[Script[next]] # "none"
    /\ Goes
    /\ UNCHANGED loopVars /\ membersSame

\* .wait()
Wait ==
    /\ At("register") \/ At("unregister")
    /\ future[Script[next]] \notin {"none", "pending"}
    /\ Goes
    /\ UNCHANGED loopVars /\ membersSame

\* With DO_NOT_QUEUE.  Nothing catches the exception thrown when the name is taken
\* or the call fails.
request_name ==
    /\ At("request_name")
    /\ \/ name = "free" /\ name' = "ours" /\ Goes /\ UNCHANGED terminated
       \/ terminated' = TRUE /\ UNCHANGED <<name, next>>
    /\ UNCHANGED <<loopVars, handler, exported, reached>>

\* A stop() ends the loop over the queue.
LeaveLoop ==
    /\ At("loop")
    /\ Goes
    /\ UNCHANGED loopVars /\ membersSame

DestroyHandlers ==
    /\ At("destroy")
    /\ handler' = [h \in Handlers |-> "destroyed"]
    /\ Goes
    /\ UNCHANGED <<loopVars, exported, name, terminated, reached>>

StopLoop ==
    /\ At("stop")
    /\ \/ Loop!Quit /\ UNCHANGED next
       \/ Loop!Free /\ Goes
    /\ membersSame

\* The bus takes the name back.
CloseConnection ==
    /\ At("close")
    /\ name' = "free"
    /\ Goes
    /\ UNCHANGED <<loopVars, handler, exported, terminated, reached>>

-----------------------------------------------------------------------------
(* The loop's thread *)

ThreadRuns == Loop!ThreadRuns /\ UNCHANGED next /\ membersSame
ThreadEnds == Loop!ThreadEnds /\ UNCHANGED next /\ membersSame

\* GDBus refuses a call for an object that has been unregistered meanwhile.
Reaches(c) ==
    IF c.do = "method" /\ ~ exported THEN "nothing" ELSE handler[c.what]

Dispatch(c) ==
    /\ Loop!Dispatch(c)
    /\ reached' = IF c \in DOMAIN reached THEN [reached EXCEPT ![c] = Reaches(c)]
                                          ELSE reached
    /\ UNCHANGED <<next, handler, exported, name, terminated>>

\* Mutant: the end of the torch is enqueued, not scheduled.
schedule_in_AtOnce(c) ==
    /\ c \in current \cap Calls /\ c.duration
    /\ reached[c] \in {"daemon", "null", "destroyed"}
    /\ Loop!enqueue(Timer(c))
    /\ UNCHANGED next /\ membersSame

\* A SetTorch with a duration, once its handler has returned.
schedule_in(c) ==
    /\ c \in current \cap Calls /\ c.duration
    /\ reached[c] \in {"daemon", "null", "destroyed"}
    /\ Loop!schedule_in(Timer(c))
    /\ UNCHANGED next /\ membersSame

\* Calling a destroyed handler is undefined: it returns here, or crashes below.
\* An empty one throws, and the client is sent an error.
CallReturns(c) ==
    /\ c \in Calls \cup Timers
    /\ c \in Calls /\ c.duration /\ reached[c] \in {"daemon", "null", "destroyed"}
           => future[Timer(c)] # "none"
    /\ Loop!Finish(c, "value")
    /\ UNCHANGED next /\ membersSame

Crash ==
    /\ \E c \in current \cap DOMAIN reached : reached[c] = "destroyed"
    /\ terminated' = TRUE
    /\ UNCHANGED <<loopVars, next, handler, exported, name, reached>>

\* A registration sets a handler, and what undoes it sets it to a null one.
SetHandler(c) ==
    /\ c.what \in Handlers
    /\ Loop!Finish(c, "value")
    /\ handler' = [handler EXCEPT ![c.what] = IF c.do = "register" THEN "daemon" ELSE "null"]
    /\ UNCHANGED <<next, exported, name, terminated, reached>>

SetObject(c) ==
    /\ c.what = "object"
    /\ Loop!Finish(c, "value")
    /\ exported' = (c.do = "register")
    /\ UNCHANGED <<next, handler, name, terminated, reached>>

ConstructorCalled ==
    /\ Loop!Finish(Step("construct", "loop"), "value")
    /\ UNCHANGED next /\ membersSame

-----------------------------------------------------------------------------
(* The clients and other processes *)

\* GDBus's own thread finds the object and gives the call to the loop.
MethodCall(c) ==
    /\ exported
    /\ Loop!schedule_in(c)
    /\ UNCHANGED next /\ membersSame

OtherOwner ==
    /\ name' \in {"free", "other"} \ {name} /\ name # "ours"
    /\ UNCHANGED <<loopVars, next, handler, exported, terminated, reached>>

-----------------------------------------------------------------------------

MainStep ==
    \/ Connect \/ ConstructLoop \/ Enqueue \/ Wait \/ request_name
    \/ DestroyHandlers \/ StopLoop \/ CloseConnection

LoopStep ==
    \/ ThreadRuns \/ ThreadEnds
    \/ \E c \in Calls \cup Timers \cup Registering \cup {Step("construct", "loop")} :
         Dispatch(c)
    \/ \E c \in Calls : schedule_in(c)
    \/ \E c \in Calls \cup Timers : CallReturns(c)
    \/ \E c \in Registering : SetHandler(c) \/ SetObject(c)
    \/ ConstructorCalled

Next ==
    /\ ~ Over
    /\ \/ MainStep \/ LoopStep \/ LeaveLoop \/ Crash \/ OtherOwner
       \/ \E c \in Calls : MethodCall(c)

Spec == Init /\ [][Next]_vars

\* Both threads run.  Nobody has to call, or to stop the daemon.
FairSpec == Spec /\ WF_vars(~ Over /\ MainStep) /\ WF_vars(~ Over /\ LoopStep)

-----------------------------------------------------------------------------
(* Properties *)

Kinds == {"none", "nothing", "empty", "null", "daemon", "destroyed"}

TypeOK ==
    /\ Loop!TypeOK
    /\ next \in 1 .. Len(Script) + 1
    /\ handler \in [Handlers -> Kinds] /\ reached \in [Calls \cup Timers -> Kinds]
    /\ exported \in BOOLEAN /\ terminated \in BOOLEAN
    /\ name \in {"free", "other", "ours"}

\* From when this process owns the name to when it is stopped, the object is there
\* with every handler set: who waits for the name (systemd does: the service is
\* Type=dbus) can call at once (LEDs.cpp:51-81, Daemon.cpp:33-35).
NameMeansReady ==
    name = "ours" /\ ~ Past("loop")
        => exported /\ \A h \in Handlers : handler[h] = "daemon"

\* No client's call is taken and then lost in an empty or a null handler, nor a
\* torch left on by one, before the daemon is stopped (Daemon.cpp:33-35).
CallsReachDaemon ==
    ~ Past("loop") => \A c \in DOMAIN reached : reached[c] \in {"none", "daemon"}

\* run() has returned: the registrations are undone.
Returned ==
    Past("loop") /\ \A i \in 1 .. Len(Script) :
        i >= next => Script[i] \notin {DestroyRegistrations[j] : j \in 1 .. 6}

\* When run() has returned no handler of the Daemon is being called, and none
\* will be, whatever calls and timers are still pending: main destroys the Daemon
\* next (EventLoopHandlerRegistration.h:31-39, main.cpp:53-59).
NoCallAfterRun ==
    Returned => /\ \A c \in current \cap DOMAIN reached : reached[c] # "daemon"
                /\ \A h \in Handlers : handler[h] # "daemon"

\* The main thread never waits for ever for the loop: the daemon starts, and ends
\* once it is stopped (LEDs.h:62-72).
MainNeverStuck == []<>(At("loop") \/ Over)

\* The daemon uses its loop as an EventLoop can be used: after its constructor
\* has returned, and not after it was stopped.
KeepsToLoop == Loop!Spec

=============================================================================
