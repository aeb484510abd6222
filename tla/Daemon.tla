------------------------------- MODULE Daemon -------------------------------
(***************************************************************************)
(* The Daemon class and its action queue: the main thread runs run(), the  *)
(* threads of the event loops call the handlers run() has registered, each *)
(* of which enqueues one action; stop() jumps the queue.  It is called by  *)
(* the signal handler of main.cpp, which interrupts any thread anywhere,   *)
(* and by the tests' own thread, which also calls flush().                 *)
(*                                                                         *)
(* What an action does to the lights is LightState's; here it is an item.  *)
(***************************************************************************)
EXTENDS Naturals, Sequences

CONSTANTS
    Main,            \* the thread that calls run()
    LoopThreads,     \* the event loop threads that call the handlers
    Callers,         \* threads that call flush() and stop() (the tests)
    NoThread,
    MAX_REQUESTS,    \* bound: handler calls of a loop thread, flushes of a caller
    MAX_SIGNALS,     \* bound: SIGINTs and SIGTERMs received
    MAX_SPURIOUS     \* bound: spurious wakeups of the condition variable

Threads == {Main} \cup LoopThreads \cup Callers

ASSUME ThreadsAssumption ==
    /\ Main \notin LoopThreads \cup Callers
    /\ LoopThreads \cap Callers = {}
    /\ NoThread \notin Threads

ASSUME BoundsAssumption ==
    MAX_REQUESTS \in Nat /\ MAX_SIGNALS \in Nat /\ MAX_SPURIOUS \in Nat

VARIABLES
    pc,            \* where each thread is in its own code
    handler,       \* where each thread is in stop_daemon(), if it was interrupted
    mutex,         \* action_queue_mutex: the thread that holds it
    action_queue,
    asleep,        \* main is in action_queue_cv's wait set
    running,
    ev,            \* the action dequeue_action() returned last
    registered,    \* the handlers are set and the object is on the bus
    calls,         \* how many actions each thread has asked for
    flushed,       \* whether each caller's flushed_promise is set
    signals,       \* signals received so far
    spurious,      \* spurious wakeups so far
    sent,          \* history: the actions pushed at the back, in order
    done,          \* history: those that have been run, in order
    asked          \* history: a stop has been pushed

vars == <<pc, handler, mutex, action_queue, asleep, running, ev, registered,
          calls, flushed, signals, spurious, sent, done, asked>>

queue == <<mutex, action_queue, asleep>>
loop == <<running, ev, registered>>
requests == <<calls, flushed>>
bounds == <<signals, spurious>>
history == <<sent, done, asked>>

\* The n-th action thread t enqueues; the action of stop() is from no thread.
Item == [from : LoopThreads \cup Callers, n : 1 .. MAX_REQUESTS]
Action(t) == [from |-> t, n |-> calls[t]]
StopAction == [from |-> NoThread, n |-> 0]

Init ==
    /\ pc = [t \in Threads |-> IF t = Main THEN "begin" ELSE "idle"]
    /\ handler = [t \in Threads |-> "none"]
    /\ mutex = NoThread
    /\ action_queue = << >>
    /\ asleep = FALSE
    /\ running = FALSE
    /\ ev = StopAction
    /\ registered = FALSE
    /\ calls = [t \in Threads |-> 0]
    /\ flushed = [t \in Threads |-> FALSE]
    /\ signals = 0 /\ spurious = 0
    /\ sent = << >> /\ done = << >> /\ asked = FALSE

At(t, label) == handler[t] = "none" /\ pc[t] = label
Goto(t, label) == pc' = [pc EXCEPT ![t] = label]

-----------------------------------------------------------------------------
(* enqueue_action and enqueue_priority_action: lock, push, notify, unlock  *)

\* Mutant: a flush is enqueued with priority.
enqueue_action_FlushFirst(t) ==
    /\ mutex = NoThread
    /\ mutex' = t
    /\ action_queue' = IF t \in Callers THEN <<Action(t)>> \o action_queue
                                        ELSE Append(action_queue, Action(t))
    /\ sent' = Append(sent, Action(t))

enqueue_action(t) ==
    /\ mutex = NoThread
    /\ mutex' = t
    /\ action_queue' = Append(action_queue, Action(t))
    /\ sent' = Append(sent, Action(t))

\* Mutant: a stop takes its place behind what is waiting.
enqueue_priority_action_Back(t) ==
    /\ mutex = NoThread
    /\ mutex' = t
    /\ action_queue' = Append(action_queue, StopAction)
    /\ asked' = TRUE

\* Mutant: no lock.
enqueue_priority_action_NoLock(t) ==
    /\ mutex' = t
    /\ action_queue' = <<StopAction>> \o action_queue
    /\ asked' = TRUE

enqueue_priority_action(t) ==
    /\ mutex = NoThread
    /\ mutex' = t
    /\ action_queue' = <<StopAction>> \o action_queue
    /\ asked' = TRUE

\* Mutant: no notify_one().
notify_one_Missing == asleep' = asleep

notify_one == asleep' = FALSE

notify_and_unlock(t) ==
    /\ mutex = t
    /\ notify_one
    /\ mutex' = NoThread

-----------------------------------------------------------------------------
(* The main thread: run() and dequeue_action()                             *)

\* register_event_handlers() and start_processing(): from here requests come.
Start ==
    /\ At(Main, "begin")
    /\ registered' = TRUE
    /\ Goto(Main, "started")
    /\ UNCHANGED <<handler, queue, running, ev, requests, bounds, history>>

EnterLoop ==
    /\ At(Main, "started")
    /\ running' = TRUE
    /\ Goto(Main, "dequeue")
    /\ UNCHANGED <<handler, queue, ev, registered, requests, bounds, history>>

\* Lock the queue, or lock it again inside the condition variable's wait().
DequeueLock ==
    /\ At(Main, "dequeue") \/ (At(Main, "wait") /\ ~ asleep)
    /\ mutex = NoThread
    /\ mutex' = Main
    /\ Goto(Main, "check")
    /\ UNCHANGED <<handler, action_queue, asleep, loop, requests, bounds,
                   history>>

\* The predicate of wait() is false: unlock and sleep in one step.
DequeueWait ==
    /\ At(Main, "check") /\ action_queue = << >>
    /\ mutex' = NoThread
    /\ asleep' = TRUE
    /\ Goto(Main, "wait")
    /\ UNCHANGED <<handler, action_queue, loop, requests, bounds, history>>

\* Mutant: wait() without a predicate; front() of an empty deque is anything.
DequeuePop_NoPredicate ==
    /\ At(Main, "check")
    /\ IF action_queue # << >>
       THEN ev' = Head(action_queue) /\ action_queue' = Tail(action_queue)
       ELSE ev' = [from |-> Main, n |-> 0] /\ UNCHANGED action_queue
    /\ mutex' = NoThread
    /\ Goto(Main, "act")
    /\ UNCHANGED <<handler, asleep, running, registered, requests, bounds,
                   history>>

\* Mutant: front() without pop_front().
DequeuePop_Stays ==
    /\ At(Main, "check") /\ action_queue # << >>
    /\ ev' = Head(action_queue)
    /\ mutex' = NoThread
    /\ Goto(Main, "act")
    /\ Len(done) < Len(sent) + 1
    /\ UNCHANGED <<handler, action_queue, asleep, running, registered, requests,
                   bounds, history>>

DequeuePop ==
    /\ At(Main, "check") /\ action_queue # << >>
    /\ ev' = Head(action_queue)
    /\ action_queue' = Tail(action_queue)
    /\ mutex' = NoThread
    /\ Goto(Main, "act")
    /\ UNCHANGED <<handler, asleep, running, registered, requests, bounds,
                   history>>

SpuriousWakeup ==
    /\ pc[Main] = "wait" /\ asleep
    /\ spurious < MAX_SPURIOUS
    /\ spurious' = spurious + 1
    /\ asleep' = FALSE
    /\ UNCHANGED <<pc, handler, mutex, action_queue, loop, requests, signals,
                   history>>

\* ev() and the test of the while loop.
ActStop ==
    /\ At(Main, "act") /\ ev = StopAction
    /\ running' = FALSE
    /\ Goto(Main, "unregister")
    /\ UNCHANGED <<handler, queue, ev, registered, requests, bounds, history>>

\* Mutant: the promise of flush() is not set.
Act_NoPromise ==
    /\ At(Main, "act") /\ ev # StopAction
    /\ done' = Append(done, ev)
    /\ Goto(Main, IF running THEN "dequeue" ELSE "unregister")
    /\ UNCHANGED <<handler, queue, loop, requests, bounds, sent, asked>>

Act ==
    /\ At(Main, "act") /\ ev # StopAction
    /\ done' = Append(done, ev)
    /\ flushed' = [flushed EXCEPT ![ev.from] = @ \/ ev.from \in Callers]
    /\ Goto(Main, IF running THEN "dequeue" ELSE "unregister")
    /\ UNCHANGED <<handler, queue, loop, calls, bounds, sent, asked>>

\* ~HandlerRegistration waits until each loop has cleared the handler, so that
\* no handler is being called when run() returns.
Return ==
    /\ At(Main, "unregister")
    /\ \A t \in LoopThreads : At(t, "idle")
    /\ registered' = FALSE
    /\ Goto(Main, "returned")
    /\ UNCHANGED <<handler, queue, running, ev, requests, bounds, history>>

-----------------------------------------------------------------------------
(* The other threads *)

\* A D-Bus request makes a loop call one of the handlers of lines 59-117.
Request(t) ==
    /\ t \in LoopThreads /\ At(t, "idle")
    /\ registered
    /\ calls[t] < MAX_REQUESTS
    /\ calls' = [calls EXCEPT ![t] = @ + 1]
    /\ Goto(t, "enqueue")
    /\ UNCHANGED <<handler, queue, loop, flushed, bounds, history>>

flush(t) ==
    /\ t \in Callers /\ At(t, "idle")
    /\ calls[t] < MAX_REQUESTS
    /\ calls' = [calls EXCEPT ![t] = @ + 1]
    /\ flushed' = [flushed EXCEPT ![t] = FALSE]
    /\ Goto(t, "enqueue")
    /\ UNCHANGED <<handler, queue, loop, bounds, history>>

Enqueue(t) ==
    /\ At(t, "enqueue")
    /\ enqueue_action(t)
    /\ Goto(t, "notify")
    /\ UNCHANGED <<handler, asleep, loop, requests, bounds, done, asked>>

Notify(t) ==
    /\ At(t, "notify")
    /\ notify_and_unlock(t)
    /\ Goto(t, IF t \in Callers THEN "await" ELSE "idle")
    /\ UNCHANGED <<handler, action_queue, loop, requests, bounds, history>>

Flushed(t) ==
    /\ At(t, "await") /\ flushed[t]
    /\ Goto(t, "idle")
    /\ UNCHANGED <<handler, queue, loop, requests, bounds, history>>

\* Mutant: stop() clears the flag itself and wakes nobody.
stop_Flag(t) ==
    /\ t \in Callers /\ At(t, "idle")
    /\ running' = FALSE
    /\ asked' = TRUE
    /\ Goto(t, "joining")
    /\ UNCHANGED <<handler, queue, ev, registered, requests, bounds, sent, done>>

\* The tests end with stop() and join the thread that runs the daemon.
stop(t) ==
    /\ t \in Callers /\ At(t, "idle")
    /\ enqueue_priority_action(t)
    /\ Goto(t, "stopping")
    /\ UNCHANGED <<handler, asleep, loop, requests, bounds, sent, done>>

StopNotify(t) ==
    /\ At(t, "stopping")
    /\ notify_and_unlock(t)
    /\ Goto(t, "joining")
    /\ UNCHANGED <<handler, action_queue, loop, requests, bounds, history>>

-----------------------------------------------------------------------------
(* The signal handler, run by whichever thread the signal interrupts       *)

\* What the handler calls is not safe in a handler: log() and the deque allocate, and
\* log() calls vsyslog().  The thread may have been interrupted while it holds the lock
\* of libc that these take, and then they never return.  Main, in wait(), holds none,
\* but another handler that never returns may sit on one.
CaughtInLibc(t) == pc[t] # "wait" \/ \E u \in Threads : handler[u] \in {"log", "allocate"}

\* The mask is full: a thread in the handler is not interrupted again.  First it logs.
Signal(t) ==
    /\ handler[t] = "none"
    /\ pc[Main] # "returned"
    /\ signals < MAX_SIGNALS
    /\ signals' = signals + 1
    /\ \/ handler' = [handler EXCEPT ![t] = "push"]
       \/ CaughtInLibc(t) /\ handler' = [handler EXCEPT ![t] = "log"]
    /\ UNCHANGED <<pc, queue, loop, requests, spurious, history>>

\* The mutex is taken, and push_front() allocates.
push_front_caught(t) ==
    /\ handler[t] = "push" /\ CaughtInLibc(t)
    /\ mutex = NoThread
    /\ mutex' = t
    /\ handler' = [handler EXCEPT ![t] = "allocate"]
    /\ UNCHANGED <<pc, action_queue, asleep, loop, requests, bounds, history>>

\* The mutex is not recursive: if t held it when interrupted, this waits for ever.
stop_daemon(t) ==
    /\ handler[t] = "push"
    /\ enqueue_priority_action(t)
    /\ handler' = [handler EXCEPT ![t] = "notify"]
    /\ UNCHANGED <<pc, asleep, loop, requests, bounds, sent, done>>

stop_daemon_returns(t) ==
    /\ handler[t] = "notify"
    /\ notify_and_unlock(t)
    /\ handler' = [handler EXCEPT ![t] = "none"]
    /\ UNCHANGED <<pc, action_queue, loop, requests, bounds, history>>

-----------------------------------------------------------------------------

\* What thread t does by itself once it has begun.
MainStep ==
    \/ Start \/ EnterLoop
    \/ DequeueLock \/ DequeueWait \/ DequeuePop
    \/ ActStop \/ Act \/ Return

ThreadStep(t) == Enqueue(t) \/ Notify(t) \/ Flushed(t) \/ StopNotify(t)

HandlerStep(t) == stop_daemon(t) \/ stop_daemon_returns(t)

Next ==
    \/ MainStep
    \/ SpuriousWakeup
    \/ \E t \in Threads : ThreadStep(t) \/ HandlerStep(t)
    \/ \E t \in Threads :
          Request(t) \/ flush(t) \/ stop(t) \/ Signal(t) \/ push_front_caught(t)

Spec == Init /\ [][Next]_vars

\* The scheduler runs every thread that can run.  Nothing obliges a client to
\* ask, a caller to call, a signal to come, or libc to hold a lock.
Fairness ==
    /\ WF_vars(MainStep)
    /\ \A t \in Threads : WF_vars(ThreadStep(t)) /\ WF_vars(HandlerStep(t))

FairSpec == Spec /\ Fairness

-----------------------------------------------------------------------------
(* Properties *)

Labels == {"begin", "started", "dequeue", "check", "wait", "act", "unregister",
           "returned", "idle", "enqueue", "notify", "await", "stopping", "joining"}

TypeOK ==
    /\ pc \in [Threads -> Labels]
    /\ handler \in [Threads -> {"none", "log", "push", "allocate", "notify"}]
    /\ mutex \in Threads \cup {NoThread}
    /\ action_queue \in Seq(Item \cup {StopAction})
    /\ asleep \in BOOLEAN /\ running \in BOOLEAN
    /\ ev \in Item \cup {StopAction}
    /\ registered \in BOOLEAN
    /\ calls \in [Threads -> Nat]
    /\ flushed \in [Threads -> BOOLEAN]
    /\ signals \in Nat /\ spurious \in Nat
    /\ sent \in Seq(Item) /\ done \in Seq(Item)
    /\ asked \in BOOLEAN

AboutToNotify(t) ==
    \/ pc[t] \in {"notify", "stopping"}
    \/ handler[t] = "notify"

\* Main never sleeps on a queue that has an action, unless the thread that
\* pushed it still holds the mutex and is about to notify: no wakeup is lost,
\* in whatever order threads push, test and sleep, and whichever thread a signal
\* interrupts (Daemon.cpp:123-144).
NoLostWakeup ==
    asleep /\ action_queue # << >> => \E t \in Threads : mutex = t /\ AboutToNotify(t)

\* A stop is never behind an action, however many stops were pushed, from
\* wherever (Daemon.cpp:46-48, 130-135).
StopsFirst ==
    \A i, j \in DOMAIN action_queue :
        i < j /\ action_queue[j] = StopAction => action_queue[i] = StopAction

\* When flush() returns, the daemon has entered its loop and every action pushed
\* before the flush has been run (Daemon.cpp:50-57, tests/RunDaemon.cpp:26-31).
FlushMeansDone ==
    [][\A c \in Callers :
        pc[c] = "await" /\ pc'[c] = "idle" =>
            /\ pc[Main] \notin {"begin", "started"}
            /\ \A i \in DOMAIN sent :
                 sent[i] = Action(c) => \A j \in 1 .. i : j \in DOMAIN done
                                                          /\ done[j] = sent[j]
      ]_vars

\* The queue as a whole keeps the promise of ActionQueue: one thread performs
\* the actions in order, each once, and takes up none after a stop was pushed.
Promise == INSTANCE ActionQueue WITH
    Items     <- Item,
    accepted  <- sent,
    performed <- done,
    inHand    <- pc[Main] = "act" /\ ev # StopAction,
    stopping  <- asked,
    ended     <- pc[Main] = "returned"

KeepsPromise == Promise!QueueSpec

\* A signal has interrupted the thread that holds the mutex: it waits for itself.
SelfBlocked == \E t \in Threads : handler[t] = "push" /\ mutex = t

\* A signal has interrupted a thread that holds a lock of libc: it waits for itself in
\* the handler, as may whoever needs that lock.
LibcBlocked == \E t \in Threads : handler[t] \in {"log", "allocate"}

\* Thread t can take no step of its own: it has nothing to do, or waits for what
\* only another can do.
Blocked(t) ==
    \/ handler[t] \in {"log", "allocate"}
    \/ handler[t] = "push" /\ mutex # NoThread
    \/ handler[t] = "notify" /\ mutex # t
    \/ /\ handler[t] = "none"
       /\ \/ pc[t] \in {"idle", "joining", "returned"}
          \/ pc[t] \in {"dequeue", "enqueue"} /\ mutex # NoThread
          \/ pc[t] \in {"notify", "stopping"} /\ mutex # t
          \/ pc[t] = "wait" /\ (asleep \/ mutex # NoThread)
          \/ pc[t] = "await" /\ ~ flushed[t]
          \/ pc[t] = "unregister" /\ \E l \in LoopThreads : ~ At(l, "idle")

\* Everything that was asked for has been done, and nobody waits for an answer.
AtRest ==
    /\ asleep /\ action_queue = << >> /\ done = sent /\ ~ asked
    /\ \A t \in LoopThreads \cup Callers : At(t, "idle")

\* The threads never all wait for one another, on mutex, condition variable, promise
\* or registration, whichever the signals interrupt: when none can go on, the daemon
\* has ended or has nothing left to do, or a thread waits for itself, for the mutex or
\* in libc (Daemon.cpp:32-57, 123-144, main.cpp:31-34).
NeverStuck ==
    (\A t \in Threads : Blocked(t)) =>
        pc[Main] = "returned" \/ SelfBlocked \/ LibcBlocked \/ AtRest

\* A thread that waits for itself to release the mutex does so for ever, and with it
\* whoever needs the queue: nothing is pushed or taken any more, and no later signal
\* helps (Daemon.cpp:123-144, main.cpp:31-34).
SelfBlockIsFinal ==
    [][SelfBlocked => SelfBlocked' /\ UNCHANGED <<mutex, action_queue, sent>>]_vars

\* Every action that a handler enqueues is run, unless a stop is asked for, or a
\* thread waits for itself (Daemon.cpp:123-144).
RequestsRun ==
    \A t \in LoopThreads, n \in 1 .. MAX_REQUESTS :
        [from |-> t, n |-> n] \in {sent[i] : i \in DOMAIN sent}
            ~> \/ [from |-> t, n |-> n] \in {done[i] : i \in DOMAIN done}
               \/ asked \/ SelfBlocked \/ LibcBlocked

\* flush() returns, unless the daemon is stopped meanwhile, or a thread waits for
\* itself (Daemon.cpp:50-57).
FlushReturns ==
    \A c \in Callers :
        pc[c] = "await" ~> pc[c] = "idle" \/ asked \/ SelfBlocked \/ LibcBlocked

\* Once stop() has been called, run() returns: what tests/TestBase.cpp:16-20
\* relies on when it stops the daemon and joins its thread.  A handler caught in libc
\* is left aside, so that what refutes this is the daemon's own mutex.
StopReturns == signals > 0 \/ asked ~> pc[Main] = "returned" \/ LibcBlocked

\* Two things keep a stop or a signal from ending run(), a thread that was interrupted
\* while it held the mutex and one that was while it held a lock of libc, and no other
\* does: not the order of stops, a second signal, a wakeup before the wait or a loop
\* that is being interrupted (Daemon.cpp:32-48, main.cpp:26-34, SyslogLog.cpp:36-46).
OnlySelfBlockedStays ==
    signals > 0 \/ asked ~> pc[Main] = "returned" \/ SelfBlocked \/ LibcBlocked

=============================================================================
