------------------------------ MODULE EventLoop -----------------------------
(***************************************************************************)
(* The EventLoop class: a thread that runs a GLib main loop, callbacks     *)
(* given to it by enqueue() and schedule_in(), the future of each, and the *)
(* loop's construction and stop().                                         *)
(*                                                                         *)
(* GLib is external: idle sources are dispatched one by one in the order   *)
(* they were attached, timeouts and GDBus's own sources at any time; after *)
(* g_main_loop_quit() the iteration under way may still dispatch some; and *)
(* a context that is freed destroys the sources left in it.                *)
(***************************************************************************)
EXTENDS Naturals, Sequences

CONSTANTS
    Callbacks,       \* what the loop is given to call, each once
    Timed,           \* those of them given to schedule_in(), or by GDBus
    Started          \* the empty one that the constructor enqueues

ASSUME CallbacksAssumption ==
    Timed \subseteq Callbacks /\ Started \in Callbacks \ Timed

VARIABLES
    object,          \* the EventLoop, from construction to the end of stop()
    loop_thread,
    is_running,      \* the GMainLoop's flag
    idle,            \* the enqueued sources attached to main_context
    timed,           \* the other sources attached to it
    current,         \* the callback being called, in a set
    future,          \* of each callback
    enqueued         \* history: what was given to enqueue(), in order

loopVars == <<object, loop_thread, is_running, idle, timed, current, future, enqueued>>

Init ==
    /\ object = "none" /\ loop_thread = "none"
    /\ is_running = FALSE
    /\ idle = << >> /\ timed = {} /\ current = {} /\ enqueued = << >>
    /\ future = [c \in Callbacks |-> "none"]

-----------------------------------------------------------------------------
(* Giving the loop something to call *)

Promised(c) ==
    /\ future[c] = "none"
    /\ future' = [future EXCEPT ![c] = "pending"]

\* stop() leaves main_context null, which is GLib's default context: nothing
\* in the daemon iterates that one.
enqueue(c) ==
    /\ Promised(c)
    /\ idle' = IF object = "stopped" THEN idle ELSE Append(idle, c)
    /\ enqueued' = Append(enqueued, c)
    /\ UNCHANGED <<object, loop_thread, is_running, timed, current>>

schedule_in(c) ==
    /\ Promised(c)
    /\ timed' = IF object = "stopped" THEN timed ELSE timed \cup {c}
    /\ UNCHANGED <<object, loop_thread, is_running, idle, current, enqueued>>

-----------------------------------------------------------------------------
(* The constructor and stop() *)

\* The thread is created, and the empty callback enqueued.
Construct ==
    /\ object = "none"
    /\ object' = "constructing"
    /\ loop_thread' = "starting"
    /\ Promised(Started)
    /\ idle' = <<Started>> /\ enqueued' = <<Started>>
    /\ UNCHANGED <<is_running, timed, current>>

\* Mutant: the constructor does not wait.
ConstructorReturns_AtOnce ==
    /\ object = "constructing"
    /\ object' = "alive"
    /\ UNCHANGED <<loop_thread, is_running, idle, timed, current, future, enqueued>>

ConstructorReturns ==
    /\ object = "constructing" /\ future[Started] # "pending"
    /\ object' = "alive"
    /\ UNCHANGED <<loop_thread, is_running, idle, timed, current, future, enqueued>>

Quit ==
    /\ object = "alive"
    /\ object' = "stopping"
    /\ is_running' = FALSE
    /\ UNCHANGED <<loop_thread, idle, timed, current, future, enqueued>>

Attached == timed \cup {idle[i] : i \in DOMAIN idle}

\* Mutant: no join().
Free_NoJoin ==
    /\ object = "stopping"
    /\ object' = "stopped"
    /\ idle' = << >> /\ timed' = {}
    /\ future' = [c \in Callbacks |-> IF c \in Attached THEN "broken" ELSE future[c]]
    /\ UNCHANGED <<loop_thread, is_running, current, enqueued>>

\* Mutant: static_destroy() does not delete the context of a source.
Free_Leaks ==
    /\ object = "stopping" /\ loop_thread = "ended"
    /\ object' = "stopped"
    /\ idle' = << >> /\ timed' = {}
    /\ UNCHANGED <<loop_thread, is_running, current, future, enqueued>>

\* join(), and the unreferenced context destroys its sources: the promise in a
\* source's GSourceContext is deleted before it was kept.
Free ==
    /\ object = "stopping" /\ loop_thread = "ended"
    /\ object' = "stopped"
    /\ idle' = << >> /\ timed' = {}
    /\ future' = [c \in Callbacks |-> IF c \in Attached THEN "broken" ELSE future[c]]
    /\ UNCHANGED <<loop_thread, is_running, current, enqueued>>

-----------------------------------------------------------------------------
(* The loop's thread *)

\* g_main_loop_run() sets the flag, whether it was cleared before or not.
ThreadRuns ==
    /\ loop_thread = "starting"
    /\ loop_thread' = "looping"
    /\ is_running' = TRUE
    /\ UNCHANGED <<object, idle, timed, current, future, enqueued>>

\* The source of c is the next to be dispatched, and is taken off the context.
Take(c) ==
    \/ idle # << >> /\ c = Head(idle) /\ idle' = Tail(idle) /\ UNCHANGED timed
    \/ c \in timed /\ timed' = timed \ {c} /\ UNCHANGED idle

\* Mutant: the promise is kept before the callback is called.
Dispatch_PromiseFirst(c) ==
    /\ loop_thread = "looping" /\ current = {}
    /\ Take(c)
    /\ current' = {c}
    /\ future' = [future EXCEPT ![c] = "value"]
    /\ UNCHANGED <<object, loop_thread, is_running, enqueued>>

Dispatch(c) ==
    /\ loop_thread = "looping" /\ current = {}
    /\ Take(c)
    /\ current' = {c}
    /\ UNCHANGED <<object, loop_thread, is_running, future, enqueued>>

\* static_call() returns: the callback has returned, or thrown.
Finish(c, result) ==
    /\ c \in current
    /\ current' = {}
    /\ future' = [future EXCEPT ![c] = result]
    /\ UNCHANGED <<object, loop_thread, is_running, idle, timed, enqueued>>

ThreadEnds ==
    /\ loop_thread = "looping" /\ ~ is_running /\ current = {}
    /\ loop_thread' = "ended"
    /\ UNCHANGED <<object, is_running, idle, timed, current, future, enqueued>>

-----------------------------------------------------------------------------

\* Who has the object calls it between its construction and its destruction, and
\* so does a callback that is being called while stop() waits.
InUse == object = "alive" \/ (object = "stopping" /\ current # {})

Next ==
    \/ Construct \/ ConstructorReturns \/ Quit \/ Free
    \/ InUse /\ \E c \in Callbacks \ (Timed \cup {Started}) : enqueue(c)
    \/ InUse /\ \E c \in Timed : schedule_in(c)
    \/ ThreadRuns \/ ThreadEnds
    \/ \E c \in Callbacks : Dispatch(c)
    \/ \E c \in Callbacks, result \in {"value", "exception"} : Finish(c, result)

Spec == Init /\ [][Next]_loopVars

\* Threads run, callbacks return and timeouts expire.  Nothing obliges anybody to
\* use the loop, or to stop it.
Fairness ==
    /\ WF_loopVars(ThreadRuns) /\ WF_loopVars(ThreadEnds)
    /\ WF_loopVars(\E c \in Callbacks : Dispatch(c))
    /\ WF_loopVars(\E c \in Callbacks, result \in {"value", "exception"} : Finish(c, result))
    /\ WF_loopVars(ConstructorReturns) /\ WF_loopVars(Free)

FairSpec == Spec /\ Fairness

-----------------------------------------------------------------------------
(* Properties *)

TypeOK ==
    /\ object \in {"none", "constructing", "alive", "stopping", "stopped"}
    /\ loop_thread \in {"none", "starting", "looping", "ended"}
    /\ is_running \in BOOLEAN
    /\ idle \in Seq(Callbacks \ Timed) /\ enqueued \in Seq(Callbacks \ Timed)
    /\ timed \subseteq Timed
    /\ current \subseteq Callbacks
    /\ future \in [Callbacks -> {"none", "pending", "value", "exception", "broken"}]

Called(c) == future[c] \in {"value", "exception"}

\* When enqueue(f).wait() ends because f was called, f has returned, and so has
\* everything enqueued before it, by whichever thread: what a registration relies
\* on when it has been undone on the loop (EventLoopHandlerRegistration.h:31-39).
WaitMeansDone ==
    \A j \in DOMAIN enqueued : Called(enqueued[j]) =>
        \A i \in 1 .. j : Called(enqueued[i]) /\ enqueued[i] \notin current

\* Once stop() has returned no callback is being called and none will be: what
\* callbacks refer to can be destroyed (EventLoop.cpp:102-118).
QuietAfterStop ==
    object = "stopped" => loop_thread = "ended" /\ current = {}

\* Whatever somebody may be waiting for is still with the loop, or with whom it
\* calls: no promise is dropped on the way, also when stop() frees the context
\* (EventLoop.cpp:39-53, 113-117).
PendingIsHeld ==
    \A c \in Callbacks : future[c] = "pending" => c \in Attached \cup current

\* From the quit to the end of the thread the flag stays cleared, and the thread is
\* in its loop, where it will see it: g_main_loop_run() does not set it again
\* (EventLoop.cpp:94, 104-107).
QuitIsKept ==
    object = "stopping" /\ loop_thread # "ended" => loop_thread = "looping" /\ ~ is_running

\* Nobody waits for ever for a callback, also if the loop is stopped before it
\* was called: its promise is then broken (EventLoop.cpp:53, 113-117).
WaitsEnd ==
    \A c \in Callbacks : future[c] = "pending" ~> future[c] # "pending"

\* stop() returns: the quit is never lost on a loop that does not run yet, which
\* is what the constructor waits for (EventLoop.cpp:94, 104-107).
StopEnds == object = "stopping" ~> object = "stopped"

=============================================================================
