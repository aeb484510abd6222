------------------------------- MODULE MCLEDs -------------------------------
(* Requests for checking LEDs with TLC. *)
EXTENDS LEDs

Call(led, colour, type, value) ==
    [method |-> "SetLEDBlockStep",
     step |-> [led |-> led, colour |-> colour, type |-> type, value |-> value]]

\* Arguments on both sides of every limit the code tests.
MCBlockCalls ==
    {Call(2, 1, 0, 255), Call(2, 1, 0, 256), Call(5, 3, 1, 255), Call(6, 0, 0, 1),
     Call(0, 0, 0, 1), Call(1, 0, 2, 300), Call(1, 2, 3, 1023), Call(1, 2, 3, 1024),
     Call(3, 0, 4, 1), Call(31, 0, 0, 255)}

MCFewBlockCalls == {Call(2, 1, 0, 200), Call(1, 0, 3, 1023)}

MCClear == [method |-> "ClearLEDBlockAnimation"]
MCPush == [method |-> "PushLEDBlockAnimation"]
MCTorch(on, duration) == [method |-> "SetTorch", on |-> on, duration |-> duration]

MCOthers ==
    {[method |-> "SetCapsLock", state |-> TRUE], MCClear, MCPush}

MCCalls ==
    {[method |-> "SetCall", earpiece |-> e, leftUp |-> l] : e, l \in BOOLEAN}

\* Every method, and one the object does not have; torches all have a duration,
\* which may be as long as it likes.
MCTimedRequests ==
    MCBlockCalls \cup MCOthers \cup MCCalls
    \cup {[method |-> "other"], MCTorch(TRUE, 1), MCTorch(FALSE, 0)}

\* A client's animation, a torch with and without a duration, and caps lock.
MCAnimationRequests ==
    MCFewBlockCalls \cup MCOthers \cup {MCTorch(TRUE, 1), MCTorch(TRUE, 0)}

MCStepsOf(Q) ==
    {s \in {r.step : r \in {q \in Q : q.method = "SetLEDBlockStep"}} : IsBlockStep(s)}

MCTimedSteps == MCStepsOf(MCTimedRequests)
MCAnimationSteps == MCStepsOf(MCAnimationRequests)

=============================================================================
