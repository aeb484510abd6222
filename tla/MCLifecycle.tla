---------------------------- MODULE MCLifecycle -----------------------------
(* Two torches with a duration, one that stays on, and another method.      *)
EXTENDS Lifecycle

Call(what, duration, id) ==
    [do |-> "method", what |-> what, duration |-> duration, id |-> id]
MCCalls == {Call("torch", TRUE, 1), Call("torch", TRUE, 2), Call("torch", FALSE, 3),
            Call("capsLock", FALSE, 4)}

=============================================================================
