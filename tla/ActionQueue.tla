---------------------------- MODULE ActionQueue ----------------------------
(***************************************************************************)
(* What the daemon's action queue promises: actions are performed one at a *)
(* time, in the order they were accepted, each once; and once a stop has   *)
(* been asked for, no further action is taken up and the loop ends.        *)
(***************************************************************************)
EXTENDS Naturals, Sequences

CONSTANT Items           \* everything that can be asked of the queue

VARIABLES
    accepted,    \* the actions accepted so far, in order
    performed,   \* the actions performed so far, in order
    inHand,      \* an action has been taken up and not yet performed
    stopping,    \* a stop has been asked for
    ended        \* the loop has ended

queueVars == <<accepted, performed, inHand, stopping, ended>>

QueueInit ==
    /\ accepted = << >> /\ performed = << >>
    /\ inHand = FALSE /\ stopping = FALSE /\ ended = FALSE

Accept(item) ==
    /\ accepted' = Append(accepted, item)
    /\ UNCHANGED <<performed, inHand, stopping, ended>>

Take ==
    /\ ~ inHand /\ ~ stopping
    /\ Len(performed) < Len(accepted)
    /\ inHand' = TRUE
    /\ UNCHANGED <<accepted, performed, stopping, ended>>

Perform ==
    /\ inHand
    /\ performed' = Append(performed, accepted[Len(performed) + 1])
    /\ inHand' = FALSE
    /\ UNCHANGED <<accepted, stopping, ended>>

AskToStop ==
    /\ stopping' = TRUE
    /\ UNCHANGED <<accepted, performed, inHand, ended>>

End ==
    /\ stopping /\ ~ inHand
    /\ ended' = TRUE
    /\ UNCHANGED <<accepted, performed, inHand, stopping>>

QueueNext ==
    \/ \E item \in Items : Accept(item)
    \/ Take
    \/ Perform
    \/ AskToStop
    \/ End

QueueSpec == QueueInit /\ [][QueueNext]_queueVars

=============================================================================
