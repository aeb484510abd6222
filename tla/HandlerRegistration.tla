------------------------ MODULE HandlerRegistration -------------------------
(***************************************************************************)
(* HandlerRegistration objects: variables, temporaries and the elements of *)
(* a vector that grows are made, moved and destroyed in any order, and the *)
(* function a registration is undone with must be called exactly once.     *)
(***************************************************************************)
EXTENDS Naturals

CONSTANTS
    Places,          \* where an object can be
    Registrations,   \* the functions that undo one each
    null_unregister, \* the function that does nothing
    NoObject

ASSUME PlacesAssumption ==
    /\ null_unregister \notin Registrations
    /\ NoObject \notin Registrations \cup {null_unregister}

VARIABLES
    unregister,      \* of the object in each place
    undone,          \* how often each registration has been undone
    made             \* history: the registrations that have been made

vars == <<unregister, undone, made>>

Init ==
    /\ unregister = [p \in Places |-> NoObject]
    /\ undone = [r \in Registrations |-> 0]
    /\ made = {}

IsObject(p) == unregister[p] # NoObject

\* Calling an object's function.
Undo(p) ==
    undone' = [r \in Registrations |-> undone[r] + IF unregister[p] = r THEN 1 ELSE 0]

-----------------------------------------------------------------------------

\* The default constructor.
Default(p) ==
    /\ ~ IsObject(p)
    /\ unregister' = [unregister EXCEPT ![p] = null_unregister]
    /\ UNCHANGED <<undone, made>>

\* A registration has been made, and this object is to undo it.
Register(p, r) ==
    /\ ~ IsObject(p) /\ r \notin made
    /\ unregister' = [unregister EXCEPT ![p] = r]
    /\ made' = made \cup {r}
    /\ UNCHANGED undone

\* Mutant: the object moved from keeps its function.
MoveConstruct_Copies(p, other) ==
    /\ ~ IsObject(p) /\ IsObject(other)
    /\ unregister' = [unregister EXCEPT ![p] = unregister[other]]
    /\ UNCHANGED <<undone, made>>

MoveConstruct(p, other) ==
    /\ ~ IsObject(p) /\ IsObject(other)
    /\ unregister' = [unregister EXCEPT ![p] = unregister[other], ![other] = null_unregister]
    /\ UNCHANGED <<undone, made>>

\* Nothing happens when an object is assigned to itself.
MoveAssign(p, other) ==
    /\ IsObject(p) /\ IsObject(other) /\ p # other
    /\ Undo(p)
    /\ unregister' = [unregister EXCEPT ![p] = unregister[other], ![other] = null_unregister]
    /\ UNCHANGED made

Destroy(p) ==
    /\ IsObject(p)
    /\ Undo(p)
    /\ unregister' = [unregister EXCEPT ![p] = NoObject]
    /\ UNCHANGED made

Next ==
    \/ \E p \in Places : Default(p) \/ Destroy(p)
    \/ \E p \in Places, r \in Registrations : Register(p, r)
    \/ \E p, other \in Places : MoveConstruct(p, other) \/ MoveAssign(p, other)

Spec == Init /\ [][Next]_vars

-----------------------------------------------------------------------------
(* Properties *)

TypeOK ==
    /\ unregister \in [Places -> Registrations \cup {null_unregister, NoObject}]
    /\ undone \in [Registrations -> Nat]
    /\ made \subseteq Registrations

Holders(r) == {p \in Places : unregister[p] = r}

\* A registration that has been made is held by one object and not yet undone, or
\* by none and was undone once: moving it, as a vector does when it grows, neither
\* loses it nor undoes it twice (HandlerRegistration.cpp:30-46).
UndoneOnce ==
    \A r \in Registrations :
        \/ r \notin made /\ Holders(r) = {} /\ undone[r] = 0
        \/ r \in made /\ undone[r] = 0 /\ \E p \in Places : Holders(r) = {p}
        \/ r \in made /\ undone[r] = 1 /\ Holders(r) = {}

=============================================================================
