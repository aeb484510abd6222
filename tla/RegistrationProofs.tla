------------------------- MODULE RegistrationProofs -------------------------
(***************************************************************************)
(* Registrations are undone once each, for any number of them and of the   *)
(* objects that hold them.  A step changes one or two places: what each    *)
(* registration's holders become follows from whether it is in those.      *)
(***************************************************************************)
EXTENDS HandlerRegistration, TLAPS

\* UndoneOnce for one registration.
Once(r) ==
    \/ r \notin made /\ Holders(r) = {} /\ undone[r] = 0
    \/ r \in made /\ undone[r] = 0 /\ \E p \in Places : Holders(r) = {p}
    \/ r \in made /\ undone[r] = 1 /\ Holders(r) = {}

Inv == TypeOK /\ \A r \in Registrations : Once(r)

\* No function is called, and r stays where it is.
LEMMA Elsewhere ==
    ASSUME NEW r \in Registrations, Once(r), Holders(r)' = Holders(r),
           undone'[r] = undone[r], r \in made' <=> r \in made
    PROVE  Once(r)'
BY DEF Once

\* r goes from one place to another.
LEMMA Moved ==
    ASSUME NEW r \in Registrations, Once(r), NEW other \in Holders(r), NEW p \in Places,
           Holders(r)' = {p}, undone'[r] = undone[r], UNCHANGED made
    PROVE  Once(r)'
BY DEF Once

\* The object that holds r calls it.
LEMMA UndoneNow ==
    ASSUME NEW r \in Registrations, Once(r), NEW p \in Holders(r),
           Holders(r)' = Holders(r) \ {p}, undone'[r] = undone[r] + 1, UNCHANGED made
    PROVE  Once(r)'
BY DEF Once

LEMMA RegistrationInit == Init => Inv
<1> SUFFICES ASSUME Init PROVE Inv
  OBVIOUS
<1>1. TypeOK
  BY DEF Init, TypeOK
<1>2. \A r \in Registrations : r \notin made /\ undone[r] = 0
  BY DEF Init
<1>3. \A r \in Registrations : Holders(r) = {}
  BY PlacesAssumption DEF Init, Holders
<1> QED BY <1>1, <1>2, <1>3 DEF Inv, Once

LEMMA RegistrationNext == Inv /\ [Next]_vars => Inv'
<1> SUFFICES ASSUME Inv, [Next]_vars PROVE Inv'
  OBVIOUS
<1> USE PlacesAssumption DEF Inv
<1>1. CASE UNCHANGED vars
  BY <1>1 DEF vars, TypeOK, Once, Holders
<1>2. ASSUME NEW p \in Places, Default(p)
      PROVE  Inv'
  <2>1. TypeOK'
    BY <1>2 DEF Default, TypeOK
  <2>2. ASSUME NEW r \in Registrations PROVE Once(r)'
    <3>1. Holders(r)' = Holders(r)
      BY <1>2 DEF Default, IsObject, TypeOK, Holders
    <3> QED BY <1>2, <3>1, Elsewhere DEF Default
  <2> QED BY <2>1, <2>2
<1>3. ASSUME NEW p \in Places, NEW s \in Registrations, Register(p, s)
      PROVE  Inv'
  <2>1. TypeOK'
    BY <1>3 DEF Register, TypeOK
  <2>2. ASSUME NEW r \in Registrations PROVE Once(r)'
    <3>1. CASE r = s
      <4>1. Holders(r) = {} /\ undone[r] = 0
        BY <1>3, <3>1 DEF Register, Once
      <4>2. Holders(r)' = {p} /\ r \in made' /\ undone'[r] = 0
        BY <1>3, <3>1, <4>1 DEF Register, TypeOK, Holders
      <4> QED BY <4>2 DEF Once
    <3>2. CASE r # s
      <4>1. Holders(r)' = Holders(r)
        BY <1>3, <3>2 DEF Register, IsObject, TypeOK, Holders
      <4> QED BY <1>3, <3>2, <4>1, Elsewhere DEF Register
    <3> QED BY <3>1, <3>2
  <2> QED BY <2>1, <2>2
<1>4. ASSUME NEW p \in Places, NEW other \in Places, MoveConstruct(p, other)
      PROVE  Inv'
  <2>1. TypeOK' /\ p # other
    BY <1>4 DEF MoveConstruct, TypeOK, IsObject
  <2>2. ASSUME NEW r \in Registrations PROVE Once(r)'
    <3>1. CASE unregister[other] = r
      <4>1. Holders(r) = {other}
        BY <3>1 DEF Once, Holders
      <4>2. Holders(r)' = {p}
        BY <1>4, <2>1, <3>1, <4>1 DEF MoveConstruct, TypeOK, Holders
      <4> QED BY <1>4, <4>1, <4>2, Moved DEF MoveConstruct
    <3>2. CASE unregister[other] # r
      <4>1. Holders(r)' = Holders(r)
        BY <1>4, <2>1, <3>2 DEF MoveConstruct, IsObject, TypeOK, Holders
      <4> QED BY <1>4, <4>1, Elsewhere DEF MoveConstruct
    <3> QED BY <3>1, <3>2
  <2> QED BY <2>1, <2>2
<1>5. ASSUME NEW p \in Places, NEW other \in Places, MoveAssign(p, other)
      PROVE  Inv'
  <2>1. TypeOK' /\ p # other
    BY <1>5 DEF MoveAssign, Undo, TypeOK
  <2>2. ASSUME NEW r \in Registrations PROVE Once(r)'
    <3>0. undone[r] \in Nat
      BY DEF TypeOK
    <3>1. CASE unregister[p] = r
      <4>1. unregister[other] # r
        BY <2>1, <3>1 DEF Once, Holders
      <4>2. Holders(r)' = Holders(r) \ {p} /\ p \in Holders(r)
        BY <1>5, <2>1, <3>1, <4>1 DEF MoveAssign, TypeOK, Holders
      <4>3. undone'[r] = undone[r] + 1
        BY <1>5, <3>1 DEF MoveAssign, Undo
      <4> QED BY <1>5, <4>2, <4>3, UndoneNow DEF MoveAssign
    <3>2. CASE unregister[p] # r /\ unregister[other] = r
      <4>1. Holders(r) = {other}
        BY <3>2 DEF Once, Holders
      <4>2. Holders(r)' = {p}
        BY <1>5, <2>1, <3>2, <4>1 DEF MoveAssign, TypeOK, Holders
      <4>3. undone'[r] = undone[r]
        BY <1>5, <3>0, <3>2 DEF MoveAssign, Undo
      <4> QED BY <1>5, <4>1, <4>2, <4>3, Moved DEF MoveAssign
    <3>3. CASE unregister[p] # r /\ unregister[other] # r
      <4>1. Holders(r)' = Holders(r)
        BY <1>5, <2>1, <3>3 DEF MoveAssign, TypeOK, Holders
      <4>2. undone'[r] = undone[r]
        BY <1>5, <3>0, <3>3 DEF MoveAssign, Undo
      <4> QED BY <1>5, <4>1, <4>2, Elsewhere DEF MoveAssign
    <3> QED BY <3>1, <3>2, <3>3
  <2> QED BY <2>1, <2>2
<1>6. ASSUME NEW p \in Places, Destroy(p)
      PROVE  Inv'
  <2>1. TypeOK'
    BY <1>6 DEF Destroy, Undo, TypeOK
  <2>2. ASSUME NEW r \in Registrations PROVE Once(r)'
    <3>0. undone[r] \in Nat
      BY DEF TypeOK
    <3>1. CASE unregister[p] = r
      <4>1. Holders(r)' = Holders(r) \ {p} /\ p \in Holders(r)
        BY <1>6, <3>1 DEF Destroy, TypeOK, Holders
      <4>2. undone'[r] = undone[r] + 1
        BY <1>6, <3>1 DEF Destroy, Undo
      <4> QED BY <1>6, <4>1, <4>2, UndoneNow DEF Destroy
    <3>2. CASE unregister[p] # r
      <4>1. Holders(r)' = Holders(r)
        BY <1>6, <3>2 DEF Destroy, TypeOK, Holders
      <4>2. undone'[r] = undone[r]
        BY <1>6, <3>0, <3>2 DEF Destroy, Undo
      <4> QED BY <1>6, <4>1, <4>2, Elsewhere DEF Destroy
    <3> QED BY <3>1, <3>2
  <2> QED BY <2>1, <2>2
<1> QED BY <1>1, <1>2, <1>3, <1>4, <1>5, <1>6 DEF Next

\* However registrations are moved about, each is held by one object until it is
\* undone, and is undone once (HandlerRegistration.cpp:23-46).
THEOREM EachUndoneOnce == Spec => []UndoneOnce
<1>1. Inv => UndoneOnce
  BY DEF Inv, Once, UndoneOnce
<1> QED BY <1>1, RegistrationInit, RegistrationNext, PTL DEF Spec

=============================================================================
