------------------------- MODULE ConnectionWatcher -------------------------
(***************************************************************************)
(* The ConnectionWatcher class: it subscribes to connman's PropertyChanged *)
(* signals, one technology after the other, then asks for the properties   *)
(* of each with a call that blocks its event loop, and passes on whether a *)
(* technology is powered.  connman, the bus and GDBus are external: bus    *)
(* messages from connman reach the daemon in the order they were sent, a   *)
(* signal then waits on the event loop, an answer goes to the caller.      *)
(***************************************************************************)
EXTENDS Naturals, Sequences

CONSTANTS
    MAX_CHANGES,     \* bound: property changes and restarts, in all
    MAX_RESTARTS     \* bound: times connman is restarted

ASSUME ChangesAssumption == MAX_CHANGES \in Nat /\ MAX_RESTARTS \in Nat

Technology == {"wifi", "bluetooth", "cellular"}

\* The order of the constructor's registrations, and of its queries.
Order == <<"wifi", "bluetooth", "cellular">>

VARIABLES
    powered,         \* connman's technologies
    incarnation,     \* which connman it is, from 1
    bus,             \* messages on their way from connman
    subscribed,      \* the technologies whose signals the bus sends here
    constructor,     \* steps done: three registrations, then three queries
    asking,          \* the technology the loop is blocked asking for, in a set
    asked,           \* the call connman has not answered, in a set
    answer,          \* the answer the blocked call got, in a set
    signals,         \* signals waiting on the event loop
    connectivity,    \* the fields of LightState
    changes,
    heard            \* history: how LightState came to what it has of each technology

vars == <<powered, incarnation, bus, subscribed, constructor, asking, asked, answer,
          signals, connectivity, changes, heard>>

Init ==
    /\ powered \in [Technology -> BOOLEAN]
    /\ connectivity = [tech \in Technology |-> FALSE]
    /\ bus = << >> /\ signals = << >>
    /\ subscribed = {} /\ asking = {} /\ asked = {} /\ answer = {}
    /\ heard = [tech \in Technology |-> "unasked"]
    /\ constructor = 0 /\ changes = 0 /\ incarnation = 1

\* The value is that of the property: "Connected" is here what "Powered" is not.
Signal(tech, key) ==
    [kind |-> "signal", tech |-> tech, key |-> key,
     value |-> powered'[tech] = (key = "Powered"), from |-> incarnation]

\* A signal of a connman that is gone waits behind this answer, and will be passed
\* on after it.
Overtaking(msg) ==
    msg.kind = "answer" /\ \E i \in DOMAIN signals :
        signals[i].tech = msg.tech /\ signals[i].key = "Powered"
            /\ signals[i].from # incarnation

\* What the connman there is says counts as told, unless an older word is to follow.
saveStateForPath(msg, state) ==
    /\ connectivity' = [connectivity EXCEPT ![msg.tech] = state]
    /\ \/ msg.from # incarnation /\ UNCHANGED heard
       \/ msg.from = incarnation
            /\ heard' = [heard EXCEPT ![msg.tech] =
                           IF Overtaking(msg) THEN "overtaken" ELSE "told"]

-----------------------------------------------------------------------------
(* connman and the bus *)

PropertyChanges(tech, key) ==
    /\ changes < MAX_CHANGES
    /\ changes' = changes + 1
    /\ powered' = IF key = "Powered" THEN [powered EXCEPT ![tech] = ~ @] ELSE powered
    /\ bus' = IF tech \in subscribed THEN Append(bus, Signal(tech, key)) ELSE bus
    /\ UNCHANGED <<incarnation, subscribed, constructor, asking, asked, answer,
                   signals, connectivity, heard>>

\* connman is restarted.  It has the technologies as it finds them, and has told
\* nobody; the bus answers for the one that is gone.
Restart ==
    /\ incarnation <= MAX_RESTARTS /\ changes < MAX_CHANGES
    /\ incarnation' = incarnation + 1
    /\ changes' = changes + 1
    /\ powered' \in [Technology -> BOOLEAN]
    /\ asked' = {}
    /\ \/ asked = {} /\ UNCHANGED bus
       \/ \E tech \in asked :
            bus' = Append(bus, [kind |-> "answer", tech |-> tech, ok |-> FALSE,
                                powered |-> FALSE, from |-> incarnation])
    /\ heard' = [tech \in Technology |-> "restarted"]
    /\ UNCHANGED <<subscribed, constructor, asking, answer, signals, connectivity>>

\* connman answers with the properties, or with an error; the bus answers for
\* it with an error when it does not run.
Answer(tech, ok) ==
    /\ tech \in asked
    /\ asked' = {}
    /\ bus' = Append(bus, [kind |-> "answer", tech |-> tech, ok |-> ok,
                           powered |-> powered[tech], from |-> incarnation])
    /\ UNCHANGED <<powered, incarnation, subscribed, constructor, asking, answer, signals,
                   connectivity, changes, heard>>

\* GDBus takes a message from the bus.  An answer nobody waits for is dropped.
Receive ==
    /\ bus # << >>
    /\ bus' = Tail(bus)
    /\ LET msg == Head(bus)
       IN  \/ /\ msg.kind = "signal"
              /\ signals' = Append(signals, msg)
              /\ UNCHANGED answer
           \/ /\ msg.kind = "answer"
              /\ answer' = IF msg.tech \in asking THEN {msg} ELSE answer
              /\ UNCHANGED signals
    /\ UNCHANGED <<powered, incarnation, subscribed, constructor, asking, asked,
                   connectivity, changes, heard>>

-----------------------------------------------------------------------------
(* The constructor and the event loop *)

\* The loop subscribes, and the caller waits until the bus has the subscription.
register_signal_handler(tech) == subscribed' = subscribed \cup {tech}

\* Mutant: every registration is for the first technology.
getRegistration_First ==
    /\ constructor < 3
    /\ register_signal_handler(Order[1])
    /\ constructor' = constructor + 1
    /\ UNCHANGED <<powered, incarnation, bus, asking, asked, answer, signals, connectivity,
                   changes, heard>>

getRegistration ==
    /\ constructor < 3
    /\ register_signal_handler(Order[constructor + 1])
    /\ constructor' = constructor + 1
    /\ UNCHANGED <<powered, incarnation, bus, asking, asked, answer, signals, connectivity,
                   changes, heard>>

\* The loop calls GetProperties and blocks; the constructor waits for it.
dbus_query_connectivity_state ==
    /\ constructor \in 3 .. 5 /\ asking = {}
    /\ asking' = {Order[constructor - 2]}
    /\ asked' = asking'
    /\ UNCHANGED <<powered, incarnation, bus, subscribed, constructor, answer, signals,
                   connectivity, changes, heard>>

\* Mutant: a technology is passed over.
QueryReturns_Skips ==
    /\ asking' = {} /\ answer' = {}
    /\ constructor' = constructor + 2
    /\ UNCHANGED <<powered, incarnation, bus, subscribed, signals, changes>>

QueryReturns ==
    /\ asking' = {} /\ answer' = {}
    /\ constructor' = constructor + 1
    /\ UNCHANGED <<powered, incarnation, bus, subscribed, signals, changes>>

\* An error is logged, and no query is made again.
QueryFails ==
    /\ UNCHANGED connectivity
    /\ heard' = [tech \in Technology |->
                   IF tech \in asking /\ heard[tech] = "unasked" THEN "failed"
                                                               ELSE heard[tech]]

QueryAnswered ==
    /\ QueryReturns
    /\ UNCHANGED asked
    /\ \E msg \in answer :
         IF msg.ok THEN saveStateForPath(msg, msg.powered)
                   ELSE QueryFails

\* Mutant: a call without a timeout.
QueryTimesOut_Never == FALSE /\ UNCHANGED vars

\* The call times out.
QueryTimesOut ==
    /\ asking # {} /\ answer = {}
    /\ QueryReturns
    /\ asked' \in {asked, {}}
    /\ QueryFails

\* Mutant: any property is taken for Powered.
handle_dbus_signal_AnyKey ==
    /\ asking = {} /\ signals # << >>
    /\ signals' = Tail(signals)
    /\ saveStateForPath(Head(signals), Head(signals).value)
    /\ UNCHANGED <<powered, incarnation, bus, subscribed, constructor, asking, asked, answer,
                   changes>>

\* The loop, when it is not blocked, delivers the signals in the order they came.
handle_dbus_signal ==
    /\ asking = {} /\ signals # << >>
    /\ signals' = Tail(signals)
    /\ LET msg == Head(signals)
       IN  IF msg.key = "Powered" THEN saveStateForPath(msg, msg.value)
                                  ELSE UNCHANGED <<connectivity, heard>>
    /\ UNCHANGED <<powered, incarnation, bus, subscribed, constructor, asking, asked, answer,
                   changes>>

Next ==
    \/ \E tech \in Technology, key \in {"Powered", "Connected"} : PropertyChanges(tech, key)
    \/ Restart
    \/ \E tech \in Technology, ok \in BOOLEAN : Answer(tech, ok)
    \/ Receive
    \/ getRegistration
    \/ dbus_query_connectivity_state
    \/ QueryAnswered
    \/ QueryTimesOut
    \/ handle_dbus_signal

Spec == Init /\ [][Next]_vars

\* Messages arrive and the two threads run; a call that gets no answer times out.
Fairness ==
    /\ WF_vars(Receive)
    /\ WF_vars(getRegistration \/ dbus_query_connectivity_state)
    /\ WF_vars(QueryAnswered \/ QueryTimesOut)
    /\ WF_vars(handle_dbus_signal)

FairSpec == Spec /\ Fairness

-----------------------------------------------------------------------------
(* Properties *)

Incarnation == 1 .. MAX_RESTARTS + 1
Message == [kind : {"signal"}, tech : Technology, key : {"Powered", "Connected"},
            value : BOOLEAN, from : Incarnation]
           \cup [kind : {"answer"}, tech : Technology, ok : BOOLEAN, powered : BOOLEAN,
                 from : Incarnation]

Heard == {"unasked", "told", "failed", "restarted", "overtaken"}

TypeOK ==
    /\ powered \in [Technology -> BOOLEAN] /\ incarnation \in Incarnation
    /\ connectivity \in [Technology -> BOOLEAN]
    /\ bus \in Seq(Message) /\ signals \in Seq(Message)
    /\ subscribed \subseteq Technology
    /\ heard \in [Technology -> Heard]
    /\ asking \subseteq Technology /\ asked \subseteq Technology
    /\ answer \subseteq Message
    /\ constructor \in 0 .. 6 /\ changes \in 0 .. MAX_CHANGES

\* A signal by which the connman there is tells what it has now.
Corrected(seq, tech) ==
    \E i \in DOMAIN seq :
        /\ seq[i].kind = "signal" /\ seq[i].tech = tech /\ seq[i].key = "Powered"
        /\ seq[i].value = powered[tech] /\ seq[i].from = incarnation

\* The constructor has yet to get its answer about tech.
ToBeAsked(tech) == \E i \in 1 .. 3 : Order[i] = tech /\ constructor < 3 + i

\* The ways in which LightState is left wrong until a technology changes again, and
\* nothing in the code puts it right: the query failed and no signal came, before it
\* or since; connman was restarted and has told nothing of the technology since; or
\* the answer of a restarted connman overtook a signal of the one before, which is
\* then passed on after it.
LeftWrong == {"failed", "restarted", "overtaken"}

\* At every moment, also while the constructor asks and the loop is blocked: where
\* LightState has a technology wrong, the signal that puts it right is on the bus or
\* waits on the loop, or the constructor has yet to ask; but for the three ways named
\* above.  No change falls between the subscription and the query, an answer that
\* changes have overtaken on the loop has not the last word, and once a signal of the
\* connman there is has been passed on, none of the one before is to follow
\* (ConnectionWatcher.cpp:17-29, 57-90).
WrongIsCorrected ==
    \A tech \in Technology : connectivity[tech] # powered[tech] =>
        \/ Corrected(bus, tech) \/ Corrected(signals, tech)
        \/ heard[tech] = "unasked" /\ ToBeAsked(tech)
        \/ heard[tech] \in LeftWrong

\* So when nothing is on its way and the constructor is done, what LightState has of
\* a technology is what connman has, but for the three ways
\* (ConnectionWatcher.cpp:23-29).
Settled == constructor = 6 /\ bus = << >> /\ signals = << >> /\ asking = {}

SettledIsTrue ==
    Settled => \A tech \in Technology :
        connectivity[tech] = powered[tech] \/ heard[tech] \in LeftWrong

\* The constructor returns, whatever connman answers or does not, and if it is
\* restarted meanwhile, so that the daemon can go on without it.
ConstructorReturns == <>(constructor = 6)

\* In the end every technology is shown as it is, but for the three ways.
ShownInTheEnd ==
    <>[](\A tech \in Technology :
            connectivity[tech] = powered[tech] \/ heard[tech] \in LeftWrong)

=============================================================================
