--------------------------- MODULE LifecycleProofs --------------------------
(***************************************************************************)
(* What holds of the daemon's life for any calls: the main thread waits    *)
(* for each step it gives to the loop, so that what is set is known from   *)
(* where it is, and the loop is used as an EventLoop can be.               *)
(***************************************************************************)
EXTENDS Lifecycle, Integers, TLAPS

\* The steps whose futures the main thread waits for.
Awaited == 2 .. 9 \cup 12 .. 17 \cup {19}

Future(i) == future[Script[i]]

\* What is waited for has been done before the main thread goes on.
Settled ==
    \A i \in Awaited :
        /\ Future(i) \in {"none", "pending", "value"}
        /\ i < next => Future(i) = "value"
        /\ i > next => Future(i) = "none"

\* Nothing is enqueued but the present step.
OneEnqueued ==
    \/ idle = << >>
    \/ /\ idle = <<Script[next]>> /\ next \in Awaited
       /\ Future(next) = "pending" /\ Script[next] \notin current

\* What is attached otherwise, or being called, has its promise to be kept.
Promises ==
    /\ \A c \in timed : future[c] = "pending"
    /\ \A c \in current : current = {c} /\ future[c] = "pending" /\ c \notin timed

LoopOf ==
    /\ object = IF next < 2 THEN "none"
                ELSE IF next = 2 THEN IF Future(2) = "none" THEN "none" ELSE "constructing"
                ELSE IF next < 20 THEN "alive"
                ELSE IF next = 20 /\ object = "alive" THEN "alive"
                ELSE IF next = 20 THEN "stopping"
                ELSE "stopped"
    /\ object = "none" => loop_thread = "none"
    /\ object = "stopped" => loop_thread = "ended"
    /\ current # {} => loop_thread = "looping"

\* The handlers and the object, from which of the steps have been done.
HandlersSet ==
    \A k \in 1 .. 6 :
        handler[HandlerOrder[k]] =
            IF next > 18 THEN "destroyed"
            ELSE IF Future(11 + k) = "value" THEN "null"
            ELSE IF Future(2 + k) = "value" THEN "daemon"
            ELSE IF k = 1 THEN "null" ELSE "empty"

ObjectThere == exported = (Future(9) = "value" /\ Future(19) # "value")

NameHeld == name = "ours" => next \in 11 .. 21

\* Nobody calls before the object is there.
CalledAfter == \A c \in Calls \cup Timers : future[c] # "none" => Future(9) = "value"

\* A handler is not set while it is being called.
CalledAsSet ==
    \A c \in current \cap (Calls \cup Timers) :
        reached[c] = "daemon" => handler[c.what] = "daemon"

LifeInv ==
    /\ TypeOK /\ Settled /\ OneEnqueued /\ Promises /\ LoopOf
    /\ HandlersSet /\ ObjectThere /\ NameHeld /\ CalledAfter /\ CalledAsSet
    /\ CallsReachDaemon

-----------------------------------------------------------------------------
(* The script *)

LEMMA HandlerNames ==
    /\ Handlers = {"capsLock", "block", "clearBlock", "pushBlock", "torch", "call"}
    /\ \A i \in 1 .. 6 : HandlerOrder[i] \in Handlers
    /\ \A h \in Handlers : \E k \in 1 .. 6 : h = HandlerOrder[k]
    /\ \A k, l \in 1 .. 6 : HandlerOrder[k] = HandlerOrder[l] => k = l
    /\ \A k \in 1 .. 6 : HandlerOrder[k] = "capsLock" <=> k = 1
    /\ "object" \notin Handlers /\ "torch" \in Handlers
<1>1. /\ HandlerOrder[1] = "capsLock" /\ HandlerOrder[2] = "block"
      /\ HandlerOrder[3] = "clearBlock" /\ HandlerOrder[4] = "pushBlock"
      /\ HandlerOrder[5] = "torch" /\ HandlerOrder[6] = "call"
  BY DEF HandlerOrder
<1>2. \A i \in 1 .. 6 : i \in {1, 2, 3, 4, 5, 6}
  OBVIOUS
<1>3. Handlers = {HandlerOrder[1], HandlerOrder[2], HandlerOrder[3], HandlerOrder[4],
                  HandlerOrder[5], HandlerOrder[6]}
  BY <1>2 DEF Handlers
<1>4. /\ Handlers = {"capsLock", "block", "clearBlock", "pushBlock", "torch", "call"}
      /\ "object" \notin Handlers /\ "torch" \in Handlers
  BY <1>1, <1>3
<1>5. \A i \in 1 .. 6 : HandlerOrder[i] \in Handlers
  BY DEF Handlers
<1>6. \A h \in Handlers : \E k \in 1 .. 6 : h = HandlerOrder[k]
  BY DEF Handlers
<1>7. \A k, l \in 1 .. 6 : HandlerOrder[k] = HandlerOrder[l] => k = l
  BY <1>1, <1>2
<1>8. \A k \in 1 .. 6 : HandlerOrder[k] = "capsLock" <=> k = 1
  BY <1>1, <1>2
<1> QED BY <1>4, <1>5, <1>6, <1>7, <1>8

\* What the main thread does, at each of its places.
LEMMA ScriptSteps ==
    /\ Len(Script) = 21
    /\ Script[1] = Step("connect", "bus") /\ Script[2] = Step("construct", "loop")
    /\ \A k \in 1 .. 6 : Script[2 + k] = Step("register", HandlerOrder[k])
    /\ Script[9] = Step("register", "object") /\ Script[10] = Step("request_name", "name")
    /\ Script[11] = Step("loop", "queue")
    /\ \A k \in 1 .. 6 : Script[11 + k] = Step("unregister", HandlerOrder[k])
    /\ Script[18] = Step("destroy", "handlers") /\ Script[19] = Step("unregister", "object")
    /\ Script[20] = Step("stop", "loop") /\ Script[21] = Step("close", "bus")
<1> DEFINE Each(do) == <<Step(do, HandlerOrder[1]), Step(do, HandlerOrder[2]),
                         Step(do, HandlerOrder[3]), Step(do, HandlerOrder[4]),
                         Step(do, HandlerOrder[5]), Step(do, HandlerOrder[6])>>
<1>1. ASSUME NEW do PROVE ForEach(do) = Each(do)
  BY DEF ForEach, HandlerOrder
<1>2. Script = (LEDsConstructor
                  \o (((Each("register") \o start_processing) \o <<Step("loop", "queue")>>)
                         \o Each("unregister")))
                 \o DestroyLEDs
  BY <1>1 DEF Script, run, register_event_handlers, DestroyRegistrations
<1> USE <1>2 DEF LEDsConstructor, start_processing, DestroyLEDs
<1>3. /\ Len(Script) = 21
      /\ Script[1] = Step("connect", "bus") /\ Script[2] = Step("construct", "loop")
      /\ Script[9] = Step("register", "object") /\ Script[10] = Step("request_name", "name")
      /\ Script[11] = Step("loop", "queue")
      /\ Script[18] = Step("destroy", "handlers") /\ Script[19] = Step("unregister", "object")
      /\ Script[20] = Step("stop", "loop") /\ Script[21] = Step("close", "bus")
  OBVIOUS
<1>4. \A k \in {1, 2, 3, 4, 5, 6} : /\ Script[2 + k] = Step("register", HandlerOrder[k])
                                    /\ Script[11 + k] = Step("unregister", HandlerOrder[k])
  <2>1. /\ Script[3] = Step("register", HandlerOrder[1])
        /\ Script[4] = Step("register", HandlerOrder[2])
        /\ Script[5] = Step("register", HandlerOrder[3])
        /\ Script[6] = Step("register", HandlerOrder[4])
        /\ Script[7] = Step("register", HandlerOrder[5])
        /\ Script[8] = Step("register", HandlerOrder[6])
        /\ Script[12] = Step("unregister", HandlerOrder[1])
        /\ Script[13] = Step("unregister", HandlerOrder[2])
        /\ Script[14] = Step("unregister", HandlerOrder[3])
        /\ Script[15] = Step("unregister", HandlerOrder[4])
        /\ Script[16] = Step("unregister", HandlerOrder[5])
        /\ Script[17] = Step("unregister", HandlerOrder[6])
    OBVIOUS
  <2> HIDE <1>2
  <2> QED BY <2>1
<1>5. \A k \in 1 .. 6 : k \in {1, 2, 3, 4, 5, 6}
  OBVIOUS
<1> HIDE <1>2
<1> QED BY <1>3, <1>4, <1>5

\* The callbacks that are not registrations: calls, and the ends of torches.
Sourced == Calls \cup Timers

LEMMA CallsDo ==
    /\ \A c \in Calls : c.do = "method" /\ c.what \in Handlers
    /\ \A c \in Timers : c.do = "timer" /\ c.what \in Handlers
    /\ \A c \in Sourced : c.do \in {"method", "timer"} /\ c.what \in Handlers
<1>1. \A c \in Calls : c.do = "method" /\ c.what \in Handlers
  BY CallsAssumption, Zenon
<1>2. \A c \in Timers : \E d \in Calls : c = Timer(d)
  BY Zenon DEF Timers
<1>3. \A d : Timer(d).do = "timer" /\ Timer(d).what \in Handlers
  BY HandlerNames DEF Timer
<1>4. \A c \in Timers : c.do = "timer" /\ c.what \in Handlers
  BY <1>2, <1>3, Zenon
<1> QED BY <1>1, <1>4, Zenon DEF Sourced

LEMMA AwaitedPlaces ==
    /\ Awaited \subseteq 2 .. 19
    /\ 2 \in Awaited /\ 9 \in Awaited /\ 19 \in Awaited
    /\ \A k \in 1 .. 6 : 2 + k \in Awaited /\ 11 + k \in Awaited
    /\ 1 \notin Awaited /\ 10 \notin Awaited /\ 11 \notin Awaited
    /\ 18 \notin Awaited
BY DEF Awaited

\* Those that the main thread waits for are told apart by their places.
LEMMA AwaitedSteps ==
    /\ \A i \in Awaited : /\ Script[i] \in Registering \cup {Step("construct", "loop")}
                          /\ Script[i] \notin Sourced
    /\ \A i, j \in Awaited : Script[i] = Script[j] => i = j
    /\ \A c \in Registering \cup {Step("construct", "loop")} : \E i \in Awaited : c = Script[i]
<1>1. \A i \in Awaited : \/ i = 2 \/ i = 9 \/ i = 19
                         \/ \E k \in 1 .. 6 : i = 2 + k
                         \/ \E k \in 1 .. 6 : i = 11 + k
  <2> SUFFICES ASSUME NEW i \in Awaited, i \notin {2, 9, 19},
                      ~ \E k \in 1 .. 6 : i = 11 + k
               PROVE  \E k \in 1 .. 6 : i = 2 + k
    OBVIOUS
  <2>1. i \in 3 .. 8 \/ i \in 12 .. 17
    BY DEF Awaited
  <2>2. i \in 12 .. 17 => i - 11 \in 1 .. 6 /\ i = 11 + (i - 11)
    OBVIOUS
  <2>3. i \in 3 .. 8 => i - 2 \in 1 .. 6 /\ i = 2 + (i - 2)
    OBVIOUS
  <2> QED BY <2>1, <2>2, <2>3
<1>2. /\ Script[2] = Step("construct", "loop")
      /\ Script[9] = Step("register", "object") /\ Script[19] = Step("unregister", "object")
      /\ \A k \in 1 .. 6 : /\ Script[2 + k] = Step("register", HandlerOrder[k])
                           /\ Script[11 + k] = Step("unregister", HandlerOrder[k])
  BY ScriptSteps
<1>3. \A k \in 1 .. 6 : HandlerOrder[k] \in Handlers
  BY HandlerNames
<1>4. ASSUME NEW i \in Awaited
      PROVE  Script[i] \in Registering \cup {Step("construct", "loop")}
  BY <1>1, <1>2, <1>3 DEF Registering
<1>6. \A c \in Registering \cup {Step("construct", "loop")} : c \notin Sourced
  <2>1. \A c \in Registering \cup {Step("construct", "loop")} : c.do \notin {"method", "timer"}
    BY DEF Registering, Step
  <2> QED BY <2>1, CallsDo
<1>7. ASSUME NEW i \in Awaited, NEW j \in Awaited, Script[i] = Script[j]
      PROVE  i = j
  <2>1. \A do, what, do2, what2 : Step(do, what) = Step(do2, what2) => do = do2 /\ what = what2
    BY DEF Step
  <2>2. \A k \in 1 .. 6 : HandlerOrder[k] # "object"
    BY HandlerNames
  <2>3. \A k, l \in 1 .. 6 : HandlerOrder[k] = HandlerOrder[l] => k = l
    BY HandlerNames
  <2>4. CASE i \in {2, 9, 19}
    BY <1>1, <1>2, <1>7, <2>1, <2>2, <2>4
  <2>5. CASE \E k \in 1 .. 6 : i = 2 + k
    BY <1>1, <1>2, <1>7, <2>1, <2>2, <2>3, <2>5
  <2>6. CASE \E k \in 1 .. 6 : i = 11 + k
    BY <1>1, <1>2, <1>7, <2>1, <2>2, <2>3, <2>6
  <2> QED BY <1>1, <2>4, <2>5, <2>6
<1>8. ASSUME NEW c \in Registering \cup {Step("construct", "loop")}
      PROVE  \E i \in Awaited : c = Script[i]
  <2>2. CASE c \in Registering
    <3>1. PICK do \in {"register", "unregister"}, what \in Handlers \cup {"object"} :
            c = Step(do, what)
      BY <2>2 DEF Registering
    <3>2. CASE what = "object"
      BY <1>2, <3>1, <3>2, AwaitedPlaces
    <3>3. CASE what \in Handlers
      <4>1. PICK k \in 1 .. 6 : what = HandlerOrder[k]
        BY <3>3, HandlerNames
      <4> QED BY <1>2, <3>1, <4>1, AwaitedPlaces
    <3> QED BY <3>2, <3>3
  <2>3. CASE c = Step("construct", "loop")
    BY <1>2, <2>3, AwaitedPlaces
  <2> QED BY <2>2, <2>3
<1> QED BY <1>4, <1>6, <1>7, <1>8

\* Where the main thread is, from what it does.
LEMMA Where ==
    ASSUME NEW i \in 1 .. 21
    PROVE  /\ Script[i].do = "connect" <=> i = 1
           /\ Script[i].do = "construct" <=> i = 2
           /\ Script[i].do = "request_name" <=> i = 10
           /\ Script[i].do = "loop" <=> i = 11
           /\ Script[i].do = "destroy" <=> i = 18
           /\ Script[i].do = "stop" <=> i = 20
           /\ Script[i].do = "close" <=> i = 21
           /\ Script[i].do = "register" <=> i \in 3 .. 9
           /\ Script[i].do = "unregister" <=> i \in 12 .. 17 \cup {19}
<1>1. \A do, what : Step(do, what).do = do
  BY DEF Step
<1>2. /\ i = 1 => Script[i].do = "connect"
      /\ i = 2 => Script[i].do = "construct"
      /\ i = 10 => Script[i].do = "request_name"
      /\ i = 11 => Script[i].do = "loop"
      /\ i = 18 => Script[i].do = "destroy"
      /\ i = 20 => Script[i].do = "stop"
      /\ i = 21 => Script[i].do = "close"
      /\ i = 9 => Script[i].do = "register"
      /\ i = 19 => Script[i].do = "unregister"
  BY <1>1, ScriptSteps
<1>3. ASSUME i \in 3 .. 8 PROVE Script[i].do = "register"
  <2>1. i - 2 \in 1 .. 6 /\ 2 + (i - 2) = i
    BY <1>3
  <2>2. Script[2 + (i - 2)] = Step("register", HandlerOrder[i - 2])
    BY <2>1, ScriptSteps
  <2> QED BY <1>1, <2>1, <2>2
<1>4. ASSUME i \in 12 .. 17 PROVE Script[i].do = "unregister"
  <2>1. i - 11 \in 1 .. 6 /\ 11 + (i - 11) = i
    BY <1>4
  <2>2. Script[11 + (i - 11)] = Step("unregister", HandlerOrder[i - 11])
    BY <2>1, ScriptSteps
  <2> QED BY <1>1, <2>1, <2>2
<1>5. \/ i \in 3 .. 8 \/ i \in 12 .. 17 \/ i \in {1, 2, 9, 10, 11, 18, 19, 20, 21}
  OBVIOUS
<1> QED BY <1>2, <1>3, <1>4, <1>5

LEMMA AtMeans ==
    ASSUME next \in 1 .. 22
    PROVE  /\ Over <=> terminated \/ next = 22
           /\ Past("loop") <=> next > 11
           /\ At("connect") => next = 1
           /\ At("construct") => next = 2
           /\ At("request_name") => next = 10
           /\ At("loop") => next = 11
           /\ At("destroy") => next = 18
           /\ At("stop") => next = 20
           /\ At("close") => next = 21
           /\ At("register") \/ At("unregister") => next \in Awaited \ {2}
<1>1. Len(Script) = 21 /\ (Over <=> terminated \/ next = 22)
  BY ScriptSteps DEF Over
<1>2. Past("loop") <=> next > 11
  BY <1>1, Where DEF Past
<1>3. \A do : At(do) => next \in 1 .. 21 /\ Script[next].do = do
  BY <1>1 DEF At
<1>4. At("register") \/ At("unregister") => next \in 3 .. 9 \cup 12 .. 17 \cup {19}
  BY <1>3, Where
<1>5. At("register") \/ At("unregister") => next \in Awaited \ {2}
  BY <1>4 DEF Awaited
<1> QED BY <1>1, <1>2, <1>3, <1>5, Where

LEMMA ReturnedMeans ==
    ASSUME next \in 1 .. 22
    PROVE  Returned <=> next >= 18
<1>1. Len(Script) = 21 /\ (Past("loop") <=> next > 11)
  BY ScriptSteps, AtMeans
<1>2. \A j \in 1 .. 6 : /\ DestroyRegistrations[j] = Step("unregister", HandlerOrder[j])
                        /\ Script[11 + j] = DestroyRegistrations[j]
  BY ScriptSteps DEF DestroyRegistrations, ForEach
<1>3. ASSUME next > 11, next < 18 PROVE ~ Returned
  <2>1. next - 11 \in 1 .. 6 /\ 11 + (next - 11) = next /\ next \in 1 .. 21 /\ next >= next
    BY <1>3
  <2>2. Script[next] = DestroyRegistrations[next - 11]
    BY <1>2, <2>1
  <2> QED BY <1>1, <2>1, <2>2 DEF Returned
<1>4. ASSUME next >= 18 PROVE Returned
  <2>1. SUFFICES ASSUME NEW i \in 1 .. 21, i >= next, NEW j \in 1 .. 6,
                        Script[i] = DestroyRegistrations[j]
                 PROVE  FALSE
    BY <1>1, <1>4 DEF Returned
  <2>2. CASE i = 19
    <3>1. Script[19] = Step("unregister", "object") /\ HandlerOrder[j] # "object"
      BY ScriptSteps, HandlerNames
    <3> QED BY <1>2, <2>1, <2>2, <3>1 DEF Step
  <2>3. CASE i \in {18, 20, 21}
    <3>1. Script[i].do # "unregister"
      BY <2>3, Where
    <3> QED BY <1>2, <2>1, <3>1 DEF Step
  <2> QED BY <1>4, <2>1, <2>2, <2>3
<1> QED BY <1>1, <1>3, <1>4 DEF Returned

\* What the loop is given, and what its types say.
Given == Sourced \cup Registering \cup {Step("construct", "loop")}

LEMMA LoopTypes ==
    /\ Loop!TypeOK <=>
         /\ object \in {"none", "constructing", "alive", "stopping", "stopped"}
         /\ loop_thread \in {"none", "starting", "looping", "ended"}
         /\ is_running \in BOOLEAN
         /\ idle \in Seq(Given \ Sourced) /\ enqueued \in Seq(Given \ Sourced)
         /\ timed \subseteq Sourced
         /\ current \subseteq Given
         /\ future \in [Given -> {"none", "pending", "value", "exception", "broken"}]
    /\ Sourced \subseteq Given
    /\ \A i \in Awaited : Script[i] \in Given \ Sourced
    /\ \A c \in Given \ Sourced : \E i \in Awaited : c = Script[i]
<1>1. \A i \in Awaited : Script[i] \in Given \ Sourced
  BY AwaitedSteps DEF Given
<1>2. \A c \in Given \ Sourced : \E i \in Awaited : c = Script[i]
  BY AwaitedSteps DEF Given
<1>3. Given = Calls \cup Timers \cup Registering \cup {Step("construct", "loop")}
  BY DEF Given, Sourced
<1>4. Sourced = Calls \cup Timers
  BY DEF Sourced
<1> QED BY <1>1, <1>2, <1>3, <1>4, Zenon DEF Loop!TypeOK

-----------------------------------------------------------------------------
(* The inductive invariant *)

LEMMA InitLifeInv == Init => LifeInv
<1> SUFFICES ASSUME Init PROVE LifeInv
  OBVIOUS
<1>1. /\ object = "none" /\ loop_thread = "none" /\ is_running = FALSE
      /\ idle = << >> /\ timed = {} /\ current = {} /\ enqueued = << >>
      /\ future = [c \in Given |-> "none"]
  BY DEF Init, Loop!Init, Given, Sourced
<1>2. \A c \in Given : future[c] = "none"
  BY <1>1
<1>3. \A i \in Awaited : Future(i) = "none"
  BY <1>2, LoopTypes DEF Future
<1>5. << >> \in Seq(Given \ Sourced)
  OBVIOUS
<1>6. Loop!TypeOK
  BY <1>1, <1>5, LoopTypes
<1>7. TypeOK
  <2>1. next \in 1 .. Len(Script) + 1
    BY ScriptSteps DEF Init
  <2>2. handler \in [Handlers -> Kinds] /\ reached \in [Calls \cup Timers -> Kinds]
    BY DEF Init, Kinds
  <2> QED BY <1>6, <2>1, <2>2 DEF Init, TypeOK
<1>8. Settled /\ OneEnqueued /\ Promises /\ LoopOf
  BY <1>1, <1>3 DEF Init, Settled, OneEnqueued, Promises, LoopOf, Awaited
<1>9. HandlersSet /\ ObjectThere /\ NameHeld
  <2>1. ASSUME NEW k \in 1 .. 6
        PROVE  handler[HandlerOrder[k]] = IF k = 1 THEN "null" ELSE "empty"
    BY HandlerNames DEF Init
  <2>2. HandlersSet
    BY <1>3, AwaitedPlaces, <2>1 DEF Init, HandlersSet
  <2> QED BY <1>3, AwaitedPlaces, <2>2 DEF Init, ObjectThere, NameHeld
<1>10. CalledAfter /\ CalledAsSet /\ CallsReachDaemon
  <2>1. CalledAfter
    BY <1>2, LoopTypes DEF CalledAfter, Sourced
  <2> QED BY <1>1, <2>1 DEF Init, CalledAsSet, CallsReachDaemon
<1> QED BY <1>7, <1>8, <1>9, <1>10 DEF LifeInv

\* A step of the main thread alone: what it has waited for is not changed.
LEMMA MainGoes ==
    ASSUME LifeInv, Goes, UNCHANGED <<loopVars, handler, exported, reached>>,
           next \in Awaited => Future(next) = "value",
           next \notin {2, 18, 20, 21}, next <= 21,
           name' = "ours" => next' \in 11 .. 21, name' \in {"free", "other", "ours"},
           terminated' \in BOOLEAN
    PROVE  LifeInv'
<1>1. /\ next \in 1 .. 21 /\ next' = next + 1 /\ next' \in 1 .. 22
      /\ UNCHANGED <<object, loop_thread, is_running, idle, timed, current, future,
                     enqueued, handler, exported, reached>>
  BY ScriptSteps DEF LifeInv, TypeOK, Goes, loopVars
<1>2. TypeOK'
  BY <1>1, ScriptSteps, LoopTypes DEF LifeInv, TypeOK, Loop!TypeOK
<1>3. Settled'
  BY <1>1, AwaitedPlaces DEF LifeInv, Settled, Future
<1>4. OneEnqueued'
  BY <1>1 DEF LifeInv, OneEnqueued, Future
<1>5. Promises' /\ CalledAfter' /\ CalledAsSet'
  BY <1>1 DEF LifeInv, Promises, CalledAfter, CalledAsSet, Future
<1>6. LoopOf'
  <2>1. Future(2)' = Future(2) /\ (next = 1 => Future(2) = "none")
    BY <1>1, AwaitedPlaces DEF LifeInv, Settled, Future
  <2> QED BY <1>1, <2>1 DEF LifeInv, LoopOf
<1>7. HandlersSet' /\ ObjectThere' /\ NameHeld'
  BY <1>1 DEF LifeInv, HandlersSet, ObjectThere, NameHeld, Future
<1>8. CallsReachDaemon'
  <2>1. (Past("loop") => Past("loop")')
    BY <1>1 DEF Past
  <2> QED BY <1>1, <2>1 DEF LifeInv, CallsReachDaemon
<1> QED BY <1>2, <1>3, <1>4, <1>5, <1>6, <1>7, <1>8 DEF LifeInv

\* A step that changes no more than who owns the name, or ends the process.
LEMMA NothingGoes ==
    ASSUME LifeInv, UNCHANGED <<loopVars, next, handler, exported, reached>>,
           name' = "ours" => name = "ours", name' \in {"free", "other", "ours"},
           terminated' \in BOOLEAN
    PROVE  LifeInv'
<1>1. /\ UNCHANGED <<object, loop_thread, is_running, idle, timed, current, future,
                     enqueued, next, handler, exported, reached>>
  BY DEF loopVars
<1>2. TypeOK'
  BY <1>1, LoopTypes DEF LifeInv, TypeOK, Loop!TypeOK
<1>3. Settled' /\ OneEnqueued'
  BY <1>1 DEF LifeInv, Settled, OneEnqueued, Future
<1>4. Promises' /\ CalledAfter' /\ CalledAsSet'
  BY <1>1 DEF LifeInv, Promises, CalledAfter, CalledAsSet, Future
<1>5. LoopOf' /\ HandlersSet' /\ ObjectThere' /\ NameHeld'
  BY <1>1 DEF LifeInv, LoopOf, HandlersSet, ObjectThere, NameHeld, Future
<1>6. CallsReachDaemon'
  BY <1>1 DEF LifeInv, CallsReachDaemon, Past
<1> QED BY <1>2, <1>3, <1>4, <1>5, <1>6 DEF LifeInv

LEMMA Bounds == LifeInv => next \in 1 .. 22 /\ name \in {"free", "other", "ours"}
                           /\ terminated \in BOOLEAN
BY ScriptSteps DEF LifeInv, TypeOK

\* Where the main thread is told by what it does; the rest is MainGoes.
LEMMA MainKeeps ==
    ASSUME LifeInv, ~ Over, Connect \/ Wait \/ request_name \/ LeaveLoop
    PROVE  LifeInv'
<1> USE Bounds, AwaitedPlaces
<1>1. next \in 1 .. 21
  BY AtMeans
<1>2. CASE Connect
  <2>1. next = 1 /\ name # "ours"
    BY <1>2, AtMeans DEF Connect, LifeInv, NameHeld
  <2>2. CASE Goes /\ UNCHANGED terminated
    BY <1>2, <2>1, <2>2, MainGoes DEF Connect
  <2>3. CASE terminated' = TRUE /\ UNCHANGED next
    BY <1>2, <2>3, NothingGoes DEF Connect
  <2> QED BY <1>2, <2>2, <2>3 DEF Connect
<1>3. CASE Wait
  <2>1. next \in Awaited \ {2}
    BY <1>3, AtMeans DEF Wait
  <2>2. Future(next) = "value"
    BY <1>3, <2>1 DEF Wait, LifeInv, Settled, Future
  <2>3. name = "ours" => next + 1 \in 11 .. 21
    BY <2>1 DEF LifeInv, NameHeld
  <2> QED BY <1>1, <1>3, <2>1, <2>2, <2>3, MainGoes DEF Wait, membersSame, Goes
<1>4. CASE request_name
  <2>1. next = 10
    BY <1>4, AtMeans DEF request_name
  <2>2. CASE name' = "ours" /\ Goes /\ UNCHANGED terminated
    BY <1>4, <2>1, <2>2, MainGoes DEF request_name, Goes
  <2>3. CASE terminated' = TRUE /\ UNCHANGED <<name, next>>
    BY <1>4, <2>3, NothingGoes DEF request_name
  <2> QED BY <1>4, <2>2, <2>3 DEF request_name
<1>5. CASE LeaveLoop
  <2>1. next = 11
    BY <1>5, AtMeans DEF LeaveLoop
  <2> QED BY <1>5, <2>1, MainGoes DEF LeaveLoop, membersSame, Goes
<1> QED BY <1>2, <1>3, <1>4, <1>5

\* What is set, from where the main thread is.
LEMMA SetSoFar ==
    ASSUME LifeInv
    PROVE  /\ next > 9 => Future(9) = "value"
           /\ Future(9) # "none" => next >= 9
           /\ next < 19 => Future(19) = "none"
           /\ next > 19 => Future(19) = "value"
           /\ \A k \in 1 .. 6 : /\ next >= 9 => Future(2 + k) = "value"
                                /\ next <= 11 => Future(11 + k) = "none"
                                /\ next >= 18 => Future(11 + k) = "value"
<1>1. \A i \in Awaited : /\ i < next => Future(i) = "value"
                         /\ i > next => Future(i) = "none"
  BY DEF LifeInv, Settled
<1>2. 9 \in Awaited /\ 19 \in Awaited
      /\ \A k \in 1 .. 6 : 2 + k \in Awaited /\ 11 + k \in Awaited
  BY AwaitedPlaces
<1>3. next \in 1 .. 22
  BY Bounds
<1>4. ASSUME NEW k \in 1 .. 6
      PROVE  /\ next >= 9 => Future(2 + k) = "value"
             /\ next <= 11 => Future(11 + k) = "none"
             /\ next >= 18 => Future(11 + k) = "value"
  BY <1>1, <1>2, <1>3
<1> QED BY <1>1, <1>2, <1>3, <1>4

LEMMA DestroyHandlersKeeps ==
    ASSUME LifeInv, ~ Over, DestroyHandlers
    PROVE  LifeInv'
<1>1. /\ next = 18 /\ next' = 19
      /\ handler' = [h \in Handlers |-> "destroyed"]
      /\ UNCHANGED <<object, loop_thread, is_running, idle, timed, current, future,
                     enqueued, exported, name, terminated, reached>>
  BY Bounds, AtMeans DEF DestroyHandlers, Goes, loopVars
<1> USE AwaitedPlaces
<1>2. TypeOK'
  <2>1. handler' \in [Handlers -> Kinds]
    BY <1>1 DEF Kinds
  <2>2. Loop!TypeOK'
    BY <1>1 DEF LifeInv, TypeOK, Loop!TypeOK
  <2> QED BY <1>1, <2>1, <2>2, ScriptSteps DEF LifeInv, TypeOK
<1>3. Settled' /\ OneEnqueued'
  BY <1>1 DEF LifeInv, Settled, OneEnqueued, Future
<1>4. Promises' /\ CalledAfter'
  BY <1>1 DEF LifeInv, Promises, CalledAfter, Future
<1>5. CalledAsSet'
  <2> SUFFICES ASSUME NEW c \in current \cap Sourced, reached[c] = "daemon" PROVE FALSE
    BY <1>1 DEF CalledAsSet, Sourced
  <2>1. handler[c.what] = "daemon" /\ c.what \in Handlers
    BY CallsDo DEF LifeInv, CalledAsSet, Sourced
  <2>2. PICK k \in 1 .. 6 : c.what = HandlerOrder[k]
    BY <2>1, HandlerNames
  <2>3. handler[HandlerOrder[k]] = "null"
    BY <1>1, SetSoFar DEF LifeInv, HandlersSet
  <2> QED BY <2>1, <2>2, <2>3
<1>6. LoopOf'
  BY <1>1 DEF LifeInv, LoopOf
<1>7. HandlersSet' /\ ObjectThere' /\ NameHeld'
  BY <1>1, HandlerNames DEF LifeInv, HandlersSet, ObjectThere, NameHeld, Future
<1>8. CallsReachDaemon'
  <2>1. Past("loop")'
    BY <1>1, ScriptSteps, Where DEF Past
  <2> QED BY <2>1 DEF CallsReachDaemon
<1> QED BY <1>2, <1>3, <1>4, <1>5, <1>6, <1>7, <1>8 DEF LifeInv

\* The promise of what is given to the loop, and of no other.
Results == {"none", "pending", "value", "exception", "broken"}

LEMMA FutureSet ==
    ASSUME future \in [Given -> Results], NEW c \in Given, NEW result \in Results,
           future' = [future EXCEPT ![c] = result]
    PROVE  /\ future' \in [Given -> Results]
           /\ future'[c] = result
           /\ \A d \in Given : d # c => future'[d] = future[d]
OBVIOUS

\* The future of one step of the main thread is set.
LEMMA AwaitedSet ==
    ASSUME future \in [Given -> Results], NEW i \in Awaited, NEW result \in Results,
           future' = [future EXCEPT ![Script[i]] = result]
    PROVE  /\ future' \in [Given -> Results]
           /\ Future(i)' = result
           /\ \A j \in Awaited : j # i => Future(j)' = Future(j)
           /\ \A c \in Sourced : future'[c] = future[c]
<1>1. Script[i] \in Given /\ Sourced \subseteq Given
  BY LoopTypes
<1>2. /\ future' \in [Given -> Results] /\ future'[Script[i]] = result
      /\ \A d \in Given : d # Script[i] => future'[d] = future[d]
  BY <1>1, FutureSet
<1>3. \A j \in Awaited : j # i => Script[j] \in Given /\ Script[j] # Script[i]
  BY LoopTypes, AwaitedSteps
<1>4. \A c \in Sourced : c \in Given /\ c # Script[i]
  BY <1>1, AwaitedSteps
<1> QED BY <1>2, <1>3, <1>4 DEF Future

\* The future of a call, or of a torch's end, is set.
LEMMA SourcedSet ==
    ASSUME future \in [Given -> Results], NEW c \in Sourced, NEW result \in Results,
           future' = [future EXCEPT ![c] = result]
    PROVE  /\ future' \in [Given -> Results]
           /\ future'[c] = result
           /\ \A d \in Sourced : d # c => future'[d] = future[d]
           /\ \A i \in Awaited : Future(i)' = Future(i)
<1>1. c \in Given /\ Sourced \subseteq Given
  BY LoopTypes
<1>2. /\ future' \in [Given -> Results] /\ future'[c] = result
      /\ \A d \in Given : d # c => future'[d] = future[d]
  BY <1>1, FutureSet
<1>3. \A i \in Awaited : Script[i] \in Given /\ Script[i] # c
  BY LoopTypes, AwaitedSteps
<1> QED BY <1>1, <1>2, <1>3 DEF Future

LEMMA FutureType == LifeInv => future \in [Given -> Results]
BY LoopTypes DEF LifeInv, TypeOK, Results

\* What the conjuncts about the main thread's progress say of it.
LEMMA ProgressKept ==
    ASSUME LifeInv, \A i \in Awaited : Future(i)' = Future(i),
           UNCHANGED <<next, handler, exported, name>>
    PROVE  Settled' /\ HandlersSet' /\ ObjectThere' /\ NameHeld'
<1>1. Settled' /\ NameHeld'
  BY DEF LifeInv, Settled, NameHeld
<1> USE AwaitedPlaces
<1>2. HandlersSet'
  BY DEF LifeInv, HandlersSet
<1>3. ObjectThere'
  BY DEF LifeInv, ObjectThere
<1> QED BY <1>1, <1>2, <1>3

LEMMA CallsKept ==
    ASSUME LifeInv, UNCHANGED <<next, reached>>
    PROVE  CallsReachDaemon'
BY DEF LifeInv, CallsReachDaemon, Past

\* One step of the main thread is given to the loop.
LEMMA GivenKeeps ==
    ASSUME LifeInv, next \in Awaited, Future(next) = "none",
           future' = [future EXCEPT ![Script[next]] = "pending"],
           idle' = <<Script[next]>>,
           enqueued' \in Seq(Given \ Sourced), object' \in {"constructing", "alive"},
           loop_thread' \in {"none", "starting", "looping", "ended"}, LoopOf',
           UNCHANGED <<is_running, timed, current, next, handler, exported, name,
                       terminated, reached>>
    PROVE  LifeInv'
<1> USE AwaitedPlaces
<1>1. /\ future' \in [Given -> Results]
      /\ Future(next)' = "pending"
      /\ \A j \in Awaited : j # next => Future(j)' = Future(j)
      /\ \A c \in Sourced : future'[c] = future[c]
  <2>1. PICK i \in Awaited : i = next
    OBVIOUS
  <2>2. future \in [Given -> Results] /\ "pending" \in Results
    BY FutureType DEF Results
  <2>3. future' = [future EXCEPT ![Script[i]] = "pending"]
    BY <2>1
  <2>4. /\ future' \in [Given -> Results]
        /\ Future(i)' = "pending"
        /\ \A j \in Awaited : j # i => Future(j)' = Future(j)
        /\ \A c \in Sourced : future'[c] = future[c]
    BY <2>2, <2>3, AwaitedSet
  <2>5. Future(next)' = Future(i)'
    BY <2>1 DEF Future
  <2> QED BY <2>1, <2>4, <2>5
<1>2. Script[next] \in Given \ Sourced
  BY LoopTypes
<1>3. TypeOK'
  <2>1. idle' \in Seq(Given \ Sourced)
    BY <1>2
  <2>2. Loop!TypeOK
    BY DEF LifeInv, TypeOK
  <2>3. Loop!TypeOK'
    BY <1>1, <2>1, <2>2, LoopTypes DEF Results, Loop!TypeOK, Given, Sourced
  <2> QED BY <2>3 DEF LifeInv, TypeOK
<1>4. Settled'
  BY <1>1, Bounds DEF LifeInv, Settled
<1>5. \A c \in current : c # Script[next]
  BY DEF LifeInv, Promises, Future
<1>6. OneEnqueued'
  BY <1>1, <1>5 DEF OneEnqueued, Future
<1>7. Promises'
  <2>1. \A c \in timed : future'[c] = "pending" /\ c \in Sourced
    BY <1>1, LoopTypes DEF LifeInv, TypeOK, Promises
  <2>2. \A c \in current : future'[c] = future[c]
    <3>1. current \subseteq Given /\ Script[next] \in Given
      BY LoopTypes DEF LifeInv, TypeOK
    <3> QED BY <1>5, <3>1, FutureType DEF Results
  <2> QED BY <2>1, <2>2 DEF LifeInv, Promises
<1>8. \A i \in Awaited : Future(i)' = "value" <=> Future(i) = "value"
  BY <1>1
<1>9. HandlersSet' /\ ObjectThere' /\ NameHeld'
  BY <1>8 DEF LifeInv, HandlersSet, ObjectThere, NameHeld
<1>10. CalledAfter' /\ CalledAsSet' /\ CallsReachDaemon'
  <2>1. CalledAfter'
    BY <1>1, <1>8 DEF LifeInv, CalledAfter, Sourced
  <2>2. CalledAsSet'
    BY DEF LifeInv, CalledAsSet
  <2> QED BY <2>1, <2>2, CallsKept
<1> QED BY <1>3, <1>4, <1>6, <1>7, <1>9, <1>10 DEF LifeInv

LEMMA EnqueueKeeps ==
    ASSUME LifeInv, ~ Over, Enqueue
    PROVE  LifeInv'
<1>1. next \in Awaited \ {2} /\ next \in 1 .. 19
  BY Bounds, AtMeans, AwaitedPlaces DEF Enqueue
<1>2. /\ future[Script[next]] = "none"
      /\ future' = [future EXCEPT ![Script[next]] = "pending"]
      /\ idle' = IF object = "stopped" THEN idle ELSE Append(idle, Script[next])
      /\ enqueued' = Append(enqueued, Script[next])
      /\ UNCHANGED <<object, loop_thread, is_running, timed, current>>
      /\ UNCHANGED <<next, handler, exported, name, terminated, reached>>
  BY DEF Enqueue, Loop!enqueue, Loop!Promised, membersSame
<1>3. object = "alive" /\ loop_thread \in {"none", "starting", "looping", "ended"}
  <2>1. 2 \in Awaited /\ next > 2 /\ next < 20
    BY <1>1, AwaitedPlaces
  <2>2. object = "alive"
    BY <1>1, <2>1 DEF LifeInv, LoopOf
  <2> QED BY <2>2, LoopTypes DEF LifeInv, TypeOK
<1>4. idle = << >>
  BY <1>2 DEF LifeInv, OneEnqueued, Future
<1>5. Script[next] \in Given \ Sourced
  BY <1>1, LoopTypes
<1>6. idle' = <<Script[next]>>
  BY <1>2, <1>3, <1>4, <1>5
<1>7. enqueued' \in Seq(Given \ Sourced)
  <2>1. enqueued \in Seq(Given \ Sourced)
    BY LoopTypes DEF LifeInv, TypeOK
  <2> QED BY <1>2, <1>5, <2>1
<1>8. LoopOf'
  BY <1>1, <1>2, <1>3 DEF LifeInv, LoopOf
<1> QED BY <1>1, <1>2, <1>3, <1>6, <1>7, <1>8, GivenKeeps DEF Future

LEMMA ConstructLoopKeeps ==
    ASSUME LifeInv, ~ Over, ConstructLoop
    PROVE  LifeInv'
<1>1. next = 2 /\ 2 \in Awaited /\ Script[2] = Step("construct", "loop")
  BY Bounds, AtMeans, AwaitedPlaces, ScriptSteps DEF ConstructLoop
<1>2. CASE Loop!Construct /\ UNCHANGED next
  <2>1. /\ object = "none" /\ object' = "constructing" /\ loop_thread' = "starting"
        /\ future[Script[2]] = "none"
        /\ future' = [future EXCEPT ![Script[2]] = "pending"]
        /\ idle' = <<Script[2]>> /\ enqueued' = <<Script[2]>>
        /\ UNCHANGED <<is_running, timed, current>>
        /\ UNCHANGED <<next, handler, exported, name, terminated, reached>>
    BY <1>1, <1>2 DEF ConstructLoop, Loop!Construct, Loop!Promised, membersSame
  <2>2. Script[2] \in Given \ Sourced
    BY <1>1, LoopTypes
  <2>3. enqueued' \in Seq(Given \ Sourced)
    BY <2>1, <2>2
  <2>4. current = {}
    BY <2>1 DEF LifeInv, LoopOf
  <2>5. Future(2)' = "pending"
    BY <1>1, <2>1, AwaitedSet, FutureType DEF Results
  <2>6. LoopOf'
    BY <1>1, <2>1, <2>4, <2>5 DEF LoopOf
  <2> QED BY <1>1, <2>1, <2>3, <2>6, GivenKeeps DEF Future
<1>3. CASE Loop!ConstructorReturns /\ Goes
  <2>1. /\ object = "constructing" /\ object' = "alive" /\ future[Script[2]] # "pending"
        /\ next' = 3
        /\ UNCHANGED <<loop_thread, is_running, idle, timed, current, future, enqueued>>
        /\ UNCHANGED <<handler, exported, name, terminated, reached>>
    BY <1>1, <1>3 DEF ConstructLoop, Loop!ConstructorReturns, Goes, membersSame
  <2>2. Future(2) = "value"
    BY <1>1, <2>1 DEF LifeInv, LoopOf, Settled, Future
  <2>3. idle = << >>
    BY <1>1, <2>2 DEF LifeInv, OneEnqueued
  <2>4. TypeOK'
    <3>1. Loop!TypeOK
      BY DEF LifeInv, TypeOK
    <3>2. Loop!TypeOK'
      BY <2>1, <3>1 DEF Loop!TypeOK
    <3>3. next' \in 1 .. Len(Script) + 1
      BY <2>1, ScriptSteps
    <3> QED BY <2>1, <3>2, <3>3 DEF LifeInv, TypeOK
  <2>5. \A i \in Awaited : Future(i)' = Future(i)
    BY <2>1 DEF Future
  <2>6. Settled'
    BY <1>1, <2>1, <2>2, <2>5, AwaitedPlaces DEF LifeInv, Settled
  <2>7. OneEnqueued' /\ Promises' /\ CalledAsSet'
    BY <2>1, <2>3 DEF LifeInv, OneEnqueued, Promises, CalledAsSet
  <2>8. LoopOf'
    BY <2>1 DEF LifeInv, LoopOf
  <2>9. HandlersSet' /\ ObjectThere' /\ CalledAfter'
    BY <1>1, <2>1 DEF LifeInv, HandlersSet, ObjectThere, CalledAfter, Future
  <2>10. NameHeld'
    BY <1>1, <2>1 DEF LifeInv, NameHeld
  <2>11. CallsReachDaemon'
    <3>1. ~ Past("loop")
      BY <1>1, AtMeans
    <3> QED BY <2>1, <3>1 DEF LifeInv, CallsReachDaemon
  <2> QED BY <2>4, <2>6, <2>7, <2>8, <2>9, <2>10, <2>11 DEF LifeInv
<1> QED BY <1>2, <1>3 DEF ConstructLoop

LEMMA StopLoopKeeps ==
    ASSUME LifeInv, ~ Over, StopLoop
    PROVE  LifeInv'
<1>1. next = 20 /\ next \notin Awaited
  BY Bounds, AtMeans, AwaitedPlaces DEF StopLoop
<1>2. idle = << >>
  BY <1>1 DEF LifeInv, OneEnqueued
<1>3. Loop!TypeOK
  BY DEF LifeInv, TypeOK
<1>4. Past("loop")
  BY <1>1, AtMeans
<1>5. CASE Loop!Quit /\ UNCHANGED next
  <2>1. /\ object = "alive" /\ object' = "stopping" /\ is_running' = FALSE
        /\ UNCHANGED <<loop_thread, idle, timed, current, future, enqueued>>
        /\ UNCHANGED <<next, handler, exported, name, terminated, reached>>
    BY <1>5 DEF StopLoop, Loop!Quit, membersSame
  <2>2. Loop!TypeOK'
    BY <1>3, <2>1 DEF Loop!TypeOK
  <2>3. TypeOK'
    BY <2>1, <2>2 DEF LifeInv, TypeOK
  <2>4. \A i \in Awaited : Future(i)' = Future(i)
    BY <2>1 DEF Future
  <2>5. Settled' /\ HandlersSet' /\ ObjectThere' /\ NameHeld'
    BY <2>1, <2>4, ProgressKept
  <2>6. OneEnqueued' /\ Promises' /\ CalledAsSet' /\ CallsReachDaemon'
    BY <1>2, <2>1, CallsKept DEF LifeInv, OneEnqueued, Promises, CalledAsSet
  <2>7. LoopOf'
    BY <1>1, <2>1 DEF LifeInv, LoopOf
  <2>8. CalledAfter'
    BY <2>1, <2>4, AwaitedPlaces DEF LifeInv, CalledAfter
  <2> QED BY <2>3, <2>5, <2>6, <2>7, <2>8 DEF LifeInv
<1>6. CASE Loop!Free /\ Goes
  <2>1. /\ object = "stopping" /\ loop_thread = "ended" /\ object' = "stopped"
        /\ idle' = << >> /\ timed' = {} /\ next' = 21
        /\ future' = [c \in Given |-> IF c \in Loop!Attached THEN "broken" ELSE future[c]]
        /\ UNCHANGED <<loop_thread, is_running, current, enqueued>>
        /\ UNCHANGED <<handler, exported, name, terminated, reached>>
    BY <1>1, <1>6 DEF StopLoop, Loop!Free, Goes, membersSame, Given, Sourced
  <2>2. Loop!Attached \subseteq timed /\ timed \subseteq Sourced
    BY <1>2, <1>3, LoopTypes DEF Loop!Attached
  <2>3. \A c \in Given : /\ c \notin timed => future'[c] = future[c]
                         /\ c \in timed => future'[c] \in {future[c], "broken"}
    BY <2>1, <2>2
  <2>4. current = {}
    BY <2>1 DEF LifeInv, LoopOf
  <2>5. TypeOK'
    <3>1. future' \in [Given -> Results]
      BY <2>1, FutureType DEF Results
    <3>2. << >> \in Seq(Given \ Sourced)
      OBVIOUS
    <3>3. Loop!TypeOK'
      BY <1>3, <2>1, <3>1, <3>2, LoopTypes DEF Loop!TypeOK, Given, Sourced, Results
    <3>4. next' \in 1 .. Len(Script) + 1
      BY <2>1, ScriptSteps
    <3> QED BY <2>1, <3>3, <3>4 DEF LifeInv, TypeOK
  <2>6. \A i \in Awaited : Future(i)' = Future(i)
    <3>1. \A i \in Awaited : Script[i] \in Given /\ Script[i] \notin timed
      BY <2>2, LoopTypes
    <3> QED BY <2>3, <3>1 DEF Future
  <2>7. Settled'
    BY <1>1, <2>1, <2>6, AwaitedPlaces DEF LifeInv, Settled
  <2>8. OneEnqueued' /\ Promises' /\ CalledAsSet'
    BY <2>1, <2>4 DEF OneEnqueued, Promises, CalledAsSet
  <2>9. LoopOf'
    BY <2>1, <2>4 DEF LifeInv, LoopOf
  <2>10. HandlersSet' /\ ObjectThere' /\ NameHeld'
    BY <1>1, <2>1, <2>6, AwaitedPlaces DEF LifeInv, HandlersSet, ObjectThere, NameHeld
  <2>11. CalledAfter'
    <3>1. \A c \in Sourced : future'[c] # "none" => future[c] # "none"
      BY <2>3, LoopTypes DEF LifeInv, Promises
    <3> QED BY <2>6, <3>1, AwaitedPlaces DEF LifeInv, CalledAfter, Sourced
  <2>12. CallsReachDaemon'
    <3>1. Past("loop")'
      BY <2>1, ScriptSteps, Where DEF Past
    <3> QED BY <3>1 DEF CallsReachDaemon
  <2> QED BY <2>5, <2>7, <2>8, <2>9, <2>10, <2>11, <2>12 DEF LifeInv
<1> QED BY <1>5, <1>6 DEF StopLoop

LEMMA CloseConnectionKeeps ==
    ASSUME LifeInv, ~ Over, CloseConnection
    PROVE  LifeInv'
<1>1. /\ next = 21 /\ next' = 22 /\ name' = "free"
      /\ UNCHANGED <<object, loop_thread, is_running, idle, timed, current, future,
                     enqueued, handler, exported, terminated, reached>>
  BY Bounds, AtMeans DEF CloseConnection, Goes, loopVars
<1>2. TypeOK'
  <2>1. Loop!TypeOK'
    BY <1>1 DEF LifeInv, TypeOK, Loop!TypeOK
  <2>2. next' \in 1 .. Len(Script) + 1
    BY <1>1, ScriptSteps
  <2> QED BY <1>1, <2>1, <2>2 DEF LifeInv, TypeOK
<1>3. \A i \in Awaited : Future(i)' = Future(i)
  BY <1>1 DEF Future
<1>4. Settled' /\ OneEnqueued'
  BY <1>1, <1>3, AwaitedPlaces DEF LifeInv, Settled, OneEnqueued
<1>5. Promises' /\ LoopOf' /\ CalledAsSet'
  BY <1>1 DEF LifeInv, Promises, LoopOf, CalledAsSet
<1>6. HandlersSet' /\ ObjectThere' /\ NameHeld' /\ CalledAfter'
  BY <1>1, <1>3, AwaitedPlaces
     DEF LifeInv, HandlersSet, ObjectThere, NameHeld, CalledAfter
<1>7. CallsReachDaemon'
  <2>1. Past("loop")'
    BY <1>1, ScriptSteps, Where DEF Past
  <2> QED BY <2>1 DEF CallsReachDaemon
<1> QED BY <1>2, <1>4, <1>5, <1>6, <1>7 DEF LifeInv

\* What is called of the main thread's is the step it waits for.
LEMMA DoneIsNext ==
    ASSUME LifeInv, NEW c \in current, c \notin Sourced
    PROVE  /\ next \in Awaited /\ c = Script[next] /\ Future(next) = "pending"
           /\ idle = << >> /\ current = {c}
<1>1. c \in Given \ Sourced
  BY LoopTypes DEF LifeInv, TypeOK
<1>2. PICK i \in Awaited : c = Script[i]
  BY <1>1, LoopTypes
<1>3. current = {c} /\ Future(i) = "pending"
  BY <1>2 DEF LifeInv, Promises, Future
<1>4. i = next
  BY <1>2, <1>3, Bounds, AwaitedPlaces DEF LifeInv, Settled
<1>5. idle = << >>
  BY <1>2, <1>4 DEF LifeInv, OneEnqueued
<1> QED BY <1>2, <1>3, <1>4, <1>5

\* The step that the main thread waits for has been done.
LEMMA DoneKeeps ==
    ASSUME LifeInv, NEW c \in current, c \notin Sourced, Loop!Finish(c, "value"),
           handler' \in [Handlers -> Kinds], exported' \in BOOLEAN,
           HandlersSet', ObjectThere',
           UNCHANGED <<next, name, terminated, reached>>
    PROVE  LifeInv'
<1>1. /\ next \in Awaited /\ c = Script[next] /\ Future(next) = "pending"
      /\ idle = << >> /\ current = {c}
  BY DoneIsNext
<1>2. /\ current' = {} /\ future' = [future EXCEPT ![c] = "value"]
      /\ UNCHANGED <<object, loop_thread, is_running, idle, timed, enqueued>>
  BY DEF Loop!Finish
<1>3. PICK i \in Awaited : i = next
  BY <1>1
<1>4. /\ future' \in [Given -> Results]
      /\ Future(i)' = "value"
      /\ \A j \in Awaited : j # i => Future(j)' = Future(j)
      /\ \A d \in Sourced : future'[d] = future[d]
  <2>1. future \in [Given -> Results] /\ "value" \in Results
    BY FutureType DEF Results
  <2>2. future' = [future EXCEPT ![Script[i]] = "value"]
    BY <1>1, <1>2, <1>3
  <2> QED BY <2>1, <2>2, AwaitedSet
<1>5. TypeOK'
  <2>1. Loop!TypeOK
    BY DEF LifeInv, TypeOK
  <2>2. Loop!TypeOK'
    BY <1>2, <1>4, <2>1 DEF Results, Loop!TypeOK, Given, Sourced
  <2> QED BY <2>2 DEF LifeInv, TypeOK
<1>6. Settled'
  BY <1>3, <1>4, Bounds, AwaitedPlaces DEF LifeInv, Settled
<1>7. OneEnqueued' /\ CalledAsSet'
  BY <1>1, <1>2 DEF OneEnqueued, CalledAsSet
<1>8. Promises'
  <2>1. timed \subseteq Sourced
    BY LoopTypes DEF LifeInv, TypeOK
  <2> QED BY <1>2, <1>4, <2>1 DEF LifeInv, Promises
<1>9. LoopOf'
  <2>1. Future(2)' = "none" <=> Future(2) = "none"
    BY <1>1, <1>3, <1>4, AwaitedPlaces
  <2>2. loop_thread' = loop_thread /\ object' = object /\ next' = next /\ current' = {}
    BY <1>2
  <2> QED BY <2>1, <2>2 DEF LifeInv, LoopOf
<1>10. NameHeld' /\ CallsReachDaemon'
  BY CallsKept DEF LifeInv, NameHeld
<1>11. CalledAfter'
  <2>1. Future(9) = "value" => Future(9)' = "value"
    BY <1>4, AwaitedPlaces
  <2> QED BY <1>4, <2>1 DEF LifeInv, CalledAfter, Sourced
<1> QED BY <1>5, <1>6, <1>7, <1>8, <1>9, <1>10, <1>11 DEF LifeInv

\* A handler is set, or set to a null one, by the step of its place.
LEMMA SetHandlerKeeps ==
    ASSUME LifeInv, NEW c \in Registering, SetHandler(c)
    PROVE  LifeInv'
<1>1. c \in current /\ c \notin Sourced
  BY LoopTypes, AwaitedSteps DEF SetHandler, Loop!Finish
<1>2. /\ next \in Awaited /\ c = Script[next] /\ Future(next) = "pending"
  BY <1>1, DoneIsNext
<1>3. PICK l \in 1 .. 6 : c.what = HandlerOrder[l]
  BY HandlerNames DEF SetHandler
<1>4. \/ next = 2 + l /\ c.do = "register"
      \/ next = 11 + l /\ c.do = "unregister"
  <2>1. PICK do \in {"register", "unregister"} : c = Step(do, HandlerOrder[l])
    BY <1>3 DEF Registering, Step
  <2>2. Script[2 + l] = Step("register", HandlerOrder[l])
        /\ Script[11 + l] = Step("unregister", HandlerOrder[l])
    BY ScriptSteps
  <2>3. 2 + l \in Awaited /\ 11 + l \in Awaited
    BY AwaitedPlaces
  <2>4. c.do = do
    BY <2>1 DEF Step
  <2> QED BY <1>2, <2>1, <2>2, <2>3, <2>4, AwaitedSteps
<1>5. /\ handler' = [handler EXCEPT ![HandlerOrder[l]] =
                       IF c.do = "register" THEN "daemon" ELSE "null"]
      /\ handler \in [Handlers -> Kinds]
      /\ future' = [future EXCEPT ![Script[next]] = "value"]
      /\ UNCHANGED <<next, exported, name, terminated, reached>>
  BY <1>2, <1>3 DEF SetHandler, Loop!Finish, LifeInv, TypeOK
<1>6. PICK i \in Awaited : i = next
  BY <1>2
<1>7. Future(i)' = "value" /\ \A j \in Awaited : j # i => Future(j)' = Future(j)
  <2>1. future \in [Given -> Results] /\ "value" \in Results
    BY FutureType DEF Results
  <2>2. future' = [future EXCEPT ![Script[i]] = "value"]
    BY <1>5, <1>6
  <2> QED BY <2>1, <2>2, AwaitedSet
<1>8. handler' \in [Handlers -> Kinds]
  BY <1>5 DEF Kinds
<1>9. next \in 1 .. 17 /\ next' = next
  BY <1>4, <1>5, Bounds
<1>10. \A k \in 1 .. 6 : HandlerOrder[k] \in Handlers /\ (HandlerOrder[k] = HandlerOrder[l] => k = l)
  BY HandlerNames
<1>11. HandlersSet'
  <2> SUFFICES ASSUME NEW k \in 1 .. 6
               PROVE  handler'[HandlerOrder[k]] =
                        IF Future(11 + k)' = "value" THEN "null"
                        ELSE IF Future(2 + k)' = "value" THEN "daemon"
                        ELSE IF k = 1 THEN "null" ELSE "empty"
    BY <1>9 DEF HandlersSet
  <2>1. handler[HandlerOrder[k]] =
          IF Future(11 + k) = "value" THEN "null"
          ELSE IF Future(2 + k) = "value" THEN "daemon"
          ELSE IF k = 1 THEN "null" ELSE "empty"
    BY <1>9, Bounds DEF LifeInv, HandlersSet
  <2>2. 2 + k \in Awaited /\ 11 + k \in Awaited /\ 11 + l \in Awaited
    BY AwaitedPlaces
  <2>3. CASE k # l
    <3>1. handler'[HandlerOrder[k]] = handler[HandlerOrder[k]]
      BY <1>5, <1>10, <2>3
    <3>2. 2 + k # i /\ 11 + k # i
      BY <1>4, <1>6, <2>3
    <3> QED BY <1>7, <2>1, <2>2, <3>1, <3>2
  <2>4. CASE k = l /\ next = 11 + l /\ c.do = "unregister"
    <3>1. handler'[HandlerOrder[k]] = "null"
      BY <1>5, <1>10, <2>4
    <3> QED BY <1>6, <1>7, <2>4, <3>1
  <2>5. CASE k = l /\ next = 2 + l /\ c.do = "register"
    <3>1. handler'[HandlerOrder[k]] = "daemon"
      BY <1>5, <1>10, <2>5
    <3>2. Future(11 + k)' = Future(11 + k) /\ next <= 11
      BY <1>6, <1>7, <2>2, <2>5
    <3>3. Future(11 + k) = "none"
      BY <3>2, SetSoFar
    <3> QED BY <1>6, <1>7, <2>5, <3>1, <3>2, <3>3
  <2> QED BY <1>4, <2>3, <2>4, <2>5
<1>12. ObjectThere'
  <2>1. i # 9 /\ i # 19
    BY <1>4, <1>6
  <2> QED BY <1>5, <1>7, <2>1, AwaitedPlaces DEF LifeInv, ObjectThere
<1>13. exported' \in BOOLEAN /\ Loop!Finish(c, "value")
  BY <1>5 DEF LifeInv, TypeOK, SetHandler
<1> QED BY <1>1, <1>5, <1>8, <1>11, <1>12, <1>13, DoneKeeps

LEMMA SetObjectKeeps ==
    ASSUME LifeInv, NEW c \in Registering, SetObject(c)
    PROVE  LifeInv'
<1>1. c \in current /\ c \notin Sourced
  BY LoopTypes, AwaitedSteps DEF SetObject, Loop!Finish
<1>2. /\ next \in Awaited /\ c = Script[next] /\ Future(next) = "pending"
  BY <1>1, DoneIsNext
<1>3. \/ next = 9 /\ c.do = "register"
      \/ next = 19 /\ c.do = "unregister"
  <2>1. PICK do \in {"register", "unregister"} : c = Step(do, "object")
    BY DEF Registering, Step, SetObject
  <2>2. Script[9] = Step("register", "object") /\ Script[19] = Step("unregister", "object")
    BY ScriptSteps
  <2>3. 9 \in Awaited /\ 19 \in Awaited
    BY AwaitedPlaces
  <2>4. c.do = do
    BY <2>1 DEF Step
  <2>5. CASE do = "register"
    <3>1. Script[next] = Script[9]
      BY <1>2, <2>1, <2>2, <2>5
    <3> QED BY <1>2, <2>3, <2>4, <2>5, <3>1, AwaitedSteps
  <2>6. CASE do = "unregister"
    <3>1. Script[next] = Script[19]
      BY <1>2, <2>1, <2>2, <2>6
    <3> QED BY <1>2, <2>3, <2>4, <2>6, <3>1, AwaitedSteps
  <2> QED BY <2>5, <2>6
<1>4. /\ exported' = (c.do = "register")
      /\ future' = [future EXCEPT ![Script[next]] = "value"]
      /\ UNCHANGED <<next, handler, name, terminated, reached>>
  BY <1>2 DEF SetObject, Loop!Finish
<1>5. PICK i \in Awaited : i = next
  BY <1>2
<1>6. Future(i)' = "value" /\ \A j \in Awaited : j # i => Future(j)' = Future(j)
  <2>1. future \in [Given -> Results] /\ "value" \in Results
    BY FutureType DEF Results
  <2>2. future' = [future EXCEPT ![Script[i]] = "value"]
    BY <1>4, <1>5
  <2> QED BY <2>1, <2>2, AwaitedSet
<1>7. HandlersSet'
  <2>1. ASSUME NEW k \in 1 .. 6 PROVE Future(2 + k)' = Future(2 + k)
                                    /\ Future(11 + k)' = Future(11 + k)
    <3>1. 2 + k # i /\ 11 + k # i /\ 2 + k \in Awaited /\ 11 + k \in Awaited
      BY <1>3, <1>5, AwaitedPlaces
    <3> QED BY <1>6, <3>1
  <2> QED BY <1>4, <2>1 DEF LifeInv, HandlersSet
<1>8. ObjectThere'
  <2>1. CASE next = 9 /\ c.do = "register"
    <3>1. Future(19)' = "none" /\ Future(9)' = "value"
      BY <1>5, <1>6, <2>1, SetSoFar, AwaitedPlaces
    <3> QED BY <1>4, <2>1, <3>1 DEF ObjectThere
  <2>2. CASE next = 19 /\ c.do = "unregister"
    BY <1>4, <1>5, <1>6, <2>2 DEF ObjectThere
  <2> QED BY <1>3, <2>1, <2>2
<1>9. /\ handler' \in [Handlers -> Kinds] /\ exported' \in BOOLEAN
      /\ Loop!Finish(c, "value")
  BY <1>4 DEF LifeInv, TypeOK, SetObject
<1> QED BY <1>1, <1>4, <1>7, <1>8, <1>9, DoneKeeps

LEMMA ConstructorCalledKeeps ==
    ASSUME LifeInv, ConstructorCalled
    PROVE  LifeInv'
<1> DEFINE c == Step("construct", "loop")
<1>1. c \in current /\ c \notin Sourced
  BY LoopTypes, AwaitedSteps DEF ConstructorCalled, Loop!Finish
<1>2. /\ next \in Awaited /\ c = Script[next]
  BY <1>1, DoneIsNext
<1>3. next = 2
  BY <1>2, ScriptSteps, AwaitedSteps, AwaitedPlaces
<1>4. future' = [future EXCEPT ![Script[2]] = "value"] /\ UNCHANGED next /\ membersSame
  BY <1>2, <1>3 DEF ConstructorCalled, Loop!Finish
<1>5. \A j \in Awaited : j # 2 => Future(j)' = Future(j)
  BY <1>4, AwaitedSet, AwaitedPlaces, FutureType DEF Results
<1>6. HandlersSet'
  <2>1. ASSUME NEW k \in 1 .. 6 PROVE Future(2 + k)' = Future(2 + k)
                                    /\ Future(11 + k)' = Future(11 + k)
    <3>1. 2 + k # 2 /\ 11 + k # 2 /\ 2 + k \in Awaited /\ 11 + k \in Awaited
      BY AwaitedPlaces
    <3> QED BY <1>5, <3>1
  <2> QED BY <1>4, <2>1 DEF LifeInv, HandlersSet, membersSame
<1>7. ObjectThere'
  BY <1>4, <1>5, AwaitedPlaces DEF LifeInv, ObjectThere, membersSame
<1>8. /\ handler' \in [Handlers -> Kinds] /\ exported' \in BOOLEAN
      /\ Loop!Finish(c, "value") /\ UNCHANGED <<name, terminated, reached>>
  BY <1>4 DEF LifeInv, TypeOK, ConstructorCalled, membersSame
<1> QED BY <1>1, <1>4, <1>6, <1>7, <1>8, DoneKeeps

\* A step of the loop's thread, or a call or a timer given to the loop, leaves the
\* main thread's futures as they are.
LEMMA LoopKeeps ==
    ASSUME LifeInv, \A i \in Awaited : Future(i)' = Future(i),
           UNCHANGED <<object, next, handler, exported, name, terminated>>,
           reached' \in [Sourced -> Kinds], Loop!TypeOK',
           OneEnqueued', Promises', CalledAfter', CalledAsSet', CallsReachDaemon',
           object = "none" => loop_thread' = "none",
           object = "stopped" => loop_thread' = "ended",
           current' # {} => loop_thread' = "looping"
    PROVE  LifeInv'
<1>1. TypeOK'
  BY DEF LifeInv, TypeOK, Sourced
<1>2. Settled' /\ HandlersSet' /\ ObjectThere' /\ NameHeld'
  BY ProgressKept
<1>3. LoopOf'
  BY AwaitedPlaces DEF LifeInv, LoopOf
<1> QED BY <1>1, <1>2, <1>3 DEF LifeInv

LEMMA ThreadKeeps ==
    ASSUME LifeInv, ThreadRuns \/ ThreadEnds
    PROVE  LifeInv'
<1>1. /\ UNCHANGED <<object, idle, timed, current, future, enqueued>>
      /\ UNCHANGED <<next, handler, exported, name, terminated, reached>>
      /\ is_running' \in BOOLEAN /\ loop_thread' \in {"looping", "ended"}
      /\ loop_thread \in {"starting", "looping"}
      /\ loop_thread' = "ended" => current = {}
  BY LoopTypes DEF LifeInv, TypeOK, ThreadRuns, ThreadEnds, Loop!ThreadRuns, Loop!ThreadEnds,
                   membersSame
<1>2. \A i \in Awaited : Future(i)' = Future(i)
  BY <1>1 DEF Future
<1>3. Loop!TypeOK'
  BY <1>1 DEF LifeInv, TypeOK, Loop!TypeOK
<1>4. reached' \in [Sourced -> Kinds]
  BY <1>1 DEF LifeInv, TypeOK, Sourced
<1>5. OneEnqueued' /\ Promises' /\ CalledAfter' /\ CalledAsSet'
  BY <1>1 DEF LifeInv, OneEnqueued, Promises, CalledAfter, CalledAsSet, Future
<1>6. CallsReachDaemon'
  BY <1>1, CallsKept
<1>7. /\ object = "none" => loop_thread' = "none"
      /\ object = "stopped" => loop_thread' = "ended"
      /\ current' # {} => loop_thread' = "looping"
  BY <1>1 DEF LifeInv, LoopOf
<1> QED BY <1>1, <1>2, <1>3, <1>4, <1>5, <1>6, <1>7, LoopKeeps

\* A call or a timer is given to the loop.
LEMMA ScheduledKeeps ==
    ASSUME LifeInv, NEW c \in Sourced, Loop!schedule_in(c), UNCHANGED next, membersSame,
           Future(9) = "value", object # "stopped"
    PROVE  LifeInv'
<1>1. /\ future[c] = "none" /\ future' = [future EXCEPT ![c] = "pending"]
      /\ timed' = timed \cup {c}
      /\ UNCHANGED <<object, loop_thread, is_running, idle, current, enqueued>>
      /\ UNCHANGED <<next, handler, exported, name, terminated, reached>>
  BY DEF Loop!schedule_in, Loop!Promised, membersSame
<1>2. /\ future' \in [Given -> Results]
      /\ future'[c] = "pending"
      /\ \A d \in Sourced : d # c => future'[d] = future[d]
      /\ \A i \in Awaited : Future(i)' = Future(i)
  BY <1>1, SourcedSet, FutureType DEF Results
<1>3. timed \subseteq Sourced /\ current \subseteq Given /\ Loop!TypeOK
  BY LoopTypes DEF LifeInv, TypeOK
<1>4. Loop!TypeOK'
  BY <1>1, <1>2, <1>3 DEF Loop!TypeOK, Results, Given, Sourced
<1>5. reached' \in [Sourced -> Kinds]
  BY <1>1 DEF LifeInv, TypeOK, Sourced
<1>6. OneEnqueued'
  <2>1. next \in Awaited => Future(next)' = Future(next)
    BY <1>1, <1>2 DEF Future
  <2> QED BY <1>1, <2>1 DEF LifeInv, OneEnqueued
<1>7. Promises'
  <2>1. \A d \in timed' : future'[d] = "pending"
    BY <1>1, <1>2, <1>3 DEF LifeInv, Promises
  <2>2. ASSUME NEW d \in current
        PROVE  current = {d} /\ future'[d] = "pending" /\ d \notin timed'
    <3>1. current = {d} /\ future[d] = "pending" /\ d \notin timed /\ d \in Given /\ d # c
      BY <1>1, <1>3 DEF LifeInv, Promises
    <3>2. future'[d] = future[d]
      BY <1>1, <3>1, LoopTypes, FutureSet, FutureType DEF Results
    <3> QED BY <1>1, <3>1, <3>2
  <2> QED BY <1>1, <2>1, <2>2 DEF Promises
<1>8. CalledAfter'
  BY <1>2, AwaitedPlaces DEF CalledAfter
<1>9. CalledAsSet' /\ CallsReachDaemon'
  BY <1>1, CallsKept DEF LifeInv, CalledAsSet
<1>10. /\ object = "none" => loop_thread' = "none"
       /\ object = "stopped" => loop_thread' = "ended"
       /\ current' # {} => loop_thread' = "looping"
  BY <1>1 DEF LifeInv, LoopOf
<1> QED BY <1>1, <1>2, <1>4, <1>5, <1>6, <1>7, <1>8, <1>9, <1>10, LoopKeeps

LEMMA MethodCallKeeps ==
    ASSUME LifeInv, NEW c \in Calls, MethodCall(c)
    PROVE  LifeInv' /\ object = "alive" /\ c \in Sourced
<1>1. Future(9) = "value" /\ Future(19) # "value" /\ c \in Sourced
  BY DEF LifeInv, ObjectThere, MethodCall, Sourced
<1>2. next \in 9 .. 19
  BY <1>1, SetSoFar, Bounds
<1>3. object = "alive"
  BY <1>2 DEF LifeInv, LoopOf
<1> QED BY <1>1, <1>3, ScheduledKeeps DEF MethodCall

\* The loop is still there when something is being called.
LEMMA CallerThere ==
    ASSUME LifeInv, NEW c \in current, c \in Sourced
    PROVE  object \in {"alive", "stopping"} /\ Future(9) = "value"
<1>1. future[c] = "pending" /\ loop_thread = "looping"
  BY DEF LifeInv, Promises, LoopOf
<1>2. Future(9) = "value"
  BY <1>1 DEF LifeInv, CalledAfter, Sourced
<1>3. next >= 9 /\ next \in 1 .. 22
  BY <1>2, SetSoFar, Bounds
<1>4. object \in {"alive", "stopping", "stopped"}
  BY <1>3 DEF LifeInv, LoopOf
<1> QED BY <1>1, <1>2, <1>4 DEF LifeInv, LoopOf

LEMMA schedule_inKeeps ==
    ASSUME LifeInv, NEW c \in Calls, schedule_in(c)
    PROVE  LifeInv' /\ object \in {"alive", "stopping"} /\ current # {} /\ Timer(c) \in Sourced
<1>1. c \in current /\ c \in Sourced /\ c.duration
  BY DEF schedule_in, Sourced
<1>2. Timer(c) \in Timers
  BY <1>1 DEF Timers
<1>3. Timer(c) \in Sourced
  BY <1>2 DEF Sourced
<1>4. object \in {"alive", "stopping"} /\ Future(9) = "value"
  BY <1>1, CallerThere
<1>5. LifeInv'
  BY <1>3, <1>4, ScheduledKeeps DEF schedule_in
<1> QED BY <1>1, <1>3, <1>4, <1>5

LEMMA CallReturnsKeeps ==
    ASSUME LifeInv, NEW c \in Sourced, CallReturns(c)
    PROVE  LifeInv'
<1>1. /\ c \in current /\ current' = {} /\ future' = [future EXCEPT ![c] = "value"]
      /\ UNCHANGED <<object, loop_thread, is_running, idle, timed, enqueued>>
      /\ UNCHANGED <<next, handler, exported, name, terminated, reached>>
  BY DEF CallReturns, Loop!Finish, membersSame
<1>2. /\ future' \in [Given -> Results]
      /\ future'[c] = "value"
      /\ \A d \in Sourced : d # c => future'[d] = future[d]
      /\ \A i \in Awaited : Future(i)' = Future(i)
  BY <1>1, SourcedSet, FutureType DEF Results
<1>3. timed \subseteq Sourced /\ Loop!TypeOK
  BY LoopTypes DEF LifeInv, TypeOK
<1>4. Loop!TypeOK'
  BY <1>1, <1>2, <1>3 DEF Loop!TypeOK, Results, Given, Sourced
<1>5. reached' \in [Sourced -> Kinds]
  BY <1>1 DEF LifeInv, TypeOK, Sourced
<1>6. OneEnqueued'
  <2>1. next \in Awaited => Future(next)' = Future(next)
    BY <1>1, <1>2 DEF Future
  <2> QED BY <1>1, <2>1 DEF LifeInv, OneEnqueued
<1>7. Promises'
  <2>1. c \notin timed
    BY <1>1 DEF LifeInv, Promises
  <2> QED BY <1>1, <1>2, <1>3, <2>1 DEF LifeInv, Promises
<1>8. CalledAfter'
  <2>1. Future(9) = "value"
    BY <1>1, CallerThere
  <2> QED BY <1>2, <2>1, AwaitedPlaces DEF CalledAfter
<1>9. CalledAsSet' /\ CallsReachDaemon'
  BY <1>1, CallsKept DEF CalledAsSet
<1>10. /\ object = "none" => loop_thread' = "none"
       /\ object = "stopped" => loop_thread' = "ended"
       /\ current' # {} => loop_thread' = "looping"
  BY <1>1 DEF LifeInv, LoopOf
<1> QED BY <1>1, <1>2, <1>4, <1>5, <1>6, <1>7, <1>8, <1>9, <1>10, LoopKeeps

\* What a call would reach: the Daemon, from the object's registration to run()'s end.
LEMMA ReachesDaemon ==
    ASSUME LifeInv, NEW c \in Sourced, future[c] # "none", next <= 11
    PROVE  Reaches(c) = "daemon"
<1>1. Future(9) = "value"
  BY DEF LifeInv, CalledAfter, Sourced
<1>2. next \in 9 .. 11
  BY <1>1, SetSoFar, Bounds
<1>3. exported
  <2>1. Future(19) = "none" /\ ObjectThere
    BY <1>2, SetSoFar DEF LifeInv
  <2>2. Future(9) = "value" /\ Future(19) # "value"
    BY <1>1, <2>1
  <2> QED BY <2>1, <2>2, Zenon DEF ObjectThere
<1>4. PICK k \in 1 .. 6 : c.what = HandlerOrder[k]
  BY CallsDo, HandlerNames
<1>5. Future(2 + k) = "value" /\ Future(11 + k) = "none"
  BY <1>2, SetSoFar
<1>6. handler[HandlerOrder[k]] = "daemon"
  BY <1>2, <1>5 DEF LifeInv, HandlersSet
<1> QED BY <1>3, <1>4, <1>6 DEF Reaches

LEMMA DispatchKeeps ==
    ASSUME LifeInv, NEW c \in Given, Dispatch(c)
    PROVE  LifeInv'
<1>1. /\ loop_thread = "looping" /\ current = {} /\ current' = {c}
      /\ Loop!Take(c)
      /\ UNCHANGED <<object, loop_thread, is_running, future, enqueued>>
      /\ UNCHANGED <<next, handler, exported, name, terminated>>
      /\ reached' = IF c \in Sourced THEN [reached EXCEPT ![c] = Reaches(c)] ELSE reached
  <2>1. DOMAIN reached = Sourced
    BY DEF LifeInv, TypeOK, Sourced
  <2> QED BY <2>1 DEF Dispatch, Loop!Dispatch
<1>2. timed \subseteq Sourced /\ Loop!TypeOK /\ idle \in Seq(Given \ Sourced)
  BY LoopTypes DEF LifeInv, TypeOK
<1>3. \A i \in Awaited : Future(i)' = Future(i)
  BY <1>1 DEF Future
<1>4. \/ /\ idle = <<Script[next]>> /\ next \in Awaited /\ Future(next) = "pending"
         /\ c = Script[next] /\ idle' = << >> /\ timed' = timed
      \/ c \in timed /\ timed' = timed \ {c} /\ idle' = idle
  <2>1. CASE idle # << >> /\ c = Head(idle) /\ idle' = Tail(idle) /\ UNCHANGED timed
    <3>1. idle = <<Script[next]>> /\ next \in Awaited /\ Future(next) = "pending"
      BY <2>1 DEF LifeInv, OneEnqueued
    <3>2. Head(<<Script[next]>>) = Script[next] /\ Tail(<<Script[next]>>) = << >>
      OBVIOUS
    <3> QED BY <2>1, <3>1, <3>2
  <2> QED BY <1>1, <2>1 DEF Loop!Take
<1>5. future[c] = "pending"
  BY <1>4 DEF LifeInv, Promises, Future
<1>6. Loop!TypeOK'
  <2>1. << >> \in Seq(Given \ Sourced)
    OBVIOUS
  <2> QED BY <1>1, <1>2, <1>4, <2>1 DEF Loop!TypeOK, Given, Sourced
<1>7. Reaches(c) \in Kinds \/ c \notin Sourced
  BY CallsDo DEF Reaches, Kinds, LifeInv, TypeOK
<1>8. /\ reached' \in [Sourced -> Kinds]
      /\ \A d \in Sourced : reached'[d] = IF d = c THEN Reaches(c) ELSE reached[d]
  <2>1. reached \in [Sourced -> Kinds]
    BY DEF LifeInv, TypeOK, Sourced
  <2> QED BY <1>1, <1>7, <2>1
<1>9. OneEnqueued'
  <2>1. CASE idle' = << >>
    BY <2>1 DEF OneEnqueued
  <2>2. CASE c \in timed /\ idle' = idle /\ idle # << >>
    <3>1. idle = <<Script[next]>> /\ next \in Awaited /\ Future(next) = "pending"
      BY <2>2 DEF LifeInv, OneEnqueued
    <3>2. Script[next] # c
      BY <1>2, <2>2, <3>1, LoopTypes
    <3> QED BY <1>1, <2>2, <3>1, <3>2 DEF OneEnqueued, Future
  <2> QED BY <1>4, <2>1, <2>2
<1>10. Promises'
  <2>1. c \notin timed' /\ timed' \subseteq timed
    BY <1>2, <1>4, LoopTypes
  <2> QED BY <1>1, <1>5, <2>1 DEF LifeInv, Promises
<1>11. CalledAfter'
  BY <1>1, <1>3, AwaitedPlaces DEF LifeInv, CalledAfter
<1>12. CalledAsSet'
  <2> SUFFICES ASSUME c \in Sourced, reached'[c] = "daemon" PROVE handler'[c.what] = "daemon"
    BY <1>1 DEF CalledAsSet, Sourced
  <2>1. Reaches(c) = "daemon"
    BY <1>8
  <2>2. handler[c.what] = "daemon"
    BY <2>1 DEF Reaches
  <2> QED BY <1>1, <2>2
<1>13. CallsReachDaemon'
  <2>1. DOMAIN reached = Sourced /\ DOMAIN reached' = Sourced
    BY <1>8 DEF LifeInv, TypeOK, Sourced
  <2>2. Past("loop")' = Past("loop")
    BY <1>1 DEF Past
  <2>3. ASSUME ~ Past("loop"), NEW d \in Sourced PROVE reached'[d] \in {"none", "daemon"}
    <3>1. next <= 11
      BY <2>3, AtMeans, Bounds
    <3>2. CASE d = c
      BY <1>5, <1>8, <2>3, <3>1, <3>2, ReachesDaemon
    <3>3. CASE d # c
      BY <1>8, <2>1, <2>3, <3>3 DEF LifeInv, CallsReachDaemon
    <3> QED BY <3>2, <3>3
  <2> QED BY <2>1, <2>2, <2>3 DEF CallsReachDaemon
<1>14. /\ object = "none" => loop_thread' = "none"
       /\ object = "stopped" => loop_thread' = "ended"
       /\ current' # {} => loop_thread' = "looping"
  BY <1>1 DEF LifeInv, LoopOf
<1> QED BY <1>1, <1>3, <1>6, <1>8, <1>9, <1>10, <1>11, <1>12, <1>13, <1>14, LoopKeeps

LEMMA NextLifeInv == LifeInv /\ [Next]_vars => LifeInv'
<1> SUFFICES ASSUME LifeInv, [Next]_vars PROVE LifeInv'
  OBVIOUS
<1>1. CASE UNCHANGED vars
  BY <1>1, Bounds, NothingGoes DEF vars
<1>2. CASE ~ Over /\ MainStep
  BY <1>2, MainKeeps, ConstructLoopKeeps, EnqueueKeeps, DestroyHandlersKeeps, StopLoopKeeps,
     CloseConnectionKeeps DEF MainStep
<1>3. CASE LoopStep
  <2>1. ASSUME NEW c \in Given, Dispatch(c) PROVE LifeInv'
    BY <2>1, DispatchKeeps
  <2>2. ASSUME NEW c \in Calls, schedule_in(c) PROVE LifeInv'
    BY <2>2, schedule_inKeeps
  <2>3. ASSUME NEW c \in Sourced, CallReturns(c) PROVE LifeInv'
    BY <2>3, CallReturnsKeeps
  <2>4. ASSUME NEW c \in Registering, SetHandler(c) \/ SetObject(c) PROVE LifeInv'
    BY <2>4, SetHandlerKeeps, SetObjectKeeps
  <2> QED BY <1>3, <2>1, <2>2, <2>3, <2>4, ThreadKeeps, ConstructorCalledKeeps
          DEF LoopStep, Given, Sourced
<1>4. CASE ~ Over /\ LeaveLoop
  BY <1>4, MainKeeps
<1>5. CASE Crash
  BY <1>5, Bounds, NothingGoes DEF Crash
<1>6. CASE OtherOwner
  BY <1>6, Bounds, NothingGoes DEF OtherOwner
<1>7. ASSUME NEW c \in Calls, MethodCall(c) PROVE LifeInv'
  BY <1>7, MethodCallKeeps
<1> QED BY <1>1, <1>2, <1>3, <1>4, <1>5, <1>6, <1>7 DEF Next

LEMMA AlwaysLifeInv == Spec => []LifeInv
BY InitLifeInv, NextLifeInv, PTL DEF Spec

-----------------------------------------------------------------------------
(* What follows from it *)

\* Type correctness: from construction to destruction main's script, the loop's
\* queue and the callbacks called stay what they are meant to be.
THEOREM LifecycleTypes == Spec => []TypeOK
<1>1. LifeInv => TypeOK
  BY DEF LifeInv
<1> QED BY <1>1, AlwaysLifeInv, PTL

\* Whoever waits for the daemon's name finds the object, with every handler set,
\* when it appears and until the daemon is stopped (LEDs.cpp:51-81,
\* Daemon.cpp:33-35).
THEOREM NameIsReady == Spec => []NameMeansReady
<1>1. LifeInv => NameMeansReady
  <2> SUFFICES ASSUME LifeInv, name = "ours", ~ Past("loop")
               PROVE  exported /\ \A h \in Handlers : handler[h] = "daemon"
    BY DEF NameMeansReady
  <2>1. next = 11
    BY Bounds, AtMeans DEF LifeInv, NameHeld
  <2>2. Future(9) = "value" /\ Future(19) = "none"
        /\ \A k \in 1 .. 6 : Future(2 + k) = "value" /\ Future(11 + k) = "none"
    BY <2>1, SetSoFar
  <2>3. exported
    <3>1. ObjectThere /\ Future(9) = "value" /\ Future(19) # "value"
      BY <2>2 DEF LifeInv
    <3> QED BY <3>1, Zenon DEF ObjectThere
  <2>4. ASSUME NEW h \in Handlers PROVE handler[h] = "daemon"
    <3>1. PICK k \in 1 .. 6 : h = HandlerOrder[k]
      BY HandlerNames
    <3> QED BY <2>1, <2>2, <3>1 DEF LifeInv, HandlersSet
  <2> QED BY <2>3, <2>4
<1> QED BY <1>1, AlwaysLifeInv, PTL

\* Until the daemon is stopped no call that a client made, and no torch's end, finds
\* the object gone, or a handler that is empty or null (Daemon.cpp:33-35).
THEOREM CallsAreServed == Spec => []CallsReachDaemon
<1>1. LifeInv => CallsReachDaemon
  BY DEF LifeInv
<1> QED BY <1>1, AlwaysLifeInv, PTL

\* What the main thread waits for is never refused: the loop is not stopped with a
\* registration in it whose promise it would break (EventLoop.cpp:88-115).
THEOREM NoAwaitedPromiseBroken ==
    Spec => [](\A i \in Awaited : Future(i) \notin {"broken", "exception"})
<1>1. LifeInv => \A i \in Awaited : Future(i) \notin {"broken", "exception"}
  BY DEF LifeInv, Settled
<1> QED BY <1>1, AlwaysLifeInv, PTL

\* When run() has returned, main can destroy the Daemon: none of its handlers is
\* being called, and none is set that could be (EventLoopHandlerRegistration.h:31-39,
\* main.cpp:53-59).
THEOREM DaemonCanBeDestroyed == Spec => []NoCallAfterRun
<1>1. LifeInv => NoCallAfterRun
  <2> SUFFICES ASSUME LifeInv, Returned
               PROVE  /\ \A c \in current \cap DOMAIN reached : reached[c] # "daemon"
                      /\ \A h \in Handlers : handler[h] # "daemon"
    BY DEF NoCallAfterRun
  <2>1. next >= 18 /\ next \in 1 .. 22
    BY Bounds, ReturnedMeans
  <2>2. ASSUME NEW h \in Handlers PROVE handler[h] # "daemon"
    <3>1. PICK k \in 1 .. 6 : h = HandlerOrder[k]
      BY HandlerNames
    <3>2. Future(11 + k) = "value"
      BY <2>1, SetSoFar
    <3> QED BY <3>1, <3>2 DEF LifeInv, HandlersSet
  <2>3. ASSUME NEW c \in current \cap DOMAIN reached, reached[c] = "daemon" PROVE FALSE
    <3>1. c \in Sourced
      BY DEF LifeInv, TypeOK, Sourced
    <3>2. handler[c.what] = "daemon" /\ c.what \in Handlers
      BY <2>3, <3>1, CallsDo DEF LifeInv, CalledAsSet, Sourced
    <3> QED BY <2>2, <3>2
  <2> QED BY <2>2, <2>3
<1> QED BY <1>1, AlwaysLifeInv, PTL

-----------------------------------------------------------------------------
(* The loop is used as an EventLoop *)

LEMMA StepKeepsToLoop == LifeInv /\ [Next]_vars => [Loop!Next]_(Loop!loopVars)
<1> SUFFICES ASSUME LifeInv, [Next]_vars, ~ UNCHANGED loopVars PROVE Loop!Next
  BY DEF loopVars, Loop!loopVars
<1> DEFINE started == Step("construct", "loop")
<1>1. ~ Over /\ Next
  BY DEF vars, Next
<1>2. CASE ConstructLoop \/ StopLoop
  BY <1>2 DEF ConstructLoop, StopLoop, Loop!Next
<1>3. CASE Enqueue
  <2>1. next \in Awaited \ {2} /\ next \in 3 .. 19
    BY <1>1, <1>3, Bounds, AtMeans, AwaitedPlaces DEF Enqueue
  <2>2. object = "alive"
    BY <2>1 DEF LifeInv, LoopOf
  <2>3. Script[next] \in Given \ Sourced /\ Script[next] # started
    <3>1. Script[2] = started /\ 2 \in Awaited
      BY ScriptSteps, AwaitedPlaces
    <3>2. Script[next] # Script[2]
      BY <2>1, <3>1, AwaitedSteps
    <3> QED BY <2>1, <3>1, <3>2, LoopTypes
  <2>4. Loop!InUse /\ Loop!enqueue(Script[next])
    BY <1>3, <2>2 DEF Enqueue, Loop!InUse
  <2> QED BY <2>3, <2>4 DEF Loop!Next, Given, Sourced
<1>4. CASE LoopStep
  <2>1. CASE ThreadRuns \/ ThreadEnds
    BY <2>1 DEF ThreadRuns, ThreadEnds, Loop!Next
  <2>2. ASSUME NEW c \in Given, Dispatch(c) PROVE Loop!Next
    BY <2>2 DEF Dispatch, Loop!Next, Given, Sourced
  <2>3. ASSUME NEW c \in Calls, schedule_in(c) PROVE Loop!Next
    <3>1. Loop!InUse /\ Timer(c) \in Sourced
      BY <2>3, schedule_inKeeps DEF Loop!InUse
    <3> QED BY <2>3, <3>1 DEF schedule_in, Loop!Next, Sourced
  <2>4. ASSUME NEW c \in Given, Loop!Finish(c, "value") PROVE Loop!Next
    BY <2>4 DEF Loop!Next, Given, Sourced
  <2>5. ASSUME NEW c \in Sourced, CallReturns(c) PROVE Loop!Next
    BY <2>4, <2>5 DEF CallReturns, Given
  <2>6. ASSUME NEW c \in Registering, SetHandler(c) \/ SetObject(c) PROVE Loop!Next
    BY <2>4, <2>6 DEF SetHandler, SetObject, Given
  <2>7. CASE ConstructorCalled
    BY <2>4, <2>7 DEF ConstructorCalled, Given
  <2> QED BY <1>4, <2>1, <2>2, <2>3, <2>5, <2>6, <2>7 DEF LoopStep, Given, Sourced
<1>5. ASSUME NEW c \in Calls, MethodCall(c) PROVE Loop!Next
  <2>1. Loop!InUse /\ c \in Sourced
    BY <1>5, MethodCallKeeps DEF Loop!InUse
  <2> QED BY <1>5, <2>1 DEF MethodCall, Loop!Next, Sourced
<1>6. CASE Connect \/ Wait \/ request_name \/ DestroyHandlers \/ CloseConnection \/ LeaveLoop
           \/ Crash \/ OtherOwner
  BY <1>6 DEF Connect, Wait, request_name, DestroyHandlers, CloseConnection, LeaveLoop, Crash,
              OtherOwner
<1> QED BY <1>1, <1>2, <1>3, <1>4, <1>5, <1>6 DEF Next, MainStep

\* The daemon implements the use of its EventLoop: nothing is enqueued before the
\* constructor has returned or after stop(), and nothing is promised twice.
THEOREM UsesLoop == Spec => KeepsToLoop
<1>1. Init => Loop!Init
  BY DEF Init
<1> QED BY <1>1, AlwaysLifeInv, StepKeepsToLoop, PTL DEF Spec, KeepsToLoop, Loop!Spec

LoopProofs == INSTANCE EventLoopProofs WITH
    Callbacks <- Calls \cup Timers \cup Registering \cup {Step("construct", "loop")},
    Timed     <- Calls \cup Timers,
    Started   <- Step("construct", "loop")

LEMMA LoopAssumption == Loop!CallbacksAssumption
BY AwaitedSteps DEF Loop!CallbacksAssumption, Sourced

\* Instantiated twice, a definition of EventLoop is the same.
LEMMA SameLoop ==
    /\ Loop!Init <=> LoopProofs!Init
    /\ [Loop!Next]_(Loop!loopVars) <=> [LoopProofs!Next]_(LoopProofs!loopVars)
    /\ Loop!WaitMeansDone <=> LoopProofs!WaitMeansDone
    /\ Loop!QuietAfterStop <=> LoopProofs!QuietAfterStop
    /\ Loop!PendingIsHeld <=> LoopProofs!PendingIsHeld
    /\ Loop!QuitIsKept <=> LoopProofs!QuitIsKept
<1>1. Loop!Init <=> LoopProofs!Init
  BY DEF Loop!Init, LoopProofs!Init
<1>2. Loop!Next <=> LoopProofs!Next
  BY DEF Loop!Next, LoopProofs!Next, Loop!Construct, LoopProofs!Construct,
         Loop!ConstructorReturns, LoopProofs!ConstructorReturns, Loop!Quit, LoopProofs!Quit,
         Loop!Free, LoopProofs!Free, Loop!InUse, LoopProofs!InUse,
         Loop!enqueue, LoopProofs!enqueue, Loop!schedule_in, LoopProofs!schedule_in,
         Loop!ThreadRuns, LoopProofs!ThreadRuns, Loop!ThreadEnds, LoopProofs!ThreadEnds,
         Loop!Dispatch, LoopProofs!Dispatch, Loop!Finish, LoopProofs!Finish,
         Loop!Promised, LoopProofs!Promised, Loop!Take, LoopProofs!Take,
         Loop!Attached, LoopProofs!Attached
<1>3. UNCHANGED Loop!loopVars <=> UNCHANGED LoopProofs!loopVars
  BY DEF Loop!loopVars, LoopProofs!loopVars
<1>4. Loop!WaitMeansDone <=> LoopProofs!WaitMeansDone
  BY DEF Loop!WaitMeansDone, LoopProofs!WaitMeansDone, Loop!Called, LoopProofs!Called
<1>5. Loop!QuietAfterStop <=> LoopProofs!QuietAfterStop
  BY DEF Loop!QuietAfterStop, LoopProofs!QuietAfterStop
<1>6. Loop!PendingIsHeld <=> LoopProofs!PendingIsHeld
  BY DEF Loop!PendingIsHeld, LoopProofs!PendingIsHeld, Loop!Attached, LoopProofs!Attached
<1>7. Loop!QuitIsKept <=> LoopProofs!QuitIsKept
  BY DEF Loop!QuitIsKept, LoopProofs!QuitIsKept
<1> QED BY <1>1, <1>2, <1>3, <1>4, <1>5, <1>6, <1>7

\* What EventLoop promises its users is what the daemon gets from it: a wait that
\* ends by its callback comes after all that was enqueued before, no promise and no
\* quit is lost, and nothing is called once stop() has returned
\* (EventLoop.cpp:78-115).
THEOREM LoopPromisesKept ==
    Spec => [](Loop!WaitMeansDone /\ Loop!QuietAfterStop /\ Loop!PendingIsHeld /\ Loop!QuitIsKept)
<1>1. LoopProofs!Spec => []LoopProofs!WaitMeansDone
  BY LoopAssumption, LoopProofs!WaitsAreOrdered DEF Loop!CallbacksAssumption
<1>2. LoopProofs!Spec => []LoopProofs!QuietAfterStop
  BY LoopAssumption, LoopProofs!NothingAfterStop DEF Loop!CallbacksAssumption
<1>3. LoopProofs!Spec => []LoopProofs!PendingIsHeld
  BY LoopAssumption, LoopProofs!NothingPendingIsLost DEF Loop!CallbacksAssumption
<1>4. LoopProofs!Spec => []LoopProofs!QuitIsKept
  BY LoopAssumption, LoopProofs!QuitReachesTheLoop DEF Loop!CallbacksAssumption
<1> QED BY <1>1, <1>2, <1>3, <1>4, UsesLoop, SameLoop, PTL
        DEF KeepsToLoop, Loop!Spec, LoopProofs!Spec
=============================================================================
