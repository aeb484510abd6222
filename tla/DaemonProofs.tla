---------------------------- MODULE DaemonProofs ----------------------------
(***************************************************************************)
(* What holds of the action queue for any number of loops, callers,        *)
(* requests, signals and spurious wakeups: it is well typed, it loses no   *)
(* wakeup, stops stay in front, it implements ActionQueue, and a flush()   *)
(* that returns has seen every action before it run.                       *)
(***************************************************************************)
EXTENDS Daemon, SequenceTheorems, TLAPS

Queued == Item \cup {StopAction}

LEMMA StopIsNoItem == StopAction \notin Item
BY ThreadsAssumption DEF Item, StopAction, Threads

-----------------------------------------------------------------------------
(* A sequence of actions that are waiting                                  *)

\* q holds some stops and then, in order, the actions of s after the first b.
Shape(q, s, b) ==
    /\ b \in 0 .. Len(s)
    /\ Len(s) <= Len(q) + b
    /\ \A i \in 1 .. Len(q) :
         /\ i + Len(s) <= Len(q) + b => q[i] = StopAction
         /\ i + Len(s) > Len(q) + b => q[i] = s[i + Len(s) - Len(q)]

LEMMA ShapeAppend ==
    ASSUME NEW q \in Seq(Queued), NEW s \in Seq(Item), NEW b \in Nat,
           Shape(q, s, b), NEW x \in Item
    PROVE  Shape(Append(q, x), Append(s, x), b)
<1> DEFINE q2 == Append(q, x)
           s2 == Append(s, x)
<1>1. Len(q) \in Nat /\ Len(s) \in Nat
    BY LenProperties
<1>2. Len(q2) = Len(q) + 1 /\ Len(s2) = Len(s) + 1
    BY DEF Queued
<1>3. /\ \A i \in 1 .. Len(q) : q2[i] = q[i]
      /\ q2[Len(q) + 1] = x
    BY DEF Queued
<1>4. /\ \A i \in 1 .. Len(s) : s2[i] = s[i]
      /\ s2[Len(s) + 1] = x
    OBVIOUS
<1>5. ASSUME NEW i \in 1 .. Len(q2)
      PROVE  /\ i + Len(s2) <= Len(q2) + b => q2[i] = StopAction
             /\ i + Len(s2) > Len(q2) + b => q2[i] = s2[i + Len(s2) - Len(q2)]
  <2> HIDE DEF q2, s2
  <2>1. CASE i = Len(q) + 1
    <3>1. i + Len(s2) > Len(q2) + b
        BY <2>1, <1>1, <1>2 DEF Shape
    <3>2. i + Len(s2) - Len(q2) = Len(s) + 1
        BY <2>1, <1>1, <1>2
    <3> QED BY <3>1, <3>2, <2>1, <1>1, <1>2, <1>3, <1>4
  <2>2. CASE i \in 1 .. Len(q)
    <3>1. i + Len(s2) - Len(q2) = i + Len(s) - Len(q)
        BY <1>1, <1>2
    <3>2. i + Len(s) > Len(q) + b => i + Len(s) - Len(q) \in 1 .. Len(s)
        BY <1>1, <2>2 DEF Shape
    <3>3. i + Len(s2) <= Len(q2) + b <=> i + Len(s) <= Len(q) + b
        BY <1>1, <1>2, <2>2
    <3>4. i + Len(s2) > Len(q2) + b <=> i + Len(s) > Len(q) + b
        BY <1>1, <1>2, <2>2
    <3>5. q2[i] = q[i]
        BY <1>3, <2>2
    <3>6. ASSUME i + Len(s) > Len(q) + b
          PROVE  q[i] = s2[i + Len(s) - Len(q)]
        BY <3>2, <3>6, <2>2, <1>4 DEF Shape
    <3>7. ASSUME i + Len(s) <= Len(q) + b
          PROVE  q[i] = StopAction
        BY <3>7, <2>2 DEF Shape
    <3> QED BY <3>1, <3>3, <3>4, <3>5, <3>6, <3>7
  <2> QED BY <2>1, <2>2, <1>1, <1>2
<1>6. b \in 0 .. Len(s2) /\ Len(s2) <= Len(q2) + b
    BY <1>1, <1>2 DEF Shape
<1> QED BY <1>5, <1>6 DEF Shape

LEMMA ShapeStop ==
    ASSUME NEW q \in Seq(Queued), NEW s \in Seq(Item), NEW b \in Nat, Shape(q, s, b)
    PROVE  /\ Shape(<<StopAction>> \o q, s, b)
           /\ Len(s) < Len(<<StopAction>> \o q) + b
<1> DEFINE q2 == <<StopAction>> \o q
<1>1. Len(q) \in Nat /\ Len(s) \in Nat
    BY LenProperties
<1>2. <<StopAction>> \in Seq(Queued)
    BY DEF Queued
<1>3. Len(q2) = Len(q) + 1
    BY <1>2, ConcatProperties
<1>4. q2[1] = StopAction /\ \A i \in 2 .. Len(q) + 1 : q2[i] = q[i - 1]
    BY <1>1, <1>2, ConcatProperties
<1> HIDE DEF q2
<1>5. ASSUME NEW i \in 1 .. Len(q2)
      PROVE  /\ i + Len(s) <= Len(q2) + b => q2[i] = StopAction
             /\ i + Len(s) > Len(q2) + b => q2[i] = s[i + Len(s) - Len(q2)]
  <2>1. CASE i = 1
      BY <2>1, <1>1, <1>3, <1>4 DEF Shape
  <2>2. CASE i \in 2 .. Len(q) + 1
    <3>1. i - 1 \in 1 .. Len(q) /\ q2[i] = q[i - 1]
        BY <2>2, <1>1, <1>4
    <3>2. i + Len(s) - Len(q2) = (i - 1) + Len(s) - Len(q)
        BY <1>1, <1>3, <2>2
    <3>3. i + Len(s) <= Len(q2) + b <=> (i - 1) + Len(s) <= Len(q) + b
        BY <1>1, <1>3, <2>2
    <3>4. i + Len(s) > Len(q2) + b <=> (i - 1) + Len(s) > Len(q) + b
        BY <1>1, <1>3, <2>2
    <3>5. /\ (i - 1) + Len(s) <= Len(q) + b => q[i - 1] = StopAction
          /\ (i - 1) + Len(s) > Len(q) + b => q[i - 1] = s[(i - 1) + Len(s) - Len(q)]
        BY <3>1 DEF Shape
    <3> QED BY <3>1, <3>2, <3>3, <3>4, <3>5
  <2> QED BY <2>1, <2>2, <1>1, <1>3
<1>6. Len(s) < Len(q2) + b
    BY <1>1, <1>3 DEF Shape
<1> QED BY <1>5, <1>6, <1>1, <1>3 DEF Shape, q2

LEMMA TailOf ==
    ASSUME NEW q \in Seq(Queued), q # << >>
    PROVE  /\ Tail(q) \in Seq(Queued) /\ Head(q) = q[1] /\ Head(q) \in Queued
           /\ Len(q) \in Nat /\ Len(q) >= 1 /\ Len(Tail(q)) = Len(q) - 1
           /\ \A i \in 1 .. Len(q) - 1 : Tail(q)[i] = q[i + 1]
BY HeadTailProperties, LenProperties, EmptySeq

LEMMA ShapePopStop ==
    ASSUME NEW q \in Seq(Queued), NEW s \in Seq(Item), NEW b \in Nat,
           Shape(q, s, b), q # << >>, Head(q) = StopAction
    PROVE  Shape(Tail(q), s, b) /\ Len(s) < Len(q) + b
<1>1. Len(s) \in Nat
    BY LenProperties
<1>2. Len(s) < Len(q) + b
  <2> SUFFICES ASSUME Len(s) = Len(q) + b PROVE FALSE
      BY <1>1, TailOf DEF Shape
  <2>1. q[1] = s[1 + Len(s) - Len(q)] /\ 1 + Len(s) - Len(q) \in 1 .. Len(s)
      BY <1>1, TailOf DEF Shape
  <2>2. q[1] \in Item
      BY <2>1, ElementOfSeq
  <2> QED BY <2>2, TailOf, StopIsNoItem
<1>3. ASSUME NEW i \in 1 .. Len(q) - 1
      PROVE  /\ i + Len(s) <= (Len(q) - 1) + b => Tail(q)[i] = StopAction
             /\ i + Len(s) > (Len(q) - 1) + b => Tail(q)[i] = s[i + Len(s) - (Len(q) - 1)]
  <2>1. i + 1 \in 1 .. Len(q) /\ Tail(q)[i] = q[i + 1]
      BY TailOf
  <2>2. i + Len(s) - (Len(q) - 1) = (i + 1) + Len(s) - Len(q)
      BY <1>1, TailOf
  <2> QED BY <2>1, <2>2, <1>1, TailOf DEF Shape
<1> QED BY <1>1, <1>2, <1>3, TailOf DEF Shape

LEMMA ShapePopItem ==
    ASSUME NEW q \in Seq(Queued), NEW s \in Seq(Item), NEW b \in Nat,
           Shape(q, s, b), q # << >>, Head(q) # StopAction
    PROVE  /\ Len(s) = Len(q) + b /\ b < Len(s) /\ Head(q) = s[b + 1]
           /\ Shape(Tail(q), s, b + 1)
<1>1. Len(s) \in Nat
    BY LenProperties
<1>2. Len(s) = Len(q) + b
    BY <1>1, TailOf DEF Shape
<1>3. b < Len(s)
    BY <1>1, <1>2, TailOf
<1>4. 1 + Len(s) - Len(q) = b + 1
    BY <1>1, <1>2, TailOf
<1>5. Head(q) = s[b + 1]
    BY <1>1, <1>2, <1>4, TailOf DEF Shape
<1>6. ASSUME NEW i \in 1 .. Len(q) - 1
      PROVE  /\ i + Len(s) <= (Len(q) - 1) + (b + 1) => Tail(q)[i] = StopAction
             /\ i + Len(s) > (Len(q) - 1) + (b + 1)
                  => Tail(q)[i] = s[i + Len(s) - (Len(q) - 1)]
  <2>1. i + 1 \in 1 .. Len(q) /\ Tail(q)[i] = q[i + 1]
      BY TailOf
  <2>2. i + Len(s) - (Len(q) - 1) = (i + 1) + Len(s) - Len(q)
      BY <1>1, TailOf
  <2> QED BY <2>1, <2>2, <1>1, <1>2, TailOf DEF Shape
<1> QED BY <1>1, <1>2, <1>3, <1>5, <1>6, TailOf DEF Shape

-----------------------------------------------------------------------------
(* Types, places and wakeups                                               *)

MainPlaces == {"begin", "started", "dequeue", "check", "wait", "act",
               "unregister", "returned"}
OtherPlaces == {"idle", "enqueue", "notify", "await", "stopping", "joining"}

Placed ==
    /\ pc[Main] \in MainPlaces
    /\ \A t \in LoopThreads \cup Callers : pc[t] \in OtherPlaces
    /\ \A t \in Threads : pc[t] = "enqueue" => calls[t] \in 1 .. MAX_REQUESTS

\* Only the main thread sleeps, and only inside wait().
Sleeps == asleep => pc[Main] = "wait"

Alert == TypeOK /\ Placed /\ Sleeps /\ NoLostWakeup

LEMMA Enqueued ==
    ASSUME Placed, NEW t \in Threads, pc[t] = "enqueue"
    PROVE  Action(t) \in Item
<1>1. t # Main
    BY DEF Placed, MainPlaces
<1>2. t \in LoopThreads \cup Callers
    BY <1>1 DEF Threads
<1> QED BY <1>2 DEF Placed, Action, Item

LEMMA StopsPushed ==
    ASSUME NEW q \in Seq(Queued)
    PROVE  <<StopAction>> \o q \in Seq(Queued)
BY ConcatProperties DEF Queued

LEMMA AlertInit == Init => Alert
<1> SUFFICES ASSUME Init PROVE Alert
    OBVIOUS
<1>1. TypeOK
    BY EmptySeq, ThreadsAssumption DEF Init, TypeOK, Labels, Threads, StopAction
<1>2. Placed
    BY ThreadsAssumption DEF Init, Placed, MainPlaces, OtherPlaces, Threads
<1>3. Sleeps /\ NoLostWakeup
    BY DEF Init, Sleeps, NoLostWakeup
<1> QED BY <1>1, <1>2, <1>3 DEF Alert

LEMMA AlertStep ==
    ASSUME Alert, [Next]_vars
    PROVE  Alert'
<1> USE DEF queue, loop, requests, bounds, history
<1>0. /\ Main \in Threads /\ Main \notin LoopThreads \cup Callers
      /\ Threads = {Main} \cup LoopThreads \cup Callers
      /\ NoThread \notin Threads
    BY ThreadsAssumption DEF Threads
<1>1. ASSUME Start PROVE Alert'
  <2>1. TypeOK'
      BY <1>0, <1>1 DEF Start, At, Goto, Alert, TypeOK, Labels, Queued
  <2>2. Placed'
      BY <1>0, <1>1 DEF Start, At, Goto, Alert, TypeOK, Placed, MainPlaces, OtherPlaces
  <2>3. Sleeps'
      BY <1>0, <1>1 DEF Start, At, Goto, Alert, TypeOK, Placed, MainPlaces, OtherPlaces, Sleeps
  <2>4. NoLostWakeup'
      BY <1>0, <1>1 DEF Start, At, Goto, Alert, TypeOK, Sleeps, NoLostWakeup, AboutToNotify
  <2> QED BY <2>1, <2>2, <2>3, <2>4 DEF Alert
<1>2. ASSUME EnterLoop PROVE Alert'
  <2>1. TypeOK'
      BY <1>0, <1>2 DEF EnterLoop, At, Goto, Alert, TypeOK, Labels, Queued
  <2>2. Placed'
      BY <1>0, <1>2 DEF EnterLoop, At, Goto, Alert, TypeOK, Placed, MainPlaces, OtherPlaces
  <2>3. Sleeps'
      BY <1>0, <1>2 DEF EnterLoop, At, Goto, Alert, TypeOK, Placed, MainPlaces, OtherPlaces, Sleeps
  <2>4. NoLostWakeup'
      BY <1>0, <1>2 DEF EnterLoop, At, Goto, Alert, TypeOK, Sleeps, NoLostWakeup, AboutToNotify
  <2> QED BY <2>1, <2>2, <2>3, <2>4 DEF Alert
<1>3. ASSUME DequeueLock PROVE Alert'
  <2>1. TypeOK'
      BY <1>0, <1>3 DEF DequeueLock, At, Goto, Alert, TypeOK, Labels, Queued
  <2>2. Placed'
      BY <1>0, <1>3 DEF DequeueLock, At, Goto, Alert, TypeOK, Placed, MainPlaces, OtherPlaces
  <2>3. Sleeps'
      BY <1>0, <1>3 DEF DequeueLock, At, Goto, Alert, TypeOK, Placed, MainPlaces, OtherPlaces, Sleeps
  <2>4. NoLostWakeup'
      BY <1>0, <1>3 DEF DequeueLock, At, Goto, Alert, TypeOK, Sleeps, NoLostWakeup, AboutToNotify
  <2> QED BY <2>1, <2>2, <2>3, <2>4 DEF Alert
<1>4. ASSUME DequeueWait PROVE Alert'
  <2>1. TypeOK'
      BY <1>0, <1>4 DEF DequeueWait, At, Goto, Alert, TypeOK, Labels, Queued
  <2>2. Placed'
      BY <1>0, <1>4 DEF DequeueWait, At, Goto, Alert, TypeOK, Placed, MainPlaces, OtherPlaces
  <2>3. Sleeps'
      BY <1>0, <1>4 DEF DequeueWait, At, Goto, Alert, TypeOK, Placed, MainPlaces, OtherPlaces, Sleeps
  <2>4. NoLostWakeup'
      BY <1>0, <1>4 DEF DequeueWait, At, Goto, Alert, TypeOK, Sleeps, NoLostWakeup, AboutToNotify
  <2> QED BY <2>1, <2>2, <2>3, <2>4 DEF Alert
<1>5. ASSUME DequeuePop PROVE Alert'
  <2>1. TypeOK'
      BY <1>0, <1>5, TailOf DEF DequeuePop, At, Goto, Alert, TypeOK, Labels, Queued
  <2>2. Placed'
      BY <1>0, <1>5 DEF DequeuePop, At, Goto, Alert, TypeOK, Placed, MainPlaces, OtherPlaces
  <2>3. Sleeps'
      BY <1>0, <1>5 DEF DequeuePop, At, Goto, Alert, TypeOK, Placed, MainPlaces, OtherPlaces, Sleeps
  <2>4. NoLostWakeup'
      BY <1>0, <1>5 DEF DequeuePop, At, Goto, Alert, TypeOK, Sleeps, NoLostWakeup, AboutToNotify
  <2> QED BY <2>1, <2>2, <2>3, <2>4 DEF Alert
<1>6. ASSUME ActStop PROVE Alert'
  <2>1. TypeOK'
      BY <1>0, <1>6 DEF ActStop, At, Goto, Alert, TypeOK, Labels, Queued
  <2>2. Placed'
      BY <1>0, <1>6 DEF ActStop, At, Goto, Alert, TypeOK, Placed, MainPlaces, OtherPlaces
  <2>3. Sleeps'
      BY <1>0, <1>6 DEF ActStop, At, Goto, Alert, TypeOK, Placed, MainPlaces, OtherPlaces, Sleeps
  <2>4. NoLostWakeup'
      BY <1>0, <1>6 DEF ActStop, At, Goto, Alert, TypeOK, Sleeps, NoLostWakeup, AboutToNotify
  <2> QED BY <2>1, <2>2, <2>3, <2>4 DEF Alert
<1>7. ASSUME Act PROVE Alert'
  <2>1. TypeOK'
    <3>1. ev \in Item /\ done' \in Seq(Item)
        BY <1>7 DEF Act, Alert, TypeOK, Queued
    <3>2. flushed' \in [Threads -> BOOLEAN]
        BY <1>7 DEF Act, Alert, TypeOK
    <3>3. pc' \in [Threads -> Labels]
        BY <1>0, <1>7 DEF Act, Goto, Alert, TypeOK, Labels
    <3> QED BY <1>7, <3>1, <3>2, <3>3 DEF Act, Alert, TypeOK
  <2>2. Placed'
      BY <1>0, <1>7 DEF Act, At, Goto, Alert, TypeOK, Placed, MainPlaces, OtherPlaces
  <2>3. Sleeps'
      BY <1>0, <1>7 DEF Act, At, Goto, Alert, TypeOK, Placed, MainPlaces, OtherPlaces, Sleeps
  <2>4. NoLostWakeup'
      BY <1>0, <1>7 DEF Act, At, Goto, Alert, TypeOK, Sleeps, NoLostWakeup, AboutToNotify
  <2> QED BY <2>1, <2>2, <2>3, <2>4 DEF Alert
<1>8. ASSUME Return PROVE Alert'
  <2>1. TypeOK'
      BY <1>0, <1>8 DEF Return, At, Goto, Alert, TypeOK, Labels, Queued
  <2>2. Placed'
      BY <1>0, <1>8 DEF Return, At, Goto, Alert, TypeOK, Placed, MainPlaces, OtherPlaces
  <2>3. Sleeps'
      BY <1>0, <1>8 DEF Return, At, Goto, Alert, TypeOK, Placed, MainPlaces, OtherPlaces, Sleeps
  <2>4. NoLostWakeup'
      BY <1>0, <1>8 DEF Return, At, Goto, Alert, TypeOK, Sleeps, NoLostWakeup, AboutToNotify
  <2> QED BY <2>1, <2>2, <2>3, <2>4 DEF Alert
<1>9. ASSUME SpuriousWakeup PROVE Alert'
  <2>1. TypeOK'
    <3>0. spurious \in Nat /\ spurious' = spurious + 1
        BY <1>9 DEF SpuriousWakeup, Alert, TypeOK
    <3>1. spurious' \in Nat
        BY <3>0
    <3>3. asleep' \in BOOLEAN
        BY <1>9 DEF SpuriousWakeup
    <3>2. UNCHANGED <<pc, handler, mutex, action_queue, running, ev, registered,
                      calls, flushed, signals, sent, done, asked>>
        BY <1>9 DEF SpuriousWakeup
    <3> QED BY <3>1, <3>2, <3>3 DEF Alert, TypeOK
  <2>2. Placed'
      BY <1>0, <1>9 DEF SpuriousWakeup, At, Goto, Alert, TypeOK, Placed, MainPlaces, OtherPlaces
  <2>3. Sleeps'
      BY <1>0, <1>9 DEF SpuriousWakeup, At, Goto, Alert, TypeOK, Placed, MainPlaces, OtherPlaces, Sleeps
  <2>4. NoLostWakeup'
      BY <1>0, <1>9 DEF SpuriousWakeup, At, Goto, Alert, TypeOK, Sleeps, NoLostWakeup, AboutToNotify
  <2> QED BY <2>1, <2>2, <2>3, <2>4 DEF Alert
<1>10. ASSUME NEW t \in Threads, Enqueue(t) PROVE Alert'
  <2>1. TypeOK'
      BY <1>0, <1>10, Enqueued DEF Enqueue, enqueue_action, At, Goto, Alert, TypeOK, Labels, Queued
  <2>2. Placed'
      BY <1>0, <1>10 DEF Enqueue, enqueue_action, At, Goto, Alert, TypeOK, Placed, MainPlaces, OtherPlaces
  <2>3. Sleeps'
      BY <1>0, <1>10 DEF Enqueue, enqueue_action, At, Goto, Alert, TypeOK, Placed, MainPlaces, OtherPlaces, Sleeps
  <2>4. NoLostWakeup'
      BY <1>0, <1>10 DEF Enqueue, enqueue_action, At, Goto, Alert, TypeOK, Sleeps, NoLostWakeup, AboutToNotify
  <2> QED BY <2>1, <2>2, <2>3, <2>4 DEF Alert
<1>11. ASSUME NEW t \in Threads, Notify(t) PROVE Alert'
  <2>1. TypeOK'
      BY <1>0, <1>11 DEF Notify, notify_and_unlock, notify_one, At, Goto, Alert, TypeOK, Labels, Queued
  <2>2. Placed'
      BY <1>0, <1>11 DEF Notify, notify_and_unlock, notify_one, At, Goto, Alert, TypeOK, Placed, MainPlaces, OtherPlaces
  <2>3. Sleeps'
      BY <1>0, <1>11 DEF Notify, notify_and_unlock, notify_one, At, Goto, Alert, TypeOK, Placed, MainPlaces, OtherPlaces, Sleeps
  <2>4. NoLostWakeup'
      BY <1>0, <1>11 DEF Notify, notify_and_unlock, notify_one, At, Goto, Alert, TypeOK, Sleeps, NoLostWakeup, AboutToNotify
  <2> QED BY <2>1, <2>2, <2>3, <2>4 DEF Alert
<1>12. ASSUME NEW t \in Threads, Flushed(t) PROVE Alert'
  <2>1. TypeOK'
      BY <1>0, <1>12 DEF Flushed, At, Goto, Alert, TypeOK, Labels, Queued
  <2>2. Placed'
      BY <1>0, <1>12 DEF Flushed, At, Goto, Alert, TypeOK, Placed, MainPlaces, OtherPlaces
  <2>3. Sleeps'
      BY <1>0, <1>12 DEF Flushed, At, Goto, Alert, TypeOK, Placed, MainPlaces, OtherPlaces, Sleeps
  <2>4. NoLostWakeup'
      BY <1>0, <1>12 DEF Flushed, At, Goto, Alert, TypeOK, Sleeps, NoLostWakeup, AboutToNotify
  <2> QED BY <2>1, <2>2, <2>3, <2>4 DEF Alert
<1>13. ASSUME NEW t \in Threads, StopNotify(t) PROVE Alert'
  <2>1. TypeOK'
      BY <1>0, <1>13 DEF StopNotify, notify_and_unlock, notify_one, At, Goto, Alert, TypeOK, Labels, Queued
  <2>2. Placed'
      BY <1>0, <1>13 DEF StopNotify, notify_and_unlock, notify_one, At, Goto, Alert, TypeOK, Placed, MainPlaces, OtherPlaces
  <2>3. Sleeps'
      BY <1>0, <1>13 DEF StopNotify, notify_and_unlock, notify_one, At, Goto, Alert, TypeOK, Placed, MainPlaces, OtherPlaces, Sleeps
  <2>4. NoLostWakeup'
      BY <1>0, <1>13 DEF StopNotify, notify_and_unlock, notify_one, At, Goto, Alert, TypeOK, Sleeps, NoLostWakeup, AboutToNotify
  <2> QED BY <2>1, <2>2, <2>3, <2>4 DEF Alert
<1>14. ASSUME NEW t \in Threads, stop_daemon(t) PROVE Alert'
  <2>1. TypeOK'
      BY <1>0, <1>14, StopsPushed DEF stop_daemon, enqueue_priority_action, At, Goto, Alert, TypeOK, Labels, Queued
  <2>2. Placed'
      BY <1>0, <1>14 DEF stop_daemon, enqueue_priority_action, At, Goto, Alert, TypeOK, Placed, MainPlaces, OtherPlaces
  <2>3. Sleeps'
      BY <1>0, <1>14 DEF stop_daemon, enqueue_priority_action, At, Goto, Alert, TypeOK, Placed, MainPlaces, OtherPlaces, Sleeps
  <2>4. NoLostWakeup'
      BY <1>0, <1>14 DEF stop_daemon, enqueue_priority_action, At, Goto, Alert, TypeOK, Sleeps, NoLostWakeup, AboutToNotify
  <2> QED BY <2>1, <2>2, <2>3, <2>4 DEF Alert
<1>15. ASSUME NEW t \in Threads, stop_daemon_returns(t) PROVE Alert'
  <2>1. TypeOK'
      BY <1>0, <1>15 DEF stop_daemon_returns, notify_and_unlock, notify_one, At, Goto, Alert, TypeOK, Labels, Queued
  <2>2. Placed'
      BY <1>0, <1>15 DEF stop_daemon_returns, notify_and_unlock, notify_one, At, Goto, Alert, TypeOK, Placed, MainPlaces, OtherPlaces
  <2>3. Sleeps'
      BY <1>0, <1>15 DEF stop_daemon_returns, notify_and_unlock, notify_one, At, Goto, Alert, TypeOK, Placed, MainPlaces, OtherPlaces, Sleeps
  <2>4. NoLostWakeup'
      BY <1>0, <1>15 DEF stop_daemon_returns, notify_and_unlock, notify_one, At, Goto, Alert, TypeOK, Sleeps, NoLostWakeup, AboutToNotify
  <2> QED BY <2>1, <2>2, <2>3, <2>4 DEF Alert
<1>16. ASSUME NEW t \in Threads, Request(t) PROVE Alert'
  <2>1. TypeOK'
      BY <1>0, <1>16 DEF Request, At, Goto, Alert, TypeOK, Labels, Queued
  <2>2. Placed'
    <3>1. pc'[Main] \in MainPlaces
        BY <1>0, <1>16 DEF Request, Goto, Alert, TypeOK, Placed
    <3>2. \A u \in LoopThreads \cup Callers : pc'[u] \in OtherPlaces
        BY <1>0, <1>16 DEF Request, Goto, Alert, TypeOK, Placed, OtherPlaces
    <3>3. calls'[t] \in 1 .. MAX_REQUESTS
        BY <1>16, BoundsAssumption DEF Request, Alert, TypeOK
    <3>4. \A u \in Threads \ {t} : pc'[u] = pc[u] /\ calls'[u] = calls[u]
        BY <1>16 DEF Request, Goto, Alert, TypeOK
    <3> QED BY <3>1, <3>2, <3>3, <3>4 DEF Alert, Placed
  <2>3. Sleeps'
      BY <1>0, <1>16 DEF Request, At, Goto, Alert, TypeOK, Placed, MainPlaces, OtherPlaces, Sleeps
  <2>4. NoLostWakeup'
      BY <1>0, <1>16 DEF Request, At, Goto, Alert, TypeOK, Sleeps, NoLostWakeup, AboutToNotify
  <2> QED BY <2>1, <2>2, <2>3, <2>4 DEF Alert
<1>17. ASSUME NEW t \in Threads, flush(t) PROVE Alert'
  <2>1. TypeOK'
      BY <1>0, <1>17 DEF flush, At, Goto, Alert, TypeOK, Labels, Queued
  <2>2. Placed'
    <3>1. pc'[Main] \in MainPlaces
        BY <1>0, <1>17 DEF flush, Goto, Alert, TypeOK, Placed
    <3>2. \A u \in LoopThreads \cup Callers : pc'[u] \in OtherPlaces
        BY <1>0, <1>17 DEF flush, Goto, Alert, TypeOK, Placed, OtherPlaces
    <3>3. calls'[t] \in 1 .. MAX_REQUESTS
        BY <1>17, BoundsAssumption DEF flush, Alert, TypeOK
    <3>4. \A u \in Threads \ {t} : pc'[u] = pc[u] /\ calls'[u] = calls[u]
        BY <1>17 DEF flush, Goto, Alert, TypeOK
    <3> QED BY <3>1, <3>2, <3>3, <3>4 DEF Alert, Placed
  <2>3. Sleeps'
      BY <1>0, <1>17 DEF flush, At, Goto, Alert, TypeOK, Placed, MainPlaces, OtherPlaces, Sleeps
  <2>4. NoLostWakeup'
      BY <1>0, <1>17 DEF flush, At, Goto, Alert, TypeOK, Sleeps, NoLostWakeup, AboutToNotify
  <2> QED BY <2>1, <2>2, <2>3, <2>4 DEF Alert
<1>18. ASSUME NEW t \in Threads, stop(t) PROVE Alert'
  <2>1. TypeOK'
      BY <1>0, <1>18, StopsPushed DEF stop, enqueue_priority_action, At, Goto, Alert, TypeOK, Labels, Queued
  <2>2. Placed'
      BY <1>0, <1>18 DEF stop, enqueue_priority_action, At, Goto, Alert, TypeOK, Placed, MainPlaces, OtherPlaces
  <2>3. Sleeps'
      BY <1>0, <1>18 DEF stop, enqueue_priority_action, At, Goto, Alert, TypeOK, Placed, MainPlaces, OtherPlaces, Sleeps
  <2>4. NoLostWakeup'
      BY <1>0, <1>18 DEF stop, enqueue_priority_action, At, Goto, Alert, TypeOK, Sleeps, NoLostWakeup, AboutToNotify
  <2> QED BY <2>1, <2>2, <2>3, <2>4 DEF Alert
<1>21. ASSUME NEW t \in Threads, push_front_caught(t) PROVE Alert'
  <2>1. TypeOK'
      BY <1>0, <1>21 DEF push_front_caught, Alert, TypeOK, Labels, Queued
  <2>2. Placed'
      BY <1>0, <1>21 DEF push_front_caught, Alert, TypeOK, Placed, MainPlaces, OtherPlaces
  <2>3. Sleeps'
      BY <1>0, <1>21 DEF push_front_caught, Alert, TypeOK, Placed, MainPlaces, OtherPlaces, Sleeps
  <2>4. NoLostWakeup'
      BY <1>0, <1>21 DEF push_front_caught, Alert, TypeOK, Sleeps, NoLostWakeup, AboutToNotify
  <2> QED BY <2>1, <2>2, <2>3, <2>4 DEF Alert
<1>19. ASSUME NEW t \in Threads, Signal(t) PROVE Alert'
  <2>1. TypeOK'
      BY <1>0, <1>19 DEF Signal, At, Goto, Alert, TypeOK, Labels, Queued
  <2>2. Placed'
      BY <1>0, <1>19 DEF Signal, At, Goto, Alert, TypeOK, Placed, MainPlaces, OtherPlaces
  <2>3. Sleeps'
      BY <1>0, <1>19 DEF Signal, At, Goto, Alert, TypeOK, Placed, MainPlaces, OtherPlaces, Sleeps
  <2>4. NoLostWakeup'
      BY <1>0, <1>19 DEF Signal, At, Goto, Alert, TypeOK, Sleeps, NoLostWakeup, AboutToNotify
  <2> QED BY <2>1, <2>2, <2>3, <2>4 DEF Alert
<1>20. ASSUME UNCHANGED vars PROVE Alert'
    BY <1>20 DEF vars, Alert, TypeOK, Placed, Sleeps, NoLostWakeup, AboutToNotify
<1> QED
    BY <1>1, <1>2, <1>3, <1>4, <1>5, <1>6, <1>7, <1>8, <1>9, <1>10, <1>11, <1>12, <1>13, <1>14, <1>15, <1>16, <1>17, <1>18, <1>19, <1>20,
       <1>21
    DEF Next, MainStep, ThreadStep, HandlerStep

-----------------------------------------------------------------------------
(* What is in the queue, and what has been taken from it                   *)

\* An action, not a stop, that the main thread has taken up and not yet run.
Taken == pc[Main] = "act" /\ ev # StopAction

Begun == Len(done) + IF Taken THEN 1 ELSE 0

InOrder ==
    /\ Shape(action_queue, sent, Begun)
    /\ Taken => ev = sent[Begun]
    /\ \A i \in 1 .. Len(done) : done[i] = sent[i]

\* Where a stop is once it has been pushed.
StopPending ==
    \/ Len(sent) < Len(action_queue) + Begun
    \/ pc[Main] = "act" /\ ev = StopAction
    \/ pc[Main] \in {"unregister", "returned"}

Stopping == asked <=> StopPending

InLoop == {"dequeue", "check", "wait", "act"}
Looping == pc[Main] \in InLoop => running

Orderly == InOrder /\ Stopping /\ Looping

DaemonInv == Alert /\ Orderly

LEMMA OrderlyTypes ==
    ASSUME Alert
    PROVE  /\ action_queue \in Seq(Queued) /\ sent \in Seq(Item) /\ done \in Seq(Item)
           /\ Len(action_queue) \in Nat /\ Len(sent) \in Nat /\ Len(done) \in Nat
           /\ Begun \in Nat
<1>1. action_queue \in Seq(Queued) /\ sent \in Seq(Item) /\ done \in Seq(Item)
    BY DEF Alert, TypeOK, Queued
<1>2. Len(action_queue) \in Nat /\ Len(sent) \in Nat /\ Len(done) \in Nat
    BY <1>1, LenProperties
<1> QED BY <1>1, <1>2 DEF Begun

LEMMA OrderlyInit == Init => Orderly
<1> SUFFICES ASSUME Init PROVE Orderly
    OBVIOUS
<1>1. action_queue = << >> /\ sent = << >> /\ done = << >> /\ asked = FALSE
    BY DEF Init
<1>2. Len(action_queue) = 0 /\ Len(sent) = 0 /\ Len(done) = 0
    BY <1>1
<1>3. pc[Main] = "begin"
    BY DEF Init, Threads
<1>4. Begun = 0 /\ ~ Taken
    BY <1>2, <1>3 DEF Begun, Taken
<1>5. InOrder
    BY <1>2, <1>4 DEF InOrder, Shape
<1>6. ~ StopPending
    BY <1>2, <1>3, <1>4 DEF StopPending
<1> QED BY <1>1, <1>3, <1>5, <1>6 DEF Orderly, Stopping, Looping, InLoop

\* A step that leaves the queue alone and the main thread where it is, as far as
\* the order goes.
Quiet ==
    /\ UNCHANGED <<action_queue, sent, done, ev, asked>>
    /\ \A place \in {"act", "unregister", "returned"} :
         pc'[Main] = place <=> pc[Main] = place
    /\ Looping => Looping'

LEMMA OrderlyQuiet ==
    ASSUME Orderly, Quiet
    PROVE  Orderly'
<1>1. (Taken' <=> Taken) /\ Begun' = Begun
    BY DEF Taken, Begun, Quiet
<1>2. InOrder'
    BY <1>1 DEF Orderly, InOrder, Shape, Quiet
<1>3. StopPending' <=> StopPending
    BY <1>1 DEF StopPending, Quiet
<1> QED BY <1>2, <1>3 DEF Orderly, Stopping, Quiet

LEMMA OrderlyEnqueue ==
    ASSUME Alert, Orderly, NEW t \in Threads, Enqueue(t)
    PROVE  Orderly'
<1>1. t # Main /\ pc'[Main] = pc[Main]
  <2>1. t # Main
      BY DEF Enqueue, At, Alert, Placed, MainPlaces
  <2> QED BY <2>1 DEF Enqueue, Goto, Alert, TypeOK, Threads
<1>2. /\ Action(t) \in Item
      /\ action_queue' = Append(action_queue, Action(t))
      /\ sent' = Append(sent, Action(t))
      /\ UNCHANGED <<done, ev, asked, running>>
    BY Enqueued DEF Enqueue, enqueue_action, At, Alert, loop
<1>3. (Taken' <=> Taken) /\ Begun' = Begun
    BY <1>1, <1>2 DEF Taken, Begun
<1>4. Shape(action_queue', sent', Begun)
    BY <1>2, OrderlyTypes, ShapeAppend DEF Orderly, InOrder
<1>5. Shape(action_queue, sent, Begun)'
    BY <1>3, <1>4 DEF Shape
<1>6. \A i \in 1 .. Len(sent) : sent'[i] = sent[i]
    BY <1>2, OrderlyTypes
<1>7. Begun <= Len(sent) /\ Len(done) <= Begun
    BY OrderlyTypes DEF Orderly, InOrder, Shape, Begun
<1>8. InOrder'
  <2>1. Taken => Begun \in 1 .. Len(sent)
      BY <1>7, OrderlyTypes DEF Begun
  <2>2. Taken' => ev' = sent'[Begun']
      BY <1>2, <1>3, <1>6, <2>1 DEF Orderly, InOrder
  <2>3. \A i \in 1 .. Len(done) : i \in 1 .. Len(sent)
      BY <1>7, OrderlyTypes
  <2>4. (\A i \in 1 .. Len(done) : done[i] = sent[i])'
      BY <1>2, <1>6, <2>3 DEF Orderly, InOrder
  <2> QED BY <1>5, <2>2, <2>4 DEF InOrder
<1>9. StopPending' <=> StopPending
  <2>1. Len(sent') = Len(sent) + 1 /\ Len(action_queue') = Len(action_queue) + 1
      BY <1>2, OrderlyTypes DEF Queued
  <2>2. Len(sent') < Len(action_queue') + Begun' <=> Len(sent) < Len(action_queue) + Begun
      BY <2>1, <1>3, OrderlyTypes
  <2> QED BY <2>2, <1>1, <1>2 DEF StopPending
<1>10. Stopping'
    BY <1>2, <1>9 DEF Orderly, Stopping
<1> QED BY <1>1, <1>2, <1>8, <1>10 DEF Orderly, Looping

LEMMA OrderlyPush ==
    ASSUME Alert, Orderly, NEW t \in Threads, enqueue_priority_action(t),
           pc'[Main] = pc[Main], UNCHANGED <<sent, done, ev, running>>
    PROVE  Orderly'
<1>1. action_queue' = <<StopAction>> \o action_queue /\ asked' = TRUE
    BY DEF enqueue_priority_action
<1>2. (Taken' <=> Taken) /\ Begun' = Begun
    BY DEF Taken, Begun
<1>3. /\ Shape(action_queue', sent, Begun)
      /\ Len(sent) < Len(action_queue') + Begun
    BY <1>1, OrderlyTypes, ShapeStop DEF Orderly, InOrder
<1>4. InOrder'
    BY <1>2, <1>3 DEF Orderly, InOrder, Shape
<1>5. StopPending'
    BY <1>2, <1>3 DEF StopPending
<1> QED BY <1>1, <1>4, <1>5 DEF Orderly, Stopping, Looping

LEMMA OrderlyPop ==
    ASSUME Alert, Orderly, DequeuePop
    PROVE  Orderly'
<1>1. /\ pc[Main] = "check" /\ action_queue # << >>
      /\ ev' = Head(action_queue) /\ action_queue' = Tail(action_queue)
      /\ UNCHANGED <<running, sent, done, asked>>
    BY DEF DequeuePop, At, requests, bounds, history
<1>2. pc'[Main] = "act"
    BY DEF DequeuePop, Goto, Alert, TypeOK, Threads
<1>3. ~ Taken /\ Begun = Len(done)
    BY <1>1, OrderlyTypes DEF Taken, Begun
<1>4. Shape(action_queue, sent, Begun)
    BY DEF Orderly, InOrder
<1>5. Looping'
    BY <1>1 DEF Orderly, Looping, InLoop
<1>6. CASE Head(action_queue) = StopAction
  <2>1. ~ Taken' /\ Begun' = Begun
      BY <1>1, <1>3, <1>6, OrderlyTypes DEF Taken, Begun
  <2>2. Shape(action_queue', sent, Begun) /\ Len(sent) < Len(action_queue) + Begun
      BY <1>1, <1>4, <1>6, OrderlyTypes, ShapePopStop
  <2>3. InOrder'
      BY <1>1, <2>1, <2>2 DEF Orderly, InOrder, Shape
  <2>4. StopPending /\ StopPending'
      BY <1>1, <1>2, <1>6, <2>2 DEF StopPending
  <2> QED BY <1>1, <1>5, <2>3, <2>4 DEF Orderly, Stopping
<1>7. CASE Head(action_queue) # StopAction
  <2>1. Taken' /\ Begun' = Begun + 1
      BY <1>1, <1>2, <1>3, <1>7, OrderlyTypes DEF Taken, Begun
  <2>2. /\ Len(sent) = Len(action_queue) + Begun
        /\ Head(action_queue) = sent[Begun + 1]
        /\ Shape(action_queue', sent, Begun + 1)
      BY <1>1, <1>4, <1>7, OrderlyTypes, ShapePopItem
  <2>3. InOrder'
    <3>1. Shape(action_queue, sent, Begun)'
        BY <1>1, <2>1, <2>2 DEF Shape
    <3>2. ev' = sent'[Begun']
        BY <1>1, <2>1, <2>2
    <3> QED BY <1>1, <3>1, <3>2 DEF Orderly, InOrder
  <2>4. ~ StopPending
      BY <1>1, <2>2, OrderlyTypes DEF StopPending
  <2>5. ~ StopPending'
    <3>1. Len(action_queue') = Len(action_queue) - 1
        BY <1>1, OrderlyTypes, TailOf
    <3>2. ~ (Len(sent') < Len(action_queue') + Begun')
        BY <1>1, <2>1, <2>2, <3>1, OrderlyTypes
    <3>3. ev' # StopAction
        BY <1>1, <1>7
    <3> QED BY <1>2, <3>2, <3>3 DEF StopPending
  <2> QED BY <1>1, <1>5, <2>3, <2>4, <2>5 DEF Orderly, Stopping
<1> QED BY <1>6, <1>7

LEMMA OrderlyAct ==
    ASSUME Alert, Orderly, Act
    PROVE  Orderly'
<1>1. /\ pc[Main] = "act" /\ ev # StopAction /\ running
      /\ done' = Append(done, ev)
      /\ UNCHANGED <<action_queue, running, ev, sent, asked>>
    BY DEF Act, At, queue, loop, bounds, Orderly, Looping, InLoop
<1>2. pc'[Main] = "dequeue"
    BY <1>1 DEF Act, Goto, Alert, TypeOK, Threads
<1>3. Taken /\ ~ Taken'
    BY <1>1, <1>2 DEF Taken
<1>4. Begun = Len(done) + 1 /\ ev = sent[Begun]
    BY <1>3 DEF Begun, Orderly, InOrder
<1>5. ev \in Item
    BY <1>1 DEF Alert, TypeOK
<1>6. /\ Len(done') = Len(done) + 1 /\ done'[Len(done) + 1] = ev
      /\ \A i \in 1 .. Len(done) : done'[i] = done[i]
    BY <1>1, <1>5, OrderlyTypes
<1>7. Begun' = Begun
    BY <1>3, <1>4, <1>6, OrderlyTypes DEF Begun
<1>8. (\A i \in 1 .. Len(done) : done[i] = sent[i])'
  <2> SUFFICES ASSUME NEW i \in 1 .. Len(done) + 1 PROVE done'[i] = sent[i]
      BY <1>1, <1>6
  <2>1. CASE i = Len(done) + 1
      BY <2>1, <1>4, <1>6
  <2>2. CASE i \in 1 .. Len(done)
      BY <2>2, <1>6 DEF Orderly, InOrder
  <2> QED BY <2>1, <2>2, OrderlyTypes
<1>9. InOrder'
    BY <1>1, <1>3, <1>7, <1>8 DEF Orderly, InOrder, Shape
<1>10. StopPending' <=> StopPending
    BY <1>1, <1>2, <1>7 DEF StopPending
<1> QED BY <1>1, <1>9, <1>10 DEF Orderly, Stopping, Looping

LEMMA OrderlyActStop ==
    ASSUME Alert, Orderly, ActStop
    PROVE  Orderly'
<1>1. /\ pc[Main] = "act" /\ ev = StopAction
      /\ UNCHANGED <<action_queue, ev, sent, done, asked>>
    BY DEF ActStop, At, queue, history
<1>2. pc'[Main] = "unregister"
    BY DEF ActStop, Goto, Alert, TypeOK, Threads
<1>3. ~ Taken /\ ~ Taken' /\ Begun' = Begun
    BY <1>1, <1>2 DEF Taken, Begun
<1>4. InOrder'
    BY <1>1, <1>3 DEF Orderly, InOrder, Shape
<1>5. StopPending /\ StopPending'
    BY <1>1, <1>2 DEF StopPending
<1> QED BY <1>1, <1>2, <1>4, <1>5 DEF Orderly, Stopping, Looping, InLoop

-----------------------------------------------------------------------------
(* The invariant                                                           *)

QuietThread(t) ==
    \/ Notify(t) \/ Flushed(t) \/ StopNotify(t) \/ stop_daemon_returns(t)
    \/ Request(t) \/ flush(t) \/ Signal(t) \/ push_front_caught(t)

QuietStep ==
    \/ Start \/ EnterLoop \/ DequeueLock \/ DequeueWait \/ SpuriousWakeup
    \/ \E t \in Threads : QuietThread(t)
    \/ UNCHANGED vars

LEMMA QuietSteps ==
    ASSUME Alert, QuietStep
    PROVE  Quiet
<1> USE DEF queue, loop, requests, bounds, history
<1>0. Main \in Threads /\ Main \notin LoopThreads \cup Callers
    BY ThreadsAssumption DEF Threads
<1>1. ASSUME Start PROVE Quiet
    BY <1>0, <1>1 DEF Start, At, Goto, Alert, TypeOK, Quiet, Looping, InLoop
<1>2. ASSUME EnterLoop PROVE Quiet
    BY <1>0, <1>2 DEF EnterLoop, At, Goto, Alert, TypeOK, Quiet, Looping, InLoop
<1>3. ASSUME DequeueLock PROVE Quiet
    BY <1>0, <1>3 DEF DequeueLock, At, Goto, Alert, TypeOK, Quiet, Looping, InLoop
<1>4. ASSUME DequeueWait PROVE Quiet
    BY <1>0, <1>4 DEF DequeueWait, At, Goto, Alert, TypeOK, Quiet, Looping, InLoop
<1>5. ASSUME SpuriousWakeup PROVE Quiet
    BY <1>5 DEF SpuriousWakeup, Quiet, Looping
<1>6. ASSUME NEW t \in Threads, Notify(t) PROVE Quiet
  <2>1. t # Main
      BY <1>0, <1>6 DEF Notify, At, Alert, Placed, MainPlaces
  <2>2. pc'[Main] = pc[Main]
      BY <1>0, <1>6, <2>1 DEF Notify, Goto, Alert, TypeOK
  <2> QED BY <1>6, <2>2 DEF Notify, Quiet, Looping
<1>7. ASSUME NEW t \in Threads, Flushed(t) PROVE Quiet
  <2>1. t # Main
      BY <1>0, <1>7 DEF Flushed, At, Alert, Placed, MainPlaces
  <2>2. pc'[Main] = pc[Main]
      BY <1>0, <1>7, <2>1 DEF Flushed, Goto, Alert, TypeOK
  <2> QED BY <1>7, <2>2 DEF Flushed, Quiet, Looping
<1>8. ASSUME NEW t \in Threads, StopNotify(t) PROVE Quiet
  <2>1. t # Main
      BY <1>0, <1>8 DEF StopNotify, At, Alert, Placed, MainPlaces
  <2>2. pc'[Main] = pc[Main]
      BY <1>0, <1>8, <2>1 DEF StopNotify, Goto, Alert, TypeOK
  <2> QED BY <1>8, <2>2 DEF StopNotify, Quiet, Looping
<1>9. ASSUME NEW t \in Threads, stop_daemon_returns(t) PROVE Quiet
    BY <1>9 DEF stop_daemon_returns, Quiet, Looping
<1>10. ASSUME NEW t \in Threads, Request(t) PROVE Quiet
  <2>1. t # Main
      BY <1>0, <1>10 DEF Request, At, Alert, Placed, MainPlaces
  <2>2. pc'[Main] = pc[Main]
      BY <1>0, <1>10, <2>1 DEF Request, Goto, Alert, TypeOK
  <2> QED BY <1>10, <2>2 DEF Request, Quiet, Looping
<1>11. ASSUME NEW t \in Threads, flush(t) PROVE Quiet
  <2>1. t # Main
      BY <1>0, <1>11 DEF flush, At, Alert, Placed, MainPlaces
  <2>2. pc'[Main] = pc[Main]
      BY <1>0, <1>11, <2>1 DEF flush, Goto, Alert, TypeOK
  <2> QED BY <1>11, <2>2 DEF flush, Quiet, Looping
<1>12. ASSUME NEW t \in Threads, Signal(t) PROVE Quiet
    BY <1>12 DEF Signal, Quiet, Looping
<1>14. ASSUME NEW t \in Threads, push_front_caught(t) PROVE Quiet
    BY <1>14 DEF push_front_caught, Quiet, Looping
<1>13. ASSUME UNCHANGED vars PROVE Quiet
    BY <1>13 DEF vars, Quiet, Looping
<1> QED
    BY <1>1, <1>2, <1>3, <1>4, <1>5, <1>6, <1>7, <1>8, <1>9, <1>10, <1>11, <1>12, <1>13, <1>14
    DEF QuietStep, QuietThread

\* The steps that are not quiet.
LEMMA Steps ==
    ASSUME [Next]_vars
    PROVE  \/ QuietStep
           \/ DequeuePop \/ ActStop \/ Act \/ Return
           \/ \E t \in Threads : Enqueue(t) \/ stop(t) \/ stop_daemon(t)
BY DEF Next, MainStep, ThreadStep, HandlerStep, QuietStep, QuietThread

LEMMA OrderlyReturn ==
    ASSUME Alert, Orderly, Return
    PROVE  Orderly'
<1>1. /\ pc[Main] = "unregister"
      /\ UNCHANGED <<action_queue, ev, sent, done, asked>>
    BY DEF Return, At, queue, history
<1>2. pc'[Main] = "returned"
    BY DEF Return, Goto, Alert, TypeOK, Threads
<1>3. ~ Taken /\ ~ Taken' /\ Begun' = Begun
    BY <1>1, <1>2 DEF Taken, Begun
<1>4. InOrder'
    BY <1>1, <1>3 DEF Orderly, InOrder, Shape
<1>5. StopPending /\ StopPending'
    BY <1>1, <1>2 DEF StopPending
<1> QED BY <1>1, <1>2, <1>4, <1>5 DEF Orderly, Stopping, Looping, InLoop

\* A stop is pushed: by a caller's stop() or by the signal handler.
LEMMA StopSteps ==
    ASSUME Alert, NEW t \in Threads, stop(t) \/ stop_daemon(t)
    PROVE  /\ enqueue_priority_action(t) /\ pc'[Main] = pc[Main]
           /\ UNCHANGED <<sent, done, ev, running>>
<1>1. CASE stop(t)
  <2>1. t # Main
      BY <1>1, ThreadsAssumption DEF stop
  <2>2. pc'[Main] = pc[Main]
      BY <1>1, <2>1 DEF stop, Goto, Alert, TypeOK, Threads
  <2> QED BY <1>1, <2>2 DEF stop, loop
<1>2. CASE stop_daemon(t)
    BY <1>2 DEF stop_daemon, loop
<1> QED BY <1>1, <1>2

\* What DaemonInv says holds in every reachable state, whatever the threads, the
\* callers and the signals do (Daemon.cpp:33-57, 123-144, main.cpp:31-34).
THEOREM DaemonInvariance == Spec => []DaemonInv
<1>1. Init => DaemonInv
    BY AlertInit, OrderlyInit DEF DaemonInv
<1>2. DaemonInv /\ [Next]_vars => DaemonInv'
  <2> SUFFICES ASSUME Alert, Orderly, [Next]_vars PROVE Alert' /\ Orderly'
      BY DEF DaemonInv
  <2>1. Alert'
      BY AlertStep
  <2>2. CASE QuietStep
      BY <2>1, <2>2, QuietSteps, OrderlyQuiet
  <2>3. CASE DequeuePop \/ ActStop \/ Act \/ Return
      BY <2>1, <2>3, OrderlyPop, OrderlyActStop, OrderlyAct, OrderlyReturn
  <2>4. ASSUME NEW t \in Threads, Enqueue(t) PROVE Orderly'
      BY <2>4, OrderlyEnqueue
  <2>5. ASSUME NEW t \in Threads, stop(t) \/ stop_daemon(t) PROVE Orderly'
      BY <2>5, StopSteps, OrderlyPush
  <2> QED BY <2>1, <2>2, <2>3, <2>4, <2>5, Steps
<1> QED BY <1>1, <1>2, PTL DEF Spec

-----------------------------------------------------------------------------
(* What follows from it                                                    *)

\* Type correctness.
THEOREM DaemonTypeCorrect == Spec => []TypeOK
<1>1. DaemonInv => TypeOK
    BY DEF DaemonInv, Alert
<1> QED BY <1>1, DaemonInvariance, PTL

\* The main thread never sleeps on an action that nobody is about to wake it for,
\* however many threads push, and whatever signals interrupt them
\* (Daemon.cpp:123-144).
THEOREM NoWakeupLost == Spec => []NoLostWakeup
<1>1. DaemonInv => NoLostWakeup
    BY DEF DaemonInv, Alert
<1> QED BY <1>1, DaemonInvariance, PTL

\* No action is ever in front of a stop (Daemon.cpp:130-135).
THEOREM StopsInFront == Spec => []StopsFirst
<1>1. DaemonInv => StopsFirst
  <2> SUFFICES ASSUME DaemonInv, NEW i \in DOMAIN action_queue,
                      NEW j \in DOMAIN action_queue, i < j,
                      action_queue[j] = StopAction
               PROVE  action_queue[i] = StopAction
      BY DEF StopsFirst
  <2> DEFINE n == Len(action_queue)
             m == Len(sent)
  <2>1. Alert /\ Shape(action_queue, sent, Begun)
      BY DEF DaemonInv, Orderly, InOrder
  <2>2. n \in Nat /\ m \in Nat /\ Begun \in Nat /\ sent \in Seq(Item)
      BY <2>1, OrderlyTypes
  <2>3. i \in 1 .. n /\ j \in 1 .. n
      BY <2>1, OrderlyTypes
  <2>4. j + m <= n + Begun
    <3> SUFFICES ASSUME j + m > n + Begun PROVE FALSE
        BY <2>2, <2>3
    <3>1. action_queue[j] = sent[j + m - n]
        BY <2>1, <2>3 DEF Shape
    <3>2. j + m - n \in 1 .. m
        BY <2>2, <2>3
    <3>3. sent[j + m - n] \in Item
        BY <2>2, <3>2, ElementOfSeq
    <3> QED BY <3>1, <3>3, StopIsNoItem
  <2>5. i + m <= n + Begun
      BY <2>2, <2>3, <2>4
  <2> QED BY <2>1, <2>3, <2>5 DEF Shape
<1> QED BY <1>1, DaemonInvariance, PTL

-----------------------------------------------------------------------------
(* The daemon's queue implements ActionQueue                               *)

LEMMA PromiseInit == Init => Promise!QueueInit
<1> SUFFICES ASSUME Init PROVE Promise!QueueInit
    OBVIOUS
<1>1. pc[Main] = "begin"
    BY DEF Init, Threads
<1> QED BY <1>1 DEF Init, Promise!QueueInit

LEMMA PromiseQuiet ==
    ASSUME Quiet
    PROVE  UNCHANGED Promise!queueVars
BY DEF Quiet, Promise!queueVars

LEMMA PromiseEnqueue ==
    ASSUME Alert, NEW t \in Threads, Enqueue(t)
    PROVE  \E item \in Item : Promise!Accept(item)
<1>1. Action(t) \in Item
    BY Enqueued DEF Alert, Enqueue, At
<1>2. t # Main
    BY DEF Enqueue, At, Alert, Placed, MainPlaces
<1>3. pc'[Main] = pc[Main]
    BY <1>2 DEF Enqueue, Goto, Alert, TypeOK, Threads
<1>4. /\ sent' = Append(sent, Action(t))
      /\ UNCHANGED <<done, ev, asked>>
    BY DEF Enqueue, enqueue_action, loop
<1> QED BY <1>1, <1>3, <1>4 DEF Promise!Accept

LEMMA PromisePush ==
    ASSUME Alert, NEW t \in Threads, stop(t) \/ stop_daemon(t)
    PROVE  Promise!AskToStop
<1>1. asked' = TRUE /\ pc'[Main] = pc[Main] /\ UNCHANGED <<sent, done, ev>>
    BY StopSteps DEF enqueue_priority_action
<1> QED BY <1>1 DEF Promise!AskToStop

LEMMA PromisePop ==
    ASSUME Alert, Orderly, DequeuePop
    PROVE  Promise!Take \/ UNCHANGED Promise!queueVars
<1>1. /\ pc[Main] = "check" /\ action_queue # << >> /\ ev' = Head(action_queue)
      /\ UNCHANGED <<sent, done, asked>>
    BY DEF DequeuePop, At, history
<1>2. pc'[Main] = "act"
    BY DEF DequeuePop, Goto, Alert, TypeOK, Threads
<1>3. CASE Head(action_queue) = StopAction
    BY <1>1, <1>2, <1>3 DEF Promise!queueVars
<1>4. CASE Head(action_queue) # StopAction
  <2>1. Begun = Len(done)
      BY <1>1, OrderlyTypes DEF Begun, Taken
  <2>2. Len(sent) = Len(action_queue) + Begun /\ Begun < Len(sent)
      BY <1>4, <1>1, OrderlyTypes, ShapePopItem DEF Orderly, InOrder
  <2>3. ~ (Len(sent) < Len(action_queue) + Begun)
      BY <2>2, OrderlyTypes
  <2>4. ~ asked
      BY <1>1, <2>3 DEF Orderly, Stopping, StopPending
  <2>5. Len(done) < Len(sent)
      BY <2>1, <2>2
  <2> QED BY <1>1, <1>2, <1>4, <2>4, <2>5 DEF Promise!Take
<1> QED BY <1>3, <1>4

LEMMA PromiseAct ==
    ASSUME Alert, Orderly, Act
    PROVE  Promise!Perform
<1>1. /\ pc[Main] = "act" /\ ev # StopAction /\ running
      /\ done' = Append(done, ev)
      /\ UNCHANGED <<ev, sent, asked>>
    BY DEF Act, At, loop, Orderly, Looping, InLoop
<1>2. pc'[Main] = "dequeue"
    BY <1>1 DEF Act, Goto, Alert, TypeOK, Threads
<1>3. ev = sent[Len(done) + 1]
    BY <1>1 DEF Orderly, InOrder, Begun, Taken
<1> QED BY <1>1, <1>2, <1>3 DEF Promise!Perform

LEMMA PromiseActStop ==
    ASSUME Alert, ActStop
    PROVE  UNCHANGED Promise!queueVars
<1>1. /\ pc[Main] = "act" /\ ev = StopAction
      /\ UNCHANGED <<ev, sent, done, asked>>
    BY DEF ActStop, At, history
<1>2. pc'[Main] = "unregister"
    BY DEF ActStop, Goto, Alert, TypeOK, Threads
<1> QED BY <1>1, <1>2 DEF Promise!queueVars

LEMMA PromiseReturn ==
    ASSUME Alert, Orderly, Return
    PROVE  Promise!End
<1>1. pc[Main] = "unregister" /\ UNCHANGED <<ev, sent, done, asked>>
    BY DEF Return, At, history
<1>2. pc'[Main] = "returned"
    BY DEF Return, Goto, Alert, TypeOK, Threads
<1>3. asked
    BY <1>1 DEF Orderly, Stopping, StopPending
<1> QED BY <1>1, <1>2, <1>3 DEF Promise!End

\* The daemon's mutex, condition variable and deque together are a queue that
\* performs the actions in the order they were accepted, each once, and takes up
\* none after a stop was asked for (Daemon.cpp:33-57, 123-144).
THEOREM QueueImplemented == Spec => KeepsPromise
<1>1. Init => Promise!QueueInit
    BY PromiseInit
<1>2. DaemonInv /\ [Next]_vars => [Promise!QueueNext]_(Promise!queueVars)
  <2> SUFFICES ASSUME Alert, Orderly, [Next]_vars
               PROVE  Promise!QueueNext \/ UNCHANGED Promise!queueVars
      BY DEF DaemonInv
  <2>1. CASE QuietStep
      BY <2>1, QuietSteps, PromiseQuiet
  <2>2. CASE DequeuePop
      BY <2>2, PromisePop DEF Promise!QueueNext
  <2>3. CASE ActStop
      BY <2>3, PromiseActStop
  <2>4. CASE Act
      BY <2>4, PromiseAct DEF Promise!QueueNext
  <2>5. CASE Return
      BY <2>5, PromiseReturn DEF Promise!QueueNext
  <2>6. ASSUME NEW t \in Threads, Enqueue(t) PROVE Promise!QueueNext
      BY <2>6, PromiseEnqueue DEF Promise!QueueNext
  <2>7. ASSUME NEW t \in Threads, stop(t) \/ stop_daemon(t) PROVE Promise!QueueNext
      BY <2>7, PromisePush DEF Promise!QueueNext
  <2> QED BY <2>1, <2>2, <2>3, <2>4, <2>5, <2>6, <2>7, Steps
<1> QED
    BY <1>1, <1>2, DaemonInvariance, PTL DEF Spec, KeepsPromise, Promise!QueueSpec

-----------------------------------------------------------------------------
(* What flush() means when it returns: the invariant follows the action of *)
(* a flush from the call to the promise it sets.                           *)


OtherThreads == LoopThreads \cup Callers

\* Each action is sent once: its number is the thread's count of calls.
SentOnce ==
    /\ \A i \in 1 .. Len(sent) :
         /\ sent[i].n <= calls[sent[i].from]
         /\ pc[sent[i].from] = "enqueue" => sent[i].n < calls[sent[i].from]
    /\ \A i, j \in 1 .. Len(sent) : sent[i] = sent[j] => i = j

Waits(c) == pc[c] \in {"notify", "await"}

\* An action of a flush that has not been run belongs to the caller's present
\* call, and the caller waits for it.
Unanswered ==
    /\ \A i \in 1 .. Len(sent) :
         i > Len(done) /\ sent[i].from \in Callers =>
            /\ Waits(sent[i].from) /\ ~ flushed[sent[i].from]
            /\ sent[i] = Action(sent[i].from)
    /\ \A c \in Callers : pc[c] = "enqueue" => ~ flushed[c]

\* A promise that is set while its caller waits was set by running its action.
Answered ==
    \A c \in Callers :
        Waits(c) /\ flushed[c] => \E i \in 1 .. Len(done) : done[i] = Action(c)

NotBegun == pc[Main] \in {"begin", "started"} => done = << >>

Flushes == SentOnce /\ Unanswered /\ Answered /\ NotBegun

FlushInv == DaemonInv /\ Flushes

LEMMA FlushFacts ==
    ASSUME DaemonInv
    PROVE  /\ Alert /\ Orderly /\ pc[Main] \in MainPlaces
           /\ \A t \in OtherThreads : pc[t] \in OtherPlaces
           /\ sent \in Seq(Item) /\ done \in Seq(Item)
           /\ Len(sent) \in Nat /\ Len(done) \in Nat /\ Len(done) <= Len(sent)
           /\ \A i \in 1 .. Len(sent) :
                /\ sent[i] \in Item /\ sent[i].from \in OtherThreads
                /\ sent[i].n \in Nat
           /\ \A i \in 1 .. Len(done) : i \in 1 .. Len(sent) /\ done[i] = sent[i]
           /\ calls \in [Threads -> Nat] /\ flushed \in [Threads -> BOOLEAN]
           /\ pc \in [Threads -> Labels]
           /\ Main \notin OtherThreads /\ Threads = {Main} \cup OtherThreads
<1>1. Alert /\ Orderly
    BY DEF DaemonInv
<1>2. /\ sent \in Seq(Item) /\ done \in Seq(Item)
      /\ Len(sent) \in Nat /\ Len(done) \in Nat
    BY <1>1, OrderlyTypes
<1>3. Len(done) <= Begun /\ Begun <= Len(sent)
    BY <1>1, OrderlyTypes DEF Begun, Orderly, InOrder, Shape
<1>4. Len(done) <= Len(sent)
    BY <1>1, <1>2, <1>3, OrderlyTypes
<1>5. ASSUME NEW i \in 1 .. Len(sent)
      PROVE  /\ sent[i] \in Item /\ sent[i].from \in OtherThreads
             /\ sent[i].n \in Nat
  <2>1. sent[i] \in Item
      BY <1>2, ElementOfSeq
  <2> QED BY <2>1, BoundsAssumption DEF Item, OtherThreads
<1>6. \A i \in 1 .. Len(done) : i \in 1 .. Len(sent) /\ done[i] = sent[i]
    BY <1>1, <1>2, <1>4 DEF Orderly, InOrder
<1>7. /\ calls \in [Threads -> Nat] /\ flushed \in [Threads -> BOOLEAN]
      /\ pc \in [Threads -> Labels]
    BY <1>1 DEF Alert, TypeOK
<1>8. pc[Main] \in MainPlaces /\ \A t \in OtherThreads : pc[t] \in OtherPlaces
    BY <1>1 DEF Alert, Placed, OtherThreads
<1>9. Main \notin OtherThreads /\ Threads = {Main} \cup OtherThreads
    BY ThreadsAssumption DEF OtherThreads, Threads
<1> QED BY <1>1, <1>2, <1>4, <1>5, <1>6, <1>7, <1>8, <1>9

LEMMA FlushesInit == Init => Flushes
<1> SUFFICES ASSUME Init PROVE Flushes
    OBVIOUS
<1>1. sent = << >> /\ done = << >> /\ Len(sent) = 0 /\ Len(done) = 0
    BY DEF Init
<1>2. \A c \in Callers : pc[c] = "idle"
    BY ThreadsAssumption DEF Init, Threads
<1> QED BY <1>1, <1>2
        DEF Flushes, SentOnce, Unanswered, Answered, Waits, NotBegun

-----------------------------------------------------------------------------
(* Steps that leave the callers and the actions as they are                *)

Apart ==
    /\ UNCHANGED <<sent, done, calls, flushed>>
    /\ \A t \in OtherThreads : pc'[t] = pc[t]
    /\ pc'[Main] \in {"begin", "started"} => pc[Main] \in {"begin", "started"}

ApartStep ==
    \/ Start \/ EnterLoop \/ DequeueLock \/ DequeueWait \/ DequeuePop
    \/ SpuriousWakeup \/ ActStop \/ Return
    \/ \E t \in Threads :
          stop_daemon(t) \/ stop_daemon_returns(t) \/ Signal(t) \/ push_front_caught(t)
    \/ UNCHANGED vars

LEMMA ApartSteps ==
    ASSUME DaemonInv, ApartStep
    PROVE  Apart
<1> USE DEF queue, loop, requests, bounds, history
<1>0. /\ pc \in [Threads -> Labels]
      /\ Main \notin OtherThreads /\ Threads = {Main} \cup OtherThreads
    BY FlushFacts
<1>1. ASSUME Start PROVE Apart
    BY <1>0, <1>1 DEF Start, At, Goto, Apart
<1>2. ASSUME EnterLoop PROVE Apart
    BY <1>0, <1>2 DEF EnterLoop, Goto, Apart
<1>3. ASSUME DequeueLock PROVE Apart
    BY <1>0, <1>3 DEF DequeueLock, Goto, Apart
<1>4. ASSUME DequeueWait PROVE Apart
    BY <1>0, <1>4 DEF DequeueWait, Goto, Apart
<1>5. ASSUME DequeuePop PROVE Apart
    BY <1>0, <1>5 DEF DequeuePop, Goto, Apart
<1>6. ASSUME SpuriousWakeup PROVE Apart
    BY <1>6 DEF SpuriousWakeup, Apart
<1>7. ASSUME ActStop PROVE Apart
    BY <1>0, <1>7 DEF ActStop, Goto, Apart
<1>8. ASSUME Return PROVE Apart
    BY <1>0, <1>8 DEF Return, Goto, Apart
<1>9. ASSUME NEW t \in Threads, stop_daemon(t) PROVE Apart
    BY <1>9 DEF stop_daemon, Apart
<1>10. ASSUME NEW t \in Threads, stop_daemon_returns(t) PROVE Apart
    BY <1>10 DEF stop_daemon_returns, Apart
<1>11. ASSUME NEW t \in Threads, Signal(t) PROVE Apart
    BY <1>11 DEF Signal, Apart
<1>13. ASSUME NEW t \in Threads, push_front_caught(t) PROVE Apart
    BY <1>13 DEF push_front_caught, Apart
<1>12. ASSUME UNCHANGED vars PROVE Apart
    BY <1>12 DEF vars, Apart
<1> QED
    BY <1>1, <1>2, <1>3, <1>4, <1>5, <1>6, <1>7, <1>8, <1>9, <1>10, <1>11, <1>12, <1>13
    DEF ApartStep

LEMMA FlushesApart ==
    ASSUME DaemonInv, Flushes, Apart
    PROVE  Flushes'
<1>1. SentOnce'
  <2>1. \A i \in 1 .. Len(sent) : pc'[sent[i].from] = pc[sent[i].from]
      BY FlushFacts DEF Apart
  <2> QED BY <2>1 DEF Apart, Flushes, SentOnce
<1>2. \A c \in Callers : pc'[c] = pc[c] /\ Action(c)' = Action(c)
    BY DEF Apart, OtherThreads, Action
<1>3. Unanswered'
    BY <1>2 DEF Apart, Flushes, Unanswered, Waits
<1>4. Answered'
    BY <1>2 DEF Apart, Flushes, Answered, Waits
<1>5. NotBegun'
    BY DEF Apart, Flushes, NotBegun
<1> QED BY <1>1, <1>3, <1>4, <1>5 DEF Flushes

-----------------------------------------------------------------------------
(* The steps of the other threads                                          *)

\* A thread goes on without asking for anything.
Walk(t) == Notify(t) \/ Flushed(t) \/ stop(t) \/ StopNotify(t)

LEMMA Walks ==
    ASSUME DaemonInv, NEW t \in Threads, Walk(t)
    PROVE  /\ UNCHANGED <<sent, done, calls, flushed>>
           /\ t \in OtherThreads /\ pc' = [pc EXCEPT ![t] = pc'[t]]
           /\ pc'[t] # "enqueue"
           /\ t \in Callers => /\ Waits(t)' => Waits(t)
                               /\ Waits(t) => Waits(t)' \/ flushed[t]
<1> USE DEF queue, loop, requests, bounds, history, Waits
<1>0. /\ pc \in [Threads -> Labels] /\ pc[Main] \in MainPlaces
      /\ Main \notin OtherThreads /\ Threads = {Main} \cup OtherThreads
    BY FlushFacts
<1>1. CASE Notify(t)
    BY <1>0, <1>1 DEF Notify, At, Goto, MainPlaces
<1>2. CASE Flushed(t)
    BY <1>0, <1>2 DEF Flushed, At, Goto, MainPlaces
<1>3. CASE stop(t)
    BY <1>0, <1>3 DEF stop, enqueue_priority_action, At, Goto, OtherThreads
<1>4. CASE StopNotify(t)
    BY <1>0, <1>4 DEF StopNotify, At, Goto, MainPlaces
<1> QED BY <1>1, <1>2, <1>3, <1>4 DEF Walk

LEMMA FlushesWalk ==
    ASSUME DaemonInv, Flushes, NEW t \in Threads, Walk(t)
    PROVE  Flushes'
<1>0. /\ pc \in [Threads -> Labels] /\ Main \notin OtherThreads
      /\ \A i \in 1 .. Len(sent) : sent[i].from \in Threads
    BY FlushFacts
<1>1. \A u \in Threads : pc'[u] = "enqueue" => pc[u] = "enqueue"
    BY <1>0, Walks
<1>2. pc'[Main] = pc[Main]
    BY <1>0, Walks DEF Threads
<1>3. \A c \in Callers : /\ Waits(c)' => Waits(c)
                         /\ Waits(c) => Waits(c)' \/ flushed[c]
  <2> TAKE c \in Callers
  <2>1. CASE c = t
      BY <2>1, Walks
  <2>2. CASE c # t
      BY <2>2, <1>0, Walks DEF Waits, Threads
  <2> QED BY <2>1, <2>2
<1>4. \A c \in Callers : Action(c)' = Action(c)
    BY Walks DEF Action
<1>5. SentOnce'
    BY <1>0, <1>1, Walks DEF Flushes, SentOnce
<1>6. Unanswered'
    BY <1>1, <1>3, <1>4, Walks DEF Flushes, Unanswered, Threads
<1>7. Answered'
    BY <1>3, <1>4, Walks DEF Flushes, Answered
<1>8. NotBegun'
    BY <1>2, Walks DEF Flushes, NotBegun
<1> QED BY <1>5, <1>6, <1>7, <1>8 DEF Flushes

LEMMA FlushesAsk ==
    ASSUME DaemonInv, Flushes, NEW t \in Threads, Request(t) \/ flush(t)
    PROVE  Flushes'
<1>0. /\ pc \in [Threads -> Labels] /\ calls \in [Threads -> Nat]
      /\ flushed \in [Threads -> BOOLEAN]
      /\ Main \notin OtherThreads /\ Threads = {Main} \cup OtherThreads
      /\ \A i \in 1 .. Len(sent) : sent[i].from \in Threads /\ sent[i].n \in Nat
    BY FlushFacts
<1>1. /\ UNCHANGED <<sent, done>> /\ t \in OtherThreads
      /\ pc[t] = "idle" /\ pc' = [pc EXCEPT ![t] = "enqueue"]
      /\ calls' = [calls EXCEPT ![t] = @ + 1]
    BY DEF Request, flush, At, Goto, history, OtherThreads
<1>2. /\ pc'[t] = "enqueue" /\ calls'[t] = calls[t] + 1
      /\ \A u \in Threads : u # t => pc'[u] = pc[u] /\ calls'[u] = calls[u]
    BY <1>0, <1>1
<1>3. /\ t \in Callers => ~ flushed'[t]
      /\ \A u \in Threads : u # t => flushed'[u] = flushed[u]
  <2>1. CASE Request(t)
      BY <2>1, ThreadsAssumption DEF Request
  <2>2. CASE flush(t)
      BY <2>2, <1>0 DEF flush
  <2> QED BY <2>1, <2>2
<1>4. SentOnce'
  <2>1. ASSUME NEW i \in 1 .. Len(sent)
        PROVE  /\ sent[i].n <= calls'[sent[i].from]
               /\ pc'[sent[i].from] = "enqueue" => sent[i].n < calls'[sent[i].from]
    <3>1. sent[i].n <= calls[sent[i].from]
        BY DEF Flushes, SentOnce
    <3>2. CASE sent[i].from = t
      <4>1. sent[i].n \in Nat /\ calls[t] \in Nat /\ sent[i].n <= calls[t]
          BY <3>1, <3>2, <1>0
      <4>2. sent[i].n < calls[t] + 1 /\ sent[i].n <= calls[t] + 1
          BY <4>1
      <4> QED BY <4>2, <3>2, <1>2
    <3>3. CASE sent[i].from # t
      <4>1. /\ pc'[sent[i].from] = pc[sent[i].from]
            /\ calls'[sent[i].from] = calls[sent[i].from]
          BY <3>3, <1>0, <1>2
      <4> QED BY <4>1 DEF Flushes, SentOnce
    <3> QED BY <3>2, <3>3
  <2> QED BY <2>1, <1>1 DEF Flushes, SentOnce
<1>5. \A c \in Callers : c # t => /\ Waits(c)' <=> Waits(c)
                                  /\ Action(c)' = Action(c)
                                  /\ flushed'[c] = flushed[c]
                                  /\ pc'[c] = pc[c]
    BY <1>2, <1>3 DEF Waits, Action, Threads
<1>6. ~ Waits(t) /\ ~ Waits(t)'
    BY <1>1, <1>2 DEF Waits
<1>7. Unanswered'
  <2>1. ASSUME NEW i \in 1 .. Len(sent), i > Len(done), sent[i].from \in Callers
        PROVE  sent[i].from # t
      BY <2>1, <1>6 DEF Flushes, Unanswered
  <2>2. \A c \in Callers : pc'[c] = "enqueue" => ~ flushed'[c]
      BY <1>3, <1>5 DEF Flushes, Unanswered
  <2> QED BY <2>1, <2>2, <1>1, <1>5 DEF Flushes, Unanswered
<1>8. Answered'
    BY <1>1, <1>5, <1>6 DEF Flushes, Answered
<1>9. NotBegun'
    BY <1>0, <1>1 DEF Flushes, NotBegun
<1> QED BY <1>4, <1>7, <1>8, <1>9 DEF Flushes

LEMMA FlushesEnqueue ==
    ASSUME DaemonInv, Flushes, NEW t \in Threads, Enqueue(t)
    PROVE  Flushes'
<1>0. /\ pc \in [Threads -> Labels] /\ pc[Main] \in MainPlaces
      /\ calls \in [Threads -> Nat]
      /\ Main \notin OtherThreads /\ Threads = {Main} \cup OtherThreads
      /\ sent \in Seq(Item) /\ Len(sent) \in Nat
      /\ Len(done) \in Nat /\ Len(done) <= Len(sent)
      /\ \A i \in 1 .. Len(sent) : /\ sent[i].from \in Threads
                                   /\ sent[i].n \in Nat
    BY FlushFacts
<1>1. /\ pc[t] = "enqueue" /\ pc' = [pc EXCEPT ![t] = "notify"]
      /\ sent' = Append(sent, Action(t))
      /\ UNCHANGED <<done, calls, flushed>>
    BY DEF Enqueue, enqueue_action, At, Goto, requests
<1>2. t # Main /\ pc'[Main] = pc[Main] /\ pc'[t] = "notify"
    BY <1>0, <1>1 DEF MainPlaces
<1>3. \A u \in Threads : u # t => pc'[u] = pc[u]
    BY <1>0, <1>1
<1>4. \A u \in Threads : Action(u)' = Action(u)
    BY <1>1 DEF Action
<1>5. Action(t) \in Item
    BY <1>1, Enqueued DEF DaemonInv, Alert
<1>6. /\ Len(sent') = Len(sent) + 1 /\ sent'[Len(sent) + 1] = Action(t)
      /\ \A i \in 1 .. Len(sent) : sent'[i] = sent[i]
    BY <1>0, <1>1, <1>5
<1>7. \A i \in 1 .. Len(sent') : i = Len(sent) + 1 \/ i \in 1 .. Len(sent)
    BY <1>0, <1>6
<1>8. Action(t).from = t /\ Action(t).n = calls[t]
    BY DEF Action
<1>9. \A i \in 1 .. Len(sent) : sent[i] # Action(t)
  <2> SUFFICES ASSUME NEW i \in 1 .. Len(sent), sent[i] = Action(t) PROVE FALSE
      OBVIOUS
  <2>1. sent[i].from = t /\ sent[i].n = calls[t]
      BY <1>8
  <2>2. sent[i].n < calls[t]
      BY <2>1, <1>1 DEF Flushes, SentOnce
  <2> QED BY <2>1, <2>2, <1>0
<1>10. SentOnce'
  <2>1. ASSUME NEW i \in 1 .. Len(sent')
        PROVE  /\ sent'[i].n <= calls'[sent'[i].from]
               /\ pc'[sent'[i].from] = "enqueue" => sent'[i].n < calls'[sent'[i].from]
    <3>1. CASE i = Len(sent) + 1
        BY <3>1, <1>0, <1>1, <1>2, <1>6, <1>8
    <3>2. CASE i \in 1 .. Len(sent)
      <4>1. sent'[i] = sent[i] /\ sent[i].from \in Threads
          BY <3>2, <1>0, <1>6
      <4>2. pc'[sent[i].from] = "enqueue" => pc[sent[i].from] = "enqueue"
          BY <4>1, <1>2, <1>3
      <4> QED BY <3>2, <4>1, <4>2, <1>1 DEF Flushes, SentOnce
    <3> QED BY <3>1, <3>2, <1>7
  <2>2. ASSUME NEW i \in 1 .. Len(sent'), NEW j \in 1 .. Len(sent'),
               sent'[i] = sent'[j]
        PROVE  i = j
      BY <2>2, <1>6, <1>7, <1>9 DEF Flushes, SentOnce
  <2> QED BY <2>1, <2>2 DEF SentOnce
<1>11. \A c \in Callers : /\ Waits(c) => Waits(c)'
                          /\ Waits(c)' => Waits(c) \/ c = t
                          /\ pc'[c] = "enqueue" => pc[c] = "enqueue"
    BY <1>2, <1>3 DEF Waits, Threads
<1>12. Unanswered'
  <2>1. ASSUME NEW i \in 1 .. Len(sent'), i > Len(done),
               NEW c \in Callers, sent'[i].from = c
        PROVE  Waits(c)' /\ ~ flushed[c] /\ sent'[i] = Action(c)
    <3>1. CASE i = Len(sent) + 1
      <4>1. sent'[i] = Action(t) /\ c = t
          BY <3>1, <2>1, <1>6, <1>8
      <4> QED BY <4>1, <1>1, <1>2 DEF Flushes, Unanswered, Waits
    <3>2. CASE i \in 1 .. Len(sent)
      <4>1. sent'[i] = sent[i]
          BY <3>2, <1>6
      <4> QED BY <3>2, <4>1, <2>1, <1>11 DEF Flushes, Unanswered
    <3> QED BY <3>1, <3>2, <1>7
  <2>2. \A c \in Callers : pc'[c] = "enqueue" => ~ flushed[c]
      BY <1>11 DEF Flushes, Unanswered
  <2>3. \A c \in Callers : Action(c)' = Action(c)
      BY <1>4 DEF Threads
  <2>4. \A i \in 1 .. Len(sent') :
          i > Len(done) /\ sent'[i].from \in Callers =>
             /\ pc'[sent'[i].from] \in {"notify", "await"}
             /\ ~ flushed[sent'[i].from]
             /\ sent'[i] = [from |-> sent'[i].from, n |-> calls[sent'[i].from]]
      BY <2>1 DEF Waits, Action
  <2> QED BY <2>2, <2>4, <1>1 DEF Unanswered, Waits, Action
<1>13. Answered'
  <2> SUFFICES ASSUME NEW c \in Callers, Waits(c)', flushed[c]
               PROVE  \E i \in 1 .. Len(done) : done[i] = Action(c)
      BY <1>1, <1>4 DEF Answered, Threads
  <2>1. c # t
      BY <1>1 DEF Flushes, Unanswered
  <2> QED BY <2>1, <1>11 DEF Flushes, Answered
<1>14. NotBegun'
    BY <1>1, <1>2 DEF Flushes, NotBegun
<1> QED BY <1>10, <1>12, <1>13, <1>14 DEF Flushes

-----------------------------------------------------------------------------
(* The main thread runs an action                                          *)

LEMMA ActTakes ==
    ASSUME DaemonInv, Act
    PROVE  /\ Len(done) + 1 \in 1 .. Len(sent) /\ ev = sent[Len(done) + 1]
           /\ done' = Append(done, ev) /\ Len(done') = Len(done) + 1
           /\ done'[Len(done) + 1] = ev
           /\ \A i \in 1 .. Len(done) : done'[i] = done[i]
           /\ ev \in Item
           /\ pc'[Main] \in {"dequeue", "unregister"}
           /\ \A t \in OtherThreads : pc'[t] = pc[t]
           /\ UNCHANGED <<sent, calls>>
<1>0. /\ pc \in [Threads -> Labels]
      /\ Main \notin OtherThreads /\ Threads = {Main} \cup OtherThreads
      /\ sent \in Seq(Item) /\ done \in Seq(Item)
      /\ Len(sent) \in Nat /\ Len(done) \in Nat
    BY FlushFacts
<1>1. /\ pc[Main] = "act" /\ ev # StopAction /\ done' = Append(done, ev)
      /\ UNCHANGED <<sent, calls>>
    BY DEF Act, At
<1>2. Begun = Len(done) + 1 /\ Taken
    BY <1>1 DEF Begun, Taken
<1>3. Begun <= Len(sent) /\ ev = sent[Begun]
    BY <1>2 DEF DaemonInv, Orderly, InOrder, Shape
<1>4. Len(done) + 1 \in 1 .. Len(sent)
    BY <1>0, <1>2, <1>3
<1>5. ev \in Item
    BY <1>0, <1>2, <1>3, <1>4, ElementOfSeq
<1>6. /\ Len(done') = Len(done) + 1 /\ done'[Len(done) + 1] = ev
      /\ \A i \in 1 .. Len(done) : done'[i] = done[i]
    BY <1>0, <1>1, <1>5
<1>7. /\ pc'[Main] \in {"dequeue", "unregister"}
      /\ \A t \in OtherThreads : pc'[t] = pc[t]
    BY <1>0 DEF Act, Goto
<1> QED BY <1>1, <1>2, <1>3, <1>4, <1>5, <1>6, <1>7

LEMMA FlushesAct ==
    ASSUME DaemonInv, Flushes, Act
    PROVE  Flushes'
<1>0. /\ flushed \in [Threads -> BOOLEAN]
      /\ Threads = {Main} \cup OtherThreads
      /\ Len(sent) \in Nat /\ Len(done) \in Nat
      /\ \A i \in 1 .. Len(sent) : sent[i].from \in OtherThreads
    BY FlushFacts
<1>1. \A c \in Callers : /\ pc'[c] = pc[c] /\ Action(c)' = Action(c)
                         /\ Waits(c)' <=> Waits(c)
    BY ActTakes DEF OtherThreads, Action, Waits
<1>2. /\ ev.from \in Callers => flushed'[ev.from]
      /\ \A c \in Callers : c # ev.from => flushed'[c] = flushed[c]
    BY <1>0 DEF Act, OtherThreads
<1>3. ev.from \in Callers => Waits(ev.from) /\ ev = Action(ev.from)
  <2>1. Len(done) + 1 > Len(done)
      BY <1>0
  <2> QED BY <2>1, ActTakes DEF Flushes, Unanswered
<1>4. SentOnce'
  <2>1. \A i \in 1 .. Len(sent) : pc'[sent[i].from] = pc[sent[i].from]
      BY <1>0, ActTakes
  <2> QED BY <2>1, ActTakes DEF Flushes, SentOnce
<1>5. Unanswered'
  <2>1. ASSUME NEW i \in 1 .. Len(sent), i > Len(done) + 1,
               sent[i].from \in Callers
        PROVE  /\ pc'[sent[i].from] = pc[sent[i].from]
               /\ ~ flushed'[sent[i].from]
               /\ Waits(sent[i].from) /\ sent[i] = Action(sent[i].from)
    <3>1. i > Len(done) /\ i # Len(done) + 1
        BY <2>1, <1>0
    <3>2. /\ Waits(sent[i].from) /\ ~ flushed[sent[i].from]
          /\ sent[i] = Action(sent[i].from)
        BY <2>1, <3>1 DEF Flushes, Unanswered
    <3>3. sent[i].from # ev.from
      <4> SUFFICES ASSUME sent[i].from = ev.from PROVE FALSE
          OBVIOUS
      <4>1. sent[i] = sent[Len(done) + 1]
          BY <2>1, <3>2, <1>3, ActTakes
      <4> QED BY <4>1, <3>1, ActTakes DEF Flushes, SentOnce
    <3> QED BY <2>1, <3>2, <3>3, <1>1, <1>2
  <2>2. \A c \in Callers : pc'[c] = "enqueue" => ~ flushed'[c]
    <3> SUFFICES ASSUME NEW c \in Callers, pc[c] = "enqueue"
                 PROVE  ~ flushed'[c]
        BY <1>1
    <3>1. c # ev.from
        BY <1>3 DEF Waits
    <3> QED BY <3>1, <1>2 DEF Flushes, Unanswered
  <2> QED BY <2>1, <2>2, ActTakes DEF Unanswered, Waits, Action
<1>6. Answered'
  <2> SUFFICES ASSUME NEW c \in Callers, Waits(c), flushed'[c]
               PROVE  \E i \in 1 .. Len(done') : done'[i] = Action(c)
      BY <1>1 DEF Answered
  <2>1. CASE c = ev.from
    <3>1. done'[Len(done) + 1] = Action(c)
        BY <2>1, <1>3, ActTakes
    <3>2. Len(done) + 1 \in 1 .. Len(done')
        BY <1>0, ActTakes
    <3> QED BY <3>1, <3>2
  <2>2. CASE c # ev.from
    <3>1. PICK i \in 1 .. Len(done) : done[i] = Action(c)
        BY <2>2, <1>2 DEF Flushes, Answered
    <3>2. i \in 1 .. Len(done') /\ done'[i] = done[i]
        BY <1>0, ActTakes
    <3> QED BY <3>1, <3>2
  <2> QED BY <2>1, <2>2
<1>7. NotBegun'
    BY ActTakes DEF NotBegun
<1> QED BY <1>4, <1>5, <1>6, <1>7 DEF Flushes

-----------------------------------------------------------------------------
(* The invariant and what it says of flush()                               *)

LEMMA FlushCases ==
    ASSUME [Next]_vars
    PROVE  \/ ApartStep \/ Act
           \/ \E t \in Threads : \/ Walk(t) \/ Enqueue(t)
                                 \/ Request(t) \/ flush(t)
BY DEF Next, MainStep, ThreadStep, HandlerStep, ApartStep, Walk

LEMMA FlushStep ==
    ASSUME FlushInv, [Next]_vars
    PROVE  Flushes'
<1>1. DaemonInv /\ Flushes
    BY DEF FlushInv
<1>2. CASE ApartStep
    BY <1>1, <1>2, ApartSteps, FlushesApart
<1>3. CASE Act
    BY <1>1, <1>3, FlushesAct
<1>4. ASSUME NEW t \in Threads, Walk(t) PROVE Flushes'
    BY <1>1, <1>4, FlushesWalk
<1>5. ASSUME NEW t \in Threads, Enqueue(t) PROVE Flushes'
    BY <1>1, <1>5, FlushesEnqueue
<1>6. ASSUME NEW t \in Threads, Request(t) \/ flush(t) PROVE Flushes'
    BY <1>1, <1>6, FlushesAsk
<1> QED BY <1>2, <1>3, <1>4, <1>5, <1>6, FlushCases

\* Each action is sent once, and a promise is set by running the action of the
\* flush() that waits for it (Daemon.cpp:50-57).
THEOREM FlushInvariance == Spec => []FlushInv
<1>1. Init => Flushes
    BY FlushesInit
<1>2. FlushInv /\ DaemonInv' /\ [Next]_vars => FlushInv'
    BY FlushStep DEF FlushInv
<1>3. Init /\ DaemonInv => FlushInv
    BY <1>1 DEF FlushInv
<1> QED BY <1>2, <1>3, DaemonInvariance, PTL DEF Spec

\* A wait for the answer of a flush() ends only when the promise is set.
LEMMA AwaitEnds ==
    ASSUME DaemonInv, Flushes, [Next]_vars,
           NEW c \in Callers, pc[c] = "await", pc'[c] = "idle"
    PROVE  flushed[c] /\ UNCHANGED <<sent, done, calls>> /\ pc'[Main] = pc[Main]
<1>0. /\ pc \in [Threads -> Labels] /\ c \in OtherThreads
      /\ Main \notin OtherThreads /\ Threads = {Main} \cup OtherThreads
    BY FlushFacts DEF OtherThreads
<1>1. ~ ApartStep
    BY <1>0, ApartSteps DEF Apart
<1>2. ~ Act
    BY <1>0, ActTakes
<1>3. ASSUME NEW t \in Threads, Enqueue(t) \/ Request(t) \/ flush(t) PROVE FALSE
    BY <1>0, <1>3 DEF Enqueue, Request, flush, At, Goto
<1>4. ASSUME NEW t \in Threads, Walk(t)
      PROVE  flushed[c] /\ UNCHANGED <<sent, done, calls>> /\ pc'[Main] = pc[Main]
  <2>1. t = c
      BY <1>0, <1>4, Walks
  <2>2. pc'[Main] = pc[Main]
      BY <1>0, <1>4, Walks
  <2>3. Waits(c) /\ ~ Waits(c)'
      BY DEF Waits
  <2> QED BY <1>4, <2>1, <2>2, <2>3, Walks
<1> QED BY <1>1, <1>2, <1>3, <1>4, FlushCases

\* When flush() returns, whatever other threads and signals do, the daemon is in
\* its loop and has run every action pushed before the flush
\* (Daemon.cpp:50-57, tests/RunDaemon.cpp:26-31).
THEOREM FlushMeansIt == Spec => FlushMeansDone
<1> DEFINE Returned(c) ==
        /\ pc[Main] \notin {"begin", "started"}
        /\ \A i \in DOMAIN sent :
             sent[i] = Action(c) => \A j \in 1 .. i : j \in DOMAIN done
                                                      /\ done[j] = sent[j]
<1>1. ASSUME FlushInv, [Next]_vars,
             NEW c \in Callers, pc[c] = "await", pc'[c] = "idle"
      PROVE  Returned(c)
  <2>0. /\ DaemonInv /\ Flushes
        /\ Len(sent) \in Nat /\ Len(done) \in Nat
        /\ DOMAIN sent = 1 .. Len(sent) /\ DOMAIN done = 1 .. Len(done)
        /\ \A i \in 1 .. Len(done) : i \in 1 .. Len(sent) /\ done[i] = sent[i]
      BY <1>1, FlushFacts DEF FlushInv
  <2>1. flushed[c] /\ Waits(c)
      BY <1>1, <2>0, AwaitEnds DEF Waits
  <2>2. PICK k \in 1 .. Len(done) : done[k] = Action(c)
      BY <2>0, <2>1 DEF Flushes, Answered
  <2>3. pc[Main] \notin {"begin", "started"}
    <3>1. done # << >>
        BY <2>2
    <3> QED BY <3>1, <2>0 DEF Flushes, NotBegun
  <2>4. ASSUME NEW i \in DOMAIN sent, sent[i] = Action(c), NEW j \in 1 .. i
        PROVE  j \in DOMAIN done /\ done[j] = sent[j]
    <3>1. i = k
        BY <2>0, <2>2, <2>4 DEF Flushes, SentOnce
    <3>2. j \in 1 .. Len(done)
        BY <3>1, <2>0
    <3> QED BY <3>2, <2>0
  <2> QED BY <2>3, <2>4
<1>2. FlushInv /\ [Next]_vars =>
        [\A c \in Callers : pc[c] = "await" /\ pc'[c] = "idle" => Returned(c)]_vars
    BY <1>1
<1> QED BY <1>2, FlushInvariance, PTL DEF Spec, FlushMeansDone

-----------------------------------------------------------------------------
(* Who waits for whom                                                      *)

Holding == {"check", "notify", "stopping"}
Locked == {"allocate", "notify"}

\* The mutex is held where the code has it locked, and nowhere else; a handler
\* that has it locked has not interrupted a thread that had.
Exclusive ==
    \A t \in Threads :
        /\ mutex = t <=> pc[t] \in Holding \/ handler[t] \in Locked
        /\ handler[t] \in Locked => pc[t] \notin Holding

\* Loops neither flush nor stop, and who joins has pushed a stop.
Errands ==
    /\ \A t \in LoopThreads : pc[t] \in {"idle", "enqueue", "notify"}
    /\ \A c \in Callers : pc[c] \in {"stopping", "joining"} => asked

\* What a caller still waits for has been pushed, and not been run.
Outstanding(c) == \E i \in 1 .. Len(sent) : i > Len(done) /\ sent[i] = Action(c)
Expected == \A c \in Callers : Waits(c) => flushed[c] \/ Outstanding(c)

LEMMA WaitingInit == Init => Exclusive /\ Errands /\ Expected
<1> SUFFICES ASSUME Init PROVE Exclusive /\ Errands /\ Expected
  OBVIOUS
<1>1. \A t \in Threads : pc[t] \in {"begin", "idle"} /\ handler[t] = "none" /\ mutex # t
  BY ThreadsAssumption DEF Init
<1>2. \A t \in LoopThreads \cup Callers : pc[t] = "idle"
  BY ThreadsAssumption DEF Init, Threads
<1>3. Exclusive
  BY <1>1 DEF Exclusive, Holding, Locked
<1> QED BY <1>2, <1>3 DEF Errands, Expected, Waits

\* A thread that is not in its critical section goes on outside of it.
LEMMA ExclusiveOutside ==
    ASSUME TypeOK, Exclusive, NEW t \in Threads, NEW label \in Labels \ Holding,
           pc[t] \notin Holding, Goto(t, label), UNCHANGED <<handler, mutex>>
    PROVE  Exclusive'
BY DEF TypeOK, Exclusive, Goto

\* Thread t locks the mutex, and will unlock it by itself.
LEMMA ExclusiveLocks ==
    ASSUME TypeOK, Exclusive, NEW t \in Threads, NEW label \in Holding,
           mutex = NoThread, mutex' = t, Goto(t, label), UNCHANGED handler
    PROVE  Exclusive'
<1>1. \A u \in Threads : mutex # u
  BY ThreadsAssumption
<1>2. \A u \in Threads : pc[u] \notin Holding /\ handler[u] \notin Locked
  BY <1>1 DEF Exclusive
<1>3. \A u \in Threads \ {t} : pc'[u] = pc[u]
  BY DEF TypeOK, Goto
<1>4. pc'[t] = label
  BY DEF TypeOK, Goto
<1> QED BY <1>2, <1>3, <1>4 DEF Exclusive

LEMMA ExclusiveUnlocks ==
    ASSUME TypeOK, Exclusive, NEW t \in Threads, NEW label \in Labels \ Holding,
           pc[t] \in Holding, mutex' = NoThread, Goto(t, label), UNCHANGED handler
    PROVE  Exclusive'
<1>1. mutex = t /\ handler[t] \notin Locked
  BY DEF Exclusive
<1>2. \A u \in Threads \ {t} : pc[u] \notin Holding /\ handler[u] \notin Locked
  BY <1>1 DEF Exclusive
<1>3. \A u \in Threads \ {t} : pc'[u] = pc[u]
  BY DEF TypeOK, Goto
<1>4. pc'[t] \notin Holding
  BY DEF TypeOK, Goto
<1>5. \A u \in Threads : mutex' # u
  BY ThreadsAssumption
<1> QED BY <1>1, <1>2, <1>3, <1>4, <1>5 DEF Exclusive

LEMMA ExclusiveStep ==
    ASSUME TypeOK, Exclusive, [Next]_vars
    PROVE  Exclusive'
<1> USE DEF queue, loop, requests, bounds, history
<1>0. Main \in Threads
  BY DEF Threads
<1>1. CASE UNCHANGED vars
  BY <1>1 DEF vars, Exclusive
<1>2. CASE Start \/ EnterLoop \/ ActStop \/ Act \/ Return
  <2>1. \E label \in Labels \ Holding : Goto(Main, label)
    BY <1>2 DEF Start, EnterLoop, ActStop, Act, Return, Labels, Holding
  <2>2. pc[Main] \notin Holding /\ UNCHANGED <<handler, mutex>>
    BY <1>2 DEF Start, EnterLoop, ActStop, Act, Return, At, Holding
  <2> QED BY <1>0, <2>1, <2>2, ExclusiveOutside
<1>3. CASE DequeueLock
  BY <1>0, <1>3, ExclusiveLocks DEF DequeueLock, Holding
<1>4. CASE DequeueWait \/ DequeuePop
  <2>1. \E label \in Labels \ Holding : Goto(Main, label)
    BY <1>4 DEF DequeueWait, DequeuePop, Labels, Holding
  <2>2. pc[Main] \in Holding /\ mutex' = NoThread /\ UNCHANGED handler
    BY <1>4 DEF DequeueWait, DequeuePop, At, Holding
  <2> QED BY <1>0, <2>1, <2>2, ExclusiveUnlocks
<1>5. CASE SpuriousWakeup
  BY <1>5 DEF SpuriousWakeup, Exclusive
<1>6. ASSUME NEW t \in Threads, Enqueue(t) PROVE Exclusive'
  BY <1>6, ExclusiveLocks DEF Enqueue, enqueue_action, Holding
<1>7. ASSUME NEW t \in Threads, stop(t) PROVE Exclusive'
  BY <1>7, ExclusiveLocks DEF stop, enqueue_priority_action, Holding
<1>8. ASSUME NEW t \in Threads, Notify(t) \/ StopNotify(t) PROVE Exclusive'
  <2>1. \E label \in Labels \ Holding : Goto(t, label)
    BY <1>8 DEF Notify, StopNotify, Labels, Holding
  <2>2. pc[t] \in Holding /\ mutex' = NoThread /\ UNCHANGED handler
    BY <1>8 DEF Notify, StopNotify, notify_and_unlock, At, Holding
  <2> QED BY <2>1, <2>2, ExclusiveUnlocks
<1>9. ASSUME NEW t \in Threads, Flushed(t) \/ Request(t) \/ flush(t) PROVE Exclusive'
  <2>1. \E label \in Labels \ Holding : Goto(t, label)
    BY <1>9 DEF Flushed, Request, flush, Labels, Holding
  <2>2. pc[t] \notin Holding /\ UNCHANGED <<handler, mutex>>
    BY <1>9 DEF Flushed, Request, flush, At, Holding
  <2> QED BY <2>1, <2>2, ExclusiveOutside
<1>10. ASSUME NEW t \in Threads, Signal(t) PROVE Exclusive'
  <2>1. PICK place \in {"push", "log"} :
          /\ handler[t] = "none" /\ handler' = [handler EXCEPT ![t] = place]
          /\ UNCHANGED <<pc, mutex>>
    BY <1>10 DEF Signal
  <2> QED BY <2>1 DEF TypeOK, Exclusive, Locked
<1>13. ASSUME NEW t \in Threads, push_front_caught(t) PROVE Exclusive'
  <2>1. /\ mutex = NoThread /\ mutex' = t /\ UNCHANGED pc
        /\ handler' = [handler EXCEPT ![t] = "allocate"]
    BY <1>13 DEF push_front_caught
  <2>2. \A u \in Threads : mutex # u
    BY <2>1, ThreadsAssumption
  <2>3. \A u \in Threads : pc[u] \notin Holding /\ handler[u] \notin Locked
    BY <2>2 DEF Exclusive
  <2> QED BY <2>1, <2>3 DEF TypeOK, Exclusive, Locked
<1>11. ASSUME NEW t \in Threads, stop_daemon(t) PROVE Exclusive'
  <2>1. /\ mutex = NoThread /\ mutex' = t /\ UNCHANGED pc
        /\ handler' = [handler EXCEPT ![t] = "notify"]
    BY <1>11 DEF stop_daemon, enqueue_priority_action
  <2>2. \A u \in Threads : mutex # u
    BY <2>1, ThreadsAssumption
  <2>3. \A u \in Threads : pc[u] \notin Holding /\ handler[u] \notin Locked
    BY <2>2 DEF Exclusive
  <2> QED BY <2>1, <2>3 DEF TypeOK, Exclusive, Locked
<1>12. ASSUME NEW t \in Threads, stop_daemon_returns(t) PROVE Exclusive'
  <2>1. /\ handler[t] = "notify" /\ mutex' = NoThread /\ UNCHANGED pc
        /\ handler' = [handler EXCEPT ![t] = "none"]
    BY <1>12 DEF stop_daemon_returns, notify_and_unlock
  <2>2. mutex = t /\ pc[t] \notin Holding
    BY <2>1 DEF Exclusive, Locked
  <2>3. \A u \in Threads \ {t} : pc[u] \notin Holding /\ handler[u] \notin Locked
    BY <2>2 DEF Exclusive
  <2>4. \A u \in Threads : mutex' # u
    BY <2>1, ThreadsAssumption
  <2> QED BY <2>1, <2>2, <2>3, <2>4 DEF TypeOK, Exclusive, Locked
<1> QED BY <1>1, <1>2, <1>3, <1>4, <1>5, <1>6, <1>7, <1>8, <1>9, <1>10, <1>11, <1>12, <1>13
        DEF Next, MainStep, ThreadStep, HandlerStep

LEMMA ErrandsStep ==
    ASSUME DaemonInv, Errands, [Next]_vars
    PROVE  Errands'
<1> USE DEF queue, loop, requests, bounds, history
<1>0. /\ pc \in [Threads -> Labels]
      /\ Main \notin OtherThreads /\ Threads = {Main} \cup OtherThreads
      /\ LoopThreads \cap Callers = {} /\ pc[Main] \in MainPlaces
  BY FlushFacts, ThreadsAssumption
<1>1. CASE \/ ApartStep \/ Act
  <2>1. \A t \in OtherThreads : pc'[t] = pc[t]
    BY <1>0, <1>1, ApartSteps DEF Act, Goto, Apart
  <2>2. asked => asked'
    BY <1>1 DEF ApartStep, Start, EnterLoop, DequeueLock, DequeueWait, DequeuePop,
                SpuriousWakeup, ActStop, Act, Return, stop_daemon, stop_daemon_returns, Signal,
                push_front_caught, enqueue_priority_action, vars
  <2> QED BY <2>1, <2>2 DEF Errands, OtherThreads
<1>2. ASSUME NEW t \in Threads, Enqueue(t) \/ Request(t) \/ flush(t) PROVE Errands'
  <2>1. UNCHANGED asked /\ t \in OtherThreads
    BY <1>0, <1>2 DEF Enqueue, Request, flush, At, MainPlaces, OtherThreads
  <2>2. Goto(t, "enqueue") \/ Goto(t, "notify")
    BY <1>2 DEF Enqueue, Request, flush
  <2> QED BY <1>0, <2>1, <2>2 DEF Errands, Goto, OtherThreads
<1>3. ASSUME NEW t \in Threads, Notify(t) PROVE Errands'
  BY <1>0, <1>3 DEF Notify, Goto, Errands, OtherThreads
<1>4. ASSUME NEW t \in Threads, Flushed(t) PROVE Errands'
  BY <1>0, <1>4 DEF Flushed, Goto, Errands, OtherThreads
<1>5. ASSUME NEW t \in Threads, stop(t) PROVE Errands'
  BY <1>0, <1>5 DEF stop, enqueue_priority_action, Goto, Errands, OtherThreads
<1>6. ASSUME NEW t \in Threads, StopNotify(t) PROVE Errands'
  <2>1. /\ pc[t] = "stopping" /\ UNCHANGED asked /\ Goto(t, "joining")
    BY <1>6 DEF StopNotify, At
  <2>2. t \in Callers
    BY <1>0, <2>1 DEF Errands, OtherThreads, MainPlaces
  <2> QED BY <1>0, <2>1, <2>2 DEF Goto, Errands, OtherThreads
<1> QED BY <1>1, <1>2, <1>3, <1>4, <1>5, <1>6, FlushCases DEF Walk

LEMMA ExpectedStep ==
    ASSUME DaemonInv, Flushes, Expected, [Next]_vars
    PROVE  Expected'
<1>0. /\ pc \in [Threads -> Labels] /\ flushed \in [Threads -> BOOLEAN]
      /\ calls \in [Threads -> Nat]
      /\ Main \notin OtherThreads /\ Threads = {Main} \cup OtherThreads
      /\ Len(sent) \in Nat /\ Len(done) \in Nat /\ Len(done) <= Len(sent)
      /\ \A c \in Callers : c \in OtherThreads /\ c \in Threads
  BY FlushFacts DEF OtherThreads
<1>1. CASE ApartStep
  <2>1. /\ UNCHANGED <<sent, done, calls, flushed>>
        /\ \A c \in Callers : Waits(c)' = Waits(c)
    BY <1>0, <1>1, ApartSteps DEF Apart, Waits
  <2> QED BY <2>1 DEF Expected, Outstanding, Action
<1>2. ASSUME NEW t \in Threads, Walk(t) PROVE Expected'
  <2>1. UNCHANGED <<sent, done, calls, flushed>>
    BY <1>2, Walks
  <2>2. \A c \in Callers : Waits(c)' => Waits(c)
    <3> TAKE c \in Callers
    <3>1. CASE c = t
      BY <1>2, <3>1, Walks
    <3>2. CASE c # t
      BY <1>0, <1>2, <3>2, Walks DEF Waits
    <3> QED BY <3>1, <3>2
  <2> QED BY <2>1, <2>2 DEF Expected, Outstanding, Action
<1>3. ASSUME NEW t \in Threads, Request(t) \/ flush(t) PROVE Expected'
  <2>1. /\ UNCHANGED <<sent, done>> /\ pc' = [pc EXCEPT ![t] = "enqueue"]
        /\ \A c \in Threads \ {t} : calls'[c] = calls[c] /\ flushed'[c] = flushed[c]
    BY <1>0, <1>3 DEF Request, flush, Goto, history
  <2>2. \A c \in Callers : Waits(c)' => Waits(c) /\ c # t
    BY <1>0, <2>1 DEF Waits
  <2> QED BY <1>0, <2>1, <2>2 DEF Expected, Outstanding, Action
<1>4. ASSUME NEW t \in Threads, Enqueue(t) PROVE Expected'
  <2>1. /\ UNCHANGED <<done, calls, flushed>> /\ pc' = [pc EXCEPT ![t] = "notify"]
        /\ sent' = Append(sent, Action(t)) /\ pc[t] = "enqueue"
    BY <1>4 DEF Enqueue, enqueue_action, Goto, At, requests, history
  <2>2. Action(t) \in Item /\ sent \in Seq(Item)
    BY <2>1, FlushFacts, Enqueued DEF Alert
  <2>3. /\ Len(sent') = Len(sent) + 1 /\ sent'[Len(sent) + 1] = Action(t)
        /\ \A i \in 1 .. Len(sent) : sent'[i] = sent[i]
    BY <2>1, <2>2, AppendProperties
  <2>4. \A c \in Callers : Action(c)' = Action(c)
    BY <2>1 DEF Action
  <2>5. ASSUME NEW c \in Callers, c = t PROVE Outstanding(c)'
    <3>1. Len(sent) + 1 \in 1 .. Len(sent') /\ Len(sent) + 1 > Len(done')
      BY <1>0, <2>1, <2>3
    <3> QED BY <2>3, <2>4, <2>5, <3>1 DEF Outstanding
  <2>6. ASSUME NEW c \in Callers, c # t, Waits(c)' PROVE (flushed[c] \/ Outstanding(c))'
    <3>1. Waits(c)
      BY <1>0, <2>1, <2>6 DEF Waits
    <3>2. CASE flushed[c]
      BY <2>1, <3>2
    <3>3. CASE Outstanding(c)
      <4>1. PICK i \in 1 .. Len(sent) : i > Len(done) /\ sent[i] = Action(c)
        BY <3>3 DEF Outstanding
      <4>2. i \in 1 .. Len(sent') /\ i > Len(done')
        BY <1>0, <2>1, <2>3, <4>1
      <4> QED BY <2>3, <2>4, <4>1, <4>2 DEF Outstanding
    <3> QED BY <3>1, <3>2, <3>3 DEF Expected
  <2> QED BY <2>5, <2>6 DEF Expected
<1>5. CASE Act
  <2>1. /\ UNCHANGED <<sent, calls>> /\ \A c \in Callers : Waits(c)' = Waits(c)
        /\ flushed' = [flushed EXCEPT ![ev.from] = @ \/ ev.from \in Callers]
        /\ done' = Append(done, ev)
    BY <1>0, <1>5 DEF Act, Goto, Waits, history
  <2>2. /\ ev = sent[Len(done) + 1] /\ Len(done') = Len(done) + 1
        /\ Len(done) + 1 <= Len(sent)
    BY <1>0, <1>5, ActTakes
  <2> SUFFICES ASSUME NEW c \in Callers, Waits(c)' PROVE (flushed[c] \/ Outstanding(c))'
    BY DEF Expected
  <2>3. CASE flushed[c]
    BY <1>0, <2>1, <2>3
  <2>4. CASE Outstanding(c)
    <3>1. PICK i \in 1 .. Len(sent) : i > Len(done) /\ sent[i] = Action(c)
      BY <2>4 DEF Outstanding
    <3>2. CASE i = Len(done) + 1
      <4>1. ev.from = c
        BY <2>2, <3>1, <3>2 DEF Action
      <4> QED BY <1>0, <2>1, <4>1
    <3>3. CASE i # Len(done) + 1
      <4>1. i > Len(done')
        BY <1>0, <2>2, <3>1, <3>3
      <4> QED BY <2>1, <3>1, <4>1 DEF Outstanding, Action
    <3> QED BY <3>2, <3>3
  <2> QED BY <2>1, <2>3, <2>4 DEF Expected
<1> QED BY <1>1, <1>2, <1>3, <1>4, <1>5, FlushCases

WaitInv == FlushInv /\ Exclusive /\ Errands /\ Expected

\* The invariant of who waits for whom: the mutex is held by one thread, where the
\* code has it locked, and each waiting caller's action is still to be run
\* (Daemon.cpp:50-57, 119-144, main.cpp:31-34).
THEOREM WaitInvariance == Spec => []WaitInv
<1>1. Init /\ FlushInv => WaitInv
  BY WaitingInit DEF WaitInv
<1>2. WaitInv /\ FlushInv' /\ [Next]_vars => WaitInv'
  <2> SUFFICES ASSUME WaitInv, FlushInv', [Next]_vars PROVE WaitInv'
    OBVIOUS
  <2>1. DaemonInv /\ Flushes /\ TypeOK
    BY DEF WaitInv, FlushInv, DaemonInv, Alert
  <2> QED BY <2>1, ExclusiveStep, ErrandsStep, ExpectedStep DEF WaitInv
<1> QED BY <1>1, <1>2, FlushInvariance, PTL DEF Spec

\* What is true when no thread can go on.
LEMMA AllBlocked ==
    ASSUME WaitInv, \A t \in Threads : Blocked(t), ~ SelfBlocked, ~ LibcBlocked,
           pc[Main] # "returned"
    PROVE  AtRest
<1>0. /\ DaemonInv /\ Flushes /\ Alert /\ Orderly /\ Exclusive /\ Errands /\ Expected
      /\ TypeOK
  BY DEF WaitInv, FlushInv, DaemonInv, Alert
<1>1. /\ pc[Main] \in MainPlaces /\ \A t \in OtherThreads : pc[t] \in OtherPlaces
      /\ Threads = {Main} \cup OtherThreads
      /\ Len(sent) \in Nat /\ Len(done) \in Nat /\ Len(done) <= Len(sent)
      /\ sent \in Seq(Item) /\ done \in Seq(Item)
      /\ \A i \in 1 .. Len(done) : done[i] = sent[i]
  BY <1>0, FlushFacts
<1>2. ASSUME NEW t \in Threads, mutex = t PROVE FALSE
  <2>1. handler[t] # "push"
    BY <1>2 DEF SelfBlocked
  <2>2. handler[t] \notin Locked /\ handler[t] # "log"
    BY <1>2, <2>1 DEF Blocked, LibcBlocked, Locked
  <2>3. pc[t] \in Holding
    BY <1>0, <1>2, <2>2 DEF Exclusive
  <2> QED BY <1>2, <2>1, <2>2, <2>3 DEF Blocked, Holding, Locked
<1>3. mutex = NoThread
  BY <1>0, <1>2 DEF TypeOK
<1>4. \A t \in Threads : handler[t] \notin Locked /\ pc[t] \notin Holding
  BY <1>0, <1>2 DEF Exclusive
<1>5. \A t \in Threads : handler[t] = "none"
  BY <1>3, <1>4 DEF Blocked, LibcBlocked, Locked
<1>6. \A t \in LoopThreads : At(t, "idle")
  <2> TAKE t \in LoopThreads
  <2>1. t \in Threads
    BY DEF Threads
  <2>2. pc[t] \in {"idle", "enqueue", "notify"}
    BY <1>0 DEF Errands
  <2> QED BY <1>3, <1>4, <1>5, <2>1, <2>2 DEF Blocked, At, Holding
<1>7. pc[Main] = "wait" /\ asleep
  <2>1. Main \in Threads
    BY DEF Threads
  <2> QED BY <1>1, <1>3, <1>5, <1>6, <2>1 DEF Blocked, MainPlaces
<1>8. action_queue = << >>
  BY <1>0, <1>2, <1>7 DEF Alert, NoLostWakeup
<1>9. ~ Taken /\ Begun = Len(done) /\ Len(action_queue) = 0
  BY <1>1, <1>7, <1>8 DEF Taken, Begun
<1>10. Len(sent) <= Len(done)
  BY <1>0, <1>1, <1>9 DEF Orderly, InOrder, Shape
<1>11. done = sent
  <2>1. Len(done) = Len(sent)
    BY <1>1, <1>10
  <2> QED BY <1>1, <2>1, SeqEqual
<1>12. ~ asked
  <2>1. ~ (Len(sent) < Len(action_queue) + Begun)
    BY <1>1, <1>9, <1>11
  <2>2. ~ StopPending
    BY <1>7, <2>1 DEF StopPending
  <2> QED BY <1>0, <2>2 DEF Orderly, Stopping
<1>13. \A c \in Callers : At(c, "idle")
  <2> TAKE c \in Callers
  <2>1. c \in Threads /\ c \in OtherThreads
    BY DEF Threads, OtherThreads
  <2>2. pc[c] \notin {"stopping", "joining"}
    BY <1>0, <1>12 DEF Errands
  <2>3. ~ Outstanding(c)
    BY <1>1, <1>10 DEF Outstanding
  <2>4. pc[c] = "await" => flushed[c]
    BY <1>0, <2>3 DEF Expected, Waits
  <2>5. pc[c] \in {"idle", "enqueue", "await"}
    BY <1>1, <1>4, <2>1, <2>2 DEF OtherPlaces, Holding
  <2>6. pc[c] = "idle"
    BY <1>3, <1>5, <2>1, <2>4, <2>5 DEF Blocked
  <2> QED BY <1>5, <2>1, <2>6 DEF At
<1> QED BY <1>6, <1>7, <1>8, <1>11, <1>12, <1>13 DEF AtRest

\* For any number of threads, calls and signals, the threads never all wait for one
\* another: what can keep the daemon from its work is a thread that waits for itself, for
\* the mutex or in libc
\* (Daemon.cpp:32-57, 123-144, main.cpp:31-34).
THEOREM DaemonNeverStuck == Spec => []NeverStuck
<1>1. WaitInv => NeverStuck
  BY AllBlocked DEF NeverStuck
<1> QED BY <1>1, WaitInvariance, PTL

\* A thread that waits for itself to release the mutex is never freed, and the queue
\* stays as it is
\* (Daemon.cpp:123-144, main.cpp:31-34).
THEOREM SelfBlockIsForEver == Spec => SelfBlockIsFinal
<1>1. ASSUME WaitInv, [Next]_vars, SelfBlocked
      PROVE  SelfBlocked' /\ UNCHANGED <<mutex, action_queue, sent>>
  <2> USE DEF queue, loop, requests, bounds, history
  <2>0. PICK t \in Threads : handler[t] = "push" /\ mutex = t
    BY <1>1 DEF SelfBlocked
  <2>1. /\ Main \in Threads /\ mutex # NoThread /\ TypeOK
        /\ \A u \in Threads \ {t} : pc[u] \notin Holding /\ handler[u] \notin Locked
    BY <1>1, <2>0, ThreadsAssumption
       DEF Threads, WaitInv, FlushInv, DaemonInv, Alert, Exclusive
  <2>2. UNCHANGED <<mutex, action_queue, sent>>
    <3>1. ~ DequeueLock /\ ~ DequeueWait /\ ~ DequeuePop
      BY <2>0, <2>1 DEF DequeueLock, DequeueWait, DequeuePop, At, Holding
    <3>2. \A u \in Threads : /\ ~ Enqueue(u) /\ ~ stop(u) /\ ~ stop_daemon(u)
                             /\ ~ push_front_caught(u)
      BY <2>1 DEF Enqueue, stop, stop_daemon, enqueue_action, enqueue_priority_action,
                  push_front_caught
    <3>3. \A u \in Threads : ~ Notify(u) /\ ~ StopNotify(u) /\ ~ stop_daemon_returns(u)
      BY <2>0, <2>1 DEF Notify, StopNotify, stop_daemon_returns, At, Holding, Locked
    <3>4. \/ Start \/ EnterLoop \/ ActStop \/ Act \/ Return \/ SpuriousWakeup
          \/ \E u \in Threads : Flushed(u) \/ Request(u) \/ flush(u) \/ Signal(u)
          \/ UNCHANGED vars
      BY <1>1, <3>1, <3>2, <3>3 DEF Next, MainStep, ThreadStep, HandlerStep
    <3> QED BY <3>4 DEF Start, EnterLoop, ActStop, Act, Return, SpuriousWakeup, Flushed,
                        Request, flush, Signal, vars
  <2>3. handler'[t] = "push"
    <3>1. \A u \in Threads : /\ ~ stop_daemon(u) /\ ~ stop_daemon_returns(u)
                             /\ ~ push_front_caught(u)
      BY <2>0, <2>1 DEF stop_daemon, stop_daemon_returns, push_front_caught,
                        enqueue_priority_action, Locked
    <3>2. UNCHANGED handler \/ \E u \in Threads : Signal(u)
      BY <1>1, <3>1 DEF Next, MainStep, ThreadStep, HandlerStep, Start, EnterLoop, DequeueLock,
                        DequeueWait, DequeuePop, ActStop, Act, Return, SpuriousWakeup, Enqueue,
                        Notify, Flushed, StopNotify, Request, flush, stop, vars
    <3>3. ASSUME NEW u \in Threads, Signal(u) PROVE handler'[t] = "push"
      BY <2>0, <2>1, <3>3 DEF Signal, TypeOK
    <3> QED BY <2>0, <3>2, <3>3
  <2> QED BY <2>0, <2>2, <2>3 DEF SelfBlocked
<1>2. WaitInv /\ [Next]_vars =>
        [SelfBlocked => SelfBlocked' /\ UNCHANGED <<mutex, action_queue, sent>>]_vars
  BY <1>1
<1> QED BY <1>2, WaitInvariance, PTL DEF Spec, SelfBlockIsFinal

=============================================================================
