--------------------------- MODULE EventLoopProofs --------------------------
(***************************************************************************)
(* What holds of EventLoop for every set of callbacks: an enqueued source  *)
(* is either among those the loop has begun, or still attached in the      *)
(* order it was given, and a future tells which.                           *)
(***************************************************************************)
EXTENDS EventLoop, Integers, TLAPS

\* Where the thread can be, given the object.
Quiet ==
    /\ object = "none" => loop_thread = "none"
    /\ object = "stopped" => loop_thread = "ended"
    /\ current # {} => loop_thread = "looping"

\* What is attached, or being called, has its promise to be kept.
Awaited ==
    /\ \A c \in timed : future[c] = "pending"
    /\ \A c \in current : current = {c} /\ future[c] = "pending" /\ c \notin timed

\* Nothing is enqueued twice.
Once ==
    /\ \A i \in DOMAIN enqueued : future[enqueued[i]] # "none"
    /\ \A i, j \in DOMAIN enqueued : enqueued[i] = enqueued[j] => i = j

\* How many of the enqueued callbacks have been dispatched.
Begun == Len(enqueued) - Len(idle)

\* Those are done, but for the last, which may be the one being called.
Ordered ==
    /\ Begun >= 0
    /\ \A i \in DOMAIN idle : idle[i] = enqueued[Begun + i]
    /\ \A i \in 1 .. Begun :
         Called(enqueued[i]) \/ (i = Begun /\ enqueued[i] \in current)
    /\ \A i \in Begun + 1 .. Len(enqueued) :
         future[enqueued[i]] = "pending" /\ enqueued[i] \notin current

\* The context that stop() frees takes the order with it: what it then leaves of
\* it is WaitMeansDone.
IInv ==
    /\ TypeOK /\ Quiet /\ Awaited /\ Once
    /\ object # "stopped" => Ordered
    /\ WaitMeansDone

LEMMA InitIInv == Init => IInv
<1> SUFFICES ASSUME Init PROVE IInv
  OBVIOUS
<1>1. << >> \in Seq(Callbacks \ Timed) /\ Len(<< >>) = 0 /\ DOMAIN << >> = {}
  OBVIOUS
<1>2. TypeOK
  BY <1>1 DEF Init, TypeOK
<1>3. Quiet /\ Awaited
  BY DEF Init, Quiet, Awaited
<1>4. Once /\ WaitMeansDone
  BY <1>1 DEF Init, Once, WaitMeansDone
<1>5. Ordered
  BY <1>1 DEF Init, Ordered, Begun
<1> QED BY <1>2, <1>3, <1>4, <1>5 DEF IInv

\* As long as the order is kept, it is what a wait relies on.
LEMMA OrderedMeansDone == TypeOK /\ Awaited /\ Ordered => WaitMeansDone
<1> SUFFICES ASSUME TypeOK, Awaited, Ordered,
                    NEW j \in DOMAIN enqueued, Called(enqueued[j]), NEW i \in 1 .. j
             PROVE  Called(enqueued[i]) /\ enqueued[i] \notin current
  BY DEF WaitMeansDone
<1>1. /\ Len(enqueued) \in Nat /\ Len(idle) \in Nat /\ DOMAIN enqueued = 1 .. Len(enqueued)
      /\ j \in 1 .. Len(enqueued) /\ Begun \in Int
  BY DEF TypeOK, Begun
<1>2. j \in 1 .. Begun
  BY <1>1 DEF Ordered, Called
<1>3. i \in 1 .. Begun /\ (i = Begun => i = j)
  BY <1>1, <1>2
<1>4. \A k \in 1 .. Begun : Called(enqueued[k]) => enqueued[k] \notin current
  BY DEF Awaited, Called
<1>5. Called(enqueued[i]) \/ (i = Begun /\ enqueued[i] \in current)
  BY <1>3 DEF Ordered
<1>6. Called(enqueued[i])
  BY <1>3, <1>5
<1> QED BY <1>3, <1>4, <1>6

LEMMA StutterKeeps ==
    ASSUME IInv, UNCHANGED loopVars
    PROVE  IInv'
BY DEF IInv, TypeOK, Quiet, Awaited, Once, Ordered, Begun, WaitMeansDone, Called, loopVars

\* A step that neither gives the loop anything nor calls it.
LEMMA SettingKeeps ==
    ASSUME IInv, UNCHANGED <<idle, timed, current, future, enqueued>>,
           TypeOK', Quiet', object' # "stopped", object # "stopped"
    PROVE  IInv'
BY DEF IInv, Awaited, Once, Ordered, Begun, WaitMeansDone, Called

LEMMA ConstructKeeps ==
    ASSUME IInv, Construct
    PROVE  IInv'
<1> Started \in Callbacks \ Timed
  BY CallbacksAssumption
<1>1. /\ loop_thread = "none" /\ current = {}
      /\ object' = "constructing" /\ loop_thread' = "starting"
      /\ idle' = <<Started>> /\ enqueued' = <<Started>>
      /\ UNCHANGED <<is_running, timed, current>>
      /\ future' = [future EXCEPT ![Started] = "pending"]
  BY DEF IInv, Quiet, Construct, Promised
<1>2. <<Started>> \in Seq(Callbacks \ Timed) /\ Len(<<Started>>) = 1 /\ <<Started>>[1] = Started
      /\ DOMAIN <<Started>> = {1}
  OBVIOUS
<1>3. TypeOK'
  BY <1>1, <1>2 DEF IInv, TypeOK
<1>4. future'[Started] = "pending" /\ \A c \in Callbacks \ {Started} : future'[c] = future[c]
  BY <1>1 DEF IInv, TypeOK
<1>5. Quiet' /\ Awaited'
  BY <1>1, <1>4 DEF IInv, TypeOK, Quiet, Awaited
<1>6. Once'
  BY <1>1, <1>2, <1>4 DEF Once
<1>7. Begun' = 0
  BY <1>1, <1>2 DEF Begun
<1>8. Ordered'
  BY <1>1, <1>2, <1>4, <1>7 DEF Ordered
<1>9. WaitMeansDone'
  BY <1>1, <1>2, <1>4 DEF WaitMeansDone, Called
<1> QED BY <1>3, <1>5, <1>6, <1>8, <1>9 DEF IInv

LEMMA EnqueueKeeps ==
    ASSUME IInv, InUse, NEW c \in Callbacks \ (Timed \cup {Started}), enqueue(c)
    PROVE  IInv'
<1>1. /\ object \in {"alive", "stopping"} /\ future[c] = "none"
      /\ idle' = Append(idle, c) /\ enqueued' = Append(enqueued, c)
      /\ UNCHANGED <<object, loop_thread, is_running, timed, current>>
      /\ future' = [future EXCEPT ![c] = "pending"]
  BY DEF InUse, enqueue, Promised
<1>2. TypeOK'
  BY <1>1 DEF IInv, TypeOK
<1>3. future'[c] = "pending" /\ \A d \in Callbacks \ {c} : future'[d] = future[d]
  BY <1>1 DEF IInv, TypeOK
<1>4. Quiet' /\ Awaited'
  BY <1>1, <1>3 DEF IInv, TypeOK, Quiet, Awaited
<1> DEFINE n == Len(enqueued)
           m == Len(idle)
<1>5. /\ n \in Nat /\ m \in Nat
      /\ DOMAIN enqueued = 1 .. n /\ DOMAIN idle = 1 .. m
      /\ Len(enqueued') = n + 1 /\ DOMAIN enqueued' = 1 .. n + 1
      /\ Len(idle') = m + 1 /\ DOMAIN idle' = 1 .. m + 1
      /\ \A i \in 1 .. n : enqueued'[i] = enqueued[i] /\ enqueued[i] \in Callbacks
      /\ \A i \in 1 .. m : idle'[i] = idle[i]
      /\ enqueued'[n + 1] = c /\ idle'[m + 1] = c
  BY <1>1 DEF IInv, TypeOK
<1>6. \A i \in 1 .. n : enqueued[i] # c
  BY <1>1, <1>5 DEF IInv, Once
<1>7. Once'
  BY <1>3, <1>5, <1>6 DEF IInv, Once
<1>8. Begun' = Begun /\ Begun = n - m
  BY <1>5 DEF Begun
<1>9. Ordered /\ c \notin current
  BY <1>1 DEF IInv, Awaited
<1>a. n - m >= 0
  BY <1>8, <1>9 DEF Ordered
<1>b. Begun \in Nat /\ m <= n
  BY <1>5, <1>8, <1>a
<1>10. \A i \in DOMAIN idle' : idle'[i] = enqueued'[Begun + i]
  <2> SUFFICES ASSUME NEW i \in 1 .. m + 1 PROVE idle'[i] = enqueued'[Begun + i]
    BY <1>5
  <2>1. CASE i \in 1 .. m
    <3>1. \A k \in Nat : k = n - m => k + i \in 1 .. n
      BY <1>5, <2>1
    <3>2. Begun + i \in 1 .. n
      BY <1>8, <1>b, <3>1
    <3> QED BY <1>5, <1>9, <2>1, <3>2 DEF Ordered
  <2>2. CASE i = m + 1
    BY <1>5, <1>8, <2>2
  <2> QED BY <1>5, <2>1, <2>2
<1>11. \A i \in 1 .. Begun :
         future'[enqueued'[i]] \in {"value", "exception"} \/ (i = Begun /\ enqueued'[i] \in current)
  <2> SUFFICES ASSUME NEW i \in 1 .. Begun
               PROVE  \/ future'[enqueued'[i]] \in {"value", "exception"}
                      \/ (i = Begun /\ enqueued'[i] \in current)
    OBVIOUS
  <2>1. i \in 1 .. n
    BY <1>5, <1>8, <1>b
  <2>2. future'[enqueued'[i]] = future[enqueued[i]] /\ enqueued'[i] = enqueued[i]
    BY <1>3, <1>5, <1>6, <2>1
  <2> QED BY <1>9, <2>2 DEF Ordered, Called
<1>12. \A i \in Begun + 1 .. n + 1 : future'[enqueued'[i]] = "pending" /\ enqueued'[i] \notin current
  <2> SUFFICES ASSUME NEW i \in Begun + 1 .. n + 1
               PROVE  future'[enqueued'[i]] = "pending" /\ enqueued'[i] \notin current
    OBVIOUS
  <2>1. CASE i = n + 1
    BY <1>3, <1>5, <1>9, <2>1
  <2>2. CASE i \in Begun + 1 .. n
    <3>1. i \in 1 .. n
      BY <1>5, <1>b, <2>2
    <3>2. future'[enqueued'[i]] = future[enqueued[i]] /\ enqueued'[i] = enqueued[i]
      BY <1>3, <1>5, <1>6, <3>1
    <3> QED BY <1>9, <2>2, <3>2 DEF Ordered
  <2> QED BY <1>5, <1>8, <2>1, <2>2
<1>13. Ordered'
  BY <1>1, <1>5, <1>8, <1>9, <1>10, <1>11, <1>12 DEF Ordered, Called
<1>14. WaitMeansDone'
  BY <1>2, <1>4, <1>13, OrderedMeansDone, PTL
<1> QED BY <1>2, <1>4, <1>7, <1>13, <1>14 DEF IInv

LEMMA ScheduleKeeps ==
    ASSUME IInv, InUse, NEW c \in Timed, schedule_in(c)
    PROVE  IInv'
<1>1. /\ object \in {"alive", "stopping"} /\ future[c] = "none" /\ c \in Callbacks
      /\ timed' = timed \cup {c} /\ future' = [future EXCEPT ![c] = "pending"]
      /\ UNCHANGED <<object, loop_thread, is_running, idle, current, enqueued>>
  BY CallbacksAssumption DEF InUse, schedule_in, Promised
<1>2. TypeOK'
  BY <1>1 DEF IInv, TypeOK
<1>3. future'[c] = "pending" /\ \A d \in Callbacks \ {c} : future'[d] = future[d]
  BY <1>1 DEF IInv, TypeOK
<1>4. Quiet' /\ Awaited'
  BY <1>1, <1>3 DEF IInv, TypeOK, Quiet, Awaited
<1>5. \A i \in DOMAIN enqueued : enqueued[i] \in Callbacks \ {c}
  BY <1>1 DEF IInv, TypeOK
<1>6. \A i \in DOMAIN enqueued : future'[enqueued[i]] = future[enqueued[i]]
  BY <1>3, <1>5
<1>7. Once'
  BY <1>1, <1>6 DEF IInv, Once
<1>8. DOMAIN enqueued = 1 .. Len(enqueued) /\ Begun' = Begun /\ Begun <= Len(enqueued) /\ Begun \in Int
  BY <1>1 DEF IInv, TypeOK, Begun
<1>9. Begun >= 0 /\ Ordered
  BY <1>1 DEF IInv, Ordered
<1>10. \A i \in 1 .. Begun : i \in DOMAIN enqueued
  BY <1>8
<1>11. \A i \in Begun + 1 .. Len(enqueued) : i \in DOMAIN enqueued
  BY <1>8, <1>9
<1>12. Ordered'
  BY <1>1, <1>6, <1>8, <1>9, <1>10, <1>11 DEF Ordered, Called
<1>13. WaitMeansDone'
  BY <1>2, <1>4, <1>12, OrderedMeansDone, PTL
<1> QED BY <1>2, <1>4, <1>7, <1>12, <1>13 DEF IInv

\* A timeout is dispatched, or a source of GDBus.
LEMMA DispatchTimedKeeps ==
    ASSUME IInv, NEW c \in timed, Dispatch(c), timed' = timed \ {c}, UNCHANGED idle
    PROVE  IInv'
<1>1. /\ loop_thread = "looping" /\ current = {} /\ current' = {c} /\ c \in Timed
      /\ UNCHANGED <<object, loop_thread, is_running, future, enqueued>>
  BY DEF IInv, TypeOK, Dispatch
<1>2. TypeOK' /\ Quiet' /\ Awaited'
  BY <1>1, CallbacksAssumption DEF IInv, TypeOK, Quiet, Awaited
<1>3. Once' /\ object # "stopped"
  BY <1>1 DEF IInv, Once, Quiet
<1>4. \A i \in DOMAIN enqueued : enqueued[i] \notin current'
  BY <1>1 DEF IInv, TypeOK
<1>5. Begun' = Begun /\ DOMAIN enqueued = 1 .. Len(enqueued) /\ Begun \in Int
  BY <1>1 DEF IInv, TypeOK, Begun
<1>6. Begun >= 0 /\ Ordered
  BY <1>3 DEF IInv, Ordered
<1>7. \A i \in Begun + 1 .. Len(enqueued) : i \in DOMAIN enqueued
  BY <1>5, <1>6
<1>8. Ordered'
  BY <1>1, <1>4, <1>5, <1>6, <1>7 DEF Ordered, Called
<1>9. WaitMeansDone'
  BY <1>2, <1>8, OrderedMeansDone, PTL
<1> QED BY <1>2, <1>3, <1>8, <1>9 DEF IInv

\* The first idle source is dispatched: one more of those enqueued is begun.
LEMMA DispatchIdleKeeps ==
    ASSUME IInv, NEW c \in Callbacks, Dispatch(c), idle # << >>, c = Head(idle),
           idle' = Tail(idle), UNCHANGED timed
    PROVE  IInv'
<1> DEFINE n == Len(enqueued)
           m == Len(idle)
           k == Begun
<1>1. /\ loop_thread = "looping" /\ current = {} /\ current' = {c}
      /\ UNCHANGED <<object, loop_thread, is_running, future, enqueued>>
  BY DEF Dispatch
<1>2. /\ idle \in Seq(Callbacks \ Timed) /\ n \in Nat /\ m \in Nat /\ m > 0
      /\ DOMAIN enqueued = 1 .. n /\ DOMAIN idle = 1 .. m
      /\ c = idle[1] /\ c \in Callbacks \ Timed
      /\ Len(idle') = m - 1 /\ DOMAIN idle' = 1 .. m - 1
      /\ \A i \in 1 .. m - 1 : idle'[i] = idle[i + 1]
      /\ idle' \in Seq(Callbacks \ Timed)
  BY DEF IInv, TypeOK
<1>3. Ordered /\ Once /\ Once'
  BY <1>1 DEF IInv, Quiet, Once
<1>4. k = n - m /\ k \in Nat /\ k + 1 \in 1 .. n /\ Begun' = k + 1
  BY <1>1, <1>2, <1>3 DEF Ordered, Begun
<1>5. c = enqueued[k + 1]
  BY <1>2, <1>3 DEF Ordered
<1>6. k + 1 \in k + 1 .. n
  BY <1>4
<1>7. future[c] = "pending"
  BY <1>3, <1>5, <1>6 DEF Ordered
<1>8. TypeOK'
  BY <1>1, <1>2 DEF IInv, TypeOK
<1>9. Quiet' /\ Awaited'
  BY <1>1, <1>2, <1>7 DEF IInv, TypeOK, Quiet, Awaited
<1>10. \A i \in 1 .. m - 1 : idle'[i] = enqueued[k + 1 + i]
  <2> SUFFICES ASSUME NEW i \in 1 .. m - 1 PROVE idle'[i] = enqueued[k + 1 + i]
    OBVIOUS
  <2>1. i + 1 \in 1 .. m /\ k + (i + 1) = k + 1 + i
    BY <1>2, <1>4
  <2> QED BY <1>2, <1>3, <2>1 DEF Ordered
<1>11. \A i \in 1 .. k : Called(enqueued[i])
  BY <1>1, <1>3 DEF Ordered
<1>12. \A i \in 1 .. k + 1 : i \in 1 .. k \/ i = k + 1
  BY <1>4
<1>13. \A i \in k + 2 .. n : i \in k + 1 .. n /\ i \in 1 .. n /\ i # k + 1
  BY <1>2, <1>4
<1>14. \A i \in k + 2 .. n : future[enqueued[i]] = "pending" /\ enqueued[i] # c
  BY <1>2, <1>3, <1>4, <1>5, <1>13 DEF Ordered, Once
<1>15. Begun' >= 0 /\ Begun' + 1 = k + 2
  BY <1>4
<1>16. Ordered'
  BY <1>1, <1>2, <1>4, <1>5, <1>10, <1>11, <1>12, <1>14, <1>15 DEF Ordered, Called
<1>17. WaitMeansDone'
  BY <1>8, <1>9, <1>16, OrderedMeansDone, PTL
<1> QED BY <1>3, <1>8, <1>9, <1>16, <1>17 DEF IInv

LEMMA FinishKeeps ==
    ASSUME IInv, NEW c \in Callbacks, NEW result \in {"value", "exception"}, Finish(c, result)
    PROVE  IInv'
<1>1. /\ current = {c} /\ future[c] = "pending" /\ c \notin timed /\ current' = {}
      /\ future' = [future EXCEPT ![c] = result]
      /\ UNCHANGED <<object, loop_thread, is_running, idle, timed, enqueued>>
  BY DEF IInv, Awaited, Finish
<1>2. TypeOK'
  BY <1>1 DEF IInv, TypeOK
<1>3. future'[c] = result /\ \A d \in Callbacks \ {c} : future'[d] = future[d]
  BY <1>1 DEF IInv, TypeOK
<1>4. Quiet' /\ Awaited'
  BY <1>1, <1>3 DEF IInv, TypeOK, Quiet, Awaited
<1>5. object # "stopped" /\ Ordered
  BY <1>1 DEF IInv, Quiet
<1>6. \A i \in DOMAIN enqueued : enqueued[i] \in Callbacks
  BY DEF IInv, TypeOK
<1>7. Once'
  BY <1>1, <1>3, <1>6 DEF IInv, Once
<1>8. /\ DOMAIN enqueued = 1 .. Len(enqueued) /\ Begun' = Begun /\ Begun \in Nat
      /\ Begun <= Len(enqueued)
  BY <1>1, <1>5 DEF IInv, TypeOK, Begun, Ordered
<1>9. \A i \in 1 .. Begun : i \in DOMAIN enqueued
  BY <1>8
<1>10. \A i \in Begun + 1 .. Len(enqueued) : i \in DOMAIN enqueued
  BY <1>8
<1>11. \A i \in 1 .. Begun : future'[enqueued[i]] \in {"value", "exception"}
  BY <1>1, <1>3, <1>5, <1>6, <1>9 DEF Ordered, Called
<1>12. \A i \in Begun + 1 .. Len(enqueued) : future'[enqueued[i]] = "pending"
  BY <1>1, <1>3, <1>5, <1>6, <1>10 DEF Ordered
<1>13. Ordered'
  BY <1>1, <1>5, <1>8, <1>11, <1>12 DEF Ordered, Called
<1>14. WaitMeansDone'
  BY <1>2, <1>4, <1>13, OrderedMeansDone, PTL
<1> QED BY <1>2, <1>4, <1>7, <1>13, <1>14 DEF IInv

\* What is broken was pending: no call is undone.
LEMMA FreeKeeps ==
    ASSUME IInv, Free
    PROVE  IInv'
<1>1. /\ object = "stopping" /\ loop_thread = "ended" /\ object' = "stopped" /\ current = {}
      /\ idle' = << >> /\ timed' = {}
      /\ UNCHANGED <<loop_thread, is_running, current, enqueued>>
  BY DEF IInv, Quiet, Free
<1>2. \A c \in Callbacks : future'[c] = IF c \in Attached THEN "broken" ELSE future[c]
  BY DEF Free
<1>3. << >> \in Seq(Callbacks \ Timed)
  OBVIOUS
<1>4. TypeOK'
  BY <1>1, <1>3 DEF IInv, TypeOK, Free
<1>5. Quiet' /\ Awaited'
  BY <1>1 DEF Quiet, Awaited
<1>6. Ordered /\ WaitMeansDone /\ Once
  BY <1>1 DEF IInv
<1>7. /\ DOMAIN enqueued = 1 .. Len(enqueued) /\ DOMAIN idle = 1 .. Len(idle)
      /\ Len(idle) \in Nat /\ Len(enqueued) \in Nat /\ Begun = Len(enqueued) - Len(idle)
      /\ \A i \in DOMAIN enqueued : enqueued[i] \in Callbacks
  BY DEF IInv, TypeOK, Begun
<1>8. \A i \in DOMAIN idle : Begun + i \in Begun + 1 .. Len(enqueued)
  BY <1>7
<1>9. \A i \in DOMAIN idle : future[idle[i]] = "pending"
  BY <1>6, <1>8 DEF Ordered
<1>10. \A c \in Attached : future[c] = "pending"
  BY <1>9 DEF IInv, Awaited, Attached
<1>11. \A c \in Callbacks : future'[c] # "none" <=> future[c] # "none"
  BY <1>2, <1>10
<1>12. \A c \in Callbacks : future'[c] \in {"value", "exception"} <=> Called(c)
  BY <1>2, <1>10 DEF Called
<1>13. Once'
  BY <1>1, <1>6, <1>7, <1>11 DEF Once
<1>14. \A j \in DOMAIN enqueued : \A i \in 1 .. j : i \in DOMAIN enqueued
  BY <1>7
<1>15. WaitMeansDone'
  BY <1>1, <1>6, <1>7, <1>12, <1>14 DEF WaitMeansDone, Called
<1> QED BY <1>1, <1>4, <1>5, <1>13, <1>15 DEF IInv

LEMMA NextKeeps == IInv /\ [Next]_loopVars => IInv'
<1> SUFFICES ASSUME IInv, [Next]_loopVars PROVE IInv'
  OBVIOUS
<1>1. CASE UNCHANGED loopVars
  BY <1>1, StutterKeeps
<1>2. CASE Construct
  BY <1>2, ConstructKeeps
<1>3. CASE ConstructorReturns
  <2>1. TypeOK' /\ Quiet' /\ object # "stopped" /\ object' # "stopped"
    BY <1>3 DEF ConstructorReturns, IInv, TypeOK, Quiet
  <2> QED BY <1>3, <2>1, SettingKeeps DEF ConstructorReturns
<1>4. CASE Quit
  <2>1. TypeOK' /\ Quiet' /\ object # "stopped" /\ object' # "stopped"
    BY <1>4 DEF Quit, IInv, TypeOK, Quiet
  <2> QED BY <1>4, <2>1, SettingKeeps DEF Quit
<1>5. CASE Free
  BY <1>5, FreeKeeps
<1>6. ASSUME InUse, NEW c \in Callbacks \ (Timed \cup {Started}), enqueue(c)
      PROVE  IInv'
  BY <1>6, EnqueueKeeps
<1>7. ASSUME InUse, NEW c \in Timed, schedule_in(c)
      PROVE  IInv'
  BY <1>7, ScheduleKeeps
<1>8. CASE ThreadRuns
  <2>1. TypeOK' /\ Quiet' /\ object # "stopped" /\ object' # "stopped"
    BY <1>8 DEF ThreadRuns, IInv, TypeOK, Quiet
  <2> QED BY <1>8, <2>1, SettingKeeps DEF ThreadRuns
<1>9. CASE ThreadEnds
  <2>1. TypeOK' /\ Quiet' /\ object # "stopped" /\ object' # "stopped"
    BY <1>9 DEF ThreadEnds, IInv, TypeOK, Quiet
  <2> QED BY <1>9, <2>1, SettingKeeps DEF ThreadEnds
<1>10. ASSUME NEW c \in Callbacks, Dispatch(c)
       PROVE  IInv'
  <2>1. Take(c)
    BY <1>10 DEF Dispatch
  <2>2. CASE idle # << >> /\ c = Head(idle) /\ idle' = Tail(idle) /\ UNCHANGED timed
    BY <1>10, <2>2, DispatchIdleKeeps
  <2>3. CASE c \in timed /\ timed' = timed \ {c} /\ UNCHANGED idle
    BY <1>10, <2>3, DispatchTimedKeeps
  <2> QED BY <2>1, <2>2, <2>3 DEF Take
<1>11. ASSUME NEW c \in Callbacks, NEW result \in {"value", "exception"}, Finish(c, result)
       PROVE  IInv'
  BY <1>11, FinishKeeps
<1> QED BY <1>1, <1>2, <1>3, <1>4, <1>5, <1>6, <1>7, <1>8, <1>9, <1>10, <1>11 DEF Next

\* The inductive invariant: the dispatched callbacks are a prefix of those
\* enqueued, all done but the one being called (EventLoop.cpp:39-51, 120-136).
THEOREM EventLoopInvariance == Spec => []IInv
BY InitIInv, NextKeeps, PTL DEF Spec

\* The futures, the sources and the thread are what they can be, for any set of
\* callbacks (EventLoop.h:50-52).
THEOREM EventLoopTypeCorrect == Spec => []TypeOK
<1>1. IInv => TypeOK
  BY DEF IInv
<1> QED BY <1>1, EventLoopInvariance, PTL

\* When a wait for an enqueued callback ends by its call, that call has returned,
\* and so has every one enqueued before (EventLoop.cpp:39-51).
THEOREM WaitsAreOrdered == Spec => []WaitMeansDone
<1>1. IInv => WaitMeansDone
  BY DEF IInv
<1> QED BY <1>1, EventLoopInvariance, PTL

\* After stop() no callback is being called, and none will be: there is no thread
\* left to call it (EventLoop.cpp:102-118).
THEOREM NothingAfterStop == Spec => []QuietAfterStop
<1>1. IInv => QuietAfterStop
  BY DEF IInv, Quiet, QuietAfterStop
<1> QED BY <1>1, EventLoopInvariance, PTL

-----------------------------------------------------------------------------
(* What the ends of waits and of stop() rest on *)

\* The thread is in its loop before the constructor returns, because the empty
\* callback is called there; so only then is the flag cleared.
Starts ==
    /\ object # "none" => loop_thread # "none"
    /\ object = "none" => idle = << >>
    /\ loop_thread = "starting" => object = "constructing" /\ future[Started] = "pending"
    /\ object = "stopping" => ~ is_running

HInv == Starts /\ PendingIsHeld

LEMMA InitHInv == Init => HInv
BY CallbacksAssumption DEF Init, HInv, Starts, PendingIsHeld

\* What is appended to, or taken from the front of, the enqueued sources.
LEMMA IdleElements ==
    ASSUME TypeOK, NEW c \in Callbacks \ Timed
    PROVE  /\ \A i \in DOMAIN idle : \E j \in DOMAIN Append(idle, c) : Append(idle, c)[j] = idle[i]
           /\ \E j \in DOMAIN Append(idle, c) : Append(idle, c)[j] = c
           /\ idle # << >> => \A i \in DOMAIN idle :
                idle[i] = Head(idle) \/ \E j \in DOMAIN Tail(idle) : Tail(idle)[j] = idle[i]
<1> DEFINE len == Len(idle)
<1>1. /\ len \in Nat /\ DOMAIN idle = 1 .. len
      /\ DOMAIN Append(idle, c) = 1 .. len + 1
      /\ \A i \in 1 .. len : Append(idle, c)[i] = idle[i]
      /\ Append(idle, c)[len + 1] = c
      /\ idle # << >> => /\ Head(idle) = idle[1]
                         /\ DOMAIN Tail(idle) = 1 .. len - 1
                         /\ \A i \in 1 .. len - 1 : Tail(idle)[i] = idle[i + 1]
  BY DEF TypeOK
<1> HIDE DEF len
<1>2. ASSUME idle # << >>, NEW i \in 1 .. len, i # 1
      PROVE  i - 1 \in DOMAIN Tail(idle) /\ Tail(idle)[i - 1] = idle[i]
  <2>1. i - 1 \in 1 .. len - 1 /\ (i - 1) + 1 = i
    BY <1>1, <1>2
  <2> QED BY <1>1, <1>2, <2>1
<1>3. len + 1 \in 1 .. len + 1 /\ \A i \in 1 .. len : i \in 1 .. len + 1
  BY <1>1
<1> QED BY <1>1, <1>2, <1>3

\* Nothing is given to the loop, and nothing taken from it.
LEMMA HoldingSame ==
    ASSUME HInv, UNCHANGED <<idle, timed, current, future>>, Starts'
    PROVE  HInv'
BY DEF HInv, PendingIsHeld, Attached

LEMMA GivenHeld ==
    ASSUME TypeOK, PendingIsHeld, NEW c \in Callbacks, UNCHANGED current,
           future' = [future EXCEPT ![c] = "pending"],
           Attached \cup {c} \subseteq Attached'
    PROVE  PendingIsHeld'
BY DEF TypeOK, PendingIsHeld

LEMMA EnqueueHolds ==
    ASSUME IInv, HInv, InUse, NEW c \in Callbacks \ (Timed \cup {Started}), enqueue(c)
    PROVE  HInv'
<1>1. /\ object \in {"alive", "stopping"} /\ idle' = Append(idle, c)
      /\ UNCHANGED <<object, loop_thread, is_running, timed, current>>
      /\ future' = [future EXCEPT ![c] = "pending"]
  BY DEF InUse, enqueue, Promised
<1>2. TypeOK /\ c \in Callbacks \ Timed
  BY DEF IInv
<1>3. Attached \cup {c} \subseteq Attached'
  BY <1>1, <1>2, IdleElements DEF Attached
<1>4. PendingIsHeld'
  BY <1>1, <1>2, <1>3, GivenHeld DEF HInv
<1>5. Starts'
  BY <1>1, <1>2 DEF HInv, Starts
<1> QED BY <1>4, <1>5 DEF HInv

LEMMA ScheduleHolds ==
    ASSUME IInv, HInv, InUse, NEW c \in Timed, schedule_in(c)
    PROVE  HInv'
<1>1. /\ object \in {"alive", "stopping"} /\ timed' = timed \cup {c}
      /\ UNCHANGED <<object, loop_thread, is_running, idle, current>>
      /\ future' = [future EXCEPT ![c] = "pending"]
  BY DEF InUse, schedule_in, Promised
<1>2. TypeOK /\ c \in Callbacks
  BY CallbacksAssumption DEF IInv
<1>3. Attached \cup {c} \subseteq Attached'
  BY <1>1 DEF Attached
<1>4. PendingIsHeld'
  BY <1>1, <1>2, <1>3, GivenHeld DEF HInv
<1>5. Starts'
  BY <1>1, <1>2 DEF HInv, Starts
<1> QED BY <1>4, <1>5 DEF HInv

LEMMA DispatchHolds ==
    ASSUME IInv, HInv, NEW c \in Callbacks, Dispatch(c)
    PROVE  HInv'
<1>1. /\ loop_thread = "looping" /\ current = {} /\ current' = {c} /\ Take(c)
      /\ UNCHANGED <<object, loop_thread, is_running, future, enqueued>>
  BY DEF Dispatch
<1>2. Attached \subseteq Attached' \cup {c}
  <2>1. CASE idle # << >> /\ c = Head(idle) /\ idle' = Tail(idle) /\ UNCHANGED timed
    <3>1. Started \in Callbacks \ Timed /\ TypeOK
      BY CallbacksAssumption DEF IInv
    <3> QED BY <2>1, <3>1, IdleElements DEF Attached
  <2>2. CASE c \in timed /\ timed' = timed \ {c} /\ UNCHANGED idle
    BY <2>2 DEF Attached
  <2> QED BY <1>1, <2>1, <2>2 DEF Take
<1>3. PendingIsHeld'
  BY <1>1, <1>2 DEF HInv, PendingIsHeld
<1>4. object # "none"
  BY <1>1 DEF IInv, Quiet
<1> QED BY <1>1, <1>3, <1>4 DEF HInv, Starts

LEMMA FinishHolds ==
    ASSUME IInv, HInv, NEW c \in Callbacks, NEW result \in {"value", "exception"},
           Finish(c, result)
    PROVE  HInv'
<1>1. /\ current = {c} /\ loop_thread = "looping" /\ current' = {}
      /\ future' = [future EXCEPT ![c] = result]
      /\ UNCHANGED <<object, loop_thread, is_running, idle, timed, enqueued>>
  BY DEF IInv, Quiet, Awaited, Finish
<1>2. future'[c] = result /\ \A d \in Callbacks \ {c} : future'[d] = future[d]
  BY <1>1 DEF IInv, TypeOK
<1>3. PendingIsHeld'
  BY <1>1, <1>2 DEF HInv, PendingIsHeld, Attached
<1> QED BY <1>1, <1>3 DEF HInv, Starts

LEMMA NextHolds == IInv /\ HInv /\ [Next]_loopVars => HInv'
<1> SUFFICES ASSUME IInv, HInv, [Next]_loopVars PROVE HInv'
  OBVIOUS
<1>1. CASE UNCHANGED loopVars
  <2>1. Starts'
    BY <1>1 DEF loopVars, HInv, Starts
  <2> QED BY <1>1, <2>1, HoldingSame DEF loopVars
<1>2. CASE Construct
  <2>1. /\ idle = << >> /\ idle' = <<Started>> /\ loop_thread' = "starting"
        /\ object' = "constructing" /\ UNCHANGED <<is_running, timed, current>>
        /\ future' = [future EXCEPT ![Started] = "pending"]
    BY <1>2 DEF Construct, Promised, HInv, Starts
  <2>2. Started \in Callbacks /\ TypeOK
    BY CallbacksAssumption DEF IInv
  <2>3. DOMAIN << >> = {} /\ 1 \in DOMAIN <<Started>> /\ <<Started>>[1] = Started
    OBVIOUS
  <2>4. Attached \cup {Started} \subseteq Attached'
    BY <2>1, <2>3 DEF Attached
  <2>5. PendingIsHeld'
    BY <2>1, <2>2, <2>4, GivenHeld DEF HInv
  <2>6. Starts'
    BY <2>1, <2>2 DEF Starts, TypeOK
  <2> QED BY <2>5, <2>6 DEF HInv
<1>3. CASE ConstructorReturns
  <2>1. Starts'
    BY <1>3 DEF ConstructorReturns, HInv, Starts
  <2> QED BY <1>3, <2>1, HoldingSame DEF ConstructorReturns
<1>4. CASE Quit
  <2>1. Starts'
    BY <1>4 DEF Quit, HInv, Starts
  <2> QED BY <1>4, <2>1, HoldingSame DEF Quit
<1>5. CASE Free
  <2>1. PendingIsHeld'
    BY <1>5 DEF Free, HInv, PendingIsHeld
  <2>2. Starts'
    BY <1>5 DEF Free, HInv, Starts
  <2> QED BY <2>1, <2>2 DEF HInv
<1>6. ASSUME InUse, NEW c \in Callbacks \ (Timed \cup {Started}), enqueue(c)
      PROVE  HInv'
  BY <1>6, EnqueueHolds
<1>7. ASSUME InUse, NEW c \in Timed, schedule_in(c)
      PROVE  HInv'
  BY <1>7, ScheduleHolds
<1>8. CASE ThreadRuns
  <2>1. Starts'
    BY <1>8 DEF ThreadRuns, HInv, Starts
  <2> QED BY <1>8, <2>1, HoldingSame DEF ThreadRuns
<1>9. CASE ThreadEnds
  <2>1. Starts'
    BY <1>9 DEF ThreadEnds, HInv, Starts
  <2> QED BY <1>9, <2>1, HoldingSame DEF ThreadEnds
<1>10. ASSUME NEW c \in Callbacks, Dispatch(c)
       PROVE  HInv'
  BY <1>10, DispatchHolds
<1>11. ASSUME NEW c \in Callbacks, NEW result \in {"value", "exception"}, Finish(c, result)
       PROVE  HInv'
  BY <1>11, FinishHolds
<1> QED BY <1>1, <1>2, <1>3, <1>4, <1>5, <1>6, <1>7, <1>8, <1>9, <1>10, <1>11 DEF Next

\* The invariant that waits and stop() rest on: the thread loops before the
\* constructor returns, and nothing pending is out of the loop's hands
\* (EventLoop.cpp:86-118).
THEOREM HoldingInvariance == Spec => [](IInv /\ HInv)
<1>1. Spec => []IInv
  BY EventLoopInvariance
<1>2. IInv /\ HInv /\ [Next]_loopVars => HInv'
  BY NextHolds
<1> QED BY <1>1, <1>2, InitHInv, PTL DEF Spec

\* Nothing that somebody may be waiting for is lost: it is attached, or being called
\* (EventLoop.cpp:39-53, 113-117).
THEOREM NothingPendingIsLost == Spec => []PendingIsHeld
<1>1. HInv => PendingIsHeld
  BY DEF HInv
<1> QED BY <1>1, HoldingInvariance, PTL

\* The quit is not overwritten by the start of the loop: the thread will end
\* (EventLoop.cpp:94, 104-107).
THEOREM QuitReachesTheLoop == Spec => []QuitIsKept
<1>1. IInv /\ HInv => QuitIsKept
  BY DEF IInv, TypeOK, HInv, Starts, QuitIsKept
<1> QED BY <1>1, HoldingInvariance, PTL

=============================================================================
