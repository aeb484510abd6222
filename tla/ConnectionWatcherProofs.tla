---------------------- MODULE ConnectionWatcherProofs -----------------------
(***************************************************************************)
(* What is settled is true but for the three ways of LeftWrong, for any    *)
(* number of changes and restarts.  What connman has to say of a           *)
(* technology travels in three places: on the bus, among the signals that  *)
(* wait, and in the answer the loop is blocked for.  The last of the news  *)
(* is what counts, it is always right, and once it was told nothing of an  *)
(* older connman is to follow.                                             *)
(***************************************************************************)
EXTENDS ConnectionWatcher, SequenceTheorems, WellFoundedInduction, TLAPS

\* A signal by which connman n tells of tech, and an answer by which it does.
IsNews(msg, tech, n) ==
    msg.kind = "signal" /\ msg.tech = tech /\ msg.key = "Powered" /\ msg.from = n
IsAnswer(msg, tech, n) ==
    msg.kind = "answer" /\ msg.tech = tech /\ msg.ok /\ msg.from = n

NoNews(seq, tech, n) == \A i \in DOMAIN seq : ~ IsNews(seq[i], tech, n)
NoNewsAfter(seq, i, tech, n) == \A j \in DOMAIN seq : j > i => ~ IsNews(seq[j], tech, n)

\* The last of the news in seq is v, and so is an answer that no news follows.
LastIs(seq, tech, n, v) ==
    \A i \in DOMAIN seq :
        IsNews(seq[i], tech, n) /\ NoNewsAfter(seq, i, tech, n) => seq[i].value = v
AnswersAre(seq, tech, n, v) ==
    \A i \in DOMAIN seq :
        IsAnswer(seq[i], tech, n) /\ NoNewsAfter(seq, i, tech, n) => seq[i].powered = v

\* A signal, and an answer, of another connman than n.
IsOlder(msg, tech, n) ==
    msg.kind = "signal" /\ msg.tech = tech /\ msg.key = "Powered" /\ msg.from # n
IsOldAnswer(msg, tech, n) == msg.kind = "answer" /\ msg.tech = tech /\ msg.from # n

NoOlder(seq, tech, n) == \A i \in DOMAIN seq : ~ IsOlder(seq[i], tech, n)
NoOldAnswer(seq, tech, n) == \A i \in DOMAIN seq : ~ IsOldAnswer(seq[i], tech, n)
NoAnswer(seq, tech) == \A i \in DOMAIN seq : ~ (seq[i].kind = "answer" /\ seq[i].tech = tech)

AllFrom(seq, n) == \A i \in DOMAIN seq : seq[i].from = n
NoneFrom(seq, n) == \A i \in DOMAIN seq : seq[i].from # n
Ordered(seq, n) ==
    \A i \in DOMAIN seq : \A j \in DOMAIN seq : i < j /\ seq[i].from = n => seq[j].from = n

-----------------------------------------------------------------------------
(* Sequences of messages *)

LEMMA AppendNews ==
    ASSUME NEW seq \in Seq(Message), NEW msg \in Message, NEW tech, NEW n, NEW v
    PROVE  /\ NoNews(Append(seq, msg), tech, n)
                <=> NoNews(seq, tech, n) /\ ~ IsNews(msg, tech, n)
           /\ IsNews(msg, tech, n) =>
                /\ msg.value = v => LastIs(Append(seq, msg), tech, n, v)
                /\ AnswersAre(Append(seq, msg), tech, n, v)
           /\ ~ IsNews(msg, tech, n) =>
                /\ LastIs(seq, tech, n, v) => LastIs(Append(seq, msg), tech, n, v)
                /\ AnswersAre(seq, tech, n, v) /\ (IsAnswer(msg, tech, n) => msg.powered = v)
                     => AnswersAre(Append(seq, msg), tech, n, v)
<1> DEFINE len == Len(seq)
           after == Append(seq, msg)
<1>1. /\ len \in Nat /\ DOMAIN seq = 1 .. len /\ DOMAIN after = 1 .. len + 1
      /\ \A i \in 1 .. len : after[i] = seq[i]
      /\ after[len + 1] = msg
  BY AppendProperties, LenProperties
<1> HIDE DEF len, after
<1>2. DOMAIN after = 1 .. len \cup {len + 1} /\ \A i \in 1 .. len : len + 1 > i
  BY <1>1
<1>3. NoNews(after, tech, n) <=> NoNews(seq, tech, n) /\ ~ IsNews(msg, tech, n)
  BY <1>1, <1>2 DEF NoNews
<1>4. ASSUME IsNews(msg, tech, n), NEW i \in 1 .. len
      PROVE  ~ NoNewsAfter(after, i, tech, n)
  BY <1>1, <1>2, <1>4 DEF NoNewsAfter
<1>5. ASSUME NEW i \in 1 .. len, NoNewsAfter(after, i, tech, n)
      PROVE  NoNewsAfter(seq, i, tech, n)
  BY <1>1, <1>2, <1>5 DEF NoNewsAfter
<1>6. IsNews(msg, tech, n) =>
        /\ msg.value = v => LastIs(after, tech, n, v)
        /\ AnswersAre(after, tech, n, v)
  <2>1. IsNews(msg, tech, n) => ~ IsAnswer(msg, tech, n)
    BY DEF IsNews, IsAnswer
  <2> QED BY <1>1, <1>2, <1>4, <2>1 DEF LastIs, AnswersAre
<1>7. ~ IsNews(msg, tech, n) =>
        /\ LastIs(seq, tech, n, v) => LastIs(after, tech, n, v)
        /\ AnswersAre(seq, tech, n, v) /\ (IsAnswer(msg, tech, n) => msg.powered = v)
             => AnswersAre(after, tech, n, v)
  BY <1>1, <1>2, <1>5 DEF LastIs, AnswersAre
<1> QED BY <1>3, <1>6, <1>7 DEF after

LEMMA TailNews ==
    ASSUME NEW seq \in Seq(Message), seq # << >>, NEW tech, NEW n, NEW v
    PROVE  /\ NoNews(seq, tech, n)
                <=> ~ IsNews(Head(seq), tech, n) /\ NoNews(Tail(seq), tech, n)
           /\ LastIs(seq, tech, n, v) =>
                /\ LastIs(Tail(seq), tech, n, v)
                /\ IsNews(Head(seq), tech, n) /\ NoNews(Tail(seq), tech, n)
                     => Head(seq).value = v
           /\ AnswersAre(seq, tech, n, v) =>
                /\ AnswersAre(Tail(seq), tech, n, v)
                /\ IsAnswer(Head(seq), tech, n) /\ NoNews(Tail(seq), tech, n)
                     => Head(seq).powered = v
<1> DEFINE rest == Tail(seq)
<1>1. PICK k \in Nat : Len(seq) = k + 1
  BY EmptySeq, LenProperties
<1>2. /\ DOMAIN seq = 1 .. k + 1 /\ DOMAIN rest = 1 .. k
      /\ \A i \in 1 .. k : rest[i] = seq[i + 1]
      /\ Head(seq) = seq[1]
  BY <1>1, HeadTailProperties, LenProperties
<1> HIDE DEF rest
<1>3. /\ \A i \in 1 .. k + 1 : i = 1 \/ \E j \in 1 .. k : i = j + 1
      /\ \A i \in 1 .. k : i + 1 \in 1 .. k + 1 /\ i + 1 > 1
      /\ 1 \in 1 .. k + 1
  <2>1. ASSUME NEW i \in 1 .. k + 1, i # 1 PROVE i - 1 \in 1 .. k /\ i = (i - 1) + 1
    BY <1>1, <2>1
  <2> QED BY <1>1, <2>1
<1>4. NoNews(seq, tech, n) <=> ~ IsNews(seq[1], tech, n) /\ NoNews(rest, tech, n)
  <2>1. ASSUME NoNews(seq, tech, n), NEW i \in 1 .. k PROVE ~ IsNews(rest[i], tech, n)
    <3>1. i + 1 \in DOMAIN seq /\ rest[i] = seq[i + 1]
      BY <1>2, <1>3
    <3> QED BY <2>1, <3>1 DEF NoNews
  <2>2. ASSUME ~ IsNews(seq[1], tech, n), NoNews(rest, tech, n), NEW i \in 1 .. k + 1, i # 1
        PROVE  ~ IsNews(seq[i], tech, n)
    <3>1. PICK j \in 1 .. k : i = j + 1
      BY <1>3, <2>2
    <3>2. j \in DOMAIN rest /\ seq[i] = rest[j]
      BY <1>2, <3>1
    <3> QED BY <2>2, <3>2 DEF NoNews
  <2> QED BY <1>2, <1>3, <2>1, <2>2 DEF NoNews
<1>5. ASSUME NoNews(rest, tech, n) PROVE NoNewsAfter(seq, 1, tech, n)
  <2> SUFFICES ASSUME NEW i \in 1 .. k + 1, i > 1 PROVE ~ IsNews(seq[i], tech, n)
    BY <1>2 DEF NoNewsAfter
  <2>1. PICK j \in 1 .. k : i = j + 1
    BY <1>3
  <2>2. j \in DOMAIN rest /\ seq[i] = rest[j]
    BY <1>2, <2>1
  <2> QED BY <1>5, <2>2 DEF NoNews
<1>6. ASSUME NEW i \in 1 .. k, NoNewsAfter(rest, i, tech, n)
      PROVE  NoNewsAfter(seq, i + 1, tech, n)
  <2> SUFFICES ASSUME NEW j \in 1 .. k + 1, j > i + 1 PROVE ~ IsNews(seq[j], tech, n)
    BY <1>2 DEF NoNewsAfter
  <2>1. PICK m \in 1 .. k : j = m + 1
    BY <1>3
  <2>2. m > i
    BY <2>1
  <2> QED BY <1>2, <1>6, <2>1, <2>2 DEF NoNewsAfter
<1>7. ASSUME LastIs(seq, tech, n, v)
      PROVE  /\ LastIs(rest, tech, n, v)
             /\ IsNews(seq[1], tech, n) /\ NoNews(rest, tech, n) => seq[1].value = v
  <2>1. ASSUME NEW i \in 1 .. k, IsNews(rest[i], tech, n), NoNewsAfter(rest, i, tech, n)
        PROVE  rest[i].value = v
    <3>1. NoNewsAfter(seq, i + 1, tech, n) /\ i + 1 \in DOMAIN seq /\ rest[i] = seq[i + 1]
      BY <1>2, <1>3, <1>6, <2>1
    <3> QED BY <1>7, <2>1, <3>1 DEF LastIs
  <2>2. LastIs(rest, tech, n, v)
    BY <1>2, <2>1 DEF LastIs
  <2>3. IsNews(seq[1], tech, n) /\ NoNews(rest, tech, n) => seq[1].value = v
    BY <1>2, <1>3, <1>5, <1>7 DEF LastIs
  <2> QED BY <2>2, <2>3
<1>8. ASSUME AnswersAre(seq, tech, n, v)
      PROVE  /\ AnswersAre(rest, tech, n, v)
             /\ IsAnswer(seq[1], tech, n) /\ NoNews(rest, tech, n) => seq[1].powered = v
  <2>1. ASSUME NEW i \in 1 .. k, IsAnswer(rest[i], tech, n), NoNewsAfter(rest, i, tech, n)
        PROVE  rest[i].powered = v
    <3>1. NoNewsAfter(seq, i + 1, tech, n) /\ i + 1 \in DOMAIN seq /\ rest[i] = seq[i + 1]
      BY <1>2, <1>3, <1>6, <2>1
    <3> QED BY <1>8, <2>1, <3>1 DEF AnswersAre
  <2>2. AnswersAre(rest, tech, n, v)
    BY <1>2, <2>1 DEF AnswersAre
  <2>3. IsAnswer(seq[1], tech, n) /\ NoNews(rest, tech, n) => seq[1].powered = v
    BY <1>2, <1>3, <1>5, <1>8 DEF AnswersAre
  <2> QED BY <2>2, <2>3
<1> QED BY <1>2, <1>4, <1>7, <1>8 DEF rest

\* Where there is news there is a last of it.
LEMMA LastNews ==
    ASSUME NEW seq \in Seq(Message), NEW tech, NEW n, ~ NoNews(seq, tech, n)
    PROVE  \E i \in DOMAIN seq : IsNews(seq[i], tech, n) /\ NoNewsAfter(seq, i, tech, n)
<1> DEFINE len == Len(seq)
           left == {len - i : i \in {j \in 1 .. len : IsNews(seq[j], tech, n)}}
<1>1. len \in Nat /\ DOMAIN seq = 1 .. len
  BY LenProperties
<1> HIDE DEF len
<1>2. left \subseteq Nat
  BY <1>1
<1>3. PICK i \in 1 .. len : IsNews(seq[i], tech, n)
  BY <1>1 DEF NoNews
<1>4. len - i \in left
  BY <1>3
<1>5. \E x \in left : \A y \in left : ~ (<<y, x>> \in OpToRel(<, Nat))
  BY <1>2, <1>4, NatLessThanWellFounded, WFMin
<1>6. PICK x \in left : \A y \in left : ~ (y < x)
  BY <1>2, <1>5 DEF OpToRel
<1>7. PICK last \in 1 .. len : IsNews(seq[last], tech, n) /\ x = len - last
  BY <1>6
<1>8. ASSUME NEW j \in 1 .. len, j > last, IsNews(seq[j], tech, n) PROVE FALSE
  <2>1. len - j \in left
    BY <1>8
  <2>2. ~ (len - j < x)
    BY <1>6, <2>1
  <2> HIDE DEF left
  <2> QED BY <1>1, <1>7, <1>8, <2>2
<1> QED BY <1>1, <1>7, <1>8 DEF NoNewsAfter

-----------------------------------------------------------------------------
(* The invariant *)

\* The steps of the constructor, and what the loop is blocked for.
Construction ==
    /\ \A i \in 1 .. 3 : i <= constructor => Order[i] \in subscribed
    /\ asking # {} => constructor \in 3 .. 5
    /\ answer # {} => asking # {}

Sorted ==
    /\ \A i \in DOMAIN signals : signals[i].kind = "signal"
    /\ \A msg \in answer : msg.kind = "answer"

\* Nothing is heard of a technology before its signals are subscribed to.
Unheard ==
    \A tech \in Technology \ subscribed :
        /\ heard[tech] # "told"
        /\ tech \notin asking /\ tech \notin asked
        /\ \A i \in DOMAIN bus : bus[i].tech # tech
        /\ \A i \in DOMAIN signals : signals[i].tech # tech
        /\ \A msg \in answer : msg.tech # tech

\* Nothing is from a connman to come.
Past ==
    /\ \A i \in DOMAIN bus : bus[i].from <= incarnation
    /\ \A i \in DOMAIN signals : signals[i].from <= incarnation
    /\ \A msg \in answer : msg.from <= incarnation

\* The last of the news is right: if it is not on the bus it waits on the loop, if
\* not there it is in the answer, and if it is nowhere LightState has it.
Right(tech) ==
    /\ LastIs(bus, tech, incarnation, powered[tech])
    /\ AnswersAre(bus, tech, incarnation, powered[tech])
    /\ NoNews(bus, tech, incarnation) =>
         /\ LastIs(signals, tech, incarnation, powered[tech])
         /\ NoNews(signals, tech, incarnation) =>
              /\ \A msg \in answer :
                   IsAnswer(msg, tech, incarnation) => msg.powered = powered[tech]
              /\ heard[tech] = "told" => connectivity[tech] = powered[tech]

Rest == TypeOK /\ Construction /\ Sorted /\ Unheard /\ Past

\* What one connman sends is ahead of what the next one sends, wherever it waits.
InOrder ==
    /\ Ordered(bus, incarnation) /\ Ordered(signals, incarnation)
    /\ \/ AllFrom(bus, incarnation)
       \/ NoneFrom(signals, incarnation) /\ \A msg \in answer : msg.from # incarnation

\* The loop is blocked for the technology whose turn it is, and no answer is about
\* until a technology is asked for.
Queried ==
    /\ \A tech \in asking : tech = Order[constructor - 2]
    /\ \A msg \in answer : msg.tech \in asking
    /\ \A i \in 1 .. 3 : constructor < 3 + i /\ Order[i] \notin asking =>
          Order[i] \notin asked /\ NoAnswer(bus, Order[i])

\* Once the connman there is has told of a technology, nothing older is to follow.
Fresh(tech) ==
    heard[tech] = "told" =>
        /\ NoOlder(bus, tech, incarnation) /\ NoOlder(signals, tech, incarnation)
        /\ \A msg \in answer : msg.tech = tech => msg.from = incarnation
        /\ tech \in asking => NoOldAnswer(bus, tech, incarnation)

\* A technology nothing was asked of has its turn to come, and connman is the first.
Unasked(tech) ==
    heard[tech] = "unasked" =>
        /\ incarnation = 1
        /\ \A i \in 1 .. 3 : Order[i] = tech => constructor < 3 + i

History == InOrder /\ Queried /\ \A tech \in Technology : Fresh(tech) /\ Unasked(tech)

IInv == Rest /\ History /\ \A tech \in Technology : Right(tech)

-----------------------------------------------------------------------------
(* Each step *)

LEMMA InitIInv == Init => IInv
<1> SUFFICES ASSUME Init PROVE IInv
  OBVIOUS
<1>1. << >> \in Seq(Message) /\ DOMAIN << >> = {}
  BY EmptySeq
<1>2. 1 \in Incarnation
  BY ChangesAssumption DEF Incarnation
<1>3. TypeOK
  BY <1>1, <1>2, ChangesAssumption DEF Init, TypeOK, Heard
<1>4. Construction /\ Sorted /\ Unheard /\ Past
  BY <1>1 DEF Init, Construction, Sorted, Unheard, Past
<1>5. ASSUME NEW tech \in Technology PROVE Right(tech)
  BY <1>1 DEF Init, Right, LastIs, AnswersAre
<1>6. InOrder /\ Queried
  BY <1>1 DEF Init, InOrder, Queried, Ordered, AllFrom, NoAnswer
<1>7. ASSUME NEW tech \in Technology PROVE Fresh(tech) /\ Unasked(tech)
  BY DEF Init, Fresh, Unasked
<1> QED BY <1>3, <1>4, <1>5, <1>6, <1>7 DEF IInv, Rest, History

LEMMA BusTyped ==
    IInv => /\ bus \in Seq(Message) /\ signals \in Seq(Message) /\ answer \subseteq Message
            /\ DOMAIN bus = 1 .. Len(bus) /\ DOMAIN signals = 1 .. Len(signals)
            /\ incarnation \in Nat \ {0} /\ MAX_RESTARTS \in Nat
BY LenProperties, ChangesAssumption DEF IInv, Rest, TypeOK, Incarnation

LEMMA SignalTyped ==
    ASSUME IInv, powered' \in [Technology -> BOOLEAN], NEW tech \in Technology,
           NEW key \in {"Powered", "Connected"}
    PROVE  Signal(tech, key) \in Message
<1>1. (powered'[tech] = (key = "Powered")) \in BOOLEAN
  OBVIOUS
<1>2. incarnation \in Incarnation
  BY DEF IInv, Rest, TypeOK
<1> HIDE DEF Incarnation
<1> QED BY <1>1, <1>2 DEF Signal, Message

\* What is appended to the bus or the signals keeps what each of their messages has.
LEMMA AppendKeeps ==
    ASSUME NEW seq \in Seq(Message), NEW msg \in Message
    PROVE  /\ Append(seq, msg) \in Seq(Message)
           /\ \A i \in DOMAIN Append(seq, msg) :
                Append(seq, msg)[i] = msg
                    \/ \E j \in DOMAIN seq : Append(seq, msg)[i] = seq[j]
<1>1. /\ Len(seq) \in Nat /\ DOMAIN seq = 1 .. Len(seq)
      /\ DOMAIN Append(seq, msg) = 1 .. Len(seq) + 1
      /\ \A i \in 1 .. Len(seq) : Append(seq, msg)[i] = seq[i]
      /\ Append(seq, msg)[Len(seq) + 1] = msg
      /\ Append(seq, msg) \in Seq(Message)
  BY AppendProperties, LenProperties
<1>2. \A i \in 1 .. Len(seq) + 1 : i = Len(seq) + 1 \/ i \in 1 .. Len(seq)
  BY <1>1
<1> QED BY <1>1, <1>2

LEMMA TailKeeps ==
    ASSUME NEW seq \in Seq(Message), seq # << >>
    PROVE  /\ Tail(seq) \in Seq(Message) /\ Head(seq) \in Message
           /\ \E j \in DOMAIN seq : Head(seq) = seq[j]
           /\ \A i \in DOMAIN Tail(seq) : \E j \in DOMAIN seq : Tail(seq)[i] = seq[j]
<1>1. PICK k \in Nat : Len(seq) = k + 1
  BY EmptySeq, LenProperties
<1>2. /\ DOMAIN seq = 1 .. k + 1 /\ DOMAIN Tail(seq) = 1 .. k
      /\ \A i \in 1 .. k : Tail(seq)[i] = seq[i + 1]
      /\ Head(seq) = seq[1]
      /\ Tail(seq) \in Seq(Message) /\ Head(seq) \in Message
  BY <1>1, HeadTailProperties, LenProperties
<1>3. 1 \in 1 .. k + 1 /\ \A i \in 1 .. k : i + 1 \in 1 .. k + 1
  BY <1>1
<1> QED BY <1>2, <1>3

\* What a message that is passed on changes.
LEMMA SaveHeard ==
    ASSUME Rest, NEW msg \in Message, NEW state \in BOOLEAN, msg.tech \in Technology,
           saveStateForPath(msg, state)
    PROVE  /\ connectivity' \in [Technology -> BOOLEAN] /\ heard' \in [Technology -> Heard]
           /\ connectivity'[msg.tech] = state
           /\ \A tech \in Technology \ {msg.tech} :
                connectivity'[tech] = connectivity[tech] /\ heard'[tech] = heard[tech]
           /\ msg.from # incarnation => heard' = heard
           /\ msg.from = incarnation =>
                heard'[msg.tech] = IF Overtaking(msg) THEN "overtaken" ELSE "told"
<1>1. connectivity \in [Technology -> BOOLEAN] /\ heard \in [Technology -> Heard]
  BY DEF Rest, TypeOK
<1>2. connectivity' = [connectivity EXCEPT ![msg.tech] = state]
  BY DEF saveStateForPath
<1>3. /\ connectivity' \in [Technology -> BOOLEAN] /\ connectivity'[msg.tech] = state
      /\ \A tech \in Technology \ {msg.tech} : connectivity'[tech] = connectivity[tech]
  BY <1>1, <1>2
<1>4. CASE msg.from # incarnation
  BY <1>1, <1>3, <1>4 DEF saveStateForPath
<1>5. CASE msg.from = incarnation
  <2> DEFINE way == IF Overtaking(msg) THEN "overtaken" ELSE "told"
  <2>1. heard' = [heard EXCEPT ![msg.tech] = way]
    BY <1>5 DEF saveStateForPath
  <2>2. way \in Heard
    BY DEF Heard
  <2>3. /\ heard' \in [Technology -> Heard] /\ heard'[msg.tech] = way
        /\ \A tech \in Technology \ {msg.tech} : heard'[tech] = heard[tech]
    BY <1>1, <2>1, <2>2
  <2> QED BY <1>3, <1>5, <2>3
<1> QED BY <1>4, <1>5

\* What a failed query changes.
LEMMA FailsHeard ==
    ASSUME IInv, QueryFails
    PROVE  /\ connectivity' = connectivity /\ heard' \in [Technology -> Heard]
           /\ \A tech \in Technology :
                /\ heard'[tech] = "told" <=> heard[tech] = "told"
                /\ heard'[tech] = "unasked" <=> heard[tech] = "unasked" /\ tech \notin asking
<1>1. heard \in [Technology -> Heard]
  BY DEF IInv, Rest, TypeOK
<1>2. ASSUME NEW tech \in Technology
      PROVE  heard'[tech] = IF tech \in asking /\ heard[tech] = "unasked" THEN "failed"
                                                                       ELSE heard[tech]
  BY DEF QueryFails
<1>3. heard' \in [Technology -> Heard]
  BY <1>1 DEF QueryFails, Heard
<1> QED BY <1>2, <1>3 DEF QueryFails

\* Nothing that is right of a technology is touched.
LEMMA RightSame ==
    ASSUME NEW tech \in Technology, Right(tech),
           UNCHANGED <<bus, signals, answer, incarnation, connectivity, heard>>,
           powered'[tech] = powered[tech]
    PROVE  Right(tech)'
BY DEF Right

\* A property of connman's changes.
LEMMA ChangesRight ==
    ASSUME IInv, NEW changed \in Technology, NEW key \in {"Powered", "Connected"},
           PropertyChanges(changed, key), NEW tech \in Technology
    PROVE  Right(tech)'
<1>1. /\ UNCHANGED <<incarnation, signals, answer, connectivity, heard, subscribed>>
      /\ powered' = IF key = "Powered" THEN [powered EXCEPT ![changed] = ~ @] ELSE powered
      /\ bus' = IF changed \in subscribed THEN Append(bus, Signal(changed, key)) ELSE bus
  BY DEF PropertyChanges
<1>2. powered \in [Technology -> BOOLEAN] /\ powered' \in [Technology -> BOOLEAN]
  BY <1>1 DEF IInv, Rest, TypeOK
<1>3. bus \in Seq(Message) /\ Signal(changed, key) \in Message
  BY <1>2, BusTyped, SignalTyped
<1> DEFINE msg == Signal(changed, key)
           n == incarnation
<1>4. Right(tech)
  BY DEF IInv
<1>5. CASE tech # changed \/ key # "Powered"
  <2>1. powered'[tech] = powered[tech]
    BY <1>1, <1>2, <1>5
  <2>2. CASE changed \notin subscribed
    BY <1>1, <1>4, <2>1, <2>2, RightSame
  <2>3. CASE changed \in subscribed
    <3>1. ~ IsNews(msg, tech, n) /\ ~ IsAnswer(msg, tech, n)
      BY <1>5 DEF IsNews, IsAnswer, Signal
    <3>2. bus' = Append(bus, msg)
      BY <1>1, <2>3
    <3> HIDE DEF msg
    <3>3. LastIs(bus', tech, n, powered[tech]) /\ AnswersAre(bus', tech, n, powered[tech])
      BY <1>3, <1>4, <3>1, <3>2, AppendNews DEF Right, msg
    <3>4. NoNews(bus', tech, n) => NoNews(bus, tech, n)
      BY <1>3, <3>2, AppendNews DEF msg
    <3> QED BY <1>1, <1>4, <2>1, <3>3, <3>4 DEF Right
  <2> QED BY <2>2, <2>3
<1>6. CASE tech = changed /\ key = "Powered"
  <2>1. CASE changed \notin subscribed
    <3>1. /\ heard[tech] # "told" /\ \A i \in DOMAIN bus : bus[i].tech # tech
          /\ \A i \in DOMAIN signals : signals[i].tech # tech
          /\ \A m \in answer : m.tech # tech
      BY <1>6, <2>1 DEF IInv, Rest, Unheard
    <3>2. bus' = bus
      BY <1>1, <2>1
    <3> QED BY <1>1, <3>1, <3>2 DEF Right, LastIs, AnswersAre, IsNews, IsAnswer
  <2>2. CASE changed \in subscribed
    <3>1. IsNews(msg, tech, n)
      BY <1>6 DEF IsNews, Signal
    <3>2. msg.value = powered'[tech]
      <4>1. msg.value = (powered'[tech] = TRUE)
        BY <1>6 DEF Signal
      <4>2. powered'[tech] = TRUE \/ powered'[tech] = FALSE
        BY <1>2
      <4> QED BY <4>1, <4>2
    <3>3. bus' = Append(bus, msg)
      BY <1>1, <2>2
    <3> HIDE DEF msg
    <3>4. /\ LastIs(bus', tech, n, powered'[tech]) /\ AnswersAre(bus', tech, n, powered'[tech])
          /\ ~ NoNews(bus', tech, n)
      BY <1>3, <3>1, <3>2, <3>3, AppendNews DEF msg
    <3> QED BY <1>1, <3>4 DEF Right
  <2> QED BY <2>1, <2>2
<1> QED BY <1>5, <1>6

\* Nothing is from a connman that has just been started.
LEMMA RestartNone ==
    ASSUME IInv, Restart
    PROVE  /\ NoneFrom(bus', incarnation') /\ NoneFrom(signals, incarnation')
           /\ \A msg \in answer : msg.from # incarnation'
<1>1. incarnation \in Nat /\ incarnation' = incarnation + 1
  BY BusTyped DEF Restart
<1>2. \A i \in DOMAIN bus' : bus'[i].from <= incarnation
  <2>1. CASE UNCHANGED bus
    BY <2>1 DEF IInv, Rest, Past
  <2>2. ASSUME NEW t \in asked,
               bus' = Append(bus, [kind |-> "answer", tech |-> t, ok |-> FALSE,
                                   powered |-> FALSE, from |-> incarnation])
        PROVE  \A i \in DOMAIN bus' : bus'[i].from <= incarnation
    <3> DEFINE msg == [kind |-> "answer", tech |-> t, ok |-> FALSE,
                       powered |-> FALSE, from |-> incarnation]
    <3>1. msg \in Message
      BY DEF IInv, Rest, TypeOK, Message
    <3>2. bus \in Seq(Message) /\ bus' = Append(bus, msg)
      BY <2>2, BusTyped
    <3>3. msg.from = incarnation /\ \A i \in DOMAIN bus : bus[i].from <= incarnation
      BY DEF IInv, Rest, Past
    <3>4. incarnation <= incarnation
      BY <1>1
    <3> HIDE DEF msg
    <3> QED BY <3>1, <3>2, <3>3, <3>4, AppendKeeps
  <2> QED BY <2>1, <2>2 DEF Restart
<1>3. \A m : m <= incarnation /\ m = incarnation' => FALSE
  BY <1>1
<1> QED BY <1>2, <1>3 DEF IInv, Rest, Past, NoneFrom

\* Nobody has heard anything of it.
LEMMA RestartRight ==
    ASSUME IInv, Restart, NEW tech \in Technology
    PROVE  Right(tech)'
<1>1. UNCHANGED <<signals, answer, connectivity>> /\ heard'[tech] = "restarted"
  BY DEF Restart
<1> QED BY <1>1, RestartNone
        DEF NoneFrom, Right, LastIs, AnswersAre, NoNews, IsNews, IsAnswer

\* An answer says what is so.
LEMMA AnswerRight ==
    ASSUME IInv, NEW t \in Technology, NEW ok \in BOOLEAN, Answer(t, ok), NEW tech \in Technology
    PROVE  Right(tech)'
<1> DEFINE msg == [kind |-> "answer", tech |-> t, ok |-> ok, powered |-> powered[t],
                   from |-> incarnation]
           n == incarnation
<1>1. UNCHANGED <<powered, incarnation, signals, answer, connectivity, heard>>
      /\ bus' = Append(bus, msg)
  BY DEF Answer
<1>2. msg \in Message /\ bus \in Seq(Message)
  BY BusTyped DEF IInv, Rest, TypeOK, Message
<1>3. ~ IsNews(msg, tech, n) /\ (IsAnswer(msg, tech, n) => msg.powered = powered[tech])
  BY DEF IsNews, IsAnswer
<1>4. Right(tech)
  BY DEF IInv
<1> HIDE DEF msg
<1>5. LastIs(bus', tech, n, powered[tech]) /\ AnswersAre(bus', tech, n, powered[tech])
      /\ (NoNews(bus', tech, n) => NoNews(bus, tech, n))
  BY <1>1, <1>2, <1>3, <1>4, AppendNews DEF Right
<1> QED BY <1>1, <1>4, <1>5 DEF Right

\* What is taken from the bus goes behind what waits, or to the caller.
LEMMA ReceiveRight ==
    ASSUME IInv, Receive, NEW tech \in Technology
    PROVE  Right(tech)'
<1> DEFINE msg == Head(bus)
           n == incarnation
           v == powered[tech]
<1>1. /\ bus # << >> /\ bus' = Tail(bus)
      /\ UNCHANGED <<powered, incarnation, connectivity, heard>>
  BY DEF Receive
<1>2. bus \in Seq(Message) /\ signals \in Seq(Message)
  BY BusTyped
<1>3. msg \in Message
  BY <1>1, <1>2, TailKeeps
<1>4. Right(tech)
  BY DEF IInv
<1>5. /\ NoNews(bus, tech, n) <=> ~ IsNews(msg, tech, n) /\ NoNews(bus', tech, n)
      /\ LastIs(bus', tech, n, v) /\ AnswersAre(bus', tech, n, v)
      /\ IsNews(msg, tech, n) /\ NoNews(bus', tech, n) => msg.value = v
      /\ IsAnswer(msg, tech, n) /\ NoNews(bus', tech, n) => msg.powered = v
  BY <1>1, <1>2, <1>4, TailNews DEF Right
<1> HIDE DEF msg
<1>6. CASE signals' = Append(signals, msg) /\ UNCHANGED answer
  <2>1. CASE IsNews(msg, tech, n)
    <3>1. ~ NoNews(signals', tech, n)
      BY <1>2, <1>3, <1>6, <2>1, AppendNews
    <3>2. NoNews(bus', tech, n) => LastIs(signals', tech, n, v)
      BY <1>2, <1>3, <1>5, <1>6, <2>1, AppendNews
    <3> QED BY <1>1, <1>5, <3>1, <3>2 DEF Right
  <2>2. CASE ~ IsNews(msg, tech, n)
    <3>1. /\ LastIs(signals, tech, n, v) => LastIs(signals', tech, n, v)
          /\ NoNews(signals', tech, n) => NoNews(signals, tech, n)
      BY <1>2, <1>3, <1>6, <2>2, AppendNews
    <3> QED BY <1>1, <1>4, <1>5, <1>6, <2>2, <3>1 DEF Right
  <2> QED BY <2>1, <2>2
<1>7. CASE msg.kind = "answer" /\ UNCHANGED signals
           /\ answer' = IF msg.tech \in asking THEN {msg} ELSE answer
  <2>1. ~ IsNews(msg, tech, n)
    BY <1>7 DEF IsNews
  <2> QED BY <1>1, <1>4, <1>5, <1>7, <2>1 DEF Right
<1> QED BY <1>6, <1>7 DEF Receive, msg

\* The answer is passed on before the signals that wait.
LEMMA QueryAnsweredRight ==
    ASSUME IInv, QueryAnswered, NEW tech \in Technology
    PROVE  Right(tech)'
<1>1. UNCHANGED <<powered, incarnation, bus, signals>> /\ answer' = {}
  BY DEF QueryAnswered, QueryReturns
<1>2. Right(tech)
  BY DEF IInv
<1>3. PICK msg \in answer : IF msg.ok THEN saveStateForPath(msg, msg.powered) ELSE QueryFails
  BY DEF QueryAnswered
<1>4. CASE QueryFails
  BY <1>1, <1>2, <1>4, FailsHeard DEF Right
<1>5. CASE msg.ok /\ saveStateForPath(msg, msg.powered)
  <2>1. /\ msg \in Message /\ msg.kind = "answer" /\ msg.tech \in Technology
        /\ msg.powered \in BOOLEAN
    <3>1. msg \in Message /\ msg.kind = "answer"
      BY DEF IInv, Rest, TypeOK, Sorted
    <3> QED BY <3>1 DEF Message
  <2>2. Rest
    BY DEF IInv
  <2>3. CASE tech # msg.tech
    BY <1>1, <1>2, <1>5, <2>1, <2>2, <2>3, SaveHeard DEF Right
  <2>4. CASE tech = msg.tech
    <3>1. connectivity'[tech] = msg.powered
      BY <1>5, <2>1, <2>2, <2>4, SaveHeard
    <3>2. heard'[tech] = "told" => msg.from = incarnation
      <4>1. msg.from # incarnation => heard[tech] # "told"
        BY <2>4 DEF IInv, History, Fresh
      <4> QED BY <1>5, <2>1, <2>2, <4>1, SaveHeard
    <3>3. msg.from = incarnation => IsAnswer(msg, tech, incarnation)
      BY <1>5, <2>1, <2>4 DEF IsAnswer
    <3> QED BY <1>1, <1>2, <3>1, <3>2, <3>3 DEF Right
  <2> QED BY <2>3, <2>4
<1> QED BY <1>3, <1>4, <1>5

\* The last signal that waits has the last word.
LEMMA SignalRight ==
    ASSUME IInv, handle_dbus_signal, NEW tech \in Technology
    PROVE  Right(tech)'
<1> DEFINE msg == Head(signals)
           n == incarnation
           v == powered[tech]
<1>1. /\ signals # << >> /\ signals' = Tail(signals)
      /\ UNCHANGED <<powered, incarnation, bus, answer>>
      /\ IF msg.key = "Powered" THEN saveStateForPath(msg, msg.value)
                                ELSE UNCHANGED <<connectivity, heard>>
  BY DEF handle_dbus_signal
<1>2. answer = {}
  BY DEF handle_dbus_signal, IInv, Rest, Construction
<1>3. Right(tech)
  BY DEF IInv
<1>4. signals \in Seq(Message)
  BY BusTyped
<1>5. /\ NoNews(signals, tech, n) <=> ~ IsNews(msg, tech, n) /\ NoNews(signals', tech, n)
      /\ LastIs(signals, tech, n, v) =>
           /\ LastIs(signals', tech, n, v)
           /\ IsNews(msg, tech, n) /\ NoNews(signals', tech, n) => msg.value = v
  BY <1>1, <1>4, TailNews
<1>6. msg.kind = "signal"
  BY <1>1, <1>4, TailKeeps DEF IInv, Rest, Sorted
<1>9. Rest /\ msg \in Message /\ msg.tech \in Technology /\ msg.value \in BOOLEAN
  <2>1. msg \in Message
    BY <1>1, <1>4, TailKeeps
  <2> QED BY <1>6, <2>1 DEF IInv, Message
<1> HIDE DEF msg
<1>7. CASE msg.key # "Powered" \/ msg.tech # tech
  <2>1. connectivity'[tech] = connectivity[tech] /\ heard'[tech] = heard[tech]
    <3>1. CASE msg.key # "Powered"
      BY <1>1, <3>1
    <3>2. CASE msg.key = "Powered" /\ msg.tech # tech
      BY <1>1, <1>9, <3>2, SaveHeard
    <3> QED BY <1>7, <3>1, <3>2
  <2>2. ~ IsNews(msg, tech, n)
    BY <1>7 DEF IsNews
  <2> QED BY <1>1, <1>2, <1>3, <1>5, <2>1, <2>2 DEF Right
<1>8. CASE msg.key = "Powered" /\ msg.tech = tech
  <2>1. connectivity'[tech] = msg.value
    BY <1>1, <1>8, <1>9, SaveHeard
  <2>2. heard'[tech] = "told" => msg.from = n
    <3>1. heard[tech] = "told" => ~ IsOlder(msg, tech, n)
      BY <1>1, <1>4, TailKeeps DEF IInv, History, Fresh, NoOlder, msg
    <3>2. msg.from # n => IsOlder(msg, tech, n)
      BY <1>6, <1>8 DEF IsOlder
    <3> QED BY <1>1, <1>8, <1>9, <3>1, <3>2, SaveHeard
  <2>3. msg.from = n => IsNews(msg, tech, n)
    BY <1>6, <1>8 DEF IsNews
  <2> QED BY <1>1, <1>2, <1>3, <1>5, <2>1, <2>2, <2>3 DEF Right
<1> QED BY <1>7, <1>8

-----------------------------------------------------------------------------
(* Types, construction, and what can be where *)

\* A message that was somewhere else, and is not from a connman to come.
LEMMA BusAppendRest ==
    ASSUME Rest, NEW msg \in Message, msg.tech \in subscribed, msg.from <= incarnation
    PROVE  /\ Append(bus, msg) \in Seq(Message)
           /\ \A i \in DOMAIN Append(bus, msg) : Append(bus, msg)[i].from <= incarnation
           /\ \A tech \in Technology \ subscribed :
                \A i \in DOMAIN Append(bus, msg) : Append(bus, msg)[i].tech # tech
<1>1. bus \in Seq(Message)
  BY DEF Rest, TypeOK
<1>2. \A i \in DOMAIN bus : bus[i].from <= incarnation
  BY DEF Rest, Past
<1>3. \A tech \in Technology \ subscribed : \A i \in DOMAIN bus : bus[i].tech # tech
  BY DEF Rest, Unheard
<1> QED BY <1>1, <1>2, <1>3, AppendKeeps

LEMMA RestTypes ==
    Rest => /\ bus \in Seq(Message) /\ signals \in Seq(Message) /\ answer \subseteq Message
            /\ incarnation \in Nat \ {0} /\ incarnation \in Incarnation
            /\ incarnation <= incarnation
            /\ constructor \in 0 .. 6 /\ changes \in 0 .. MAX_CHANGES
BY ChangesAssumption DEF Rest, TypeOK, Incarnation

LEMMA ChangesRest ==
    ASSUME IInv, NEW changed \in Technology, NEW key \in {"Powered", "Connected"},
           PropertyChanges(changed, key)
    PROVE  Rest'
<1>1. /\ UNCHANGED <<incarnation, subscribed, constructor, asking, asked, answer, signals,
                     connectivity, heard>>
      /\ powered' = IF key = "Powered" THEN [powered EXCEPT ![changed] = ~ @] ELSE powered
      /\ bus' = IF changed \in subscribed THEN Append(bus, Signal(changed, key)) ELSE bus
      /\ changes < MAX_CHANGES /\ changes' = changes + 1
  BY DEF PropertyChanges
<1>2. Rest
  BY DEF IInv
<1>3. powered' \in [Technology -> BOOLEAN]
  BY <1>1, <1>2 DEF Rest, TypeOK
<1>4. Signal(changed, key) \in Message
  BY <1>3, SignalTyped
<1>5. Signal(changed, key).tech = changed /\ Signal(changed, key).from = incarnation
  BY DEF Signal
<1>6. changes' \in 0 .. MAX_CHANGES
  BY <1>1, <1>2, RestTypes, ChangesAssumption
<1>7. /\ bus' \in Seq(Message)
      /\ \A i \in DOMAIN bus' : bus'[i].from <= incarnation
      /\ \A tech \in Technology \ subscribed : \A i \in DOMAIN bus' : bus'[i].tech # tech
  <2>1. CASE changed \in subscribed
    BY <1>1, <1>2, <1>4, <1>5, <2>1, RestTypes, BusAppendRest
  <2>2. CASE changed \notin subscribed
    BY <1>1, <1>2, <2>2, RestTypes DEF Rest, Past, Unheard
  <2> QED BY <2>1, <2>2
<1>8. TypeOK'
  BY <1>1, <1>2, <1>3, <1>6, <1>7 DEF Rest, TypeOK
<1>9. Construction' /\ Sorted' /\ Unheard' /\ Past'
  BY <1>1, <1>2, <1>7 DEF Rest, Construction, Sorted, Unheard, Past
<1> QED BY <1>8, <1>9 DEF Rest

LEMMA RestartRest ==
    ASSUME IInv, Restart
    PROVE  Rest'
<1>1. /\ UNCHANGED <<subscribed, constructor, asking, answer, signals, connectivity>>
      /\ heard' = [tech \in Technology |-> "restarted"]
      /\ incarnation <= MAX_RESTARTS /\ incarnation' = incarnation + 1
      /\ changes < MAX_CHANGES /\ changes' = changes + 1
      /\ powered' \in [Technology -> BOOLEAN] /\ asked' = {}
  BY DEF Restart
<1>2. Rest
  BY DEF IInv
<1>3. changes' \in 0 .. MAX_CHANGES
  BY <1>1, <1>2, RestTypes, ChangesAssumption
<1>4. incarnation' \in Incarnation
  BY <1>1, <1>2, RestTypes, ChangesAssumption DEF Incarnation
<1>5. \A n \in Nat : n <= incarnation => n <= incarnation'
  BY <1>1, <1>2, RestTypes
<1> DEFINE BusFits ==
             /\ bus' \in Seq(Message)
             /\ \A i \in DOMAIN bus' : bus'[i].from <= incarnation
             /\ \A tech \in Technology \ subscribed :
                  \A i \in DOMAIN bus' : bus'[i].tech # tech
<1>6. BusFits
  <2>1. CASE UNCHANGED bus
    BY <1>2, <2>1, RestTypes DEF Rest, Past, Unheard
  <2>2. ASSUME NEW t \in asked,
               bus' = Append(bus, [kind |-> "answer", tech |-> t, ok |-> FALSE,
                                   powered |-> FALSE, from |-> incarnation])
        PROVE  BusFits
    <3> DEFINE msg == [kind |-> "answer", tech |-> t, ok |-> FALSE,
                       powered |-> FALSE, from |-> incarnation]
    <3>1. msg \in Message /\ msg.from = incarnation /\ msg.tech = t
      BY <1>2, RestTypes DEF Rest, TypeOK, Message
    <3>2. t \in subscribed
      BY <1>2 DEF Rest, TypeOK, Unheard
    <3> HIDE DEF msg
    <3>3. bus' = Append(bus, msg)
      BY <2>2 DEF msg
    <3> QED BY <1>2, <3>1, <3>2, <3>3, RestTypes, BusAppendRest
  <2> QED BY <2>1, <2>2 DEF Restart
<1>7. TypeOK'
  BY <1>1, <1>2, <1>3, <1>4, <1>6 DEF Rest, TypeOK, Heard
<1>8. Past'
  <2>1. /\ \A i \in DOMAIN bus' : bus'[i].from \in Nat
        /\ \A i \in DOMAIN signals : signals[i].from \in Nat
        /\ \A msg \in answer : msg.from \in Nat
    <3>1. \A msg \in Message : msg.from \in Nat
      BY ChangesAssumption DEF Message, Incarnation
    <3> HIDE DEF Message
    <3> QED BY <1>2, <1>6, <3>1, RestTypes, LenProperties, ElementOfSeq
  <2> QED BY <1>1, <1>2, <1>5, <1>6, <2>1 DEF Rest, Past
<1>9. Construction' /\ Sorted' /\ Unheard'
  BY <1>1, <1>2, <1>6 DEF Rest, Construction, Sorted, Unheard
<1> QED BY <1>7, <1>8, <1>9 DEF Rest

LEMMA AnswerRest ==
    ASSUME IInv, NEW t \in Technology, NEW ok \in BOOLEAN, Answer(t, ok)
    PROVE  Rest'
<1> DEFINE msg == [kind |-> "answer", tech |-> t, ok |-> ok, powered |-> powered[t],
                   from |-> incarnation]
<1>1. /\ UNCHANGED <<powered, incarnation, subscribed, constructor, asking, answer, signals,
                     connectivity, changes, heard>>
      /\ t \in asked /\ asked' = {} /\ bus' = Append(bus, msg)
  BY DEF Answer
<1>2. Rest
  BY DEF IInv
<1>3. msg \in Message /\ msg.from = incarnation /\ msg.tech = t
  BY <1>2, RestTypes DEF Rest, TypeOK, Message
<1>4. t \in subscribed
  BY <1>1, <1>2 DEF Rest, Unheard
<1> HIDE DEF msg
<1>5. /\ bus' \in Seq(Message)
      /\ \A i \in DOMAIN bus' : bus'[i].from <= incarnation
      /\ \A tech \in Technology \ subscribed : \A i \in DOMAIN bus' : bus'[i].tech # tech
  BY <1>1, <1>2, <1>3, <1>4, RestTypes, BusAppendRest
<1>6. TypeOK'
  BY <1>1, <1>2, <1>5 DEF Rest, TypeOK
<1>7. Construction' /\ Sorted' /\ Unheard' /\ Past'
  BY <1>1, <1>2, <1>5 DEF Rest, Construction, Sorted, Unheard, Past
<1> QED BY <1>6, <1>7 DEF Rest

LEMMA ReceiveRest ==
    ASSUME IInv, Receive
    PROVE  Rest'
<1> DEFINE msg == Head(bus)
<1>1. /\ bus # << >> /\ bus' = Tail(bus)
      /\ UNCHANGED <<powered, incarnation, subscribed, constructor, asking, asked,
                     connectivity, changes, heard>>
  BY DEF Receive
<1>2. Rest
  BY DEF IInv
<1>3. /\ bus' \in Seq(Message) /\ msg \in Message
      /\ \E j \in DOMAIN bus : msg = bus[j]
      /\ \A i \in DOMAIN bus' : \E j \in DOMAIN bus : bus'[i] = bus[j]
  BY <1>1, <1>2, RestTypes, TailKeeps
<1>4. /\ msg.from <= incarnation
      /\ \A i \in DOMAIN bus' : bus'[i].from <= incarnation
      /\ \A tech \in Technology \ subscribed :
            msg.tech # tech /\ \A i \in DOMAIN bus' : bus'[i].tech # tech
  BY <1>2, <1>3 DEF Rest, Past, Unheard
<1> HIDE DEF msg
<1>5. CASE msg.kind = "signal" /\ signals' = Append(signals, msg) /\ UNCHANGED answer
  <2>1. /\ signals' \in Seq(Message)
        /\ \A i \in DOMAIN signals' :
             signals'[i] = msg \/ \E j \in DOMAIN signals : signals'[i] = signals[j]
    BY <1>2, <1>3, <1>5, RestTypes, AppendKeeps
  <2>2. TypeOK'
    BY <1>1, <1>2, <1>3, <1>5, <2>1 DEF Rest, TypeOK
  <2>3. Sorted'
    BY <1>2, <1>5, <2>1 DEF Rest, Sorted
  <2>4. Construction'
    BY <1>1, <1>2, <1>5 DEF Rest, Construction
  <2>5. Unheard' /\ Past'
    BY <1>1, <1>2, <1>4, <1>5, <2>1 DEF Rest, Unheard, Past
  <2> QED BY <2>2, <2>3, <2>4, <2>5 DEF Rest
<1>6. CASE msg.kind = "answer" /\ UNCHANGED signals
           /\ answer' = IF msg.tech \in asking THEN {msg} ELSE answer
  <2>1. TypeOK'
    BY <1>1, <1>2, <1>3, <1>6 DEF Rest, TypeOK
  <2>2. Construction' /\ Sorted'
    BY <1>1, <1>2, <1>6 DEF Rest, Construction, Sorted
  <2>3. Unheard' /\ Past'
    BY <1>1, <1>2, <1>4, <1>6 DEF Rest, Unheard, Past
  <2> QED BY <2>1, <2>2, <2>3 DEF Rest
<1> QED BY <1>5, <1>6 DEF Receive, msg

LEMMA RegistrationRest ==
    ASSUME IInv, getRegistration
    PROVE  Rest'
<1>1. /\ UNCHANGED <<powered, incarnation, bus, asking, asked, answer, signals, connectivity,
                     changes, heard>>
      /\ constructor < 3 /\ constructor' = constructor + 1
      /\ subscribed' = subscribed \cup {Order[constructor + 1]}
  BY DEF getRegistration, register_signal_handler
<1>2. Rest
  BY DEF IInv
<1>3. constructor \in 0 .. 2 /\ constructor + 1 \in 1 .. 3
  BY <1>1, <1>2, RestTypes
<1>4. \A i \in 1 .. 3 : Order[i] \in Technology
  BY DEF Order, Technology
<1>5. asking = {}
  BY <1>2, <1>3 DEF Rest, Construction
<1>6. TypeOK'
  BY <1>1, <1>2, <1>3, <1>4 DEF Rest, TypeOK
<1>7. \A i \in 1 .. 3 : i <= constructor' => i <= constructor \/ i = constructor + 1
  BY <1>1, <1>3
<1>8. Construction'
  BY <1>1, <1>2, <1>5, <1>7 DEF Rest, Construction
<1>9. Sorted' /\ Unheard' /\ Past'
  BY <1>1, <1>2 DEF Rest, Sorted, Unheard, Past
<1> QED BY <1>6, <1>8, <1>9 DEF Rest

LEMMA AllSubscribed == Rest /\ constructor >= 3 => subscribed = Technology
<1> SUFFICES ASSUME Rest, constructor >= 3 PROVE subscribed = Technology
  OBVIOUS
<1>1. 1 <= constructor /\ 2 <= constructor /\ 3 <= constructor
  BY RestTypes
<1>2. Order[1] \in subscribed /\ Order[2] \in subscribed /\ Order[3] \in subscribed
  BY <1>1 DEF Rest, Construction
<1> QED BY <1>2 DEF Order, Technology, Rest, TypeOK

LEMMA QueryRest ==
    ASSUME IInv, dbus_query_connectivity_state
    PROVE  Rest'
<1>1. /\ UNCHANGED <<powered, incarnation, bus, subscribed, constructor, answer, signals,
                     connectivity, changes, heard>>
      /\ constructor \in 3 .. 5 /\ asking = {}
      /\ asking' = {Order[constructor - 2]} /\ asked' = asking'
  BY DEF dbus_query_connectivity_state
<1>2. Rest
  BY DEF IInv
<1>3. constructor - 2 \in 1 .. 3 /\ constructor >= 3
  BY <1>1
<1>4. Order[constructor - 2] \in Technology
  BY <1>3 DEF Order, Technology
<1>5. subscribed = Technology
  BY <1>2, <1>3, AllSubscribed
<1>6. TypeOK'
  BY <1>1, <1>2, <1>4 DEF Rest, TypeOK
<1>7. Construction' /\ Sorted' /\ Unheard' /\ Past'
  BY <1>1, <1>2, <1>5 DEF Rest, Construction, Sorted, Unheard, Past
<1> QED BY <1>6, <1>7 DEF Rest

\* The constructor goes on, whatever the query has brought.
LEMMA QueryReturnsRest ==
    ASSUME IInv, QueryReturns, asking # {}, asked' \subseteq asked,
           connectivity' \in [Technology -> BOOLEAN], heard' \in [Technology -> Heard]
    PROVE  Rest'
<1>1. /\ UNCHANGED <<powered, incarnation, bus, subscribed, signals, changes>>
      /\ asking' = {} /\ answer' = {} /\ constructor' = constructor + 1
  BY DEF QueryReturns
<1>2. Rest
  BY DEF IInv
<1>3. constructor \in 3 .. 5
  BY <1>2 DEF Rest, Construction
<1>4. constructor' \in 0 .. 6 /\ constructor >= 3
  BY <1>1, <1>3
<1>5. subscribed = Technology
  BY <1>2, <1>4, AllSubscribed
<1>6. TypeOK'
  BY <1>1, <1>2, <1>4 DEF Rest, TypeOK
<1>7. \A i \in 1 .. 3 : Order[i] \in Technology
  BY DEF Order, Technology
<1>8. Construction'
  BY <1>1, <1>5, <1>7 DEF Construction
<1>9. Sorted' /\ Unheard' /\ Past'
  BY <1>1, <1>2, <1>5 DEF Rest, Sorted, Unheard, Past
<1> QED BY <1>6, <1>8, <1>9 DEF Rest

\* The answers are answers, and about technologies.
LEMMA AnswerTyped ==
    Rest => \A msg \in answer : /\ msg \in Message /\ msg.tech \in Technology
                               /\ msg.kind = "answer" /\ msg.powered \in BOOLEAN
<1> SUFFICES ASSUME Rest, NEW msg \in answer
             PROVE  /\ msg \in Message /\ msg.tech \in Technology
                    /\ msg.kind = "answer" /\ msg.powered \in BOOLEAN
  OBVIOUS
<1>1. msg \in Message /\ msg.kind = "answer"
  BY DEF Rest, TypeOK, Sorted
<1> QED BY <1>1 DEF Message

LEMMA QueryAnsweredRest ==
    ASSUME IInv, QueryAnswered
    PROVE  Rest'
<1>1. Rest
  BY DEF IInv
<1>2. QueryReturns /\ asked' \subseteq asked
  BY DEF QueryAnswered
<1>3. PICK msg \in answer : IF msg.ok THEN saveStateForPath(msg, msg.powered) ELSE QueryFails
  BY DEF QueryAnswered
<1>4. asking # {}
  BY <1>1, <1>3 DEF Rest, Construction
<1>5. connectivity' \in [Technology -> BOOLEAN] /\ heard' \in [Technology -> Heard]
  <2>1. CASE QueryFails
    BY <1>1, <2>1, FailsHeard DEF Rest, TypeOK
  <2>2. CASE saveStateForPath(msg, msg.powered)
    BY <1>1, <2>2, AnswerTyped, SaveHeard
  <2> QED BY <1>3, <2>1, <2>2
<1> QED BY <1>2, <1>4, <1>5, QueryReturnsRest

LEMMA QueryTimesOutRest ==
    ASSUME IInv, QueryTimesOut
    PROVE  Rest'
<1>1. QueryReturns /\ asking # {} /\ asked' \subseteq asked /\ QueryFails
  BY DEF QueryTimesOut
<1>2. connectivity' \in [Technology -> BOOLEAN] /\ heard' \in [Technology -> Heard]
  BY <1>1, FailsHeard DEF IInv, Rest, TypeOK
<1> QED BY <1>1, <1>2, QueryReturnsRest

LEMMA SignalRest ==
    ASSUME IInv, handle_dbus_signal
    PROVE  Rest'
<1> DEFINE msg == Head(signals)
<1>1. /\ signals # << >> /\ signals' = Tail(signals)
      /\ UNCHANGED <<powered, incarnation, bus, subscribed, constructor, asking, asked,
                     answer, changes>>
      /\ IF msg.key = "Powered" THEN saveStateForPath(msg, msg.value)
                                ELSE UNCHANGED <<connectivity, heard>>
  BY DEF handle_dbus_signal
<1>2. Rest
  BY DEF IInv
<1>3. /\ signals' \in Seq(Message) /\ msg \in Message
      /\ \E j \in DOMAIN signals : msg = signals[j]
      /\ \A i \in DOMAIN signals' : \E j \in DOMAIN signals : signals'[i] = signals[j]
  BY <1>1, <1>2, RestTypes, TailKeeps
<1> HIDE DEF msg
<1>4. msg.kind = "signal" /\ msg.from <= incarnation
  BY <1>2, <1>3 DEF Rest, Sorted, Past
<1>5. msg.value \in BOOLEAN /\ msg.tech \in Technology
  BY <1>3, <1>4 DEF Message
<1>6. msg.tech \in subscribed
  BY <1>2, <1>3, <1>5 DEF Rest, Unheard
<1>7. /\ connectivity' \in [Technology -> BOOLEAN] /\ heard' \in [Technology -> Heard]
      /\ \A tech \in Technology \ subscribed : heard'[tech] = heard[tech]
  <2>1. CASE saveStateForPath(msg, msg.value)
    BY <1>2, <1>3, <1>5, <1>6, <2>1, SaveHeard
  <2>2. CASE UNCHANGED <<connectivity, heard>>
    BY <1>2, <2>2 DEF Rest, TypeOK
  <2> QED BY <1>1, <2>1, <2>2
<1>8. TypeOK'
  BY <1>1, <1>2, <1>3, <1>7 DEF Rest, TypeOK
<1>9. Construction' /\ Sorted'
  BY <1>1, <1>2, <1>3 DEF Rest, Construction, Sorted
<1>10. Unheard' /\ Past'
  BY <1>1, <1>2, <1>3, <1>7 DEF Rest, Unheard, Past
<1> QED BY <1>8, <1>9, <1>10 DEF Rest

-----------------------------------------------------------------------------
(* What is to follow *)

LEMMA AppendOrder ==
    ASSUME NEW seq \in Seq(Message), NEW msg \in Message, NEW tech, NEW n
    PROVE  /\ NoOlder(seq, tech, n) /\ ~ IsOlder(msg, tech, n)
                => NoOlder(Append(seq, msg), tech, n)
           /\ NoOldAnswer(seq, tech, n) /\ ~ IsOldAnswer(msg, tech, n)
                => NoOldAnswer(Append(seq, msg), tech, n)
           /\ AllFrom(seq, n) /\ msg.from = n => AllFrom(Append(seq, msg), n)
           /\ NoneFrom(seq, n) /\ msg.from # n => NoneFrom(Append(seq, msg), n)
           /\ Ordered(seq, n) /\ (msg.from = n \/ NoneFrom(seq, n))
                => Ordered(Append(seq, msg), n)
<1> DEFINE after == Append(seq, msg)
<1>1. \A i \in DOMAIN after : after[i] = msg \/ \E j \in DOMAIN seq : after[i] = seq[j]
  BY AppendKeeps
<1>2. Ordered(seq, n) /\ (msg.from = n \/ NoneFrom(seq, n)) => Ordered(after, n)
  <2> SUFFICES ASSUME Ordered(seq, n), msg.from = n \/ NoneFrom(seq, n),
                      NEW i \in DOMAIN after, NEW j \in DOMAIN after, i < j, after[i].from = n
               PROVE  after[j].from = n
    BY DEF Ordered
  <2>1. PICK len \in Nat : /\ DOMAIN seq = 1 .. len /\ DOMAIN after = 1 .. len + 1
                           /\ \A k \in 1 .. len : after[k] = seq[k]
                           /\ after[len + 1] = msg
    BY AppendProperties, LenProperties
  <2> HIDE DEF after
  <2>2. i \in 1 .. len /\ (j \in 1 .. len \/ j = len + 1)
    BY <2>1
  <2> QED BY <2>1, <2>2 DEF Ordered, NoneFrom
<1> HIDE DEF after
<1> QED BY <1>1, <1>2 DEF NoOlder, NoOldAnswer, AllFrom, NoneFrom, after

LEMMA TailOrder ==
    ASSUME NEW seq \in Seq(Message), seq # << >>, NEW tech, NEW n
    PROVE  /\ NoOlder(seq, tech, n) => NoOlder(Tail(seq), tech, n) /\ ~ IsOlder(Head(seq), tech, n)
           /\ NoOldAnswer(seq, tech, n) =>
                NoOldAnswer(Tail(seq), tech, n) /\ ~ IsOldAnswer(Head(seq), tech, n)
           /\ AllFrom(seq, n) => AllFrom(Tail(seq), n) /\ Head(seq).from = n
           /\ NoneFrom(seq, n) => NoneFrom(Tail(seq), n) /\ Head(seq).from # n
           /\ Ordered(seq, n) =>
                Ordered(Tail(seq), n) /\ (Head(seq).from = n => AllFrom(Tail(seq), n))
<1> DEFINE rest == Tail(seq)
           head == Head(seq)
<1>1. /\ \E j \in DOMAIN seq : head = seq[j]
      /\ \A i \in DOMAIN rest : \E j \in DOMAIN seq : rest[i] = seq[j]
  BY TailKeeps
<1>2. Ordered(seq, n) => Ordered(rest, n) /\ (head.from = n => AllFrom(rest, n))
  <2> SUFFICES ASSUME Ordered(seq, n)
               PROVE  Ordered(rest, n) /\ (head.from = n => AllFrom(rest, n))
    OBVIOUS
  <2>1. PICK k \in Nat : Len(seq) = k + 1
    BY EmptySeq, LenProperties
  <2>2. /\ DOMAIN seq = 1 .. k + 1 /\ DOMAIN rest = 1 .. k
        /\ \A i \in 1 .. k : rest[i] = seq[i + 1]
        /\ head = seq[1]
    BY <2>1, HeadTailProperties, LenProperties
  <2> HIDE DEF rest, head
  <2>3. ASSUME NEW i \in 1 .. k, NEW j \in 1 .. k, i < j, rest[i].from = n
        PROVE  rest[j].from = n
    <3>1. i + 1 \in DOMAIN seq /\ j + 1 \in DOMAIN seq /\ i + 1 < j + 1
      BY <2>2, <2>3
    <3>2. seq[i + 1].from = n
      BY <2>2, <2>3
    <3>3. seq[j + 1].from = n
      BY <3>1, <3>2 DEF Ordered
    <3> QED BY <2>2, <3>3
  <2>4. ASSUME head.from = n, NEW i \in 1 .. k PROVE rest[i].from = n
    <3>1. 1 \in DOMAIN seq /\ i + 1 \in DOMAIN seq /\ 1 < i + 1
      BY <2>2
    <3>2. seq[i + 1].from = n
      BY <2>2, <2>4, <3>1 DEF Ordered
    <3> QED BY <2>2, <3>2
  <2> QED BY <2>2, <2>3, <2>4 DEF Ordered, AllFrom
<1> HIDE DEF rest, head
<1> QED BY <1>1, <1>2 DEF NoOlder, NoOldAnswer, AllFrom, NoneFrom, rest, head

\* What is all from one connman is in order, and has nothing older.
LEMMA AllFromKnown ==
    ASSUME NEW seq, NEW tech, NEW n, AllFrom(seq, n)
    PROVE  Ordered(seq, n) /\ NoOlder(seq, tech, n) /\ NoOldAnswer(seq, tech, n)
BY DEF AllFrom, Ordered, NoOlder, NoOldAnswer, IsOlder, IsOldAnswer

LEMMA NoneFromKnown ==
    ASSUME NEW seq, NEW n, NoneFrom(seq, n)
    PROVE  Ordered(seq, n)
BY DEF NoneFrom, Ordered

\* No technology is asked for twice.
LEMMA OrderOnce ==
    /\ \A i \in 1 .. 3 : Order[i] \in Technology
    /\ \A i \in 1 .. 3 : \A j \in 1 .. 3 : Order[i] = Order[j] => i = j
    /\ \A tech \in Technology : \E i \in 1 .. 3 : Order[i] = tech
<1>1. \A i \in 1 .. 3 : i = 1 \/ i = 2 \/ i = 3
  OBVIOUS
<1>2. Order[1] = "wifi" /\ Order[2] = "bluetooth" /\ Order[3] = "cellular"
  BY DEF Order
<1> QED BY <1>1, <1>2 DEF Technology

\* A message of the connman there is goes to the end of the bus.
LEMMA SentHistory ==
    ASSUME IInv, NEW msg \in Message, bus' = Append(bus, msg), msg.from = incarnation,
           \/ msg.kind = "signal" /\ UNCHANGED asked
           \/ msg.tech \in asked /\ asked' = {},
           UNCHANGED <<incarnation, constructor, asking, answer, signals, heard>>
    PROVE  History'
<1> DEFINE n == incarnation
<1>1. bus \in Seq(Message) /\ History
  BY BusTyped DEF IInv
<1>2. InOrder'
  BY <1>1, AppendOrder DEF History, InOrder
<1>3. \A i \in 1 .. 3 : constructor < 3 + i /\ Order[i] \notin asking =>
         Order[i] \notin asked' /\ NoAnswer(bus', Order[i])
  <2> SUFFICES ASSUME NEW i \in 1 .. 3, constructor < 3 + i, Order[i] \notin asking
               PROVE  Order[i] \notin asked' /\ NoAnswer(bus', Order[i])
    OBVIOUS
  <2>1. Order[i] \notin asked /\ NoAnswer(bus, Order[i])
    BY <1>1 DEF History, Queried
  <2>2. ~ (msg.kind = "answer" /\ msg.tech = Order[i])
    BY <2>1
  <2>3. \A j \in DOMAIN bus' : bus'[j] = msg \/ \E k \in DOMAIN bus : bus'[j] = bus[k]
    BY <1>1, AppendKeeps
  <2> QED BY <2>1, <2>2, <2>3 DEF NoAnswer
<1>4. Queried'
  BY <1>1, <1>3 DEF History, Queried
<1>5. ASSUME NEW tech \in Technology PROVE Fresh(tech)' /\ Unasked(tech)'
  <2>1. ~ IsOlder(msg, tech, n) /\ ~ IsOldAnswer(msg, tech, n)
    BY DEF IsOlder, IsOldAnswer
  <2> QED BY <1>1, <2>1, AppendOrder DEF History, Fresh, Unasked
<1> QED BY <1>2, <1>4, <1>5 DEF History

LEMMA ChangesHistory ==
    ASSUME IInv, NEW changed \in Technology, NEW key \in {"Powered", "Connected"},
           PropertyChanges(changed, key)
    PROVE  History'
<1>1. /\ UNCHANGED <<incarnation, constructor, asking, asked, answer, signals, heard>>
      /\ powered' \in [Technology -> BOOLEAN]
      /\ bus' = IF changed \in subscribed THEN Append(bus, Signal(changed, key)) ELSE bus
  BY DEF PropertyChanges, IInv, Rest, TypeOK
<1>2. CASE changed \in subscribed
  <2>1. Signal(changed, key) \in Message
    BY <1>1, SignalTyped
  <2>2. Signal(changed, key).from = incarnation /\ Signal(changed, key).kind = "signal"
    BY DEF Signal
  <2> QED BY <1>1, <1>2, <2>1, <2>2, SentHistory
<1>3. CASE changed \notin subscribed
  BY <1>1, <1>3 DEF IInv, History, InOrder, Queried, Fresh, Unasked
<1> QED BY <1>2, <1>3

LEMMA AnswerHistory ==
    ASSUME IInv, NEW t \in Technology, NEW ok \in BOOLEAN, Answer(t, ok)
    PROVE  History'
<1> DEFINE msg == [kind |-> "answer", tech |-> t, ok |-> ok, powered |-> powered[t],
                   from |-> incarnation]
<1>1. /\ UNCHANGED <<incarnation, constructor, asking, answer, signals, heard>>
      /\ t \in asked /\ asked' = {} /\ bus' = Append(bus, msg)
  BY DEF Answer
<1>2. msg \in Message /\ msg.from = incarnation /\ msg.tech = t
  BY DEF IInv, Rest, TypeOK, Message
<1> HIDE DEF msg
<1> QED BY <1>1, <1>2, SentHistory

\* Of a connman that has just been started nothing was told.
LEMMA RestartHistory ==
    ASSUME IInv, Restart
    PROVE  History'
<1>1. /\ UNCHANGED <<constructor, asking, answer, signals>> /\ asked' = {}
      /\ heard' = [tech \in Technology |-> "restarted"]
  BY DEF Restart
<1>2. InOrder'
  BY <1>1, RestartNone, NoneFromKnown DEF InOrder
<1>3. ASSUME NEW i \in 1 .. 3, constructor < 3 + i, Order[i] \notin asking
      PROVE  NoAnswer(bus', Order[i])
  <2>1. Order[i] \notin asked /\ NoAnswer(bus, Order[i])
    BY <1>3 DEF IInv, History, Queried
  <2>2. CASE UNCHANGED bus
    BY <2>1, <2>2
  <2>3. ASSUME NEW t \in asked,
               bus' = Append(bus, [kind |-> "answer", tech |-> t, ok |-> FALSE,
                                   powered |-> FALSE, from |-> incarnation])
        PROVE  NoAnswer(bus', Order[i])
    <3> DEFINE msg == [kind |-> "answer", tech |-> t, ok |-> FALSE,
                       powered |-> FALSE, from |-> incarnation]
    <3>1. msg \in Message /\ msg.tech = t
      BY DEF IInv, Rest, TypeOK, Message
    <3>2. bus \in Seq(Message) /\ bus' = Append(bus, msg)
      BY <2>3, BusTyped
    <3> HIDE DEF msg
    <3>3. \A j \in DOMAIN bus' : bus'[j] = msg \/ \E k \in DOMAIN bus : bus'[j] = bus[k]
      BY <3>1, <3>2, AppendKeeps
    <3> QED BY <2>1, <3>1, <3>3 DEF NoAnswer
  <2> QED BY <2>2, <2>3 DEF Restart
<1>4. Queried'
  BY <1>1, <1>3 DEF IInv, History, Queried
<1>5. ASSUME NEW tech \in Technology PROVE Fresh(tech)' /\ Unasked(tech)'
  BY <1>1 DEF Fresh, Unasked
<1> QED BY <1>2, <1>4, <1>5 DEF History

\* What is received was all sent before what stays on the bus.
LEMMA ReceiveHistory ==
    ASSUME IInv, Receive
    PROVE  History'
<1> DEFINE msg == Head(bus)
           n == incarnation
<1>1. /\ bus # << >> /\ bus' = Tail(bus)
      /\ UNCHANGED <<incarnation, constructor, asking, asked, heard>>
  BY DEF Receive
<1>2. bus \in Seq(Message) /\ signals \in Seq(Message) /\ History
  BY BusTyped DEF IInv
<1>3. /\ msg \in Message /\ \E j \in DOMAIN bus : msg = bus[j]
      /\ \A i \in DOMAIN bus' : \E j \in DOMAIN bus : bus'[i] = bus[j]
  BY <1>1, <1>2, TailKeeps
<1>4. /\ Ordered(bus', n) /\ (msg.from = n => AllFrom(bus', n))
      /\ AllFrom(bus, n) => AllFrom(bus', n) /\ msg.from = n
  BY <1>1, <1>2, TailOrder DEF History, InOrder
<1>5. \A tech : /\ NoOlder(bus, tech, n) =>
                     NoOlder(bus', tech, n) /\ ~ IsOlder(msg, tech, n)
                /\ NoOldAnswer(bus, tech, n) =>
                     NoOldAnswer(bus', tech, n) /\ ~ IsOldAnswer(msg, tech, n)
                /\ NoAnswer(bus, tech) => NoAnswer(bus', tech)
  BY <1>1, <1>2, <1>3, TailOrder DEF NoAnswer
<1> HIDE DEF msg
<1>6. /\ \A tech \in asking : tech = Order[constructor - 2]
      /\ \A i \in 1 .. 3 : constructor < 3 + i /\ Order[i] \notin asking =>
            Order[i] \notin asked /\ NoAnswer(bus', Order[i])
  BY <1>2, <1>5 DEF History, Queried
<1>7. \A tech \in Technology : Unasked(tech)'
  BY <1>1, <1>2 DEF History, Unasked
<1>8. CASE signals' = Append(signals, msg) /\ UNCHANGED answer
  <2>1. /\ Ordered(signals, n) /\ (msg.from = n \/ NoneFrom(signals, n)) => Ordered(signals', n)
        /\ NoneFrom(signals, n) /\ msg.from # n => NoneFrom(signals', n)
        /\ \A tech : NoOlder(signals, tech, n) /\ ~ IsOlder(msg, tech, n)
                         => NoOlder(signals', tech, n)
    BY <1>2, <1>3, <1>8, AppendOrder
  <2>2. InOrder'
    BY <1>1, <1>2, <1>4, <1>8, <2>1 DEF History, InOrder
  <2>3. Queried'
    BY <1>1, <1>2, <1>6, <1>8 DEF History, Queried
  <2>4. ASSUME NEW tech \in Technology PROVE Fresh(tech)'
    BY <1>1, <1>2, <1>5, <1>8, <2>1 DEF History, Fresh
  <2> QED BY <1>7, <2>2, <2>3, <2>4 DEF History
<1>9. CASE msg.kind = "answer" /\ UNCHANGED signals
           /\ answer' = IF msg.tech \in asking THEN {msg} ELSE answer
  <2>1. InOrder'
    BY <1>1, <1>2, <1>4, <1>9 DEF History, InOrder
  <2>2. Queried'
    BY <1>1, <1>2, <1>6, <1>9 DEF History, Queried
  <2>3. ASSUME NEW tech \in Technology PROVE Fresh(tech)'
    <3>1. ~ IsOldAnswer(msg, tech, n) /\ msg.tech = tech => msg.from = n
      BY <1>9 DEF IsOldAnswer
    <3> QED BY <1>1, <1>2, <1>5, <1>9, <3>1 DEF History, Fresh
  <2> QED BY <1>7, <2>1, <2>2, <2>3 DEF History
<1> QED BY <1>8, <1>9 DEF Receive, msg

LEMMA RegistrationHistory ==
    ASSUME IInv, getRegistration
    PROVE  History'
<1>1. /\ UNCHANGED <<incarnation, bus, asking, asked, answer, signals, heard>>
      /\ constructor \in 0 .. 2 /\ constructor' = constructor + 1 /\ asking = {} /\ History
  BY DEF getRegistration, IInv, Rest, TypeOK, Construction
<1>2. \A i \in 1 .. 3 : constructor < 3 + i /\ constructor' < 3 + i
  BY <1>1
<1>3. Queried'
  BY <1>1, <1>2 DEF History, Queried
<1>4. ASSUME NEW tech \in Technology PROVE Fresh(tech)' /\ Unasked(tech)'
  BY <1>1, <1>2 DEF History, Fresh, Unasked
<1>5. InOrder'
  BY <1>1 DEF History, InOrder
<1> QED BY <1>3, <1>4, <1>5 DEF History

\* No answer of another connman is about for what is asked only now.
LEMMA QueryHistory ==
    ASSUME IInv, dbus_query_connectivity_state
    PROVE  History'
<1>1. /\ UNCHANGED <<incarnation, bus, constructor, answer, signals, heard>>
      /\ constructor \in 3 .. 5 /\ asking = {}
      /\ asking' = {Order[constructor - 2]} /\ asked' = asking' /\ History
  BY DEF dbus_query_connectivity_state, IInv
<1>2. PICK turn \in 1 .. 3 : turn = constructor - 2
  BY <1>1
<1>3. asking' = {Order[turn]} /\ constructor < 3 + turn
  BY <1>1, <1>2
<1>4. answer = {}
  BY <1>1 DEF IInv, Rest, Construction
<1>5. \A i \in 1 .. 3 : constructor < 3 + i => NoAnswer(bus, Order[i])
  BY <1>1 DEF History, Queried
<1>6. Queried'
  BY <1>1, <1>2, <1>3, <1>4, <1>5 DEF Queried
<1>7. NoAnswer(bus, Order[turn])
  BY <1>3, <1>5
<1>8. ASSUME NEW tech \in Technology PROVE Fresh(tech)'
  <2>1. tech \in asking' => NoOldAnswer(bus, tech, incarnation)
    BY <1>3, <1>7 DEF NoAnswer, NoOldAnswer, IsOldAnswer
  <2> QED BY <1>1, <1>4, <2>1 DEF History, Fresh
<1>9. InOrder' /\ \A tech \in Technology : Unasked(tech)'
  BY <1>1 DEF History, InOrder, Unasked
<1> QED BY <1>6, <1>8, <1>9 DEF History

\* The constructor goes on: what it asked is not asked again.
LEMMA QueryReturnsHistory ==
    ASSUME IInv, QueryReturns, asking # {}, asked' \subseteq asked,
           \A tech \in Technology :
              heard'[tech] = "unasked" => heard[tech] = "unasked" /\ tech \notin asking,
           \A tech \in Technology :
              heard'[tech] = "told" =>
                 NoOlder(bus, tech, incarnation) /\ NoOlder(signals, tech, incarnation)
    PROVE  History'
<1>1. /\ UNCHANGED <<incarnation, bus, signals>>
      /\ asking' = {} /\ answer' = {} /\ constructor' = constructor + 1 /\ History
      /\ constructor \in 3 .. 5
  BY DEF QueryReturns, IInv, Rest, Construction
<1>2. PICK turn \in 1 .. 3 : turn = constructor - 2
  BY <1>1
<1>3. asking = {Order[turn]}
  BY <1>1, <1>2 DEF History, Queried
<1>4. \A i \in 1 .. 3 : constructor < 3 + i /\ i # turn => constructor' < 3 + i
  BY <1>1, <1>2
<1>5. \A i \in 1 .. 3 : constructor' < 3 + i => constructor < 3 + i /\ i # turn
  BY <1>1, <1>2
<1>6. Queried'
  BY <1>1, <1>3, <1>5, OrderOnce DEF History, Queried
<1>7. ASSUME NEW tech \in Technology PROVE Fresh(tech)' /\ Unasked(tech)'
  <2>1. Fresh(tech)'
    BY <1>1 DEF Fresh
  <2>2. ASSUME heard'[tech] = "unasked"
        PROVE  incarnation = 1 /\ \A i \in 1 .. 3 : Order[i] = tech => constructor' < 3 + i
    <3>1. heard[tech] = "unasked" /\ tech # Order[turn]
      BY <1>3, <2>2
    <3> QED BY <1>1, <1>4, <3>1 DEF History, Unasked
  <2> QED BY <1>1, <2>1, <2>2 DEF Unasked
<1>8. InOrder'
  BY <1>1 DEF History, InOrder
<1> QED BY <1>6, <1>7, <1>8 DEF History

\* An answer behind which nothing older waits is the last of the old.
LEMMA QueryAnsweredHistory ==
    ASSUME IInv, QueryAnswered
    PROVE  History'
<1> DEFINE n == incarnation
<1>1. Rest /\ History
  BY DEF IInv
<1>2. QueryReturns /\ asked' \subseteq asked
  BY DEF QueryAnswered
<1>3. PICK msg \in answer : IF msg.ok THEN saveStateForPath(msg, msg.powered) ELSE QueryFails
  BY DEF QueryAnswered
<1>4. msg.tech \in asking /\ asking # {} /\ \A tech \in asking : tech = msg.tech
  BY <1>1, <1>3 DEF History, Queried
<1>5. CASE QueryFails
  BY <1>1, <1>2, <1>4, <1>5, FailsHeard, QueryReturnsHistory DEF History, Fresh
<1>6. CASE saveStateForPath(msg, msg.powered)
  <2>1. /\ msg \in Message /\ msg.tech \in Technology /\ msg.kind = "answer"
        /\ msg.powered \in BOOLEAN /\ msg.from \in Incarnation /\ msg.from <= n
    BY <1>1, AnswerTyped DEF Message, Rest, Past
  <2>2. ASSUME NEW tech \in Technology, heard'[tech] = "unasked"
        PROVE  heard[tech] = "unasked" /\ tech \notin asking
    <3>1. CASE msg.from = n
      <4>1. tech # msg.tech
        BY <1>1, <1>6, <2>1, <2>2, <3>1, SaveHeard
      <4> QED BY <1>1, <1>4, <1>6, <2>1, <2>2, <4>1, SaveHeard
    <3>2. CASE msg.from # n
      <4>1. heard[tech] = "unasked"
        BY <1>1, <1>6, <2>1, <2>2, <3>2, SaveHeard
      <4>2. n = 1
        BY <1>1, <4>1 DEF History, Unasked
      <4>3. msg.from = 1
        BY <2>1, <4>2, ChangesAssumption DEF Incarnation
      <4> QED BY <3>2, <4>2, <4>3
    <3> QED BY <3>1, <3>2
  <2>3. ASSUME NEW tech \in Technology, heard'[tech] = "told"
        PROVE  NoOlder(bus, tech, n) /\ NoOlder(signals, tech, n)
    <3>1. CASE heard[tech] = "told"
      BY <1>1, <3>1 DEF History, Fresh
    <3>2. CASE heard[tech] # "told"
      <4>1. tech = msg.tech /\ msg.from = n
        BY <1>1, <1>6, <2>1, <2>3, <3>2, SaveHeard
      <4>2. ~ Overtaking(msg)
        BY <1>1, <1>6, <2>1, <2>3, <4>1, SaveHeard
      <4>3. NoOlder(signals, tech, n)
        BY <2>1, <4>1, <4>2 DEF Overtaking, NoOlder, IsOlder
      <4>4. AllFrom(bus, n)
        BY <1>1, <4>1 DEF History, InOrder
      <4> QED BY <4>3, <4>4, AllFromKnown
    <3> QED BY <3>1, <3>2
  <2> QED BY <1>2, <1>4, <2>2, <2>3, QueryReturnsHistory
<1> QED BY <1>3, <1>5, <1>6

LEMMA QueryTimesOutHistory ==
    ASSUME IInv, QueryTimesOut
    PROVE  History'
<1>1. QueryReturns /\ asking # {} /\ asked' \subseteq asked /\ QueryFails
  BY DEF QueryTimesOut
<1>2. \A tech \in Technology :
        heard[tech] = "told" =>
          NoOlder(bus, tech, incarnation) /\ NoOlder(signals, tech, incarnation)
  BY DEF IInv, History, Fresh
<1> QED BY <1>1, <1>2, FailsHeard, QueryReturnsHistory

\* Behind a signal of the connman there is nothing older waits.
LEMMA SignalHistory ==
    ASSUME IInv, handle_dbus_signal
    PROVE  History'
<1> DEFINE msg == Head(signals)
           n == incarnation
<1>1. /\ signals # << >> /\ signals' = Tail(signals) /\ asking = {}
      /\ UNCHANGED <<incarnation, bus, constructor, asking, asked, answer>>
      /\ saveStateForPath(msg, msg.value) \/ UNCHANGED heard
  BY DEF handle_dbus_signal
<1>2. Rest /\ History /\ signals \in Seq(Message) /\ answer = {}
  BY <1>1, BusTyped DEF IInv, Rest, Construction
<1>3. msg \in Message /\ \E j \in DOMAIN signals : msg = signals[j]
  BY <1>1, <1>2, TailKeeps
<1>4. msg.kind = "signal"
  BY <1>2, <1>3 DEF Rest, Sorted
<1>5. msg.value \in BOOLEAN /\ msg.tech \in Technology
  BY <1>3, <1>4 DEF Message
<1>6. /\ Ordered(signals', n) /\ (msg.from = n => AllFrom(signals', n))
      /\ NoneFrom(signals, n) => NoneFrom(signals', n) /\ msg.from # n
      /\ \A tech : NoOlder(signals, tech, n) => NoOlder(signals', tech, n)
  BY <1>1, <1>2, TailOrder DEF History, InOrder
<1> HIDE DEF msg
<1>7. InOrder'
  BY <1>1, <1>2, <1>6 DEF History, InOrder
<1>8. Queried'
  BY <1>1, <1>2 DEF History, Queried
<1>9. \A tech \in Technology :
        \/ heard'[tech] = heard[tech]
        \/ msg.from = n /\ heard'[tech] # "unasked"
  <2>1. CASE UNCHANGED heard
    BY <2>1
  <2>2. CASE saveStateForPath(msg, msg.value)
    <3>1. msg.from = n => heard'[msg.tech] # "unasked"
      BY <1>2, <1>3, <1>5, <2>2, SaveHeard
    <3> QED BY <1>2, <1>3, <1>5, <2>2, <3>1, SaveHeard
  <2> QED BY <1>1, <2>1, <2>2
<1>10. ASSUME NEW tech \in Technology PROVE Unasked(tech)'
  BY <1>1, <1>2, <1>9 DEF History, Unasked
<1>11. ASSUME NEW tech \in Technology PROVE Fresh(tech)'
  <2>1. CASE heard'[tech] = heard[tech]
    BY <1>1, <1>2, <1>6, <2>1 DEF History, Fresh
  <2>2. CASE msg.from = n
    <3>1. AllFrom(bus, n) /\ AllFrom(signals', n)
      BY <1>2, <1>6, <2>2 DEF History, InOrder
    <3> QED BY <1>1, <1>2, <3>1, AllFromKnown DEF Fresh
  <2> QED BY <1>9, <2>1, <2>2
<1> QED BY <1>7, <1>8, <1>10, <1>11 DEF History

-----------------------------------------------------------------------------
(* The theorems *)

LEMMA NextIInv == IInv /\ [Next]_vars => IInv'
<1> SUFFICES ASSUME IInv, [Next]_vars PROVE IInv'
  OBVIOUS
<1>1. CASE UNCHANGED vars
  BY <1>1 DEF vars, IInv, Rest, TypeOK, Construction, Sorted, Unheard, Past, Right,
                History, InOrder, Queried, Fresh, Unasked
<1>2. ASSUME NEW tech \in Technology, NEW key \in {"Powered", "Connected"},
             PropertyChanges(tech, key)
      PROVE  IInv'
  BY <1>2, ChangesRest, ChangesHistory, ChangesRight DEF IInv
<1>3. CASE Restart
  BY <1>3, RestartRest, RestartHistory, RestartRight DEF IInv
<1>4. ASSUME NEW tech \in Technology, NEW ok \in BOOLEAN, Answer(tech, ok)
      PROVE  IInv'
  BY <1>4, AnswerRest, AnswerHistory, AnswerRight DEF IInv
<1>5. CASE Receive
  BY <1>5, ReceiveRest, ReceiveHistory, ReceiveRight DEF IInv
<1>6. CASE getRegistration
  <2>1. ASSUME NEW tech \in Technology PROVE Right(tech)'
    BY <1>6 DEF IInv, getRegistration, Right
  <2> QED BY <1>6, <2>1, RegistrationRest, RegistrationHistory DEF IInv
<1>7. CASE dbus_query_connectivity_state
  <2>1. ASSUME NEW tech \in Technology PROVE Right(tech)'
    BY <1>7 DEF IInv, dbus_query_connectivity_state, Right
  <2> QED BY <1>7, <2>1, QueryRest, QueryHistory DEF IInv
<1>8. CASE QueryAnswered
  BY <1>8, QueryAnsweredRest, QueryAnsweredHistory, QueryAnsweredRight DEF IInv
<1>9. CASE QueryTimesOut
  <2>1. ASSUME NEW tech \in Technology PROVE Right(tech)'
    BY <1>9, FailsHeard DEF IInv, QueryTimesOut, QueryReturns, Right
  <2> QED BY <1>9, <2>1, QueryTimesOutRest, QueryTimesOutHistory DEF IInv
<1>10. CASE handle_dbus_signal
  BY <1>10, SignalRest, SignalHistory, SignalRight DEF IInv
<1> QED BY <1>1, <1>2, <1>3, <1>4, <1>5, <1>6, <1>7, <1>8, <1>9, <1>10 DEF Next

\* The last of what connman has to say of a technology is always on its way, or has
\* been passed on (ConnectionWatcher.cpp:17-29, 57-90).
THEOREM WatcherInvariance == Spec => []IInv
BY InitIInv, NextIInv, PTL DEF Spec

\* The messages, the constructor's steps and what is blocked are what they can be,
\* for any number of changes and restarts (ConnectionWatcher.cpp:17-29).
THEOREM WatcherTypeCorrect == Spec => []TypeOK
<1>1. IInv => TypeOK
  BY DEF IInv, Rest
<1> QED BY <1>1, WatcherInvariance, PTL

\* Where LightState has a technology wrong, the signal that puts it right is on its
\* way or the constructor has yet to ask, but for the three ways of LeftWrong: what
\* ends in ShownInTheEnd once messages arrive (ConnectionWatcher.cpp:17-29, 57-90).
THEOREM WhatIsWrongIsCorrected == Spec => []WrongIsCorrected
<1>1. IInv => WrongIsCorrected
  <2> SUFFICES ASSUME IInv, NEW tech \in Technology, connectivity[tech] # powered[tech],
                      heard[tech] \notin LeftWrong
               PROVE  \/ Corrected(bus, tech) \/ Corrected(signals, tech)
                      \/ heard[tech] = "unasked" /\ ToBeAsked(tech)
    BY DEF WrongIsCorrected
  <2>1. bus \in Seq(Message) /\ signals \in Seq(Message) /\ Right(tech)
    BY BusTyped DEF IInv
  <2>2. ASSUME NEW seq \in Seq(Message), ~ NoNews(seq, tech, incarnation),
               LastIs(seq, tech, incarnation, powered[tech])
        PROVE  Corrected(seq, tech)
    <3>1. PICK i \in DOMAIN seq : /\ IsNews(seq[i], tech, incarnation)
                                  /\ NoNewsAfter(seq, i, tech, incarnation)
      BY <2>2, LastNews
    <3>2. seq[i].value = powered[tech]
      BY <2>2, <3>1 DEF LastIs
    <3> QED BY <3>1, <3>2 DEF IsNews, Corrected
  <2>3. heard[tech] = "unasked" \/ heard[tech] = "told"
    <3>1. heard[tech] \in Heard
      BY DEF IInv, Rest, TypeOK
    <3> QED BY <3>1 DEF Heard, LeftWrong
  <2>4. CASE heard[tech] = "unasked"
    BY <2>4, OrderOnce DEF IInv, History, Unasked, ToBeAsked
  <2>5. CASE heard[tech] = "told" /\ ~ NoNews(bus, tech, incarnation)
    BY <2>1, <2>2, <2>5 DEF Right
  <2>6. CASE heard[tech] = "told" /\ NoNews(bus, tech, incarnation)
    <3>1. /\ LastIs(signals, tech, incarnation, powered[tech])
          /\ ~ NoNews(signals, tech, incarnation)
      BY <2>1, <2>6 DEF Right
    <3> QED BY <2>1, <2>2, <3>1
  <2> QED BY <2>3, <2>4, <2>5, <2>6
<1> QED BY <1>1, WatcherInvariance, PTL

\* So when nothing is on its way and the constructor is done, LightState has of each
\* technology what connman has, but for the three ways (ConnectionWatcher.cpp:23-29).
THEOREM WhatIsSettledIsTrue == Spec => []SettledIsTrue
<1>1. TypeOK /\ WrongIsCorrected => SettledIsTrue
  <2> SUFFICES ASSUME WrongIsCorrected, constructor = 6, bus = << >>, signals = << >>,
                      NEW tech \in Technology, heard[tech] \notin LeftWrong
               PROVE  connectivity[tech] = powered[tech]
    BY DEF SettledIsTrue, Settled
  <2>1. DOMAIN bus = {} /\ DOMAIN signals = {}
    OBVIOUS
  <2>2. ~ Corrected(bus, tech) /\ ~ Corrected(signals, tech)
    BY <2>1 DEF Corrected
  <2>3. ~ ToBeAsked(tech)
    BY DEF ToBeAsked
  <2> QED BY <2>2, <2>3 DEF WrongIsCorrected
<1> QED BY <1>1, WatcherTypeCorrect, WhatIsWrongIsCorrected, PTL

=============================================================================
