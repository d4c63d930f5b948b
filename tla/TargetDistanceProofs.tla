----------------------- MODULE TargetDistanceProofs -----------------------
(***************************************************************************)
(* Proofs about TargetDistance, for every setting of the limits, periods   *)
(* and delays, and any set of distances.                                   *)
(***************************************************************************)
EXTENDS TargetDistance, TLAPS

(* What is known of the real age of a detection on its way: in the answer,  *)
(* in the packet, and in the reader's last packet.                          *)
AnswerAge ==
  reply # None =>
    /\ pc = "request"
    /\ reply.age_ms \in Nat /\ reply.seen \in Nat
    /\ reply.seen <= reply.age_ms + spent

PacketAge ==
  inbox # None =>
    /\ inbox.found \in BOOLEAN /\ inbox.seen \in Nat
    /\ inbox.seen <= TargetStale + MaxHttp + waited

LastAge ==
  last # None =>
    /\ last.found \in BOOLEAN /\ last.seen \in Nat
    /\ link_age <= LinkStale =>
         last.seen <= TargetStale + MaxHttp + MaxPass + link_age

Clocks ==
  /\ spent \in Nat /\ (pc = "request" => spent <= MaxHttp)
  /\ waited \in 0..MaxPass /\ link_age \in Nat
  /\ detection.age \in Nat

AgeInv == Clocks /\ AnswerAge /\ PacketAge /\ LastAge

-----------------------------------------------------------------------------
(* The limits are natural numbers, and so is the bound on ages.             *)
LEMMA Limits ==
  /\ AltitudeStale \in Nat /\ TargetStale \in Nat /\ LinkStale \in Nat
  /\ MaxHttp \in Nat \ {0} /\ MaxPass \in Nat \ {0} /\ Cycle \in Nat \ {0}
  /\ MaxJump \in Nat /\ Oldest \in Nat
  /\ Oldest > AltitudeStale + TargetStale + MaxHttp + MaxPass + LinkStale
<1>1. /\ AltitudeStale \in Nat /\ TargetStale \in Nat /\ LinkStale \in Nat
      /\ MaxHttp \in Nat \ {0} /\ MaxPass \in Nat \ {0} /\ Cycle \in Nat \ {0}
      /\ MaxJump \in Nat /\ MaxUnread \in Nat
  BY SensingAssumption
<1>2. MaxUnread * MaxHttp \in Nat
  BY <1>1
<1> QED
  BY <1>1, <1>2 DEF Oldest

(* Ages grow by one at most.                                                *)
LEMMA OlderByOne ==
  ASSUME NEW age \in Nat PROVE Older(age) \in Nat /\ Older(age) <= age + 1
  BY Limits DEF Older

(* So do those of a packet, which says the same.                            *)
LEMMA LaterByOne ==
  ASSUME NEW p, p # None, p.found \in BOOLEAN, p.seen \in Nat
  PROVE  /\ PacketLater(p).found \in BOOLEAN
         /\ PacketLater(p).seen \in Nat
         /\ PacketLater(p).seen <= p.seen + 1
<1> DEFINE older == [p EXCEPT !.measured = Older(@),
                              !.seen = IF p.found THEN Older(@) ELSE 0]
<1>1. PacketLater(p) = older
  BY DEF PacketLater
<1>2. older.found = p.found
  OBVIOUS
<1>3. older.seen \in {p.seen, 0, Older(p.seen)}
  OBVIOUS
<1> QED
  BY <1>1, <1>2, <1>3, OlderByOne

-----------------------------------------------------------------------------
(* The packet takes the age of the answer, which is usable, with it.        *)
LEMMA SendStep == ASSUME AgeInv, SendPacket PROVE AgeInv'
<1>1. PICK d : inbox' = [altitude_valid |-> altitude.fresh,
                 found |-> Usable /\ Plausible(d) /\ JumpOk(d),
                 valid |-> altitude.fresh /\ Usable /\ Plausible(d) /\ JumpOk(d),
                 measured |-> altitude.measured,
                 seen |-> IF Usable /\ Plausible(d) /\ JumpOk(d)
                          THEN reply.seen ELSE 0]
  BY DEF SendPacket
<1>2. /\ pc' = "receive" /\ spent' = 0 /\ reply' = None
      /\ UNCHANGED <<detection, last, link_age, waited>>
  BY DEF SendPacket, NextRound, reader
<1>3. Usable => /\ reply # None /\ reply.seen \in Nat
                /\ reply.seen <= TargetStale + MaxHttp
  BY Limits DEF Usable, AgeInv, AnswerAge, Clocks
<1>4. PacketAge'
  <2>1. inbox'.seen = IF Usable /\ Plausible(d) /\ JumpOk(d) THEN reply.seen ELSE 0
    BY <1>1
  <2>2. inbox'.found = (Usable /\ Plausible(d) /\ JumpOk(d))
    BY <1>1
  <2>3. inbox'.found \in BOOLEAN
    BY <2>2
  <2>4. inbox'.seen \in Nat /\ inbox'.seen <= TargetStale + MaxHttp
    BY <2>1, <1>3, Limits
  <2> QED
    BY <1>2, <2>3, <2>4, Limits DEF PacketAge, AgeInv, Clocks
<1> QED
  BY <1>2, <1>4 DEF AgeInv, Clocks, AnswerAge, LastAge

(* A tick makes the clocks and what they time older together.               *)
LEMMA TickStep == ASSUME AgeInv, Tick PROVE AgeInv'
<1> USE Limits DEF AgeInv
<1>1. /\ pc' = pc /\ waited' = waited + 1 /\ waited < MaxPass
      /\ pc = "request" => spent' = spent + 1 /\ spent < MaxHttp
      /\ spent' \in {spent, spent + 1}
  BY DEF Tick
<1>2. Clocks'
  <2>1. detection'.age \in Nat
    <3>1. detection' = [detection EXCEPT !.age = Older(@)]
      BY DEF Tick
    <3>2. detection'.age \in {detection.age, Older(detection.age)}
                 \/ detection' = detection
      BY <3>1
    <3> QED
      BY <3>1, <3>2, OlderByOne DEF Clocks
  <2>2. link_age' \in Nat
    <3>1. link_age' = IF link_age > LinkStale THEN link_age ELSE link_age + 1
      BY DEF Tick
    <3>2. link_age \in Nat
      BY DEF Clocks
    <3> QED
      BY <3>1, <3>2
  <2> QED
    BY <1>1, <2>1, <2>2 DEF Clocks
<1>3. AnswerAge'
  <2>1. CASE reply = None
    BY <2>1 DEF Tick, AnswerAge
  <2>2. CASE reply # None
    <3>1. reply' = [reply EXCEPT !.seen = Older(@)]
      BY <2>2 DEF Tick
    <3> QED
      BY <1>1, <2>2, <3>1, OlderByOne DEF AnswerAge, Clocks
  <2> QED
    BY <2>1, <2>2
<1>4. PacketAge'
  <2>1. inbox' = PacketLater(inbox)
    BY DEF Tick
  <2>2. CASE inbox = None
    BY <2>1, <2>2 DEF PacketAge, PacketLater
  <2>3. CASE inbox # None
    BY <1>1, <2>1, <2>3, LaterByOne DEF PacketAge, Clocks
  <2> QED
    BY <2>2, <2>3
<1>5. LastAge'
  <2>1. /\ last' = PacketLater(last)
        /\ link_age' = IF link_age > LinkStale THEN link_age ELSE link_age + 1
    BY DEF Tick
  <2>2. CASE last = None
    BY <2>1, <2>2 DEF LastAge, PacketLater
  <2>3. CASE last # None
    BY <2>1, <2>3, LaterByOne DEF LastAge, Clocks
  <2> QED
    BY <2>2, <2>3
<1> QED
  BY <1>2, <1>3, <1>4, <1>5

(* Whatever is late on the way from an inference to the approach loop, what *)
(* that calls a tracked target is no older than the settings add up to.     *)
THEOREM DetectionRecent == Spec => []DetectionIsRecent
<1>1. Init => AgeInv
  BY Limits DEF Init, AgeInv, Clocks, AnswerAge, PacketAge, LastAge
<1>2. ASSUME AgeInv, [Next]_vars PROVE AgeInv'
  <2> USE <1>2, Limits DEF AgeInv, loop, reader
  <2>1. CASE Inference
    BY <2>1 DEF Inference, Clocks, AnswerAge, PacketAge, LastAge
  <2>2. CASE Answer
    BY <2>2 DEF Answer, Clocks, AnswerAge, PacketAge, LastAge
  <2>3. CASE ReceiveAltitude \/ ReceiveNothing
    <3>1. /\ pc' = "request" /\ spent' = 0 /\ reply' = None
          /\ UNCHANGED <<detection, inbox, reader>>
      BY <2>3 DEF ReceiveAltitude, ReceiveNothing, StartRequest
    <3> QED
      BY <3>1 DEF Clocks, AnswerAge, PacketAge, LastAge
  <2>4. CASE ReceiveThrows
    BY <2>4 DEF ReceiveThrows, Clocks, AnswerAge, PacketAge, LastAge
  <2>5. CASE Poll
    BY <2>5 DEF Poll, Clocks, AnswerAge, PacketAge, LastAge
  <2>6. CASE AltitudeArrives \/ UNCHANGED vars
    BY <2>6 DEF AltitudeArrives, vars, Clocks, AnswerAge, PacketAge, LastAge
  <2> QED
    BY <2>1, <2>2, <2>3, <2>4, <2>5, <2>6, SendStep, TickStep
    DEF Next, Answered, RequestFails
<1>3. AgeInv => DetectionIsRecent
  BY Limits DEF AgeInv, Clocks, LastAge, DetectionIsRecent, Tracked
<1> QED
  BY <1>1, <1>2, <1>3, PTL DEF Spec

-----------------------------------------------------------------------------
(* The reference for the next reading is the last distance that was shown.  *)
JumpInv ==
  /\ shown = accepted
  /\ shown.distance \in Nat

(* However many readings are rejected, and whichever packets say nothing,   *)
(* two distances in a row differ by max_distance_jump_m at most.            *)
THEOREM NoJump == Spec => NoJumpGetsThrough
<1>1. Init => JumpInv
  BY DEF Init, JumpInv
<1>2. ASSUME JumpInv, [Next]_vars
      PROVE  /\ JumpInv'
             /\ shown.have => Gap(shown'.distance, shown.distance) <= MaxJump
  <2> USE <1>2, Limits DEF JumpInv
  <2>1. CASE SendPacket
    <3>1. PICK d \in IF Usable THEN Distances ELSE {0} :
            IF Usable /\ Plausible(d) /\ JumpOk(d)
            THEN /\ shown' = [have |-> TRUE, distance |-> d] /\ accepted' = shown'
            ELSE /\ shown' = shown /\ accepted' = accepted
      BY <2>1 DEF SendPacket, Accepted
    <3>2. d \in Nat
      BY <3>1, SensingAssumption
    <3>3. CASE Usable /\ Plausible(d) /\ JumpOk(d)
      BY <3>1, <3>2, <3>3 DEF JumpOk
    <3>4. CASE ~(Usable /\ Plausible(d) /\ JumpOk(d))
      BY <3>1, <3>4 DEF Gap
    <3> QED
      BY <3>3, <3>4
  <2>2. CASE UNCHANGED <<shown, accepted>>
    BY <2>2 DEF Gap
  <2> QED
    BY <2>1, <2>2 DEF Next, Answered, RequestFails, AltitudeArrives, Inference,
       Answer, ReceiveAltitude, ReceiveNothing, StartRequest, ReceiveThrows,
       Poll, Tick, loop, vars
<1>3. JumpInv /\ [Next]_vars =>
        [shown.have => Gap(shown'.distance, shown.distance) <= MaxJump]_vars
  BY <1>2
<1> QED
  BY <1>1, <1>2, <1>3, PTL DEF Spec, NoJumpGetsThrough
-----------------------------------------------------------------------------
(* An age is an age however long it is counted, and keeps the order.        *)
LEMMA OlderAge ==
  ASSUME NEW a \in Age PROVE Older(a) \in Age
  BY Limits DEF Age, Older

LEMMA OlderKeepsOrder ==
  ASSUME NEW a \in Age, NEW b \in Age, a >= b PROVE Older(a) >= Older(b)
  BY Limits DEF Age, Older

(* A packet on its way stays one.                                           *)
LEMMA PacketStays ==
  ASSUME NEW p, p = None \/ p \in RangePacket
  PROVE  PacketLater(p) = None \/ PacketLater(p) \in RangePacket
<1>1. CASE p = None
  BY <1>1 DEF PacketLater
<1>2. CASE p # None
  <2> DEFINE seen == IF p.found THEN Older(p.seen) ELSE 0
  <2>1. p \in RangePacket
    BY <1>2
  <2>2. Older(p.measured) \in Age /\ seen \in Age
    BY <2>1, OlderAge, Limits DEF RangePacket, Age
  <2>3. PacketLater(p) = [p EXCEPT !.measured = Older(p.measured), !.seen = seen]
    BY <1>2 DEF PacketLater
  <2> QED
    BY <2>1, <2>2, <2>3 DEF RangePacket
<1> QED
  BY <1>1, <1>2

(* The ALTITUDE messages in the socket, oldest first.                       *)
Unread(queue) ==
  /\ queue \in Seq(Age) /\ Len(queue) <= MaxUnread
  /\ \A i, j \in DOMAIN queue : i < j => queue[i] >= queue[j]

LEMMA ArrivalQueues ==
  ASSUME NEW queue, Unread(queue), Len(queue) < MaxUnread
  PROVE  Unread(Append(queue, 0))
<1>1. 0 \in Age /\ \A a \in Age : a >= 0
  BY Limits DEF Age
<1>2. Append(queue, 0) \in Seq(Age) /\ Len(Append(queue, 0)) = Len(queue) + 1
  BY <1>1 DEF Unread
<1>3. ASSUME NEW i \in DOMAIN Append(queue, 0), NEW j \in DOMAIN Append(queue, 0),
             i < j
      PROVE  Append(queue, 0)[i] >= Append(queue, 0)[j]
  <2>1. i \in 1..Len(queue) /\ Append(queue, 0)[i] = queue[i] /\ queue[i] \in Age
    BY <1>2, <1>3 DEF Unread
  <2>2. \/ j = Len(queue) + 1 /\ Append(queue, 0)[j] = 0
        \/ j \in 1..Len(queue) /\ Append(queue, 0)[j] = queue[j]
    BY <1>2, <1>3 DEF Unread
  <2>3. DOMAIN queue = 1..Len(queue)
    BY DEF Unread
  <2> QED
    BY <1>1, <1>3, <2>1, <2>2, <2>3 DEF Unread
<1> QED
  BY <1>2, <1>3, SensingAssumption DEF Unread

LEMMA ReadingDequeues ==
  ASSUME NEW queue, Unread(queue), queue # <<>>
  PROVE  Head(queue) \in Age /\ Unread(Tail(queue))
<1>1. /\ Len(queue) \in Nat /\ Len(queue) # 0 /\ DOMAIN queue = 1..Len(queue)
      /\ Head(queue) = queue[1]
  BY DEF Unread
<1>2. /\ Tail(queue) \in Seq(Age) /\ Len(Tail(queue)) = Len(queue) - 1
      /\ \A i \in 1..Len(queue) - 1 : Tail(queue)[i] = queue[i + 1]
  BY DEF Unread
<1>3. DOMAIN Tail(queue) = 1..Len(queue) - 1
  BY <1>1, <1>2
<1>4. \A i, j \in DOMAIN Tail(queue) : i < j => Tail(queue)[i] >= Tail(queue)[j]
  BY <1>1, <1>2, <1>3 DEF Unread
<1> QED
  BY <1>1, <1>2, <1>4, SensingAssumption DEF Unread

LEMMA WaitingAges ==
  ASSUME NEW queue, Unread(queue)
  PROVE  Unread([i \in DOMAIN queue |-> Older(queue[i])])
<1> DEFINE older == [i \in DOMAIN queue |-> Older(queue[i])]
<1>1. Len(queue) \in Nat /\ DOMAIN queue = 1..Len(queue)
  BY DEF Unread
<1>2. \A i \in DOMAIN queue : queue[i] \in Age /\ Older(queue[i]) \in Age
  BY OlderAge DEF Unread
<1>3. older \in Seq(Age) /\ Len(older) = Len(queue)
  BY <1>1, <1>2
<1>4. ASSUME NEW i \in DOMAIN older, NEW j \in DOMAIN older, i < j
      PROVE  older[i] >= older[j]
  <2>1. queue[i] >= queue[j]
    BY <1>4 DEF Unread
  <2> QED
    BY <1>2, <2>1, OlderKeepsOrder
<1> QED
  BY <1>3, <1>4 DEF Unread
-----------------------------------------------------------------------------
(* A value of no other kind is None, so what is not None is an answer.      *)
Replies == [confirmed : BOOLEAN, age_ms : Age, seen : Age]

Altitudes == [have : BOOLEAN, age : 0..AltitudeStale + 1, measured : Age,
              fresh : BOOLEAN]

(* The type of every variable, with the socket's apart.                     *)
LEMMA TypeParts ==
  TypeOK <=>
    /\ pc \in {"receive", "request", "ended"}
    /\ spent \in 0..(IF pc = "receive" THEN Cycle ELSE MaxHttp)
    /\ Unread(unread)
    /\ next_altitude \in 0..AltitudePeriod
    /\ altitude \in Altitudes
    /\ accepted \in Reading /\ shown \in Reading
    /\ detection \in [confirmed : BOOLEAN, age : Age]
    /\ reply = None \/ reply \in Replies
    /\ inbox = None \/ inbox \in RangePacket
    /\ last = None \/ last \in RangePacket
    /\ link_age \in 0..LinkStale + 1
    /\ waited \in 0..MaxPass
  BY DEF TypeOK, Unread, Replies, Altitudes

LEMMA ArrivalTyped == ASSUME TypeOK, AltitudeArrives PROVE TypeOK'
<1>1. /\ next_altitude' = AltitudePeriod
      /\ UNCHANGED <<pc, spent, altitude, accepted, detection, reply, inbox, last,
                     link_age, waited, shown>>
  BY DEF AltitudeArrives, loop, reader
<1>2. Unread(unread')
  <2>1. \/ unread' = unread
        \/ Len(unread) < MaxUnread /\ unread' = Append(unread, 0)
    BY DEF AltitudeArrives
  <2> QED
    BY <2>1, ArrivalQueues, TypeParts
<1> QED
  BY <1>1, <1>2, SensingAssumption DEF TypeOK, Unread

LEMMA InferenceTyped == ASSUME TypeOK, Inference PROVE TypeOK'
<1>1. detection' \in [confirmed : BOOLEAN, age : Age]
  <2>1. detection' \in [confirmed : BOOLEAN, age : {0}]
    BY DEF Inference
  <2> QED
    BY <2>1, Limits DEF Age
<1>2. UNCHANGED <<pc, spent, altitude, accepted, unread, next_altitude, reply, inbox,
                  last, link_age, waited, shown>>
  BY DEF Inference, loop, reader
<1> QED
  BY <1>1, <1>2 DEF TypeOK

LEMMA AnswerTyped == ASSUME TypeOK, Answer PROVE TypeOK'
<1>1. reply' \in Replies
  BY DEF Answer, TypeOK, Replies
<1>2. UNCHANGED <<pc, spent, altitude, accepted, unread, next_altitude, detection,
                  inbox, last, link_age, waited, shown>>
  BY DEF Answer, loop, reader
<1> QED
  BY <1>1, <1>2 DEF TypeOK, Replies

(* A request starts with an altitude of its kind, whatever was read.        *)
LEMMA RequestTyped ==
  ASSUME TypeOK, NEW a \in Altitudes, StartRequest(a), Unread(unread')
  PROVE  TypeOK'
<1>1. /\ pc' = "request" /\ spent' = 0 /\ reply' = None
      /\ UNCHANGED <<accepted, next_altitude, detection, inbox, last, link_age,
                     waited, shown>>
  BY DEF StartRequest, reader
<1>2. altitude' \in Altitudes
  <2>1. altitude' = [a EXCEPT !.fresh = Fresh(a)] /\ Fresh(a) \in BOOLEAN
    BY DEF StartRequest, Fresh, Altitudes
  <2> QED
    BY <2>1 DEF Altitudes
<1>3. spent' \in 0..(IF pc' = "receive" THEN Cycle ELSE MaxHttp)
  BY <1>1, Limits
<1> QED
  BY <1>1, <1>2, <1>3 DEF TypeOK, Unread, Altitudes

LEMMA ReceiveTyped ==
  ASSUME TypeOK, ReceiveAltitude \/ ReceiveNothing \/ ReceiveThrows PROVE TypeOK'
<1>1. CASE ReceiveAltitude
  <2> DEFINE a == [altitude EXCEPT !.have = TRUE, !.age = 0,
                                   !.measured = Head(unread)]
  <2>1. Head(unread) \in Age /\ Unread(Tail(unread))
    BY <1>1, ReadingDequeues, TypeParts DEF ReceiveAltitude
  <2>2. a \in Altitudes
    <3>1. altitude \in Altitudes /\ 0 \in 0..AltitudeStale + 1
      BY TypeParts, Limits
    <3> QED
      BY <2>1, <3>1 DEF Altitudes
  <2>3. StartRequest(a) /\ unread' = Tail(unread)
    BY <1>1 DEF ReceiveAltitude
  <2> HIDE DEF a
  <2> QED
    BY <2>1, <2>2, <2>3, RequestTyped
<1>2. CASE ReceiveNothing
  <2>1. StartRequest(altitude) /\ unread' = unread
    BY <1>2 DEF ReceiveNothing
  <2>2. altitude \in Altitudes /\ Unread(unread')
    BY <2>1, TypeParts
  <2> QED
    BY <2>1, <2>2, RequestTyped
<1>3. CASE ReceiveThrows
  <2>1. /\ pc' = "ended" /\ spent' = 0
        /\ UNCHANGED <<altitude, accepted, unread, next_altitude, detection, reply,
                       inbox, last, link_age, waited, shown>>
    BY <1>3 DEF ReceiveThrows, reader
  <2>2. spent' \in 0..(IF pc' = "receive" THEN Cycle ELSE MaxHttp)
    BY <2>1, Limits
  <2> QED
    BY <2>1, <2>2 DEF TypeOK
<1> QED
  BY <1>1, <1>2, <1>3

LEMMA SendTyped == ASSUME TypeOK, SendPacket PROVE TypeOK'
<1>1. PICK d \in IF Usable THEN Distances ELSE {0} :
        LET found == Usable /\ Plausible(d) /\ JumpOk(d) IN
          /\ inbox' = [altitude_valid |-> altitude.fresh,
                       found |-> found,
                       valid |-> altitude.fresh /\ found,
                       measured |-> altitude.measured,
                       seen |-> IF found THEN reply.seen ELSE 0]
          /\ accepted' = Accepted(found, d)
          /\ shown' = IF found THEN [have |-> TRUE, distance |-> d] ELSE shown
  BY DEF SendPacket
<1>2. /\ pc' = "receive" /\ spent' = 0 /\ reply' = None
      /\ UNCHANGED <<altitude, unread, next_altitude, detection, last, link_age,
                     waited>>
  BY DEF SendPacket, NextRound, reader
<1> DEFINE found == Usable /\ Plausible(d) /\ JumpOk(d)
<1>3. d \in Distances \cup {0}
  BY <1>1
<1>4. accepted' \in Reading /\ shown' \in Reading
  <2>1. [have |-> TRUE, distance |-> d] \in Reading
    BY <1>3 DEF Reading
  <2> QED
    BY <1>1, <2>1 DEF Accepted, TypeOK
<1>5. inbox' \in RangePacket
  <2> DEFINE seen == IF found THEN reply.seen ELSE 0
  <2>1. seen \in Age
    <3>1. CASE found
      <4>1. reply \in Replies
        BY <3>1, TypeParts DEF Usable
      <4> QED
        BY <3>1, <4>1 DEF Replies
    <3>2. CASE ~found
      BY <3>2, Limits DEF Age
    <3> QED
      BY <3>1, <3>2
  <2>2. altitude.fresh \in BOOLEAN /\ altitude.measured \in Age
    BY DEF TypeOK
  <2>3. found \in BOOLEAN /\ (altitude.fresh /\ found) \in BOOLEAN
    BY <2>2
  <2>4. inbox' = [altitude_valid |-> altitude.fresh, found |-> found,
                  valid |-> altitude.fresh /\ found,
                  measured |-> altitude.measured, seen |-> seen]
    BY <1>1
  <2> HIDE DEF found, seen
  <2> QED
    BY <2>1, <2>2, <2>3, <2>4 DEF RangePacket
<1>6. spent' \in 0..(IF pc' = "receive" THEN Cycle ELSE MaxHttp)
  BY <1>2, Limits
<1> QED
  BY <1>2, <1>4, <1>5, <1>6 DEF TypeOK

LEMMA PollTyped == ASSUME TypeOK, Poll PROVE TypeOK'
<1>1. /\ inbox' = None /\ waited' = 0
      /\ last' \in {last, inbox} /\ (last' = inbox => inbox # None \/ last' = last)
      /\ link_age' \in {link_age, 0}
      /\ UNCHANGED <<pc, spent, altitude, accepted, unread, next_altitude,
                     detection, reply, shown>>
  BY DEF Poll, loop
<1>2. last' = None \/ last' \in RangePacket
  BY <1>1 DEF TypeOK
<1>3. link_age' \in 0..LinkStale + 1 /\ waited' \in 0..MaxPass
  BY <1>1, Limits DEF TypeOK
<1> QED
  BY <1>1, <1>2, <1>3 DEF TypeOK

LEMMA TickTyped == ASSUME TypeOK, Tick PROVE TypeOK'
<1>1. /\ pc' = pc /\ accepted' = accepted /\ shown' = shown
      /\ spent' \in 0..(IF pc' = "receive" THEN Cycle ELSE MaxHttp)
  <2>1. /\ pc' = pc /\ accepted' = accepted /\ shown' = shown
        /\ pc = "receive" => spent < Cycle
        /\ pc = "request" => spent < MaxHttp
        /\ spent' = IF pc = "ended" THEN spent ELSE spent + 1
    BY DEF Tick
  <2> QED
    BY <2>1, Limits DEF TypeOK
<1>2. Unread(unread')
  BY WaitingAges, TypeParts DEF Tick
<1>3. /\ next_altitude' \in 0..AltitudePeriod
      /\ waited' \in 0..MaxPass
      /\ link_age' \in 0..LinkStale + 1
  <2>1. /\ next_altitude > 0 /\ next_altitude' = next_altitude - 1
        /\ waited < MaxPass /\ waited' = waited + 1
        /\ link_age' = IF link_age > LinkStale THEN link_age ELSE link_age + 1
    BY DEF Tick
  <2> QED
    BY <2>1, Limits, SensingAssumption DEF TypeOK
<1>4. altitude' \in Altitudes
  <2> DEFINE age == IF altitude.age > AltitudeStale THEN altitude.age
                    ELSE altitude.age + 1
  <2>1. altitude' = [altitude EXCEPT !.age = age,
                                     !.measured = Older(altitude.measured)]
    BY DEF Tick
  <2>2. age \in 0..AltitudeStale + 1 /\ Older(altitude.measured) \in Age
    BY Limits, OlderAge DEF TypeOK
  <2> HIDE DEF age
  <2> QED
    BY <2>1, <2>2, TypeParts DEF Altitudes
<1>5. detection' \in [confirmed : BOOLEAN, age : Age]
  <2>1. detection' = [detection EXCEPT !.age = Older(detection.age)]
    BY DEF Tick
  <2>2. Older(detection.age) \in Age
    BY OlderAge DEF TypeOK
  <2> QED
    BY <2>1, <2>2 DEF TypeOK
<1>6. reply' = None \/ reply' \in Replies
  <2>1. CASE reply = None
    BY <2>1 DEF Tick
  <2>2. CASE reply # None
    <3>1. reply \in Replies /\ Older(reply.seen) \in Age
      BY <2>2, OlderAge, TypeParts DEF Replies
    <3>2. reply' = [reply EXCEPT !.seen = Older(reply.seen)]
      BY <2>2 DEF Tick
    <3> QED
      BY <3>1, <3>2 DEF Replies
  <2> QED
    BY <2>1, <2>2
<1>7. /\ inbox' = None \/ inbox' \in RangePacket
      /\ last' = None \/ last' \in RangePacket
  BY PacketStays DEF Tick, TypeOK
<1> QED
  BY <1>1, <1>2, <1>3, <1>4, <1>5, <1>6, <1>7
  DEF TypeOK, Unread, Altitudes, Replies

(* Every variable of the sensing loop, its sources and its reader holds a   *)
(* value of its kind, and the socket its messages in the order in which     *)
(* they came, whatever the settings.                                        *)
THEOREM SensingTyped == Spec => []TypeOK
<1>1. Init => TypeOK
  <2> SUFFICES ASSUME Init PROVE TypeOK
    OBVIOUS
  <2>1. <<>> \in Seq(Age) /\ Len(<<>>) = 0 /\ DOMAIN <<>> = {}
    OBVIOUS
  <2>2. Unread(unread)
    BY <2>1, SensingAssumption DEF Init, Unread
  <2>3. 0 \in Age /\ [have |-> FALSE, distance |-> 0] \in Reading
    BY Limits DEF Age, Reading
  <2>4. /\ spent \in 0..Cycle /\ next_altitude \in 0..AltitudePeriod
        /\ link_age \in 0..LinkStale + 1 /\ waited \in 0..MaxPass
        /\ 0 \in 0..AltitudeStale + 1
    BY Limits, SensingAssumption DEF Init
  <2>5. altitude \in Altitudes
    BY <2>3, <2>4 DEF Init, Altitudes
  <2>6. detection \in [confirmed : BOOLEAN, age : Age]
    BY <2>3 DEF Init
  <2> QED
    BY <2>2, <2>3, <2>4, <2>5, <2>6 DEF Init, TypeOK, Unread, Altitudes
<1>2. ASSUME TypeOK, [Next]_vars PROVE TypeOK'
  <2>1. CASE UNCHANGED vars
    BY <1>2, <2>1 DEF TypeOK, vars, loop, reader
  <2> QED
    BY <1>2, <2>1, ArrivalTyped, InferenceTyped, AnswerTyped, ReceiveTyped,
       SendTyped, PollTyped, TickTyped DEF Next, Answered, RequestFails
<1> QED
  BY <1>1, <1>2, PTL DEF Spec
-----------------------------------------------------------------------------
(* The longest time that n requests take.                                   *)
Requests(n) == n * MaxHttp

(* How long a message has waited to be read: at its place in the queue it   *)
(* came when the socket held no more than MaxUnread, and since then there   *)
(* has been a request for every message that was read before it.            *)
MessagesWait ==
  /\ pc = "request" =>
       \A i \in DOMAIN unread : unread[i] <= Requests(MaxUnread - i) + spent
  /\ pc = "receive" =>
       \A i \in DOMAIN unread : unread[i] <= Requests(MaxUnread - i + 1)

(* The real age of a reading that passes for fresh: what the program takes  *)
(* for its age, and the time its message waited.                            *)
ReadingAge ==
  /\ altitude.age <= AltitudeStale =>
       altitude.measured <= altitude.age + Requests(MaxUnread)
  /\ pc = "request" /\ altitude.fresh =>
       altitude.measured <= AltitudeStale + Requests(MaxUnread) + spent

AltitudeInv == TypeOK /\ MessagesWait /\ ReadingAge

LEMMA RequestsAddUp ==
  /\ Requests(MaxUnread) \in Nat
  /\ \A n \in Nat : Requests(n) \in Nat
  /\ \A n \in Nat : Requests(n + 1) = Requests(n) + MaxHttp
<1>1. MaxHttp \in Nat /\ MaxUnread \in Nat
  BY SensingAssumption
<1>2. ASSUME NEW n \in Nat
      PROVE  Requests(n) \in Nat /\ Requests(n + 1) = Requests(n) + MaxHttp
  BY <1>1 DEF Requests
<1> QED
  BY <1>1, <1>2

(* The numbers of a state, which every step below counts with.              *)
LEMMA Numbers ==
  ASSUME TypeOK
  PROVE  /\ Unread(unread) /\ DOMAIN unread = 1..Len(unread) /\ Len(unread) \in Nat
         /\ \A i \in DOMAIN unread :
              /\ unread[i] \in Age /\ unread[i] \in Nat
              /\ MaxUnread - i \in Nat /\ (MaxUnread - i) + 1 = MaxUnread - i + 1
         /\ spent \in Nat /\ MaxUnread \in Nat
         /\ pc = "request" => spent <= MaxHttp
         /\ altitude.age \in Nat /\ altitude.measured \in Nat
<1>1. Unread(unread)
  BY TypeParts
<1>2. \A a \in Age : a \in Nat
  BY Limits DEF Age
<1>3. altitude.age \in Nat /\ altitude.measured \in Nat
  BY <1>2, Limits DEF TypeOK
<1>4. /\ spent \in Nat /\ MaxUnread \in Nat
      /\ pc = "request" => spent <= MaxHttp
  BY Limits, SensingAssumption DEF TypeOK
<1>5. DOMAIN unread = 1..Len(unread) /\ Len(unread) \in Nat /\ Len(unread) <= MaxUnread
  BY <1>1 DEF Unread
<1>6. \A i \in DOMAIN unread : unread[i] \in Age
  BY <1>1 DEF Unread
<1>7. \A i \in DOMAIN unread : MaxUnread - i \in Nat
  BY <1>4, <1>5
<1>8. ASSUME NEW i \in DOMAIN unread
      PROVE  /\ unread[i] \in Age /\ unread[i] \in Nat
             /\ MaxUnread - i \in Nat /\ (MaxUnread - i) + 1 = MaxUnread - i + 1
  BY <1>2, <1>6, <1>7
<1> QED
  BY <1>1, <1>3, <1>4, <1>5, <1>8

(* A message that comes is new.                                             *)
LEMMA ArrivalWaits ==
  ASSUME AltitudeInv, AltitudeArrives PROVE MessagesWait'
<1>1. /\ pc' = pc /\ spent' = spent
      /\ \/ unread' = unread
         \/ Len(unread) < MaxUnread /\ unread' = Append(unread, 0)
  BY DEF AltitudeArrives, loop
<1>2. CASE unread' = unread
  BY <1>1, <1>2 DEF AltitudeInv, MessagesWait
<1>3. CASE Len(unread) < MaxUnread /\ unread' = Append(unread, 0)
  <2>1. \A i \in DOMAIN unread' :
          \/ i \in DOMAIN unread /\ unread'[i] = unread[i]
          \/ unread'[i] = 0 /\ MaxUnread - i \in Nat
    BY <1>3, Numbers DEF AltitudeInv, Unread
  <2>2. ASSUME NEW i \in DOMAIN unread', unread'[i] = 0, MaxUnread - i \in Nat
        PROVE  /\ unread'[i] <= Requests(MaxUnread - i) + spent
               /\ unread'[i] <= Requests(MaxUnread - i + 1)
    <3> DEFINE n == MaxUnread - i
    <3>1. n \in Nat /\ n + 1 \in Nat
      BY <2>2
    <3> HIDE DEF n
    <3>2. Requests(n) \in Nat /\ Requests(n + 1) \in Nat /\ spent \in Nat
      BY <3>1, RequestsAddUp, Numbers DEF AltitudeInv
    <3>3. unread'[i] <= Requests(n) + spent /\ unread'[i] <= Requests(n + 1)
      BY <2>2, <3>2
    <3> QED
      BY <3>3 DEF n
  <2> QED
    BY <1>1, <2>1, <2>2 DEF AltitudeInv, MessagesWait
<1> QED
  BY <1>1, <1>2, <1>3

(* A message that is read makes room: those behind it are one place and one *)
(* request nearer.                                                          *)
LEMMA ReadingWaits ==
  ASSUME AltitudeInv, ReceiveAltitude
  PROVE  MessagesWait' /\ ReadingAge'
<1> DEFINE a == [altitude EXCEPT !.have = TRUE, !.age = 0,
                                 !.measured = Head(unread)]
<1>1. /\ pc = "receive" /\ unread # <<>> /\ unread' = Tail(unread)
      /\ StartRequest(a)
  BY DEF ReceiveAltitude
<1>2. /\ pc' = "request" /\ spent' = 0
      /\ altitude' = [a EXCEPT !.fresh = Fresh(a)]
  BY <1>1 DEF StartRequest
<1>3. /\ Len(unread) \in Nat /\ Len(unread) # 0 /\ DOMAIN unread = 1..Len(unread)
      /\ Head(unread) = unread[1]
  BY <1>1, Numbers DEF AltitudeInv, Unread
<1>4. /\ DOMAIN unread' = 1..Len(unread) - 1
      /\ \A i \in 1..Len(unread) - 1 : unread'[i] = unread[i + 1]
  BY <1>1, <1>3, Numbers DEF AltitudeInv, Unread
<1>5. \A i \in DOMAIN unread :
        unread[i] \in Nat /\ unread[i] <= Requests(MaxUnread - i + 1)
  BY <1>1, Numbers DEF AltitudeInv, MessagesWait
<1>6. MessagesWait'
  <2>1. ASSUME NEW i \in DOMAIN unread'
        PROVE  unread'[i] <= Requests(MaxUnread - i) + spent'
    <3>1. i + 1 \in DOMAIN unread /\ unread'[i] = unread[i + 1] /\ i \in Nat
      BY <1>3, <1>4
    <3>2. MaxUnread - (i + 1) + 1 = MaxUnread - i /\ MaxUnread - i \in Nat
      BY <1>3, <1>4, Numbers DEF AltitudeInv, Unread
    <3>3. unread[i + 1] <= Requests(MaxUnread - (i + 1) + 1)
      BY <1>5, <3>1
    <3>4. unread[i + 1] <= Requests(MaxUnread - i)
      BY <3>2, <3>3
    <3>5. Requests(MaxUnread - i) \in Nat /\ unread[i + 1] \in Nat
      BY <1>5, <3>1, <3>2, RequestsAddUp
    <3> QED
      BY <1>2, <3>1, <3>4, <3>5
  <2> QED
    BY <1>2, <2>1 DEF MessagesWait
<1>7. ReadingAge'
  <2>1. altitude'.age = 0 /\ altitude'.measured = unread[1]
    BY <1>2, <1>3, TypeParts DEF AltitudeInv, Altitudes
  <2>2. unread[1] \in Nat /\ unread[1] <= Requests(MaxUnread)
    <3>1. 1 \in DOMAIN unread /\ MaxUnread - 1 + 1 = MaxUnread
      BY <1>3, Numbers DEF AltitudeInv
    <3> QED
      BY <1>5, <3>1
  <2> QED
    BY <1>2, <2>1, <2>2, Limits, RequestsAddUp DEF ReadingAge
<1> QED
  BY <1>6, <1>7

(* A cycle without a message starts a request with the reading there is.    *)
LEMMA NothingReadWaits ==
  ASSUME AltitudeInv, ReceiveNothing PROVE MessagesWait' /\ ReadingAge'
<1>1. /\ pc' = "request" /\ spent' = 0 /\ unread' = unread /\ unread = <<>>
      /\ altitude' = [altitude EXCEPT !.fresh = Fresh(altitude)]
  BY DEF ReceiveNothing, StartRequest
<1>2. DOMAIN unread' = {}
  BY <1>1
<1>3. /\ altitude'.age = altitude.age /\ altitude'.measured = altitude.measured
      /\ altitude'.fresh => altitude.age <= AltitudeStale
  BY <1>1, TypeParts DEF AltitudeInv, Altitudes, Fresh
<1>4. MessagesWait'
  BY <1>2 DEF MessagesWait
<1>5. /\ altitude.age \in Nat /\ altitude.measured \in Nat
      /\ altitude.age <= AltitudeStale =>
           altitude.measured <= altitude.age + Requests(MaxUnread)
  BY Numbers DEF AltitudeInv, ReadingAge
<1>6. Requests(MaxUnread) \in Nat /\ AltitudeStale \in Nat
  BY Limits, RequestsAddUp
<1>7. altitude'.age <= AltitudeStale =>
        altitude'.measured <= altitude'.age + Requests(MaxUnread)
  BY <1>3, <1>5
<1>8. altitude'.fresh =>
        altitude'.measured <= AltitudeStale + Requests(MaxUnread) + spent'
  BY <1>1, <1>3, <1>5, <1>6
<1> QED
  BY <1>4, <1>7, <1>8 DEF ReadingAge

(* A tick makes every age one more at most; while the loop waits to         *)
(* receive, nothing is unread.                                              *)
LEMMA TickWaits ==
  ASSUME AltitudeInv, Tick PROVE MessagesWait' /\ ReadingAge'
<1>1. /\ pc' = pc
      /\ pc = "receive" => unread = <<>>
      /\ pc = "request" => spent < MaxHttp /\ spent' = spent + 1
      /\ unread' = [i \in DOMAIN unread |-> Older(unread[i])]
  BY DEF Tick
<1>2. MessagesWait'
  <2>1. CASE pc = "request"
    <3>1. ASSUME NEW i \in DOMAIN unread'
          PROVE  unread'[i] <= Requests(MaxUnread - i) + spent'
      <4>1. /\ i \in DOMAIN unread /\ unread'[i] = Older(unread[i])
            /\ unread[i] \in Nat /\ MaxUnread - i \in Nat
        BY <1>1, Numbers DEF AltitudeInv
      <4>2. /\ Older(unread[i]) \in Nat /\ Older(unread[i]) <= unread[i] + 1
            /\ Requests(MaxUnread - i) \in Nat
            /\ unread[i] <= Requests(MaxUnread - i) + spent
        BY <2>1, <4>1, OlderByOne, RequestsAddUp DEF AltitudeInv, MessagesWait
      <4> QED
        BY <1>1, <2>1, <4>1, <4>2, Numbers DEF AltitudeInv
    <3> QED
      BY <1>1, <2>1, <3>1 DEF MessagesWait
  <2>2. CASE pc # "request"
    <3>1. pc = "receive" => DOMAIN unread' = {}
      BY <1>1
    <3> QED
      BY <1>1, <2>2, <3>1 DEF MessagesWait
  <2> QED
    BY <2>1, <2>2
<1>3. ReadingAge'
  <2> DEFINE age == IF altitude.age > AltitudeStale THEN altitude.age
                    ELSE altitude.age + 1
  <2>1. altitude' = [altitude EXCEPT !.age = age,
                                     !.measured = Older(altitude.measured)]
    BY DEF Tick
  <2>2. /\ altitude'.age = age /\ altitude'.measured = Older(altitude.measured)
        /\ altitude'.fresh = altitude.fresh
    BY <2>1, TypeParts DEF AltitudeInv, Altitudes
  <2>3. /\ altitude.age \in Nat /\ altitude.measured \in Nat
        /\ Older(altitude.measured) \in Nat
        /\ Older(altitude.measured) <= altitude.measured + 1
    BY Numbers, OlderByOne DEF AltitudeInv
  <2>4. altitude'.age <= AltitudeStale =>
          altitude'.measured <= altitude'.age + Requests(MaxUnread)
    BY <2>2, <2>3, Limits, RequestsAddUp DEF AltitudeInv, ReadingAge
  <2>5. ASSUME pc' = "request", altitude'.fresh
        PROVE  altitude'.measured <= AltitudeStale + Requests(MaxUnread) + spent'
    <3>1. /\ pc = "request" /\ altitude.fresh
          /\ spent' = spent + 1 /\ spent \in Nat
      BY <1>1, <2>2, <2>5, Numbers DEF AltitudeInv
    <3>2. altitude.measured <= AltitudeStale + Requests(MaxUnread) + spent
      BY <3>1 DEF AltitudeInv, ReadingAge
    <3>3. Requests(MaxUnread) \in Nat /\ AltitudeStale \in Nat
      BY Limits, RequestsAddUp
    <3> QED
      BY <2>2, <2>3, <3>1, <3>2, <3>3
  <2> QED
    BY <2>4, <2>5 DEF ReadingAge
<1> QED
  BY <1>2, <1>3

LEMMA AltitudeNext ==
  ASSUME AltitudeInv, [Next]_vars PROVE AltitudeInv'
<1>1. TypeOK'
  <2>1. CASE UNCHANGED vars
    BY <2>1 DEF AltitudeInv, TypeOK, vars, loop, reader
  <2> QED
    BY <2>1, ArrivalTyped, InferenceTyped, AnswerTyped, ReceiveTyped,
       SendTyped, PollTyped, TickTyped
    DEF Next, Answered, RequestFails, AltitudeInv
<1>2. CASE UNCHANGED <<pc, spent, unread, altitude>>
  BY <1>1, <1>2 DEF AltitudeInv, MessagesWait, ReadingAge
<1>3. CASE AltitudeArrives
  <2>1. UNCHANGED <<pc, spent, altitude>>
    BY <1>3 DEF AltitudeArrives, loop
  <2> QED
    BY <1>1, <1>3, <2>1, ArrivalWaits DEF AltitudeInv, ReadingAge
<1>4. CASE ReceiveAltitude \/ ReceiveNothing
  BY <1>1, <1>4, ReadingWaits, NothingReadWaits DEF AltitudeInv
<1>5. CASE ReceiveThrows
  BY <1>1, <1>5 DEF ReceiveThrows, AltitudeInv, MessagesWait, ReadingAge
<1>6. CASE pc = "request" /\ SendPacket
  <2>1. /\ pc' = "receive" /\ spent' = 0 /\ UNCHANGED <<unread, altitude>>
    BY <1>6 DEF SendPacket, NextRound
  <2>2. ASSUME NEW i \in DOMAIN unread PROVE unread[i] <= Requests(MaxUnread - i + 1)
    <3> DEFINE n == MaxUnread - i
    <3>1. n \in Nat /\ unread[i] \in Nat /\ unread[i] <= Requests(n) + spent
      BY <1>6, Numbers DEF AltitudeInv, MessagesWait
    <3> HIDE DEF n
    <3>2. Requests(n) \in Nat /\ Requests(n + 1) = Requests(n) + MaxHttp
      BY <3>1, RequestsAddUp
    <3>3. unread[i] <= Requests(n + 1)
      BY <1>6, <3>1, <3>2, Limits, Numbers DEF AltitudeInv
    <3> QED
      BY <3>3 DEF n
  <2>3. MessagesWait'
    BY <2>1, <2>2 DEF MessagesWait
  <2> QED
    BY <1>1, <2>1, <2>3 DEF AltitudeInv, ReadingAge
<1>7. CASE Tick
  BY <1>1, <1>7, TickWaits DEF AltitudeInv
<1>8. Inference \/ Answer \/ Poll \/ UNCHANGED vars =>
        UNCHANGED <<pc, spent, unread, altitude>>
  BY DEF Inference, Answer, Poll, vars, loop
<1> QED
  BY <1>2, <1>3, <1>4, <1>5, <1>6, <1>7, <1>8 DEF Next, Answered, RequestFails

(* Whatever the periods, and however many messages do not come: an altitude *)
(* that goes out as valid is behind by the messages that fit into the       *)
(* socket, a request each, by altitude_stale_ms and by one request more.    *)
THEOREM AltitudeLag == Spec => AltitudeLagBounded
<1>1. Init => MessagesWait /\ ReadingAge
  <2> SUFFICES ASSUME Init PROVE MessagesWait /\ ReadingAge
    OBVIOUS
  <2>1. DOMAIN unread = {}
    BY DEF Init
  <2> QED
    BY <2>1, Limits, RequestsAddUp DEF Init, MessagesWait, ReadingAge
<1>2. ASSUME AltitudeInv, [Next]_vars, pc = "request", pc' = "receive",
             inbox'.altitude_valid
      PROVE  inbox'.measured <= AltitudeStale + (MaxUnread + 1) * MaxHttp
  <2>1. SendPacket
    BY <1>2 DEF Next, Answered, RequestFails, AltitudeArrives, Inference, Answer,
       ReceiveAltitude, ReceiveNothing, StartRequest, ReceiveThrows, Poll, Tick,
       loop, vars
  <2>2. PICK f, v, s :
          inbox' = [altitude_valid |-> altitude.fresh, found |-> f, valid |-> v,
                    measured |-> altitude.measured, seen |-> s]
    BY <2>1 DEF SendPacket
  <2>3. inbox'.altitude_valid = altitude.fresh
        /\ inbox'.measured = altitude.measured
    BY <2>2
  <2>4. /\ altitude.measured <= AltitudeStale + Requests(MaxUnread) + spent
        /\ altitude.measured \in Nat /\ spent \in Nat /\ spent <= MaxHttp
    BY <1>2, <2>3, Numbers DEF AltitudeInv, ReadingAge
  <2>5. Requests(MaxUnread) \in Nat
        /\ (MaxUnread + 1) * MaxHttp = Requests(MaxUnread) + MaxHttp
    BY RequestsAddUp, SensingAssumption DEF Requests
  <2> QED
    BY <2>3, <2>4, <2>5, Limits
<1>3. Spec => []TypeOK
  BY SensingTyped
<1>4. AltitudeInv /\ [Next]_vars => AltitudeInv'
  BY AltitudeNext
<1>5. AltitudeInv /\ [Next]_vars =>
        [pc = "request" /\ pc' = "receive" /\ inbox'.altitude_valid =>
           inbox'.measured <= AltitudeStale + (MaxUnread + 1) * MaxHttp]_vars
  BY <1>2
<1>6. TypeOK /\ MessagesWait /\ ReadingAge => AltitudeInv
  BY DEF AltitudeInv
<1> QED
  BY <1>1, <1>3, <1>4, <1>5, <1>6, PTL DEF Spec, AltitudeLagBounded
============================================================================
