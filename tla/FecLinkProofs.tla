--------------------------- MODULE FecLinkProofs ---------------------------
(***************************************************************************)
(* Proofs about FecLink, for any number of lanes, any group size and wrap, *)
(* any timing, and every world: losses, duplicates, reconnects, restarts.  *)
(* In this order: no payload is returned twice; the types; while the       *)
(* sender is not restarted nothing is invented, the link implements        *)
(* TelemetryFeed, and a group is given up only when two of its packets     *)
(* have not come; at the end, how long the receiver would have to wait for *)
(* one loss in a group to be always recovered.                             *)
(***************************************************************************)
EXTENDS FecLink, FiniteSetTheorems, SequenceTheorems, TLAPS

(* The messages that packets of W carry under the key k.                    *)
Mine(W, k) == UNION {p.payload : p \in {q \in W : q.key = k}}

(* A message goes under one key, whatever numbers a lane uses again.        *)
KeysDisjoint(W) ==
  \A k, j \in Key : k # j => Mine(W, k) \cap Mine(W, j) = {}

(* A parity covers as many messages as a group has slots.                   *)
FullParity(ms) == IsFiniteSet(ms) /\ Cardinality(ms) = GroupSize

SoundPacket(p) ==
  /\ p.key \in Key
  /\ \/ p.type = "DATA" /\ p.group_seq \in Slot /\ \E m : p.payload = {m}
     \/ p.type = "PARITY" /\ p.group_seq = 0 /\ FullParity(p.payload)

WireInv ==
  /\ \A p \in wired : SoundPacket(p)
  /\ \A f \in flight : f.pkt \in wired
  /\ KeysDisjoint(wired)
  /\ run \in Nat /\ seq \in Nat
  /\ \A k \in Key : \A m \in Mine(wired, k) :
       m.run \in Nat /\ m.seq \in Nat /\ (m.run < run \/ (m.run = run /\ m.seq < seq))

(* The parities of messages that are on the wire.                           *)
Parities(W) ==
  {p \in [type : {"PARITY"}, key : Key, group_seq : {0}, payload : SUBSET Message] :
     FullParity(p.payload) /\ p.payload \subseteq Mine(W, p.key)}

(* What waits in the encoder has been on the wire under the same key.       *)
EncoderInv ==
  /\ next_lane \in Lane
  /\ lanes \in [Lane -> [group_index : Group, pending : Seq(Message)]]
  /\ \A l \in Lane :
       /\ Pending(l) \subseteq Mine(wired, <<l, lanes[l].group_index>>)
       /\ IsFiniteSet(Pending(l))
       /\ Cardinality(Pending(l)) = Len(lanes[l].pending)
       /\ Len(lanes[l].pending) < GroupSize
  /\ pending_parity \in Seq(Parities(wired))

SoundGroup(W, k, g) ==
  /\ g \in [data : [Slot -> SUBSET Mine(W, k)], parity : SUBSET Mine(W, k), age : Nat]
  /\ \A i \in Slot : g.data[i] # {} => \E m : g.data[i] = {m}
  /\ g.parity # {} => FullParity(g.parity)

(* What was returned came from a group that is closed for good.             *)
Closed(gs, hw, k) == k \notin DOMAIN gs /\ k[2] <= hw[k[1]]

DecoderInv ==
  /\ \A k \in DOMAIN groups : k \in Key /\ SoundGroup(wired, k, groups[k])
  /\ high_water \in [Lane -> -1..GroupWrap - 1]
  /\ \A x \in received :
       x # {} /\ \E k \in Key : Closed(groups, high_water, k) /\ x \subseteq Mine(wired, k)

LinkInv == WireInv /\ EncoderInv /\ DecoderInv

-----------------------------------------------------------------------------
(* The parameters are positive numbers.                                     *)
LEMMA Sizes == {NLanes, GroupSize, GroupWrap} \subseteq Nat \ {0}
  BY PacketAssumption

(* A set of integers that is bounded above has a greatest element.          *)
LEMMA MaxOfBounded ==
  ASSUME NEW b \in Int, NEW S \in SUBSET Int, S # {}, \A x \in S : x <= b
  PROVE  Max(S) \in S /\ \A x \in S : x <= Max(S)
<1> DEFINE Less == {ss \in Nat \X Nat : ss[1] < ss[2]}
           T == {n \in Nat : b - n \in S}
<1>1. IsWellFoundedOn(Less, Nat)
  BY NatLessThanWellFounded DEF OpToRel
<1>2. T \subseteq Nat /\ T # {}
  <2>1. PICK x \in S : TRUE
    OBVIOUS
  <2>2. b - x \in Nat /\ b - (b - x) = x
    BY <2>1
  <2> QED
    BY <2>1, <2>2
<1>3. PICK n \in T : \A m \in T : ~ (<<m, n>> \in Less)
  <2> HIDE DEF Less, T
  <2> QED
    BY <1>1, <1>2, WFMin
<1>4. ASSUME NEW m \in T PROVE n <= m
  <2>1. m \in Nat /\ n \in Nat /\ <<m, n>> \notin Less
    BY <1>3
  <2>2. ~ (m < n)
    BY <2>1
  <2> QED
    BY <2>1, <2>2
<1>5. b - n \in S /\ \A x \in S : b - n >= x
  <2>1. ASSUME NEW x \in S PROVE b - n >= x
    <3>1. b - x \in T
      <4>1. b - x \in Nat /\ b - (b - x) = x
        BY <2>1
      <4> QED
        BY <4>1
    <3>2. n <= b - x /\ n \in Nat
      BY <1>4, <3>1
    <3> QED
      BY <2>1, <3>2
  <2> QED
    BY <2>1
<1> QED
  BY <1>5 DEF Max

-----------------------------------------------------------------------------
(* A packet's messages are under its key.                                   *)
LEMMA MineHas == ASSUME NEW W, NEW p \in W PROVE p.payload \subseteq Mine(W, p.key)
  BY DEF Mine

(* What one more packet adds is under its key.                              *)
LEMMA MineAdds ==
  ASSUME NEW W, NEW p, NEW k
  PROVE  Mine(W \cup {p}, k) = IF k = p.key THEN Mine(W, k) \cup p.payload
                               ELSE Mine(W, k)
  BY DEF Mine

(* Parities repeat what was on the wire.                                    *)
LEMMA MineRepeats ==
  ASSUME NEW W, NEW Q, \A p \in Q : p.payload \subseteq Mine(W, p.key), NEW k
  PROVE  Mine(W \cup Q, k) = Mine(W, k)
<1>1. ASSUME NEW m \in Mine(W \cup Q, k) PROVE m \in Mine(W, k)
  <2>1. PICK p \in W \cup Q : p.key = k /\ m \in p.payload
    BY <1>1 DEF Mine
  <2>2. CASE p \in W
    BY <2>1, <2>2 DEF Mine
  <2>3. CASE p \in Q
    BY <2>1, <2>3
  <2> QED
    BY <2>2, <2>3
<1>2. Mine(W, k) \subseteq Mine(W \cup Q, k)
  BY DEF Mine
<1> QED
  BY <1>1, <1>2

(* A group stays sound when more is on the wire.                            *)
LEMMA SoundLater ==
  ASSUME NEW W, NEW V, NEW k, NEW g, SoundGroup(W, k, g),
         Mine(W, k) \subseteq Mine(V, k)
  PROVE  SoundGroup(V, k, g)
  BY DEF SoundGroup

-----------------------------------------------------------------------------
(* The messages in the slots of a group are fewer than its slots while one  *)
(* is missing: a parity is not all there already.                           *)
LEMMA FewerThanSlots ==
  ASSUME NEW W, NEW k, NEW g, SoundGroup(W, k, g), NEW j \in Slot, g.data[j] = {}
  PROVE  LET U == UNION {g.data[i] : i \in Slot}
         IN  IsFiniteSet(U) /\ Cardinality(U) < GroupSize
<1> DEFINE U == UNION {g.data[i] : i \in Slot}
           P == {i \in Slot : g.data[i] # {}}
           elt == [i \in P |-> CHOOSE m : g.data[i] = {m}]
<1>1. GroupSize \in Nat \ {0}
  BY Sizes
<1>2. IsFiniteSet(Slot) /\ Cardinality(Slot) = GroupSize
  <2>1. /\ IsFiniteSet(0..GroupSize - 1)
        /\ Cardinality(0..GroupSize - 1) =
             IF 0 > GroupSize - 1 THEN 0 ELSE GroupSize - 1 - 0 + 1
    BY <1>1, FS_Interval
  <2> QED
    BY <1>1, <2>1 DEF Slot
<1>3. IsFiniteSet(P) /\ Cardinality(P) < GroupSize
  <2>1. P \in SUBSET Slot /\ P # Slot
    OBVIOUS
  <2>2. IsFiniteSet(P) /\ Cardinality(P) <= Cardinality(Slot)
        /\ Cardinality(P) # Cardinality(Slot)
    BY <1>2, <2>1, FS_Subset
  <2>3. Cardinality(P) \in Nat
    BY <2>2, FS_CardinalityType
  <2> QED
    BY <1>1, <1>2, <2>2, <2>3
<1>4. \A i \in P : g.data[i] = {elt[i]}
  BY DEF SoundGroup
<1>5. elt \in Surjection(P, U)
  <2>1. elt \in [P -> U]
    BY <1>4
  <2>2. \A u \in U : \E i \in P : elt[i] = u
    BY <1>4
  <2> QED
    BY <2>1, <2>2 DEF Surjection
<1>6. IsFiniteSet(U) /\ Cardinality(U) <= Cardinality(P)
  <2> HIDE DEF U, P, elt
  <2> QED
    BY <1>3, <1>5, FS_Surjection
<1>7. Cardinality(U) \in Nat /\ Cardinality(P) \in Nat
  BY <1>3, <1>6, FS_CardinalityType
<1> QED
  BY <1>1, <1>3, <1>6, <1>7

(* What a group delivers is something, and all of it is the group's.        *)
LEMMA DeliversItsOwn ==
  ASSUME NEW W, NEW k, NEW g, SoundGroup(W, k, g), NEW x \in Delivered(g)
  PROVE  x # {} /\ x \subseteq Mine(W, k)
<1>1. CASE x \in {g.data[i] : i \in Present(g)}
  BY <1>1 DEF SoundGroup, Present
<1>2. CASE Recoverable(g) /\ x = Recovered(g)
  <2> DEFINE U == UNION {g.data[i] : i \in Slot}
  <2>1. PICK j \in Slot : g.data[j] = {}
    BY <1>2 DEF Recoverable, Missing, Present
  <2>2. IsFiniteSet(U) /\ Cardinality(U) < GroupSize
    BY <2>1, FewerThanSlots
  <2>3. FullParity(g.parity)
    BY <1>2 DEF Recoverable, SoundGroup
  <2>4. ~(g.parity \subseteq U)
    <3>1. ASSUME g.parity \subseteq U PROVE FALSE
      <4>1. Cardinality(g.parity) <= Cardinality(U)
        BY <2>2, <3>1, FS_Subset
      <4>2. Cardinality(U) \in Nat /\ GroupSize \in Nat
        BY <2>2, FS_CardinalityType, Sizes
      <4> QED
        BY <2>2, <2>3, <4>1, <4>2 DEF FullParity
    <3> QED
      BY <3>1
  <2>5. U \subseteq Mine(W, k) /\ g.parity \subseteq Mine(W, k)
    BY DEF SoundGroup
  <2>6. x = (g.parity \ U) \cup (U \ g.parity)
    BY <1>2 DEF Recovered, Xor
  <2> QED
    BY <2>4, <2>5, <2>6
<1> QED
  BY <1>1, <1>2 DEF Delivered

-----------------------------------------------------------------------------
(* What the encoder takes off its queue, and what it leaves, are parities.  *)
LEMMA QueueOfParities ==
  ASSUME EncoderInv
  PROVE  /\ OthersPending \in Seq(Parities(wired))
         /\ \/ OnePending = <<>>
            \/ \E q \in Parities(wired) : OnePending = <<q>>
<1>1. pending_parity \in Seq(Parities(wired))
  BY DEF EncoderInv
<1>2. CASE pending_parity = <<>>
  BY <1>2 DEF OnePending, OthersPending
<1>3. CASE pending_parity # <<>>
  BY <1>1, <1>3 DEF OnePending, OthersPending
<1> QED
  BY <1>2, <1>3

(* The wire stays sound when parities of it and a new message are added.    *)
LEMMA WireGrows ==
  ASSUME WireInv, NEW Q, Q \subseteq Parities(wired), NEW W, W = wired \cup Q
  PROVE  /\ \A p \in W : SoundPacket(p)
         /\ KeysDisjoint(W)
         /\ \A k : Mine(W, k) = Mine(wired, k)
<1>1. \A k : Mine(W, k) = Mine(wired, k)
  <2>1. \A p \in Q : p.payload \subseteq Mine(wired, p.key)
    BY DEF Parities
  <2> QED
    BY <2>1, MineRepeats
<1>2. \A p \in Q : SoundPacket(p)
  BY DEF Parities, SoundPacket
<1> QED
  BY <1>1, <1>2 DEF WireInv, KeysDisjoint

(* send_() of what an operation of the encoder emits.                       *)
LEMMA TransmitStep ==
  ASSUME LinkInv, Transmit,
         NEW Q, Q \subseteq Parities(wired), NEW N, PacketsOf(emitted') = Q \cup N
  PROVE  /\ wired' = (wired \cup Q) \cup N
         /\ \A f \in flight' : f.pkt \in wired'
         /\ UNCHANGED <<groups, high_water, received>>
<1>1. wired' = (wired \cup Q) \cup N
  BY DEF Transmit
<1>2. ASSUME NEW f \in flight' PROVE f.pkt \in wired'
  <2>1. f \in flight \/ \E i \in DOMAIN emitted' : f = [pkt |-> emitted'[i], age |-> 0]
    BY <1>2 DEF Transmit, Launched
  <2>2. CASE f \in flight
    BY <2>2 DEF LinkInv, WireInv, Transmit
  <2>3. CASE \E i \in DOMAIN emitted' : f = [pkt |-> emitted'[i], age |-> 0]
    BY <2>3 DEF Transmit, PacketsOf
  <2> QED
    BY <2>1, <2>2, <2>3
<1>3. UNCHANGED <<groups, high_water, received>>
  BY DEF Transmit, DecoderIdle
<1> QED
  BY <1>1, <1>2, <1>3

(* The groups of the decoder stay sound when more is on the wire.           *)
LEMMA DecoderKeeps ==
  ASSUME DecoderInv, UNCHANGED <<groups, high_water, received>>,
         \A k \in Key : Mine(wired, k) \subseteq Mine(wired', k)
  PROVE  DecoderInv'
<1>1. \A k \in DOMAIN groups' : k \in Key /\ SoundGroup(wired', k, groups'[k])
  BY SoundLater DEF DecoderInv
<1>2. ASSUME NEW x \in received'
      PROVE  x # {} /\ \E k \in Key : /\ Closed(groups', high_water', k)
                                      /\ x \subseteq Mine(wired', k)
  <2>1. x # {}
    BY DEF DecoderInv
  <2>2. PICK k \in Key : Closed(groups, high_water, k) /\ x \subseteq Mine(wired, k)
    BY DEF DecoderInv
  <2> QED
    BY <2>1, <2>2
<1> QED
  BY <1>1, <1>2 DEF DecoderInv

-----------------------------------------------------------------------------
(* One packet and another behind it.                                        *)
LEMMA PacketsOfTwo == ASSUME NEW a, NEW b PROVE PacketsOf(<<a>> \o <<b>>) = {a, b}
<1> DEFINE s == <<a>> \o <<b>>
<1>1. <<a>> \in Seq({a, b}) /\ <<b>> \in Seq({a, b})
  OBVIOUS
<1>2. s \in Seq({a, b}) /\ Len(s) = 2
  BY <1>1
<1>3. s[1] = a /\ s[2] = b
  BY <1>1
<1>4. DOMAIN s = {1, 2}
  BY <1>2
<1> HIDE DEF s
<1>5. {s[i] : i \in DOMAIN s} = {a, b}
  BY <1>3, <1>4
<1> QED
  BY <1>5 DEF PacketsOf, s

(* submit(): the new message goes under its lane's key, and once it has     *)
(* filled the group, so does the parity.                                    *)
LEMMA SendStep == ASSUME LinkInv, SendNext PROVE LinkInv'
<1> DEFINE m == [run |-> run, seq |-> seq]
           key == <<next_lane, lanes[next_lane].group_index>>
           Q == PacketsOf(OnePending)
           N == {DataFor(m)}
           W == wired \cup Q
<1> USE DEF LinkInv
<1>1. Submit(m) /\ Transmit /\ run' = run /\ seq' = seq + 1
  BY DEF SendNext
<1>2. /\ key \in Key /\ m \in Message /\ run \in Nat /\ seq \in Nat
      /\ next_lane \in Lane /\ GroupSize \in Nat \ {0}
      /\ lanes[next_lane] \in [group_index : Group, pending : Seq(Message)]
  BY Sizes DEF WireInv, EncoderInv, Key, Message
<1>3. OthersPending \in Seq(Parities(wired)) /\ Q \subseteq Parities(wired)
      /\ PacketsOf(emitted') = Q \cup N
  <2>1. emitted' = OnePending \o <<DataFor(m)>>
    BY <1>1 DEF Submit
  <2>2. CASE OnePending = <<>>
    BY <2>1, <2>2, QueueOfParities DEF PacketsOf
  <2>3. CASE \E q \in Parities(wired) : OnePending = <<q>>
    <3>1. PICK q \in Parities(wired) : OnePending = <<q>>
      BY <2>3
    <3>2. PacketsOf(emitted') = {q, DataFor(m)}
      BY <2>1, <3>1, PacketsOfTwo
    <3>3. PacketsOf(<<q>>) = {q}
      BY DEF PacketsOf
    <3> QED
      BY <3>1, <3>2, <3>3, QueueOfParities
  <2> QED
    BY <2>2, <2>3, QueueOfParities
<1>4. /\ DataFor(m).key = key /\ DataFor(m).payload = {m}
      /\ DataFor(m).type = "DATA"
      /\ DataFor(m).group_seq = Len(lanes[next_lane].pending)
  BY DEF DataFor, DataPacket
<1>5. SoundPacket(DataFor(m))
  <2>1. Len(lanes[next_lane].pending) \in Slot
    BY <1>2 DEF EncoderInv, Slot
  <2> QED
    BY <1>2, <1>4, <2>1 DEF SoundPacket
<1> HIDE DEF N, Q, W
<1>6. /\ wired' = W \cup {DataFor(m)}
      /\ \A f \in flight' : f.pkt \in wired'
      /\ UNCHANGED <<groups, high_water, received>>
  BY <1>1, <1>3, TransmitStep DEF W, N
<1>7. /\ \A p \in W : SoundPacket(p)
      /\ KeysDisjoint(W)
      /\ \A k : Mine(W, k) = Mine(wired, k)
  BY <1>3, WireGrows DEF W
<1>8. \A k : Mine(wired', k) = IF k = key THEN Mine(wired, k) \cup {m} ELSE Mine(wired, k)
  <2> SUFFICES ASSUME NEW k
               PROVE  Mine(wired', k) = IF k = key THEN Mine(wired, k) \cup {m}
                                        ELSE Mine(wired, k)
    OBVIOUS
  <2> HIDE DEF m, key
  <2>1. Mine(W \cup {DataFor(m)}, k) =
          IF k = DataFor(m).key THEN Mine(W, k) \cup DataFor(m).payload ELSE Mine(W, k)
    BY MineAdds
  <2>2. Mine(W, k) = Mine(wired, k)
    BY <1>7
  <2> QED
    BY <1>4, <1>6, <2>1, <2>2
<1>9. \A k \in Key : m \notin Mine(wired, k)
  BY <1>2 DEF WireInv
<1> HIDE DEF m, key
<1>10. WireInv'
  <2>1. \A p \in wired' : SoundPacket(p)
    BY <1>5, <1>6, <1>7
  <2>2. KeysDisjoint(wired')
    <3>1. ASSUME NEW k \in Key, NEW j \in Key, k # j
          PROVE  Mine(wired', k) \cap Mine(wired', j) = {}
      <4>1. Mine(wired, k) \cap Mine(wired, j) = {}
        BY <3>1 DEF WireInv, KeysDisjoint
      <4> QED
        BY <1>8, <1>9, <3>1, <4>1
    <3> QED
      BY <3>1 DEF KeysDisjoint
  <2>3. ASSUME NEW k \in Key, NEW n \in Mine(wired', k)
        PROVE  n.run \in Nat /\ n.seq \in Nat
               /\ (n.run < run' \/ (n.run = run' /\ n.seq < seq'))
    <3>1. CASE n = m
      BY <1>1, <1>2, <3>1 DEF m
    <3>2. CASE n \in Mine(wired, k)
      <4>1. n.run \in Nat /\ n.seq \in Nat
            /\ (n.run < run \/ (n.run = run /\ n.seq < seq))
        BY <3>2 DEF WireInv
      <4> QED
        BY <1>1, <1>2, <4>1
    <3> QED
      BY <1>8, <2>3, <3>1, <3>2
  <2>4. run' \in Nat /\ seq' \in Nat
    BY <1>1, <1>2
  <2> QED
    BY <1>6, <2>1, <2>2, <2>3, <2>4 DEF WireInv
<1>11. DecoderInv'
  BY <1>6, <1>8, DecoderKeeps
<1>12. Parities(wired) \subseteq Parities(wired')
  BY <1>8 DEF Parities
<1>13. OthersPending \in Seq(Parities(wired'))
  BY <1>3, <1>12
<1>14. /\ IsFiniteSet(Pending(next_lane) \cup {m})
       /\ Cardinality(Pending(next_lane) \cup {m}) = Len(lanes[next_lane].pending) + 1
       /\ Pending(next_lane) \cup {m} \subseteq Mine(wired', key)
       /\ Pending(next_lane) \cup {m} \in SUBSET Message
  <2>1. Pending(next_lane) \subseteq Mine(wired, key) /\ IsFiniteSet(Pending(next_lane))
        /\ Cardinality(Pending(next_lane)) = Len(lanes[next_lane].pending)
    BY <1>2 DEF EncoderInv, key
  <2>2. m \notin Pending(next_lane)
    BY <1>2, <1>9, <2>1
  <2>3. Pending(next_lane) \subseteq Message
    BY <1>2 DEF Pending
  <2> QED
    BY <1>2, <1>8, <2>1, <2>2, <2>3, FS_AddElement
<1>15. next_lane' \in Lane
  <2>1. next_lane' = (next_lane + 1) % NLanes /\ next_lane \in Nat /\ NLanes \in Nat \ {0}
    BY <1>1, <1>2, Sizes DEF Submit, Lane
  <2> QED
    BY <2>1 DEF Lane
<1>16. ASSUME NEW l \in Lane, lanes'[l] = lanes[l]
       PROVE  /\ Pending(l)' \subseteq Mine(wired', <<l, lanes'[l].group_index>>)
              /\ IsFiniteSet(Pending(l)')
              /\ Cardinality(Pending(l)') = Len(lanes'[l].pending)
              /\ Len(lanes'[l].pending) < GroupSize
  <2>1. Pending(l)' = Pending(l)
    BY <1>16 DEF Pending
  <2>2. /\ Pending(l) \subseteq Mine(wired, <<l, lanes[l].group_index>>)
        /\ IsFiniteSet(Pending(l))
        /\ Cardinality(Pending(l)) = Len(lanes[l].pending)
        /\ Len(lanes[l].pending) < GroupSize
    BY DEF EncoderInv
  <2>3. Mine(wired, <<l, lanes[l].group_index>>)
          \subseteq Mine(wired', <<l, lanes[l].group_index>>)
    BY <1>8
  <2> QED
    BY <1>16, <2>1, <2>2, <2>3
<1>17. CASE Len(lanes[next_lane].pending) + 1 = GroupSize
  <2>1. /\ pending_parity' = Append(OthersPending, ParityFor(m))
        /\ lanes' = [lanes EXCEPT ![next_lane] =
                       [group_index |-> (lanes[next_lane].group_index + 1) % GroupWrap,
                        pending     |-> <<>>]]
    BY <1>1, <1>17 DEF Submit, StartNewGroup
  <2>2. ParityFor(m) \in Parities(wired')
    <3>1. ParityFor(m) = [type |-> "PARITY", key |-> key, group_seq |-> 0,
                          payload |-> Pending(next_lane) \cup {m}]
      BY DEF ParityFor, ParityPacket, key
    <3>2. FullParity(Pending(next_lane) \cup {m})
      BY <1>14, <1>17 DEF FullParity
    <3>3. ParityFor(m) \in [type : {"PARITY"}, key : Key, group_seq : {0},
                            payload : SUBSET Message]
      BY <1>2, <1>14, <3>1
    <3>4. ParityFor(m).payload = Pending(next_lane) \cup {m} /\ ParityFor(m).key = key
      BY <3>1
    <3> QED
      BY <1>14, <3>2, <3>3, <3>4 DEF Parities
  <2>3. pending_parity' \in Seq(Parities(wired'))
    BY <1>13, <2>1, <2>2
  <2>4. (lanes[next_lane].group_index + 1) % GroupWrap \in Group
    <3>1. lanes[next_lane].group_index \in Nat /\ GroupWrap \in Nat \ {0}
      BY <1>2, Sizes DEF Group
    <3> QED
      BY <3>1 DEF Group
  <2>5. lanes' \in [Lane -> [group_index : Group, pending : Seq(Message)]]
    BY <1>2, <2>1, <2>4 DEF EncoderInv
  <2>6. lanes'[next_lane].pending = <<>>
    BY <1>2, <2>1 DEF EncoderInv
  <2>7. Pending(next_lane)' = {} \/ next_lane' # next_lane
    BY <2>6 DEF Pending
  <2>8. ASSUME NEW l \in Lane, l = next_lane
        PROVE  /\ Pending(l)' \subseteq Mine(wired', <<l, lanes'[l].group_index>>)
               /\ IsFiniteSet(Pending(l)')
               /\ Cardinality(Pending(l)') = Len(lanes'[l].pending)
               /\ Len(lanes'[l].pending) < GroupSize
    <3>1. Pending(l)' = {} /\ Len(lanes'[l].pending) = 0
      BY <2>6, <2>8 DEF Pending
    <3> QED
      BY <1>2, <3>1, FS_EmptySet
  <2>9. \A l \in Lane : l # next_lane => lanes'[l] = lanes[l]
    BY <2>1 DEF EncoderInv
  <2>10. EncoderInv'
    BY <1>15, <1>16, <2>3, <2>5, <2>8, <2>9 DEF EncoderInv
  <2> QED
    BY <1>10, <1>11, <2>10
<1>18. CASE Len(lanes[next_lane].pending) + 1 # GroupSize
  <2>1. /\ pending_parity' = OthersPending
        /\ lanes' = [lanes EXCEPT ![next_lane].pending = Append(@, m)]
    BY <1>1, <1>18 DEF Submit
  <2>2. /\ lanes'[next_lane].pending = Append(lanes[next_lane].pending, m)
        /\ lanes'[next_lane].group_index = lanes[next_lane].group_index
    BY <1>2, <2>1 DEF EncoderInv
  <2>3. lanes' \in [Lane -> [group_index : Group, pending : Seq(Message)]]
    <3>1. Append(lanes[next_lane].pending, m) \in Seq(Message)
      BY <1>2
    <3>2. [lanes[next_lane] EXCEPT !.pending = Append(@, m)]
            \in [group_index : Group, pending : Seq(Message)]
      BY <1>2, <3>1
    <3>3. lanes' = [lanes EXCEPT ![next_lane] =
                     [lanes[next_lane] EXCEPT !.pending = Append(@, m)]]
      BY <2>1
    <3>4. lanes \in [Lane -> [group_index : Group, pending : Seq(Message)]]
      BY DEF EncoderInv
    <3> QED
      BY <3>2, <3>3, <3>4
  <2>4. ASSUME NEW l \in Lane, l = next_lane
        PROVE  /\ Pending(l)' \subseteq Mine(wired', <<l, lanes'[l].group_index>>)
               /\ IsFiniteSet(Pending(l)')
               /\ Cardinality(Pending(l)') = Len(lanes'[l].pending)
               /\ Len(lanes'[l].pending) < GroupSize
    <3>1. lanes[l].pending \in Seq(Message) /\ lanes'[l].pending = Append(lanes[l].pending, m)
      BY <1>2, <2>2, <2>4
    <3>2. Pending(l)' = Pending(l) \cup {m}
      BY <3>1, SMTT(30) DEF Pending
    <3>3. Len(lanes'[l].pending) = Len(lanes[l].pending) + 1
      BY <3>1
    <3>4. Len(lanes[l].pending) < GroupSize /\ Len(lanes[l].pending) \in Nat
      <4>1. Len(lanes[l].pending) < GroupSize
        BY <2>4 DEF EncoderInv
      <4> QED
        BY <3>1, <4>1
    <3>5. <<l, lanes'[l].group_index>> = key
      BY <2>2, <2>4 DEF key
    <3> QED
      BY <1>2, <1>14, <1>18, <2>4, <3>2, <3>3, <3>4, <3>5
  <2>5. \A l \in Lane : l # next_lane => lanes'[l] = lanes[l]
    BY <2>1 DEF EncoderInv
  <2>6. EncoderInv'
    BY <1>13, <1>15, <1>16, <2>1, <2>3, <2>4, <2>5 DEF EncoderInv
  <2> QED
    BY <1>10, <1>11, <2>6
<1> QED
  BY <1>17, <1>18

(* A parity on its own repeats what was on the wire: SIGINT and the flush.  *)
LEMMA StopStep == ASSUME LinkInv, StopSender PROVE LinkInv'
<1> DEFINE Q == PacketsOf(OnePending)
           W == wired \cup Q
<1> USE DEF LinkInv
<1>1. Flush /\ Transmit /\ UNCHANGED <<run, seq, next_lane, lanes>>
  BY DEF StopSender, Flush
<1>2. /\ OthersPending \in Seq(Parities(wired)) /\ Q \subseteq Parities(wired)
      /\ PacketsOf(emitted') = Q \cup {}
  <2>1. emitted' = OnePending
    BY <1>1 DEF Flush
  <2>2. CASE OnePending = <<>>
    BY <2>1, <2>2, QueueOfParities DEF PacketsOf
  <2>3. CASE \E q \in Parities(wired) : OnePending = <<q>>
    BY <2>1, <2>3, QueueOfParities DEF PacketsOf
  <2> QED
    BY <2>2, <2>3, QueueOfParities
<1> HIDE DEF Q, W
<1>3. /\ wired' = W
      /\ \A f \in flight' : f.pkt \in wired'
      /\ UNCHANGED <<groups, high_water, received>>
  BY <1>1, <1>2, TransmitStep DEF W
<1>4. /\ \A p \in W : SoundPacket(p)
      /\ KeysDisjoint(W)
      /\ \A k : Mine(W, k) = Mine(wired, k)
  BY <1>2, WireGrows DEF W
<1>5. WireInv'
  BY <1>1, <1>3, <1>4 DEF WireInv
<1>6. EncoderInv'
  <2>1. pending_parity' \in Seq(Parities(wired'))
    <3>1. Parities(wired') = Parities(wired)
      BY <1>3, <1>4 DEF Parities
    <3> QED
      BY <1>1, <1>2, <3>1 DEF Flush
  <2>2. \A l : Pending(l)' = Pending(l)
    BY <1>1 DEF Pending
  <2> QED
    BY <1>1, <1>3, <1>4, <2>1, <2>2 DEF EncoderInv
<1>7. DecoderInv'
  BY <1>3, <1>4, DecoderKeeps
<1> QED
  BY <1>5, <1>6, <1>7

(* A new run of the sender starts its encoder and its numbers afresh.       *)
LEMMA RestartStep == ASSUME LinkInv, RestartSender PROVE LinkInv'
<1> USE DEF LinkInv
<1>1. /\ run' = run + 1 /\ seq' = 0 /\ next_lane' = 0 /\ lanes' = EmptyLanes
      /\ pending_parity' = <<>>
      /\ UNCHANGED <<wired, flight, groups, high_water, received>>
  BY DEF RestartSender, EncoderRestart, network, DecoderIdle
<1>2. WireInv'
  <2>1. run' \in Nat /\ seq' \in Nat
    BY <1>1 DEF WireInv
  <2>2. /\ \A p \in wired' : SoundPacket(p)
        /\ \A f \in flight' : f.pkt \in wired'
        /\ KeysDisjoint(wired')
    BY <1>1 DEF WireInv
  <2>3. ASSUME NEW k \in Key, NEW m \in Mine(wired', k)
        PROVE  m.run \in Nat /\ m.seq \in Nat
               /\ (m.run < run' \/ (m.run = run' /\ m.seq < seq'))
    <3>1. wired' = wired
      BY <1>1
    <3>2. m \in Mine(wired, k)
      BY <3>1
    <3>3. /\ m.run \in Nat /\ m.seq \in Nat
          /\ (m.run < run \/ (m.run = run /\ m.seq < seq))
      BY <3>2 DEF WireInv
    <3>4. run \in Nat /\ run' = run + 1
      BY <1>1 DEF WireInv
    <3>5. \A a, b, c \in Nat : a < b \/ a = b => a < b + 1
      OBVIOUS
    <3>6. m.run < run'
      <4>1. m.run < run \/ m.run = run
        BY <3>3
      <4> QED
        BY <3>3, <3>4, <3>5, <4>1
    <3> QED
      BY <3>3, <3>6
  <2> QED
    BY <2>1, <2>2, <2>3 DEF WireInv
<1>3. EncoderInv'
  <2>1. 0 \in Lane /\ 0 \in Group /\ GroupSize \in Nat \ {0}
    BY Sizes DEF Lane, Group
  <2>2. \A l \in Lane : lanes'[l] = [group_index |-> 0, pending |-> <<>>]
    BY <1>1 DEF EmptyLanes
  <2>3. lanes' \in [Lane -> [group_index : Group, pending : Seq(Message)]]
    BY <1>1, <2>1 DEF EmptyLanes
  <2>4. ASSUME NEW l \in Lane
        PROVE  /\ Pending(l)' = {} /\ Len(lanes'[l].pending) = 0
    BY <2>2 DEF Pending
  <2>5. pending_parity' \in Seq(Parities(wired'))
    BY <1>1
  <2>6. ASSUME NEW l \in Lane
        PROVE  /\ Pending(l)' \subseteq Mine(wired', <<l, lanes'[l].group_index>>)
               /\ IsFiniteSet(Pending(l)')
               /\ Cardinality(Pending(l)') = Len(lanes'[l].pending)
               /\ Len(lanes'[l].pending) < GroupSize
    <3>1. Pending(l)' = {} /\ Len(lanes'[l].pending) = 0
      BY <2>4
    <3> QED
      BY <2>1, <3>1, FS_EmptySet
  <2> QED
    BY <1>1, <2>1, <2>3, <2>5, <2>6 DEF EncoderInv
<1>4. DecoderInv'
  BY <1>1, DecoderKeeps
<1> QED
  BY <1>2, <1>3, <1>4

-----------------------------------------------------------------------------
(* A packet goes into its group, which is open or above the watermark.      *)
LEMMA AbsorbedSound ==
  ASSUME LinkInv, NEW p, p = NoPacket \/ p \in wired
  PROVE  /\ DOMAIN groups \subseteq DOMAIN Absorbed(p)
         /\ \A k \in DOMAIN Absorbed(p) :
              /\ k \in Key /\ SoundGroup(wired, k, Absorbed(p)[k])
              /\ k \in DOMAIN groups \/ k[2] > high_water[k[1]]
<1> USE DEF LinkInv
<1>1. CASE p = NoPacket \/ Stale(p)
  BY <1>1 DEF Absorbed, DecoderInv
<1>2. CASE ~(p = NoPacket \/ Stale(p))
  <2> DEFINE A == [k \in DOMAIN groups \cup {p.key} |->
                     IF k = p.key THEN Added(GroupOf(k), p) ELSE groups[k]]
  <2>1. Absorbed(p) = A
    BY <1>2 DEF Absorbed
  <2>2. p \in wired /\ SoundPacket(p) /\ p.key \in Key
    BY <1>2 DEF WireInv, SoundPacket
  <2>3. p.key \in DOMAIN groups \/ p.key[2] > high_water[p.key[1]]
    <3>1. p.key[1] \in Lane /\ p.key[2] \in Int
      BY <2>2 DEF Key, Group
    <3>2. high_water[p.key[1]] \in Int
      BY <3>1, Sizes DEF DecoderInv
    <3> QED
      BY <1>2, <3>1, <3>2 DEF Stale
  <2>4. SoundGroup(wired, p.key, GroupOf(p.key))
    <3>1. SoundGroup(wired, p.key, NewGroup)
      BY DEF SoundGroup, NewGroup
    <3> QED
      BY <3>1 DEF GroupOf, DecoderInv
  <2>5. SoundGroup(wired, p.key, Added(GroupOf(p.key), p))
    <3> DEFINE g == GroupOf(p.key)
    <3>1. p.payload \subseteq Mine(wired, p.key)
      BY <2>2, MineHas
    <3>2. CASE p.type = "DATA"
      <4>1. Added(g, p) = [g EXCEPT !.data = [g.data EXCEPT ![p.group_seq] = p.payload]]
        BY <3>2 DEF Added
      <4>2. p.group_seq \in Slot /\ \E m : p.payload = {m}
        BY <2>2, <3>2 DEF SoundPacket
      <4>3. [g.data EXCEPT ![p.group_seq] = p.payload]
              \in [Slot -> SUBSET Mine(wired, p.key)]
        BY <2>4, <3>1, <4>2 DEF SoundGroup
      <4>4. \A i \in Slot : [g.data EXCEPT ![p.group_seq] = p.payload][i] # {} =>
              \E m : [g.data EXCEPT ![p.group_seq] = p.payload][i] = {m}
        BY <2>4, <4>2 DEF SoundGroup
      <4> QED
        BY <2>4, <4>1, <4>3, <4>4 DEF SoundGroup
    <3>3. CASE p.type # "DATA"
      <4>1. Added(g, p) = [g EXCEPT !.parity = p.payload]
        BY <3>3 DEF Added
      <4>2. FullParity(p.payload)
        BY <2>2, <3>3 DEF SoundPacket
      <4> QED
        BY <2>4, <3>1, <4>1, <4>2 DEF SoundGroup
    <3> QED
      BY <3>2, <3>3
  <2>6. ASSUME NEW k \in DOMAIN A
        PROVE  /\ k \in Key /\ SoundGroup(wired, k, A[k])
               /\ k \in DOMAIN groups \/ k[2] > high_water[k[1]]
    <3>1. CASE k = p.key
      BY <2>2, <2>3, <2>5, <3>1
    <3>2. CASE k # p.key
      BY <3>2 DEF DecoderInv
    <3> QED
      BY <3>1, <3>2
  <2> QED
    BY <2>1, <2>6
<1> QED
  BY <1>1, <1>2

(* The watermark of a lane is as high as any group of it that was closed.   *)
LEMMA WatermarkRises ==
  ASSUME DecoderInv, NEW closed \in SUBSET Key
  PROVE  /\ HighWaterAfter(closed) \in [Lane -> -1..GroupWrap - 1]
         /\ \A l \in Lane : HighWaterAfter(closed)[l] >= high_water[l]
         /\ \A k \in closed : k[2] <= HighWaterAfter(closed)[k[1]]
<1>1. GroupWrap \in Nat \ {0}
  BY Sizes
<1>2. ASSUME NEW l \in Lane
      PROVE  /\ HighWaterAfter(closed)[l] \in -1..GroupWrap - 1
             /\ HighWaterAfter(closed)[l] >= high_water[l]
             /\ \A k \in closed : k[1] = l => k[2] <= HighWaterAfter(closed)[l]
  <2> DEFINE S == {high_water[l]} \cup ClosedIn(l, closed)
  <2>1. HighWaterAfter(closed)[l] = Max(S)
    BY DEF HighWaterAfter
  <2>2. ClosedIn(l, closed) \subseteq 0..GroupWrap - 1
    BY DEF ClosedIn, Key, Group
  <2>3. high_water[l] \in -1..GroupWrap - 1
    BY DEF DecoderInv
  <2>4. S \in SUBSET Int /\ S # {} /\ \A x \in S : x \in -1..GroupWrap - 1
    BY <1>1, <2>2, <2>3
  <2>5. GroupWrap - 1 \in Int /\ \A x \in S : x <= GroupWrap - 1
    BY <1>1, <2>4
  <2>6. \A k \in closed : k[1] = l => k[2] \in S
    BY DEF ClosedIn
  <2> HIDE DEF S
  <2>7. Max(S) \in S /\ \A x \in S : x <= Max(S)
    BY <2>4, <2>5, MaxOfBounded
  <2>8. high_water[l] \in S
    BY DEF S
  <2>9. Max(S) \in -1..GroupWrap - 1 /\ high_water[l] <= Max(S)
    BY <2>4, <2>7, <2>8
  <2> QED
    BY <1>1, <2>1, <2>3, <2>6, <2>7, <2>9
<1>3. \A k \in closed : k[1] \in Lane
  BY DEF Key
<1>4. HighWaterAfter(closed) \in [Lane -> -1..GroupWrap - 1]
  <2>1. HighWaterAfter(closed) = [l \in Lane |-> HighWaterAfter(closed)[l]]
    BY DEF HighWaterAfter
  <2> QED
    BY <1>2, <2>1
<1> QED
  BY <1>2, <1>3, <1>4

-----------------------------------------------------------------------------
(* The sweep closes groups for good, so that what it returns is new.        *)
LEMMA SweepStep ==
  ASSUME LinkInv, NEW p, p = NoPacket \/ p \in wired, Poll(p),
         received' = received \cup out', UNCHANGED wired
  PROVE  DecoderInv' /\ out' \cap received = {}
<1> DEFINE A == Absorbed(p)
           closed == Closing(A)
<1> USE DEF LinkInv
<1>1. /\ DOMAIN groups \subseteq DOMAIN A
      /\ \A k \in DOMAIN A : /\ k \in Key /\ SoundGroup(wired, k, A[k])
                             /\ k \in DOMAIN groups \/ k[2] > high_water[k[1]]
  BY AbsorbedSound
<1>2. /\ out' = UNION {Delivered(A[k]) : k \in closed}
      /\ groups' = [k \in DOMAIN A \ closed |-> A[k]]
      /\ high_water' = HighWaterAfter(closed)
  BY DEF Poll, Sweep, Closes
<1>3. closed \subseteq DOMAIN A /\ closed \in SUBSET Key
  BY <1>1 DEF Closing
<1> HIDE DEF A, closed
<1>4. /\ high_water' \in [Lane -> -1..GroupWrap - 1]
      /\ \A l \in Lane : high_water'[l] >= high_water[l]
      /\ \A k \in closed : k[2] <= high_water'[k[1]]
  BY <1>2, <1>3, WatermarkRises
<1>5. ASSUME NEW k \in Key PROVE k[1] \in Lane /\ k[2] \in Nat /\ high_water[k[1]] \in Int
                                /\ high_water'[k[1]] \in Int
  <2>1. k[1] \in Lane /\ k[2] \in Nat
    BY DEF Key, Group
  <2> QED
    BY <1>4, <2>1, Sizes DEF DecoderInv
<1>6. ASSUME NEW x \in out'
      PROVE  x # {} /\ \E k \in closed : x \subseteq Mine(wired, k)
  <2>1. PICK k \in closed : x \in Delivered(A[k])
    BY <1>2
  <2> QED
    BY <1>1, <1>3, <2>1, DeliversItsOwn
<1>7. ASSUME NEW k \in Key, Closed(groups, high_water, k) PROVE k \notin DOMAIN A
  <2>1. k[2] <= high_water[k[1]] /\ k \notin DOMAIN groups
    BY <1>7 DEF Closed
  <2>2. ~(k[2] > high_water[k[1]])
    BY <1>5, <2>1
  <2> QED
    BY <1>1, <2>1, <2>2
<1>8. out' \cap received = {}
  <2> SUFFICES ASSUME NEW x \in out', x \in received PROVE FALSE
    OBVIOUS
  <2>1. PICK k \in closed : x # {} /\ x \subseteq Mine(wired, k)
    BY <1>6
  <2>2. PICK j \in Key : Closed(groups, high_water, j) /\ x \subseteq Mine(wired, j)
    BY DEF DecoderInv
  <2>3. k \in Key /\ k \in DOMAIN A /\ j \notin DOMAIN A
    BY <1>3, <1>7, <2>2
  <2>4. Mine(wired, k) \cap Mine(wired, j) = {}
    BY <2>3 DEF WireInv, KeysDisjoint
  <2> QED
    BY <2>1, <2>2, <2>4
<1>9. DecoderInv'
  <2>1. \A k \in DOMAIN groups' : k \in Key /\ SoundGroup(wired', k, groups'[k])
    BY <1>1, <1>2
  <2>2. ASSUME NEW x \in received'
        PROVE  x # {} /\ \E k \in Key : /\ Closed(groups', high_water', k)
                                        /\ x \subseteq Mine(wired', k)
    <3>1. CASE x \in received
      <4>1. x # {}
        BY <3>1 DEF DecoderInv
      <4>2. PICK k \in Key : Closed(groups, high_water, k) /\ x \subseteq Mine(wired, k)
        BY <3>1 DEF DecoderInv
      <4>3. k \notin DOMAIN groups'
        BY <1>2, <1>7, <4>2
      <4>4. k[2] <= high_water'[k[1]]
        <5>1. k[2] <= high_water[k[1]] /\ high_water'[k[1]] >= high_water[k[1]]
          BY <1>4, <1>5, <4>2 DEF Closed
        <5> QED
          BY <1>5, <5>1
      <4> QED
        BY <4>1, <4>2, <4>3, <4>4 DEF Closed
    <3>2. CASE x \in out'
      <4>1. PICK k \in closed : x # {} /\ x \subseteq Mine(wired, k)
        BY <1>6, <3>2
      <4>2. k \in Key /\ k \notin DOMAIN groups' /\ k[2] <= high_water'[k[1]]
        BY <1>2, <1>3, <1>4
      <4> QED
        BY <4>1, <4>2 DEF Closed
    <3> QED
      BY <3>1, <3>2
  <2> QED
    BY <1>4, <2>1, <2>2 DEF DecoderInv
<1> QED
  BY <1>8, <1>9

(* poll() raises out of the sweep: some groups have been closed, and       *)
(* nothing is returned.                                                     *)
LEMMA DeathStep ==
  ASSUME LinkInv, NEW p \in wired, PollRaises(p), UNCHANGED <<wired, received>>
  PROVE  DecoderInv'
<1> USE DEF LinkInv
<1>1. PICK done \in SUBSET DOMAIN Absorbed(p) :
        /\ groups' = [k \in DOMAIN Absorbed(p) \ done |-> Absorbed(p)[k]]
        /\ high_water' = HighWaterAfter(done)
  BY DEF PollRaises, Closes, Closing
<1>2. \A k \in DOMAIN groups' : k \in Key /\ SoundGroup(wired', k, groups'[k])
  BY <1>1, AbsorbedSound
<1>3. /\ high_water' \in [Lane -> -1..GroupWrap - 1]
      /\ \A l \in Lane : high_water'[l] >= high_water[l]
  <2>1. done \in SUBSET Key
    BY AbsorbedSound
  <2> QED
    BY <1>1, <2>1, WatermarkRises
<1>4. ASSUME NEW x \in received'
      PROVE  x # {} /\ \E k \in Key : /\ Closed(groups', high_water', k)
                                      /\ x \subseteq Mine(wired', k)
  <2>1. x # {}
    BY DEF DecoderInv
  <2>2. PICK k \in Key : Closed(groups, high_water, k) /\ x \subseteq Mine(wired, k)
    BY DEF DecoderInv
  <2>3. /\ k[1] \in Lane /\ k[2] \in Nat /\ high_water[k[1]] \in Int
        /\ high_water'[k[1]] \in Int
    <3>1. k[1] \in Lane /\ k[2] \in Nat
      BY DEF Key, Group
    <3> QED
      BY <1>3, <3>1, Sizes DEF DecoderInv
  <2>4. k \notin DOMAIN groups /\ k[2] <= high_water[k[1]]
    BY <2>2 DEF Closed
  <2>5. k \notin DOMAIN Absorbed(p)
    <3>1. ~(k[2] > high_water[k[1]])
      BY <2>3, <2>4
    <3> QED
      BY <2>4, <3>1, AbsorbedSound
  <2>6. k[2] <= high_water'[k[1]]
    <3>1. high_water'[k[1]] >= high_water[k[1]]
      BY <1>3, <2>3
    <3> QED
      BY <2>3, <2>4, <3>1
  <2> QED
    BY <1>1, <2>1, <2>2, <2>5, <2>6 DEF Closed
<1> QED
  BY <1>2, <1>3, <1>4 DEF DecoderInv

(* Time changes the age of a group, and that of a datagram.                 *)
LEMMA TickStep == ASSUME LinkInv, Tick PROVE LinkInv'
<1> USE DEF LinkInv
<1>1. /\ UNCHANGED <<high_water, encoder, run, seq, wired, received>>
      /\ groups' = Aged
      /\ flight' = {[f EXCEPT !.age = @ + 1] : f \in flight}
  BY DEF Tick
<1>2. WireInv'
  <2>1. ASSUME NEW f \in flight' PROVE f.pkt \in wired
    <3>1. PICK h \in flight : f = [h EXCEPT !.age = @ + 1]
      BY <1>1
    <3>2. f.pkt = h.pkt
      BY <3>1
    <3> QED
      BY <3>2 DEF WireInv
  <2> QED
    BY <1>1, <2>1 DEF WireInv
<1>3. EncoderInv'
  <2>1. \A l : Pending(l)' = Pending(l)
    BY <1>1 DEF Pending, encoder
  <2> QED
    BY <1>1, <2>1 DEF EncoderInv, encoder
<1>4. DecoderInv'
  <2>1. DOMAIN groups' = DOMAIN groups
    BY <1>1 DEF Aged
  <2>2. ASSUME NEW k \in DOMAIN groups' PROVE k \in Key /\ SoundGroup(wired', k, groups'[k])
    <3>1. k \in Key /\ SoundGroup(wired, k, groups[k])
      BY <2>1 DEF DecoderInv
    <3>2. PICK a \in Nat : groups'[k] = [groups[k] EXCEPT !.age = a]
      <4>1. groups[k].age \in Nat
        BY <3>1 DEF SoundGroup
      <4>2. groups'[k] = [groups[k] EXCEPT !.age = IF groups[k].age > LongestWait
                            THEN groups[k].age ELSE groups[k].age + 1]
        BY <1>1, <2>1 DEF Aged
      <4> QED
        BY <4>1, <4>2
    <3> QED
      BY <1>1, <3>1, <3>2 DEF SoundGroup
  <2>3. \A k : Closed(groups', high_water', k) <=> Closed(groups, high_water, k)
    BY <1>1, <2>1 DEF Closed
  <2> QED
    BY <1>1, <2>2, <2>3 DEF DecoderInv
<1> QED
  BY <1>2, <1>3, <1>4

(* The link starts with nothing on the wire and no group open.              *)
LEMMA LinkInit == Init => LinkInv
<1> SUFFICES ASSUME Init PROVE LinkInv
  OBVIOUS
<1>1. /\ wired = {} /\ flight = {} /\ received = {} /\ run = 1 /\ seq = 0
      /\ groups = << >> /\ high_water = [l \in Lane |-> -1]
      /\ next_lane = 0 /\ lanes = EmptyLanes /\ pending_parity = <<>>
  BY DEF Init, EncoderInit, DecoderInit
<1>2. \A k : Mine(wired, k) = {}
  BY <1>1 DEF Mine
<1>3. WireInv
  BY <1>1, <1>2 DEF WireInv, KeysDisjoint
<1>4. EncoderInv
  <2>1. 0 \in Lane /\ 0 \in Group /\ GroupSize \in Nat \ {0}
    BY Sizes DEF Lane, Group
  <2>2. lanes \in [Lane -> [group_index : Group, pending : Seq(Message)]]
    BY <1>1, <2>1 DEF EmptyLanes
  <2>3. ASSUME NEW l \in Lane
        PROVE  /\ Pending(l) = {} /\ Len(lanes[l].pending) = 0
    BY <1>1 DEF Pending, EmptyLanes
  <2>4. ASSUME NEW l \in Lane
        PROVE  /\ Pending(l) \subseteq Mine(wired, <<l, lanes[l].group_index>>)
               /\ IsFiniteSet(Pending(l))
               /\ Cardinality(Pending(l)) = Len(lanes[l].pending)
               /\ Len(lanes[l].pending) < GroupSize
    <3>1. Pending(l) = {} /\ Len(lanes[l].pending) = 0
      BY <2>3
    <3> QED
      BY <2>1, <3>1, FS_EmptySet
  <2> QED
    BY <1>1, <2>1, <2>2, <2>4 DEF EncoderInv
<1>5. DecoderInv
  <2>1. -1 \in -1..GroupWrap - 1
    BY Sizes
  <2> QED
    BY <1>1, <2>1 DEF DecoderInv
<1> QED
  BY <1>3, <1>4, <1>5 DEF LinkInv

(* Every step keeps what is on the wire, in the encoder and in the open     *)
(* groups together, and returns nothing that was returned before.           *)
LEMMA LinkNext ==
  ASSUME LinkInv, [Next]_vars
  PROVE  LinkInv' /\ (UNCHANGED vars \/ out' \cap received = {})
<1> USE DEF LinkInv
<1>1. CASE SendNext
  BY <1>1, SendStep DEF SendNext, Transmit, DecoderIdle
<1>2. CASE StopSender
  BY <1>2, StopStep DEF StopSender, Transmit, DecoderIdle
<1>3. CASE RestartSender
  BY <1>3, RestartStep DEF RestartSender, DecoderIdle
<1>4. CASE Tick
  BY <1>4, TickStep DEF Tick
<1>5. ASSUME UNCHANGED <<encoder, run, seq, wired>>, \A f \in flight' : f.pkt \in wired
      PROVE  WireInv' /\ EncoderInv'
  <2>1. \A l : Pending(l)' = Pending(l)
    BY <1>5 DEF Pending, encoder
  <2> QED
    BY <1>5, <2>1 DEF WireInv, EncoderInv, encoder
<1>6. ASSUME NEW f \in flight, Lose(f) PROVE LinkInv' /\ out' \cap received = {}
  <2>1. /\ UNCHANGED <<encoder, run, seq, wired, groups, high_water, received>>
        /\ flight' \subseteq flight /\ out' = {}
    BY <1>6 DEF Lose, DecoderIdle, sender
  <2>2. DecoderInv'
    BY <2>1, DecoderKeeps
  <2> QED
    BY <1>5, <2>1, <2>2 DEF WireInv
<1>7. ASSUME NEW f \in flight, Receive(f) PROVE LinkInv' /\ out' \cap received = {}
  <2>1. /\ UNCHANGED <<encoder, run, seq, wired>> /\ flight' \subseteq flight
        /\ Poll(f.pkt) /\ received' = received \cup out' /\ f.pkt \in wired
    BY <1>7 DEF Receive, sender, WireInv
  <2>2. DecoderInv' /\ out' \cap received = {}
    BY <2>1, SweepStep
  <2> QED
    BY <1>5, <2>1, <2>2 DEF WireInv
<1>8. ASSUME NEW f \in flight, ReceiveDies(f) PROVE LinkInv' /\ out' \cap received = {}
  <2>1. /\ UNCHANGED <<encoder, run, seq, wired, received>> /\ flight' \subseteq flight
        /\ PollRaises(f.pkt) /\ f.pkt \in wired /\ out' = {}
    BY <1>8 DEF ReceiveDies, sender, WireInv, PollRaises
  <2>2. DecoderInv'
    BY <2>1, DeathStep
  <2> QED
    BY <1>5, <2>1, <2>2 DEF WireInv
<1>9. CASE ReceiveNothing
  <2>1. /\ UNCHANGED <<encoder, run, seq, wired, flight>>
        /\ Poll(NoPacket) /\ received' = received \cup out'
    BY <1>9 DEF ReceiveNothing, sender, network
  <2>2. DecoderInv' /\ out' \cap received = {}
    BY <2>1, SweepStep
  <2> QED
    BY <1>5, <2>1, <2>2 DEF WireInv
<1>10. CASE UNCHANGED vars
  <2>1. UNCHANGED <<encoder, run, seq, wired, flight, groups, high_water, received>>
    BY <1>10 DEF vars, sender, network, decoder
  <2>2. DecoderInv'
    BY <2>1, DecoderKeeps
  <2> QED
    BY <1>5, <1>10, <2>1, <2>2 DEF WireInv
<1> QED
  BY <1>1, <1>2, <1>3, <1>4, <1>6, <1>7, <1>8, <1>9, <1>10 DEF Next

(* Whatever the network loses, repeats and reorders, however often the      *)
(* sender is restarted and its group numbers come round again, poll() never *)
(* returns a payload twice.                                                 *)
THEOREM DeliversAtMostOnce == Spec => AtMostOnce
<1>1. LinkInv /\ [Next]_vars => LinkInv' /\ [out' \cap received = {}]_vars
  BY LinkNext
<1> QED
  BY <1>1, LinkInit, PTL DEF Spec, AtMostOnce
-----------------------------------------------------------------------------
(* There are finitely many keys, and finitely many slots under them.        *)
LEMMA FiniteKeys == IsFiniteSet(Key) /\ IsFiniteSet(Slot) /\ IsFiniteSet(Key \X Slot)
<1>1. NLanes \in Nat \ {0} /\ GroupSize \in Nat \ {0} /\ GroupWrap \in Nat \ {0}
  BY Sizes
<1>2. IsFiniteSet(Lane)
  BY <1>1, FS_Interval DEF Lane
<1>3. IsFiniteSet(Group)
  BY <1>1, FS_Interval DEF Group
<1>4. IsFiniteSet(Slot)
  BY <1>1, FS_Interval DEF Slot
<1>5. IsFiniteSet(Key)
  BY <1>2, <1>3, FS_Product DEF Key
<1> QED
  BY <1>4, <1>5, FS_Product

(* The bounds of a world are numbers.                                       *)
LEMMA WorldTyped ==
  ASSUME world \in Worlds
  PROVE  /\ world.runs \in Nat \ {0} /\ world.messages \in Nat \ {0}
         /\ world.stall \in Nat
  BY LinkAssumption DEF World

(* One parity at most waits: the next packet out leaves none.               *)
LEMMA QueueEmptied ==
  ASSUME EncoderTypeOK
  PROVE  /\ OthersPending = <<>>
         /\ OnePending = pending_parity
<1>1. pending_parity \in Seq(Packet) /\ Len(pending_parity) \in Nat /\ Len(pending_parity) <= 1
  <2>1. pending_parity \in Seq(Packet) /\ Len(pending_parity) <= 1
    BY DEF EncoderTypeOK
  <2> QED
    BY <2>1
<1>2. CASE pending_parity = <<>>
  BY <1>2 DEF OthersPending, OnePending
<1>3. CASE pending_parity # <<>>
  <2>1. Len(pending_parity) = 1
    <3>1. Len(pending_parity) \in Nat \ {0}
      BY <1>1, <1>3, EmptySeq
    <3>2. \A n \in Nat \ {0} : n <= 1 => n = 1
      OBVIOUS
    <3>3. Len(pending_parity) <= 1
      BY <1>1
    <3> QED
      BY <3>1, <3>2, <3>3
  <2>2. Tail(pending_parity) = <<>>
    <3>1. Tail(pending_parity) \in Seq(Packet) /\ Len(Tail(pending_parity)) = 0
      BY <1>1, <1>3, <2>1
    <3> QED
      BY <3>1, EmptySeq
  <2>3. <<Head(pending_parity)>> = pending_parity
    BY <1>1, <2>1
  <2> QED
    BY <1>3, <2>2, <2>3 DEF OthersPending, OnePending
<1> QED
  BY <1>2, <1>3

(* What the encoder emits goes out, and nothing else of the type changes.   *)
LEMMA TransmitTyped ==
  ASSUME TypeOK, Transmit, UNCHANGED world, emitted' \in Seq(Packet)
  PROVE  /\ DecoderTypeOK'
         /\ \A f \in flight' : f.pkt \in Packet /\ f.age \in 0..MaxDelay
         /\ listening' \in BOOLEAN /\ quiet' \in 0..PollTimeout
         /\ wired' \subseteq Packet /\ arrived' \subseteq wired'
         /\ received' \subseteq SUBSET Message
<1>1. /\ UNCHANGED <<arrived, listening, quiet, received, groups, high_water, stats>>
      /\ out' = {} /\ wired' = wired \cup PacketsOf(emitted')
      /\ flight' = flight \cup Launched(emitted')
  BY DEF Transmit, DecoderIdle
<1>2. DecoderTypeOK'
  BY <1>1 DEF TypeOK, DecoderTypeOK
<1>3. \A i \in DOMAIN emitted' : emitted'[i] \in Packet
  OBVIOUS
<1>4. ASSUME NEW f \in flight' PROVE f.pkt \in Packet /\ f.age \in 0..MaxDelay
  <2>1. CASE f \in flight
    BY <2>1 DEF TypeOK
  <2>2. CASE f \in Launched(emitted')
    <3>1. PICK i \in DOMAIN emitted' : f = [pkt |-> emitted'[i], age |-> 0]
      BY <2>2 DEF Launched
    <3>2. MaxDelay \in Nat
      BY LinkAssumption
    <3> QED
      BY <1>3, <3>1, <3>2
  <2> QED
    BY <1>1, <2>1, <2>2
<1>5. wired' \subseteq Packet
  BY <1>1, <1>3 DEF TypeOK, PacketsOf
<1> QED
  BY <1>1, <1>2, <1>4, <1>5 DEF TypeOK

(* submit() keeps the types.                                                *)
LEMMA SendTyped == ASSUME TypeOK, LinkInv, SendNext PROVE TypeOK'
<1> DEFINE m == [run |-> run, seq |-> seq]
<1>1. /\ Submit(m) /\ Transmit /\ UNCHANGED <<world, run, running>>
      /\ seq < world.messages /\ seq' = seq + 1 /\ due' \in Period..Period + world.stall
  BY DEF SendNext
<1>2. /\ world.runs \in Nat \ {0} /\ world.messages \in Nat \ {0} /\ world.stall \in Nat
      /\ run \in Nat /\ seq \in Nat /\ Period \in Nat \ {0}
  BY WorldTyped, LinkAssumption DEF TypeOK
<1>3. seq' \in 0..world.messages /\ due' \in 0..Period + world.stall
  BY <1>1, <1>2
<1>4. /\ m \in Message /\ next_lane \in Lane /\ 0 \in Slot
      /\ <<next_lane, lanes[next_lane].group_index>> \in Key
      /\ lanes[next_lane].pending \in Seq(Message)
      /\ Len(lanes[next_lane].pending) \in Slot
      /\ Pending(next_lane) \subseteq Message
      /\ GroupSize \in Nat \ {0}
  <2>1. GroupSize \in Nat \ {0} /\ m \in Message
    BY <1>2, Sizes DEF Message
  <2>2. next_lane \in Lane /\ lanes[next_lane] \in [group_index : Group, pending : Seq(Message)]
        /\ Len(lanes[next_lane].pending) < GroupSize
    BY DEF TypeOK, EncoderTypeOK
  <2>3. Len(lanes[next_lane].pending) \in Slot /\ 0 \in Slot
    BY <2>1, <2>2 DEF Slot
  <2>4. Pending(next_lane) \subseteq Message
    BY <2>2 DEF Pending
  <2> QED
    BY <2>1, <2>2, <2>3, <2>4 DEF Key
<1>5. DataFor(m) \in Packet /\ ParityFor(m) \in Packet
  <2> HIDE DEF m
  <2>1. DataFor(m) = [type |-> "DATA", key |-> <<next_lane, lanes[next_lane].group_index>>,
                      group_seq |-> Len(lanes[next_lane].pending), payload |-> {m}]
    BY DEF DataFor, DataPacket
  <2>2. ParityFor(m) = [type |-> "PARITY", key |-> <<next_lane, lanes[next_lane].group_index>>,
                        group_seq |-> 0, payload |-> Pending(next_lane) \cup {m}]
    BY DEF ParityFor, ParityPacket
  <2>3. {m} \in (SUBSET Message) \ {{}} /\ Pending(next_lane) \cup {m} \in (SUBSET Message) \ {{}}
    <3>1. {m} # {} /\ Pending(next_lane) \cup {m} # {}
      OBVIOUS
    <3>2. {m} \in SUBSET Message /\ Pending(next_lane) \cup {m} \in SUBSET Message
      BY <1>4
    <3> QED
      BY <3>1, <3>2
  <2> QED
    BY <1>4, <2>1, <2>2, <2>3 DEF Packet
<1>6. /\ OthersPending = <<>> /\ OnePending \in Seq(Packet) /\ Len(OnePending) <= 1
  BY QueueEmptied DEF TypeOK, EncoderTypeOK
<1> HIDE DEF m
<1>7. emitted' \in Seq(Packet) /\ Len(emitted') <= 2
  <2>1. emitted' = OnePending \o <<DataFor(m)>>
    BY <1>1 DEF Submit
  <2>2. <<DataFor(m)>> \in Seq(Packet) /\ Len(<<DataFor(m)>>) = 1
    BY <1>5
  <2> QED
    BY <1>6, <2>1, <2>2
<1>8. pending_parity' \in Seq(Packet) /\ Len(pending_parity') <= 1
  <2>1. pending_parity' = Append(<<>>, ParityFor(m)) \/ pending_parity' = <<>>
    BY <1>1, <1>6 DEF Submit
  <2>2. Append(<<>>, ParityFor(m)) = <<ParityFor(m)>>
    OBVIOUS
  <2>3. <<ParityFor(m)>> \in Seq(Packet) /\ Len(<<ParityFor(m)>>) = 1
    BY <1>5
  <2>4. <<>> \in Seq(Packet) /\ Len(<<>>) <= 1
    OBVIOUS
  <2>5. CASE pending_parity' = <<>>
    BY <2>4, <2>5
  <2>6. CASE pending_parity' = <<ParityFor(m)>>
    BY <2>3, <2>6
  <2> QED
    BY <2>1, <2>2, <2>5, <2>6
<1>9. LinkInv'
  BY SendStep
<1>10. EncoderTypeOK'
  BY <1>7, <1>8, <1>9 DEF EncoderTypeOK, LinkInv, EncoderInv
<1> QED
  BY <1>1, <1>3, <1>7, <1>10, TransmitTyped DEF TypeOK

(* The flush of a stopped sender keeps the types.                           *)
LEMMA StopTyped == ASSUME TypeOK, StopSender PROVE TypeOK'
<1>1. /\ Flush /\ Transmit /\ running' = FALSE
      /\ UNCHANGED <<world, run, seq, due, next_lane, lanes>>
  BY DEF StopSender, Flush
<1>2. emitted' = pending_parity /\ pending_parity' = <<>>
  BY <1>1, QueueEmptied DEF Flush, TypeOK
<1>3. emitted' \in Seq(Packet) /\ Len(emitted') <= 2
  BY <1>2 DEF TypeOK, EncoderTypeOK
<1>4. pending_parity' \in Seq(Packet) /\ Len(pending_parity') <= 1
  BY <1>2
<1>5. EncoderTypeOK'
  BY <1>1, <1>3, <1>4 DEF TypeOK, EncoderTypeOK
<1> QED
  BY <1>1, <1>3, <1>5, TransmitTyped DEF TypeOK

(* A restarted sender is of the same types.                                 *)
LEMMA RestartTyped == ASSUME TypeOK, LinkInv, RestartSender PROVE TypeOK'
<1>1. /\ run < world.runs /\ run' = run + 1 /\ seq' = 0 /\ running' = TRUE /\ due' = Period
      /\ pending_parity' = <<>> /\ emitted' = <<>> /\ DecoderIdle
      /\ UNCHANGED <<world, flight, wired, arrived, listening, quiet, received>>
  BY DEF RestartSender, EncoderRestart, network
<1>2. /\ world.runs \in Nat \ {0} /\ world.messages \in Nat \ {0} /\ world.stall \in Nat
      /\ run \in Nat /\ Period \in Nat \ {0}
  BY WorldTyped, LinkAssumption DEF TypeOK
<1>3. run' \in 1..world.runs /\ seq' \in 0..world.messages /\ due' \in 0..Period + world.stall
  BY <1>1, <1>2
<1>4. LinkInv'
  BY RestartStep
<1>5. EncoderTypeOK'
  <2>1. /\ pending_parity' \in Seq(Packet) /\ Len(pending_parity') <= 1
        /\ emitted' \in Seq(Packet) /\ Len(emitted') <= 2
    BY <1>1
  <2> QED
    BY <1>4, <2>1 DEF EncoderTypeOK, LinkInv, EncoderInv
<1>6. DecoderTypeOK'
  BY <1>1 DEF TypeOK, DecoderTypeOK, DecoderIdle
<1> QED
  BY <1>1, <1>3, <1>5, <1>6 DEF TypeOK

(* A packet that is taken in leaves every group of its type.                *)
LEMMA AbsorbedTyped ==
  ASSUME DecoderTypeOK, NEW p, p = NoPacket \/ p \in Packet
  PROVE  DOMAIN Absorbed(p) \subseteq Key
         /\ \A k \in DOMAIN Absorbed(p) : Absorbed(p)[k] \in GroupRecord
<1>1. CASE p = NoPacket \/ Stale(p)
  BY <1>1 DEF Absorbed, DecoderTypeOK
<1>2. CASE ~(p = NoPacket \/ Stale(p))
  <2> DEFINE A == [k \in DOMAIN groups \cup {p.key} |->
                     IF k = p.key THEN Added(GroupOf(k), p) ELSE groups[k]]
             g == GroupOf(p.key)
  <2>1. Absorbed(p) = A
    BY <1>2 DEF Absorbed
  <2>2. p \in Packet /\ p.key \in Key /\ p.payload \in SUBSET Message /\ p.group_seq \in Slot
    BY <1>2 DEF Packet
  <2>3. LongestWait \in Nat
    BY DecoderAssumption DEF LongestWait
  <2>4. NewGroup \in GroupRecord
    BY <2>3 DEF NewGroup, GroupRecord
  <2>5. g \in GroupRecord
    BY <2>4 DEF GroupOf, DecoderTypeOK
  <2>6. Added(g, p) \in GroupRecord
    <3> HIDE DEF g
    <3>1. [g EXCEPT !.parity = p.payload] \in GroupRecord
      BY <2>2, <2>5 DEF GroupRecord
    <3>2. [g EXCEPT !.data = [g.data EXCEPT ![p.group_seq] = p.payload]] \in GroupRecord
      BY <2>2, <2>5 DEF GroupRecord
    <3>3. [g EXCEPT !.data[p.group_seq] = p.payload] =
            [g EXCEPT !.data = [g.data EXCEPT ![p.group_seq] = p.payload]]
      OBVIOUS
    <3> QED
      BY <3>1, <3>2, <3>3 DEF Added
  <2>7. \A k \in DOMAIN A : k \in Key /\ A[k] \in GroupRecord
    BY <2>2, <2>6 DEF DecoderTypeOK
  <2> QED
    BY <2>1, <2>7
<1> QED
  BY <1>1, <1>2

(* A number of keys, or of slots under keys, is a number.                   *)
LEMMA Countable ==
  ASSUME NEW S, S \subseteq Key \/ S \subseteq Key \X Slot
  PROVE  IsFiniteSet(S) /\ Cardinality(S) \in Nat
<1>1. IsFiniteSet(S)
  BY FiniteKeys, FS_Subset
<1> QED
  BY <1>1, FS_CardinalityType

(* Closing groups keeps the types: what is closed can be counted.           *)
LEMMA ClosesTyped ==
  ASSUME DecoderTypeOK, LinkInv, NEW A, NEW closed \in SUBSET DOMAIN A,
         DOMAIN A \subseteq Key, \A k \in DOMAIN A : A[k] \in GroupRecord,
         Closes(A, closed), out' \subseteq SUBSET Message
  PROVE  DecoderTypeOK'
<1>1. /\ groups' = [k \in DOMAIN A \ closed |-> A[k]]
      /\ high_water' = HighWaterAfter(closed)
      /\ stats' = Counted(A, closed)
  BY DEF Closes
<1>2. closed \in SUBSET Key
  OBVIOUS
<1>3. DOMAIN groups' \subseteq Key /\ \A k \in DOMAIN groups' : groups'[k] \in GroupRecord
  BY <1>1
<1>4. high_water' \in [Lane -> -1..GroupWrap - 1]
  BY <1>1, <1>2, WatermarkRises DEF LinkInv
<1>5. stats' \in [delivered : Nat, recovered : Nat, lost : Nat]
  <2> DEFINE R == {k \in closed : Recoverable(A[k])}
             L == {s \in closed \X Slot : ~Complete(A[s[1]]) /\ A[s[1]].data[s[2]] = {}}
  <2>1. SlotsOf(A, closed) \subseteq Key \X Slot /\ R \subseteq Key /\ L \subseteq Key \X Slot
    BY <1>2 DEF SlotsOf
  <2>2. Cardinality(SlotsOf(A, closed)) \in Nat /\ Cardinality(R) \in Nat
        /\ Cardinality(L) \in Nat
    <3> HIDE DEF R, L
    <3> QED
      BY <2>1, Countable
  <2>3. stats \in [delivered : Nat, recovered : Nat, lost : Nat]
    BY DEF DecoderTypeOK
  <2>4. stats' = [delivered |-> stats.delivered + Cardinality(SlotsOf(A, closed)),
                  recovered |-> stats.recovered + Cardinality(R),
                  lost      |-> stats.lost + Cardinality(L)]
    BY <1>1 DEF Counted
  <2> HIDE DEF R, L
  <2> QED
    BY <2>2, <2>3, <2>4
<1> QED
  BY <1>3, <1>4, <1>5 DEF DecoderTypeOK

(* The sweep keeps the types, and what it returns are payloads.             *)
LEMMA SweepTyped ==
  ASSUME DecoderTypeOK, LinkInv, NEW p, p = NoPacket \/ p \in Packet, Poll(p)
  PROVE  DecoderTypeOK'
<1> DEFINE A == Absorbed(p)
           closed == Closing(A)
<1>1. DOMAIN A \subseteq Key /\ \A k \in DOMAIN A : A[k] \in GroupRecord
  BY AbsorbedTyped
<1>2. out' = UNION {Delivered(A[k]) : k \in closed} /\ Closes(A, closed)
  BY DEF Poll, Sweep
<1>3. closed \in SUBSET DOMAIN A
  BY DEF Closing
<1> HIDE DEF A, closed
<1>4. out' \subseteq SUBSET Message
  <2>1. ASSUME NEW k \in closed, NEW x \in Delivered(A[k]) PROVE x \in SUBSET Message
    <3>1. A[k].parity \in SUBSET Message /\ \A i \in Slot : A[k].data[i] \in SUBSET Message
      BY <1>1, <1>3 DEF GroupRecord
    <3>2. Recovered(A[k]) \in SUBSET Message
      BY <3>1 DEF Recovered, Xor
    <3> QED
      BY <2>1, <3>1, <3>2 DEF Delivered, Present
  <2> QED
    BY <1>2, <2>1
<1> QED
  BY <1>1, <1>2, <1>3, <1>4, ClosesTyped

(* So does a sweep that raises.                                             *)
LEMMA DeathTyped ==
  ASSUME DecoderTypeOK, LinkInv, NEW p \in Packet, PollRaises(p)
  PROVE  DecoderTypeOK'
<1>1. PICK done \in SUBSET DOMAIN Absorbed(p) : Closes(Absorbed(p), done) /\ out' = {}
  BY DEF PollRaises, Closing
<1>2. /\ DOMAIN Absorbed(p) \subseteq Key
      /\ \A k \in DOMAIN Absorbed(p) : Absorbed(p)[k] \in GroupRecord
  BY AbsorbedTyped
<1>3. out' \subseteq SUBSET Message
  BY <1>1
<1> QED
  BY <1>1, <1>2, <1>3, ClosesTyped

(* Time passes: no count of it leaves its range.                            *)
LEMMA TickTyped == ASSUME TypeOK, Tick PROVE TypeOK'
<1>1. /\ groups' = Aged /\ out' = {} /\ due' = (IF due > 0 THEN due - 1 ELSE 0)
      /\ flight' = {[f EXCEPT !.age = @ + 1] : f \in flight}
      /\ quiet' = (IF listening THEN quiet + 1 ELSE quiet)
      /\ UNCHANGED <<world, high_water, stats, encoder, run, seq, running, listening,
                     wired, arrived, received>>
      /\ \A f \in flight : f.age < MaxDelay
      /\ listening => quiet < PollTimeout
  BY DEF Tick
<1>2. /\ MaxDelay \in Nat /\ PollTimeout \in Nat \ {0} /\ LongestWait \in Nat
      /\ world.stall \in Nat /\ Period \in Nat \ {0}
  BY WorldTyped, LinkAssumption, DecoderAssumption DEF LongestWait, TypeOK
<1>3. ASSUME NEW f \in flight' PROVE f.pkt \in Packet /\ f.age \in 0..MaxDelay
  <2>1. PICK h \in flight : f = [h EXCEPT !.age = @ + 1]
    BY <1>1
  <2>2. h.pkt \in Packet /\ h.age \in 0..MaxDelay /\ h.age < MaxDelay
    BY <1>1 DEF TypeOK
  <2> QED
    BY <1>2, <2>1, <2>2
<1>4. due' \in 0..Period + world.stall /\ quiet' \in 0..PollTimeout
  BY <1>1, <1>2 DEF TypeOK
<1>5. DecoderTypeOK'
  <2>1. DOMAIN groups' = DOMAIN groups
    BY <1>1 DEF Aged
  <2>2. ASSUME NEW k \in DOMAIN groups PROVE groups'[k] \in GroupRecord
    <3>1. groups[k] \in GroupRecord
      BY DEF TypeOK, DecoderTypeOK
    <3>2. groups'[k] = [groups[k] EXCEPT !.age = IF groups[k].age > LongestWait
                          THEN groups[k].age ELSE groups[k].age + 1]
      BY <1>1 DEF Aged
    <3>3. groups[k].age \in 0..LongestWait + 1
      BY <3>1 DEF GroupRecord
    <3>4. (IF groups[k].age > LongestWait THEN groups[k].age ELSE groups[k].age + 1)
            \in 0..LongestWait + 1
      BY <1>2, <3>3
    <3> QED
      BY <3>1, <3>2, <3>4 DEF GroupRecord
  <2> QED
    BY <1>1, <2>1, <2>2 DEF TypeOK, DecoderTypeOK
<1>6. EncoderTypeOK'
  BY <1>1 DEF TypeOK, EncoderTypeOK, encoder
<1> QED
  BY <1>1, <1>3, <1>4, <1>5, <1>6 DEF TypeOK

(* The types of the link: one parity at most waits in the encoder, the ages *)
(* of groups and datagrams stay in range, and poll() takes only what was    *)
(* sent.                                                                    *)
THEOREM LinkTyped == Spec => []TypeOK
<1>1. Init => TypeOK
  <2> SUFFICES ASSUME Init PROVE TypeOK
    OBVIOUS
  <2>1. world \in Worlds /\ run = 1 /\ seq = 0 /\ running = TRUE /\ due = 0 /\ flight = {}
        /\ listening = TRUE /\ quiet = 0 /\ wired = {} /\ arrived = {} /\ received = {}
    BY DEF Init
  <2>2. /\ world.runs \in Nat \ {0} /\ world.messages \in Nat \ {0} /\ world.stall \in Nat
        /\ Period \in Nat \ {0} /\ PollTimeout \in Nat
    BY <2>1, WorldTyped, LinkAssumption, DecoderAssumption
  <2>3. EncoderTypeOK
    <3>1. pending_parity = <<>> /\ emitted = <<>>
      BY DEF Init, EncoderInit
    <3>2. LinkInv
      BY LinkInit
    <3>3. /\ pending_parity \in Seq(Packet) /\ Len(pending_parity) <= 1
          /\ emitted \in Seq(Packet) /\ Len(emitted) <= 2
      BY <3>1
    <3> QED
      BY <3>2, <3>3 DEF EncoderTypeOK, LinkInv, EncoderInv
  <2>4. DecoderTypeOK
    <3>1. high_water \in [Lane -> -1..GroupWrap - 1]
      BY LinkInit DEF LinkInv, DecoderInv
    <3>2. DOMAIN groups = {} /\ out = {}
          /\ stats = [delivered |-> 0, recovered |-> 0, lost |-> 0]
      BY DEF Init, DecoderInit
    <3> QED
      BY <3>1, <3>2 DEF DecoderTypeOK
  <2> QED
    BY <2>1, <2>2, <2>3, <2>4 DEF TypeOK
<1>2. ASSUME TypeOK, LinkInv, [Next]_vars PROVE TypeOK'
  <2> USE <1>2
  <2>1. CASE SendNext
    BY <2>1, SendTyped
  <2>2. CASE StopSender
    BY <2>2, StopTyped
  <2>3. CASE RestartSender
    BY <2>3, RestartTyped
  <2>4. CASE Tick
    BY <2>4, TickTyped
  <2>5. ASSUME UNCHANGED <<world, wired, listening, encoder, sender>>, DecoderTypeOK',
               flight' \subseteq flight, quiet' \in {0, quiet}, arrived' \subseteq wired,
               received' \subseteq received \cup out'
        PROVE  TypeOK'
    <3>1. EncoderTypeOK'
      BY <2>5 DEF TypeOK, EncoderTypeOK, encoder
    <3>2. quiet' \in 0..PollTimeout
      BY <2>5, DecoderAssumption DEF TypeOK
    <3>3. received' \subseteq SUBSET Message
      BY <2>5 DEF TypeOK, DecoderTypeOK
    <3> QED
      BY <2>5, <3>1, <3>2, <3>3 DEF TypeOK, sender
  <2>6. ASSUME NEW f \in flight, Lose(f) PROVE TypeOK'
    <3>1. DecoderTypeOK'
      BY <2>6 DEF Lose, DecoderIdle, TypeOK, DecoderTypeOK
    <3> QED
      BY <2>5, <2>6, <3>1 DEF Lose, TypeOK, sender
  <2>7. ASSUME NEW f \in flight, Receive(f) PROVE TypeOK'
    <3>1. f.pkt \in Packet /\ f.pkt \in wired
      BY DEF TypeOK, LinkInv, WireInv
    <3>2. DecoderTypeOK'
      BY <2>7, <3>1, SweepTyped DEF Receive, TypeOK
    <3> QED
      BY <2>5, <2>7, <3>1, <3>2 DEF Receive, TypeOK
  <2>8. ASSUME NEW f \in flight, ReceiveDies(f) PROVE TypeOK'
    <3>1. f.pkt \in Packet /\ f.pkt \in wired
      BY DEF TypeOK, LinkInv, WireInv
    <3>2. DecoderTypeOK'
      <4>1. PollRaises(f.pkt)
        BY <2>8 DEF ReceiveDies
      <4> QED
        BY <3>1, <4>1, DeathTyped DEF TypeOK
    <3>3. listening' = FALSE
          /\ UNCHANGED <<world, wired, quiet, received, encoder, sender>>
          /\ flight' \subseteq flight /\ arrived' \subseteq wired
      BY <2>8, <3>1 DEF ReceiveDies, TypeOK
    <3>4. EncoderTypeOK'
      BY <3>3 DEF TypeOK, EncoderTypeOK, encoder
    <3> QED
      BY <3>2, <3>3, <3>4 DEF TypeOK, sender
  <2>9. CASE ReceiveNothing
    <3>1. DecoderTypeOK'
      BY <2>9, SweepTyped DEF ReceiveNothing, TypeOK
    <3> QED
      BY <2>5, <2>9, <3>1 DEF ReceiveNothing, TypeOK, network
  <2>10. CASE UNCHANGED vars
    <3>1. DecoderTypeOK'
      BY <2>10 DEF vars, decoder, TypeOK, DecoderTypeOK
    <3> QED
      BY <2>5, <2>10, <3>1 DEF vars, network, TypeOK
  <2> QED
    BY <2>1, <2>2, <2>3, <2>4, <2>6, <2>7, <2>8, <2>9, <2>10 DEF Next
<1>3. LinkInv /\ [Next]_vars => LinkInv'
  BY LinkNext
<1> QED
  BY <1>1, <1>2, <1>3, LinkInit, PTL DEF Spec
-----------------------------------------------------------------------------
(* The group numbers of a lane do not come round in one run of the sender.  *)
(* The code guards against nothing else: two groups of a number that meet   *)
(* in the decoder are taken for one.  With 3 lanes of groups of 4, 65536    *)
(* group numbers and 10 messages a second a run may last 21 hours.          *)
NeverWraps ==
  \A w \in Worlds : w.messages <= NLanes * (GroupSize * GroupWrap - 1)

(* The data packets of W under the key k. *)
DataOf(W, k) == {p \in W : p.type = "DATA" /\ p.key = k}

(* The messages went to the lanes in turn: q to each, one more to the first. *)
Rounds ==
  \E q \in 0..seq :
    /\ seq = q * NLanes + next_lane
    /\ \A l \in Lane : lanes[l].group_index * GroupSize + Len(lanes[l].pending)
                         = IF l < next_lane THEN q + 1 ELSE q

(* A slot of a group holds one payload, and no payload is in two slots.     *)
OneEach(W) ==
  \A k \in Key : \A p, r \in DataOf(W, k) :
    p.group_seq = r.group_seq <=> p.payload = r.payload

(* What is on the wire of the group a lane is filling is what it keeps.     *)
OpenGroup(l) ==
  LET k == <<l, lanes[l].group_index>> IN
    /\ \A p \in wired : p.key[1] = l => p.key[2] <= lanes[l].group_index
    /\ \A p \in DataOf(wired, k) :
         /\ p.group_seq < Len(lanes[l].pending)
         /\ p.payload = {lanes[l].pending[p.group_seq + 1]}
    /\ \A i \in 1..Len(lanes[l].pending) :
         \E p \in DataOf(wired, k) : p.group_seq = i - 1

(* The parity p covers its group, which is on the wire as a whole.          *)
Covers(W, p) ==
  /\ \A i \in Slot : \E q \in DataOf(W, p.key) : q.group_seq = i
  /\ p.payload = UNION {q.payload : q \in DataOf(W, p.key)}

FirstSender ==
  /\ Rounds
  /\ OneEach(wired)
  /\ \A l \in Lane : OpenGroup(l)
  /\ \A p \in wired \cup PacketsOf(pending_parity) : p.type = "PARITY" =>
       Covers(wired, p) /\ p.key[2] < lanes[p.key[1]].group_index

(* The slots of an open group hold what was sent in them.                   *)
Genuine(W, k, g) ==
  /\ \A i \in Slot : g.data[i] # {} =>
       \E q \in DataOf(W, k) : q.group_seq = i /\ q.payload = g.data[i]
  /\ g.parity # {} =>
       \E q \in W : q.type = "PARITY" /\ q.key = k /\ q.payload = g.parity

(* As long as the sender has not been restarted. *)
FirstRun ==
  run = 1 =>
    /\ FirstSender
    /\ \A k \in DOMAIN groups : Genuine(wired, k, groups[k])
    /\ received \subseteq Sent

(* Multiplication is monotonic.                                             *)
LEMMA Times ==
  ASSUME NEW a \in Int, NEW b \in Int, NEW c \in Nat, a <= b
  PROVE  a * c <= b * c
<1>1. b - a \in Nat /\ (b - a) * c \in Nat /\ b * c = a * c + (b - a) * c
  OBVIOUS
<1>2. a * c \in Int /\ b * c \in Int
  OBVIOUS
<1> QED
  BY <1>1, <1>2

(* A lane that fills a group has a number for the next one.                 *)
LEMMA NextGroupIsNew ==
  ASSUME NeverWraps, TypeOK, Rounds, seq < world.messages,
         Len(lanes[next_lane].pending) + 1 = GroupSize
  PROVE  lanes[next_lane].group_index + 1 < GroupWrap
<1> DEFINE g == lanes[next_lane].group_index
           n == Len(lanes[next_lane].pending)
<1>1. /\ g \in Nat /\ n \in Nat /\ next_lane \in Nat /\ next_lane \in Lane /\ seq \in Nat
      /\ NLanes \in Nat \ {0} /\ GroupSize \in Nat \ {0} /\ GroupWrap \in Nat \ {0}
      /\ world.messages \in Nat
  <2>1. next_lane \in Lane /\ lanes[next_lane] \in [group_index : Group, pending : Seq(Message)]
    BY DEF TypeOK, EncoderTypeOK
  <2>2. n \in Nat
    BY <2>1
  <2>3. world.messages \in Nat /\ seq \in Nat
    BY WorldTyped DEF TypeOK
  <2> QED
    BY <2>1, <2>2, <2>3, Sizes DEF Lane, Group
<1>2. world.messages <= NLanes * (GroupSize * GroupWrap - 1)
  BY DEF NeverWraps, TypeOK
<1>3. PICK q \in 0..seq : seq = q * NLanes + next_lane /\ g * GroupSize + n = q
  BY <1>1 DEF Rounds
<1> HIDE DEF g, n
<1>4. SUFFICES ASSUME GroupWrap <= g + 1 PROVE FALSE
  BY <1>1 DEF g
<1>5. GroupWrap * GroupSize <= (g + 1) * GroupSize
  BY <1>1, <1>4, Times
<1>6. (g + 1) * GroupSize = g * GroupSize + GroupSize
  BY <1>1
<1>7. g * GroupSize \in Int /\ GroupWrap * GroupSize \in Int /\ n + 1 = GroupSize
  BY <1>1 DEF n
<1>8. q \in Nat /\ GroupWrap * GroupSize - 1 <= q
  <2>1. \A x, y, s, k \in Int : x <= y + s /\ k + 1 = s => x - 1 <= y + k
    OBVIOUS
  <2> QED
    BY <1>1, <1>3, <1>5, <1>6, <1>7, <2>1
<1>9. (GroupWrap * GroupSize - 1) * NLanes <= q * NLanes
  BY <1>1, <1>7, <1>8, Times
<1>10. (GroupWrap * GroupSize - 1) * NLanes = NLanes * (GroupSize * GroupWrap - 1)
  BY <1>1
<1>11. q * NLanes \in Int /\ NLanes * (GroupSize * GroupWrap - 1) \in Int
  BY <1>1, <1>8
<1> QED
  BY <1>1, <1>2, <1>3, <1>9, <1>10, <1>11

(* One more message, to the lane whose turn it is.                          *)
LEMMA RoundsStep ==
  ASSUME NeverWraps, TypeOK, Rounds, SendNext
  PROVE  Rounds'
<1> DEFINE g == lanes[next_lane].group_index
           n == Len(lanes[next_lane].pending)
           m == [run |-> run, seq |-> seq]
<1>1. /\ g \in Group /\ g \in Nat /\ n \in Nat /\ next_lane \in Lane /\ next_lane \in Nat
      /\ seq \in Nat /\ lanes[next_lane].pending \in Seq(Message)
      /\ NLanes \in Nat \ {0} /\ GroupSize \in Nat \ {0} /\ GroupWrap \in Nat \ {0}
      /\ lanes \in [Lane -> [group_index : Group, pending : Seq(Message)]]
  <2>1. next_lane \in Lane /\ lanes[next_lane] \in [group_index : Group, pending : Seq(Message)]
        /\ lanes \in [Lane -> [group_index : Group, pending : Seq(Message)]]
    BY DEF TypeOK, EncoderTypeOK
  <2>2. n \in Nat /\ seq \in Nat
    BY <2>1, WorldTyped DEF TypeOK
  <2> QED
    BY <2>1, <2>2, Sizes DEF Lane, Group
<1>2. Submit(m) /\ seq' = seq + 1 /\ seq < world.messages
  BY DEF SendNext
<1>3. /\ \A l \in Lane : l # next_lane => lanes'[l] = lanes[l]
      /\ lanes'[next_lane].group_index * GroupSize + Len(lanes'[next_lane].pending)
           = g * GroupSize + n + 1
  <2>1. CASE n + 1 = GroupSize
    <3>1. lanes' = [lanes EXCEPT ![next_lane] =
                      [group_index |-> (g + 1) % GroupWrap, pending |-> <<>>]]
      BY <1>2, <2>1 DEF Submit, StartNewGroup
    <3>2. g + 1 < GroupWrap
      BY <1>2, <2>1, NextGroupIsNew
    <3>3. (g + 1) % GroupWrap = g + 1
      <4>1. \A a, b \in Nat : a < b => a % b = a
        OBVIOUS
      <4>2. g + 1 \in Nat /\ GroupWrap \in Nat
        BY <1>1
      <4> HIDE DEF g
      <4> QED
        BY <3>2, <4>1, <4>2
    <3>4. lanes'[next_lane] = [group_index |-> g + 1, pending |-> <<>>]
      BY <1>1, <3>1, <3>3
    <3>5. lanes'[next_lane].group_index = g + 1 /\ Len(lanes'[next_lane].pending) = 0
      BY <3>4
    <3>6. \A l \in Lane : l # next_lane => lanes'[l] = lanes[l]
      BY <1>1, <3>1
    <3> HIDE DEF g, n
    <3>7. (g + 1) * GroupSize = g * GroupSize + GroupSize /\ g * GroupSize \in Int
      BY <1>1
    <3> QED
      BY <1>1, <2>1, <3>5, <3>6, <3>7
  <2>2. CASE n + 1 # GroupSize
    <3>1. lanes' = [lanes EXCEPT ![next_lane] =
                      [lanes[next_lane] EXCEPT !.pending = Append(lanes[next_lane].pending, m)]]
      BY <1>2, <2>2 DEF Submit
    <3>2. /\ lanes'[next_lane].group_index = g
          /\ lanes'[next_lane].pending = Append(lanes[next_lane].pending, m)
      BY <1>1, <3>1
    <3>3. Len(lanes'[next_lane].pending) = n + 1
      BY <1>1, <3>2
    <3>4. \A l \in Lane : l # next_lane => lanes'[l] = lanes[l]
      BY <1>1, <3>1
    <3> HIDE DEF g, n
    <3>5. \A a \in Int : a + (n + 1) = a + n + 1
      BY <1>1
    <3>6. g * GroupSize \in Int
      BY <1>1
    <3>7. g * GroupSize + (n + 1) = g * GroupSize + n + 1
      BY <3>5, <3>6
    <3>8. lanes'[next_lane].group_index * GroupSize + Len(lanes'[next_lane].pending)
            = g * GroupSize + (n + 1)
      BY <3>2, <3>3
    <3> QED
      BY <3>4, <3>7, <3>8
  <2> QED
    BY <2>1, <2>2
<1>4. PICK q \in 0..seq :
        /\ seq = q * NLanes + next_lane
        /\ \A l \in Lane : lanes[l].group_index * GroupSize + Len(lanes[l].pending)
                             = IF l < next_lane THEN q + 1 ELSE q
  BY DEF Rounds
<1>5. next_lane' = (next_lane + 1) % NLanes
  BY <1>2 DEF Submit
<1>6. g * GroupSize + n = q
  BY <1>1, <1>4
<1> HIDE DEF g, n, m
<1>7. ASSUME NEW l \in Lane
      PROVE  lanes'[l].group_index * GroupSize + Len(lanes'[l].pending)
               = IF l < next_lane + 1 THEN q + 1 ELSE q
  <2>1. l \in Nat
    BY DEF Lane
  <2>2. CASE l = next_lane
    BY <1>1, <1>3, <1>6, <2>2
  <2>3. CASE l # next_lane
    <3>1. l < next_lane <=> l < next_lane + 1
      BY <1>1, <2>1, <2>3
    <3> QED
      BY <1>3, <1>4, <2>3, <3>1
  <2> QED
    BY <2>2, <2>3
<1>8. CASE next_lane + 1 < NLanes
  <2>1. next_lane' = next_lane + 1
    <3>1. \A a, b \in Nat : a < b => a % b = a
      OBVIOUS
    <3>2. next_lane + 1 \in Nat /\ NLanes \in Nat
      BY <1>1
    <3> QED
      BY <1>5, <1>8, <3>1, <3>2
  <2>2. q \in 0..seq' /\ seq' = q * NLanes + next_lane'
    <3>1. q * NLanes \in Int
      BY <1>1
    <3> QED
      BY <1>1, <1>2, <1>4, <2>1, <3>1
  <2> QED
    BY <1>7, <2>1, <2>2 DEF Rounds
<1>9. CASE ~(next_lane + 1 < NLanes)
  <2>1. next_lane + 1 = NLanes
    BY <1>1, <1>9 DEF Lane
  <2>2. next_lane' = 0
    BY <1>1, <1>5, <2>1
  <2>3. q + 1 \in 0..seq' /\ seq' = (q + 1) * NLanes + next_lane'
    <3>1. q * NLanes \in Int /\ (q + 1) * NLanes = q * NLanes + NLanes
      BY <1>1
    <3> QED
      BY <1>1, <1>2, <1>4, <2>1, <2>2, <3>1
  <2>4. \A l \in Lane : ~(l < next_lane') /\ l < next_lane + 1
    BY <1>1, <2>1, <2>2 DEF Lane
  <2> QED
    BY <1>7, <2>3, <2>4 DEF Rounds
<1> QED
  BY <1>8, <1>9
-----------------------------------------------------------------------------
(* What waits in the encoder is a parity.                                   *)
LEMMA ParityWaits ==
  ASSUME LinkInv
  PROVE  \A p \in PacketsOf(pending_parity) : p.type = "PARITY" /\ p.key \in Key
<1>1. pending_parity \in Seq(Parities(wired))
  BY DEF LinkInv, EncoderInv
<1> QED
  BY <1>1 DEF PacketsOf, Parities

(* submit() sends the parity that waits and the message.                    *)
LEMMA SendWires ==
  ASSUME TypeOK, SendNext
  PROVE  /\ wired' = (wired \cup PacketsOf(pending_parity))
                       \cup {DataFor([run |-> run, seq |-> seq])}
         /\ PacketsOf(emitted') = PacketsOf(pending_parity)
                                    \cup {DataFor([run |-> run, seq |-> seq])}
<1> DEFINE d == DataFor([run |-> run, seq |-> seq])
           Q == PacketsOf(pending_parity)
<1>1. Submit([run |-> run, seq |-> seq]) /\ Transmit
  BY DEF SendNext
<1>2. emitted' = pending_parity \o <<d>>
  BY <1>1, QueueEmptied DEF Submit, TypeOK
<1>3. PacketsOf(emitted') = Q \cup {d}
  <2>1. CASE pending_parity = <<>>
    BY <1>2, <2>1 DEF PacketsOf
  <2>2. CASE pending_parity # <<>>
    <3>1. pending_parity = <<Head(pending_parity)>>
      BY <2>2, QueueEmptied DEF OnePending, TypeOK
    <3>2. PacketsOf(<<Head(pending_parity)>> \o <<d>>) = {Head(pending_parity), d}
      BY PacketsOfTwo
    <3>3. PacketsOf(<<Head(pending_parity)>>) = {Head(pending_parity)}
      BY DEF PacketsOf
    <3> QED
      BY <1>2, <3>1, <3>2, <3>3
  <2> QED
    BY <2>1, <2>2
<1> QED
  BY <1>1, <1>3 DEF Transmit

(* The flush sends the parity that waits, and none does any more.           *)
LEMMA StopWires ==
  ASSUME TypeOK, StopSender
  PROVE  /\ wired' = wired \cup PacketsOf(pending_parity)
         /\ PacketsOf(emitted') = PacketsOf(pending_parity)
         /\ PacketsOf(pending_parity') = {}
<1>1. Flush /\ Transmit
  BY DEF StopSender
<1>2. emitted' = pending_parity /\ pending_parity' = <<>>
  BY <1>1, QueueEmptied DEF Flush, TypeOK
<1> QED
  BY <1>1, <1>2 DEF Transmit, PacketsOf

(* submit() moves the lane whose turn it is, and queues the parity of a     *)
(* group that is full.                                                      *)
LEMMA SubmitMoves ==
  ASSUME NeverWraps, TypeOK, Rounds, SendNext,
         NEW m, m = [run |-> run, seq |-> seq],
         NEW g, g = lanes[next_lane].group_index,
         NEW n, n = Len(lanes[next_lane].pending)
  PROVE  /\ pending_parity' = IF n + 1 = GroupSize THEN <<ParityFor(m)>> ELSE <<>>
         /\ \A l \in Lane : l # next_lane => lanes'[l] = lanes[l]
         /\ n + 1 = GroupSize =>
              lanes'[next_lane] = [group_index |-> g + 1, pending |-> <<>>]
         /\ n + 1 # GroupSize =>
              /\ lanes'[next_lane].group_index = g
              /\ lanes'[next_lane].pending = Append(lanes[next_lane].pending, m)
<1>1. Submit(m) /\ seq < world.messages
  BY DEF SendNext
<1>2. /\ next_lane \in Lane /\ g \in Nat /\ GroupWrap \in Nat \ {0}
      /\ lanes \in [Lane -> [group_index : Group, pending : Seq(Message)]]
  <2>1. next_lane \in Lane /\ lanes[next_lane] \in [group_index : Group, pending : Seq(Message)]
        /\ lanes \in [Lane -> [group_index : Group, pending : Seq(Message)]]
    BY DEF TypeOK, EncoderTypeOK
  <2> QED
    BY <2>1, Sizes DEF Group
<1>3. pending_parity' = IF n + 1 = GroupSize THEN <<ParityFor(m)>> ELSE <<>>
  <2>1. OthersPending = <<>>
    BY QueueEmptied DEF TypeOK
  <2>2. Append(<<>>, ParityFor(m)) = <<ParityFor(m)>>
    OBVIOUS
  <2> QED
    BY <1>1, <2>1, <2>2 DEF Submit
<1>4. /\ \A l \in Lane : l # next_lane => lanes'[l] = lanes[l]
      /\ n + 1 = GroupSize => lanes'[next_lane] = [group_index |-> g + 1, pending |-> <<>>]
      /\ n + 1 # GroupSize =>
           /\ lanes'[next_lane].group_index = g
           /\ lanes'[next_lane].pending = Append(lanes[next_lane].pending, m)
  <2>1. CASE n + 1 = GroupSize
    <3>1. lanes' = [lanes EXCEPT ![next_lane] =
                      [group_index |-> (g + 1) % GroupWrap, pending |-> <<>>]]
      BY <1>1, <2>1 DEF Submit, StartNewGroup
    <3>2. g + 1 < GroupWrap
      BY <1>1, <2>1, NextGroupIsNew
    <3>3. (g + 1) % GroupWrap = g + 1
      <4>1. \A a, b \in Nat : a < b => a % b = a
        OBVIOUS
      <4>2. g + 1 \in Nat /\ GroupWrap \in Nat
        BY <1>2
      <4> QED
        BY <3>2, <4>1, <4>2
    <3> QED
      BY <1>2, <2>1, <3>1, <3>3
  <2>2. CASE n + 1 # GroupSize
    <3>1. lanes' = [lanes EXCEPT ![next_lane] =
                      [lanes[next_lane] EXCEPT !.pending = Append(lanes[next_lane].pending, m)]]
      BY <1>1, <2>2 DEF Submit
    <3> QED
      BY <1>2, <2>2, <3>1
  <2> QED
    BY <2>1, <2>2
<1> QED
  BY <1>3, <1>4

(* submit() puts the message in the next slot of its lane's group, and a    *)
(* parity is made of all that the group's packets carry.                    *)
LEMMA FirstSendStep ==
  ASSUME NeverWraps, TypeOK, LinkInv, FirstSender, SendNext
  PROVE  FirstSender' /\ wired \subseteq wired'
<1> DEFINE m == [run |-> run, seq |-> seq]
           d == DataFor(m)
           Q == PacketsOf(pending_parity)
           g == lanes[next_lane].group_index
           n == Len(lanes[next_lane].pending)
           key == <<next_lane, g>>
<1> USE DEF LinkInv
<1>1. Submit(m) /\ Transmit /\ seq < world.messages
  BY DEF SendNext
<1>2. /\ next_lane \in Lane /\ g \in Group /\ g \in Nat /\ n \in Nat /\ n < GroupSize
      /\ lanes[next_lane].pending \in Seq(Message) /\ key \in Key
      /\ GroupSize \in Nat \ {0} /\ GroupWrap \in Nat \ {0}
      /\ lanes \in [Lane -> [group_index : Group, pending : Seq(Message)]]
      /\ lanes[next_lane] \in [group_index : Group, pending : Seq(Message)]
  <2>1. next_lane \in Lane /\ lanes[next_lane] \in [group_index : Group, pending : Seq(Message)]
        /\ lanes \in [Lane -> [group_index : Group, pending : Seq(Message)]] /\ n < GroupSize
    BY DEF TypeOK, EncoderTypeOK
  <2>2. n \in Nat
    BY <2>1
  <2> QED
    BY <2>1, <2>2, Sizes DEF Group, Key
<1>3. d.type = "DATA" /\ d.key = key /\ d.group_seq = n /\ d.payload = {m}
  BY DEF DataFor, DataPacket
<1>4. \A p \in Q : p.type = "PARITY"
  BY ParityWaits
<1>5. wired' = (wired \cup Q) \cup {d}
  BY SendWires
<1>6. \A k : DataOf(wired', k) = IF k = key THEN DataOf(wired, k) \cup {d} ELSE DataOf(wired, k)
  <2> SUFFICES ASSUME NEW k
               PROVE  DataOf(wired', k) = IF k = key THEN DataOf(wired, k) \cup {d}
                                          ELSE DataOf(wired, k)
    OBVIOUS
  <2> HIDE DEF d, Q, key
  <2>1. DataOf((wired \cup Q) \cup {d}, k) =
          IF k = d.key THEN DataOf(wired, k) \cup {d} ELSE DataOf(wired, k)
    <3>1. d.type = "DATA" /\ "PARITY" # "DATA"
      BY <1>3
    <3> QED
      BY <1>4, <3>1 DEF DataOf
  <2> QED
    BY <1>3, <1>5, <2>1
<1>7. \A k \in Key : m \notin Mine(wired, k)
  BY DEF WireInv
<1>8. \A p \in DataOf(wired, key) : p.group_seq \in Nat /\ m \notin p.payload
  <2> SUFFICES ASSUME NEW p \in DataOf(wired, key)
               PROVE  p.group_seq \in Nat /\ m \notin p.payload
    OBVIOUS
  <2>1. p \in wired /\ p.key = key /\ p.type = "DATA"
    BY DEF DataOf
  <2>2. p.group_seq \in Slot
    BY <2>1 DEF WireInv, SoundPacket
  <2>3. p.payload \subseteq Mine(wired, key)
    BY <2>1, MineHas
  <2>4. p.group_seq \in Nat
    BY <1>2, <2>2 DEF Slot
  <2>5. m \notin Mine(wired, key)
    BY <1>2, <1>7
  <2> HIDE DEF m, key
  <2> QED
    BY <2>3, <2>4, <2>5
<1>9. OpenGroup(next_lane)
  BY <1>2 DEF FirstSender
<1>10. /\ \A p \in wired : p.key[1] = next_lane => p.key[2] <= g
       /\ \A p \in DataOf(wired, key) :
            p.group_seq < n /\ p.payload = {lanes[next_lane].pending[p.group_seq + 1]}
       /\ \A i \in 1..n : \E p \in DataOf(wired, key) : p.group_seq = i - 1
  BY <1>9 DEF OpenGroup
<1>11. pending_parity' = IF n + 1 = GroupSize THEN <<ParityFor(m)>> ELSE <<>>
  BY SubmitMoves DEF FirstSender
<1>12. /\ \A l \in Lane : l # next_lane => lanes'[l] = lanes[l]
       /\ n + 1 = GroupSize => lanes'[next_lane] = [group_index |-> g + 1, pending |-> <<>>]
       /\ n + 1 # GroupSize =>
            /\ lanes'[next_lane].group_index = g
            /\ lanes'[next_lane].pending = Append(lanes[next_lane].pending, m)
  BY SubmitMoves DEF FirstSender
<1>13. Rounds'
  BY RoundsStep DEF FirstSender
<1>14. OneEach(wired')
  <2> SUFFICES ASSUME NEW k \in Key, NEW p \in DataOf(wired', k), NEW r \in DataOf(wired', k)
               PROVE  p.group_seq = r.group_seq <=> p.payload = r.payload
    BY DEF OneEach
  <2>1. CASE p \in DataOf(wired, k) /\ r \in DataOf(wired, k)
    BY <2>1 DEF FirstSender, OneEach
  <2>2. CASE p = d /\ r = d
    BY <2>2
  <2>3. ASSUME NEW x \in DataOf(wired, key) PROVE x.group_seq # d.group_seq /\ x.payload # d.payload
    <3>1. x.group_seq \in Nat /\ x.group_seq < n
      BY <1>8, <1>10
    <3>2. m \in d.payload /\ m \notin x.payload
      BY <1>3, <1>8
    <3> QED
      BY <1>2, <1>3, <3>1, <3>2
  <2>4. k = key \/ (p \in DataOf(wired, k) /\ r \in DataOf(wired, k))
    BY <1>6
  <2>5. k = key => (p = d \/ p \in DataOf(wired, key)) /\ (r = d \/ r \in DataOf(wired, key))
    BY <1>6
  <2> HIDE DEF d, key
  <2> QED
    BY <2>1, <2>2, <2>3, <2>4, <2>5
<1>15. \A p \in wired' : p \in wired \/ p = d \/ p \in Q
  BY <1>5
<1>16. \A p \in Q : p.key \in Key /\ p.key[2] < lanes[p.key[1]].group_index
  <2>1. pending_parity \in Seq(Parities(wired))
    BY DEF EncoderInv
  <2>2. \A p \in Q : p.key \in Key
    BY <2>1 DEF PacketsOf, Parities
  <2> QED
    BY <1>4, <2>2 DEF FirstSender
<1>17. \A p \in wired : p.key \in Key
  BY DEF WireInv, SoundPacket
<1>18. ASSUME NEW l \in Lane PROVE OpenGroup(l)'
  <2>1. CASE l # next_lane
    <3> DEFINE k == <<l, lanes[l].group_index>>
    <3>1. lanes'[l] = lanes[l]
      BY <1>12, <2>1
    <3>2. DataOf(wired', k) = DataOf(wired, k)
      BY <1>6, <2>1
    <3>3. OpenGroup(l)
      BY DEF FirstSender
    <3>4. ASSUME NEW p \in wired', p.key[1] = l PROVE p.key[2] <= lanes[l].group_index
      <4>1. CASE p \in wired
        BY <3>3, <3>4, <4>1 DEF OpenGroup
      <4>2. CASE p = d
        BY <1>3, <2>1, <3>4, <4>2
      <4>3. CASE p \in Q
        <5>1. p.key[2] \in Nat /\ p.key[2] < lanes[l].group_index
          BY <1>16, <3>4, <4>3 DEF Key, Group
        <5>2. lanes[l].group_index \in Nat
          BY <1>2 DEF Group
        <5> QED
          BY <5>1, <5>2
      <4> QED
        BY <1>15, <4>1, <4>2, <4>3
    <3> QED
      BY <3>1, <3>2, <3>3, <3>4 DEF OpenGroup
  <2>2. ASSUME NEW p \in wired', p.key[1] = next_lane PROVE p.key[2] \in Nat /\ p.key[2] <= g
    <3>1. CASE p \in wired
      BY <1>10, <1>17, <2>2, <3>1 DEF Key, Group
    <3>2. CASE p = d
      BY <1>2, <1>3, <3>2
    <3>3. CASE p \in Q
      <4>1. p.key[2] \in Nat /\ p.key[2] < g
        BY <1>16, <2>2, <3>3 DEF Key, Group
      <4> QED
        BY <1>2, <4>1
    <3> QED
      BY <1>15, <3>1, <3>2, <3>3
  <2>3. CASE l = next_lane /\ n + 1 = GroupSize
    <3>1. lanes'[l].group_index = g + 1 /\ lanes'[l].pending = <<>> /\ Len(lanes'[l].pending) = 0
      BY <1>12, <2>3
    <3>2. DataOf(wired', <<l, g + 1>>) = {}
      <4> SUFFICES ASSUME NEW p \in wired', p.key = <<l, g + 1>> PROVE FALSE
        BY DEF DataOf
      <4>1. p.key[1] = next_lane /\ p.key[2] = g + 1
        BY <2>3
      <4> QED
        BY <1>2, <2>2, <4>1
    <3>3. \A p \in wired' : p.key[1] = l => p.key[2] <= g + 1
      BY <1>2, <2>2, <2>3
    <3> QED
      BY <3>1, <3>2, <3>3 DEF OpenGroup
  <2>4. CASE l = next_lane /\ n + 1 # GroupSize
    <3>1. /\ lanes'[l].group_index = g
          /\ lanes'[l].pending = Append(lanes[next_lane].pending, m)
          /\ Len(lanes'[l].pending) = n + 1
      BY <1>2, <1>12, <2>4
    <3>2. DataOf(wired', key) = DataOf(wired, key) \cup {d}
      BY <1>6
    <3>3. ASSUME NEW p \in DataOf(wired', key)
          PROVE  p.group_seq < n + 1 /\ p.payload = {lanes'[l].pending[p.group_seq + 1]}
      <4>1. CASE p = d
        <5>1. lanes'[l].pending[n + 1] = m
          BY <1>2, <3>1
        <5> QED
          BY <1>2, <1>3, <4>1, <5>1
      <4>2. CASE p \in DataOf(wired, key)
        <5>1. p.group_seq \in Nat /\ p.group_seq < n
              /\ p.payload = {lanes[next_lane].pending[p.group_seq + 1]}
          BY <1>8, <1>10, <4>2
        <5>2. p.group_seq + 1 \in 1..n
          BY <1>2, <5>1
        <5>3. lanes'[l].pending[p.group_seq + 1] = lanes[next_lane].pending[p.group_seq + 1]
          BY <1>2, <3>1, <5>2
        <5> QED
          BY <1>2, <5>1, <5>3
      <4> QED
        BY <3>2, <4>1, <4>2
    <3>4. ASSUME NEW i \in 1..n + 1 PROVE \E p \in DataOf(wired', key) : p.group_seq = i - 1
      <4>1. CASE i = n + 1
        <5>1. i - 1 = n
          BY <1>2, <4>1
        <5> QED
          BY <1>3, <3>2, <5>1
      <4>2. CASE i # n + 1
        <5>1. i \in 1..n
          BY <1>2, <4>2
        <5> QED
          BY <1>10, <3>2, <5>1
      <4> QED
        BY <4>1, <4>2
    <3>5. <<l, lanes'[l].group_index>> = key
      BY <2>4, <3>1
    <3> QED
      BY <2>2, <2>4, <3>1, <3>3, <3>4, <3>5 DEF OpenGroup
  <2> QED
    BY <2>1, <2>3, <2>4
<1>19. ASSUME NEW p, p \in wired' \cup PacketsOf(pending_parity'), p.type = "PARITY"
       PROVE  Covers(wired', p) /\ p.key[2] < lanes'[p.key[1]].group_index
  <2>1. CASE p \in wired \cup Q
    <3>1. Covers(wired, p) /\ p.key[2] < lanes[p.key[1]].group_index /\ p.key \in Key
      BY <1>16, <1>17, <1>19, <2>1 DEF FirstSender
    <3>2. p.key[1] \in Lane /\ p.key[2] \in Nat /\ p.key = <<p.key[1], p.key[2]>>
      BY <3>1 DEF Key, Group
    <3>3. p.key # key
      <4> SUFFICES ASSUME p.key = key PROVE FALSE
        OBVIOUS
      <4>1. p.key[1] = next_lane /\ p.key[2] = g
        OBVIOUS
      <4> QED
        BY <1>2, <3>1, <4>1
    <3>4. DataOf(wired', p.key) = DataOf(wired, p.key)
      BY <1>6, <3>3
    <3>5. p.key[2] < lanes'[p.key[1]].group_index
      <4>1. CASE p.key[1] # next_lane
        BY <1>12, <3>1, <3>2, <4>1
      <4>2. CASE p.key[1] = next_lane
        <5>1. lanes'[next_lane].group_index \in {g, g + 1}
          BY <1>12
        <5> QED
          BY <1>2, <3>1, <3>2, <4>2, <5>1
      <4> QED
        BY <4>1, <4>2
    <3> QED
      BY <3>1, <3>4, <3>5 DEF Covers
  <2>2. CASE n + 1 = GroupSize /\ p = ParityFor(m)
    <3>1. p.key = key /\ p.payload = Pending(next_lane) \cup {m}
      BY <2>2 DEF ParityFor, ParityPacket
    <3>2. DataOf(wired', key) = DataOf(wired, key) \cup {d}
      BY <1>6
    <3>3. ASSUME NEW i \in Slot PROVE \E q \in DataOf(wired', key) : q.group_seq = i
      <4>1. i \in Nat /\ i <= n
        BY <1>2, <2>2 DEF Slot
      <4>2. CASE i = n
        BY <1>3, <3>2, <4>2
      <4>3. CASE i # n
        <5>1. i + 1 \in 1..n /\ (i + 1) - 1 = i
          BY <1>2, <4>1, <4>3
        <5>2. PICK q \in DataOf(wired, key) : q.group_seq = (i + 1) - 1
          BY <1>10, <5>1
        <5> QED
          BY <3>2, <5>1, <5>2
      <4> QED
        BY <4>2, <4>3
    <3>4. UNION {q.payload : q \in DataOf(wired, key)} = Pending(next_lane)
      <4>1. ASSUME NEW q \in DataOf(wired, key) PROVE q.payload \subseteq Pending(next_lane)
        <5>1. q.group_seq + 1 \in 1..n /\ q.payload = {lanes[next_lane].pending[q.group_seq + 1]}
          <6>1. q.group_seq \in Nat /\ q.group_seq < n
                /\ q.payload = {lanes[next_lane].pending[q.group_seq + 1]}
            BY <1>8, <1>10
          <6> QED
            BY <1>2, <6>1
        <5>2. DOMAIN lanes[next_lane].pending = 1..n
          BY <1>2
        <5> QED
          BY <5>1, <5>2 DEF Pending
      <4>2. ASSUME NEW x \in Pending(next_lane)
            PROVE  x \in UNION {q.payload : q \in DataOf(wired, key)}
        <5>1. PICK i \in 1..n : x = lanes[next_lane].pending[i]
          BY <1>2 DEF Pending
        <5>2. PICK q \in DataOf(wired, key) : q.group_seq = i - 1
          BY <1>10
        <5>3. q.group_seq + 1 = i
          BY <1>2, <5>2
        <5>4. x \in q.payload
          BY <1>10, <5>1, <5>3
        <5> QED
          BY <5>4
      <4> QED
        BY <4>1, <4>2
    <3>5. UNION {q.payload : q \in DataOf(wired', key)} = Pending(next_lane) \cup {m}
      BY <1>3, <3>2, <3>4
    <3>6. p.key[2] < lanes'[p.key[1]].group_index
      <4>1. p.key[1] = next_lane /\ p.key[2] = g /\ lanes'[next_lane].group_index = g + 1
        BY <1>12, <2>2, <3>1
      <4> QED
        BY <1>2, <4>1
    <3> QED
      BY <3>1, <3>3, <3>5, <3>6 DEF Covers
  <2>3. p \in wired \cup Q \/ (n + 1 = GroupSize /\ p = ParityFor(m))
    <3>1. CASE p \in wired'
      BY <1>3, <1>15, <1>19, <3>1
    <3>2. CASE p \in PacketsOf(pending_parity')
      <4>1. PacketsOf(<<>>) = {} /\ PacketsOf(<<ParityFor(m)>>) = {ParityFor(m)}
        BY DEF PacketsOf
      <4> QED
        BY <1>11, <3>2, <4>1
    <3> QED
      BY <1>19, <3>1, <3>2
  <2> QED
    BY <2>1, <2>2, <2>3
<1> QED
  BY <1>5, <1>13, <1>14, <1>18, <1>19 DEF FirstSender

(* The flush puts on the wire a parity that covers its group.               *)
LEMMA FirstStopStep ==
  ASSUME TypeOK, LinkInv, FirstSender, StopSender
  PROVE  FirstSender' /\ wired \subseteq wired'
<1> DEFINE Q == PacketsOf(pending_parity)
<1>1. Flush /\ Transmit /\ UNCHANGED <<seq, next_lane, lanes>>
  BY DEF StopSender, Flush
<1>2. wired' = wired \cup Q /\ PacketsOf(pending_parity') = {}
  BY StopWires
<1>3. \A p \in Q : p.type = "PARITY" /\ p.key \in Key
  BY ParityWaits
<1>4. \A k : DataOf(wired', k) = DataOf(wired, k)
  <2>1. "PARITY" # "DATA"
    OBVIOUS
  <2> QED
    BY <1>2, <1>3, <2>1 DEF DataOf
<1>5. ASSUME NEW l \in Lane PROVE OpenGroup(l)'
  <2>1. OpenGroup(l) /\ lanes[l].group_index \in Nat
    BY DEF FirstSender, LinkInv, EncoderInv, Group
  <2>2. ASSUME NEW p \in Q, p.key[1] = l PROVE p.key[2] <= lanes[l].group_index
    <3>1. p.key[2] \in Nat /\ p.key[2] < lanes[l].group_index
      BY <1>3, <2>2 DEF FirstSender, Key, Group
    <3> QED
      BY <2>1, <3>1
  <2> QED
    BY <1>1, <1>2, <1>4, <2>1, <2>2 DEF OpenGroup
<1>6. Rounds'
  BY <1>1 DEF FirstSender, Rounds
<1>7. OneEach(wired')
  BY <1>4 DEF FirstSender, OneEach
<1>8. \A p \in wired' \cup PacketsOf(pending_parity') : p.type = "PARITY" =>
        Covers(wired', p) /\ p.key[2] < lanes'[p.key[1]].group_index
  BY <1>1, <1>2, <1>4 DEF FirstSender, Covers
<1> QED
  BY <1>2, <1>5, <1>6, <1>7, <1>8 DEF FirstSender
-----------------------------------------------------------------------------
(* What an open group holds was sent, and stays so when more is sent.       *)
LEMMA GenuineLater ==
  ASSUME NEW W, NEW V, W \subseteq V, NEW k, NEW g, Genuine(W, k, g)
  PROVE  Genuine(V, k, g)
<1>1. DataOf(W, k) \subseteq DataOf(V, k)
  BY DEF DataOf
<1> QED
  BY <1>1 DEF Genuine

(* add_data() and add_parity() put into a group what was sent for it.       *)
LEMMA AbsorbedGenuine ==
  ASSUME LinkInv, \A k \in DOMAIN groups : Genuine(wired, k, groups[k]),
         NEW p, p = NoPacket \/ p \in wired
  PROVE  \A k \in DOMAIN Absorbed(p) : Genuine(wired, k, Absorbed(p)[k])
<1>1. CASE p = NoPacket \/ Stale(p)
  BY <1>1 DEF Absorbed
<1>2. CASE ~(p = NoPacket \/ Stale(p))
  <2> DEFINE A == [k \in DOMAIN groups \cup {p.key} |->
                     IF k = p.key THEN Added(GroupOf(k), p) ELSE groups[k]]
             g == GroupOf(p.key)
  <2>1. Absorbed(p) = A
    BY <1>2 DEF Absorbed
  <2>2. p \in wired /\ SoundPacket(p) /\ p.key \in Key
    BY <1>2 DEF LinkInv, WireInv, SoundPacket
  <2>3. Genuine(wired, p.key, g)
    <3>1. Genuine(wired, p.key, NewGroup)
      BY DEF Genuine, NewGroup
    <3> QED
      BY <3>1 DEF GroupOf
  <2>4. g \in [data : [Slot -> SUBSET Mine(wired, p.key)], parity : SUBSET Mine(wired, p.key),
               age : Nat]
    <3>1. NewGroup \in [data : [Slot -> SUBSET Mine(wired, p.key)],
                        parity : SUBSET Mine(wired, p.key), age : Nat]
      BY DEF NewGroup
    <3> QED
      BY <3>1 DEF GroupOf, LinkInv, DecoderInv, SoundGroup
  <2> HIDE DEF g
  <2>5. Genuine(wired, p.key, Added(g, p))
    <3>1. CASE p.type = "DATA"
      <4>1. Added(g, p) = [g EXCEPT !.data = [g.data EXCEPT ![p.group_seq] = p.payload]]
        BY <3>1 DEF Added
      <4>2. /\ Added(g, p).data = [g.data EXCEPT ![p.group_seq] = p.payload]
            /\ Added(g, p).parity = g.parity
        BY <2>4, <4>1
      <4>3. p \in DataOf(wired, p.key)
        BY <2>2, <3>1 DEF DataOf
      <4>4. ASSUME NEW i \in Slot, Added(g, p).data[i] # {}
            PROVE  \E q \in DataOf(wired, p.key) :
                     q.group_seq = i /\ q.payload = Added(g, p).data[i]
        <5>1. CASE i = p.group_seq
          BY <2>4, <4>2, <4>3, <5>1
        <5>2. CASE i # p.group_seq
          <6>1. Added(g, p).data[i] = g.data[i]
            BY <2>4, <4>2, <5>2
          <6> QED
            BY <2>3, <4>4, <6>1 DEF Genuine
        <5> QED
          BY <5>1, <5>2
      <4> QED
        BY <2>3, <4>2, <4>4 DEF Genuine
    <3>2. CASE p.type # "DATA"
      <4>1. Added(g, p) = [g EXCEPT !.parity = p.payload] /\ p.type = "PARITY"
        BY <2>2, <3>2 DEF Added, SoundPacket
      <4>2. Added(g, p).data = g.data /\ Added(g, p).parity = p.payload
        BY <2>4, <4>1
      <4> QED
        BY <2>2, <2>3, <4>1, <4>2 DEF Genuine
    <3> QED
      BY <3>1, <3>2
  <2>6. ASSUME NEW k \in DOMAIN A PROVE Genuine(wired, k, A[k])
    <3>1. CASE k = p.key
      BY <2>5, <3>1 DEF g
    <3>2. CASE k # p.key
      BY <3>2
    <3> QED
      BY <3>1, <3>2
  <2> QED
    BY <2>1, <2>6
<1> QED
  BY <1>1, <1>2

(* try_recover(): the parity less the payloads that are there is the        *)
(* payload of the one slot that is missing, as it was sent.                 *)
LEMMA RecoversWhatIsMissing ==
  ASSUME WireInv, FirstSender, NEW k \in Key, NEW g, Genuine(wired, k, g),
         NEW j \in Slot, Missing(g) = {j}, g.parity # {}
  PROVE  \E q \in DataOf(wired, k) : q.group_seq = j /\ q.payload = Recovered(g)
<1> DEFINE U == UNION {g.data[i] : i \in Slot}
<1>1. PICK r \in wired : r.type = "PARITY" /\ r.key = k /\ r.payload = g.parity
  BY DEF Genuine
<1>2. /\ \A i \in Slot : \E q \in DataOf(wired, k) : q.group_seq = i
      /\ g.parity = UNION {q.payload : q \in DataOf(wired, k)}
  BY <1>1 DEF FirstSender, Covers
<1>3. PICK q \in DataOf(wired, k) : q.group_seq = j
  BY <1>2
<1>4. \A x, y \in DataOf(wired, k) : x.group_seq = y.group_seq <=> x.payload = y.payload
  BY DEF FirstSender, OneEach
<1>5. \A x \in DataOf(wired, k) : x.group_seq \in Slot /\ \E m : x.payload = {m}
  BY DEF DataOf, WireInv, SoundPacket
<1>6. g.data[j] = {} /\ \A i \in Slot : i # j => g.data[i] # {}
  BY DEF Missing, Present
<1>7. ASSUME NEW i \in Slot, i # j
      PROVE  \E x \in DataOf(wired, k) : x.group_seq = i /\ x.payload = g.data[i]
  BY <1>6, <1>7 DEF Genuine
<1>8. U \subseteq g.parity
  BY <1>2, <1>6, <1>7
<1>9. q.payload \subseteq g.parity
  BY <1>2
<1>10. q.payload \cap U = {}
  <2> SUFFICES ASSUME NEW m \in q.payload, NEW i \in Slot, m \in g.data[i] PROVE FALSE
    OBVIOUS
  <2>1. i # j
    BY <1>6
  <2>2. PICK x \in DataOf(wired, k) : x.group_seq = i /\ x.payload = g.data[i]
    BY <1>7, <2>1
  <2>3. x.payload = q.payload
    BY <1>5, <2>2
  <2> QED
    BY <1>3, <1>4, <2>1, <2>2, <2>3
<1>11. ASSUME NEW m \in g.parity, m \notin q.payload PROVE m \in U
  <2>1. PICK x \in DataOf(wired, k) : m \in x.payload
    BY <1>2
  <2>2. x.payload # q.payload
    BY <1>11, <2>1
  <2>3. x.group_seq \in Slot /\ x.group_seq # j
    BY <1>3, <1>4, <1>5, <2>2
  <2>4. PICK y \in DataOf(wired, k) : y.group_seq = x.group_seq /\ y.payload = g.data[x.group_seq]
    BY <1>7, <2>3
  <2>5. y.payload = x.payload
    BY <1>4, <2>4
  <2> QED
    BY <2>1, <2>3, <2>4, <2>5
<1>12. Recovered(g) = (g.parity \ U) \cup (U \ g.parity)
  BY DEF Recovered, Xor
<1> HIDE DEF U
<1>13. Recovered(g) = q.payload
  BY <1>8, <1>9, <1>10, <1>11, <1>12
<1> QED
  BY <1>3, <1>13

(* Whatever a group delivers was sent in one of its slots.                  *)
LEMMA DeliversWhatWasSent ==
  ASSUME WireInv, FirstSender, NEW k \in Key, NEW g, Genuine(wired, k, g),
         NEW x \in Delivered(g)
  PROVE  \E q \in DataOf(wired, k) : q.payload = x
<1>1. CASE x \in {g.data[i] : i \in Present(g)}
  BY <1>1 DEF Present, Genuine
<1>2. CASE Recoverable(g) /\ x = Recovered(g)
  BY <1>2, RecoversWhatIsMissing DEF Recoverable
<1> QED
  BY <1>1, <1>2 DEF Delivered

(* A recovery in the first run is a payload that was sent: poll() never     *)
(* raises.                                                                  *)
LEMMA NeverDies ==
  ASSUME LinkInv, FirstRun, run = 1, NEW p \in wired
  PROVE  ~PollRaises(p)
<1> SUFFICES ASSUME NEW k \in DOMAIN Absorbed(p), Garbled(Absorbed(p)[k]) PROVE FALSE
  BY DEF PollRaises, Closing
<1> DEFINE g == Absorbed(p)[k]
<1>1. k \in Key /\ Genuine(wired, k, g)
  BY AbsorbedSound, AbsorbedGenuine DEF FirstRun
<1>2. g.parity # {} /\ \E i \in Slot : Missing(g) = {i}
  BY DEF Garbled, Recoverable
<1>3. PICK q \in DataOf(wired, k) : q.payload = Recovered(g)
  <2>1. WireInv /\ FirstSender
    BY DEF LinkInv, FirstRun
  <2> HIDE DEF g
  <2> QED
    BY <1>1, <1>2, <2>1, RecoversWhatIsMissing
<1>4. \E m : q.payload = {m}
  BY DEF LinkInv, WireInv, SoundPacket, DataOf
<1>5. Cardinality(Recovered(g)) = 1
  BY <1>3, <1>4, FS_Singleton
<1> QED
  BY <1>5 DEF Garbled

(* poll() in the first run: what it takes in and what it returns was sent.  *)
LEMMA FirstSweepStep ==
  ASSUME TypeOK, LinkInv, FirstRun, NEW p, p = NoPacket \/ p \in wired, Poll(p),
         received' = received \cup out',
         UNCHANGED <<encoder, run, seq, wired>>
  PROVE  FirstRun'
<1> SUFFICES ASSUME run = 1
             PROVE  /\ FirstSender'
                    /\ \A k \in DOMAIN groups' : Genuine(wired', k, groups'[k])
                    /\ received' \subseteq Sent'
  BY DEF FirstRun
<1> DEFINE A == Absorbed(p)
           closed == Closing(A)
<1>1. /\ FirstSender /\ received \subseteq Sent
      /\ \A k \in DOMAIN groups : Genuine(wired, k, groups[k])
  BY DEF FirstRun
<1>2. FirstSender' /\ Sent' = Sent
  BY <1>1 DEF FirstSender, Rounds, OpenGroup, OneEach, encoder, Sent
<1>3. \A k \in DOMAIN A : k \in Key /\ Genuine(wired, k, A[k])
  BY <1>1, AbsorbedGenuine, AbsorbedSound
<1>4. /\ out' = UNION {Delivered(A[k]) : k \in closed}
      /\ groups' = [k \in DOMAIN A \ closed |-> A[k]]
      /\ closed \subseteq DOMAIN A
  BY DEF Poll, Sweep, Closes, Closing
<1> HIDE DEF A, closed
<1>5. \A k \in DOMAIN groups' : Genuine(wired', k, groups'[k])
  BY <1>3, <1>4
<1>6. ASSUME NEW x \in out' PROVE x \in Sent
  <2>1. PICK k \in closed : x \in Delivered(A[k])
    BY <1>4
  <2>2. PICK q \in DataOf(wired, k) : q.payload = x
    BY <1>1, <1>3, <1>4, <2>1, DeliversWhatWasSent DEF LinkInv
  <2> QED
    BY <2>2 DEF DataOf, Sent
<1> QED
  BY <1>1, <1>2, <1>5, <1>6

(* Every step keeps the first run genuine.                                  *)
LEMMA FirstRunNext ==
  ASSUME NeverWraps, TypeOK, LinkInv, FirstRun, [Next]_vars
  PROVE  FirstRun'
<1>1. ASSUME FirstSender', wired \subseteq wired', UNCHANGED <<run, groups, received>>
      PROVE  FirstRun'
  <2> SUFFICES ASSUME run = 1
               PROVE  /\ FirstSender'
                      /\ \A k \in DOMAIN groups' : Genuine(wired', k, groups'[k])
                      /\ received' \subseteq Sent'
    BY <1>1 DEF FirstRun
  <2>1. \A k \in DOMAIN groups' : Genuine(wired', k, groups'[k])
    BY <1>1, GenuineLater DEF FirstRun
  <2>2. Sent \subseteq Sent'
    BY <1>1 DEF Sent
  <2> QED
    BY <1>1, <2>1, <2>2 DEF FirstRun
<1>2. CASE run # 1 /\ run' = run
  BY <1>2 DEF FirstRun
<1>3. CASE SendNext
  <2>1. UNCHANGED <<run, groups, received>>
    BY <1>3 DEF SendNext, Transmit, DecoderIdle
  <2> QED
    BY <1>1, <1>2, <1>3, <2>1, FirstSendStep DEF FirstRun
<1>4. CASE StopSender
  <2>1. UNCHANGED <<run, groups, received>>
    BY <1>4 DEF StopSender, Transmit, DecoderIdle
  <2> QED
    BY <1>1, <1>2, <1>4, <2>1, FirstStopStep DEF FirstRun
<1>5. CASE RestartSender
  <2>1. run' = run + 1 /\ run \in Nat \ {0}
    BY <1>5, WorldTyped DEF RestartSender, TypeOK
  <2> QED
    BY <2>1 DEF FirstRun
<1>6. ASSUME UNCHANGED <<encoder, run, seq, wired, received>>,
             \A k \in DOMAIN groups' :
               run = 1 => Genuine(wired, k, groups'[k])
      PROVE  FirstRun'
  <2>1. FirstSender' <=> FirstSender
    BY <1>6 DEF FirstSender, Rounds, OpenGroup, OneEach, encoder
  <2> QED
    BY <1>6, <2>1 DEF FirstRun, Sent
<1>7. CASE Tick
  <2>1. UNCHANGED <<encoder, run, seq, wired, received>> /\ groups' = Aged
    BY <1>7 DEF Tick
  <2>2. ASSUME NEW k \in DOMAIN groups', run = 1 PROVE Genuine(wired, k, groups'[k])
    <3>1. k \in DOMAIN groups /\ Genuine(wired, k, groups[k])
      BY <2>1, <2>2 DEF Aged, FirstRun
    <3>2. groups[k] \in GroupRecord
      BY <3>1 DEF TypeOK, DecoderTypeOK
    <3>3. groups'[k] = [groups[k] EXCEPT !.age = IF groups[k].age > LongestWait
                          THEN groups[k].age ELSE groups[k].age + 1]
      BY <2>1, <3>1 DEF Aged
    <3>4. groups'[k].data = groups[k].data /\ groups'[k].parity = groups[k].parity
      BY <3>2, <3>3 DEF GroupRecord
    <3> QED
      BY <3>1, <3>4 DEF Genuine
  <2> QED
    BY <1>6, <2>1, <2>2
<1>8. ASSUME NEW f \in flight, Lose(f) PROVE FirstRun'
  <2>1. UNCHANGED <<encoder, run, seq, wired, received, groups>>
    BY <1>8 DEF Lose, DecoderIdle, sender
  <2> QED
    BY <1>6, <2>1 DEF FirstRun
<1>9. ASSUME NEW f \in flight, Receive(f) PROVE FirstRun'
  <2>1. f.pkt \in wired /\ Poll(f.pkt) /\ received' = received \cup out'
        /\ UNCHANGED <<encoder, run, seq, wired>>
    BY <1>9 DEF Receive, sender, LinkInv, WireInv
  <2> QED
    BY <2>1, FirstSweepStep
<1>10. ASSUME NEW f \in flight, ReceiveDies(f) PROVE FirstRun'
  <2>1. f.pkt \in wired /\ UNCHANGED <<encoder, run, seq, wired, received>>
        /\ \A k \in DOMAIN groups' :
             k \in DOMAIN Absorbed(f.pkt) /\ groups'[k] = Absorbed(f.pkt)[k]
    BY <1>10 DEF ReceiveDies, PollRaises, Closes, sender, LinkInv, WireInv
  <2> QED
    BY <1>6, <2>1, AbsorbedGenuine DEF FirstRun
<1>11. CASE ReceiveNothing
  <2>1. Poll(NoPacket) /\ received' = received \cup out' /\ UNCHANGED <<encoder, run, seq, wired>>
    BY <1>11 DEF ReceiveNothing, sender, network
  <2> QED
    BY <2>1, FirstSweepStep
<1>12. CASE UNCHANGED vars
  <2>1. UNCHANGED <<encoder, run, seq, wired, received, groups>>
    BY <1>12 DEF vars, sender, network, decoder
  <2> QED
    BY <1>6, <2>1 DEF FirstRun
<1> QED
  BY <1>3, <1>4, <1>5, <1>7, <1>8, <1>9, <1>10, <1>11, <1>12 DEF Next

(* At first nothing is sent, and the lanes are at their first group.        *)
LEMMA FirstRunInit == Init => FirstRun
<1> SUFFICES ASSUME Init PROVE FirstRun
  OBVIOUS
<1>1. /\ wired = {} /\ received = {} /\ seq = 0 /\ groups = << >>
      /\ next_lane = 0 /\ lanes = EmptyLanes /\ pending_parity = <<>>
  BY DEF Init, EncoderInit, DecoderInit
<1>2. \A l \in Lane : lanes[l].group_index = 0 /\ lanes[l].pending = <<>>
                      /\ Len(lanes[l].pending) = 0
  BY <1>1 DEF EmptyLanes
<1>3. NLanes \in Nat \ {0} /\ GroupSize \in Nat \ {0}
  BY Sizes
<1>4. Rounds
  <2>1. 0 \in 0..seq /\ seq = 0 * NLanes + next_lane
    BY <1>1, <1>3
  <2>2. \A l \in Lane : 0 * GroupSize + 0 = IF l < next_lane THEN 0 + 1 ELSE 0
    BY <1>1, <1>3 DEF Lane
  <2> QED
    BY <1>2, <2>1, <2>2 DEF Rounds
<1>5. OneEach(wired) /\ \A l \in Lane : OpenGroup(l)
  BY <1>1, <1>2 DEF OneEach, OpenGroup, DataOf
<1>6. PacketsOf(pending_parity) = {}
  BY <1>1 DEF PacketsOf
<1> QED
  BY <1>1, <1>4, <1>5, <1>6 DEF FirstRun, FirstSender

(* Until the sender is restarted the receiver hands over only payloads that *)
(* were sent, whatever subset of a group's packets arrives, in any order    *)
(* and however often.                                                       *)
THEOREM InventsNothing == ASSUME NeverWraps PROVE Spec => []NothingInvented
<1>1. LinkInv /\ [Next]_vars => LinkInv'
  BY LinkNext
<1>2. TypeOK /\ LinkInv /\ FirstRun /\ [Next]_vars => FirstRun'
  BY FirstRunNext
<1>3. FirstRun => NothingInvented
  BY DEF FirstRun, NothingInvented
<1> QED
  BY <1>1, <1>2, <1>3, LinkInit, FirstRunInit, LinkTyped, PTL DEF Spec
-----------------------------------------------------------------------------
(* A sweep counts each payload it returns once: there is one for every slot *)
(* that holds one, and one for every group it recovers, and no two of them  *)
(* are equal.                                                               *)
LEMMA CountsEachOnce ==
  ASSUME WireInv, FirstSender, NEW A, NEW closed \in SUBSET Key, closed \subseteq DOMAIN A,
         \A k \in closed : Genuine(wired, k, A[k])
  PROVE  Cardinality(UNION {Delivered(A[k]) : k \in closed}) =
           Cardinality(SlotsOf(A, closed)) + Cardinality({k \in closed : Recoverable(A[k])})
<1> DEFINE O == UNION {Delivered(A[k]) : k \in closed}
           R == {k \in closed : Recoverable(A[k])}
           H == SlotsOf(A, closed)
           M == {s \in R \X Slot : Missing(A[s[1]]) = {s[2]}}
           hole == [k \in R |-> <<k, CHOOSE i \in Slot : Missing(A[k]) = {i}>>]
           value == [s \in H \cup M |-> IF s \in H THEN A[s[1]].data[s[2]]
                                                   ELSE Recovered(A[s[1]])]
<1>1. /\ H \subseteq Key \X Slot /\ M \subseteq Key \X Slot /\ R \subseteq Key
      /\ \A s \in H : s[1] \in closed /\ s[2] \in Slot /\ A[s[1]].data[s[2]] # {}
      /\ \A s \in M : s[1] \in R /\ s[2] \in Slot /\ Missing(A[s[1]]) = {s[2]}
      /\ \A s \in M : A[s[1]].data[s[2]] = {}
  BY DEF SlotsOf, Missing, Present
<1>2. /\ IsFiniteSet(H) /\ IsFiniteSet(M) /\ IsFiniteSet(R)
      /\ Cardinality(H) \in Nat /\ Cardinality(M) \in Nat /\ Cardinality(R) \in Nat
  <2> HIDE DEF H, M, R
  <2> QED
    BY <1>1, Countable
<1>3. Cardinality(R) = Cardinality(M)
  <2>1. ASSUME NEW k \in R
        PROVE  hole[k] \in M /\ hole[k][1] = k
    <3>1. \E i \in Slot : Missing(A[k]) = {i}
      BY DEF Recoverable
    <3>2. PICK i \in Slot : hole[k] = <<k, i>> /\ Missing(A[k]) = {i}
      BY <3>1
    <3> QED
      BY <3>2
  <2>2. ASSUME NEW s \in M PROVE \E k \in R : hole[k] = s
    <3>1. s = <<s[1], s[2]>> /\ s[1] \in R /\ s[2] \in Slot /\ Missing(A[s[1]]) = {s[2]}
      BY <1>1
    <3>2. PICK i \in Slot : hole[s[1]] = <<s[1], i>> /\ Missing(A[s[1]]) = {i}
      BY <3>1
    <3>3. i = s[2]
      BY <3>1, <3>2
    <3> QED
      BY <3>1, <3>2, <3>3
  <2>3. hole \in [R -> M]
    BY <2>1
  <2> HIDE DEF hole, M, R
  <2>4. \A k, j \in R : hole[k] = hole[j] => k = j
    BY <2>1
  <2>5. hole \in Injection(R, M) /\ hole \in Surjection(R, M)
    BY <2>2, <2>3, <2>4 DEF Injection, IsInjective, Surjection
  <2>6. hole \in Bijection(R, M)
    BY <2>5 DEF Bijection
  <2> QED
    BY <1>2, <2>6, FS_Bijection DEF ExistsBijection
<1>4. ASSUME NEW s \in H \cup M
      PROVE  \E q \in DataOf(wired, s[1]) : q.group_seq = s[2] /\ q.payload = value[s]
  <2>1. CASE s \in H
    <3>1. value[s] = A[s[1]].data[s[2]]
      BY <2>1
    <3> QED
      BY <1>1, <2>1, <3>1 DEF Genuine
  <2>2. CASE s \in M
    <3>1. value[s] = Recovered(A[s[1]])
      BY <1>1, <2>2
    <3>2. s[1] \in Key /\ s[1] \in closed /\ Recoverable(A[s[1]])
      BY <1>1, <2>2
    <3>3. Genuine(wired, s[1], A[s[1]]) /\ A[s[1]].parity # {}
      BY <3>2 DEF Recoverable
    <3>4. \E q \in DataOf(wired, s[1]) : q.group_seq = s[2] /\ q.payload = Recovered(A[s[1]])
      BY <1>1, <2>2, <3>2, <3>3, RecoversWhatIsMissing
    <3> QED
      BY <3>1, <3>4
  <2> QED
    BY <2>1, <2>2
<1>5. ASSUME NEW s \in H \cup M, NEW t \in H \cup M, value[s] = value[t] PROVE s = t
  <2>1. /\ s \in Key \X Slot /\ t \in Key \X Slot
        /\ s = <<s[1], s[2]>> /\ t = <<t[1], t[2]>> /\ s[1] \in Key /\ t[1] \in Key
    BY <1>1
  <2>2. PICK p \in DataOf(wired, s[1]) : p.group_seq = s[2] /\ p.payload = value[s]
    BY <1>4
  <2>3. PICK q \in DataOf(wired, t[1]) : q.group_seq = t[2] /\ q.payload = value[t]
    BY <1>4
  <2>4. p \in wired /\ p.key = s[1] /\ p.payload # {} /\ q \in wired /\ q.key = t[1]
    <3>1. p \in wired /\ p.key = s[1] /\ p.type = "DATA" /\ q \in wired /\ q.key = t[1]
      BY DEF DataOf
    <3> QED
      BY <3>1 DEF WireInv, SoundPacket
  <2>5. p.payload \subseteq Mine(wired, s[1]) /\ p.payload \subseteq Mine(wired, t[1])
    <3>1. p.payload \subseteq Mine(wired, p.key) /\ q.payload \subseteq Mine(wired, q.key)
      BY <2>4, MineHas
    <3> QED
      BY <1>5, <2>2, <2>3, <2>4, <3>1
  <2>6. s[1] = t[1]
    BY <2>1, <2>4, <2>5 DEF WireInv, KeysDisjoint
  <2>7. s[2] = t[2]
    BY <1>5, <2>1, <2>2, <2>3, <2>6 DEF FirstSender, OneEach
  <2> QED
    BY <2>1, <2>6, <2>7
<1>6. ASSUME NEW s \in H \cup M PROVE value[s] \in O
  <2>1. CASE s \in H
    <3>1. value[s] = A[s[1]].data[s[2]] /\ s[2] \in Present(A[s[1]]) /\ s[1] \in closed
      BY <1>1, <2>1 DEF Present
    <3>2. value[s] \in Delivered(A[s[1]])
      BY <3>1 DEF Delivered
    <3> QED
      BY <3>1, <3>2
  <2>2. CASE s \in M
    <3>1. value[s] = Recovered(A[s[1]]) /\ s[1] \in closed /\ Recoverable(A[s[1]])
      BY <1>1, <2>2
    <3>2. value[s] \in Delivered(A[s[1]])
      BY <3>1 DEF Delivered
    <3> QED
      BY <3>1, <3>2
  <2> QED
    BY <2>1, <2>2
<1>7. ASSUME NEW x \in O PROVE \E s \in H \cup M : value[s] = x
  <2>1. PICK k \in closed : x \in Delivered(A[k])
    OBVIOUS
  <2>2. CASE x \in {A[k].data[i] : i \in Present(A[k])}
    <3>1. PICK i \in Present(A[k]) : x = A[k].data[i]
      BY <2>2
    <3>2. <<k, i>> \in H
      BY <3>1 DEF Present, SlotsOf
    <3> QED
      BY <3>1, <3>2
  <2>3. CASE Recoverable(A[k]) /\ x = Recovered(A[k])
    <3>1. PICK i \in Slot : Missing(A[k]) = {i}
      BY <2>3 DEF Recoverable
    <3>2. <<k, i>> \in M
      BY <2>3, <3>1
    <3>3. <<k, i>> \notin H
      BY <1>1, <3>2
    <3> QED
      BY <2>3, <3>2, <3>3
  <2> QED
    BY <2>1, <2>2, <2>3 DEF Delivered
<1>8. IsFiniteSet(H \cup M) /\ Cardinality(H \cup M) = Cardinality(H) + Cardinality(M)
  <2>1. H \cap M = {}
    BY <1>1
  <2> HIDE DEF H, M
  <2>2. Cardinality(H \cap M) = 0
    BY <2>1, FS_EmptySet
  <2>3. /\ IsFiniteSet(H \cup M)
        /\ Cardinality(H \cup M) = Cardinality(H) + Cardinality(M) - Cardinality(H \cap M)
    BY <1>2, FS_Union
  <2> QED
    BY <1>2, <2>2, <2>3
<1>9. value \in [H \cup M -> O]
  BY <1>6
<1> HIDE DEF O, H, M, R, value
<1>10. value \in Bijection(H \cup M, O)
  <2>1. value \in Injection(H \cup M, O)
    BY <1>5, <1>9 DEF Injection, IsInjective
  <2>2. value \in Surjection(H \cup M, O)
    BY <1>7, <1>9 DEF Surjection
  <2> QED
    BY <2>1, <2>2 DEF Bijection
<1>11. Cardinality(O) = Cardinality(H \cup M)
  BY <1>8, <1>10, FS_Bijection DEF ExistsBijection
<1>12. Cardinality(O) = Cardinality(H) + Cardinality(R)
  BY <1>3, <1>8, <1>11
<1> QED
  BY <1>12 DEF O, H, R

(* A call of poll() hands over payloads that were sent and not handed over  *)
(* before, and the statistics grow by their number.                         *)
LEMMA PollHandsOver ==
  ASSUME TypeOK, LinkInv, FirstRun, run = 1, NEW p, p = NoPacket \/ p \in wired, Poll(p),
         received' = received \cup out', UNCHANGED <<encoder, run, seq, wired>>
  PROVE  /\ out' \in SUBSET (Sent \ received)
         /\ stats'.delivered + stats'.recovered =
              (stats.delivered + stats.recovered) + Cardinality(out')
<1> DEFINE A == Absorbed(p)
           closed == Closing(A)
           R == {k \in closed : Recoverable(A[k])}
<1>1. out' \cap received = {}
  BY SweepStep
<1>2. out' \subseteq Sent
  <2>1. FirstRun' /\ run' = 1
    BY FirstSweepStep
  <2> QED
    BY <2>1 DEF FirstRun, Sent
<1>3. WireInv /\ FirstSender /\ \A k \in DOMAIN A : k \in Key /\ Genuine(wired, k, A[k])
  BY AbsorbedGenuine, AbsorbedSound DEF FirstRun, LinkInv
<1>4. closed \subseteq DOMAIN A
  BY DEF Closing
<1>5. /\ out' = UNION {Delivered(A[k]) : k \in closed}
      /\ stats'.delivered = stats.delivered + Cardinality(SlotsOf(A, closed))
      /\ stats'.recovered = stats.recovered + Cardinality(R)
  BY DEF Poll, Sweep, Closes, Counted
<1> HIDE DEF A, closed
<1>6. Cardinality(out') = Cardinality(SlotsOf(A, closed)) + Cardinality(R)
  <2>1. closed \in SUBSET Key /\ \A k \in closed : Genuine(wired, k, A[k])
    BY <1>3, <1>4
  <2> QED
    BY <1>3, <1>4, <1>5, <2>1, CountsEachOnce
<1>7. Cardinality(SlotsOf(A, closed)) \in Nat /\ Cardinality(R) \in Nat
  <2>1. SlotsOf(A, closed) \subseteq Key \X Slot /\ R \subseteq Key
    BY <1>3, <1>4 DEF SlotsOf
  <2> HIDE DEF R
  <2> QED
    BY <2>1, Countable
<1>8. stats.delivered \in Nat /\ stats.recovered \in Nat
  BY DEF TypeOK, DecoderTypeOK
<1> HIDE DEF R
<1> QED
  BY <1>1, <1>2, <1>5, <1>6, <1>7, <1>8

(* Every step of the link is a step of the feed, or none that it sees.      *)
LEMMA FeedNext ==
  ASSUME NeverWraps, TypeOK, LinkInv, FirstRun, [Next]_vars
  PROVE  [Feed!Next]_(Feed!feed)
<1>1. world.runs \in Nat \ {0} /\ run \in 1..world.runs
  BY WorldTyped DEF TypeOK
<1>2. ASSUME UNCHANGED <<world, wired, received, stats>> PROVE UNCHANGED Feed!feed
  BY <1>2 DEF Feed!feed, Sent
<1>3. CASE SendNext
  <2> DEFINE m == [run |-> run, seq |-> seq]
             Q == PacketsOf(pending_parity)
             d == DataFor(m)
  <2>1. UNCHANGED <<world, received, stats>>
    BY <1>3 DEF SendNext, Transmit, DecoderIdle
  <2>2. wired' = (wired \cup Q) \cup {d}
    BY <1>3, SendWires
  <2>3. \A q \in Q : q.type # "DATA"
    <3>1. "PARITY" # "DATA"
      OBVIOUS
    <3> QED
      BY <3>1, ParityWaits
  <2>4. d.type = "DATA" /\ d.payload = {m}
    BY DEF DataFor, DataPacket
  <2>5. {m} \notin Sent
    <3> SUFFICES ASSUME NEW q \in wired, q.payload = {m} PROVE FALSE
      BY DEF Sent
    <3>1. q.key \in Key /\ m \in Mine(wired, q.key)
      BY MineHas DEF LinkInv, WireInv, SoundPacket
    <3>2. m.run = run /\ m.seq = seq /\ run \in Nat /\ seq \in Nat
      BY DEF LinkInv, WireInv
    <3>3. m.run < run \/ (m.run = run /\ m.seq < seq)
      BY <3>1 DEF LinkInv, WireInv
    <3> QED
      BY <3>2, <3>3
  <2> HIDE DEF m, Q, d
  <2>6. Sent' = Sent \cup {{m}}
    BY <2>2, <2>3, <2>4 DEF Sent
  <2>7. Feed!Send
    BY <2>1, <2>5, <2>6 DEF Feed!Send
  <2> QED
    BY <2>7 DEF Feed!Next
<1>4. CASE StopSender
  <2>1. UNCHANGED <<world, received, stats>>
    BY <1>4 DEF StopSender, Transmit, DecoderIdle
  <2>2. wired' = wired \cup PacketsOf(pending_parity)
    BY <1>4, StopWires
  <2>3. \A q \in PacketsOf(pending_parity) : q.type # "DATA"
    <3>1. "PARITY" # "DATA"
      OBVIOUS
    <3> QED
      BY <3>1, ParityWaits
  <2>4. Sent' = Sent
    BY <2>2, <2>3 DEF Sent
  <2> QED
    BY <2>1, <2>4 DEF Feed!feed
<1>5. CASE RestartSender
  BY <1>2, <1>5 DEF RestartSender, DecoderIdle, network
<1>6. CASE Tick
  BY <1>2, <1>6 DEF Tick
<1>7. ASSUME NEW f \in flight, Lose(f) PROVE UNCHANGED Feed!feed
  BY <1>2, <1>7 DEF Lose, DecoderIdle
<1>8. ASSUME NEW f \in flight, ReceiveDies(f) PROVE UNCHANGED Feed!feed
  <2>1. PollRaises(f.pkt) /\ f.pkt \in wired /\ UNCHANGED <<world, wired, received>>
    BY <1>8 DEF ReceiveDies, LinkInv, WireInv
  <2>2. run # 1
    BY <2>1, NeverDies
  <2>3. world.runs # 1
    BY <1>1, <2>2
  <2> QED
    BY <2>1, <2>3 DEF Feed!feed, Sent
<1>9. ASSUME NEW p, p = NoPacket \/ p \in wired, Poll(p), received' = received \cup out',
             UNCHANGED <<world, encoder, run, seq, wired>>
      PROVE  Feed!Next \/ UNCHANGED Feed!feed
  <2>1. CASE world.runs = 1
    <3>1. run = 1
      BY <1>1, <2>1
    <3>2. /\ out' \in SUBSET (Sent \ received)
          /\ stats'.delivered + stats'.recovered =
               (stats.delivered + stats.recovered) + Cardinality(out')
      BY <1>9, <3>1, PollHandsOver
    <3>3. Sent' = Sent
      BY <1>9 DEF Sent
    <3>4. Feed!Cardinality(out') = Cardinality(out')
      BY DEF Feed!Cardinality, Cardinality
    <3>5. Feed!HandOver(out')
      BY <1>9, <2>1, <3>2, <3>3, <3>4 DEF Feed!HandOver
    <3> QED
      BY <2>1, <3>2, <3>5 DEF Feed!Next
  <2>2. CASE world.runs # 1
    BY <1>9, <2>2 DEF Feed!feed, Sent
  <2> QED
    BY <2>1, <2>2
<1>10. ASSUME NEW f \in flight, Receive(f) PROVE Feed!Next \/ UNCHANGED Feed!feed
  <2>1. f.pkt \in wired /\ Poll(f.pkt) /\ received' = received \cup out'
        /\ UNCHANGED <<world, encoder, run, seq, wired>>
    BY <1>10 DEF Receive, sender, LinkInv, WireInv
  <2> QED
    BY <1>9, <2>1
<1>11. CASE ReceiveNothing
  <2>1. Poll(NoPacket) /\ received' = received \cup out'
        /\ UNCHANGED <<world, encoder, run, seq, wired>>
    BY <1>11 DEF ReceiveNothing, sender, network
  <2> QED
    BY <1>9, <2>1
<1>12. CASE UNCHANGED vars
  BY <1>2, <1>12 DEF vars, network, decoder
<1> QED
  BY <1>3, <1>4, <1>5, <1>6, <1>7, <1>8, <1>10, <1>11, <1>12 DEF Next

(* A link that starts is a feed that starts.                                *)
LEMMA FeedInit == Init => Feed!Init
<1> SUFFICES ASSUME Init PROVE Feed!Init
  OBVIOUS
<1>1. /\ wired = {} /\ received = {}
      /\ stats = [delivered |-> 0, recovered |-> 0, lost |-> 0]
  BY DEF Init, DecoderInit
<1>2. stats.delivered + stats.recovered = 0
  BY <1>1
<1> QED
  BY <1>1, <1>2 DEF Feed!Init, Sent

(* The link implements TelemetryFeed: what the receiver hands over was sent *)
(* and is handed over once, and its statistics count exactly that.          *)
THEOREM LinkImplementsFeed == ASSUME NeverWraps PROVE Spec => ImplementsFeed
<1>1. LinkInv /\ [Next]_vars => LinkInv'
  BY LinkNext
<1>2. TypeOK /\ LinkInv /\ FirstRun /\ [Next]_vars => FirstRun'
  BY FirstRunNext
<1>3. TypeOK /\ LinkInv /\ FirstRun /\ [Next]_vars => [Feed!Next]_(Feed!feed)
  BY FeedNext
<1> QED
  BY <1>1, <1>2, <1>3, LinkInit, FirstRunInit, FeedInit, LinkTyped, PTL
     DEF Spec, ImplementsFeed, Feed!Spec

-----------------------------------------------------------------------------
(* The packet is in the group. *)
Held(g, q) ==
  IF q.type = "DATA" THEN g.data[q.group_seq] = q.payload ELSE g.parity = q.payload

(* What poll() took from the socket is in its group, or in none that will   *)
(* ever be opened.                                                          *)
Arrivals ==
  /\ \A q \in arrived : q.key \in DOMAIN groups \/ q.key[2] <= high_water[q.key[1]]
  /\ \A q \in arrived : q.key \in DOMAIN groups => Held(groups[q.key], q)

(* add_data() and add_parity() change one field of a group.                 *)
LEMMA AddedFields ==
  ASSUME NEW g \in GroupRecord, NEW p \in Packet
  PROVE  /\ Added(g, p).age = g.age
         /\ p.type = "DATA" =>
              /\ Added(g, p).parity = g.parity
              /\ Added(g, p).data = [g.data EXCEPT ![p.group_seq] = p.payload]
         /\ p.type = "PARITY" =>
              Added(g, p).data = g.data /\ Added(g, p).parity = p.payload
         /\ Held(Added(g, p), p)
<1>1. g \in [data : [Slot -> SUBSET Message], parity : SUBSET Message,
             age : 0..LongestWait + 1]
  BY DEF GroupRecord
<1>2. p.type \in {"DATA", "PARITY"} /\ p.group_seq \in Slot
  BY DEF Packet
<1>3. CASE p.type = "DATA"
  <2>1. Added(g, p) = [g EXCEPT !.data = [g.data EXCEPT ![p.group_seq] = p.payload]]
    BY <1>3 DEF Added
  <2>2. /\ Added(g, p).age = g.age /\ Added(g, p).parity = g.parity
        /\ Added(g, p).data = [g.data EXCEPT ![p.group_seq] = p.payload]
    BY <1>1, <2>1
  <2>3. [g.data EXCEPT ![p.group_seq] = p.payload][p.group_seq] = p.payload
    BY <1>1, <1>2
  <2> QED
    BY <1>3, <2>2, <2>3 DEF Held
<1>4. CASE p.type = "PARITY"
  <2>1. Added(g, p) = [g EXCEPT !.parity = p.payload]
    BY <1>4 DEF Added
  <2>2. Added(g, p).age = g.age /\ Added(g, p).data = g.data /\ Added(g, p).parity = p.payload
    BY <1>1, <2>1
  <2> QED
    BY <1>4, <2>2 DEF Held
<1> QED
  BY <1>2, <1>3, <1>4

(* A group after a packet has been taken in is the group that was open, or  *)
(* the packet's.                                                            *)
LEMMA AbsorbedIs ==
  ASSUME TypeOK, NEW p, p = NoPacket \/ p \in wired, NEW k \in DOMAIN Absorbed(p)
  PROVE  \/ k \in DOMAIN groups /\ Absorbed(p)[k] = groups[k] /\ (p \in wired => p.key # k)
         \/ p \in wired /\ k = p.key /\ Absorbed(p)[k] = Added(GroupOf(k), p)
<1>1. NoPacket \notin wired
  <2>1. NoPacket.type = "NONE"
    BY DEF NoPacket
  <2>2. \A q \in wired : q.type \in {"DATA", "PARITY"}
    BY DEF TypeOK, Packet
  <2> QED
    BY <2>1, <2>2
<1>2. CASE p = NoPacket \/ Stale(p)
  BY <1>1, <1>2 DEF Absorbed, Stale
<1>3. CASE ~(p = NoPacket \/ Stale(p))
  <2> DEFINE A == [i \in DOMAIN groups \cup {p.key} |->
                     IF i = p.key THEN Added(GroupOf(i), p) ELSE groups[i]]
  <2>1. Absorbed(p) = A
    BY <1>3 DEF Absorbed
  <2>2. A[k] = IF k = p.key THEN Added(GroupOf(k), p) ELSE groups[k]
    BY <2>1
  <2>3. k \in DOMAIN groups \/ k = p.key
    BY <2>1
  <2> HIDE DEF A
  <2> QED
    BY <1>3, <2>1, <2>2, <2>3
<1> QED
  BY <1>2, <1>3

(* A group that has just been opened. *)
LEMMA NewGroupTyped == NewGroup \in GroupRecord /\ NewGroup.age = 0
<1>1. 0 \in 0..LongestWait + 1
  BY DecoderAssumption DEF LongestWait
<1>2. [i \in Slot |-> {}] \in [Slot -> SUBSET Message]
  OBVIOUS
<1> QED
  BY <1>1, <1>2 DEF NewGroup, GroupRecord

-----------------------------------------------------------------------------
(* What has arrived is in its group, as long as it is open.                 *)
LEMMA ArrivedIsHeld ==
  ASSUME TypeOK, LinkInv, FirstSender, Arrivals, NEW p, p = NoPacket \/ p \in wired,
         NEW q \in arrived \cup {p}, q \in wired, q.key \in DOMAIN Absorbed(p)
  PROVE  Held(Absorbed(p)[q.key], q)
<1> DEFINE k == q.key
           g == Absorbed(p)[k]
<1>1. q \in Packet /\ q.type \in {"DATA", "PARITY"} /\ q.group_seq \in Slot /\ k \in Key
  BY DEF TypeOK, Packet
<1>2. CASE p \in wired /\ k = p.key /\ g = Added(GroupOf(k), p)
  <2>1. p \in Packet /\ p.group_seq \in Slot /\ p.type \in {"DATA", "PARITY"}
    BY <1>2 DEF TypeOK, Packet
  <2>2. CASE q = p
    <3>1. GroupOf(k) \in GroupRecord
      BY NewGroupTyped DEF GroupOf, TypeOK, DecoderTypeOK
    <3> QED
      BY <1>2, <2>1, <2>2, <3>1, AddedFields
  <2>3. CASE q # p
    <3>1. q \in arrived
      BY <2>3
    <3>2. k \in DOMAIN groups
      <4>1. k \in DOMAIN groups \/ k[2] > high_water[k[1]]
        BY AbsorbedSound
      <4>2. k \in DOMAIN groups \/ k[2] <= high_water[k[1]]
        BY <3>1 DEF Arrivals
      <4>3. k[2] \in Int /\ high_water[k[1]] \in Int
        BY <1>1, Sizes DEF Key, Group, LinkInv, DecoderInv
      <4> QED
        BY <4>1, <4>2, <4>3
    <3> DEFINE h == groups[k]
    <3>3. Held(h, q) /\ h \in GroupRecord /\ h.data \in [Slot -> SUBSET Message]
      BY <3>1, <3>2 DEF Arrivals, TypeOK, DecoderTypeOK, GroupRecord
    <3>4. g = Added(h, p)
      BY <1>2, <3>2 DEF GroupOf
    <3> HIDE DEF h, g
    <3>5. CASE q.type = "DATA" /\ p.type = "DATA"
      <4>1. g.data = [h.data EXCEPT ![p.group_seq] = p.payload]
        BY <2>1, <3>3, <3>4, <3>5, AddedFields
      <4>2. h.data[q.group_seq] = q.payload
        BY <3>3, <3>5 DEF Held
      <4>3. q.group_seq = p.group_seq => q.payload = p.payload
        <5>1. p \in DataOf(wired, k) /\ q \in DataOf(wired, k)
          BY <1>2, <3>5 DEF DataOf
        <5> QED
          BY <1>1, <5>1 DEF FirstSender, OneEach
      <4>4. g.data[q.group_seq] = q.payload
        BY <1>1, <2>1, <3>3, <4>1, <4>2, <4>3
      <4> QED
        BY <3>5, <4>4 DEF Held, g
    <3>6. CASE q.type = "PARITY" /\ p.type = "PARITY"
      <4>1. g.parity = p.payload
        BY <2>1, <3>3, <3>4, <3>6, AddedFields
      <4>2. Covers(wired, p) /\ Covers(wired, q)
        BY <1>2, <3>6 DEF FirstSender
      <4>3. p.payload = q.payload
        BY <1>2, <4>2 DEF Covers
      <4> QED
        BY <3>6, <4>1, <4>3 DEF Held, g
    <3>7. CASE q.type = "DATA" /\ p.type = "PARITY"
      BY <2>1, <3>3, <3>4, <3>7, AddedFields DEF Held, g
    <3>8. CASE q.type = "PARITY" /\ p.type = "DATA"
      BY <2>1, <3>3, <3>4, <3>8, AddedFields DEF Held, g
    <3> QED
      BY <1>1, <2>1, <3>5, <3>6, <3>7, <3>8
  <2> QED
    BY <2>2, <2>3
<1>3. CASE k \in DOMAIN groups /\ g = groups[k] /\ (p \in wired => p.key # k)
  <2>1. q \in arrived
    BY <1>3
  <2> QED
    BY <1>3, <2>1 DEF Arrivals
<1> QED
  BY <1>2, <1>3, AbsorbedIs

(* Groups that are handed over as a whole.                                  *)
LEMMA CompleteIsDone ==
  ASSUME WireInv, FirstSender, NEW k \in Key, NEW g, Genuine(wired, k, g), Complete(g)
  PROVE  /\ \A i \in Slot : \E q \in DataOf(wired, k) : q.group_seq = i
         /\ \A q \in DataOf(wired, k) : q.payload \in Delivered(g)
<1>1. \A q \in DataOf(wired, k) : q.group_seq \in Slot
  BY DEF DataOf, WireInv, SoundPacket
<1>2. \A x, y \in DataOf(wired, k) : x.group_seq = y.group_seq => x.payload = y.payload
  BY DEF FirstSender, OneEach
<1>3. ASSUME NEW i \in Slot
      PROVE  \E q \in DataOf(wired, k) : q.group_seq = i /\ q.payload \in Delivered(g)
  <2>1. CASE i \in Present(g)
    <3>1. g.data[i] # {} /\ g.data[i] \in Delivered(g)
      BY <2>1 DEF Present, Delivered
    <3> QED
      BY <3>1 DEF Genuine
  <2>2. CASE i \notin Present(g)
    <3>1. i \in Missing(g)
      BY <2>2 DEF Missing
    <3>2. Recoverable(g)
      BY <3>1 DEF Complete, Whole
    <3>3. g.parity # {} /\ Missing(g) = {i}
      BY <3>1, <3>2 DEF Recoverable
    <3>4. Recovered(g) \in Delivered(g)
      BY <3>2 DEF Delivered
    <3> QED
      BY <3>3, <3>4, RecoversWhatIsMissing
  <2> QED
    BY <2>1, <2>2
<1> QED
  BY <1>1, <1>2, <1>3

(* A sweep throws nothing out of the groups that it leaves open.            *)
LEMMA SweepArrivals ==
  ASSUME TypeOK, LinkInv, FirstSender, Arrivals,
         NEW p, p = NoPacket \/ p \in wired, Poll(p),
         arrived' \subseteq (arrived \cup {p}) \cap wired, UNCHANGED wired
  PROVE  Arrivals'
<1> DEFINE A == Absorbed(p)
           closed == Closing(A)
<1>1. p = NoPacket \/ p \in wired
  OBVIOUS
<1>2. /\ DOMAIN groups \subseteq DOMAIN A
      /\ \A k \in DOMAIN A : k \in Key
  BY <1>1, AbsorbedSound
<1>3. /\ groups' = [k \in DOMAIN A \ closed |-> A[k]]
      /\ high_water' = HighWaterAfter(closed)
  BY DEF Poll, Sweep, Closes
<1>4. closed \subseteq DOMAIN A /\ closed \in SUBSET Key
  BY <1>2 DEF Closing
<1>5. FirstSender /\ DecoderInv
  BY DEF LinkInv
<1>6. /\ high_water' \in [Lane -> -1..GroupWrap - 1]
      /\ \A l \in Lane : high_water'[l] >= high_water[l]
      /\ \A k \in closed : k[2] <= high_water'[k[1]]
  BY <1>3, <1>4, <1>5, WatermarkRises DEF HighWaterAfter
<1>7. ASSUME NEW k \in Key PROVE k[1] \in Lane /\ k[2] \in Nat /\ high_water[k[1]] \in Int
                                /\ high_water'[k[1]] \in Int
  <2>1. k[1] \in Lane /\ k[2] \in Nat
    BY DEF Key, Group
  <2> QED
    BY <1>5, <1>6, <2>1, Sizes DEF DecoderInv
<1>8. ASSUME NEW k \in Key, k[2] <= high_water[k[1]] PROVE k[2] <= high_water'[k[1]]
  <2>1. high_water'[k[1]] >= high_water[k[1]]
    BY <1>6, <1>7
  <2> QED
    BY <1>7, <1>8, <2>1
<1> HIDE DEF A, closed
<1>9. ASSUME NEW q \in arrived'
      PROVE  /\ q.key \in DOMAIN groups' \/ q.key[2] <= high_water'[q.key[1]]
             /\ q.key \in DOMAIN groups' => Held(groups'[q.key], q)
  <2>1. q \in wired /\ q.key \in Key /\ q \in arrived \cup {p}
    BY DEF TypeOK, Packet
  <2>2. q.key \in DOMAIN A => Held(A[q.key], q)
    BY <1>1, <1>5, <2>1, ArrivedIsHeld DEF A
  <2>3. q.key \in DOMAIN A \/ q.key[2] <= high_water[q.key[1]]
    <3>1. CASE q \in arrived
      BY <1>2, <3>1 DEF Arrivals
    <3>2. CASE q = p
      <4>1. CASE Stale(p)
        BY <3>2, <4>1 DEF Stale
      <4>2. CASE ~Stale(p)
        <5>1. p # NoPacket
          BY <2>1, <3>2 DEF TypeOK, Packet, NoPacket
        <5> QED
          BY <3>2, <4>2, <5>1 DEF Absorbed, A
      <4> QED
        BY <4>1, <4>2
    <3> QED
      BY <2>1, <3>1, <3>2
  <2>4. CASE q.key \in DOMAIN A \ closed
    BY <1>3, <2>2, <2>4
  <2>5. CASE q.key \in closed
    BY <1>3, <1>6, <2>5
  <2>6. CASE q.key \notin DOMAIN A
    BY <1>3, <1>8, <2>1, <2>3, <2>6
  <2> QED
    BY <2>4, <2>5, <2>6
<1> QED
  BY <1>9 DEF Arrivals

(* Where no group is closed and no packet taken in, nothing changes.        *)
LEMMA ArrivalsLast ==
  ASSUME Arrivals, DOMAIN groups' = DOMAIN groups,
         \A k \in DOMAIN groups :
           groups'[k].data = groups[k].data /\ groups'[k].parity = groups[k].parity,
         UNCHANGED <<high_water, arrived>>
  PROVE  Arrivals'
BY DEF Arrivals, Held

(* GroupSize packets of a group are enough for all of it: each of them      *)
(* fills a slot, or stands for one.                                         *)
LEMMA EnoughIsComplete ==
  ASSUME TypeOK, LinkInv, FirstSender, NEW k \in Key, NEW g,
         NEW S \in SUBSET {q \in wired : q.key = k}, \A q \in S : Held(g, q),
         Cardinality(S) >= GroupSize
  PROVE  Complete(g)
<1> SUFFICES ASSUME ~Complete(g) PROVE FALSE
  OBVIOUS
<1>1. PICK i \in Slot : g.data[i] = {}
  BY DEF Complete, Whole, Missing, Present
<1>2. PICK j \in Slot : g.data[j] = {} /\ (g.parity # {} => j # i)
  <2>1. CASE g.parity = {}
    BY <1>1, <2>1
  <2>2. CASE g.parity # {}
    <3>1. i \in Missing(g) /\ Missing(g) # {i}
      BY <1>1, <2>2 DEF Complete, Recoverable, Missing, Present
    <3>2. PICK j \in Missing(g) : j # i
      BY <3>1
    <3> QED
      BY <3>2 DEF Missing, Present
  <2> QED
    BY <2>1, <2>2
<1>3. ASSUME NEW q \in S
      PROVE  /\ q \in Packet /\ q.key = k /\ q.payload # {} /\ q.group_seq \in Slot
             /\ q.type \in {"DATA", "PARITY"}
             /\ q.type = "DATA" => q.group_seq # i /\ q.group_seq # j
             /\ q.type = "PARITY" => g.parity # {}
  BY <1>1, <1>2 DEF Held, TypeOK, Packet
<1>4. ASSUME NEW q \in S, NEW r \in S, q.type = "DATA", r.type = "DATA",
             q.group_seq = r.group_seq
      PROVE  q = r
  <2>1. q \in DataOf(wired, k) /\ r \in DataOf(wired, k)
    BY <1>3, <1>4 DEF DataOf
  <2>2. q.payload = r.payload
    BY <1>4, <2>1 DEF FirstSender, OneEach
  <2> QED
    BY <1>3, <1>4, <2>2 DEF Packet
<1>5. ASSUME NEW q \in S, NEW r \in S, q.type = "PARITY", r.type = "PARITY" PROVE q = r
  <2>1. q \in wired /\ r \in wired /\ q.key = k /\ r.key = k
    OBVIOUS
  <2>2. q.payload = r.payload
    <3>1. Covers(wired, q) /\ Covers(wired, r)
      BY <1>5, <2>1 DEF FirstSender
    <3> QED
      BY <2>1, <3>1 DEF Covers
  <2>3. q.group_seq = 0 /\ r.group_seq = 0
    BY <1>5, <2>1 DEF LinkInv, WireInv, SoundPacket
  <2> QED
    BY <1>3, <1>5, <2>1, <2>2, <2>3 DEF Packet
<1> DEFINE f == [q \in S |-> IF q.type = "DATA" THEN q.group_seq ELSE j]
           T == Slot \ {i}
<1>6. f \in Injection(S, T)
  <2>1. ASSUME NEW q \in S PROVE f[q] \in T
    BY <1>2, <1>3
  <2>2. ASSUME NEW q \in S, NEW r \in S, f[q] = f[r] PROVE q = r
    <3>1. q.type = r.type
      BY <1>3, <2>2
    <3> QED
      BY <1>3, <1>4, <1>5, <2>2, <3>1
  <2> QED
    BY <2>1, <2>2 DEF Injection, IsInjective
<1>7. IsFiniteSet(T) /\ Cardinality(T) = GroupSize - 1
  <2>1. GroupSize \in Nat \ {0}
    BY Sizes
  <2>2. IsFiniteSet(Slot) /\ Cardinality(Slot) = GroupSize
    BY <2>1, FS_Interval DEF Slot
  <2> QED
    BY <2>1, <2>2, FS_RemoveElement
<1> HIDE DEF f, T
<1>8. Cardinality(S) <= Cardinality(T) /\ Cardinality(S) \in Nat
  <2>1. IsFiniteSet(S) /\ Cardinality(S) <= Cardinality(T)
    BY <1>6, <1>7, FS_Injection DEF ExistsInjection
  <2> QED
    BY <2>1, FS_CardinalityType
<1> QED
  BY <1>7, <1>8, Sizes

-----------------------------------------------------------------------------
(* In the first run, whatever the clocks do. *)
FirstArrivals == run = 1 => Arrivals

(* Every step keeps what has arrived in its group.                          *)
LEMMA ArrivalsNext ==
  ASSUME TypeOK, LinkInv, FirstRun, FirstArrivals, [Next]_vars
  PROVE  FirstArrivals'
<1>1. CASE RestartSender
  <2>1. run' = run + 1 /\ run \in Nat \ {0}
    BY <1>1, WorldTyped DEF RestartSender, TypeOK
  <2> QED
    BY <2>1 DEF FirstArrivals
<1>2. CASE ~RestartSender
  <2>1. run' = run
    BY <1>2 DEF Next, vars, SendNext, StopSender, Lose, Receive, ReceiveDies, ReceiveNothing,
                Tick, sender
  <2> SUFFICES ASSUME run = 1 PROVE Arrivals'
    BY <2>1 DEF FirstArrivals
  <2>2. Arrivals /\ FirstSender /\ arrived \subseteq wired
    BY DEF FirstArrivals, FirstRun, TypeOK
  <2>3. ASSUME UNCHANGED <<groups, high_water, arrived>> PROVE Arrivals'
    BY <2>2, <2>3 DEF Arrivals, Held
  <2>4. CASE SendNext
    BY <2>3, <2>4 DEF SendNext, Transmit, DecoderIdle
  <2>5. CASE StopSender
    BY <2>3, <2>5 DEF StopSender, Transmit, DecoderIdle
  <2>6. CASE Tick
    <3>1. groups' = Aged /\ UNCHANGED <<high_water, arrived>>
      BY <2>6 DEF Tick
    <3>2. DOMAIN groups' = DOMAIN groups
      BY <3>1 DEF Aged
    <3>3. ASSUME NEW k \in DOMAIN groups
          PROVE  groups'[k].data = groups[k].data /\ groups'[k].parity = groups[k].parity
      <4>1. groups[k] \in GroupRecord
        BY DEF TypeOK, DecoderTypeOK
      <4>2. groups'[k] = [groups[k] EXCEPT !.age = IF groups[k].age > LongestWait
                            THEN groups[k].age ELSE groups[k].age + 1]
        BY <3>1 DEF Aged
      <4> QED
        BY <4>1, <4>2 DEF GroupRecord
    <3> QED
      BY <2>2, <3>1, <3>2, <3>3, ArrivalsLast
  <2>7. ASSUME NEW f \in flight, Lose(f) PROVE Arrivals'
    BY <2>3, <2>7 DEF Lose, DecoderIdle
  <2>8. ASSUME NEW f \in flight, Receive(f) PROVE Arrivals'
    <3>1. /\ f.pkt \in wired /\ Poll(f.pkt) /\ UNCHANGED wired
          /\ arrived' = arrived \cup {f.pkt}
      BY <2>8 DEF Receive, LinkInv, WireInv
    <3> QED
      BY <2>2, <3>1, SweepArrivals
  <2>9. ASSUME NEW f \in flight, ReceiveDies(f) PROVE FALSE
    BY <2>9, NeverDies DEF ReceiveDies, LinkInv, WireInv
  <2>10. CASE ReceiveNothing
    <3>1. Poll(NoPacket) /\ UNCHANGED <<wired, arrived>>
      BY <2>10 DEF ReceiveNothing, network
    <3> QED
      BY <2>2, <3>1, SweepArrivals
  <2>11. CASE UNCHANGED vars
    BY <2>3, <2>11 DEF vars, decoder, network
  <2> QED
    BY <1>2, <2>4, <2>5, <2>6, <2>7, <2>8, <2>9, <2>10, <2>11 DEF Next
<1> QED
  BY <1>1, <1>2

(* The poll that closes a group of which GroupSize packets have arrived     *)
(* returns all of it.                                                       *)
LEMMA SweepReturnsAll ==
  ASSUME TypeOK, LinkInv, FirstSender, FirstRun, run = 1, Arrivals,
         NEW p, p = NoPacket \/ p \in wired, Poll(p),
         received' = received \cup out', arrived' \subseteq (arrived \cup {p}) \cap wired,
         NEW k \in DOMAIN groups \ DOMAIN groups',
         Cardinality({q \in arrived' : q.key = k}) >= GroupSize
  PROVE  \A q \in wired : q.key = k /\ q.type = "DATA" => q.payload \in received'
<1> DEFINE A == Absorbed(p)
           S == {q \in arrived' : q.key = k}
<1>1. /\ out' = UNION {Delivered(A[j]) : j \in Closing(A)}
      /\ groups' = [j \in DOMAIN A \ Closing(A) |-> A[j]]
  BY DEF Poll, Sweep, Closes
<1>2. /\ DOMAIN groups \subseteq DOMAIN A
      /\ \A j \in DOMAIN A : j \in Key /\ Genuine(wired, j, A[j])
  BY AbsorbedSound, AbsorbedGenuine DEF FirstRun
<1>3. k \in Closing(A) /\ k \in DOMAIN A /\ k \in Key /\ Genuine(wired, k, A[k])
  BY <1>1, <1>2
<1>4. ASSUME NEW q \in S PROVE q \in wired /\ q.key = k /\ Held(A[k], q)
  BY <1>3, ArrivedIsHeld
<1>5. S \in SUBSET {q \in wired : q.key = k}
  BY <1>4
<1> HIDE DEF A
<1>6. Complete(A[k])
  <2>1. Cardinality(S) >= GroupSize
    OBVIOUS
  <2> HIDE DEF S
  <2> QED
    BY <1>3, <1>4, <1>5, <2>1, EnoughIsComplete
<1>7. \A q \in DataOf(wired, k) : q.payload \in Delivered(A[k])
  BY <1>3, <1>6, CompleteIsDone DEF LinkInv
<1>8. Delivered(A[k]) \subseteq received'
  BY <1>1, <1>3
<1> QED
  BY <1>7, <1>8 DEF DataOf

(* No step but poll() closes a group.                                       *)
LEMMA ClosesOnlyShort ==
  ASSUME TypeOK, LinkInv, FirstRun, FirstArrivals, Next, run = 1,
         NEW k \in DOMAIN groups \ DOMAIN groups',
         Cardinality({q \in arrived' : q.key = k}) >= GroupSize
  PROVE  \A q \in wired : q.key = k /\ q.type = "DATA" => q.payload \in received'
<1>1. Arrivals /\ FirstSender /\ arrived \subseteq wired
  BY DEF FirstArrivals, FirstRun, TypeOK
<1>2. DOMAIN groups' # DOMAIN groups
  OBVIOUS
<1>3. CASE SendNext \/ StopSender \/ RestartSender \/ \E f \in flight : Lose(f)
  <2>1. groups' = groups
    BY <1>3 DEF SendNext, StopSender, RestartSender, Lose, Transmit, DecoderIdle
  <2> QED
    BY <1>2, <2>1
<1>4. CASE Tick
  BY <1>2, <1>4 DEF Tick, Aged
<1>5. ASSUME NEW f \in flight, Receive(f)
      PROVE  \A q \in wired : q.key = k /\ q.type = "DATA" => q.payload \in received'
  <2>1. /\ f.pkt \in wired /\ Poll(f.pkt) /\ received' = received \cup out'
        /\ arrived' = arrived \cup {f.pkt}
    BY <1>5 DEF Receive, LinkInv, WireInv
  <2> QED
    BY <1>1, <2>1, SweepReturnsAll
<1>6. ASSUME NEW f \in flight, ReceiveDies(f) PROVE FALSE
  BY <1>6, NeverDies DEF ReceiveDies, LinkInv, WireInv
<1>7. CASE ReceiveNothing
  <2>1. Poll(NoPacket) /\ received' = received \cup out' /\ UNCHANGED <<wired, arrived>>
    BY <1>7 DEF ReceiveNothing, network
  <2> QED
    BY <1>1, <2>1, SweepReturnsAll
<1> QED
  BY <1>3, <1>4, <1>5, <1>6, <1>7 DEF Next

(* However long the groups are waited for, and whatever is lost, repeated   *)
(* and reordered: a group that is given up with a message missing lacked    *)
(* two of its packets.                                                      *)
THEOREM GivesUpOnlyTwoShort == ASSUME NeverWraps PROVE Spec => GivenUpOnlyTwoShort
<1> DEFINE A == run = 1 => \A k \in DOMAIN groups \ DOMAIN groups' :
                  Cardinality({q \in arrived' : q.key = k}) >= GroupSize =>
                    \A q \in wired : q.key = k /\ q.type = "DATA" => q.payload \in received'
<1>1. LinkInv /\ [Next]_vars => LinkInv'
  BY LinkNext
<1>2. TypeOK /\ LinkInv /\ FirstRun /\ [Next]_vars => FirstRun'
  BY FirstRunNext
<1>3. TypeOK /\ LinkInv /\ FirstRun /\ FirstArrivals /\ [Next]_vars => FirstArrivals'
  BY ArrivalsNext
<1>4. TypeOK /\ LinkInv /\ FirstRun /\ FirstArrivals /\ [Next]_vars => [A]_vars
  BY ClosesOnlyShort
<1>5. Init => FirstArrivals
  BY DEF Init, FirstArrivals, Arrivals
<1> QED
  BY <1>1, <1>2, <1>3, <1>4, <1>5, LinkInit, FirstRunInit, LinkTyped, PTL
     DEF Spec, GivenUpOnlyTwoShort

-----------------------------------------------------------------------------
(* What a parity is for.  From the first packet of a group to its parity    *)
(* the sender takes Span; the receiver must wait as long and as a datagram  *)
(* may be late.  A group must have arrived before the next one of its lane  *)
(* is through, for its packets would be taken for stragglers.  With 3 lanes *)
(* of groups of 4 at 10 messages a second Span is the whole of              *)
(* GROUP_TIMEOUT_S, and InTime leaves a datagram no delay at all.           *)
Span == ((GroupSize - 1) * NLanes + 1) * Period

InTime ==
  /\ Span + MaxDelay <= GroupTimeout
  /\ MaxDelay < (GroupSize * NLanes - 1) * Period

(* The number of the first message of a group, and of the message that is   *)
(* sent with its parity.                                                    *)
First(k) == k[2] * GroupSize * NLanes + k[1]
ParityTurn(k) == First(k) + (GroupSize - 1) * NLanes + 1

HasParity(W, k) == \E q \in W : q.type = "PARITY" /\ q.key = k

(* Where the sender is: what it has sent, and what waits.                   *)
Turns ==
  /\ IsFiniteSet(wired)
  /\ \A p \in wired \cup PacketsOf(pending_parity) :
       First(p.key) + p.group_seq * NLanes < seq
  /\ \A p \in PacketsOf(pending_parity) : seq = ParityTurn(p.key) /\ p \notin wired
  /\ ~running => pending_parity = <<>>
  /\ \A k \in Key : k[2] < lanes[k[1]].group_index =>
       HasParity(wired \cup PacketsOf(pending_parity), k)
  /\ \A p \in wired : p.type = "DATA" => \A m \in p.payload : m.run = 1

(* No open group is older than what it waits for allows.                    *)
Clocks ==
  /\ due <= Period /\ listening
  /\ \A k \in DOMAIN groups :
       /\ First(k) < seq
       /\ running => groups[k].age + due <= (seq - First(k)) * Period
  /\ \A f \in flight : \A k \in DOMAIN groups :
       f.pkt.key[1] = k[1] /\ f.pkt.key[2] <= k[2] => groups[k].age <= f.age + Span
  /\ \A f \in flight : (seq - ParityTurn(f.pkt.key)) * Period <= f.age + due

(* How a group may end: all of it handed over, two of its packets lost, or  *)
(* the sender stopped before its parity.                                    *)
Done(k) ==
  /\ \A i \in Slot : \E q \in DataOf(wired, k) : q.group_seq = i
  /\ \A q \in DataOf(wired, k) : q.payload \in received
Dead(k) ==
  \E q, r \in LostPackets : q # r /\ q.key = k /\ r.key = k
Silent(k) == ~running /\ ~HasParity(wired, k)

Fates ==
  /\ Arrivals
  /\ \A k \in Key : Closed(groups, high_water, k) => Done(k) \/ Dead(k) \/ Silent(k)

Recovery == run = 1 /\ world.stall = 0 => Turns /\ Clocks /\ Fates

(* The parameters, once more, as numbers.                                   *)
LEMMA LinkNumbers ==
  /\ NLanes \in Nat \ {0} /\ GroupSize \in Nat \ {0} /\ GroupWrap \in Nat \ {0}
  /\ Period \in Nat \ {0} /\ MaxDelay \in Nat /\ GroupTimeout \in Nat
  /\ (GroupSize - 1) * NLanes \in Nat /\ GroupSize * NLanes \in Nat
  /\ (GroupSize - 1) * NLanes + 1 <= GroupSize * NLanes
  /\ Span \in Nat
<1>1. /\ NLanes \in Nat \ {0} /\ GroupSize \in Nat \ {0} /\ GroupWrap \in Nat \ {0}
      /\ Period \in Nat \ {0} /\ MaxDelay \in Nat /\ GroupTimeout \in Nat
  BY Sizes, LinkAssumption, DecoderAssumption
<1>2. GroupSize - 1 \in Nat /\ (GroupSize - 1) * NLanes \in Nat /\ GroupSize * NLanes \in Nat
  BY <1>1
<1>3. GroupSize * NLanes = (GroupSize - 1) * NLanes + NLanes
  BY <1>1
<1>4. (GroupSize - 1) * NLanes + 1 <= GroupSize * NLanes
  BY <1>1, <1>2, <1>3
<1>5. Span \in Nat
  BY <1>1, <1>2 DEF Span
<1> QED
  BY <1>1, <1>2, <1>4, <1>5

(* Numbers of messages are integers, and grow with the group of a lane.     *)
LEMMA FirstOrder ==
  ASSUME NEW k \in Key, NEW j \in Key
  PROVE  /\ First(k) \in Nat /\ ParityTurn(k) \in Nat
         /\ k[1] = j[1] /\ k[2] = j[2] => First(k) = First(j)
         /\ k[1] = j[1] /\ k[2] < j[2] => First(k) + GroupSize * NLanes <= First(j)
<1> DEFINE B == GroupSize * NLanes
<1>1. /\ k[1] \in Nat /\ k[2] \in Nat /\ j[1] \in Nat /\ j[2] \in Nat
      /\ B \in Nat /\ NLanes \in Nat /\ GroupSize \in Nat /\ (GroupSize - 1) * NLanes \in Nat
  BY LinkNumbers DEF Key, Lane, Group
<1>2. First(k) = k[2] * B + k[1] /\ First(j) = j[2] * B + j[1]
  BY <1>1 DEF First
<1> HIDE DEF B
<1>3. k[2] * B \in Nat /\ j[2] * B \in Nat
  BY <1>1
<1>4. First(k) \in Nat /\ ParityTurn(k) \in Nat
  BY <1>1, <1>2, <1>3 DEF ParityTurn
<1>5. ASSUME k[1] = j[1], k[2] < j[2] PROVE First(k) + B <= First(j)
  <2>1. (k[2] + 1) * B <= j[2] * B
    BY <1>1, <1>5, Times
  <2>2. (k[2] + 1) * B = k[2] * B + B
    BY <1>1
  <2> QED
    BY <1>1, <1>2, <1>3, <1>5, <2>1, <2>2
<1> QED
  BY <1>2, <1>4, <1>5 DEF B

(* The lane whose turn it is gets the next message of its group; no other   *)
(* lane's group has more to come than its own messages.                     *)
LEMMA WhoseTurn ==
  ASSUME TypeOK, Rounds, NEW l \in Lane,
         NEW k, k = <<l, lanes[l].group_index>>
  PROVE  /\ k \in Key /\ Len(lanes[l].pending) \in Nat
         /\ Len(lanes[l].pending) * NLanes \in Nat
         /\ l = next_lane => seq = First(k) + Len(lanes[l].pending) * NLanes
         /\ seq <= First(k) + Len(lanes[l].pending) * NLanes
         /\ Len(lanes[l].pending) * NLanes <= (GroupSize - 1) * NLanes
<1> DEFINE g == lanes[l].group_index
           n == Len(lanes[l].pending)
           B == GroupSize * NLanes
<1>1. /\ l \in Nat /\ l < NLanes /\ g \in Nat /\ n \in Nat /\ n < GroupSize /\ k \in Key
      /\ next_lane \in Nat /\ next_lane < NLanes /\ seq \in Nat
      /\ NLanes \in Nat /\ GroupSize \in Nat /\ GroupSize - 1 \in Nat /\ B \in Nat
  <2>1. /\ next_lane \in Lane /\ lanes[l] \in [group_index : Group, pending : Seq(Message)]
        /\ Len(lanes[l].pending) < GroupSize
    BY DEF TypeOK, EncoderTypeOK
  <2>2. n \in Nat /\ g \in Group
    BY <2>1
  <2>3. seq \in Nat
    BY WorldTyped DEF TypeOK
  <2> QED
    BY <2>1, <2>2, <2>3, LinkNumbers DEF Lane, Group, Key
<1>2. PICK q \in 0..seq : seq = q * NLanes + next_lane
                          /\ g * GroupSize + n = IF l < next_lane THEN q + 1 ELSE q
  BY DEF Rounds
<1>3. First(k) = g * B + l
  BY <1>1 DEF First
<1>4. (g * GroupSize + n) * NLanes = g * B + n * NLanes
  <2> DEFINE x == g * GroupSize
  <2> HIDE DEF g, n
  <2>1. x \in Int /\ x * NLanes = g * B
    BY <1>1
  <2> HIDE DEF x, B
  <2>2. x \in Int /\ n \in Int /\ NLanes \in Int
    BY <1>1, <2>1
  <2>3. (x + n) * NLanes = x * NLanes + n * NLanes
    BY <2>2
  <2> QED
    BY <2>1, <2>3 DEF x
<1>5. n * NLanes <= (GroupSize - 1) * NLanes
  <2> HIDE DEF n
  <2>1. n <= GroupSize - 1
    BY <1>1
  <2> QED
    BY <1>1, <2>1, Times
<1> HIDE DEF g, n, B
<1> DEFINE x == q * NLanes
           y == g * B
           z == n * NLanes
<1>6. x \in Nat /\ y \in Nat /\ z \in Nat /\ seq = x + next_lane /\ First(k) = y + l
  BY <1>1, <1>2, <1>3
<1>7. CASE l < next_lane
  <2>1. (q + 1) * NLanes = y + z
    BY <1>2, <1>4, <1>7
  <2>2. (q + 1) * NLanes = x + NLanes
    BY <1>1
  <2> HIDE DEF x, y, z
  <2>3. seq <= First(k) + z
    BY <1>1, <1>6, <2>1, <2>2
  <2> QED
    BY <1>1, <1>5, <1>6, <1>7, <2>3 DEF z, n
<1>8. CASE ~(l < next_lane)
  <2>1. x = y + z
    BY <1>2, <1>4, <1>8
  <2> HIDE DEF x, y, z
  <2>2. seq <= First(k) + z /\ (l = next_lane => seq = First(k) + z)
    BY <1>1, <1>6, <1>8, <2>1
  <2> QED
    BY <1>1, <1>5, <1>6, <2>2 DEF z, n
<1> QED
  BY <1>7, <1>8

(* A group that has begun is the one its lane is filling, or an earlier one.*)
LEMMA Begun ==
  ASSUME TypeOK, Rounds, NEW k \in Key, First(k) < seq
  PROVE  k[2] <= lanes[k[1]].group_index
<1> DEFINE l == k[1]
           j == <<l, lanes[l].group_index>>
           n == Len(lanes[l].pending)
<1>1. l \in Lane /\ k[2] \in Nat
  BY DEF Key, Group
<1>2. j \in Key /\ seq <= First(j) + n * NLanes /\ n * NLanes <= (GroupSize - 1) * NLanes
      /\ n * NLanes \in Nat
  BY <1>1, WhoseTurn
<1>3. seq \in Nat /\ j[1] = l /\ j[2] = lanes[l].group_index /\ j[2] \in Nat
  BY <1>2, WorldTyped DEF TypeOK, Key, Group
<1>4. SUFFICES ASSUME j[2] < k[2] PROVE FALSE
  BY <1>1, <1>3
<1>5. First(j) + GroupSize * NLanes <= First(k) /\ First(j) \in Nat /\ First(k) \in Nat
  BY <1>2, <1>3, <1>4, FirstOrder
<1> HIDE DEF j, n
<1> QED
  BY <1>2, <1>3, <1>5, LinkNumbers

-----------------------------------------------------------------------------
(* One parity at most waits.                                                *)
LEMMA QueueFinite ==
  ASSUME TypeOK PROVE IsFiniteSet(PacketsOf(pending_parity))
<1>1. CASE pending_parity = <<>>
  BY <1>1, FS_EmptySet DEF PacketsOf
<1>2. CASE pending_parity # <<>>
  <2> DEFINE h == Head(pending_parity)
  <2>1. pending_parity = <<h>>
    BY <1>2, QueueEmptied DEF OnePending, TypeOK
  <2>2. PacketsOf(<<h>>) = {h}
    BY DEF PacketsOf
  <2> HIDE DEF h
  <2>3. PacketsOf(pending_parity) = {h}
    BY <2>1, <2>2
  <2> QED
    BY <2>3, FS_Singleton
<1> QED
  BY <1>1, <1>2

(* What submit() sends is new.                                              *)
LEMMA SendsNew ==
  ASSUME TypeOK, LinkInv, Turns, SendNext,
         NEW d, d = DataFor([run |-> run, seq |-> seq])
  PROVE  /\ d \notin wired
         /\ \A p \in PacketsOf(pending_parity) : p \notin wired /\ p.type = "PARITY"
         /\ \A p : [run |-> run, seq |-> seq] \in p.payload =>
              p \notin wired \cup PacketsOf(pending_parity)
<1> DEFINE m == [run |-> run, seq |-> seq]
           Q == PacketsOf(pending_parity)
<1>1. \A k \in Key : m \notin Mine(wired, k)
  BY DEF LinkInv, WireInv
<1>2. \A p \in Q : p.key \in Key /\ p.payload \subseteq Mine(wired, p.key)
  <2>1. pending_parity \in Seq(Parities(wired))
    BY DEF LinkInv, EncoderInv
  <2> QED
    BY <2>1 DEF PacketsOf, Parities
<1>3. \A p \in wired : p.key \in Key
  BY DEF LinkInv, WireInv, SoundPacket
<1>4. ASSUME NEW p, m \in p.payload PROVE p \notin wired \cup Q
  <2>1. CASE p \in wired
    BY <1>1, <1>3, <1>4, <2>1, MineHas
  <2>2. CASE p \in Q
    BY <1>1, <1>2, <1>4, <2>2
  <2> QED
    BY <2>1, <2>2
<1>5. m \in d.payload
  BY DEF DataFor, DataPacket
<1> HIDE DEF m
<1>6. d \notin wired
  BY <1>4, <1>5
<1>7. \A p \in Q : p \notin wired /\ p.type = "PARITY"
  BY ParityWaits DEF Turns
<1> QED
  BY <1>4, <1>6, <1>7 DEF m

(* submit() leaves the sender where it should be.                           *)
LEMMA SendTurns ==
  ASSUME NeverWraps, TypeOK, LinkInv, FirstSender, Turns, run = 1, SendNext
  PROVE  Turns'
<1> DEFINE m == [run |-> run, seq |-> seq]
           d == DataFor(m)
           Q == PacketsOf(pending_parity)
           g == lanes[next_lane].group_index
           n == Len(lanes[next_lane].pending)
           key == <<next_lane, g>>
           full == n + 1 = GroupSize
<1>1. /\ next_lane \in Lane /\ seq \in Nat /\ seq' = seq + 1 /\ running /\ running' = running
      /\ g \in Nat
  BY WorldTyped DEF SendNext, TypeOK, EncoderTypeOK, Group
<1>2. /\ key \in Key /\ n \in Nat /\ n * NLanes \in Nat /\ seq = First(key) + n * NLanes
      /\ First(key) \in Nat
  BY <1>1, WhoseTurn, FirstOrder DEF FirstSender
<1>3. wired' = (wired \cup Q) \cup {d}
  BY SendWires
<1>4. /\ d.type = "DATA" /\ d.key = key /\ d.group_seq = n /\ d.payload = {m}
  BY DEF DataFor, DataPacket
<1>5. /\ pending_parity' = IF full THEN <<ParityFor(m)>> ELSE <<>>
      /\ \A l \in Lane : l # next_lane => lanes'[l] = lanes[l]
      /\ full => lanes'[next_lane] = [group_index |-> g + 1, pending |-> <<>>]
      /\ ~full => lanes'[next_lane].group_index = g
  BY SubmitMoves DEF FirstSender
<1>6. /\ ParityFor(m).type = "PARITY" /\ ParityFor(m).key = key
      /\ ParityFor(m).group_seq = 0 /\ m \in ParityFor(m).payload
  BY DEF ParityFor, ParityPacket
<1>7. PacketsOf(pending_parity') = IF full THEN {ParityFor(m)} ELSE {}
  <2>1. PacketsOf(<<>>) = {} /\ PacketsOf(<<ParityFor(m)>>) = {ParityFor(m)}
    BY DEF PacketsOf
  <2> QED
    BY <1>5, <2>1
<1>8. /\ \A p \in Q : p \notin wired /\ p.type = "PARITY"
      /\ \A p : m \in p.payload => p \notin wired \cup Q
  BY SendsNew
<1>9. IsFiniteSet(wired')
  <2>1. IsFiniteSet(Q)
    BY QueueFinite
  <2>2. IsFiniteSet(wired \cup Q)
    BY <2>1, FS_Union DEF Turns
  <2> HIDE DEF d, Q
  <2> QED
    BY <1>3, <2>2, FS_AddElement
<1> HIDE DEF m, d, Q, key, g, n
<1>10. ASSUME NEW p \in wired' \cup PacketsOf(pending_parity')
       PROVE  First(p.key) + p.group_seq * NLanes < seq'
  <2>1. CASE p \in wired \cup Q
    <3>1. First(p.key) + p.group_seq * NLanes < seq
      BY <2>1 DEF Turns, Q
    <3>2. First(p.key) + p.group_seq * NLanes \in Int
      <4>1. p.key \in Key /\ p.group_seq \in Slot
        <5>1. pending_parity \in Seq(Packet) /\ wired \subseteq Packet
          BY DEF TypeOK, EncoderTypeOK
        <5>2. p \in Packet
          BY <2>1, <5>1 DEF PacketsOf, Q
        <5> QED
          BY <5>2 DEF Packet
      <4>2. First(p.key) \in Nat /\ p.group_seq \in Nat
        BY <4>1, FirstOrder DEF Slot
      <4>3. p.group_seq * NLanes \in Nat
        BY <4>2, LinkNumbers
      <4> QED
        BY <4>2, <4>3
    <3> QED
      BY <1>1, <3>1, <3>2
  <2>2. CASE p = d
    BY <1>1, <1>2, <1>4, <2>2
  <2>3. CASE p = ParityFor(m)
    <3>1. p.group_seq * NLanes = 0
      BY <1>6, <2>3, LinkNumbers
    <3> QED
      BY <1>1, <1>2, <1>6, <2>3, <3>1
  <2> QED
    BY <1>3, <1>7, <2>1, <2>2, <2>3
<1>11. ASSUME NEW p \in PacketsOf(pending_parity')
       PROVE  seq' = ParityTurn(p.key) /\ p \notin wired'
  <2>1. full /\ p = ParityFor(m)
    BY <1>7
  <2>2. n * NLanes = (GroupSize - 1) * NLanes
    <3>1. n = GroupSize - 1
      BY <1>2, <2>1, LinkNumbers
    <3> QED
      BY <3>1
  <2>3. seq' = ParityTurn(p.key)
    BY <1>1, <1>2, <1>6, <2>1, <2>2 DEF ParityTurn
  <2>4. p # d
    BY <1>4, <1>6, <2>1
  <2> QED
    BY <1>3, <1>6, <1>8, <2>1, <2>3, <2>4
<1>12. ASSUME NEW k \in Key, k[2] < lanes'[k[1]].group_index
       PROVE  HasParity(wired' \cup PacketsOf(pending_parity'), k)
  <2>1. CASE k[2] < lanes[k[1]].group_index
    <3>1. HasParity(wired \cup Q, k)
      BY <2>1 DEF Turns, Q
    <3> QED
      BY <1>3, <3>1 DEF HasParity
  <2>2. CASE ~(k[2] < lanes[k[1]].group_index)
    <3>1. k[1] \in Lane /\ k[2] \in Nat /\ k = <<k[1], k[2]>>
      BY DEF Key, Group
    <3>2. k[1] = next_lane /\ full
      BY <1>5, <1>12, <2>2, <3>1 DEF g
    <3>3. lanes'[next_lane].group_index = g + 1 /\ lanes[next_lane].group_index = g
      BY <1>5, <3>2 DEF g
    <3>4. k[2] = g
      BY <1>1, <1>12, <2>2, <3>1, <3>2, <3>3
    <3>5. k = key
      BY <3>1, <3>2, <3>4 DEF key
    <3> QED
      BY <1>6, <1>7, <3>2, <3>5 DEF HasParity
  <2> QED
    BY <2>1, <2>2
<1>13. ASSUME NEW p \in wired', p.type = "DATA", NEW x \in p.payload PROVE x.run = 1
  <2>1. CASE p \in wired
    BY <1>13, <2>1 DEF Turns
  <2>2. CASE p \in Q
    BY <1>8, <1>13, <2>2
  <2>3. CASE p = d
    BY <1>4, <2>3 DEF m
  <2> QED
    BY <1>3, <2>1, <2>2, <2>3
<1> QED
  BY <1>1, <1>9, <1>10, <1>11, <1>12, <1>13 DEF Turns

(* So does the flush: nothing waits any more.                               *)
LEMMA StopTurns ==
  ASSUME TypeOK, LinkInv, Turns, StopSender
  PROVE  Turns'
<1> DEFINE Q == PacketsOf(pending_parity)
<1>1. Flush /\ Transmit /\ running /\ ~running' /\ UNCHANGED <<seq, lanes>>
  BY DEF StopSender, Flush
<1>2. wired' = wired \cup Q /\ PacketsOf(pending_parity') = {} /\ pending_parity' = <<>>
  <2>1. pending_parity' = <<>>
    BY <1>1, QueueEmptied DEF Flush, TypeOK
  <2> QED
    BY <2>1, StopWires
<1>3. \A p \in Q : p.type = "PARITY"
  BY ParityWaits
<1>4. IsFiniteSet(wired')
  <2>1. IsFiniteSet(Q)
    BY QueueFinite
  <2> QED
    BY <1>2, <2>1, FS_Union DEF Turns
<1>5. wired' \cup PacketsOf(pending_parity') = wired \cup Q
  BY <1>2
<1> HIDE DEF Q
<1>6. \A p \in wired' : p.type = "DATA" => \A m \in p.payload : m.run = 1
  <2>1. "PARITY" # "DATA"
    OBVIOUS
  <2> QED
    BY <1>2, <1>3, <2>1 DEF Turns
<1> QED
  BY <1>1, <1>2, <1>4, <1>5, <1>6 DEF Turns, Q

-----------------------------------------------------------------------------
(* The types of what the clocks are about.                                  *)
LEMMA ClockTypes ==
  ASSUME TypeOK
  PROVE  /\ \A k \in DOMAIN groups : k \in Key /\ groups[k].age \in Nat
         /\ \A f \in flight : /\ f.pkt \in Packet /\ f.pkt.key \in Key
                              /\ f.age \in Nat /\ f.age <= MaxDelay
         /\ due \in Nat /\ seq \in Nat
<1>1. due \in Nat /\ seq \in Nat
  BY WorldTyped DEF TypeOK
<1>2. ASSUME NEW k \in DOMAIN groups PROVE k \in Key /\ groups[k].age \in Nat
  <2>1. k \in Key /\ groups[k] \in GroupRecord
    BY DEF TypeOK, DecoderTypeOK
  <2>2. groups[k].age \in 0..LongestWait + 1
    BY <2>1 DEF GroupRecord
  <2> QED
    BY <2>1, <2>2
<1>3. ASSUME NEW f \in flight
      PROVE  f.pkt \in Packet /\ f.pkt.key \in Key /\ f.age \in Nat /\ f.age <= MaxDelay
  <2>1. f.pkt \in Packet /\ f.age \in 0..MaxDelay
    BY DEF TypeOK
  <2>2. f.pkt.key \in Key
    BY <2>1 DEF Packet
  <2> QED
    BY <2>1, <2>2, LinkNumbers
<1> QED
  BY <1>1, <1>2, <1>3

(* When a packet of a group leaves in its turn, neither the group nor a     *)
(* later one of the lane has been open for longer than Span.                *)
LEMMA LeavesInTime ==
  ASSUME TypeOK, Clocks, running, due = 0,
         NEW j \in Key, seq <= ParityTurn(j),
         NEW k \in DOMAIN groups, j[1] = k[1], j[2] <= k[2]
  PROVE  groups[k].age <= Span
<1> DEFINE a == (GroupSize - 1) * NLanes + 1
           s == seq - First(k)
<1>1. k \in Key /\ groups[k].age \in Nat /\ seq \in Nat /\ a \in Nat /\ Period \in Nat
  BY ClockTypes, LinkNumbers
<1>2. First(j) \in Nat /\ First(k) \in Nat /\ First(j) <= First(k)
  <2>1. j[2] \in Nat /\ k[2] \in Nat
    BY <1>1 DEF Key, Group
  <2>2. j[2] = k[2] \/ j[2] < k[2]
    BY <2>1
  <2>3. First(j) \in Nat /\ First(k) \in Nat
    BY <1>1, FirstOrder
  <2>4. j[2] = k[2] => First(j) = First(k)
    BY <1>1, FirstOrder
  <2>5. j[2] < k[2] => First(j) + GroupSize * NLanes <= First(k)
    BY <1>1, FirstOrder
  <2> QED
    BY <2>2, <2>3, <2>4, <2>5, LinkNumbers
<1>3. ParityTurn(j) = First(j) + a
  <2>1. (GroupSize - 1) * NLanes \in Nat
    BY LinkNumbers
  <2> QED
    BY <1>2, <2>1 DEF ParityTurn
<1> HIDE DEF a
<1>4. s \in Int /\ s <= a
  BY <1>1, <1>2, <1>3
<1>5. groups[k].age <= s * Period
  <2>1. groups[k].age + 0 <= s * Period
    BY DEF Clocks
  <2> QED
    BY <1>1, <2>1
<1> HIDE DEF s
<1>6. s * Period <= a * Period
  BY <1>1, <1>4, Times
<1>7. s * Period \in Int /\ a * Period \in Int
  BY <1>1, <1>4
<1> QED
  BY <1>1, <1>5, <1>6, <1>7 DEF Span, a

(* What submit() and flush() send is sent in its turn.                      *)
LEMMA SendsInTurn ==
  ASSUME TypeOK, LinkInv, FirstSender, Turns
  PROVE  /\ \A p \in PacketsOf(pending_parity) :
              p.key \in Key /\ seq <= ParityTurn(p.key)
         /\ LET key == DataFor([run |-> run, seq |-> seq]).key
            IN  key \in Key /\ seq <= ParityTurn(key)
<1>1. ASSUME NEW p \in PacketsOf(pending_parity)
      PROVE  p.key \in Key /\ seq <= ParityTurn(p.key)
  <2>1. p.key \in Key /\ seq = ParityTurn(p.key) /\ seq \in Nat
    BY ParityWaits, ClockTypes DEF Turns
  <2> QED
    BY <2>1
<1> DEFINE key == <<next_lane, lanes[next_lane].group_index>>
<1>2. DataFor([run |-> run, seq |-> seq]).key = key
  BY DEF DataFor, DataPacket
<1>3. next_lane \in Lane
  BY DEF TypeOK, EncoderTypeOK
<1> DEFINE n == Len(lanes[next_lane].pending)
<1>4. /\ key \in Key /\ n * NLanes \in Nat /\ seq = First(key) + n * NLanes
      /\ n * NLanes <= (GroupSize - 1) * NLanes
  BY <1>3, WhoseTurn DEF FirstSender
<1> HIDE DEF key, n
<1>5. seq <= ParityTurn(key)
  <2>1. First(key) \in Nat /\ (GroupSize - 1) * NLanes \in Nat
    BY <1>4, FirstOrder, LinkNumbers
  <2> QED
    BY <1>4, <2>1 DEF ParityTurn
<1> QED
  BY <1>1, <1>2, <1>4, <1>5

(* What is under way is what was, and what is sent now.                     *)
LEMMA Launches ==
  ASSUME Transmit
  PROVE  /\ \A f \in flight' : f \in flight \/ (f.age = 0 /\ f.pkt \in PacketsOf(emitted'))
         /\ Airborne' = Airborne \cup PacketsOf(emitted')
<1>1. flight' = flight \cup Launched(emitted')
  BY DEF Transmit
<1>2. \A f \in Launched(emitted') : f.age = 0 /\ f.pkt \in PacketsOf(emitted')
  BY DEF Launched, PacketsOf
<1>3. \A p \in PacketsOf(emitted') : \E f \in Launched(emitted') : f.pkt = p
  <2> TAKE p \in PacketsOf(emitted')
  <2>1. PICK i \in DOMAIN emitted' : p = emitted'[i]
    BY DEF PacketsOf
  <2>2. [pkt |-> emitted'[i], age |-> 0] \in Launched(emitted')
    BY DEF Launched
  <2> QED
    BY <2>1, <2>2
<1>4. Airborne' = Airborne \cup PacketsOf(emitted')
  BY <1>1, <1>2, <1>3 DEF Airborne
<1> QED
  BY <1>1, <1>2, <1>4

(* The clocks after a call of the encoder: nothing is late yet.             *)
LEMMA TransmitClocks ==
  ASSUME TypeOK, Clocks, Transmit, running, due = 0,
         \A p \in PacketsOf(emitted') : p.key \in Key /\ seq <= ParityTurn(p.key),
         \/ seq' = seq + 1 /\ due' = Period /\ running'
         \/ seq' = seq /\ due' = 0 /\ ~running'
  PROVE  Clocks'
<1>1. groups' = groups /\ listening' = listening
  BY DEF Transmit, DecoderIdle
<1>2. /\ \A f \in flight' : f \in flight \/ (f.age = 0 /\ f.pkt \in PacketsOf(emitted'))
  BY Launches
<1>3. due' <= Period /\ listening'
  BY <1>1, LinkNumbers DEF Clocks
<1>4. /\ seq \in Nat /\ Period \in Nat /\ Span \in Nat
      /\ \A k \in DOMAIN groups : k \in Key /\ groups[k].age \in Nat /\ First(k) \in Nat
      /\ \A f \in flight : f.pkt.key \in Key /\ f.age \in Nat
  BY ClockTypes, FirstOrder, LinkNumbers
<1>5. \A z \in Int : (z + 1) * Period = z * Period + Period /\ z * Period \in Int
  BY <1>4
<1>6. ASSUME NEW k \in DOMAIN groups
      PROVE  /\ First(k) < seq'
             /\ running' => groups[k].age + due' <= (seq' - First(k)) * Period
  <2>1. First(k) < seq /\ groups[k].age + 0 <= (seq - First(k)) * Period
    BY DEF Clocks
  <2>2. First(k) < seq'
    BY <1>4, <2>1
  <2> DEFINE z == seq - First(k)
  <2>3. z \in Int
    BY <1>4
  <2>4. seq' = seq + 1 => seq' - First(k) = z + 1
    BY <1>4
  <2>5. (z + 1) * Period = z * Period + Period /\ z * Period \in Int
    BY <1>5, <2>3
  <2>6. groups[k].age + 0 <= z * Period
    BY <2>1
  <2> HIDE DEF z
  <2>7. running' => groups[k].age + due' <= (z + 1) * Period
    BY <1>4, <2>5, <2>6
  <2> QED
    BY <2>2, <2>4, <2>7
<1>7. ASSUME NEW f \in flight', NEW k \in DOMAIN groups,
             f.pkt.key[1] = k[1], f.pkt.key[2] <= k[2]
      PROVE  groups[k].age <= f.age + Span
  <2>1. CASE f \in flight
    BY <1>7, <2>1 DEF Clocks
  <2>2. CASE f.age = 0 /\ f.pkt \in PacketsOf(emitted')
    <3>1. groups[k].age <= Span
      BY <1>7, <2>2, LeavesInTime
    <3> QED
      BY <1>4, <2>2, <3>1
  <2> QED
    BY <1>2, <2>1, <2>2
<1>8. ASSUME NEW f \in flight'
      PROVE  (seq' - ParityTurn(f.pkt.key)) * Period <= f.age + due'
  <2> DEFINE z == seq - ParityTurn(f.pkt.key)
             y == seq' - ParityTurn(f.pkt.key)
  <2>1. f.pkt.key \in Key /\ f.age \in Nat
    BY <1>2, <1>4
  <2>2. ParityTurn(f.pkt.key) \in Nat
    BY <2>1, FirstOrder
  <2>3. z \in Int /\ (seq' = seq + 1 => y = z + 1) /\ (seq' = seq => y = z)
    BY <1>4, <2>2
  <2>4. z * Period \in Int /\ (z + 1) * Period = z * Period + Period
    BY <1>5, <2>3
  <2>5. z * Period <= f.age
    <3>1. CASE f \in flight
      <4>1. z * Period <= f.age + 0
        BY <3>1 DEF Clocks
      <4> HIDE DEF z
      <4> QED
        BY <2>1, <4>1
    <3>2. CASE f.age = 0 /\ f.pkt \in PacketsOf(emitted')
      <4>1. z <= 0
        BY <1>4, <2>2, <3>2
      <4> HIDE DEF z
      <4>2. z * Period <= 0 * Period
        BY <1>4, <2>3, <4>1, Times
      <4>3. 0 * Period = 0
        BY <1>4
      <4> QED
        BY <3>2, <4>2, <4>3
    <3> QED
      BY <1>2, <3>1, <3>2
  <2> HIDE DEF z
  <2>6. CASE seq' = seq + 1 /\ due' = Period
    <3>1. y = z + 1
      BY <2>3, <2>6
    <3> HIDE DEF y
    <3>2. y * Period <= f.age + Period
      BY <1>4, <2>1, <2>4, <2>5, <3>1
    <3> QED
      BY <2>6, <3>2 DEF y
  <2>7. CASE seq' = seq /\ due' = 0
    <3>1. y = z
      BY <2>3, <2>7
    <3> HIDE DEF y
    <3>2. y * Period <= f.age + 0
      BY <2>1, <2>5, <3>1
    <3> QED
      BY <2>7, <3>2 DEF y
  <2> QED
    BY <2>6, <2>7
<1> QED
  BY <1>1, <1>3, <1>6, <1>7, <1>8 DEF Clocks

(* Time ages a group no faster than the packets it waits for.               *)
LEMMA TickClocks ==
  ASSUME TypeOK, Clocks, Tick
  PROVE  Clocks'
<1>1. /\ running' = running /\ listening' = listening /\ seq' = seq
      /\ due' = IF due > 0 THEN due - 1 ELSE 0
      /\ running => due > 0
      /\ flight' = {[f EXCEPT !.age = @ + 1] : f \in flight}
      /\ groups' = Aged
  BY DEF Tick
<1>2. /\ seq \in Nat /\ Period \in Nat /\ Span \in Nat /\ due \in Nat /\ due <= Period
      /\ \A k \in DOMAIN groups : k \in Key /\ groups[k].age \in Nat /\ First(k) \in Nat
      /\ \A f \in flight : f.pkt.key \in Key /\ f.age \in Nat
  BY ClockTypes, FirstOrder, LinkNumbers DEF Clocks
<1>3. /\ DOMAIN groups' = DOMAIN groups
      /\ \A k \in DOMAIN groups : groups'[k].age \in Nat /\ groups'[k].age <= groups[k].age + 1
  <2>1. DOMAIN groups' = DOMAIN groups
    BY <1>1 DEF Aged
  <2>2. ASSUME NEW k \in DOMAIN groups
        PROVE  groups'[k].age \in Nat /\ groups'[k].age <= groups[k].age + 1
    <3>1. groups[k] \in GroupRecord
      BY DEF TypeOK, DecoderTypeOK
    <3>2. groups'[k].age = IF groups[k].age > LongestWait THEN groups[k].age
                           ELSE groups[k].age + 1
      BY <1>1, <3>1 DEF Aged, GroupRecord
    <3> QED
      BY <1>2, <3>2
  <2> QED
    BY <2>1, <2>2
<1>4. \A f \in flight' : \E e \in flight : f.pkt = e.pkt /\ f.age = e.age + 1
  <2> TAKE f \in flight'
  <2>1. PICK e \in flight : f = [e EXCEPT !.age = e.age + 1]
    BY <1>1
  <2>2. f.pkt = e.pkt /\ f.age = e.age + 1
    BY <2>1
  <2> QED
    BY <2>2
<1>5. due' <= Period /\ listening' /\ due' \in Nat
  BY <1>1, <1>2 DEF Clocks
<1>6. ASSUME NEW k \in DOMAIN groups
      PROVE  /\ First(k) < seq'
             /\ running' => groups'[k].age + due' <= (seq' - First(k)) * Period
  <2>1. First(k) < seq /\ (running => groups[k].age + due <= (seq - First(k)) * Period)
    BY DEF Clocks
  <2> DEFINE x == (seq - First(k)) * Period
  <2>2. seq - First(k) \in Int
    BY <1>2
  <2>3. x \in Int
    BY <1>2, <2>2
  <2>4. running => groups[k].age + due <= x
    BY <2>1
  <2> HIDE DEF x
  <2>5. running => groups'[k].age + due' <= x
    BY <1>1, <1>2, <1>3, <2>3, <2>4
  <2> QED
    BY <1>1, <2>1, <2>5 DEF x
<1>7. ASSUME NEW f \in flight', NEW k \in DOMAIN groups,
             f.pkt.key[1] = k[1], f.pkt.key[2] <= k[2]
      PROVE  groups'[k].age <= f.age + Span
  <2>1. PICK e \in flight : f.pkt = e.pkt /\ f.age = e.age + 1
    BY <1>4
  <2>2. groups[k].age <= e.age + Span
    BY <1>7, <2>1 DEF Clocks
  <2>3. groups[k].age \in Nat /\ e.age \in Nat
    BY <1>2
  <2> QED
    BY <1>2, <1>3, <2>1, <2>2, <2>3
<1>8. ASSUME NEW f \in flight'
      PROVE  (seq' - ParityTurn(f.pkt.key)) * Period <= f.age + due'
  <2>1. PICK e \in flight : f.pkt = e.pkt /\ f.age = e.age + 1
    BY <1>4
  <2> DEFINE x == (seq - ParityTurn(e.pkt.key)) * Period
  <2>2. x <= e.age + due
    BY DEF Clocks
  <2>3. e.pkt.key \in Key /\ e.age \in Nat
    BY <1>2
  <2>4. seq - ParityTurn(e.pkt.key) \in Int
    BY <1>2, <2>3, FirstOrder
  <2>5. x \in Int
    BY <1>2, <2>4
  <2> HIDE DEF x
  <2>6. x <= f.age + due'
    BY <1>1, <1>2, <2>1, <2>2, <2>3, <2>5
  <2> QED
    BY <1>1, <2>1, <2>6 DEF x
<1> QED
  BY <1>1, <1>3, <1>5, <1>6, <1>7, <1>8 DEF Clocks

-----------------------------------------------------------------------------
(* A group that is not open yet starts at no age.                           *)
LEMMA AbsorbedAges ==
  ASSUME TypeOK, NEW p, p = NoPacket \/ p \in wired, NEW k \in DOMAIN Absorbed(p)
  PROVE  \/ k \in DOMAIN groups /\ Absorbed(p)[k].age = groups[k].age
         \/ k \notin DOMAIN groups /\ p \in wired /\ k = p.key /\ Absorbed(p)[k].age = 0
<1>1. /\ GroupOf(k) \in GroupRecord
      /\ GroupOf(k).age = IF k \in DOMAIN groups THEN groups[k].age ELSE 0
  BY NewGroupTyped DEF GroupOf, TypeOK, DecoderTypeOK
<1>2. CASE p \in wired /\ k = p.key /\ Absorbed(p)[k] = Added(GroupOf(k), p)
  <2>1. p \in Packet
    BY <1>2 DEF TypeOK
  <2>2. Added(GroupOf(k), p).age = GroupOf(k).age
    BY <1>1, <2>1, AddedFields
  <2> QED
    BY <1>1, <1>2, <2>2
<1>3. CASE k \in DOMAIN groups /\ Absorbed(p)[k] = groups[k]
  BY <1>3
<1> QED
  BY <1>2, <1>3, AbsorbedIs

(* What is open after a packet has been taken in has begun.                 *)
LEMMA AbsorbedBegun ==
  ASSUME TypeOK, Turns, Clocks, NEW p, p = NoPacket \/ p \in wired,
         NEW k \in DOMAIN Absorbed(p)
  PROVE  /\ k \in Key /\ First(k) \in Nat /\ First(k) < seq
         /\ Absorbed(p)[k].age \in Nat
<1>1. CASE k \in DOMAIN groups /\ Absorbed(p)[k].age = groups[k].age
  <2>1. k \in Key /\ groups[k].age \in Nat /\ First(k) < seq
    BY <1>1, ClockTypes DEF Clocks
  <2> QED
    BY <1>1, <2>1, FirstOrder
<1>2. CASE p \in wired /\ k = p.key /\ Absorbed(p)[k].age = 0
  <2>1. k \in Key /\ p.group_seq \in Nat
    BY <1>2 DEF TypeOK, Packet, Slot
  <2>2. First(k) + p.group_seq * NLanes < seq
    BY <1>2 DEF Turns
  <2>3. First(k) \in Nat /\ p.group_seq * NLanes \in Nat /\ seq \in Nat
    BY <2>1, FirstOrder, ClockTypes, LinkNumbers
  <2>4. First(k) < seq
    BY <2>2, <2>3
  <2> QED
    BY <1>2, <2>1, <2>3, <2>4
<1> QED
  BY <1>1, <1>2, AbsorbedAges

(* poll() closes groups, and opens at most one, which is new.               *)
LEMMA PollClocks ==
  ASSUME TypeOK, Turns, Clocks, NEW p, p = NoPacket \/ p \in wired, Poll(p),
         flight' \subseteq flight, UNCHANGED <<seq, running, due, listening>>
  PROVE  Clocks'
<1>1. \A k \in DOMAIN groups' : k \in DOMAIN Absorbed(p) /\ groups'[k] = Absorbed(p)[k]
  BY DEF Poll, Sweep, Closes, Closing
<1>2. /\ seq \in Nat /\ due \in Nat /\ Period \in Nat /\ Span \in Nat /\ due <= Period
      /\ \A f \in flight : f.age \in Nat
  BY ClockTypes, LinkNumbers DEF Clocks
<1>3. ASSUME NEW k \in DOMAIN groups'
      PROVE  /\ First(k) < seq
             /\ running => groups'[k].age + due <= (seq - First(k)) * Period
  <2>1. k \in DOMAIN Absorbed(p) /\ First(k) \in Nat /\ First(k) < seq
    BY <1>1, AbsorbedBegun
  <2>2. CASE k \in DOMAIN groups /\ Absorbed(p)[k].age = groups[k].age
    BY <1>1, <2>1, <2>2 DEF Clocks
  <2>3. CASE Absorbed(p)[k].age = 0
    <3> DEFINE z == seq - First(k)
    <3>1. z \in Int /\ 1 <= z
      BY <1>2, <2>1
    <3> HIDE DEF z
    <3>2. 1 * Period <= z * Period /\ z * Period \in Int
      BY <1>2, <3>1, Times
    <3>3. 0 + due <= z * Period
      BY <1>2, <3>2
    <3> QED
      BY <1>1, <2>1, <2>3, <3>3 DEF z
  <2> QED
    BY <2>1, <2>2, <2>3, AbsorbedAges
<1>4. ASSUME NEW f \in flight', NEW k \in DOMAIN groups',
             f.pkt.key[1] = k[1], f.pkt.key[2] <= k[2]
      PROVE  groups'[k].age <= f.age + Span
  <2>1. f \in flight /\ k \in DOMAIN Absorbed(p)
    BY <1>1
  <2>2. CASE k \in DOMAIN groups /\ Absorbed(p)[k].age = groups[k].age
    BY <1>1, <1>4, <2>1, <2>2 DEF Clocks
  <2>3. CASE Absorbed(p)[k].age = 0
    BY <1>1, <1>2, <2>1, <2>3
  <2> QED
    BY <2>1, <2>2, <2>3, AbsorbedAges
<1>5. \A f \in flight' : (seq - ParityTurn(f.pkt.key)) * Period <= f.age + due
  BY DEF Clocks
<1> QED
  BY <1>2, <1>3, <1>4, <1>5 DEF Clocks

-----------------------------------------------------------------------------
(* Once the sender is past the turn of a group's parity, the parity is on   *)
(* the wire, as long as the sender runs.                                    *)
LEMMA ParityIsWired ==
  ASSUME TypeOK, FirstSender, Turns, NEW k \in Key, First(k) < seq,
         \/ ParityTurn(k) < seq
         \/ k[2] < lanes[k[1]].group_index /\ seq # ParityTurn(k)
  PROVE  HasParity(wired, k)
<1> DEFINE l == k[1]
           n == Len(lanes[l].pending)
           j == <<l, lanes[l].group_index>>
<1>1. l \in Lane /\ k[2] \in Nat /\ k = <<l, k[2]>> /\ seq \in Nat
  BY ClockTypes DEF Key, Group
<1>2. lanes[l].group_index \in Nat
  BY <1>1 DEF TypeOK, EncoderTypeOK, Group
<1>3. k[2] <= lanes[l].group_index
  BY Begun DEF FirstSender
<1>4. First(k) \in Nat /\ ParityTurn(k) \in Nat /\ (GroupSize - 1) * NLanes \in Nat
  BY FirstOrder, LinkNumbers
<1>5. k[2] < lanes[l].group_index /\ seq # ParityTurn(k)
  <2>1. CASE k[2] = lanes[l].group_index /\ ParityTurn(k) < seq
    <3>1. /\ n * NLanes \in Nat /\ seq <= First(k) + n * NLanes
          /\ n * NLanes <= (GroupSize - 1) * NLanes
      BY <1>1, <2>1, WhoseTurn DEF FirstSender
    <3> HIDE DEF n
    <3> QED
      BY <1>1, <1>4, <2>1, <3>1 DEF ParityTurn
  <2>2. CASE k[2] < lanes[l].group_index
    BY <1>1, <1>4, <2>2
  <2> QED
    BY <1>1, <1>2, <1>3, <2>1, <2>2
<1>6. HasParity(wired \cup PacketsOf(pending_parity), k)
  BY <1>5 DEF Turns
<1>7. \A q \in PacketsOf(pending_parity) : q.key # k
  BY <1>5 DEF Turns
<1> QED
  BY <1>6, <1>7 DEF HasParity

(* When a group times out, no packet of it is under way, nor one of an      *)
(* earlier group of its lane.                                               *)
LEMMA TimedOutAlone ==
  ASSUME InTime, TypeOK, Clocks, NEW p, p = NoPacket \/ p \in wired,
         NEW k \in DOMAIN Absorbed(p), TimedOut(Absorbed(p)[k])
  PROVE  /\ k \in DOMAIN groups /\ Absorbed(p)[k].age = groups[k].age
         /\ \A f \in flight : ~(f.pkt.key[1] = k[1] /\ f.pkt.key[2] <= k[2])
<1>1. Span \in Nat /\ MaxDelay \in Nat /\ GroupTimeout \in Nat /\ Span + MaxDelay <= GroupTimeout
  BY LinkNumbers DEF InTime
<1>2. k \in DOMAIN groups /\ Absorbed(p)[k].age = groups[k].age
  BY <1>1, AbsorbedAges DEF TimedOut
<1>3. groups[k].age \in Nat /\ groups[k].age > GroupTimeout
  BY <1>2, ClockTypes DEF TimedOut
<1>4. ASSUME NEW f \in flight, f.pkt.key[1] = k[1], f.pkt.key[2] <= k[2] PROVE FALSE
  <2>1. groups[k].age <= f.age + Span
    BY <1>2, <1>4 DEF Clocks
  <2>2. f.age \in Nat /\ f.age <= MaxDelay
    BY ClockTypes
  <2> QED
    BY <1>1, <1>3, <2>1, <2>2
<1> QED
  BY <1>2, <1>4

(* A packet that was sent, has not arrived and is not under way is lost.    *)
LEMMA Nowhere ==
  ASSUME NEW q \in wired, q \notin arrived, \A f \in flight : f.pkt # q
  PROVE  q \in LostPackets
BY DEF LostPackets, Airborne

(* A group that is given up before it is complete has lost two packets, or  *)
(* the sender has stopped before its parity.                                *)
LEMMA GivenUp ==
  ASSUME InTime, TypeOK, LinkInv, FirstRun, run = 1, Turns, Clocks, Fates,
         NEW p, p = NoPacket \/ p \in Airborne,
         NEW k \in DOMAIN Absorbed(p), TimedOut(Absorbed(p)[k]), ~Complete(Absorbed(p)[k])
  PROVE  Dead(k) \/ Silent(k)
<1> DEFINE g == Absorbed(p)[k]
<1>1. p = NoPacket \/ p \in wired
  BY DEF Airborne, LinkInv, WireInv
<1>2. FirstSender /\ k \in Key /\ First(k) < seq
  BY <1>1, AbsorbedBegun DEF FirstRun
<1>3. /\ k \in DOMAIN groups /\ g.age = groups[k].age
      /\ \A f \in flight : f.pkt.key # k
  <2>1. \A f \in flight : ~(f.pkt.key[1] = k[1] /\ f.pkt.key[2] <= k[2])
    BY <1>1, TimedOutAlone
  <2>2. k[2] <= k[2]
    BY <1>2 DEF Key, Group
  <2>3. k \in DOMAIN groups /\ g.age = groups[k].age
    BY <1>1, TimedOutAlone
  <2> QED
    BY <2>1, <2>2, <2>3
<1>4. ASSUME NEW q \in wired, q.key = k, ~Held(g, q) PROVE q \in LostPackets
  <2>1. q \notin arrived
    BY <1>1, <1>2, <1>4, ArrivedIsHeld DEF Fates
  <2> QED
    BY <1>3, <1>4, <2>1, Nowhere
<1>5. CASE HasParity(wired, k)
  <2>1. PICK r \in wired : r.type = "PARITY" /\ r.key = k
    BY <1>5 DEF HasParity
  <2>2. \A i \in Slot : \E q \in DataOf(wired, k) : q.group_seq = i
    BY <1>2, <2>1 DEF FirstSender, Covers
  <2>3. ASSUME NEW i \in Missing(g)
        PROVE  \E q \in LostPackets : q.type = "DATA" /\ q.key = k /\ q.group_seq = i
    <3>1. i \in Slot /\ g.data[i] = {}
      BY <2>3 DEF Missing, Present
    <3>2. PICK q \in DataOf(wired, k) : q.group_seq = i
      BY <2>2, <3>1
    <3>3. q \in wired /\ q.type = "DATA" /\ q.key = k
      BY DEF DataOf
    <3>4. q.payload # {}
      BY <3>3 DEF TypeOK, Packet
    <3>5. ~Held(g, q)
      BY <3>1, <3>2, <3>3, <3>4 DEF Held
    <3> QED
      BY <1>4, <3>2, <3>3, <3>5
  <2>4. PICK i : i \in Missing(g)
    BY DEF Complete, Whole
  <2>5. PICK q \in LostPackets : q.type = "DATA" /\ q.key = k /\ q.group_seq = i
    BY <2>3, <2>4
  <2>6. CASE g.parity = {}
    <3>1. r.payload # {} /\ r.type # "DATA"
      BY <2>1 DEF TypeOK, Packet
    <3>2. ~Held(g, r)
      BY <2>6, <3>1 DEF Held
    <3>3. r \in LostPackets /\ r # q
      BY <1>4, <2>1, <2>5, <3>2
    <3> QED
      BY <2>1, <2>5, <3>3 DEF Dead
  <2>7. CASE g.parity # {}
    <3>1. Missing(g) # {i} /\ i \in Slot
      BY <2>4, <2>7 DEF Complete, Recoverable, Missing
    <3>2. PICK j \in Missing(g) : j # i
      BY <2>4, <3>1
    <3>3. PICK r2 \in LostPackets : r2.type = "DATA" /\ r2.key = k /\ r2.group_seq = j
      BY <2>3
    <3> QED
      BY <2>5, <3>2, <3>3 DEF Dead
  <2> QED
    BY <2>6, <2>7
<1>6. CASE ~HasParity(wired, k)
  <2> SUFFICES ASSUME running PROVE FALSE
    BY <1>6 DEF Silent
  <2> DEFINE a == (GroupSize - 1) * NLanes + 1
             z == seq - First(k)
  <2>1. /\ seq \in Nat /\ First(k) \in Nat /\ a \in Nat /\ Period \in Nat /\ due \in Nat
        /\ Span \in Nat /\ MaxDelay \in Nat /\ Span + MaxDelay <= GroupTimeout
        /\ GroupTimeout \in Nat
    BY <1>2, ClockTypes, FirstOrder, LinkNumbers DEF InTime
  <2>2. ParityTurn(k) = First(k) + a
    BY <1>2, LinkNumbers, FirstOrder DEF ParityTurn
  <2>3. z <= a /\ z \in Int
    <3>1. ~(ParityTurn(k) < seq)
      BY <1>2, <1>6, ParityIsWired
    <3> HIDE DEF a
    <3> QED
      BY <2>1, <2>2, <3>1
  <2>4. groups[k].age + due <= z * Period
    BY <1>3 DEF Clocks
  <2>5. groups[k].age \in Nat /\ groups[k].age > GroupTimeout
    BY <1>3, ClockTypes DEF TimedOut
  <2>6. Span = a * Period
    BY DEF Span
  <2> HIDE DEF a, z
  <2>7. z * Period <= a * Period /\ z * Period \in Int /\ a * Period \in Int
    BY <2>1, <2>3, Times
  <2> QED
    BY <2>1, <2>4, <2>5, <2>6, <2>7
<1> QED
  BY <1>5, <1>6

(* When a group of a lane is closed, the earlier ones are over: all of them *)
(* is on the wire, and nothing of them under way.                           *)
LEMMA EarlierAreOver ==
  ASSUME InTime, TypeOK, LinkInv, FirstRun, run = 1, Turns, Clocks,
         NEW p, p = NoPacket \/ p \in wired,
         NEW j \in Closing(Absorbed(p)), NEW k \in Key, k[1] = j[1], k[2] < j[2]
  PROVE  /\ HasParity(wired, k)
         /\ \A f \in flight : f.pkt.key # k
<1> DEFINE g == Absorbed(p)[j]
           B == GroupSize * NLanes
           c == (GroupSize - 1) * NLanes
<1>1. j \in DOMAIN Absorbed(p) /\ (Complete(g) \/ TimedOut(g))
  BY DEF Closing
<1>2. /\ FirstSender /\ j \in Key /\ First(j) < seq /\ First(j) \in Nat
      /\ WireInv /\ Genuine(wired, j, g)
  BY <1>1, AbsorbedBegun, AbsorbedGenuine DEF FirstRun, LinkInv
<1>3. /\ seq \in Nat /\ B \in Nat /\ c \in Nat /\ c + 1 <= B
      /\ First(k) \in Nat /\ First(k) + B <= First(j)
      /\ ParityTurn(k) = First(k) + c + 1
  BY <1>2, ClockTypes, LinkNumbers, FirstOrder DEF ParityTurn
<1> HIDE DEF B, c, g
<1>4. HasParity(wired, k)
  <2>1. First(k) < seq /\ ParityTurn(k) < seq
    BY <1>2, <1>3
  <2> QED
    BY <1>2, <2>1, ParityIsWired
<1>5. ASSUME NEW f \in flight, f.pkt.key = k PROVE FALSE
  <2>1. CASE TimedOut(g)
    <3>1. k[2] <= j[2]
      BY <1>2 DEF Key, Group
    <3> QED
      BY <1>1, <1>5, <2>1, <3>1, TimedOutAlone DEF g
  <2>2. CASE Complete(g)
    <3>1. GroupSize - 1 \in Slot
      BY LinkNumbers DEF Slot
    <3>2. PICK q \in DataOf(wired, j) : q.group_seq = GroupSize - 1
      BY <1>2, <2>2, <3>1, CompleteIsDone
    <3>3. First(j) + c < seq
      BY <3>2 DEF Turns, DataOf, c
    <3> DEFINE z == seq - ParityTurn(k)
    <3>4. z \in Int /\ B <= z
      BY <1>2, <1>3, <3>3
    <3>5. z * Period <= f.age + due
      BY <1>5 DEF Clocks
    <3> HIDE DEF z
    <3>6. /\ Period \in Nat /\ MaxDelay \in Nat /\ f.age \in Nat /\ f.age <= MaxDelay
          /\ due \in Nat /\ due <= Period
      BY LinkNumbers, ClockTypes DEF Clocks
    <3>7. B * Period <= z * Period /\ z * Period \in Int /\ B * Period \in Int
      BY <1>3, <3>4, <3>6, Times
    <3>8. MaxDelay < B * Period - Period
      <4>1. (B - 1) * Period = B * Period - Period
        BY <1>3, <3>6
      <4>2. MaxDelay < (B - 1) * Period
        BY DEF InTime, B
      <4> QED
        BY <4>1, <4>2
    <3> QED
      BY <3>5, <3>6, <3>7, <3>8
  <2> QED
    BY <1>1, <2>1, <2>2 DEF g
<1> QED
  BY <1>4, <1>5

(* A group none of whose packets arrives before a later one is closed has   *)
(* lost them all.                                                           *)
LEMMA PassedOver ==
  ASSUME InTime, TypeOK, LinkInv, FirstRun, run = 1, Turns, Clocks, Fates,
         NEW p, p = NoPacket \/ p \in Airborne,
         NEW j \in Closing(Absorbed(p)), NEW k \in Key, k[1] = j[1], k[2] < j[2],
         k \notin DOMAIN groups, ~(k[2] <= high_water[k[1]])
  PROVE  Dead(k)
<1>1. p = NoPacket \/ p \in wired
  BY DEF Airborne, LinkInv, WireInv
<1>2. HasParity(wired, k) /\ \A f \in flight : f.pkt.key # k
  BY <1>1, EarlierAreOver
<1>3. PICK r \in wired : r.type = "PARITY" /\ r.key = k
  BY <1>2 DEF HasParity
<1>4. 0 \in Slot
  BY LinkNumbers DEF Slot
<1>5. PICK q \in DataOf(wired, k) : q.group_seq = 0
  BY <1>3, <1>4 DEF FirstRun, FirstSender, Covers
<1>6. q \in wired /\ q.type = "DATA" /\ q.key = k
  BY DEF DataOf
<1>7. \A s \in arrived : s.key # k
  BY DEF Fates, Arrivals
<1>8. q \in LostPackets /\ r \in LostPackets /\ q # r
  BY <1>2, <1>3, <1>6, <1>7, Nowhere
<1> QED
  BY <1>3, <1>6, <1>8 DEF Dead

-----------------------------------------------------------------------------
(* A sweep closes each group with one of its ends.                          *)
LEMMA SweepFates ==
  ASSUME InTime, TypeOK, LinkInv, FirstRun, run = 1, Turns, Clocks, Fates,
         NEW p, p = NoPacket \/ p \in Airborne, Poll(p),
         received' = received \cup out', arrived' \subseteq (arrived \cup {p}) \cap wired,
         LostPackets' = LostPackets, UNCHANGED <<wired, running>>
  PROVE  Fates'
<1> DEFINE A == Absorbed(p)
           closed == Closing(A)
<1>1. p = NoPacket \/ p \in wired
  BY DEF Airborne, LinkInv, WireInv
<1>2. /\ DOMAIN groups \subseteq DOMAIN A
      /\ \A k \in DOMAIN A : k \in Key /\ Genuine(wired, k, A[k])
  BY <1>1, AbsorbedSound, AbsorbedGenuine DEF FirstRun
<1>3. /\ out' = UNION {Delivered(A[k]) : k \in closed}
      /\ groups' = [k \in DOMAIN A \ closed |-> A[k]]
      /\ high_water' = HighWaterAfter(closed)
  BY DEF Poll, Sweep, Closes
<1>4. /\ closed \subseteq DOMAIN A /\ closed \in SUBSET Key
      /\ \A k \in closed : Complete(A[k]) \/ TimedOut(A[k])
  BY <1>2 DEF Closing
<1>5. /\ WireInv /\ FirstSender /\ DecoderInv
  BY DEF FirstRun, LinkInv
<1>6. /\ high_water' \in [Lane -> -1..GroupWrap - 1]
      /\ \A l \in Lane : high_water'[l] >= high_water[l]
      /\ \A k \in closed : k[2] <= high_water'[k[1]]
      /\ \A l \in Lane : high_water'[l] = Max({high_water[l]} \cup ClosedIn(l, closed))
  BY <1>3, <1>4, <1>5, WatermarkRises DEF HighWaterAfter
<1>7. ASSUME NEW k \in Key PROVE k[1] \in Lane /\ k[2] \in Nat /\ high_water[k[1]] \in Int
                                /\ high_water'[k[1]] \in Int
  <2>1. k[1] \in Lane /\ k[2] \in Nat
    BY DEF Key, Group
  <2> QED
    BY <1>5, <1>6, <2>1, Sizes DEF DecoderInv
<1>8. ASSUME NEW k \in Key, k[2] <= high_water[k[1]] PROVE k[2] <= high_water'[k[1]]
  <2>1. high_water'[k[1]] >= high_water[k[1]]
    BY <1>6, <1>7
  <2> QED
    BY <1>7, <1>8, <2>1
<1> HIDE DEF A, closed
<1>9. Arrivals'
  BY <1>1, <1>5, SweepArrivals DEF Fates
<1>10. ASSUME NEW k \in Key, Done(k) \/ Dead(k) \/ Silent(k)
       PROVE  Done(k)' \/ Dead(k)' \/ Silent(k)'
  <2>1. received \subseteq received'
    OBVIOUS
  <2> QED
    BY <1>10, <2>1 DEF Done, Dead, Silent, DataOf, HasParity
<1>11. ASSUME NEW k \in Key, Closed(groups', high_water', k)
       PROVE  Done(k)' \/ Dead(k)' \/ Silent(k)'
  <2>1. k \in closed \/ k \notin DOMAIN A
    BY <1>3, <1>11 DEF Closed
  <2>2. CASE k \in closed /\ Complete(A[k])
    <3>1. k \in DOMAIN A /\ Genuine(wired, k, A[k])
      BY <1>2, <1>4, <2>2
    <3>2. /\ \A i \in Slot : \E q \in DataOf(wired, k) : q.group_seq = i
          /\ \A q \in DataOf(wired, k) : q.payload \in Delivered(A[k])
      BY <1>5, <2>2, <3>1, CompleteIsDone
    <3>3. Delivered(A[k]) \subseteq received'
      BY <1>3, <2>2
    <3>4. Done(k)'
      BY <3>2, <3>3 DEF Done, DataOf
    <3> QED
      BY <3>4
  <2>3. CASE k \in closed /\ ~Complete(A[k])
    <3>1. k \in DOMAIN A /\ TimedOut(A[k])
      BY <1>4, <2>3
    <3>2. Dead(k) \/ Silent(k)
      BY <2>3, <3>1, GivenUp DEF A
    <3> QED
      BY <1>10, <3>2
  <2>4. CASE k \notin DOMAIN A
    <3>1. k \notin DOMAIN groups
      BY <1>2, <2>4
    <3>2. CASE k[2] <= high_water[k[1]]
      BY <1>10, <3>1, <3>2 DEF Fates, Closed
    <3>3. CASE ~(k[2] <= high_water[k[1]])
      <4>1. k[2] <= high_water'[k[1]]
        BY <1>11 DEF Closed
      <4>2. high_water'[k[1]] \in {high_water[k[1]]} \cup ClosedIn(k[1], closed)
        <5> DEFINE S == {high_water[k[1]]} \cup ClosedIn(k[1], closed)
        <5>1. ClosedIn(k[1], closed) \subseteq 0..GroupWrap - 1
          BY <1>4 DEF ClosedIn, Key, Group
        <5>2. GroupWrap \in Nat \ {0} /\ high_water[k[1]] \in -1..GroupWrap - 1
          BY <1>5, <1>7, Sizes DEF DecoderInv
        <5>3. S \in SUBSET Int /\ S # {} /\ \A x \in S : x <= GroupWrap - 1
          BY <5>1, <5>2
        <5>4. high_water'[k[1]] = Max(S)
          BY <1>6, <1>7
        <5> HIDE DEF S
        <5>5. GroupWrap - 1 \in Int
          BY <5>2
        <5>6. Max(S) \in S
          BY <5>3, <5>5, MaxOfBounded
        <5> QED
          BY <5>4, <5>6 DEF S
      <4>3. high_water'[k[1]] # high_water[k[1]]
        BY <3>3, <4>1
      <4>4. PICK j \in closed : j[1] = k[1] /\ j[2] = high_water'[k[1]]
        BY <4>2, <4>3 DEF ClosedIn
      <4>5. k[2] < j[2]
        <5>1. j \in Key /\ j = <<j[1], j[2]>> /\ k = <<k[1], k[2]>>
          BY <1>4 DEF Key
        <5>2. j # k
          BY <1>4, <2>4, <4>4
        <5>3. j[2] # k[2]
          BY <4>4, <5>1, <5>2
        <5> QED
          BY <1>7, <4>1, <4>4, <5>1, <5>3
      <4>6. Dead(k)
        BY <3>1, <3>3, <4>4, <4>5, PassedOver DEF closed, A
      <4> QED
        BY <1>10, <4>6
    <3> QED
      BY <3>2, <3>3
  <2> QED
    BY <2>1, <2>2, <2>3, <2>4
<1> QED
  BY <1>9, <1>11 DEF Fates

(* Nothing else closes a group, and what is lost stays lost.                *)
LEMMA FatesLast ==
  ASSUME Fates, DOMAIN groups' = DOMAIN groups,
         \A k \in DOMAIN groups :
           groups'[k].data = groups[k].data /\ groups'[k].parity = groups[k].parity,
         UNCHANGED <<high_water, arrived, received>>,
         LostPackets \subseteq LostPackets', wired \subseteq wired',
         \A k \in Key : Done(k) => DataOf(wired', k) \subseteq DataOf(wired, k),
         running \/ (running' = running /\ wired' = wired)
  PROVE  Fates'
<1>1. Arrivals'
  BY ArrivalsLast DEF Fates
<1>2. ASSUME NEW k \in Key, Closed(groups', high_water', k)
      PROVE  Done(k)' \/ Dead(k)' \/ Silent(k)'
  <2>1. Closed(groups, high_water, k)
    BY <1>2 DEF Closed
  <2>2. CASE Done(k)
    <3>1. DataOf(wired, k) = DataOf(wired', k)
      BY <2>2 DEF DataOf
    <3> QED
      BY <2>2, <3>1 DEF Done
  <2>3. CASE Dead(k)
    BY <2>3 DEF Dead
  <2>4. CASE Silent(k)
    BY <2>4 DEF Silent, HasParity
  <2> QED
    BY <2>1, <2>2, <2>3, <2>4 DEF Fates
<1> QED
  BY <1>1, <1>2 DEF Fates

(* submit() adds to no group that is over.                                  *)
LEMMA SendFates ==
  ASSUME TypeOK, LinkInv, FirstSender, Turns, Fates, SendNext
  PROVE  Fates'
<1> DEFINE m == [run |-> run, seq |-> seq]
           d == DataFor(m)
           Q == PacketsOf(pending_parity)
           l == next_lane
           n == Len(lanes[l].pending)
<1>1. /\ Transmit /\ running
      /\ UNCHANGED <<groups, high_water, arrived, received>>
  BY DEF SendNext, Transmit, DecoderIdle
<1>2. wired' = (wired \cup Q) \cup {d} /\ Airborne' = Airborne \cup (Q \cup {d})
  BY <1>1, SendWires, Launches
<1>3. d \notin wired /\ \A p \in Q : p \notin wired /\ p.type = "PARITY"
  BY SendsNew
<1>4. /\ d.type = "DATA" /\ d.key = <<l, lanes[l].group_index>> /\ d.group_seq = n
      /\ l \in Lane /\ n \in Slot
  <2>1. l \in Lane /\ Len(lanes[l].pending) < GroupSize
    BY DEF TypeOK, EncoderTypeOK
  <2>2. n \in Nat
    BY <2>1, WhoseTurn DEF FirstSender
  <2> QED
    BY <2>1, <2>2, LinkNumbers DEF DataFor, DataPacket, Slot
<1>5. \A q \in DataOf(wired, d.key) : q.group_seq # n
  <2>1. \A q \in DataOf(wired, d.key) : q.group_seq < n
    BY <1>4 DEF FirstSender, OpenGroup
  <2>2. n \in Int
    BY <1>4 DEF Slot
  <2> QED
    BY <2>1, <2>2
<1> HIDE DEF m, d, Q, n
<1>6. LostPackets \subseteq LostPackets'
  BY <1>1, <1>2, <1>3 DEF LostPackets
<1>7. ASSUME NEW k \in Key, Done(k) PROVE DataOf(wired', k) \subseteq DataOf(wired, k)
  <2>1. d.key # k
    BY <1>4, <1>5, <1>7 DEF Done
  <2> QED
    BY <1>2, <1>3, <2>1 DEF DataOf
<1> QED
  BY <1>1, <1>2, <1>6, <1>7, FatesLast

(* Nor does the flush.                                                      *)
LEMMA StopFates ==
  ASSUME TypeOK, LinkInv, Turns, Fates, StopSender
  PROVE  Fates'
<1> DEFINE Q == PacketsOf(pending_parity)
<1>1. /\ Transmit /\ running
      /\ UNCHANGED <<groups, high_water, arrived, received>>
  BY DEF StopSender, Transmit, DecoderIdle
<1>2. wired' = wired \cup Q /\ Airborne' = Airborne \cup Q
  BY <1>1, StopWires, Launches
<1>3. \A p \in Q : p \notin wired /\ p.type = "PARITY"
  BY ParityWaits DEF Turns
<1> HIDE DEF Q
<1>4. LostPackets \subseteq LostPackets'
  BY <1>1, <1>2, <1>3 DEF LostPackets
<1>5. \A k \in Key : DataOf(wired', k) \subseteq DataOf(wired, k)
  BY <1>2, <1>3 DEF DataOf
<1> QED
  BY <1>1, <1>2, <1>4, <1>5, FatesLast

(* poll() keeps every group to its clock and to its end.                    *)
LEMMA PollRecovers ==
  ASSUME InTime, TypeOK, LinkInv, FirstRun, run = 1, Turns, Clocks, Fates,
         NEW p, p = NoPacket \/ p \in Airborne, Poll(p),
         received' = received \cup out', arrived' \subseteq (arrived \cup {p}) \cap wired,
         LostPackets' = LostPackets, flight' \subseteq flight,
         UNCHANGED <<wired, encoder, sender, listening>>
  PROVE  Turns' /\ Clocks' /\ Fates'
<1>1. p = NoPacket \/ p \in wired
  BY DEF Airborne, LinkInv, WireInv
<1>2. UNCHANGED <<lanes, pending_parity, seq, running, due>>
  BY DEF encoder, sender
<1>3. Turns'
  BY <1>2 DEF Turns, HasParity
<1>4. Clocks'
  BY <1>1, <1>2, PollClocks
<1>5. Fates'
  BY <1>2, SweepFates
<1> QED
  BY <1>3, <1>4, <1>5

(* Every step of the first run, without reconnects.                         *)
LEMMA RecoveryNext ==
  ASSUME NeverWraps, InTime, TypeOK, LinkInv, FirstRun, Recovery, [Next]_vars
  PROVE  Recovery'
<1>1. CASE RestartSender
  <2>1. run' = run + 1 /\ run \in Nat \ {0}
    BY <1>1, WorldTyped DEF RestartSender, TypeOK
  <2> QED
    BY <2>1 DEF Recovery
<1>2. CASE ~RestartSender
  <2>1. run' = run /\ world' = world
    BY <1>2 DEF Next, vars, SendNext, StopSender, Lose, Receive, ReceiveDies, ReceiveNothing,
                Tick, sender
  <2> SUFFICES ASSUME run = 1, world.stall = 0 PROVE Turns' /\ Clocks' /\ Fates'
    BY <2>1 DEF Recovery
  <2>2. Turns /\ Clocks /\ Fates /\ FirstSender
    BY DEF Recovery, FirstRun
  <2>3. CASE SendNext
    <3>1. /\ running /\ due = 0 /\ seq' = seq + 1 /\ Transmit /\ running'
          /\ due' \in Period..Period + 0
      BY <2>3 DEF SendNext
    <3>2. due' = Period
      BY <3>1, LinkNumbers
    <3>3. Turns'
      BY <2>2, <2>3, SendTurns
    <3>4. \A p \in PacketsOf(emitted') : p.key \in Key /\ seq <= ParityTurn(p.key)
      BY <2>2, <2>3, SendWires, SendsInTurn
    <3>5. Clocks'
      BY <2>2, <3>1, <3>2, <3>4, TransmitClocks
    <3>6. Fates'
      BY <2>2, <2>3, SendFates
    <3> QED
      BY <3>3, <3>5, <3>6
  <2>4. CASE StopSender
    <3>1. /\ running /\ due = 0 /\ seq' = seq /\ Transmit /\ ~running' /\ due' = 0
      BY <2>4 DEF StopSender
    <3>2. Turns'
      BY <2>2, <2>4, StopTurns
    <3>3. \A p \in PacketsOf(emitted') : p.key \in Key /\ seq <= ParityTurn(p.key)
      BY <2>2, <2>4, StopWires, SendsInTurn
    <3>4. Clocks'
      BY <2>2, <3>1, <3>3, TransmitClocks
    <3>5. Fates'
      BY <2>2, <2>4, StopFates
    <3> QED
      BY <3>2, <3>4, <3>5
  <2>5. CASE Tick
    <3>1. /\ groups' = Aged /\ flight' = {[f EXCEPT !.age = @ + 1] : f \in flight}
          /\ UNCHANGED <<high_water, lanes, pending_parity, seq, running, wired, arrived, received>>
      BY <2>5 DEF Tick, encoder
    <3>2. Turns'
      BY <2>2, <3>1 DEF Turns, HasParity
    <3>3. Clocks'
      BY <2>2, <2>5, TickClocks
    <3>4. /\ DOMAIN groups' = DOMAIN groups
          /\ \A k \in DOMAIN groups :
               groups'[k].data = groups[k].data /\ groups'[k].parity = groups[k].parity
      <4>1. DOMAIN groups' = DOMAIN groups
        BY <3>1 DEF Aged
      <4>2. ASSUME NEW k \in DOMAIN groups
            PROVE  groups'[k].data = groups[k].data /\ groups'[k].parity = groups[k].parity
        <5>1. groups[k] \in GroupRecord
          BY DEF TypeOK, DecoderTypeOK
        <5>2. groups'[k] = [groups[k] EXCEPT !.age = IF groups[k].age > LongestWait
                              THEN groups[k].age ELSE groups[k].age + 1]
          BY <3>1 DEF Aged
        <5> QED
          BY <5>1, <5>2 DEF GroupRecord
      <4> QED
        BY <4>1, <4>2
    <3>5. LostPackets' = LostPackets
      <4>1. ASSUME NEW f \in flight' PROVE \E e \in flight : f.pkt = e.pkt
        <5>1. PICK e \in flight : f = [e EXCEPT !.age = e.age + 1]
          BY <3>1
        <5> QED
          BY <5>1
      <4>2. ASSUME NEW e \in flight PROVE \E f \in flight' : f.pkt = e.pkt
        <5> DEFINE f == [e EXCEPT !.age = e.age + 1]
        <5>1. f \in flight'
          BY <3>1
        <5>2. f.pkt = e.pkt
          OBVIOUS
        <5> HIDE DEF f
        <5> QED
          BY <5>1, <5>2
      <4>3. Airborne' = Airborne
        BY <4>1, <4>2 DEF Airborne
      <4> QED
        BY <3>1, <4>3 DEF LostPackets
    <3>6. Fates'
      BY <2>2, <3>1, <3>4, <3>5, FatesLast
    <3> QED
      BY <3>2, <3>3, <3>6
  <2>6. ASSUME NEW f \in flight, Lose(f) PROVE Turns' /\ Clocks' /\ Fates'
    <3>1. /\ flight' \subseteq flight
          /\ UNCHANGED <<groups, high_water, lanes, pending_parity, seq, running, due, listening,
                         wired, arrived, received>>
      BY <2>6 DEF Lose, DecoderIdle, encoder, sender
    <3>2. Turns'
      BY <2>2, <3>1 DEF Turns, HasParity
    <3>3. Clocks'
      BY <2>2, <3>1 DEF Clocks
    <3>4. LostPackets \subseteq LostPackets'
      BY <3>1 DEF LostPackets, Airborne
    <3>5. Fates'
      BY <2>2, <3>1, <3>4, FatesLast
    <3> QED
      BY <3>2, <3>3, <3>5
  <2>7. ASSUME NEW f \in flight, Receive(f) PROVE Turns' /\ Clocks' /\ Fates'
    <3>1. /\ Poll(f.pkt) /\ received' = received \cup out' /\ arrived' = arrived \cup {f.pkt}
          /\ flight \ {f} \subseteq flight' /\ flight' \subseteq flight
          /\ UNCHANGED <<wired, listening, encoder, sender>>
      BY <2>7 DEF Receive
    <3>2. f.pkt \in Airborne /\ f.pkt \in wired /\ arrived \subseteq wired
      BY DEF Airborne, LinkInv, WireInv, TypeOK
    <3>3. LostPackets' = LostPackets
      BY <3>1, <3>2 DEF LostPackets, Airborne
    <3> QED
      BY <2>2, <3>1, <3>2, <3>3, PollRecovers
  <2>8. CASE ReceiveNothing
    <3>1. /\ Poll(NoPacket) /\ received' = received \cup out'
          /\ UNCHANGED <<flight, wired, arrived, listening, encoder, sender>>
      BY <2>8 DEF ReceiveNothing, network
    <3>2. arrived \subseteq wired /\ LostPackets' = LostPackets
      BY <3>1 DEF LostPackets, Airborne, TypeOK
    <3> QED
      BY <2>2, <3>1, <3>2, PollRecovers
  <2>9. ASSUME NEW f \in flight, ReceiveDies(f) PROVE FALSE
    <3>1. PollRaises(f.pkt) /\ f.pkt \in wired
      BY <2>9 DEF ReceiveDies, LinkInv, WireInv
    <3> QED
      BY <3>1, NeverDies
  <2>10. CASE UNCHANGED vars
    <3>1. UNCHANGED <<lanes, pending_parity, groups, high_water, seq, running, due, flight,
                      wired, arrived, listening, received>>
      BY <2>10 DEF vars, encoder, decoder, sender, network
    <3>2. Turns' /\ Clocks'
      BY <2>2, <3>1 DEF Turns, HasParity, Clocks
    <3>3. Fates'
      BY <2>2, <3>1 DEF Fates, Arrivals, Held, Closed, Done, Dead, Silent, DataOf, HasParity,
                         LostPackets, Airborne
    <3> QED
      BY <3>2, <3>3
  <2> QED
    BY <1>2, <2>3, <2>4, <2>5, <2>6, <2>7, <2>8, <2>9, <2>10 DEF Next
<1> QED
  BY <1>1, <1>2

(* At first no group has begun.                                             *)
LEMMA RecoveryInit == Init => Recovery
<1> SUFFICES ASSUME Init PROVE Turns /\ Clocks /\ Fates
  BY DEF Recovery
<1>1. /\ wired = {} /\ arrived = {} /\ flight = {} /\ seq = 0 /\ due = 0 /\ running = TRUE
      /\ groups = << >> /\ pending_parity = <<>> /\ listening = TRUE
      /\ lanes = EmptyLanes /\ high_water = [l \in Lane |-> -1]
  BY DEF Init, EncoderInit, DecoderInit
<1>2. DOMAIN groups = {} /\ PacketsOf(pending_parity) = {}
  BY <1>1 DEF PacketsOf
<1>3. \A k \in Key : k[1] \in Lane /\ k[2] \in Nat
  BY DEF Key, Group
<1>4. \A k \in Key : ~(k[2] < lanes[k[1]].group_index)
  BY <1>1, <1>3 DEF EmptyLanes
<1>5. \A k \in Key : ~(k[2] <= high_water[k[1]])
  BY <1>1, <1>3
<1>6. Turns
  BY <1>1, <1>2, <1>4, FS_EmptySet DEF Turns
<1>7. Clocks
  BY <1>1, <1>2, LinkNumbers DEF Clocks
<1>8. Fates
  BY <1>1, <1>5 DEF Fates, Arrivals, Closed
<1> QED
  BY <1>6, <1>7, <1>8

(* The ends a group may have leave nothing out when at most one packet of   *)
(* it did not arrive.                                                       *)
LEMMA RecoveryRecovers ==
  ASSUME TypeOK, LinkInv, FirstRun, Recovery
  PROVE  OneLossRecovered
<1> SUFFICES ASSUME run = 1, world.stall = 0, NEW p \in wired, Settled(p),
                    Cardinality(GroupPackets(p) \ arrived) <= 1,
                    NEW q \in GroupPackets(p), q.type = "DATA"
             PROVE  q.payload \in received
  BY DEF OneLossRecovered
<1> DEFINE k == p.key
           G == {r \in wired : r.key = k}
<1>1. Turns /\ Clocks /\ Fates /\ FirstSender
  BY DEF Recovery, FirstRun
<1>2. k \in Key
  BY DEF TypeOK, Packet
<1>3. ASSUME NEW r \in wired PROVE RunOf(r) = 1
  <2>1. r.payload # {} /\ r.type \in {"DATA", "PARITY"}
    BY DEF TypeOK, Packet
  <2>2. \A m \in r.payload : m.run = 1
    <3>1. CASE r.type = "DATA"
      BY <1>1, <3>1 DEF Turns
    <3>2. CASE r.type = "PARITY"
      <4>1. r.payload = UNION {s.payload : s \in DataOf(wired, r.key)}
        BY <1>1, <3>2 DEF FirstSender, Covers
      <4>2. \A s \in DataOf(wired, r.key) : \A m \in s.payload : m.run = 1
        BY <1>1 DEF Turns, DataOf
      <4> QED
        BY <4>1, <4>2
    <3> QED
      BY <2>1, <3>1, <3>2
  <2>3. (CHOOSE m \in r.payload : TRUE) \in r.payload
    BY <2>1
  <2> QED
    BY <2>2, <2>3 DEF RunOf
<1>4. GroupPackets(p) = G
  BY <1>3 DEF GroupPackets
<1>5. PICK r \in G : r.type = "PARITY"
  BY <1>4 DEF Settled
<1>6. k \notin DOMAIN groups /\ G \cap Airborne = {}
  BY <1>4 DEF Settled
<1>7. PICK s \in DataOf(wired, k) : s.group_seq = 0
  <2>1. 0 \in Slot
    BY LinkNumbers DEF Slot
  <2> QED
    BY <1>1, <1>5, <2>1 DEF FirstSender, Covers
<1>8. s \in G /\ s # r
  BY <1>5 DEF DataOf
<1> HIDE DEF G
<1>9. ASSUME NEW x \in G \ arrived, NEW y \in G \ arrived, x # y PROVE FALSE
  <2>1. IsFiniteSet(G \ arrived)
    <3>1. IsFiniteSet(wired) /\ G \ arrived \subseteq wired
      BY <1>1 DEF Turns, G
    <3> QED
      BY <3>1, FS_Subset
  <2>2. IsFiniteSet({x}) /\ Cardinality({x}) = 1
    BY FS_Singleton
  <2>3. Cardinality({x} \cup {y}) = 2
    <3>1. Cardinality({x} \cup {y}) = Cardinality({x}) + 1
      <4>1. y \notin {x}
        BY <1>9
      <4> DEFINE S == {x}
      <4> HIDE DEF S
      <4> QED
        BY <2>2, <4>1, FS_AddElement DEF S
    <3> QED
      BY <2>2, <3>1
  <2>4. {x} \cup {y} \subseteq G \ arrived
    OBVIOUS
  <2>5. Cardinality({x} \cup {y}) <= Cardinality(G \ arrived)
    BY <2>1, <2>4, FS_Subset
  <2>6. Cardinality(G \ arrived) \in Nat
    BY <2>1, FS_CardinalityType
  <2> QED
    BY <1>4, <2>3, <2>5, <2>6
<1>10. Closed(groups, high_water, k)
  <2>1. s \in arrived \/ r \in arrived
    BY <1>5, <1>8, <1>9
  <2>2. s.key = k /\ r.key = k
    BY <1>5, <1>8 DEF G
  <2> QED
    BY <1>1, <1>6, <2>1, <2>2 DEF Fates, Arrivals, Closed
<1>11. ~Dead(k)
  <2>1. ASSUME NEW x \in LostPackets, x.key = k PROVE x \in G \ arrived
    BY <2>1 DEF LostPackets, G
  <2> QED
    BY <1>9, <2>1 DEF Dead
<1>12. ~Silent(k)
  BY <1>5 DEF Silent, HasParity, G
<1>13. Done(k)
  BY <1>1, <1>2, <1>10, <1>11, <1>12 DEF Fates
<1>14. q \in DataOf(wired, k)
  BY <1>4 DEF DataOf, G
<1> QED
  BY <1>13, <1>14 DEF Done

(* fec_packet.hpp promises that the parity of a group recovers one loss:    *)
(* with a sender that keeps to its period, and a receiver that waits for as *)
(* long as a group takes to send and a datagram to arrive, whichever packet *)
(* is lost, and in whatever order the others come, all of the group's       *)
(* messages are handed over.                                                *)
THEOREM RecoversOneLoss ==
  ASSUME NeverWraps, InTime PROVE Spec => []OneLossRecovered
<1>1. LinkInv /\ [Next]_vars => LinkInv'
  BY LinkNext
<1>2. TypeOK /\ LinkInv /\ FirstRun /\ [Next]_vars => FirstRun'
  BY FirstRunNext
<1>3. TypeOK /\ LinkInv /\ FirstRun /\ Recovery /\ [Next]_vars => Recovery'
  BY RecoveryNext
<1>4. TypeOK /\ LinkInv /\ FirstRun /\ Recovery => OneLossRecovered
  BY RecoveryRecovers
<1> QED
  BY <1>1, <1>2, <1>3, <1>4, LinkInit, FirstRunInit, RecoveryInit, LinkTyped, PTL DEF Spec
============================================================================
