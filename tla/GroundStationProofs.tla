------------------------ MODULE GroundStationProofs ------------------------
(***************************************************************************)
(* Proofs about GroundStation, for any set of browsers, any number of      *)
(* messages and any number of restarts of the sender.                      *)
(***************************************************************************)
EXTENDS GroundStation, FiniteSetTheorems, TLAPS

(* A payload x that somebody holds is no newer than y, which exists then.   *)
Behind(x, y) == x # {} => y # {} /\ Seq(x) <= Seq(y)

Held == Payload \cup {{}}
Place == {"absent", "check", "asleep", "snapshot", "write", "gone"}

(* Everything a thread or a browser holds was in the store at some time.    *)
Holdings ==
  /\ sent \subseteq Payload /\ received \subseteq sent /\ pending \subseteq received
  /\ latest \in Held
  /\ client \in [Clients -> Place]
  /\ event \in [Clients -> Held] /\ shown \in [Clients -> Held]

(* The store is ahead of the snapshots, and a snapshot that is about to be  *)
(* written of what the browser shows.                                       *)
InOrder(c) ==
  /\ Behind(shown[c], latest) /\ Behind(event[c], latest)
  /\ client[c] = "write" => Behind(shown[c], event[c])

OrderInv == Holdings /\ \A c \in Clients : InOrder(c)

-----------------------------------------------------------------------------
(* A payload is numbered.                                                   *)
LEMMA SeqIsNumber == ASSUME NEW p \in Payload PROVE Seq(p) \in Nat /\ p # {}
<1>1. PICK m \in Message : p = {m}
  BY DEF Payload
<1>2. (CHOOSE n \in p : TRUE) \in p
  BY <1>1
<1>3. MaxSeq \in Nat
  BY StationAssumption
<1> QED
  BY <1>1, <1>2, <1>3 DEF Seq, Message

(* What is behind something that is behind is behind.                       *)
LEMMA BehindTransitive ==
  ASSUME NEW x \in Held, NEW y \in Held, NEW z \in Held, Behind(x, y), Behind(y, z)
  PROVE  Behind(x, z)
<1>1. CASE x = {}
  BY <1>1 DEF Behind
<1>2. CASE x # {}
  <2>1. y # {} /\ z # {} /\ Seq(x) <= Seq(y) /\ Seq(y) <= Seq(z)
    BY <1>2 DEF Behind
  <2>2. Seq(x) \in Nat /\ Seq(y) \in Nat /\ Seq(z) \in Nat
    BY <1>2, <2>1, SeqIsNumber DEF Held
  <2> QED
    BY <2>1, <2>2 DEF Behind
<1> QED
  BY <1>1, <1>2

(* Nothing is behind itself by more than nothing.                           *)
LEMMA BehindReflexive == ASSUME NEW x \in Held PROVE Behind(x, x)
  BY SeqIsNumber DEF Held, Behind

-----------------------------------------------------------------------------
(* The store only takes a payload that its last one is behind.              *)
LEMMA StoreStep ==
  ASSUME OrderInv, NEW p \in pending, Update(p)
  PROVE  OrderInv' /\ UNCHANGED shown
<1> USE DEF OrderInv
<1>1. /\ UNCHANGED <<sent, received, event, shown>>
      /\ pending' = pending \ {p}
      /\ \/ latest' = p /\ Forward(p) /\ client' = Woken
         \/ UNCHANGED <<latest, client>>
  BY DEF Update, link, store
<1>2. p \in Payload
  BY DEF Holdings
<1>3. latest' \in Held /\ Behind(latest, latest')
  <2>1. CASE latest' = p /\ Forward(p)
    <3>1. latest # {} => Seq(latest) \in Nat /\ Seq(p) \in Nat
      BY <1>2, SeqIsNumber DEF Holdings, Held
    <3> QED
      BY <1>2, <2>1, <3>1, SeqIsNumber DEF Forward, Behind, Held
  <2>2. CASE latest' = latest
    BY <2>2, BehindReflexive DEF Holdings
  <2> QED
    BY <1>1, <2>1, <2>2
<1>4. /\ client' \in [Clients -> Place]
      /\ \A c \in Clients : client'[c] = "write" => client[c] = "write"
  <2>1. CASE client' = Woken
    BY <2>1 DEF Holdings, Woken, Place
  <2>2. CASE client' = client
    BY <2>2 DEF Holdings
  <2> QED
    BY <1>1, <2>1, <2>2
<1>5. Holdings'
  BY <1>1, <1>3, <1>4 DEF Holdings
<1>6. ASSUME NEW c \in Clients PROVE InOrder(c)'
  <2>1. shown[c] \in Held /\ event[c] \in Held /\ latest \in Held
    BY DEF Holdings
  <2>2. Behind(shown[c], latest) /\ Behind(event[c], latest)
    BY DEF InOrder
  <2>3. Behind(shown[c], latest') /\ Behind(event[c], latest')
    BY <1>3, <2>1, <2>2, BehindTransitive
  <2>4. client'[c] = "write" => Behind(shown[c], event[c])
    BY <1>4 DEF InOrder
  <2> QED
    BY <1>1, <2>3, <2>4 DEF InOrder
<1> QED
  BY <1>1, <1>5, <1>6

(* A thread takes a snapshot of what is newest, and shows what it has taken. *)
LEMMA ThreadStep ==
  ASSUME OrderInv, NEW c \in Clients,
         Connect(c) \/ Serve(c) \/ KeepAlive(c) \/ Disconnect(c)
  PROVE  /\ OrderInv'
         /\ \A d \in Clients : Behind(shown[d], shown'[d])
<1> USE DEF OrderInv
<1>1. UNCHANGED <<sent, received, pending, latest>>
  BY DEF Connect, Serve, KeepAlive, Disconnect, Changed, Wait, Snapshot, Write,
         Thread, link, store
<1>2. \A d \in Clients : /\ shown[d] \in Held /\ event[d] \in Held
                         /\ latest \in Held /\ Behind(shown[d], shown[d])
  BY BehindReflexive DEF Holdings
<1>3. CASE Snapshot(c)
  <2>1. /\ client' = [client EXCEPT ![c] = "write"] /\ shown' = shown
        /\ event' = [event EXCEPT ![c] = latest]
    BY <1>3 DEF Snapshot, Thread
  <2>2. Holdings'
    BY <1>1, <1>2, <2>1 DEF Holdings, Place
  <2>3. ASSUME NEW d \in Clients PROVE InOrder(d)'
    <3>1. CASE d = c
      <4>1. event'[d] = latest
        BY <2>1, <3>1 DEF Holdings
      <4> QED
        BY <1>1, <2>1, <4>1, BehindReflexive DEF InOrder, Holdings
    <3>2. CASE d # c
      <4>1. event'[d] = event[d] /\ client'[d] = client[d]
        BY <2>1, <3>2 DEF Holdings
      <4> QED
        BY <1>1, <2>1, <4>1 DEF InOrder
    <3> QED
      BY <3>1, <3>2
  <2> QED
    BY <1>2, <2>1, <2>2, <2>3
<1>4. CASE Write(c)
  <2>1. /\ client[c] = "write" /\ client' = [client EXCEPT ![c] = "check"]
        /\ shown' = [shown EXCEPT ![c] = event[c]] /\ event' = event
    BY <1>4 DEF Write, Thread
  <2>2. Holdings'
    BY <1>1, <1>2, <2>1 DEF Holdings, Place
  <2>3. ASSUME NEW d \in Clients PROVE InOrder(d)' /\ Behind(shown[d], shown'[d])
    <3>1. CASE d = c
      <4>1. shown'[d] = event[d] /\ client'[d] = "check"
        BY <2>1, <3>1 DEF Holdings
      <4>2. Behind(shown[d], event[d]) /\ Behind(event[d], latest)
        BY <2>1, <3>1 DEF InOrder
      <4> QED
        BY <1>1, <2>1, <4>1, <4>2 DEF InOrder
    <3>2. CASE d # c
      <4>1. shown'[d] = shown[d] /\ client'[d] = client[d]
        BY <2>1, <3>2 DEF Holdings
      <4> QED
        BY <1>1, <1>2, <2>1, <4>1 DEF InOrder
    <3> QED
      BY <3>1, <3>2
  <2> QED
    BY <2>2, <2>3
<1>5. CASE Connect(c) \/ Changed(c) \/ Wait(c) \/ KeepAlive(c) \/ Disconnect(c)
  <2>1. PICK to \in Place \ {"write"} : client' = [client EXCEPT ![c] = to]
    <3>1. CASE Connect(c) \/ KeepAlive(c)
      BY <3>1 DEF Connect, KeepAlive, Thread, Place
    <3>2. CASE Changed(c)
      BY <3>2 DEF Changed, Thread, Place
    <3>3. CASE Wait(c)
      BY <3>3 DEF Wait, Thread, Place
    <3>4. CASE Disconnect(c)
      BY <3>4 DEF Disconnect, Thread, Place
    <3> QED
      BY <1>5, <3>1, <3>2, <3>3, <3>4
  <2>2. event' = event /\ shown' = shown
    BY <1>5 DEF Connect, Changed, Wait, KeepAlive, Disconnect
  <2>3. /\ client' \in [Clients -> Place]
        /\ \A d \in Clients : client'[d] = "write" => client[d] = "write"
    BY <2>1 DEF Holdings
  <2>4. Holdings'
    BY <1>1, <2>2, <2>3 DEF Holdings
  <2>5. \A d \in Clients : InOrder(d)'
    BY <1>1, <2>2, <2>3 DEF InOrder
  <2> QED
    BY <1>2, <2>2, <2>4, <2>5
<1> QED
  BY <1>3, <1>4, <1>5 DEF Serve

(* At first there is nothing to be out of order.                            *)
LEMMA OrderAtFirst == Init => OrderInv
<1> SUFFICES ASSUME Init PROVE OrderInv
  OBVIOUS
<1>1. /\ sent = {} /\ received = {} /\ pending = {} /\ latest = {}
      /\ \A c \in Clients : shown[c] = {} /\ event[c] = {} /\ client[c] = "absent"
  BY DEF Init, Feed!Init
<1>2. Holdings
  BY <1>1 DEF Init, Holdings, Held, Place
<1> QED
  BY <1>1, <1>2 DEF OrderInv, InOrder, Behind

(* No step of the link, of the store or of a thread disturbs the order.     *)
LEMMA OrderStep ==
  ASSUME OrderInv, [Next]_vars
  PROVE  OrderInv' /\ \A c \in Clients : Behind(shown[c], shown'[c])
<1>1. \A c \in Clients : Behind(shown[c], shown[c])
  BY BehindReflexive DEF OrderInv, Holdings
<1>2. CASE Send
  <2>1. PICK m \in Message : sent' = sent \cup {{m}}
    BY <1>2 DEF Send
  <2>2. UNCHANGED <<received, pending, store, screens>>
    BY <1>2 DEF Send, Feed!Send
  <2> QED
    BY <1>1, <2>1, <2>2
    DEF OrderInv, Holdings, InOrder, Payload, store, screens
<1>3. CASE Poll
  <2>1. PICK S \in SUBSET (sent \ received) : Feed!HandOver(S) /\ pending' = S
    BY <1>3 DEF Poll
  <2>2. UNCHANGED <<store, screens>>
    BY <1>3 DEF Poll
  <2> QED
    BY <1>1, <2>1, <2>2
    DEF OrderInv, Holdings, InOrder, Feed!HandOver, store, screens
<1>4. CASE Store
  BY <1>1, <1>4, StoreStep DEF Store
<1>5. CASE UNCHANGED vars
  BY <1>1, <1>5
  DEF OrderInv, Holdings, InOrder, vars, link, store, screens
<1>6. ASSUME NEW c \in Clients,
             Connect(c) \/ Serve(c) \/ KeepAlive(c) \/ Disconnect(c)
      PROVE  OrderInv' /\ \A d \in Clients : Behind(shown[d], shown'[d])
  BY <1>6, ThreadStep
<1> QED
  BY <1>2, <1>3, <1>4, <1>5, <1>6 DEF Next

(* Whatever the order in which payloads arrive and threads run, across any  *)
(* number of restarts of the sender, no browser goes back.                  *)
THEOREM NoBrowserGoesBack == Spec => DisplayGoesForward
<1>1. ASSUME OrderInv, [Next]_vars
      PROVE  OrderInv' /\ \A c \in Clients : Behind(shown[c], shown'[c])
  BY <1>1, OrderStep
<1>2. ASSUME OrderInv, OrderInv', NEW c \in Clients,
             Behind(shown[c], shown'[c]), shown[c] # {}
      PROVE  Seq(shown'[c]) >= Seq(shown[c])
  <2>1. shown[c] \in Payload /\ shown'[c] \in Payload
    BY <1>2 DEF OrderInv, Holdings, Held, Behind
  <2> QED
    BY <1>2, <2>1, SeqIsNumber DEF Behind
<1>3. OrderInv /\ [Next]_vars =>
        [\A c \in Clients : shown[c] # {} => Seq(shown'[c]) >= Seq(shown[c])]_vars
  BY <1>1, <1>2
<1> QED
  BY <1>1, <1>3, OrderAtFirst, PTL DEF Spec, DisplayGoesForward

-----------------------------------------------------------------------------
(* The store counts what it takes, and every payload it was handed is       *)
(* taken, dropped or still pending.                                         *)
Counted ==
  /\ IsFiniteSet(sent)
  /\ version \in Nat
  /\ version + Cardinality(pending) <= Cardinality(received)

(* What is in transit, received or pending is finite, as is what was sent.  *)
LEMMA FiniteLink ==
  ASSUME Holdings, IsFiniteSet(sent)
  PROVE  /\ IsFiniteSet(received) /\ IsFiniteSet(pending)
         /\ Cardinality(received) \in Nat /\ Cardinality(pending) \in Nat
<1>1. IsFiniteSet(received)
  BY FS_Subset DEF Holdings
<1>2. IsFiniteSet(pending)
  BY <1>1, FS_Subset DEF Holdings
<1> QED
  BY <1>1, <1>2, FS_CardinalityType

(* A browser has not seen a version that the store has not had, and a       *)
(* thread sleeps only on the newest.                                        *)
Versions ==
  /\ last_version \in [Clients -> Int]
  /\ \A c \in Clients :
       /\ last_version[c] \in -1..version
       /\ client[c] = "asleep" => last_version[c] = version

(* Sending and polling add payloads to be stored, and change no version.    *)
LEMMA LinkCounted ==
  ASSUME Holdings, Counted, Send \/ Poll
  PROVE  Counted' /\ UNCHANGED <<store, screens>>
<1> USE FiniteLink DEF Counted
<1>1. CASE Send
  <2>1. PICK m \in Message : sent' = sent \cup {{m}}
    BY <1>1 DEF Send
  <2>2. UNCHANGED <<received, pending, store, screens>>
    BY <1>1 DEF Send, Feed!Send
  <2> QED
    BY <2>1, <2>2, FS_AddElement DEF store
<1>2. CASE Poll
  <2>1. PICK S \in SUBSET (sent \ received) : Feed!HandOver(S) /\ pending' = S
    BY <1>2 DEF Poll
  <2>2. /\ pending = {} /\ received' = received \cup S
        /\ UNCHANGED <<sent, store, screens>>
    BY <1>2, <2>1 DEF Poll, Feed!HandOver
  <2>3. IsFiniteSet(S) /\ Cardinality(S) \in Nat
    BY <2>1, FS_Subset, FS_CardinalityType
  <2>4. received \cap S = {}
    BY <2>1
  <2>5. Cardinality(received \cup S) = Cardinality(received) + Cardinality(S)
    <3>1. Cardinality(received \cup S) =
            Cardinality(received) + Cardinality(S) - Cardinality(received \cap S)
      BY <2>3, FS_Union
    <3>2. Cardinality(received \cap S) = 0
      BY <2>4, FS_EmptySet
    <3> QED
      BY <2>3, <3>1, <3>2
  <2>6. version <= Cardinality(received)
    BY <2>2, FS_EmptySet
  <2> QED
    BY <2>1, <2>2, <2>3, <2>5, <2>6 DEF store
<1> QED
  BY <1>1, <1>2

(* A payload that is stored is not pending any more.                        *)
LEMMA StoreCounted ==
  ASSUME Holdings, Counted, Versions, NEW p \in pending, Update(p)
  PROVE  Counted' /\ Versions'
<1> USE FiniteLink DEF Counted
<1>1. /\ UNCHANGED <<sent, received, last_version>>
      /\ pending' = pending \ {p}
      /\ \/ version' = version + 1 /\ client' = Woken
         \/ UNCHANGED <<version, client>>
  BY DEF Update, link, store
<1>2. Cardinality(pending') = Cardinality(pending) - 1
  BY <1>1, FS_RemoveElement
<1>3. Counted'
  BY <1>1, <1>2
<1>4. CASE version' = version + 1 /\ client' = Woken
  <2>1. \A c \in Clients : client'[c] # "asleep"
    BY <1>4 DEF Woken
  <2> QED
    BY <1>1, <1>3, <1>4, <2>1 DEF Versions
<1>5. CASE UNCHANGED <<version, client>>
  BY <1>1, <1>3, <1>5 DEF Versions
<1> QED
  BY <1>1, <1>4, <1>5

(* A thread reads the version before it sleeps.                             *)
LEMMA ThreadVersions ==
  ASSUME Holdings, Versions, NEW c \in Clients, version \in Nat,
         Connect(c) \/ Serve(c) \/ KeepAlive(c) \/ Disconnect(c)
  PROVE  Versions' /\ UNCHANGED <<link, pending, store>>
<1>1. UNCHANGED <<link, pending, store>>
  BY DEF Connect, Serve, KeepAlive, Disconnect, Changed, Wait, Snapshot, Write, Thread
<1>2. CASE Wait(c)
  <2>1. /\ version = last_version[c] /\ last_version' = last_version
        /\ client' = [client EXCEPT ![c] = "asleep"]
    BY <1>2 DEF Wait, Thread
  <2>2. \A d \in Clients : client'[d] = IF d = c THEN "asleep" ELSE client[d]
    BY <2>1 DEF Holdings
  <2> QED
    BY <1>1, <2>1, <2>2 DEF Versions, store
<1>3. CASE Changed(c)
  <2>1. /\ last_version' = [last_version EXCEPT ![c] = version]
        /\ client' = [client EXCEPT ![c] = "snapshot"]
    BY <1>3 DEF Changed, Thread
  <2>2. \A d \in Clients : client'[d] = IF d = c THEN "snapshot" ELSE client[d]
    BY <2>1 DEF Holdings
  <2>3. /\ last_version' \in [Clients -> Int]
        /\ \A d \in Clients :
             last_version'[d] = IF d = c THEN version ELSE last_version[d]
    BY <2>1 DEF Versions
  <2> QED
    BY <1>1, <2>2, <2>3 DEF Versions, store
<1>4. CASE Connect(c) \/ Snapshot(c) \/ Write(c) \/ KeepAlive(c) \/ Disconnect(c)
  <2>1. last_version' = last_version
    BY <1>4 DEF Connect, Snapshot, Write, VersionWritten, KeepAlive, Disconnect
  <2>2. PICK to \in Place \ {"asleep"} : client' = [client EXCEPT ![c] = to]
    <3>1. CASE Connect(c) \/ KeepAlive(c)
      BY <3>1 DEF Connect, KeepAlive, Thread, Place
    <3>2. CASE Snapshot(c)
      BY <3>2 DEF Snapshot, Thread, Place
    <3>3. CASE Write(c)
      BY <3>3 DEF Write, Thread, Place
    <3>4. CASE Disconnect(c)
      BY <3>4 DEF Disconnect, Thread, Place
    <3> QED
      BY <1>4, <3>1, <3>2, <3>3, <3>4
  <2>3. \A d \in Clients : client'[d] = "asleep" => client[d] = "asleep"
    BY <2>2 DEF Holdings
  <2> QED
    BY <1>1, <2>1, <2>3 DEF Versions, store
<1> QED
  BY <1>1, <1>2, <1>3, <1>4 DEF Serve

(* Every variable holds a value of its kind, and no thread sleeps through a *)
(* version it has not seen.                                                 *)
THEOREM StationTyped == Spec => []TypeOK
<1>1. Init => OrderInv /\ Counted /\ Versions
  <2> SUFFICES ASSUME Init PROVE OrderInv /\ Counted /\ Versions
    OBVIOUS
  <2>1. /\ sent = {} /\ received = {} /\ pending = {} /\ version = 0
        /\ last_version = [c \in Clients |-> -1]
        /\ \A c \in Clients : client[c] = "absent"
    BY DEF Init, Feed!Init
  <2>2. Counted
    BY <2>1, FS_EmptySet DEF Counted
  <2>3. Versions
    BY <2>1 DEF Versions
  <2> QED
    BY <2>2, <2>3, OrderAtFirst
<1>2. ASSUME OrderInv, Counted, Versions, [Next]_vars
      PROVE  (OrderInv /\ Counted /\ Versions)'
  <2>0. OrderInv' /\ Holdings /\ version \in Nat
    BY <1>2, OrderStep DEF OrderInv, Counted
  <2>1. CASE Send \/ Poll
    BY <1>2, <2>0, <2>1, LinkCounted DEF Versions, store, screens
  <2>2. CASE Store
    BY <1>2, <2>0, <2>2, StoreCounted DEF Store
  <2>3. ASSUME NEW c \in Clients,
               Connect(c) \/ Serve(c) \/ KeepAlive(c) \/ Disconnect(c)
        PROVE  (OrderInv /\ Counted /\ Versions)'
    BY <1>2, <2>0, <2>3, ThreadVersions DEF Counted, link, store
  <2>4. CASE UNCHANGED vars
    BY <1>2, <2>0, <2>4 DEF Counted, Versions, vars, link, store, screens
  <2> QED
    BY <1>2, <2>1, <2>2, <2>3, <2>4 DEF Next
<1>3. OrderInv /\ Counted /\ Versions => TypeOK
  <2> SUFFICES ASSUME OrderInv, Counted, Versions PROVE TypeOK
    OBVIOUS
  <2>1. version \in 0..Cardinality(received)
    BY FiniteLink DEF OrderInv, Counted
  <2>2. last_version \in [Clients -> -1..version]
    BY DEF Versions
  <2> QED
    BY <2>1, <2>2 DEF OrderInv, Holdings, Held, Place, Versions, TypeOK
<1> QED
  BY <1>1, <1>2, <1>3, PTL DEF Spec
============================================================================
