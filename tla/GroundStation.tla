--------------------------- MODULE GroundStation ---------------------------
(***************************************************************************)
(* gcs/tools/gcs_bridge.py behind the telemetry link: receive_loop() puts  *)
(* what the decoder hands over into the TelemetryStore, and every browser  *)
(* that opens /telemetry/stream has a thread that waits for a new version, *)
(* takes a snapshot and writes it.  The link is its abstract specification *)
(* TelemetryFeed, which FecLink implements.                                *)
(*                                                                         *)
(* A critical section of the store's lock is one step.  Between the return *)
(* of wait_for_update() and snapshot() the lock is free.                   *)
(***************************************************************************)
EXTENDS Integers, FiniteSets

CONSTANTS
  Clients,    (* the browsers                                                *)
  MaxSeq,     (* bound: telemetry messages of one run of the sender          *)
  MaxRuns     (* bound: runs of the sender                                   *)

ASSUME StationAssumption == {MaxSeq, MaxRuns} \subseteq Nat \ {0}

VARIABLES
  sent, received, deliveries,   (* the link, see TelemetryFeed                *)
  pending,     (* payloads the last poll() returned that are still to be stored *)
  latest,      (* _latest: the message shown; {} at first                    *)
  version,     (* _version                                                   *)
  client,      (* where each client's thread stands                          *)
  last_version,
  event,       (* the snapshot a client's thread is about to write           *)
  shown        (* what each browser shows                                    *)

link    == <<sent, received, deliveries>>
store   == <<latest, version>>
screens == <<client, last_version, event, shown>>
vars    == <<link, pending, store, screens>>

Feed == INSTANCE TelemetryFeed

Message == [run : 1..MaxRuns, seq : 0..MaxSeq - 1]
Payload == {{m} : m \in Message}

Seq(p) == (CHOOSE m \in p : TRUE).seq
Run(p) == (CHOOSE m \in p : TRUE).run

(* The sender numbers its messages from 0, again in every run. *)
Send ==
  /\ \E m \in Message :
       /\ {m} \notin sent
       /\ \A p \in sent : Run(p) <= m.run
       /\ m.seq = Cardinality({p \in sent : Run(p) = m.run})
       /\ sent' = sent \cup {{m}}
  /\ Feed!Send
  /\ UNCHANGED <<pending, store, screens>>

(* poll() returns; receive_loop() goes through what it returned. *)
Poll ==
  /\ pending = {}
  /\ \E S \in SUBSET (sent \ received) :
       /\ S # {}
       /\ Feed!HandOver(S)
       /\ pending' = S
  /\ UNCHANGED <<store, screens>>

(* Mutation of Forward: what came last is shown.                            *)
Newest(p) == TRUE

Forward(p) == latest = {} \/ Seq(p) >= Seq(latest)

(* Mutation of Woken: notify() for notify_all(): the others sleep on.        *)
OneWoken ==
  [c \in Clients |->
    IF client[c] = "asleep" /\ c = CHOOSE d \in Clients : client[d] = "asleep"
    THEN "check" ELSE client[c]]

Woken == [c \in Clients |-> IF client[c] = "asleep" THEN "check" ELSE client[c]]

(* TelemetryStore.update(). *)
Update(p) ==
  /\ pending' = pending \ {p}
  /\ IF Forward(p)
     THEN latest' = p /\ version' = version + 1 /\ client' = Woken
     ELSE UNCHANGED <<store, client>>
  /\ UNCHANGED <<link, last_version, event, shown>>

(***************************************************************************)
(* A client's thread, _send_sse().                                         *)
(***************************************************************************)
Thread(c, from, to) ==
  /\ client[c] = from
  /\ client' = [client EXCEPT ![c] = to]
  /\ UNCHANGED <<link, pending, store>>

Connect(c) ==
  /\ Thread(c, "absent", "check")
  /\ UNCHANGED <<last_version, event, shown>>

(* wait_for_update(): the version has changed, or the thread sleeps. *)
Changed(c) ==
  /\ version # last_version[c]
  /\ Thread(c, "check", "snapshot")
  /\ last_version' = [last_version EXCEPT ![c] = version]
  /\ UNCHANGED <<event, shown>>

Wait(c) ==
  /\ version = last_version[c]
  /\ Thread(c, "check", "asleep")
  /\ UNCHANGED <<last_version, event, shown>>

(* 15 s are over: a keep-alive comment is written. *)
KeepAlive(c) ==
  /\ Thread(c, "asleep", "check")
  /\ UNCHANGED <<last_version, event, shown>>

Snapshot(c) ==
  /\ Thread(c, "snapshot", "write")
  /\ event' = [event EXCEPT ![c] = latest]
  /\ UNCHANGED <<last_version, shown>>

(* Mutation of VersionWritten: the version is read again, after the snapshot. *)
VersionNow(c) == last_version' = [last_version EXCEPT ![c] = version]

VersionWritten(c) == UNCHANGED last_version

Write(c) ==
  /\ Thread(c, "write", "check")
  /\ shown' = [shown EXCEPT ![c] = event[c]]
  /\ VersionWritten(c)
  /\ UNCHANGED event

(* A write to a closed connection ends the thread. *)
Disconnect(c) ==
  /\ \E from \in {"write", "asleep"} : Thread(c, from, "gone")
  /\ UNCHANGED <<last_version, event, shown>>

(***************************************************************************)
Init ==
  /\ Feed!Init
  /\ pending = {}
  /\ latest = {} /\ version = 0
  /\ client = [c \in Clients |-> "absent"]
  /\ last_version = [c \in Clients |-> -1]
  /\ event = [c \in Clients |-> {}]
  /\ shown = [c \in Clients |-> {}]

Store == \E p \in pending : Update(p)
Serve(c) == Changed(c) \/ Wait(c) \/ Snapshot(c) \/ Write(c)

Next ==
  \/ Send \/ Poll \/ Store
  \/ \E c \in Clients : Connect(c) \/ Serve(c) \/ KeepAlive(c) \/ Disconnect(c)

Spec == Init /\ [][Next]_vars

(* Threads run; nothing makes a browser connect or the link deliver. *)
FairSpec == Spec /\ WF_vars(Store) /\ \A c \in Clients : WF_vars(Serve(c))

-----------------------------------------------------------------------------
(* Every variable holds a value of its kind, and a thread sleeps only while *)
(* it has seen the store's version.                                         *)
TypeOK ==
  /\ received \subseteq sent /\ sent \subseteq Payload
  /\ pending \subseteq received
  /\ latest \in Payload \cup {{}}
  /\ version \in 0..Cardinality(received)
  /\ client \in [Clients -> {"absent", "check", "asleep", "snapshot", "write", "gone"}]
  /\ last_version \in [Clients -> -1..version]
  /\ \A c \in Clients : client[c] = "asleep" => last_version[c] = version
  /\ event \in [Clients -> Payload \cup {{}}]
  /\ shown \in [Clients -> Payload \cup {{}}]

(* gcs_bridge.py: "only move the displayed state forward": no browser ever  *)
(* goes back to an older message, though payloads come in any order and a   *)
(* snapshot may be newer than the version that caused it.                   *)
DisplayGoesForward ==
  [][\A c \in Clients : shown[c] # {} => Seq(shown'[c]) >= Seq(shown[c])]_vars

(* A browser that stays connected comes to show what the store holds, or    *)
(* something newer: no update falls between the wait and the snapshot.      *)
BrowsersCatchUp ==
  \A c \in Clients, p \in Payload :
    latest = p /\ client[c] # "absent" ~>
      \/ client[c] = "gone"
      \/ shown[c] # {} /\ Seq(shown[c]) >= Seq(p)

=============================================================================
