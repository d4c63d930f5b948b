---------------------------- MODULE FecEncoder ----------------------------
(***************************************************************************)
(* The interleaved single-parity encoder of gcs/sender/fec_encoder.cpp.    *)
(* submit() hands each message to the next lane in turn; a lane whose      *)
(* group is full queues the group's parity, which goes out at the start of *)
(* the next submit().  "emitted" holds the packets the last call gave to   *)
(* send_, in order.                                                        *)
(***************************************************************************)
EXTENDS FecPacket

VARIABLES
  next_lane,
  lanes,            (* lane -> its group_index and the messages pending in it *)
  pending_parity,   (* the queue of parity packets not yet sent               *)
  emitted

encoder == <<next_lane, lanes, pending_parity, emitted>>

EmptyLanes == [l \in Lane |-> [group_index |-> 0, pending |-> <<>>]]

EncoderInit ==
  /\ next_lane = 0
  /\ lanes = EmptyLanes
  /\ pending_parity = <<>>
  /\ emitted = <<>>

(* Mutation of OthersPending: the queue is read but not popped.             *)
KeepPending == pending_parity

(* emit_one_pending_parity(): what it emits, and the queue it leaves.       *)
OnePending   == IF pending_parity = <<>> THEN <<>> ELSE <<Head(pending_parity)>>
OthersPending == IF pending_parity = <<>> THEN <<>> ELSE Tail(pending_parity)

Pending(l) == {lanes[l].pending[i] : i \in DOMAIN lanes[l].pending}

(* The packet of message m, were it submitted now. *)
DataFor(m) ==
  DataPacket(next_lane, lanes[next_lane].group_index,
             Len(lanes[next_lane].pending), m)
ParityFor(m) ==
  ParityPacket(next_lane, lanes[next_lane].group_index,
               Pending(next_lane) \cup {m})

StartNewGroup(l) ==
  lanes' = [lanes EXCEPT ![l] =
              [group_index |-> (lanes[l].group_index + 1) % GroupWrap,
               pending     |-> <<>>]]

Submit(m) ==
  /\ emitted' = OnePending \o <<DataFor(m)>>
  /\ next_lane' = (next_lane + 1) % NLanes
  /\ IF Len(lanes[next_lane].pending) + 1 = GroupSize
     THEN /\ pending_parity' = Append(OthersPending, ParityFor(m))
          /\ StartNewGroup(next_lane)
     ELSE /\ pending_parity' = OthersPending
          /\ lanes' = [lanes EXCEPT ![next_lane].pending = Append(@, m)]

Flush ==
  /\ emitted' = OnePending
  /\ pending_parity' = OthersPending
  /\ UNCHANGED <<next_lane, lanes>>

(* A new process: the encoder is constructed afresh. *)
EncoderRestart ==
  /\ next_lane' = 0
  /\ lanes' = EmptyLanes
  /\ pending_parity' = <<>>
  /\ emitted' = <<>>

EncoderTypeOK ==
  /\ next_lane \in Lane
  /\ lanes \in [Lane -> [group_index : Group, pending : Seq(Message)]]
  /\ \A l \in Lane : Len(lanes[l].pending) < GroupSize
  /\ pending_parity \in Seq(Packet) /\ Len(pending_parity) <= 1
  /\ emitted \in Seq(Packet) /\ Len(emitted) <= 2
===========================================================================
