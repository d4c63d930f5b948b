----------------------------- MODULE FecPacket -----------------------------
(***************************************************************************)
(* The wire format shared by the telemetry sender and the ground station,  *)
(* gcs/sender/fec_packet.hpp.                                              *)
(*                                                                         *)
(* A payload is the set of the messages XORed into it: {m} for a message   *)
(* sent as it is, the messages of a group for its parity, {} for no        *)
(* payload.  XOR of two payloads is then their symmetric difference.  A    *)
(* message is the run of the sender that made it and its "seq" field.      *)
(* Headers carry only what the decoder looks at: magic, payload_len and    *)
(* crc32 tell an intact packet from a damaged one, and a damaged packet is *)
(* dropped like a lost one; seq and parity_count are never read.           *)
(***************************************************************************)
EXTENDS Integers, Sequences, FiniteSetsExt

CONSTANTS
  NLanes,      (* lanes: groups in flight at once                            *)
  GroupSize,   (* group_size: data packets per group                         *)
  GroupWrap    (* 2^16, the values of the lane_group field                   *)

ASSUME PacketAssumption ==
  {NLanes, GroupSize, GroupWrap} \subseteq Nat \ {0}

Lane  == 0..NLanes - 1
Slot  == 0..GroupSize - 1
Group == 0..GroupWrap - 1
Key   == Lane \X Group

Message == [run : Nat, seq : Nat]

Xor(p, q) == (p \ q) \cup (q \ p)

DataPacket(l, g, i, m) ==
  [type |-> "DATA", key |-> <<l, g>>, group_seq |-> i, payload |-> {m}]
ParityPacket(l, g, ms) ==
  [type |-> "PARITY", key |-> <<l, g>>, group_seq |-> 0, payload |-> ms]

Packet == [type : {"DATA", "PARITY"}, key : Key, group_seq : Slot,
           payload : (SUBSET Message) \ {{}}]
============================================================================
