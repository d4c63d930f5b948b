------------------------- MODULE MCApproachControl -------------------------
(***************************************************************************)
(* Instances of ApproachControl for TLC.  Lengths are in the units of      *)
(* Guidance, shrunk: the hard limit is 5, the recovery margin 2, the stop  *)
(* distance 2, and the taper closes at 2 pixels.                           *)
(***************************************************************************)
EXTENDS ApproachControl

Pkt(alt_valid, found, altitude, distance, px) ==
  [altitude_valid |-> alt_valid, found |-> found,
   valid |-> alt_valid /\ found,
   altitude |-> altitude, distance |-> distance, x_px |-> px]

(* Every class of altitude (low, within the margin, above the limit), and   *)
(* each way in which there is no target to fly to.                          *)
SafetyPackets ==
  {Pkt(TRUE, TRUE, 3, 1, -3), Pkt(TRUE, TRUE, 4, 6, 1), Pkt(TRUE, TRUE, 7, 6, 0),
   Pkt(TRUE, FALSE, 4, 0, 0), Pkt(FALSE, TRUE, 7, 6, 0)}

(* A target to fly to, and one whose altitude is not known.                 *)
LivenessPackets == {Pkt(TRUE, TRUE, 3, 6, 0), Pkt(FALSE, TRUE, 3, 6, 0)}
=============================================================================
