----------------------------- MODULE Guidance -----------------------------
(***************************************************************************)
(* The control laws of approach_target() in control/control.cpp: forward   *)
(* speed and yaw rate from the target's range and bearing, descent from the *)
(* altitude with its hysteresis.                                           *)
(*                                                                         *)
(* Units make the laws exact on integers.  A length is counted in tenths   *)
(* of a metre and a vertical or full-alignment speed in twentieths of a    *)
(* metre per second, so the gains k_forward and kAltGain (0.5 1/s) are one *)
(* unit of speed per unit of length; a bearing is in pixels and a yaw rate *)
(* in k_yaw_px (0.006 rad/s), so that gain is one as well; a forward speed *)
(* carries the further factor yaw_align_px of the alignment taper.         *)
(***************************************************************************)
EXTENDS Integers

CONSTANTS
  StopDistance,    (* stop_distance                                          *)
  MaxForward,      (* max_forward_speed                                      *)
  MaxYawRate,      (* max_yaw_rate                                           *)
  YawAlign,        (* yaw_align_px                                           *)
  HardLimit,       (* altitude_limit.hard_limit_m                            *)
  RecoveryMargin,  (* altitude_limit.recovery_margin_m                       *)
  MinDescent,      (* kAltMinDescent                                         *)
  MaxDescent       (* altitude_limit.descent_speed_mps                       *)

(* std::clamp is undefined when its bounds are crossed, hence the last.   *)
ASSUME GuidanceAssumption ==
  /\ {StopDistance, MaxForward, MaxYawRate, HardLimit, RecoveryMargin} \subseteq Nat
  /\ {YawAlign, MinDescent, MaxDescent} \subseteq Nat \ {0}
  /\ MinDescent <= MaxDescent

Clamp(x, lo, hi) == IF x < lo THEN lo ELSE IF x > hi THEN hi ELSE x
Magnitude(x)     == IF x < 0 THEN -x ELSE x

(* align: 1 straight ahead, falling linearly to 0 at yaw_align_px. *)
Alignment(px) == Clamp(YawAlign - Magnitude(px), 0, YawAlign)

Approach(distance) ==
  Clamp(distance - StopDistance, 0, MaxForward)

Forward(distance, px) == Approach(distance) * Alignment(px)

YawRate(px) == Clamp(px, -MaxYawRate, MaxYawRate)

(* Mutation of Enforcing: no hysteresis.                                    *)
EnforcingAboveLimit(altitude, enforcing) == altitude > HardLimit

(* The altitude correction and the state of its hysteresis after one pass   *)
(* that was at this altitude.                                               *)
Enforcing(altitude, enforcing) ==
  \/ altitude > HardLimit
  \/ enforcing /\ altitude > HardLimit - RecoveryMargin

Descent(altitude, enforcing) ==
  IF altitude > HardLimit
  THEN Clamp(altitude - HardLimit, MinDescent, MaxDescent)
  ELSE IF Enforcing(altitude, enforcing) THEN MinDescent ELSE 0
===========================================================================
