--------------------------- MODULE FlightHandoff ---------------------------
(***************************************************************************)
(* What control/control.cpp promises about who flies the vehicle, without  *)
(* saying how it finds out that something is wrong:                        *)
(*                                                                         *)
(*   - it steers only while it is "tracking"; in every other phase it asks *)
(*     for no movement;                                                    *)
(*   - danger takes it from tracking to "holding" (LOITER), and it comes   *)
(*     back only after Rest units of time without danger;                  *)
(*   - "landing" is for good, and so is "abandoned", the phase in which    *)
(*     the program has died and nobody steers.                             *)
(***************************************************************************)
EXTENDS Integers

CONSTANT Rest   (* a natural number                                        *)

VARIABLES phase,   (* tracking, holding, landing, abandoned                  *)
          moving,  (* the newest command asks for forward or turning motion  *)
          quiet    (* time since danger was last seen                        *)

handoff == <<phase, moving, quiet>>

InFlight == phase \in {"tracking", "holding"}

Init == phase = "tracking" /\ moving = FALSE /\ quiet = Rest + 1

(* Time passes; the newest command is behind us. *)
Wait ==
  /\ InFlight
  /\ moving' = FALSE
  /\ quiet' \in quiet..Rest + 1
  /\ UNCHANGED phase

Danger ==
  /\ InFlight
  /\ phase' = "holding"
  /\ moving' = FALSE
  /\ quiet' = 0

Steer ==
  /\ phase = "tracking" \/ (phase = "holding" /\ quiet >= Rest)
  /\ phase' = "tracking"
  /\ moving' \in BOOLEAN
  /\ UNCHANGED quiet

LandNow ==
  /\ InFlight
  /\ phase' = "landing"
  /\ moving' = FALSE
  /\ UNCHANGED quiet

Die ==
  /\ phase # "abandoned"
  /\ phase' = "abandoned"
  /\ moving' = FALSE
  /\ quiet' \in {0, quiet}

Next == Wait \/ Danger \/ Steer \/ LandNow \/ Die

Spec == Init /\ [][Next]_handoff
============================================================================
