------------------------- MODULE ApproachControl -------------------------
(***************************************************************************)
(* approach_target() of control/control.cpp: the 20 Hz loop that flies the *)
(* vehicle towards the target, and the part of main() that runs after it.  *)
(*                                                                         *)
(* One action is one pass through the loop body, from cycle_start to the   *)
(* sleep_until, the break or the return that ends it.  What the pass reads *)
(* (the newest packet on the target link and at most one vehicle-health    *)
(* message) is chosen by \E from what those reads can return; the order of *)
(* the tests is the order of the code.                                     *)
(*                                                                         *)
(* Time is counted in units of one control cycle.  The code keeps time     *)
(* points and subtracts them from cycle_start; this module keeps the       *)
(* differences, under the names the code gives them, as of the cycle_start *)
(* of the pass that ran last.  An age stops growing one past the largest   *)
(* threshold it is compared with: no test tells larger ages apart.         *)
(*                                                                         *)
(* Lengths, angles and speeds are integers in units in which the control   *)
(* laws are exact, see Guidance.                                           *)
(***************************************************************************)
EXTENDS Guidance, Sequences

CONSTANTS
  Packets,          (* the TargetRangeMsg values target_distance may send     *)
  LinkStale,        (* link_stale_ms                                          *)
  InitialLinkAge,   (* start - last_valid before any packet: 10 s             *)
  MaxGap,           (* heartbeat_limit.max_gap_sec: LOITER past this          *)
  LandGap,          (* heartbeat_limit.land_gap_sec: LAND past this           *)
  LostLand,         (* target_lost_land_sec                                   *)
  LoiterMin,        (* kMinLoiterHoldSec                                      *)
  Durations,        (* the values approach_duration_sec may have; 0: no limit *)
  MaxDelay,         (* a cycle that overruns lasts at most this many periods  *)
  RequirePrearm,    (* vehicle_health_limit.require_prearm_healthy            *)
  RequireNormal     (* vehicle_health_limit.require_normal_state              *)

(* What target_distance.cpp puts in a packet: it is valid exactly when the  *)
(* altitude is fresh and the target was found.                              *)
Packet ==
  {p \in [altitude_valid : BOOLEAN, found : BOOLEAN, valid : BOOLEAN,
          altitude : Int, distance : Int, x_px : Int] :
     p.valid <=> p.altitude_valid /\ p.found}

(* `TargetRangeMsg last{}`, before the first packet. *)
ZeroPacket ==
  [altitude_valid |-> FALSE, found |-> FALSE, valid |-> FALSE,
   altitude |-> 0, distance |-> 0, x_px |-> 0]

ASSUME ApproachAssumption ==
  /\ Packets \subseteq Packet
  /\ {LinkStale, InitialLinkAge, MaxGap, LandGap, LostLand, LoiterMin}
     \subseteq Nat
  /\ Durations \subseteq Nat
  /\ InitialLinkAge > LinkStale
  /\ MaxDelay \in Nat \ {0}
  /\ {RequirePrearm, RequireNormal} \subseteq BOOLEAN

VARIABLES
  pc,                   (* where the program stands between two passes        *)
  last,                 (* the newest packet received                         *)
  link_age,             (* time since it arrived                              *)
  altitude_ever_valid,
  target_lost,          (* target_lost_sec                                    *)
  health,               (* the readings of HealthState that a breach depends on *)
  heartbeat_gap,
  alt_enforcing,
  in_loiter,
  held,                 (* held_sec: time since loiter_since                  *)
  duration,             (* duration_sec, the flight-time limit of this flight *)
  elapsed,              (* elapsed_sec                                        *)
  sent,                 (* the commands the last pass sent, in order          *)
  calm,                 (* history: time since a pass found a breach          *)
  descending            (* history: the last setpoint on fresh news descended *)

readings == <<last, link_age, altitude_ever_valid, target_lost, health,
              heartbeat_gap>>
vars == <<pc, readings, alt_enforcing, in_loiter, held, duration, elapsed, sent,
          calm, descending>>

(***************************************************************************)
(* The commands of drone_lib.cpp.                                          *)
(***************************************************************************)
Velocity(vx, yaw_rate, vz) ==
  [cmd |-> "VELOCITY", vx |-> vx, yaw_rate |-> yaw_rate, vz |-> vz]
SetMode(m) == [cmd |-> "SET_MODE", mode |-> m]
Land       == [cmd |-> "LAND"]
Stop       == Velocity(0, 0, 0)

Command == [cmd : {"VELOCITY"}, vx : Int, yaw_rate : Int, vz : Int]
           \cup [cmd : {"SET_MODE"}, mode : {"GUIDED", "LOITER"}]
           \cup {Land}

(***************************************************************************)
(* The first half of a pass: what it reads.                                *)
(***************************************************************************)
Later(age, limit, d) == IF age + d > limit THEN limit + 1 ELSE age + d

GapLimit == IF MaxGap > LandGap THEN MaxGap ELSE LandGap

(* receiver.poll(): nothing arrived, or the newest of what did. *)
Polls == {[last |-> last, link_age |-> link_age]}
         \cup {[last |-> p, link_age |-> 0] : p \in Packets}

LinkFresh(r) == r.link_age <= LinkStale
(* Mutation of Tracking: a stale packet still counts.                       *)
TrackingWhenStale(r) == r.last.valid /\ r.last.found
Tracking(r)  == LinkFresh(r) /\ r.last.valid /\ r.last.found
LostFor(r)   == IF Tracking(r) THEN 0 ELSE target_lost
EverValid(r) == altitude_ever_valid \/ r.last.altitude_valid

(* recv_match(): no message within 5 ms, or one of the four kinds.          *)
HealthMsg ==
  [type : {"NONE"}]
  \cup [type : {"SYS_STATUS"}, battery_low : BOOLEAN, prearm_healthy : BOOLEAN]
  \cup [type : {"GPS_RAW_INT", "EKF_STATUS_REPORT"}, poor : BOOLEAN]
  \cup [type : {"HEARTBEAT"}, armed : BOOLEAN, critical : BOOLEAN]

(* A heartbeat that reports a disarm makes the pass return before armed and *)
(* last_heartbeat are assigned.                                             *)
Disarmed(m) == m.type = "HEARTBEAT" /\ health.armed /\ ~m.armed

GapAfter(m) ==
  IF m.type = "HEARTBEAT" /\ ~Disarmed(m) THEN 0 ELSE heartbeat_gap

(* A reading that is missing or "not reported" is never a breach, so it is  *)
(* the same value here as a good one; have_armed is subsumed by armed.      *)
HealthAfter(m) ==
  CASE m.type = "SYS_STATUS" ->
         [health EXCEPT !.have_sys = TRUE, !.battery_low = m.battery_low,
                        !.prearm_healthy = m.prearm_healthy]
    [] m.type = "GPS_RAW_INT" -> [health EXCEPT !.gps_poor = m.poor]
    [] m.type = "EKF_STATUS_REPORT" -> [health EXCEPT !.ekf_poor = m.poor]
    [] m.type = "HEARTBEAT" ->
         [health EXCEPT !.critical = m.critical,
                        !.armed = health.armed \/ m.armed]
    [] OTHER -> health

(* evaluate_health_breach(), and the altitude test that follows it. *)
HealthBreach(h, gap) ==
  \/ gap > MaxGap
  \/ h.battery_low
  \/ h.gps_poor
  \/ h.have_sys /\ RequirePrearm /\ ~h.prearm_healthy
  \/ h.have_sys /\ RequireNormal /\ h.critical
  \/ h.ekf_poor

Breach(r, m) ==
  \/ HealthBreach(HealthAfter(m), GapAfter(m))
  \/ EverValid(r) /\ ~r.last.altitude_valid

(* Mutation of TimeIsUp: the limit is missed when a pass overruns.          *)
TimeIsUpExactly == duration > 0 /\ elapsed = duration

TimeIsUp == duration > 0 /\ elapsed >= duration

(* The assignments every pass makes that gets beyond the duration test. *)
Poll(r) ==
  /\ pc = "tick"
  /\ ~TimeIsUp
  /\ last' = r.last
  /\ link_age' = r.link_age
  /\ altitude_ever_valid' = EverValid(r)
  /\ target_lost' = LostFor(r)
  /\ UNCHANGED <<duration, elapsed>>

Read(r, m) ==
  /\ Poll(r)
  /\ health' = HealthAfter(m)
  /\ heartbeat_gap' = GapAfter(m)

(***************************************************************************)
(* The second half: the ways a pass can end, in the order of the tests.    *)
(***************************************************************************)
(* Mutations of MustLand: a health breach hides a lost target; the          *)
(* heartbeat gap stays with LOITER.                                         *)
MustLandUnlessBreach(r, m) ==
  Disarmed(m) \/ GapAfter(m) > LandGap \/ (LostFor(r) > LostLand /\ ~Breach(r, m))
MustLandIgnoringGap(r, m) == Disarmed(m) \/ LostFor(r) > LostLand

MustLand(r, m) == Disarmed(m) \/ GapAfter(m) > LandGap \/ LostFor(r) > LostLand

(* The flight-time limit ends the loop before anything is read. *)
TimeUp ==
  /\ pc = "tick"
  /\ TimeIsUp
  /\ pc' = "leaving"
  /\ sent' = <<>>
  /\ UNCHANGED <<readings, alt_enforcing, in_loiter, held, duration, elapsed,
                 calm, descending>>

(* drone::land() inside the loop swallows a failing send; then return. *)
LandAndReturn ==
  /\ pc' = "leaving"
  /\ sent' \in {<<Land>>, <<>>}
  /\ UNCHANGED <<alt_enforcing, in_loiter, held, calm, descending>>

(* An unexpected disarm. *)
DisarmLand(r, m) ==
  /\ Read(r, m)
  /\ Disarmed(m)
  /\ LandAndReturn

(* No heartbeat for longer than land_gap_sec. *)
HeartbeatLand(r, m) ==
  /\ Read(r, m)
  /\ ~Disarmed(m)
  /\ GapAfter(m) > LandGap
  /\ LandAndReturn

(* The target lost for longer than target_lost_land_sec. *)
TargetLostLand(r, m) ==
  /\ Read(r, m)
  /\ ~Disarmed(m)
  /\ GapAfter(m) <= LandGap
  /\ LostFor(r) > LostLand
  /\ LandAndReturn

(* Mutation of HandOff: the wrong mode. *)
HandOffToAltHold == IF in_loiter THEN <<>> ELSE <<SetMode("ALT_HOLD")>>

HandOff == IF in_loiter THEN <<>> ELSE <<SetMode("LOITER")>>

(* Mutation of RestartHold: the hold is timed from the first breach only. *)
StartHoldOnce == held' = IF in_loiter THEN held ELSE 0

(* loiter_since = cycle_start, on every pass with a breach. *)
RestartHold == held' = 0

HoldOver == held >= LoiterMin

(* Mutation of LeaveLoiter: the flag is never cleared. *)
KeepLoiterFlag == UNCHANGED in_loiter

LeaveLoiter == in_loiter' = FALSE

(* A breach: LOITER is commanded once, and the hold time starts again on    *)
(* every pass on which the breach is still there.                           *)
EnterLoiter(r, m) ==
  /\ Read(r, m)
  /\ ~MustLand(r, m)
  /\ Breach(r, m)
  /\ pc' = "sleep"
  /\ sent' = HandOff
  /\ in_loiter' = TRUE
  /\ RestartHold
  /\ calm' = 0
  /\ UNCHANGED <<alt_enforcing, descending>>

(* The velocity command of a pass that has got this far: forward and yaw    *)
(* only while tracking, a descent only while the link is fresh.             *)
Setpoint(r) ==
  Velocity(IF Tracking(r) THEN Forward(r.last.distance, r.last.x_px) ELSE 0,
           IF Tracking(r) THEN YawRate(r.last.x_px) ELSE 0,
           IF LinkFresh(r) THEN Descent(r.last.altitude, alt_enforcing) ELSE 0)

(* The breach is gone but the minimum hold time is not over. *)
HoldLoiter(r, m) ==
  /\ Read(r, m)
  /\ ~MustLand(r, m)
  /\ ~Breach(r, m)
  /\ in_loiter
  /\ ~HoldOver
  /\ pc' = "sleep"
  /\ sent' = <<>>
  /\ UNCHANGED <<alt_enforcing, in_loiter, held, calm, descending>>

CanGuide(r, m) ==
  /\ Read(r, m)
  /\ ~MustLand(r, m)
  /\ ~Breach(r, m)
  /\ in_loiter => HoldOver
  /\ LeaveLoiter
  /\ alt_enforcing' = IF LinkFresh(r)
                      THEN Enforcing(r.last.altitude, alt_enforcing)
                      ELSE alt_enforcing
  /\ UNCHANGED <<held, calm>>

Guide(r, m) ==
  /\ CanGuide(r, m)
  /\ pc' = "sleep"
  /\ sent' = IF in_loiter THEN <<SetMode("GUIDED"), Setpoint(r)>>
                          ELSE <<Setpoint(r)>>
  /\ descending' = IF LinkFresh(r) THEN Setpoint(r).vz > 0 ELSE descending

(* A send that throws leaves approach_target() by an exception: FinallyGuard *)
(* tries to send a zero velocity (ignoring a second failure) and main()     *)
(* returns 1 without commanding LAND.  First set_mode(), on entering or on  *)
(* leaving LOITER, then send_velocity_body().                               *)
SetModeThrows(r, m) ==
  /\ Read(r, m)
  /\ ~MustLand(r, m)
  /\ IF Breach(r, m) THEN ~in_loiter ELSE in_loiter /\ HoldOver
  /\ pc' = "failed"
  /\ sent' \in {<<>>, <<Stop>>}
  /\ calm' = IF Breach(r, m) THEN 0 ELSE calm
  /\ UNCHANGED <<alt_enforcing, in_loiter, held, descending>>

VelocityThrows(r, m) ==
  /\ CanGuide(r, m)
  /\ pc' = "failed"
  /\ sent' \in IF in_loiter
               THEN {<<SetMode("GUIDED")>>, <<SetMode("GUIDED"), Stop>>}
               ELSE {<<>>, <<Stop>>}
  /\ UNCHANGED descending

(* recv_match() can throw as well, after the packet was taken. *)
ReceiveThrows(r) ==
  /\ Poll(r)
  /\ UNCHANGED <<health, heartbeat_gap>>
  /\ pc' = "failed"
  /\ sent' \in {<<>>, <<Stop>>}
  /\ UNCHANGED <<alt_enforcing, in_loiter, held, calm, descending>>

(* sleep_until(next_tick), or longer when the pass overran its period. *)
Sleep(d) ==
  /\ pc = "sleep"
  /\ pc' = "tick"
  /\ sent' = <<>>
  /\ link_age' = Later(link_age, LinkStale, d)
  /\ target_lost' = Later(target_lost, LostLand, d)
  /\ heartbeat_gap' = Later(heartbeat_gap, GapLimit, d)
  /\ held' = Later(held, LoiterMin, d)
  /\ calm' = Later(calm, LoiterMin, d)
  /\ elapsed' = IF duration > 0 THEN Later(elapsed, duration, d) ELSE 0
  /\ UNCHANGED <<last, altitude_ever_valid, health, alt_enforcing, in_loiter,
                 duration, descending>>

(* After the loop: FinallyGuard's zero velocity, whose failure is ignored,  *)
(* and then main()'s own drone::land(), whose failure is exit code 1.       *)
Finish ==
  /\ pc = "leaving"
  /\ \/ pc' = "done"   /\ sent' \in {<<Stop, Land>>, <<Land>>}
     \/ pc' = "failed" /\ sent' \in {<<Stop>>, <<>>}
  /\ UNCHANGED <<readings, alt_enforcing, in_loiter, held, duration, elapsed,
                 calm, descending>>

(***************************************************************************)
Init ==
  /\ pc = "tick"
  /\ last = ZeroPacket
  /\ link_age = Later(0, LinkStale, InitialLinkAge)
  /\ altitude_ever_valid = FALSE
  /\ target_lost = 0
  /\ health = [have_sys |-> FALSE, battery_low |-> FALSE,
               prearm_healthy |-> TRUE, critical |-> FALSE,
               gps_poor |-> FALSE, ekf_poor |-> FALSE, armed |-> FALSE]
  /\ heartbeat_gap = 0
  /\ alt_enforcing = FALSE
  /\ in_loiter = FALSE
  /\ held = 0
  /\ duration \in Durations
  /\ elapsed = 0
  /\ sent = <<>>
  /\ calm = LoiterMin + 1
  /\ descending = FALSE

Tick ==
  \/ TimeUp
  \/ \E r \in Polls, m \in HealthMsg :
       \/ DisarmLand(r, m)
       \/ HeartbeatLand(r, m)
       \/ TargetLostLand(r, m)
       \/ EnterLoiter(r, m)
       \/ HoldLoiter(r, m)
       \/ Guide(r, m)
       \/ SetModeThrows(r, m)
       \/ VelocityThrows(r, m)
  \/ \E r \in Polls : ReceiveThrows(r)

Next == Tick \/ (\E d \in 1..MaxDelay : Sleep(d)) \/ Finish

Spec == Init /\ [][Next]_vars

(* The loop runs on the program's only thread and every call in it returns: *)
(* poll() does not block, recv_match() gives up after 5 ms, and a send that *)
(* fails throws.                                                            *)
FairSpec ==
  Spec /\ WF_vars(Tick) /\ WF_vars(\E d \in 1..MaxDelay : Sleep(d))
       /\ WF_vars(Finish)

-----------------------------------------------------------------------------
CommandsOf(s) == {s[i] : i \in DOMAIN s}
Issued    == CommandsOf(sent)
Setpoints == {c \in Issued : c.cmd = "VELOCITY"}
Flying    == pc \in {"tick", "sleep"}

Health == [have_sys : BOOLEAN, battery_low : BOOLEAN,
           prearm_healthy : BOOLEAN, critical : BOOLEAN, gps_poor : BOOLEAN,
           ekf_poor : BOOLEAN, armed : BOOLEAN]

(* Every variable holds a value of its kind. *)
TypeOK ==
  /\ pc \in {"tick", "sleep", "leaving", "done", "failed"}
  /\ last \in Packet
  /\ link_age \in 0..LinkStale + 1
  /\ altitude_ever_valid \in BOOLEAN
  /\ target_lost \in 0..LostLand + 1
  /\ health \in Health
  /\ heartbeat_gap \in 0..GapLimit + 1
  /\ alt_enforcing \in BOOLEAN
  /\ in_loiter \in BOOLEAN
  /\ held \in 0..LoiterMin + 1
  /\ duration \in Durations
  /\ elapsed \in 0..duration + 1
  /\ sent \in Seq(Command)
  /\ calm \in 0..LoiterMin + 1
  /\ descending \in BOOLEAN

(* The vehicle is told to move forward or to turn only on news of the       *)
(* target that is at most link_stale_ms old, whose own target and altitude  *)
(* were fresh, and with no vehicle-health breach: re-sending the last       *)
(* reading between packets never outlives the reading.                      *)
MotionNeedsFreshTarget ==
  \A c \in Setpoints :
    c.vx # 0 \/ c.yaw_rate # 0 =>
      /\ pc = "sleep"
      /\ link_age <= LinkStale
      /\ last.valid /\ last.altitude_valid
      /\ ~HealthBreach(health, heartbeat_gap)

(* While the flight controller is holding position in LOITER at the loop's  *)
(* request, the loop sends it no setpoint.                                  *)
LoiterIsSilent == Flying /\ in_loiter => Setpoints = {}

(* GUIDED is commanded again only when no pass has seen a breach for        *)
(* kMinLoiterHoldSec: a breach that comes back restarts the hold.           *)
ResumeAfterQuiet == SetMode("GUIDED") \in Issued => calm >= LoiterMin

(* The ceiling, over consecutive setpoints on fresh news: above the hard    *)
(* limit each one descends, and once one has descended the next ones do too *)
(* until the altitude is down to the recovery margin, whatever LOITER       *)
(* episodes and stale links came between.                                   *)
CeilingHysteresis ==
  [][\A c \in Setpoints' :
       pc' = "sleep" /\ link_age' <= LinkStale =>
         ( c.vz > 0 <=> \/ last'.altitude > HardLimit
                       \/ /\ descending
                          /\ last'.altitude > HardLimit - RecoveryMargin )]_vars

(* The loop does not outlive its target: either the target is tracked again *)
(* and again, or the program stops flying, LOITER or not.                   *)
LostTargetLands ==
  []<>(pc = "sleep" /\ target_lost = 0) \/ <>~Flying

(* The same for heartbeats. *)
SilentVehicleLands ==
  []<>(pc = "sleep" /\ heartbeat_gap = 0) \/ <>~Flying

(* With a flight-time limit the program always comes to its end, though a   *)
(* pass that overruns skips the instant at which the limit is reached.      *)
FlightEnds == <>(pc \in {"done", "failed"}) \/ duration = 0

-----------------------------------------------------------------------------
(* The loop implements FlightHandoff: LOITER is its "holding", the passes   *)
(* after the loop its "landing", exit code 1 its "abandoned".               *)
Phase == CASE pc = "failed" -> "abandoned"
           [] pc \in {"leaving", "done"} -> "landing"
           [] Flying /\ in_loiter -> "holding"
           [] OTHER -> "tracking"

Moving == \E c \in Setpoints : c.vx # 0 \/ c.yaw_rate # 0

Handoff == INSTANCE FlightHandoff WITH
             Rest <- LoiterMin, phase <- Phase, moving <- Moving,
             quiet <- calm

ImplementsHandoff == Handoff!Spec
=============================================================================
