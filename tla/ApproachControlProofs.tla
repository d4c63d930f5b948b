----------------------- MODULE ApproachControlProofs -----------------------
(***************************************************************************)
(* Proofs about ApproachControl, for every value of its constants that     *)
(* ApproachAssumption and GuidanceAssumption allow.                        *)
(***************************************************************************)
EXTENDS ApproachControl, TLAPS

(***************************************************************************)
(* The control laws.                                                       *)
(***************************************************************************)

(* The laws return integers.                                                *)
LEMMA GuidanceTypes ==
  ASSUME NEW distance \in Int, NEW px \in Int, NEW altitude \in Int,
         NEW enforcing \in BOOLEAN
  PROVE  /\ Forward(distance, px) \in Int
         /\ YawRate(px) \in Int
         /\ Descent(altitude, enforcing) \in Int
         /\ Enforcing(altitude, enforcing) \in BOOLEAN
<1>1. Approach(distance) \in Int /\ Alignment(px) \in Int
  BY GuidanceAssumption DEF Approach, Alignment, Clamp, Magnitude
<1>2. Forward(distance, px) \in Int
  BY <1>1 DEF Forward
<1>3. YawRate(px) \in Int
  BY GuidanceAssumption DEF YawRate, Clamp
<1>4. Descent(altitude, enforcing) \in Int
  BY GuidanceAssumption DEF Descent, Enforcing, Clamp
<1>5. QED
  BY <1>2, <1>3, <1>4 DEF Enforcing

(* A setpoint descends exactly when the hysteresis is on after the pass:    *)
(* the flag the code keeps and the command it sends cannot disagree.        *)
LEMMA DescendsIffEnforcing ==
  ASSUME NEW altitude \in Int, NEW enforcing \in BOOLEAN
  PROVE  Descent(altitude, enforcing) > 0 <=> Enforcing(altitude, enforcing)
BY GuidanceAssumption DEF Descent, Enforcing, Clamp

(***************************************************************************)
(* Types.                                                                  *)
(***************************************************************************)
(* The limits, margins and delays are numbers.                              *)
LEMMA ConstantTypes ==
  /\ LinkStale \in Nat /\ InitialLinkAge \in Nat /\ LostLand \in Nat
  /\ LoiterMin \in Nat /\ Durations \subseteq Nat /\ GapLimit \in Nat
  /\ MaxGap \in Nat /\ LandGap \in Nat
  /\ MaxDelay \in Nat
BY ApproachAssumption DEF GapLimit

(* An age that is counted up to a limit stays below the limit plus one.     *)
LEMMA LaterType ==
  ASSUME NEW limit \in Nat, NEW age \in 0..limit + 1, NEW d \in Nat
  PROVE  Later(age, limit, d) \in 0..limit + 1
BY DEF Later

(* What a poll of the target link returns has its type.                     *)
LEMMA PollsType ==
  ASSUME TypeOK, NEW r \in Polls
  PROVE  /\ r.last \in Packet
         /\ r.link_age \in 0..LinkStale + 1
BY ApproachAssumption DEF TypeOK, Polls

(* Whatever message comes, the health record keeps its type.                *)
LEMMA HealthMsgType ==
  ASSUME TypeOK, NEW m \in HealthMsg
  PROVE  /\ HealthAfter(m) \in Health
         /\ GapAfter(m) \in 0..GapLimit + 1
<1>1. GapLimit \in Nat
  BY ApproachAssumption DEF GapLimit
<1>2. health \in Health /\ heartbeat_gap \in 0..GapLimit + 1
  BY DEF TypeOK
<1>3. GapAfter(m) \in 0..GapLimit + 1
  BY <1>1, <1>2 DEF GapAfter
<1>4. CASE m \in [type : {"NONE"}]
  BY <1>2, <1>3, <1>4 DEF HealthAfter
<1>5. CASE m \in [type : {"SYS_STATUS"}, battery_low : BOOLEAN,
                  prearm_healthy : BOOLEAN]
  BY <1>2, <1>3, <1>5 DEF HealthAfter, Health
<1>6. CASE m \in [type : {"GPS_RAW_INT", "EKF_STATUS_REPORT"}, poor : BOOLEAN]
  BY <1>2, <1>3, <1>6 DEF HealthAfter, Health
<1>7. CASE m \in [type : {"HEARTBEAT"}, armed : BOOLEAN, critical : BOOLEAN]
  BY <1>2, <1>3, <1>7 DEF HealthAfter, Health
<1>8. QED
  BY <1>4, <1>5, <1>6, <1>7 DEF HealthMsg

(* The setpoint of a pass is a velocity command.                            *)
LEMMA SetpointType ==
  ASSUME TypeOK, NEW r \in Polls
  PROVE  Setpoint(r) \in Command
<1>1. r.last.distance \in Int /\ r.last.x_px \in Int /\ r.last.altitude \in Int
  BY PollsType DEF Packet
<1>2. alt_enforcing \in BOOLEAN
  BY DEF TypeOK
<1>3. /\ Forward(r.last.distance, r.last.x_px) \in Int
      /\ YawRate(r.last.x_px) \in Int
      /\ Descent(r.last.altitude, alt_enforcing) \in Int
  BY <1>1, <1>2, GuidanceTypes
<1>4. QED
  BY <1>3 DEF Setpoint, Velocity, Command

(* So are the other commands the loop sends.                                *)
LEMMA CommandsType ==
  /\ Land \in Command /\ Stop \in Command
  /\ SetMode("GUIDED") \in Command /\ SetMode("LOITER") \in Command
BY DEF Land, Stop, SetMode, Velocity, Command

(* A pass sends at most two commands.                                       *)
LEMMA ShortSequences ==
  /\ <<>> \in Seq(Command)
  /\ \A c \in Command : <<c>> \in Seq(Command)
  /\ \A c, e \in Command : <<c, e>> \in Seq(Command)
OBVIOUS

(* What a pass reads, and the ages, keep their types. *)
LEMMA ReadType ==
  ASSUME TypeOK, NEW r \in Polls, NEW m \in HealthMsg, Read(r, m)
  PROVE  /\ last' \in Packet
         /\ link_age' \in 0..LinkStale + 1
         /\ altitude_ever_valid' \in BOOLEAN
         /\ target_lost' \in 0..LostLand + 1
         /\ health' \in Health
         /\ heartbeat_gap' \in 0..GapLimit + 1
         /\ duration' \in Durations /\ elapsed' \in 0..duration' + 1
<1>1. r.last \in Packet /\ r.link_age \in 0..LinkStale + 1
  BY PollsType
<1>2. LostFor(r) \in 0..LostLand + 1
  BY ApproachAssumption DEF LostFor, TypeOK
<1>3. EverValid(r) \in BOOLEAN
  BY <1>1 DEF EverValid, TypeOK, Packet
<1>4. HealthAfter(m) \in Health /\ GapAfter(m) \in 0..GapLimit + 1
  BY HealthMsgType
<1>5. duration \in Durations /\ elapsed \in 0..duration + 1
  BY DEF TypeOK
<1>6. QED
  BY <1>1, <1>2, <1>3, <1>4, <1>5 DEF Read, Poll

(* The locals of approach_target() have their types at its start,           *)
LEMMA TypeInit == Init => TypeOK
<1> SUFFICES ASSUME Init PROVE TypeOK
  OBVIOUS
<1>1. last \in Packet
  BY DEF Init, ZeroPacket, Packet
<1>2. health \in Health
  BY DEF Init, Health
<1>3. link_age \in 0..LinkStale + 1
  BY ConstantTypes DEF Init, Later
<1>4. target_lost \in 0..LostLand + 1 /\ heartbeat_gap \in 0..GapLimit + 1
  BY ConstantTypes DEF Init
<1>5. /\ held \in 0..LoiterMin + 1 /\ calm \in 0..LoiterMin + 1
      /\ duration \in Durations /\ elapsed \in 0..duration + 1
  BY ConstantTypes DEF Init
<1>6. /\ altitude_ever_valid \in BOOLEAN /\ alt_enforcing \in BOOLEAN
      /\ in_loiter \in BOOLEAN /\ descending \in BOOLEAN
  BY DEF Init
<1>7. pc \in {"tick", "sleep", "leaving", "done", "failed"}
  BY DEF Init
<1>8. sent \in Seq(Command)
  BY ShortSequences DEF Init
<1>9. QED
  BY <1>1, <1>2, <1>3, <1>4, <1>5, <1>6, <1>7, <1>8 DEF TypeOK

(* and every pass keeps them.                                               *)
LEMMA TypeNext == TypeOK /\ [Next]_vars => TypeOK'
<1> SUFFICES ASSUME TypeOK, [Next]_vars PROVE TypeOK'
  OBVIOUS
<1> USE CommandsType, ShortSequences
<1>1. CASE TimeUp
  BY <1>1 DEF TimeUp, readings, TypeOK
<1>2. ASSUME NEW r \in Polls, NEW m \in HealthMsg,
             DisarmLand(r, m) \/ HeartbeatLand(r, m) \/ TargetLostLand(r, m)
      PROVE  TypeOK'
  <2>1. Read(r, m) /\ LandAndReturn
    BY <1>2 DEF DisarmLand, HeartbeatLand, TargetLostLand
  <2>2. QED
    BY <2>1, ReadType DEF LandAndReturn, TypeOK
<1>3. ASSUME NEW r \in Polls, NEW m \in HealthMsg, EnterLoiter(r, m)
      PROVE  TypeOK'
  <2>1. Read(r, m)
    BY <1>3 DEF EnterLoiter
  <2>2. sent' \in Seq(Command)
    BY <1>3 DEF EnterLoiter, HandOff
  <2>3. held' \in 0..LoiterMin + 1 /\ calm' \in 0..LoiterMin + 1
    BY <1>3, ApproachAssumption DEF EnterLoiter, RestartHold
  <2>4. QED
    BY <1>3, <2>1, <2>2, <2>3, ReadType DEF EnterLoiter, TypeOK
<1>4. ASSUME NEW r \in Polls, NEW m \in HealthMsg, HoldLoiter(r, m)
      PROVE  TypeOK'
  <2>1. Read(r, m)
    BY <1>4 DEF HoldLoiter
  <2>2. QED
    BY <1>4, <2>1, ReadType DEF HoldLoiter, TypeOK
<1>5. ASSUME NEW r \in Polls, NEW m \in HealthMsg, CanGuide(r, m)
      PROVE  /\ Read(r, m)
             /\ alt_enforcing' \in BOOLEAN
             /\ in_loiter' \in BOOLEAN
             /\ held' \in 0..LoiterMin + 1
             /\ calm' \in 0..LoiterMin + 1
  <2>1. r.last.altitude \in Int
    BY PollsType DEF Packet
  <2>2. Enforcing(r.last.altitude, alt_enforcing) \in BOOLEAN
    BY <2>1, GuidanceTypes DEF TypeOK, Enforcing
  <2>3. QED
    BY <1>5, <2>2 DEF CanGuide, LeaveLoiter, TypeOK
<1>6. ASSUME NEW r \in Polls, NEW m \in HealthMsg, Guide(r, m)
      PROVE  TypeOK'
  <2>1. CanGuide(r, m)
    BY <1>6 DEF Guide
  <2>2. Setpoint(r) \in Command
    BY SetpointType
  <2>3. sent' \in Seq(Command)
    BY <1>6, <2>2 DEF Guide
  <2>4. descending' \in BOOLEAN
    <3>1. CASE LinkFresh(r)
      BY <1>6, <3>1, (Setpoint(r).vz > 0) \in BOOLEAN DEF Guide
    <3>2. CASE ~LinkFresh(r)
      BY <1>6, <3>2 DEF Guide, TypeOK
    <3>3. QED
      BY <3>1, <3>2
  <2>5. QED
    BY <1>5, <1>6, <2>1, <2>3, <2>4, ReadType DEF Guide, TypeOK
<1>7. ASSUME NEW r \in Polls, NEW m \in HealthMsg, SetModeThrows(r, m)
      PROVE  TypeOK'
  <2>1. Read(r, m)
    BY <1>7 DEF SetModeThrows
  <2>2. calm' \in 0..LoiterMin + 1
    BY <1>7, ApproachAssumption, SMTT(30) DEF SetModeThrows, TypeOK
  <2>3. QED
    BY <1>7, <2>1, <2>2, ReadType DEF SetModeThrows, TypeOK
<1>8. ASSUME NEW r \in Polls, NEW m \in HealthMsg, VelocityThrows(r, m)
      PROVE  TypeOK'
  <2>1. CanGuide(r, m)
    BY <1>8 DEF VelocityThrows
  <2>2. sent' \in Seq(Command)
    BY <1>8 DEF VelocityThrows
  <2>3. QED
    BY <1>5, <1>8, <2>1, <2>2, ReadType DEF VelocityThrows, TypeOK
<1>9. ASSUME NEW r \in Polls, ReceiveThrows(r)
      PROVE  TypeOK'
  <2>1. r.last \in Packet /\ r.link_age \in 0..LinkStale + 1
    BY PollsType
  <2>2. LostFor(r) \in 0..LostLand + 1
    BY ApproachAssumption DEF LostFor, TypeOK
  <2>3. EverValid(r) \in BOOLEAN
    BY <2>1 DEF EverValid, TypeOK, Packet
  <2>4. QED
    BY <1>9, <2>1, <2>2, <2>3 DEF ReceiveThrows, Poll, TypeOK
<1>10. ASSUME NEW d \in 1..MaxDelay, Sleep(d)
       PROVE  TypeOK'
  <2>1. d \in Nat /\ duration \in Nat
    BY ConstantTypes DEF TypeOK
  <2>2. /\ link_age' \in 0..LinkStale + 1
        /\ target_lost' \in 0..LostLand + 1
        /\ heartbeat_gap' \in 0..GapLimit + 1
        /\ held' \in 0..LoiterMin + 1
        /\ calm' \in 0..LoiterMin + 1
    <3>1. /\ Later(link_age, LinkStale, d) \in 0..LinkStale + 1
          /\ Later(target_lost, LostLand, d) \in 0..LostLand + 1
          /\ Later(heartbeat_gap, GapLimit, d) \in 0..GapLimit + 1
          /\ Later(held, LoiterMin, d) \in 0..LoiterMin + 1
          /\ Later(calm, LoiterMin, d) \in 0..LoiterMin + 1
      BY <2>1, LaterType, ConstantTypes DEF TypeOK
    <3>2. QED
      BY <1>10, <3>1 DEF Sleep
  <2>3. duration' \in Durations /\ elapsed' \in 0..duration' + 1
    <3>1. /\ duration \in Durations
          /\ Later(elapsed, duration, d) \in 0..duration + 1
      BY <2>1, LaterType DEF TypeOK
    <3>2. 0 \in 0..duration + 1
      BY <2>1
    <3>3. QED
      BY <1>10, <3>1, <3>2 DEF Sleep
  <2>4. QED
    BY <1>10, <2>2, <2>3 DEF Sleep, TypeOK
<1>11. CASE Finish
  BY <1>11 DEF Finish, readings, TypeOK
<1>12. CASE UNCHANGED vars
  BY <1>12 DEF vars, readings, TypeOK
<1>13. QED
  BY <1>1, <1>2, <1>3, <1>4, <1>6, <1>7, <1>8, <1>9, <1>10, <1>11, <1>12
     DEF Next, Tick

(* The variables of the loop keep their types. *)
THEOREM TypeCorrect == Spec => []TypeOK
<1>1. QED
  BY TypeInit, TypeNext, PTL DEF Spec

(***************************************************************************)
(* What a step sends.                                                      *)
(***************************************************************************)
(* The set of commands a short sequence holds.                              *)
LEMMA ShortCommands ==
  /\ CommandsOf(<<>>) = {}
  /\ \A c : CommandsOf(<<c>>) = {c}
  /\ \A c, e : CommandsOf(<<c, e>>) = {c, e}
BY DEF CommandsOf

(* Mode changes, landing and velocities are told apart.                     *)
LEMMA CommandKinds ==
  /\ Land.cmd # "VELOCITY"
  /\ \A x : SetMode(x).cmd # "VELOCITY"
  /\ Stop.cmd = "VELOCITY" /\ Stop.vx = 0 /\ Stop.yaw_rate = 0
  /\ \A r : Setpoint(r).cmd = "VELOCITY"
BY DEF Land, SetMode, Stop, Setpoint, Velocity

(* While the loop goes on, the only setpoint is the one of a Guide pass;    *)
(* whatever ends the loop sends no other velocity than zero.                *)
LEMMA StepSetpoints ==
  ASSUME Next
  PROVE  \/ Setpoints' = {}
         \/ pc' \in {"failed", "done"} /\ Setpoints' \subseteq {Stop}
         \/ \E r \in Polls, m \in HealthMsg :
              Guide(r, m) /\ Setpoints' = {Setpoint(r)}
<1> USE ShortCommands, CommandKinds DEF Setpoints, Issued
<1>1. CASE TimeUp
  BY <1>1 DEF TimeUp
<1>2. ASSUME NEW r \in Polls, NEW m \in HealthMsg,
             DisarmLand(r, m) \/ HeartbeatLand(r, m) \/ TargetLostLand(r, m)
      PROVE  Setpoints' = {}
  BY <1>2 DEF DisarmLand, HeartbeatLand, TargetLostLand, LandAndReturn
<1>3. ASSUME NEW r \in Polls, NEW m \in HealthMsg,
             EnterLoiter(r, m) \/ HoldLoiter(r, m)
      PROVE  Setpoints' = {}
  BY <1>3 DEF EnterLoiter, HoldLoiter, HandOff
<1>4. ASSUME NEW r \in Polls, NEW m \in HealthMsg, Guide(r, m)
      PROVE  Setpoints' = {Setpoint(r)}
  BY <1>4 DEF Guide
<1>5. ASSUME NEW r \in Polls, NEW m \in HealthMsg,
             SetModeThrows(r, m) \/ VelocityThrows(r, m)
      PROVE  pc' = "failed" /\ Setpoints' \subseteq {Stop}
  BY <1>5 DEF SetModeThrows, VelocityThrows
<1>6. ASSUME NEW r \in Polls, ReceiveThrows(r)
      PROVE  pc' = "failed" /\ Setpoints' \subseteq {Stop}
  BY <1>6 DEF ReceiveThrows
<1>7. ASSUME NEW d \in 1..MaxDelay, Sleep(d)
      PROVE  Setpoints' = {}
  BY <1>7 DEF Sleep
<1>8. CASE Finish
  BY <1>8 DEF Finish
<1>9. QED
  BY <1>1, <1>2, <1>3, <1>4, <1>5, <1>6, <1>7, <1>8 DEF Next, Tick

(***************************************************************************)
(* Safety.  The inductive invariant adds to the types that the time the    *)
(* code measures its hold with is the time since the last breach, and that *)
(* its flag for the altitude correction tells what it last sent.           *)
(***************************************************************************)
HoldIsCalm == Flying /\ in_loiter => held = calm

FlagIsHistory == Flying => (alt_enforcing <=> descending)

LoopInv ==
  /\ TypeOK
  /\ HoldIsCalm
  /\ FlagIsHistory
  /\ MotionNeedsFreshTarget
  /\ LoiterIsSilent
  /\ ResumeAfterQuiet

(* The invariant of the loop holds before the first pass.                   *)
LEMMA LoopInit == Init => LoopInv
<1> SUFFICES ASSUME Init PROVE LoopInv
  OBVIOUS
<1>1. TypeOK
  BY TypeInit
<1>2. Issued = {} /\ Setpoints = {}
  BY ShortCommands DEF Init, Issued, Setpoints
<1>3. HoldIsCalm /\ FlagIsHistory
  BY DEF Init, HoldIsCalm, FlagIsHistory
<1>4. QED
  BY <1>1, <1>2, <1>3
     DEF LoopInv, MotionNeedsFreshTarget, LoiterIsSilent, ResumeAfterQuiet

(* A setpoint that asks for motion was computed from a tracked target.      *)
LEMMA SetpointMoves ==
  ASSUME TypeOK, NEW r \in Polls,
         Setpoint(r).vx # 0 \/ Setpoint(r).yaw_rate # 0
  PROVE  r.link_age <= LinkStale /\ r.last.valid /\ r.last.altitude_valid
<1>1. Tracking(r)
  BY DEF Setpoint, Velocity
<1>2. r.last \in Packet
  BY PollsType
<1>3. QED
  BY <1>1, <1>2 DEF Tracking, LinkFresh, Packet

(* Every pass keeps motion to fresh news of the target,                     *)
LEMMA MotionNext ==
  ASSUME LoopInv, Next
  PROVE  MotionNeedsFreshTarget'
<1>1. CASE Setpoints' \subseteq {Stop}
  BY <1>1, CommandKinds DEF MotionNeedsFreshTarget
<1>2. ASSUME NEW r \in Polls, NEW m \in HealthMsg,
             Guide(r, m), Setpoints' = {Setpoint(r)}
      PROVE  MotionNeedsFreshTarget'
  <2>1. /\ pc' = "sleep" /\ last' = r.last /\ link_age' = r.link_age
        /\ health' = HealthAfter(m) /\ heartbeat_gap' = GapAfter(m)
        /\ ~HealthBreach(HealthAfter(m), GapAfter(m))
    BY <1>2 DEF Guide, CanGuide, Read, Poll, Breach
  <2>2. ~HealthBreach(health, heartbeat_gap)'
    BY <2>1 DEF HealthBreach
  <2>3. QED
    BY <1>2, <2>1, <2>2, SetpointMoves DEF MotionNeedsFreshTarget, LoopInv
<1>3. QED
  BY <1>1, <1>2, StepSetpoints

(* and sends no setpoint during a hold.                                     *)
LEMMA SilentNext ==
  ASSUME LoopInv, Next
  PROVE  LoiterIsSilent'
<1>1. CASE Setpoints' = {}
  BY <1>1 DEF LoiterIsSilent
<1>2. CASE pc' \in {"failed", "done"}
  BY <1>2 DEF LoiterIsSilent, Flying
<1>3. ASSUME NEW r \in Polls, NEW m \in HealthMsg, Guide(r, m)
      PROVE  LoiterIsSilent'
  BY <1>3 DEF LoiterIsSilent, Guide, CanGuide, LeaveLoiter
<1>4. QED
  BY <1>1, <1>2, <1>3, StepSetpoints

(* The hold time, the hysteresis flag, and the resumption of GUIDED. *)
LEMMA HoldNext ==
  ASSUME LoopInv, Next
  PROVE  HoldIsCalm' /\ FlagIsHistory' /\ ResumeAfterQuiet'
<1> USE ShortCommands DEF LoopInv, HoldIsCalm, FlagIsHistory,
                          ResumeAfterQuiet, Flying, Issued
<1> DEFINE Guided == SetMode("GUIDED")
<1>0. Guided # Land /\ Guided # Stop /\ Guided # SetMode("LOITER")
  BY DEF SetMode, Land, Stop, Velocity
<1>1. CASE TimeUp
  BY <1>1 DEF TimeUp
<1>2. ASSUME NEW r \in Polls, NEW m \in HealthMsg,
             DisarmLand(r, m) \/ HeartbeatLand(r, m) \/ TargetLostLand(r, m)
      PROVE  HoldIsCalm' /\ FlagIsHistory' /\ ResumeAfterQuiet'
  BY <1>0, <1>2 DEF DisarmLand, HeartbeatLand, TargetLostLand, LandAndReturn
<1>3. ASSUME NEW r \in Polls, NEW m \in HealthMsg, EnterLoiter(r, m)
      PROVE  HoldIsCalm' /\ FlagIsHistory' /\ ResumeAfterQuiet'
  BY <1>0, <1>3 DEF EnterLoiter, HandOff, RestartHold, Read, Poll
<1>4. ASSUME NEW r \in Polls, NEW m \in HealthMsg, HoldLoiter(r, m)
      PROVE  HoldIsCalm' /\ FlagIsHistory' /\ ResumeAfterQuiet'
  BY <1>4 DEF HoldLoiter, Read, Poll
<1>5. ASSUME NEW r \in Polls, NEW m \in HealthMsg, Guide(r, m)
      PROVE  HoldIsCalm' /\ FlagIsHistory' /\ ResumeAfterQuiet'
  <2>1. CanGuide(r, m) /\ pc = "tick"
    BY <1>5 DEF Guide, CanGuide, Read, Poll
  <2>2. ~in_loiter'
    BY <2>1 DEF CanGuide, LeaveLoiter
  <2>3. alt_enforcing' <=> descending'
    <3>1. r.last.altitude \in Int /\ alt_enforcing \in BOOLEAN
      BY PollsType DEF Packet, TypeOK
    <3>2. Setpoint(r).vz = IF LinkFresh(r)
                           THEN Descent(r.last.altitude, alt_enforcing) ELSE 0
      BY DEF Setpoint, Velocity
    <3>3. CASE LinkFresh(r)
      <4>1. Setpoint(r).vz > 0 <=> Enforcing(r.last.altitude, alt_enforcing)
        <5>1. Descent(r.last.altitude, alt_enforcing) > 0
                <=> Enforcing(r.last.altitude, alt_enforcing)
          BY <3>1, DescendsIffEnforcing
        <5>2. Setpoint(r).vz = Descent(r.last.altitude, alt_enforcing)
          BY <3>2, <3>3
        <5>3. QED
          BY <5>1, <5>2
      <4>2. descending' = (Setpoint(r).vz > 0)
        BY <1>5, <3>3 DEF Guide
      <4>3. alt_enforcing' = Enforcing(r.last.altitude, alt_enforcing)
        BY <2>1, <3>3 DEF CanGuide
      <4>4. QED
        BY <4>1, <4>2, <4>3
    <3>4. CASE ~LinkFresh(r)
      BY <1>5, <2>1, <3>4 DEF Guide, CanGuide
    <3>5. QED
      BY <3>3, <3>4
  <2>4. Setpoint(r) # Guided
    BY DEF Setpoint, Velocity, SetMode
  <2>5. CASE in_loiter
    BY <1>5, <2>1, <2>2, <2>3, <2>5 DEF Guide, CanGuide, HoldOver
  <2>6. CASE ~in_loiter
    BY <1>5, <2>1, <2>2, <2>3, <2>4, <2>6 DEF Guide, CanGuide
  <2>7. QED
    BY <2>5, <2>6
<1>6. ASSUME NEW r \in Polls, NEW m \in HealthMsg, SetModeThrows(r, m)
      PROVE  HoldIsCalm' /\ FlagIsHistory' /\ ResumeAfterQuiet'
  BY <1>0, <1>6 DEF SetModeThrows
<1>7. ASSUME NEW r \in Polls, NEW m \in HealthMsg, VelocityThrows(r, m)
      PROVE  HoldIsCalm' /\ FlagIsHistory' /\ ResumeAfterQuiet'
  <2>1. CanGuide(r, m) /\ pc = "tick" /\ pc' = "failed"
    BY <1>7 DEF VelocityThrows, CanGuide, Read, Poll
  <2>2. CASE in_loiter
    BY <1>7, <2>1, <2>2 DEF CanGuide, HoldOver
  <2>3. CASE ~in_loiter
    BY <1>0, <1>7, <2>1, <2>3 DEF VelocityThrows
  <2>4. QED
    BY <2>2, <2>3
<1>8. ASSUME NEW r \in Polls, ReceiveThrows(r)
      PROVE  HoldIsCalm' /\ FlagIsHistory' /\ ResumeAfterQuiet'
  BY <1>0, <1>8 DEF ReceiveThrows
<1>9. ASSUME NEW d \in 1..MaxDelay, Sleep(d)
      PROVE  HoldIsCalm' /\ FlagIsHistory' /\ ResumeAfterQuiet'
  BY <1>9 DEF Sleep
<1>10. CASE Finish
  BY <1>0, <1>10 DEF Finish
<1>11. QED
  BY <1>1, <1>2, <1>3, <1>4, <1>5, <1>6, <1>7, <1>8, <1>9, <1>10
     DEF Next, Tick

(* Every pass keeps the invariant of the loop,                              *)
LEMMA LoopNext == LoopInv /\ [Next]_vars => LoopInv'
<1>1. CASE LoopInv /\ Next
  <2>1. TypeOK'
    BY <1>1, TypeNext DEF LoopInv
  <2>2. QED
    BY <1>1, <2>1, MotionNext, SilentNext, HoldNext DEF LoopInv
<1>2. CASE LoopInv /\ UNCHANGED vars
  <2>1. TypeOK'
    BY <1>2, TypeNext DEF LoopInv
  <2>2. UNCHANGED <<Issued, Setpoints, Flying>>
    BY <1>2 DEF vars, Issued, Setpoints, Flying
  <2>3. UNCHANGED HealthBreach(health, heartbeat_gap)
    BY <1>2 DEF vars, readings, HealthBreach
  <2>4. QED
    BY <1>2, <2>1, <2>2, <2>3
       DEF LoopInv, HoldIsCalm, FlagIsHistory, MotionNeedsFreshTarget,
           LoiterIsSilent, ResumeAfterQuiet, vars, readings
<1>3. QED
  BY <1>1, <1>2

(* so it always holds.                                                      *)
LEMMA LoopInvariant == Spec => []LoopInv
BY LoopInit, LoopNext, PTL DEF Spec

(* Motion is only ever commanded on fresh news of the target. *)
THEOREM MotionSafe == Spec => []MotionNeedsFreshTarget
<1>1. LoopInv => MotionNeedsFreshTarget
  BY DEF LoopInv
<1>2. QED
  BY <1>1, LoopInvariant, PTL

(* No setpoint reaches the flight controller in LOITER. *)
THEOREM LoiterSafe == Spec => []LoiterIsSilent
<1>1. LoopInv => LoiterIsSilent
  BY DEF LoopInv
<1>2. QED
  BY <1>1, LoopInvariant, PTL

(* GUIDED comes back only after kMinLoiterHoldSec without a breach. *)
THEOREM ResumeSafe == Spec => []ResumeAfterQuiet
<1>1. LoopInv => ResumeAfterQuiet
  BY DEF LoopInv
<1>2. QED
  BY <1>1, LoopInvariant, PTL

(* The altitude correction starts above the hard limit and goes on until    *)
(* the recovery margin is reached, in every setpoint sent on fresh news.    *)
THEOREM CeilingSafe == Spec => CeilingHysteresis
<1> DEFINE Correct(c) ==
      pc' = "sleep" /\ link_age' <= LinkStale =>
        ( c.vz > 0 <=> \/ last'.altitude > HardLimit
                      \/ /\ descending
                         /\ last'.altitude > HardLimit - RecoveryMargin )
<1>1. ASSUME LoopInv, Next, NEW c \in Setpoints'
      PROVE  Correct(c)
  <2>1. CASE Setpoints' = {} \/ pc' \in {"failed", "done"}
    BY <1>1, <2>1
  <2>2. ASSUME NEW r \in Polls, NEW m \in HealthMsg,
               Guide(r, m), Setpoints' = {Setpoint(r)}
        PROVE  Correct(c)
    <3>1. /\ pc = "tick" /\ last' = r.last /\ link_age' = r.link_age
          /\ c = Setpoint(r)
      BY <1>1, <2>2 DEF Guide, CanGuide, Read, Poll
    <3>2. (alt_enforcing <=> descending) /\ alt_enforcing \in BOOLEAN
      BY <1>1, <3>1 DEF LoopInv, FlagIsHistory, Flying, TypeOK
    <3>3. r.last.altitude \in Int
      BY <1>1, PollsType DEF LoopInv, Packet
    <3>4. LinkFresh(r) => c.vz = Descent(r.last.altitude, alt_enforcing)
      BY <3>1 DEF Setpoint, Velocity
    <3>5. QED
      BY <3>1, <3>2, <3>3, <3>4, DescendsIffEnforcing
         DEF LinkFresh, Enforcing
  <2>3. QED
    BY <1>1, <2>1, <2>2, StepSetpoints
<1>2. LoopInv /\ [Next]_vars => [\A c \in Setpoints' : Correct(c)]_vars
  BY <1>1
<1>3. QED
  BY <1>2, LoopInvariant, PTL DEF Spec, CeilingHysteresis

(***************************************************************************)
(* Refinement.                                                             *)
(***************************************************************************)
(* The loop begins in the phase in which FlightHandoff begins.              *)
LEMMA HandoffInit == Init => Handoff!Init
BY ShortCommands
   DEF Init, Handoff!Init, Phase, Moving, Setpoints, Issued, Flying

(* Nothing moves in a state without a setpoint, nor after a zero one. *)
LEMMA StillWithout ==
  ASSUME Setpoints' \subseteq {Stop}
  PROVE  Moving' = FALSE
BY CommandKinds DEF Moving

(* Every pass is a step, or a stutter, of FlightHandoff.                    *)
LEMMA HandoffNext == LoopInv /\ [Next]_vars => [Handoff!Next]_(Handoff!handoff)
<1> SUFFICES ASSUME LoopInv, [Next]_vars
             PROVE  Handoff!Next \/ UNCHANGED Handoff!handoff
  OBVIOUS
<1> USE ShortCommands, CommandKinds, ConstantTypes
    DEF Handoff!Next, Flying
<1>1. pc \in {"tick", "sleep"} => Phase \in {"tracking", "holding"}
  BY DEF Phase
<1>2. ASSUME pc \in {"tick", "sleep"}, pc' = "leaving", UNCHANGED calm,
             Setpoints' = {}
      PROVE  Handoff!LandNow
  <2>1. Phase' = "landing"
    BY <1>2 DEF Phase
  <2>2. QED
    BY <1>1, <1>2, <2>1, StillWithout DEF Handoff!LandNow, Handoff!InFlight
<1>3. ASSUME pc # "failed", pc' = "failed", calm' \in {0, calm},
             Setpoints' \subseteq {Stop}
      PROVE  Handoff!Die
  <2>1. Phase # "abandoned" /\ Phase' = "abandoned"
    BY <1>3 DEF Phase
  <2>2. QED
    BY <1>3, <2>1, StillWithout DEF Handoff!Die
<1>4. CASE TimeUp
  BY <1>2, <1>4 DEF TimeUp, Setpoints, Issued
<1>5. ASSUME NEW r \in Polls, NEW m \in HealthMsg,
             DisarmLand(r, m) \/ HeartbeatLand(r, m) \/ TargetLostLand(r, m)
      PROVE  Handoff!Next
  <2>1. Setpoints' = {}
    BY <1>5 DEF DisarmLand, HeartbeatLand, TargetLostLand, LandAndReturn,
                Setpoints, Issued
  <2>2. QED
    BY <1>2, <1>5, <2>1 DEF DisarmLand, HeartbeatLand, TargetLostLand,
                            LandAndReturn, Read, Poll
<1>6. ASSUME NEW r \in Polls, NEW m \in HealthMsg, EnterLoiter(r, m)
      PROVE  Handoff!Danger
  <2>1. Setpoints' = {}
    BY <1>6 DEF EnterLoiter, HandOff, Setpoints, Issued
  <2>2. pc = "tick" /\ Phase' = "holding" /\ calm' = 0
    BY <1>6 DEF EnterLoiter, Read, Poll, Phase
  <2>3. QED
    BY <1>1, <2>1, <2>2, StillWithout DEF Handoff!Danger, Handoff!InFlight
<1>7. ASSUME NEW r \in Polls, NEW m \in HealthMsg, HoldLoiter(r, m)
      PROVE  Handoff!Wait
  <2>1. Setpoints' = {}
    BY <1>7 DEF HoldLoiter, Setpoints, Issued
  <2>2. pc = "tick" /\ Phase = "holding" /\ Phase' = "holding"
    BY <1>7 DEF HoldLoiter, Read, Poll, Phase
  <2>3. calm' \in calm..LoiterMin + 1
    BY <1>7 DEF HoldLoiter, LoopInv, TypeOK
  <2>4. QED
    BY <2>1, <2>2, <2>3, StillWithout DEF Handoff!Wait, Handoff!InFlight
<1>8. ASSUME NEW r \in Polls, NEW m \in HealthMsg, Guide(r, m)
      PROVE  Handoff!Steer
  <2>1. pc = "tick" /\ Phase' = "tracking" /\ UNCHANGED calm
    BY <1>8 DEF Guide, CanGuide, LeaveLoiter, Read, Poll, Phase
  <2>2. Phase = "tracking" \/ (Phase = "holding" /\ calm >= LoiterMin)
    BY <1>8, <2>1 DEF Guide, CanGuide, HoldOver, LoopInv, HoldIsCalm, Phase
  <2>3. Moving' \in BOOLEAN
    BY DEF Moving
  <2>4. QED
    BY <2>1, <2>2, <2>3 DEF Handoff!Steer
<1>9. ASSUME NEW r \in Polls, NEW m \in HealthMsg,
             SetModeThrows(r, m) \/ VelocityThrows(r, m)
      PROVE  Handoff!Die
  <2>1. Setpoints' \subseteq {Stop}
    BY <1>9 DEF SetModeThrows, VelocityThrows, Setpoints, Issued
  <2>2. pc = "tick" /\ pc' = "failed" /\ calm' \in {0, calm}
    BY <1>9 DEF SetModeThrows, VelocityThrows, CanGuide, Read, Poll
  <2>3. QED
    BY <1>3, <2>1, <2>2
<1>10. ASSUME NEW r \in Polls, ReceiveThrows(r)
       PROVE  Handoff!Die
  <2>1. Setpoints' \subseteq {Stop}
    BY <1>10 DEF ReceiveThrows, Setpoints, Issued
  <2>2. QED
    BY <1>3, <1>10, <2>1 DEF ReceiveThrows, Poll
<1>11. ASSUME NEW d \in 1..MaxDelay, Sleep(d)
       PROVE  Handoff!Wait
  <2>1. Setpoints' = {}
    BY <1>11 DEF Sleep, Setpoints, Issued
  <2>2. pc = "sleep" /\ UNCHANGED Phase
    BY <1>11 DEF Sleep, Phase
  <2>3. calm' \in calm..LoiterMin + 1
    BY <1>11 DEF Sleep, Later, LoopInv, TypeOK
  <2>4. QED
    BY <1>1, <2>1, <2>2, <2>3, StillWithout DEF Handoff!Wait, Handoff!InFlight
<1>12. CASE Finish
  <2>1. Setpoints' \subseteq {Stop}
    BY <1>12 DEF Finish, Setpoints, Issued
  <2>2. CASE pc' = "failed"
    BY <1>3, <1>12, <2>1, <2>2 DEF Finish
  <2>3. CASE pc' = "done"
    <3>1. Phase = "landing" /\ Phase' = "landing" /\ UNCHANGED calm
      BY <1>12, <2>3 DEF Finish, Phase
    <3>2. Moving = FALSE
      BY <1>12 DEF Finish, Moving, LoopInv, MotionNeedsFreshTarget
    <3>3. QED
      BY <2>1, <3>1, <3>2, StillWithout DEF Handoff!handoff
  <2>4. QED
    BY <1>12, <2>2, <2>3 DEF Finish
<1>13. CASE UNCHANGED vars
  <2>1. UNCHANGED <<Setpoints, Phase, calm>>
    BY <1>13 DEF vars, Setpoints, Issued, Phase
  <2>2. QED
    BY <2>1 DEF Handoff!handoff, Moving
<1>14. QED
  BY <1>4, <1>5, <1>6, <1>7, <1>8, <1>9, <1>10, <1>11, <1>12, <1>13
     DEF Next, Tick

(* The loop keeps the promise of FlightHandoff. *)
THEOREM HandoffRefined == Spec => ImplementsHandoff
<1>1. QED
  BY HandoffInit, HandoffNext, LoopInvariant, PTL
     DEF Spec, ImplementsHandoff, Handoff!Spec
=============================================================================
