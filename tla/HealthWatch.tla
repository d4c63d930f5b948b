---------------------------- MODULE HealthWatch ----------------------------
(***************************************************************************)
(* The health checks of setting/safety.yaml in the two programs that       *)
(* evaluate them: control/emergency.cpp, which watches and prints, and     *)
(* control/control.cpp, which acts.  Each loads the limits by its own list *)
(* of reads and judges by its own copy of the checks.                      *)
(*                                                                         *)
(* What control does about a breach is ApproachControl's subject; here it  *)
(* is what the two make of one file and one stream of messages.  The       *)
(* connection is a flag: emergency waits for a first heartbeat.            *)
(***************************************************************************)
EXTENDS SettingsFile

CONSTANTS
  Messages,     (* what the vehicle may report                               *)
  PollInterval, (* 1 / poll_rate_hz                                          *)
  MaxGap        (* bound on the age of a heartbeat                           *)

Percent == -1..100     (* battery_remaining: -1 when it is not known        *)
Millivolts == 0..65535

SysStatus == [type : {"SYS_STATUS"}, percent : Percent, voltage : Millivolts,
              prearm : BOOLEAN]
GpsRaw    == [type : {"GPS_RAW_INT"}, fix : Nat, satellites : Nat]
Heartbeat == [type : {"HEARTBEAT"}, status : {"STANDBY", "CRITICAL"}]
EkfReport == [type : {"EKF_STATUS_REPORT"}, position : Nat, velocity : Nat]

ASSUME HealthAssumption ==
  /\ Messages \subseteq SysStatus \cup GpsRaw \cup Heartbeat \cup EkfReport
  /\ PollInterval \in Nat \ {0} /\ MaxGap \in Nat

VARIABLES
  phase,      (* emergency: "reading", "waiting", "watching", "ended"        *)
  limits,     (* program -> limits in force                                  *)
  latest,     (* type -> the last message of that type, or NoReport          *)
  apart,      (* history: a key that only control reads could not be read    *)
  gap,        (* since the last HEARTBEAT                                    *)
  waited,     (* in recv_match()                                             *)
  reported    (* emergency: was_active                                       *)

watch == <<latest, gap, waited, reported>>
vars == <<settings, phase, limits, apart, watch>>

NoReport == [type |-> "none"]

(* A report may leave these out: satellites_visible and voltage_battery.    *)
NoSatellites == 255
NoVoltage    == 65535
Types == {"SYS_STATUS", "GPS_RAW_INT", "HEARTBEAT", "EKF_STATUS_REPORT"}
Programs == {"control", "emergency"}

-----------------------------------------------------------------------------
(* Loading the limits: both programs read one key after the other in one    *)
(* try block, into the built-in defaults.                                   *)
Section(s)      == [kind |-> "section", path |-> <<s>>]
NumberAt(s, k)  == [kind |-> "number", path |-> <<s, k>>]
BooleanAt(s, k) == [kind |-> "boolean", path |-> <<s, k>>]

Numbers(s, keys) == [i \in DOMAIN keys |-> NumberAt(s, keys[i])]
Booleans(s, keys) == [i \in DOMAIN keys |-> BooleanAt(s, keys[i])]

BatteryReads ==
  <<Section("battery_limit")>>
    \o Numbers("battery_limit", <<"min_percent", "min_voltage_v">>)

GpsHealthEkfReads ==
  <<Section("gps_limit")>>
    \o Numbers("gps_limit", <<"min_fix_type", "min_satellites">>)
    \o <<Section("vehicle_health_limit")>>
    \o Booleans("vehicle_health_limit",
                <<"require_prearm_healthy", "require_normal_state">>)
    \o <<Section("ekf_limit")>>
    \o Numbers("ekf_limit",
               <<"pos_horiz_variance_max", "velocity_variance_max">>)

EmergencyReads ==
  <<Section("altitude_limit")>> \o Numbers("altitude_limit", <<"poll_rate_hz">>)
    \o BatteryReads
    \o <<Section("heartbeat_limit")>>
    \o Numbers("heartbeat_limit", <<"max_gap_sec">>)
    \o GpsHealthEkfReads

(* Mutation of ControlReads: the limits of the vehicle are not read.        *)
CeilingReadsOnly ==
  <<Section("altitude_limit")>>
    \o Numbers("altitude_limit", <<"soft_limit_m", "hard_limit_m">>)

(* control reads besides what it alone needs: the altitude ceiling, and     *)
(* when a lost heartbeat calls for LAND.                                    *)
ControlReads ==
  <<Section("altitude_limit")>>
    \o Numbers("altitude_limit",
               <<"soft_limit_m", "hard_limit_m", "descent_speed_mps",
                 "recovery_margin_m", "poll_rate_hz">>)
    \o BatteryReads
    \o <<Section("heartbeat_limit")>>
    \o Numbers("heartbeat_limit", <<"max_gap_sec", "land_gap_sec">>)
    \o GpsHealthEkfReads

ReadsOf(program) ==
  IF program = "control" THEN ControlReads ELSE EmergencyReads

Requirements == {"require_prearm_healthy", "require_normal_state"}

(* Meters and variances are in tenths, volts in thousandths. *)
Defaults ==
  [soft_limit_m |-> 40, hard_limit_m |-> 50, descent_speed_mps |-> 5,
   recovery_margin_m |-> 2, poll_rate_hz |-> 5,
   min_percent |-> 20, min_voltage_v |-> 14800,
   max_gap_sec |-> 3, land_gap_sec |-> 5,
   min_fix_type |-> 3, min_satellites |-> 6,
   require_prearm_healthy |-> TRUE, require_normal_state |-> TRUE,
   pos_horiz_variance_max |-> 10, velocity_variance_max |-> 10]

Throws(read) ==
  \/ read.kind = "section" /\ ~Written(read.path)
  \/ read.kind = "number" /\ GetNumberThrows(read.path)

(* An exception ends the loading: what was read stays, the rest is default. *)
ReadInto(loaded, read) ==
  LET key == Last(read.path)
  IN IF loaded.thrown THEN loaded
     ELSE IF Throws(read) THEN [loaded EXCEPT !.thrown = TRUE]
     ELSE IF read.kind = "section" THEN loaded
     ELSE IF read.kind = "number"
     THEN [loaded EXCEPT !.limits[key] = GetNumberOr(read.path, @)]
     ELSE [loaded EXCEPT !.limits[key] = GetBoolOr(read.path, @)]

Loaded(program) ==
  FoldLeft(ReadInto, [thrown |-> FALSE, limits |-> Defaults],
           ReadsOf(program)).limits

Unreadable(program) == {r \in ToSet(ReadsOf(program)) : Throws(r)}

(* The tree is a local variable and is gone afterwards. *)
Load ==
  /\ phase = "reading" /\ line = Len(file)
  /\ phase' = "waiting"
  /\ limits' = [p \in Programs |-> Loaded(p)]
  /\ apart' = (Unreadable("control") # Unreadable("emergency"))
  /\ SettingsGone
  /\ UNCHANGED watch

-----------------------------------------------------------------------------
(* The two copies of the checks.  have_battery, have_gps, have_sys_status   *)
(* and have_ekf say that a message of that type has come.                   *)
Have(type) == latest[type] # NoReport

Voltage(s) == IF s.voltage = NoVoltage THEN -1 ELSE s.voltage

(* evaluate_health_breach() of control.cpp. *)
ControlBreach ==
  LET limit == limits["control"] IN
  \/ gap > limit.max_gap_sec
  \/ /\ Have("SYS_STATUS")
     /\ LET s == latest["SYS_STATUS"] IN
          \/ s.percent >= 0 /\ s.percent < limit.min_percent
          \/ Voltage(s) >= 0 /\ Voltage(s) < limit.min_voltage_v
          \/ limit.require_prearm_healthy /\ ~s.prearm
          \/ /\ limit.require_normal_state
             /\ latest["HEARTBEAT"].status = "CRITICAL"
  \/ /\ Have("GPS_RAW_INT")
     /\ LET g == latest["GPS_RAW_INT"] IN
          /\ g.satellites # NoSatellites
          /\ g.fix < limit.min_fix_type \/ g.satellites < limit.min_satellites
  \/ /\ Have("EKF_STATUS_REPORT")
     /\ LET e == latest["EKF_STATUS_REPORT"] IN
          \/ e.position > limit.pos_horiz_variance_max
          \/ e.velocity > limit.velocity_variance_max

(* The checks in the loop of emergency.cpp: the reasons, in their order. *)
EmergencyReasons(h, age) ==
  LET limit == limits["emergency"]
      s == h["SYS_STATUS"]
      g == h["GPS_RAW_INT"]
      e == h["EKF_STATUS_REPORT"]
  IN {r \in {"gap", "percent", "voltage", "gps", "prearm", "status", "ekf"} :
        CASE r = "gap"     -> age > limit.max_gap_sec
          [] r = "percent" -> s # NoReport /\ s.percent \in 0..limit.min_percent - 1
          [] r = "voltage" -> s # NoReport /\ Voltage(s) \in 0..limit.min_voltage_v - 1
          [] r = "gps"     -> /\ g # NoReport /\ g.satellites # NoSatellites
                              /\ \/ g.fix < limit.min_fix_type
                                 \/ g.satellites < limit.min_satellites
          [] r = "prearm"  -> /\ s # NoReport /\ limit.require_prearm_healthy
                              /\ ~s.prearm
          [] r = "status"  -> /\ s # NoReport /\ limit.require_normal_state
                              /\ h["HEARTBEAT"].status = "CRITICAL"
          [] r = "ekf"     -> /\ e # NoReport
                              /\ \/ e.position > limit.pos_horiz_variance_max
                                 \/ e.velocity > limit.velocity_variance_max}

-----------------------------------------------------------------------------
(* emergency: wait_heartbeat(), which leaves the heartbeat undecoded, then  *)
(* one evaluation for each message or time-out of recv_match().             *)
FirstHeartbeat ==
  /\ phase = "waiting"
  /\ phase' = "watching"
  /\ gap' = 0 /\ waited' = 0
  /\ UNCHANGED <<settings, limits, apart, latest, reported>>

NoHeartbeat ==
  /\ phase = "waiting"
  /\ phase' = "ended"
  /\ UNCHANGED <<settings, limits, apart, watch>>

TakeMessage(m) ==
  /\ phase = "watching"
  /\ latest' = [latest EXCEPT ![m.type] = m]
  /\ gap' = IF m.type = "HEARTBEAT" THEN 0 ELSE gap
  /\ reported' = (EmergencyReasons(latest', gap') # {})
  /\ waited' = 0
  /\ UNCHANGED <<settings, phase, limits, apart>>

(* Mutation of Silent: nothing is evaluated when nothing came.              *)
SilentUnnoticed == reported

Silent == EmergencyReasons(latest, gap) # {}

TakeNothing ==
  /\ phase = "watching" /\ waited = PollInterval
  /\ reported' = Silent
  /\ waited' = 0
  /\ UNCHANGED <<settings, phase, limits, apart, latest, gap>>

Tick ==
  /\ phase = "watching" /\ waited < PollInterval
  /\ waited' = waited + 1
  /\ gap' = IF gap < MaxGap THEN gap + 1 ELSE gap
  /\ UNCHANGED <<settings, phase, limits, apart, latest, reported>>

Init ==
  /\ SettingsInit
  /\ phase = "reading"
  /\ limits = [p \in Programs |-> Defaults]
  /\ apart = FALSE
  /\ latest = [t \in Types |-> IF t = "HEARTBEAT"
                               THEN [type |-> t, status |-> "STANDBY"]
                               ELSE NoReport]
  /\ gap = 0 /\ waited = 0 /\ reported = FALSE

Read == ReadLine /\ UNCHANGED <<phase, limits, apart, watch>>

Next ==
  \/ Read \/ Load \/ FirstHeartbeat \/ NoHeartbeat
  \/ (\E m \in Messages : TakeMessage(m)) \/ TakeNothing \/ Tick

Spec == Init /\ [][Next]_vars

(* The programs run and time passes; no message has to come. *)
FairSpec == Spec /\ WF_vars(TakeNothing) /\ WF_vars(Tick)

-----------------------------------------------------------------------------
(* What emergency.cpp says of itself: control.cpp evaluates the same checks *)
(* (lines 8 to 12).  From one file and the same messages both programs come *)
(* to one verdict, unless a key stopped the loading in one of them only.    *)
SameVerdict ==
  phase = "watching" /\ ~apart =>
    (ControlBreach <=> EmergencyReasons(latest, gap) # {})

(* A vehicle that falls silent is reported although nothing comes any more  *)
(* to say so ("a stalled link is caught", emergency.cpp:213-215).           *)
SilenceIsReported ==
  phase = "watching" /\ gap > limits["emergency"].max_gap_sec ~>
    reported \/ gap = 0

(* A check that safety.yaml requires in so many words is in force.          *)
RequiredChecksAreOn ==
  [][phase = "reading" /\ phase' = "waiting" =>
       \A k \in Requirements :
         LET path == <<"vehicle_health_limit", k>>
         IN Written(path) /\ tree[path].text = "true" => limits'["control"][k]]_vars
============================================================================
