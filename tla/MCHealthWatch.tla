--------------------------- MODULE MCHealthWatch ---------------------------
(***************************************************************************)
(* Files and messages for HealthWatch: the file that is shipped, what an   *)
(* editor makes of one of its lines, short files of any shape, and reports *)
(* on both sides of every limit.                                           *)
(***************************************************************************)
EXTENDS HealthWatch

Entry(indent, key, text, comment) ==
  [indent |-> indent, key |-> key, text |-> text, comment |-> comment]
Head_(key) == Entry(0, key, NoText, FALSE)
Leaf(key, text) == Entry(2, key, text, FALSE)
Remarked(key, text) == Entry(2, key, text, TRUE)
Remark == Entry(2, NoKey, NoText, TRUE)

(* setting/safety.yaml; most of its values have a comment behind them. *)
Shipped ==
  <<Head_("altitude_limit"), Remarked("hard_limit_m", "50"),
    Remarked("poll_rate_hz", "5"),
    Head_("battery_limit"), Remarked("min_percent", "20"), Remark,
    Remarked("min_voltage_v", "14800"),
    Head_("heartbeat_limit"), Remark, Remarked("max_gap_sec", "3"),
    Remarked("land_gap_sec", "5"),
    Head_("gps_limit"), Remarked("min_fix_type", "3"), Leaf("min_satellites", "6"),
    Head_("vehicle_health_limit"), Remarked("require_prearm_healthy", "true"),
    Remarked("require_normal_state", "true"),
    Head_("ekf_limit"), Leaf("pos_horiz_variance_max", "10"),
    Leaf("velocity_variance_max", "10")>>

ShippedFile == {Shipped}

Values == "5" :> 5 @@ "50" :> 50 @@ "20" :> 20 @@ "14800" :> 14800
          @@ "3" :> 3 @@ "6" :> 6 @@ "10" :> 10 @@ "2" :> 2

(* One line is changed, moved to the left, written twice or left out. *)
Changed(l) ==
  {[l EXCEPT !.text = t, !.comment = c] : t \in {"2", "true", "x", NoText},
                                          c \in BOOLEAN}
  \cup {[l EXCEPT !.indent = 0]}

Edited(f) ==
  UNION {{[f EXCEPT ![i] = l] : l \in Changed(f[i])}
           \cup {InsertAt(f, i, f[i]), RemoveAt(f, i)} : i \in DOMAIN f}

(* Any few lines of any shape. *)
Shapes == {Entry(0, "a", NoText, FALSE), Entry(0, "a", "2", TRUE),
           Entry(2, "b", NoText, FALSE), Entry(2, "a", "2", FALSE),
           Entry(4, "b", "true", TRUE), Entry(2, "", "2", FALSE),
           Entry(2, NoKey, NoText, FALSE)}
ShortFiles == UNION {[1..n -> Shapes] : n \in 0..4}

ManyFiles == ShippedFile \cup Edited(Shipped) \cup ShortFiles

Sys(p, v, a) ==
  [type |-> "SYS_STATUS", percent |-> p, voltage |-> v, prearm |-> a]
Gps(f, s) == [type |-> "GPS_RAW_INT", fix |-> f, satellites |-> s]
Ekf(p, v) == [type |-> "EKF_STATUS_REPORT", position |-> p, velocity |-> v]

Reports ==
  {Sys(20, 14800, TRUE), Sys(-1, NoVoltage, TRUE), Sys(2, 14800, TRUE),
   Sys(19, 14800, TRUE), Sys(20, 14799, TRUE), Sys(20, 14800, FALSE),
   Gps(3, 6), Gps(2, 6), Gps(3, 5), Gps(0, NoSatellites),
   Ekf(10, 10), Ekf(11, 10), Ekf(10, 11)}
  \cup [type : {"HEARTBEAT"}, status : {"STANDBY", "CRITICAL"}]
============================================================================
