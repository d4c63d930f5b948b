--------------------------- MODULE FlightStartup ---------------------------
(***************************************************************************)
(* control/control.cpp before approach_target(): main() connects, asks for *)
(* GUIDED, arms, takes off, and each time waits for heartbeats in          *)
(* wait_for_heartbeat().  Below it the MavConnection of drone_lib.cpp,     *)
(* which reads datagrams of one or more MAVLink messages and addresses its *)
(* commands to whichever system it has heard last.                         *)
(*                                                                         *)
(* A tick is the 0.2 s for which one recv_match() of wait_for_heartbeat()  *)
(* waits.  Reading what has come takes no time.                            *)
(***************************************************************************)
EXTENDS Integers, Sequences

CONSTANTS
  Others,           (* systems on the link besides the vehicle                *)
  ConnectTimeout,   (* heartbeat_timeout of connect()                        *)
  AckTimeout,       (* timeout_sec for GUIDED and for arming                 *)
  ClimbTime,        (* timeout_sec for the climb                             *)
  MaxGap,           (* max_heartbeat_gap_sec                                 *)
  MaxDatagrams      (* bound: datagrams that come within a tick              *)

ASSUME StartupAssumption ==
  /\ "vehicle" \notin Others
  /\ {ConnectTimeout, AckTimeout, ClimbTime, MaxGap, MaxDatagrams} \subseteq Nat

VARIABLES
  stage,       (* how far main() is                                          *)
  step,        (* top of the loop ("check") or in recv_match()               *)
  elapsed,     (* since the stage began                                      *)
  gap,         (* since last_heartbeat                                       *)
  pass,        (* since the now of this pass                                 *)
  target,      (* target_system_                                             *)
  inbound,     (* datagrams in the socket                                    *)
  arrived,     (* how many have come within this tick                        *)
  commands,    (* commands under way                                         *)
  vehicle,     (* what the vehicle is doing                                  *)
  sent,        (* history: the commands sent                                 *)
  reported     (* history: who has reported what since it was asked for      *)

program == <<stage, step, elapsed, gap, pass, target>>
network == <<inbound, arrived, commands>>
history == <<sent, reported>>
vars    == <<program, network, vehicle, history>>

Waiting == {"GUIDED", "ARM", "TAKEOFF"}
Timeout == [GUIDED |-> AckTimeout, ARM |-> AckTimeout, TAKEOFF |-> ClimbTime]
Flying  == stage = "flying"
Failed  == stage = "failed"
Over    == Flying \/ Failed

Systems == {"vehicle"} \cup Others
Message == [from : Systems, heartbeat : BOOLEAN, guided : BOOLEAN, armed : BOOLEAN]

(***************************************************************************)
(* The vehicle, the other systems and the network.                         *)
(***************************************************************************)
(* What a system may say now.  The vehicle says how it is.  Another system  *)
(* is in a mode, armed or not, of its own: a second vehicle or an antenna   *)
(* tracker may well be in one whose number is that of GUIDED.               *)
Says(s) ==
  {m \in Message :
     /\ m.from = s
     /\ m.guided \/ m.armed => m.heartbeat
     /\ s = "vehicle" /\ m.heartbeat =>
          m.guided = vehicle.guided /\ m.armed = vehicle.armed}

DatagramArrives ==
  /\ ~Over
  /\ arrived < MaxDatagrams
  /\ arrived' = arrived + 1
  /\ LET Now == UNION {Says(s) : s \in Systems} IN
     \E d \in {<<m>> : m \in Now} \cup (Now \X Now) : inbound' = Append(inbound, d)
  /\ UNCHANGED <<program, commands, vehicle, history>>

CommandArrives ==
  \E c \in commands :
    /\ commands' = commands \ {c}
    /\ vehicle' =
         IF c.to # "vehicle" THEN vehicle
         ELSE [guided |-> vehicle.guided \/ c.command = "GUIDED",
               armed  |-> vehicle.armed \/ c.command = "ARM",
               airborne |-> \/ vehicle.airborne
                            \/ c.command = "TAKEOFF" /\ vehicle.guided /\ vehicle.armed]
    /\ UNCHANGED <<program, inbound, arrived, history>>

CommandLost ==
  /\ \E c \in commands : commands' = commands \ {c}
  /\ UNCHANGED <<program, inbound, arrived, vehicle, history>>

(* The pilot switches to another mode; a vehicle on the ground may disarm. *)
PilotActs ==
  /\ vehicle' \in {[vehicle EXCEPT !.guided = FALSE],
                   [vehicle EXCEPT !.armed = vehicle.airborne]}
  /\ vehicle' # vehicle
  /\ UNCHANGED <<program, network, history>>

(***************************************************************************)
(* MavConnection.                                                          *)
(***************************************************************************)
Datagram == Head(inbound)

FirstHeartbeat(n) ==
  Datagram[n].heartbeat /\ \A i \in 1..n - 1 : ~Datagram[i].heartbeat

NoHeartbeat == \A i \in DOMAIN Datagram : ~Datagram[i].heartbeat

(* recv_match() parses a datagram up to the message it returns, and forgets *)
(* the rest.                                                                *)
Parse(n) ==
  /\ inbound' = Tail(inbound)
  /\ target' = Datagram[n].from

ParseOther == inbound # <<>> /\ NoHeartbeat /\ Parse(Len(Datagram))

Send(command) ==
  /\ commands' = commands \cup {[command |-> command, to |-> target']}
  /\ sent' = sent \cup {[command |-> command, to |-> target']}

(***************************************************************************)
(* main().                                                                 *)
(***************************************************************************)
(* A stage begins: its command is sent and wait_for_heartbeat() entered. *)
Begin(next) ==
  /\ Send(next)
  /\ stage' = next
  /\ step' = "check"
  /\ elapsed' = 0 /\ gap' = 0 /\ pass' = 0

Fail ==
  /\ stage' = "failed"
  /\ UNCHANGED <<step, elapsed, gap, pass, target, network, vehicle, history>>

(* Mutation of Ready: a heartbeat is taken for a confirmation.              *)
AnyHeartbeat(m) == stage # "TAKEOFF"

(* is_ready of the stage; the climb has none. *)
Ready(m) == (stage = "GUIDED" /\ m.guided) \/ (stage = "ARM" /\ m.armed)

Report == [by : Systems, what : {"GUIDED", "ARM"}]

(* History: what a heartbeat confirms, and whose it is. *)
Reports(hb) ==
  {r \in Report : /\ r.by = hb.from /\ r.what = stage
                  /\ IF r.what = "GUIDED" THEN hb.guided ELSE hb.armed}

After == [GUIDED |-> "ARM", ARM |-> "TAKEOFF"]

(* connect(): the first heartbeat of anyone, and the request for GUIDED. *)
Connect ==
  /\ stage = "connect" /\ inbound # <<>>
  /\ \E n \in DOMAIN Datagram :
       FirstHeartbeat(n) /\ Parse(n) /\ Begin("GUIDED")
  /\ UNCHANGED <<arrived, vehicle, reported>>

ConnectFails == stage = "connect" /\ elapsed >= ConnectTimeout /\ Fail

(* The tests at the top of the loop, in their order. *)
TimedOut == elapsed >= Timeout[stage]

(* Mutation of TooQuiet: the gap is left to the approach loop.              *)
NeverTooQuiet == FALSE

TooQuiet == gap > MaxGap

ClimbDone == stage = "TAKEOFF"

Atop == stage \in Waiting /\ step = "check"

TakeOver ==
  /\ Atop /\ TimedOut /\ ClimbDone
  /\ stage' = "flying"
  /\ UNCHANGED <<step, elapsed, gap, pass, target, network, vehicle, history>>

Refused == Atop /\ TimedOut /\ ~ClimbDone /\ Fail
Silent  == Atop /\ ~TimedOut /\ TooQuiet /\ Fail

StartPass ==
  /\ Atop /\ ~TimedOut /\ ~TooQuiet
  /\ step' = "recv" /\ pass' = 0
  /\ UNCHANGED <<stage, elapsed, gap, target, network, vehicle, history>>

Receiving == stage \in Waiting /\ step = "recv"

(* A datagram without a heartbeat: recv_match() goes on. *)
ReadOther ==
  /\ stage = "connect" \/ Receiving
  /\ ParseOther
  /\ UNCHANGED <<stage, step, elapsed, gap, pass, arrived, commands, vehicle,
                 history>>

HeartbeatIs(hb) ==
  /\ reported' = reported \cup Reports(hb)
  /\ IF Ready(hb)
     THEN Begin(After[stage])
     ELSE /\ gap' = pass /\ step' = "check"
          /\ UNCHANGED <<stage, elapsed, pass, commands, sent>>

ReadHeartbeat ==
  /\ Receiving /\ inbound # <<>>
  /\ \E n \in DOMAIN Datagram :
       FirstHeartbeat(n) /\ Parse(n) /\ HeartbeatIs(Datagram[n])
  /\ UNCHANGED <<arrived, vehicle>>

(* Mutation of WaitOver: recv_match() waits without a deadline.             *)
NeverOver == FALSE

WaitOver == pass = 1

ReadNothing ==
  /\ Receiving
  /\ WaitOver
  /\ step' = "check"
  /\ UNCHANGED <<stage, elapsed, gap, pass, target, network, vehicle, history>>

(* The transport throws. *)
Throws == (stage = "connect" \/ Receiving) /\ Fail

Tick ==
  /\ inbound = <<>>
  /\ \/ stage = "connect" /\ elapsed < ConnectTimeout
     \/ Receiving /\ pass = 0
  /\ elapsed' = elapsed + 1
  /\ gap' = IF stage = "connect" THEN gap ELSE gap + 1
  /\ pass' = IF stage = "connect" THEN pass ELSE pass + 1
  /\ arrived' = 0
  /\ UNCHANGED <<stage, step, target, inbound, commands, vehicle, sent, reported>>

Init ==
  /\ stage = "connect" /\ step = "check"
  /\ elapsed = 0 /\ gap = 0 /\ pass = 0
  /\ target = "nobody"
  /\ inbound = <<>> /\ arrived = 0 /\ commands = {}
  /\ vehicle \in [guided : BOOLEAN, armed : BOOLEAN, airborne : {FALSE}]
  /\ sent = {} /\ reported = {}

Main == Connect \/ ConnectFails \/ TakeOver \/ Refused \/ Silent \/ StartPass
        \/ ReadOther \/ ReadHeartbeat \/ ReadNothing

Next == DatagramArrives \/ CommandArrives \/ CommandLost \/ PilotActs
        \/ Main \/ Throws \/ Tick

Spec == Init /\ [][Next]_vars

(* The program runs and time passes. *)
FairSpec == Spec /\ WF_vars(Main) /\ WF_vars(Tick)

-----------------------------------------------------------------------------
(* Every variable holds a value of its kind; no wait outlives its timeout,  *)
(* and no gap the limit, by more than the pass under way.                   *)
TypeOK ==
  /\ stage \in {"connect", "flying", "failed"} \cup Waiting
  /\ step \in {"check", "recv"}
  /\ stage = "connect" => elapsed \in 0..ConnectTimeout
  /\ stage \in Waiting => elapsed \in 0..Timeout[stage]
  /\ gap \in 0..MaxGap + 1 /\ pass \in 0..1
  /\ target \in Systems \cup {"nobody"}
  /\ inbound \in Seq(Seq(Message)) /\ Len(inbound) <= MaxDatagrams
  /\ arrived \in 0..MaxDatagrams
  /\ commands \subseteq sent
  /\ sent \subseteq [command : Waiting, to : Systems]
  /\ vehicle \in [guided : BOOLEAN, armed : BOOLEAN, airborne : BOOLEAN]
  /\ reported \subseteq Report

(* Nothing is armed before a heartbeat, read after GUIDED was asked for, has *)
(* reported GUIDED, and no take-off is asked for before one, read after the  *)
(* arming was, has also reported to be armed, whatever is lost or comes      *)
(* late.  Whose heartbeat it was the program does not ask.                   *)
Heard(what) == \E r \in reported : r.what = what

StepsAreConfirmed ==
  \A c \in sent :
    /\ c.command = "ARM" => Heard("GUIDED")
    /\ c.command = "TAKEOFF" => Heard("GUIDED") /\ Heard("ARM")

(* The start-up ends, in the approach loop or in an error, though commands  *)
(* and heartbeats get lost, refused and contradicted.                       *)
StartupEnds == <>Over

-----------------------------------------------------------------------------
(* drone_lib.hpp: the connection "remembers the target system/component     *)
(* learned from the first heartbeat", and test_mav_connection.cpp asserts   *)
(* that the messages of other systems do not change it.                     *)
CommandsGoToVehicle == \A c \in sent : c.to = "vehicle"

(* control.cpp says what the waits are for: that "the mode actually          *)
(* switched, that the vehicle actually armed", that "sent" is not "worked".  *)
(* Then the motors are armed only after the vehicle itself has reported      *)
(* GUIDED, and it is told to take off only after it has reported both.  The  *)
(* code violates this: StepsAreConfirmed is what it does see to.             *)
ConfirmedByVehicle ==
  LET Own(what) == [by |-> "vehicle", what |-> what] \in reported IN
  \A c \in sent :
    /\ c.command = "ARM" => Own("GUIDED")
    /\ c.command = "TAKEOFF" => Own("GUIDED") /\ Own("ARM")
=============================================================================
