------------------------ MODULE FlightStartupProofs ------------------------
(***************************************************************************)
(* Proofs about FlightStartup, for any number of other systems, whatever   *)
(* their heartbeats report, every timeout and any rate of messages.        *)
(***************************************************************************)
EXTENDS FlightStartup, TLAPS

(* What the socket holds: datagrams of one message or more.                 *)
Wire == {d \in Seq(Message) : d # <<>>}

(* A stage is not begun before the one before it was confirmed.             *)
Confirmed ==
  /\ stage = "ARM" => Heard("GUIDED")
  /\ stage = "TAKEOFF" => Heard("GUIDED") /\ Heard("ARM")

ProgramOK ==
  /\ stage \in {"connect", "flying", "failed"} \cup Waiting
  /\ step \in {"check", "recv"}
  /\ stage = "connect" => elapsed \in 0..ConnectTimeout
  /\ stage \in Waiting => elapsed \in 0..Timeout[stage]
  /\ gap \in 0..MaxGap + 1 /\ pass \in 0..1
  /\ Receiving /\ pass = 0 => elapsed < Timeout[stage] /\ gap <= MaxGap

NetworkOK ==
  /\ target \in Systems \cup {"nobody"}
  /\ inbound \in Seq(Wire) /\ Len(inbound) <= arrived
  /\ arrived \in 0..MaxDatagrams
  /\ vehicle \in [guided : BOOLEAN, armed : BOOLEAN, airborne : BOOLEAN]

CommandsOK ==
  /\ commands \subseteq sent
  /\ sent \subseteq [command : Waiting, to : Systems]
  /\ reported \subseteq Report
  /\ StepsAreConfirmed /\ Confirmed

StartupInv == ProgramOK /\ NetworkOK /\ CommandsOK

-----------------------------------------------------------------------------
(* The constants are natural numbers, and so is every timeout.              *)
LEMMA Bounds ==
  /\ ConnectTimeout \in Nat /\ AckTimeout \in Nat /\ ClimbTime \in Nat
  /\ MaxGap \in Nat /\ MaxDatagrams \in Nat
  /\ \A s \in Waiting : Timeout[s] \in Nat
<1>1. /\ ConnectTimeout \in Nat /\ AckTimeout \in Nat /\ ClimbTime \in Nat
      /\ MaxGap \in Nat /\ MaxDatagrams \in Nat
  BY StartupAssumption
<1>2. ASSUME NEW s \in Waiting PROVE Timeout[s] \in Nat
  BY <1>1, <1>2 DEF Waiting, Timeout
<1> QED
  BY <1>1, <1>2

(* What is read from the socket is a message that came from some system.    *)
LEMMA ParseStep ==
  ASSUME NetworkOK, inbound # <<>>, NEW n \in DOMAIN Datagram, Parse(n),
         UNCHANGED <<arrived, vehicle>>
  PROVE  NetworkOK' /\ Datagram[n] \in Message /\ target' = Datagram[n].from
                    /\ target' \in Systems
<1>1. Datagram \in Wire /\ inbound' \in Seq(Wire) /\ Len(inbound') = Len(inbound) - 1
      /\ Len(inbound) \in Nat
  BY DEF NetworkOK, Datagram, Parse
<1>2. Datagram[n] \in Message
  BY <1>1 DEF Wire
<1>3. Datagram[n].from \in Systems
  BY <1>2 DEF Message
<1>4. arrived \in Nat /\ Len(inbound') <= arrived
  BY <1>1, Bounds DEF NetworkOK
<1> QED
  BY <1>1, <1>2, <1>3, <1>4 DEF NetworkOK, Parse

(* A stage that begins has its command sent to some system.                 *)
LEMMA BeginStep ==
  ASSUME NEW next \in Waiting, Begin(next), target' \in Systems, CommandsOK,
         reported \subseteq reported', reported' \subseteq Report,
         next = "ARM" => Heard("GUIDED")',
         next = "TAKEOFF" => Heard("GUIDED")' /\ Heard("ARM")'
  PROVE  ProgramOK' /\ CommandsOK'
<1>1. ProgramOK'
  <2>1. /\ stage' = next /\ step' = "check" /\ elapsed' = 0 /\ gap' = 0 /\ pass' = 0
    BY DEF Begin
  <2>2. Timeout[stage'] \in Nat /\ stage' \in Waiting /\ stage' # "connect"
    BY <2>1, Bounds DEF Waiting
  <2> QED
    BY <2>1, <2>2, Bounds DEF ProgramOK, Receiving
<1>2. commands' \subseteq sent' /\ sent' \subseteq [command : Waiting, to : Systems]
  BY DEF Begin, Send, CommandsOK
<1>3. StepsAreConfirmed'
  BY DEF Begin, Send, CommandsOK, StepsAreConfirmed, Heard
<1>4. Confirmed'
  BY DEF Begin, Confirmed
<1> QED
  BY <1>1, <1>2, <1>3, <1>4 DEF CommandsOK

-----------------------------------------------------------------------------
(* The start-up begins with nothing sent and nothing reported.              *)
LEMMA StartupInit == Init => StartupInv
<1> SUFFICES ASSUME Init PROVE StartupInv
  OBVIOUS
<1>1. ProgramOK
  BY Bounds DEF Init, ProgramOK, Receiving, Waiting
<1>2. NetworkOK
  <2>1. vehicle \in [guided : BOOLEAN, armed : BOOLEAN, airborne : BOOLEAN]
    BY DEF Init
  <2> QED
    BY <2>1, Bounds DEF Init, NetworkOK
<1>3. CommandsOK
  BY DEF Init, CommandsOK, StepsAreConfirmed, Confirmed
<1> QED
  BY <1>1, <1>2, <1>3 DEF StartupInv

(* The vehicle, the pilot, the other systems and the network change no      *)
(* stage and nothing that has been reported.                                *)
LEMMA OutsideStep ==
  ASSUME StartupInv, DatagramArrives \/ CommandArrives \/ CommandLost \/ PilotActs
  PROVE  StartupInv'
<1>1. UNCHANGED <<program, history>>
  BY DEF DatagramArrives, CommandArrives, CommandLost, PilotActs, history
<1>2. ProgramOK'
  BY <1>1 DEF StartupInv, ProgramOK, Receiving, program
<1>3. commands' \subseteq sent
  BY DEF DatagramArrives, CommandArrives, CommandLost, PilotActs, network,
         StartupInv, CommandsOK
<1>4. CommandsOK'
  BY <1>1, <1>3
  DEF StartupInv, CommandsOK, StepsAreConfirmed, Confirmed, Heard, program, history
<1>5. NetworkOK'
  <2>1. CASE DatagramArrives
    <3>1. ASSUME NEW s \in Systems PROVE Says(s) \subseteq Message
      BY <3>1 DEF Says
    <3>2. PICK d \in Wire : inbound' = Append(inbound, d)
      <4> DEFINE Now == UNION {Says(s) : s \in Systems}
      <4>1. PICK d \in {<<m>> : m \in Now} \cup (Now \X Now) :
              inbound' = Append(inbound, d)
        BY <2>1 DEF DatagramArrives
      <4>2. Now \subseteq Message
        BY <3>1
      <4>3. d \in Wire
        <5>1. CASE d \in {<<m>> : m \in Now}
          <6>1. PICK m \in Message : d = <<m>>
            BY <4>2, <5>1
          <6> QED
            BY <6>1 DEF Wire
        <5>2. CASE d \in Now \X Now
          <6>1. PICK a \in Message, b \in Message : d = <<a, b>>
            BY <4>2, <5>2
          <6> QED
            BY <6>1 DEF Wire
        <5> QED
          BY <4>1, <5>1, <5>2
      <4> QED
        BY <4>1, <4>3
    <3>3. /\ inbound' \in Seq(Wire) /\ Len(inbound') = Len(inbound) + 1
          /\ Len(inbound) \in Nat
      BY <3>2 DEF StartupInv, NetworkOK
    <3>4. arrived' \in 0..MaxDatagrams /\ Len(inbound') <= arrived'
      BY <2>1, <3>3, Bounds DEF StartupInv, NetworkOK, DatagramArrives
    <3> QED
      BY <2>1, <3>3, <3>4 DEF StartupInv, NetworkOK, DatagramArrives, program
  <2>2. CASE CommandArrives \/ PilotActs
    <3> DEFINE States == [guided : BOOLEAN, armed : BOOLEAN, airborne : BOOLEAN]
    <3>1. vehicle' \in States
      <4>1. vehicle \in States
        BY DEF StartupInv, NetworkOK
      <4>2. CASE PilotActs
        <5>1. /\ [vehicle EXCEPT !.guided = FALSE] \in States
              /\ [vehicle EXCEPT !.armed = vehicle.airborne] \in States
          BY <4>1
        <5> QED
          BY <4>2, <5>1 DEF PilotActs
      <4>3. CASE CommandArrives
        <5>1. PICK c \in commands :
                vehicle' =
                  IF c.to # "vehicle" THEN vehicle
                  ELSE [guided |-> vehicle.guided \/ c.command = "GUIDED",
                        armed  |-> vehicle.armed \/ c.command = "ARM",
                        airborne |->
                          \/ vehicle.airborne
                          \/ c.command = "TAKEOFF" /\ vehicle.guided /\ vehicle.armed]
          BY <4>3 DEF CommandArrives
        <5>2. ASSUME NEW a \in BOOLEAN, NEW b \in BOOLEAN, NEW d \in BOOLEAN
              PROVE  [guided |-> a, armed |-> b, airborne |-> d] \in States
          OBVIOUS
        <5> HIDE DEF States
        <5> QED
          BY <4>1, <5>1, <5>2, Zenon
      <4> QED
        BY <2>2, <4>2, <4>3
    <3> QED
      BY <2>2, <3>1 DEF StartupInv, NetworkOK, CommandArrives, PilotActs, program, network
  <2>3. CASE CommandLost
    BY <2>3 DEF StartupInv, NetworkOK, CommandLost, program
  <2> QED
    BY <2>1, <2>2, <2>3
<1> QED
  BY <1>2, <1>4, <1>5 DEF StartupInv

(* connect() reads a first heartbeat and asks for GUIDED.                   *)
LEMMA ConnectStep == ASSUME StartupInv, Connect PROVE StartupInv'
<1>1. PICK n \in DOMAIN Datagram : Parse(n) /\ Begin("GUIDED")
  BY DEF Connect
<1>2. NetworkOK' /\ target' \in Systems
  BY <1>1, ParseStep DEF StartupInv, Connect
<1>3. ProgramOK' /\ CommandsOK'
  <2>1. "GUIDED" \in Waiting /\ reported' = reported
    BY DEF Waiting, Connect
  <2>2. reported' \subseteq Report
    BY <2>1 DEF StartupInv, CommandsOK
  <2> QED
    BY <1>1, <1>2, <2>1, <2>2, BeginStep DEF StartupInv
<1> QED
  BY <1>2, <1>3 DEF StartupInv

(* A heartbeat that is read either confirms the stage, and is then on       *)
(* record with its sender, or starts the gap anew.                          *)
LEMMA HeartbeatStep == ASSUME StartupInv, ReadHeartbeat PROVE StartupInv'
<1>1. PICK n \in DOMAIN Datagram : Parse(n) /\ HeartbeatIs(Datagram[n])
  BY DEF ReadHeartbeat
<1> DEFINE hb == Datagram[n]
<1>2. NetworkOK' /\ hb \in Message /\ target' \in Systems
  BY <1>1, ParseStep DEF StartupInv, ReadHeartbeat
<1>3. /\ reported' = reported \cup Reports(hb)
      /\ reported' \subseteq Report
  <2>1. Reports(hb) \subseteq Report
    BY DEF Reports
  <2> QED
    BY <1>1, <2>1 DEF HeartbeatIs, StartupInv, CommandsOK
<1>4. stage \in Waiting /\ step = "recv"
  BY DEF ReadHeartbeat, Receiving
<1>5. CASE Ready(hb)
  <2>1. stage \in {"GUIDED", "ARM"} /\ hb.from \in Systems
    BY <1>2, <1>5 DEF Ready, Message
  <2>2. [by |-> hb.from, what |-> stage] \in Reports(hb)
    BY <1>5, <2>1 DEF Ready, Reports, Report
  <2>3. \E r \in reported' : r.what = stage
    BY <1>3, <2>2
  <2>4. /\ After[stage] \in Waiting /\ Begin(After[stage])
        /\ After[stage] = "ARM" => stage = "GUIDED"
        /\ After[stage] = "TAKEOFF" => stage = "ARM"
    BY <1>1, <1>5, <2>1 DEF HeartbeatIs, After, Waiting
  <2>5. stage = "ARM" => Heard("GUIDED")'
    BY <1>3 DEF StartupInv, CommandsOK, Confirmed, Heard
  <2>6. /\ After[stage] = "ARM" => Heard("GUIDED")'
        /\ After[stage] = "TAKEOFF" => Heard("GUIDED")' /\ Heard("ARM")'
    BY <2>3, <2>4, <2>5 DEF Heard
  <2>7. ProgramOK' /\ CommandsOK'
    BY <1>2, <1>3, <2>4, <2>6, BeginStep DEF StartupInv
  <2> QED
    BY <1>2, <2>7 DEF StartupInv
<1>6. CASE ~Ready(hb)
  <2>1. /\ gap' = pass /\ step' = "check"
        /\ UNCHANGED <<stage, elapsed, pass, commands, sent>>
    BY <1>1, <1>6 DEF HeartbeatIs
  <2>2. ProgramOK'
    BY <2>1, <1>4, Bounds DEF StartupInv, ProgramOK, Receiving
  <2>3. CommandsOK'
    BY <2>1, <1>3 DEF StartupInv, CommandsOK, StepsAreConfirmed, Confirmed, Heard
  <2> QED
    BY <1>2, <2>2, <2>3 DEF StartupInv
<1> QED
  BY <1>5, <1>6

(* The steps that send nothing and read no heartbeat.                       *)
LEMMA QuietStep ==
  ASSUME StartupInv,
         \/ ConnectFails \/ TakeOver \/ Refused \/ Silent \/ StartPass
         \/ ReadOther \/ ReadNothing \/ Throws \/ Tick
  PROVE  StartupInv'
<1> USE Bounds DEF StartupInv
<1>1. /\ UNCHANGED <<commands, history, vehicle>>
      /\ stage' \in {stage, "flying", "failed"}
  BY DEF ConnectFails, TakeOver, Refused, Silent, StartPass, ReadOther,
         ReadNothing, Throws, Tick, Fail, network, history
<1>2. CommandsOK'
  <2>1. Confirmed'
    BY <1>1 DEF CommandsOK, Confirmed, Heard, history
  <2> QED
    BY <1>1, <2>1 DEF CommandsOK, StepsAreConfirmed, Heard, history
<1>3. NetworkOK'
  <2>1. CASE ReadOther
    <3>1. inbound # <<>> /\ Parse(Len(Datagram)) /\ UNCHANGED <<arrived, vehicle>>
      BY <2>1 DEF ReadOther, ParseOther
    <3>2. Len(Datagram) \in DOMAIN Datagram
      <4>1. Datagram \in Seq(Message) /\ Datagram # <<>>
        BY <3>1 DEF NetworkOK, Datagram, Wire
      <4> QED
        BY <4>1
    <3> QED
      BY <3>1, <3>2, ParseStep
  <2>2. CASE Tick
    BY <2>2 DEF Tick, NetworkOK
  <2>3. CASE UNCHANGED <<target, network, vehicle>>
    BY <2>3 DEF NetworkOK, network
  <2> QED
    BY <2>1, <2>2, <2>3 DEF ConnectFails, TakeOver, Refused, Silent, StartPass,
       ReadNothing, Throws, Fail
<1>4. ProgramOK'
  <2>1. CASE stage' \in {"flying", "failed"}
    <3>1. UNCHANGED <<step, gap, pass>>
      BY <2>1 DEF ConnectFails, TakeOver, Refused, Silent, StartPass, ReadOther,
         ReadNothing, Throws, Tick, Fail, ProgramOK, Atop, Receiving, Waiting
    <3>2. stage' \notin Waiting /\ stage' # "connect"
      BY <2>1 DEF Waiting
    <3> QED
      BY <2>1, <3>1, <3>2 DEF ProgramOK, Receiving
  <2>2. CASE StartPass
    BY <2>2 DEF StartPass, Atop, TimedOut, TooQuiet, ProgramOK, Receiving
  <2>3. CASE ReadNothing
    BY <2>3 DEF ReadNothing, ProgramOK, Receiving
  <2>4. CASE ReadOther
    BY <2>4 DEF ReadOther, ProgramOK, Receiving
  <2>5. CASE Tick
    <3>1. CASE stage = "connect"
      BY <2>5, <3>1 DEF Tick, ProgramOK, Receiving, Waiting
    <3>2. CASE stage # "connect"
      <4>1. Receiving /\ pass = 0 /\ pass' = 1 /\ UNCHANGED <<stage, step>>
        BY <2>5, <3>2 DEF Tick, ProgramOK
      <4>2. elapsed' = elapsed + 1 /\ gap' = gap + 1
        BY <2>5, <3>2 DEF Tick
      <4>3. elapsed' \in 0..Timeout[stage] /\ gap' \in 0..MaxGap + 1
        BY <4>1, <4>2 DEF ProgramOK, Receiving
      <4> QED
        BY <3>2, <4>1, <4>3 DEF ProgramOK
    <3> QED
      BY <3>1, <3>2
  <2> QED
    BY <2>1, <2>2, <2>3, <2>4, <2>5
    DEF ConnectFails, TakeOver, Refused, Silent, Throws, Fail
<1> QED
  BY <1>2, <1>3, <1>4

(* The invariant holds in every state of the start-up.                      *)
THEOREM StartupInvariant == Spec => []StartupInv
<1>1. ASSUME StartupInv, [Next]_vars PROVE StartupInv'
  <2>1. CASE UNCHANGED vars
    BY <1>1, <2>1 DEF StartupInv, ProgramOK, NetworkOK, CommandsOK, Confirmed,
       StepsAreConfirmed, Heard, Receiving, vars, program, network, history
  <2> QED
    BY <1>1, <2>1, OutsideStep, ConnectStep, HeartbeatStep, QuietStep
    DEF Next, Main
<1> QED
  BY <1>1, StartupInit, PTL DEF Spec

(* The motors are armed and the take-off is asked for only after a heartbeat *)
(* has confirmed the step before, read after that step had been asked for,   *)
(* however many systems are on the link, whatever they report, and whichever *)
(* messages are lost.  That it is the vehicle's heartbeat does not hold      *)
(* (ConfirmedByVehicle).                                                     *)
THEOREM StepsSafe == Spec => []StepsAreConfirmed
<1>1. StartupInv => StepsAreConfirmed
  BY DEF StartupInv, CommandsOK
<1> QED
  BY <1>1, StartupInvariant, PTL

(* Every variable keeps its type, and no wait outlives its timeout.         *)
THEOREM StartupTyped == Spec => []TypeOK
<1>1. ASSUME StartupInv PROVE TypeOK
  <2>1. inbound \in Seq(Seq(Message)) /\ Len(inbound) <= MaxDatagrams
    <3>1. Wire \subseteq Seq(Message)
      BY DEF Wire
    <3>2. inbound \in Seq(Wire) /\ Len(inbound) \in Nat
      BY <1>1 DEF StartupInv, NetworkOK
    <3> QED
      BY <1>1, <3>1, <3>2, Bounds DEF StartupInv, NetworkOK
  <2> QED
    BY <1>1, <2>1 DEF StartupInv, ProgramOK, NetworkOK, CommandsOK, TypeOK
<1> QED
  BY <1>1, StartupInvariant, PTL
============================================================================
