------------------------------ MODULE FecLink ------------------------------
(***************************************************************************)
(* The telemetry link: the main loop of gcs/sender/telem_sender_main.cpp   *)
(* with its encoder, UDP between two machines, and the receive_loop() of   *)
(* gcs/tools/gcs_bridge.py with its decoder.                               *)
(*                                                                         *)
(* Time passes in ticks.  The sender submits a message every Period, later *)
(* when it has to reconnect to the flight controller first; a datagram     *)
(* arrives within MaxDelay or not at all, in any order, perhaps more than  *)
(* once; poll() returns with a packet as soon as there is one, and empty-  *)
(* handed after PollTimeout.  The sender may be stopped (it flushes) and   *)
(* run again, with a fresh encoder and its message numbers back at zero.   *)
(***************************************************************************)
EXTENDS FecEncoder, FecDecoder

CONSTANTS
  Period,        (* 1 / rate_hz                                              *)
  MaxDelay,      (* of a datagram                                            *)
  Worlds         (* bounds: what may happen around the link, see World       *)

(* At most this many runs of the sender, messages in a run before SIGINT,   *)
(* datagrams lost, and whether the network duplicates any; a reconnect      *)
(* makes a message at most stall ticks late.                                *)
World == [runs : Nat \ {0}, messages : Nat \ {0}, losses : Nat,
          duplicates : BOOLEAN, stall : Nat]

ASSUME LinkAssumption ==
  /\ Period \in Nat \ {0}
  /\ MaxDelay \in Nat
  /\ Worlds \subseteq World

VARIABLES
  world,       (* the bounds of this behaviour                               *)
  run, seq,    (* of the message make_telemetry_json() makes next            *)
  running,     (* the sender's loop goes on                                  *)
  due,         (* time to its next_tick                                      *)
  flight,      (* the datagrams under way and how long they have been        *)
  listening,   (* the receive thread is alive                                *)
  quiet,       (* time since poll() was called                               *)
  wired,       (* history: the packets sent                                  *)
  arrived,     (* history: the packets poll() took from the socket           *)
  received     (* history: the payloads poll() returned                      *)

sender  == <<run, seq, running, due>>
network == <<flight, wired, arrived>>
vars    == <<world, encoder, decoder, sender, network, listening, quiet, received>>

Launched(ps) == {[pkt |-> ps[i], age |-> 0] : i \in DOMAIN ps}
PacketsOf(ps) == {ps[i] : i \in DOMAIN ps}

(***************************************************************************)
(* The sender.                                                             *)
(***************************************************************************)
Transmit ==
  /\ flight' = flight \cup Launched(emitted')
  /\ wired' = wired \cup PacketsOf(emitted')
  /\ UNCHANGED <<arrived, listening, quiet, received>>
  /\ DecoderIdle

SendNext ==
  /\ running /\ due = 0
  /\ seq < world.messages
  /\ Submit([run |-> run, seq |-> seq])
  /\ seq' = seq + 1
  /\ due' \in Period..Period + world.stall
  /\ Transmit
  /\ UNCHANGED <<world, run, running>>

(* SIGINT: the loop ends and the encoder is flushed. *)
StopSender ==
  /\ running /\ due = 0
  /\ Flush
  /\ running' = FALSE
  /\ Transmit
  /\ UNCHANGED <<world, run, seq, due>>

(* The process is started again, after a stop or a crash. *)
RestartSender ==
  /\ run < world.runs
  /\ EncoderRestart
  /\ run' = run + 1
  /\ seq' = 0
  /\ running' = TRUE
  /\ due' = Period
  /\ DecoderIdle
  /\ UNCHANGED <<world, network, listening, quiet, received>>

(***************************************************************************)
(* The network.                                                            *)
(***************************************************************************)
Airborne == {f.pkt : f \in flight}
LostPackets == wired \ (arrived \cup Airborne)

(* A datagram is lost on the way, or stays unread once the thread is dead.  *)
Lose(f) ==
  /\ flight' = flight \ {f}
  /\ listening /\ f.pkt \notin arrived => Cardinality(LostPackets) < world.losses
  /\ DecoderIdle
  /\ UNCHANGED <<world, wired, arrived, encoder, sender, listening, quiet, received>>

(***************************************************************************)
(* The receiver.                                                           *)
(***************************************************************************)
Receive(f) ==
  /\ listening
  /\ Poll(f.pkt)
  /\ received' = received \cup out'
  /\ arrived' = arrived \cup {f.pkt}
  /\ flight' \in {flight \ {f}} \cup (IF world.duplicates THEN {flight} ELSE {})
  /\ quiet' = 0
  /\ UNCHANGED <<world, wired, listening, encoder, sender>>

ReceiveNothing ==
  /\ listening
  /\ quiet = PollTimeout
  /\ Poll(NoPacket)
  /\ received' = received \cup out'
  /\ quiet' = 0
  /\ UNCHANGED <<world, network, listening, encoder, sender>>

ReceiveDies(f) ==
  /\ listening
  /\ PollRaises(f.pkt)
  /\ arrived' = arrived \cup {f.pkt}
  /\ flight' = flight \ {f}
  /\ listening' = FALSE
  /\ UNCHANGED <<world, wired, quiet, received, encoder, sender>>

(***************************************************************************)
Tick ==
  /\ running => due > 0
  /\ \A f \in flight : f.age < MaxDelay
  /\ listening => quiet < PollTimeout
  /\ due' = IF due > 0 THEN due - 1 ELSE 0
  /\ flight' = {[f EXCEPT !.age = @ + 1] : f \in flight}
  /\ groups' = Aged
  /\ quiet' = IF listening THEN quiet + 1 ELSE quiet
  /\ out' = {}
  /\ UNCHANGED <<world, high_water, stats, encoder, run, seq, running, listening,
                 wired, arrived, received>>

Init ==
  /\ world \in Worlds
  /\ EncoderInit
  /\ DecoderInit
  /\ run = 1 /\ seq = 0 /\ running = TRUE /\ due = 0
  /\ flight = {}
  /\ listening = TRUE
  /\ quiet = 0
  /\ wired = {} /\ arrived = {} /\ received = {}

Next ==
  \/ SendNext \/ StopSender \/ RestartSender
  \/ \E f \in flight : Lose(f) \/ Receive(f) \/ ReceiveDies(f)
  \/ ReceiveNothing
  \/ Tick

Spec == Init /\ [][Next]_vars

-----------------------------------------------------------------------------
(* Every variable holds a value of its kind; one parity packet at most      *)
(* waits in the encoder, so that flush(), which sends one, empties it.      *)
TypeOK ==
  /\ EncoderTypeOK /\ DecoderTypeOK
  /\ world \in Worlds
  /\ run \in 1..world.runs /\ seq \in 0..world.messages /\ running \in BOOLEAN
  /\ due \in 0..Period + world.stall
  /\ \A f \in flight : f.pkt \in Packet /\ f.age \in 0..MaxDelay
  /\ listening \in BOOLEAN
  /\ quiet \in 0..PollTimeout
  /\ wired \subseteq Packet /\ arrived \subseteq wired
  /\ received \subseteq SUBSET Message

Sent == {p.payload : p \in {q \in wired : q.type = "DATA"}}

(* What poll() returns is what was submitted: no recovery, from any subset  *)
(* of a group's packets in any order, makes up a payload.  (Across a restart *)
(* of the sender two groups may have the same number and be mixed.)         *)
NothingInvented == run = 1 => received \subseteq Sent

(* No call of poll() returns a payload that an earlier call returned:       *)
(* stragglers and duplicates of a closed group never open it again.         *)
AtMostOnce == [][out' \cap received = {}]_vars

(* A poll gives a group up only when two of its packets have not come: once *)
(* GroupSize of its GroupSize + 1 packets have arrived, in whatever order   *)
(* and whatever was repeated, the poll that closes it hands over all of its *)
(* messages.  How long the group was waited for does not matter here.       *)
GivenUpOnlyTwoShort ==
  [][run = 1 => \A k \in DOMAIN groups \ DOMAIN groups' :
       Cardinality({q \in arrived' : q.key = k}) >= GroupSize =>
         \A q \in wired : q.key = k /\ q.type = "DATA" =>
           q.payload \in received']_vars

(* A packet's group: what the sender put on the wire together with it. *)
RunOf(p) == (CHOOSE m \in p.payload : TRUE).run
GroupPackets(p) == {q \in wired : q.key = p.key /\ RunOf(q) = RunOf(p)}

(* The whole group is on the wire, and what arrived of it has been handled. *)
Settled(p) ==
  /\ \E q \in GroupPackets(p) : q.type = "PARITY"
  /\ GroupPackets(p) \cap Airborne = {}
  /\ p.key \notin DOMAIN groups

(* fec_packet.hpp: a group's parity "recovers exactly one loss per group".  *)
(* At the rates that are shipped the receiver does not wait long enough for *)
(* it, and the code violates this; with more time, RecoversOneLoss proves   *)
(* it.  A reconnect that holds back the parity, and a restart, are excepted: *)
(* the promise fails with them.                                             *)
OneLossRecovered ==
  run = 1 /\ world.stall = 0 => \A p \in wired :
    Settled(p) /\ Cardinality(GroupPackets(p) \ arrived) <= 1 =>
      \A q \in GroupPackets(p) : q.type = "DATA" => q.payload \in received

Feed == INSTANCE TelemetryFeed WITH
          sent <- Sent,
          received <- IF world.runs = 1 THEN received ELSE {},
          deliveries <- IF world.runs = 1
                        THEN stats.delivered + stats.recovered ELSE 0

(* While the sender is not restarted the link implements TelemetryFeed; the *)
(* decoder's own statistics count each payload it hands over exactly once.  *)
ImplementsFeed == Feed!Spec
============================================================================
