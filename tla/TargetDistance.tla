--------------------------- MODULE TargetDistance ---------------------------
(***************************************************************************)
(* The sensing loop of control/target_distance.cpp between its two sources *)
(* and its one reader: ALTITUDE messages of the flight controller queue in *)
(* its socket, yolo_live answers its GET /target, and control.cpp polls    *)
(* the packets it sends.                                                   *)
(*                                                                         *)
(* One round of the loop takes at most one ALTITUDE message off the queue  *)
(* (or waits a cycle for one), asks yolo_live, and sends a packet.         *)
(*                                                                         *)
(* Time passes in ticks.  The program takes the time at which it reads a   *)
(* message for the time of the reading; besides that age this module keeps *)
(* the real one, how long ago the flight controller measured the altitude  *)
(* ("measured") and yolo_live finished the inference ("seen").             *)
(***************************************************************************)
EXTENDS Integers, Sequences

CONSTANTS
  Distances,         (* what distance_m may come to for a target             *)
  MaxPlausible,      (* max_plausible_distance_m                             *)
  MaxJump,           (* max_distance_jump_m                                  *)
  AltitudeStale,     (* altitude_stale_ms                                    *)
  TargetStale,       (* target_stale_ms                                      *)
  LinkStale,         (* link_stale_ms, of the reader                         *)
  Cycle,             (* sense_cycle_ms                                       *)
  AltitudePeriod,    (* the flight controller sends one ALTITUDE in this time *)
  MaxHttp,           (* http_get() returns or throws within this time        *)
  MaxPass,           (* the reader polls at least this often                 *)
  MaxUnread,         (* bound: ALTITUDE messages the socket buffer holds     *)
  LossyAltitude      (* whether ALTITUDE messages may fail to come           *)

ASSUME SensingAssumption ==
  /\ Distances \subseteq Nat
  /\ {MaxPlausible, MaxJump, AltitudeStale, TargetStale, LinkStale} \subseteq Nat
  /\ {Cycle, AltitudePeriod, MaxHttp, MaxPass, MaxUnread} \subseteq Nat \ {0}
  /\ LossyAltitude \in BOOLEAN

(* Ages are counted up to this, which no bound below exceeds. *)
Oldest ==
  AltitudeStale + TargetStale + MaxUnread * MaxHttp + MaxHttp + MaxPass
  + LinkStale + 1

VARIABLES
  pc, spent,         (* "receive", "request" or "ended", and for how long    *)
  unread,            (* ages of the ALTITUDE messages in the socket          *)
  next_altitude,     (* time until the flight controller sends the next one  *)
  altitude,          (* have_altitude, its age by last_altitude_time, its    *)
                     (* real age, and altitude_fresh of this round           *)
  accepted,          (* have_last_distance and last_accepted_distance_m      *)
  detection,         (* what yolo_live publishes, and its age                *)
  reply,             (* its answer, once given                               *)
  inbox,             (* the newest packet the reader has not polled          *)
  last, link_age,    (* the reader's last packet and its age                 *)
  waited,            (* since the reader polled                              *)
  shown              (* history: the last distance sent as found             *)

loop   == <<pc, spent, altitude, accepted>>
reader == <<last, link_age, waited>>
vars   == <<loop, unread, next_altitude, detection, reply, inbox, reader, shown>>

None == [none |-> TRUE]
Older(age) == IF age < Oldest THEN age + 1 ELSE age
Gap(a, b)  == IF a < b THEN b - a ELSE a - b

(***************************************************************************)
(* The sources.                                                            *)
(***************************************************************************)
AltitudeArrives ==
  /\ next_altitude = 0
  /\ next_altitude' = AltitudePeriod
  /\ \/ unread' = IF Len(unread) < MaxUnread THEN Append(unread, 0) ELSE unread
     \/ LossyAltitude /\ UNCHANGED unread
  /\ UNCHANGED <<loop, detection, reply, inbox, reader, shown>>

(* An inference is published: with a confirmed target, or without one.      *)
Inference ==
  /\ detection' \in [confirmed : IF Distances = {} THEN {FALSE} ELSE BOOLEAN,
                     age : {0}]
  /\ UNCHANGED <<loop, unread, next_altitude, reply, inbox, reader, shown>>

(* yolo_live answers; age_ms is the age when it does. *)
Answer ==
  /\ pc = "request"
  /\ reply = None
  /\ reply' = [confirmed |-> detection.confirmed,
               age_ms |-> detection.age, seen |-> detection.age]
  /\ UNCHANGED <<loop, unread, next_altitude, detection, inbox, reader, shown>>

(***************************************************************************)
(* The loop.                                                               *)
(***************************************************************************)
(* Mutation of Fresh: the last known altitude is trusted for ever.          *)
FreshOnceRead(a) == a.have

(* altitude_fresh is decided here, before the request.                      *)
Fresh(a) == a.have /\ a.age <= AltitudeStale

StartRequest(a) ==
  /\ altitude' = [a EXCEPT !.fresh = Fresh(a)]
  /\ pc' = "request" /\ spent' = 0
  /\ reply' = None
  /\ UNCHANGED <<accepted, next_altitude, detection, inbox, reader, shown>>

ReceiveAltitude ==
  /\ pc = "receive"
  /\ unread # <<>>
  /\ unread' = Tail(unread)
  /\ StartRequest([altitude EXCEPT !.have = TRUE, !.age = 0,
                                   !.measured = Head(unread)])

ReceiveNothing ==
  /\ pc = "receive"
  /\ unread = <<>>
  /\ spent = Cycle
  /\ StartRequest(altitude)
  /\ UNCHANGED unread

(* Mutation of Usable: an old detection is as good as a new one.            *)
UsableAtAnyAge == reply # None /\ reply.confirmed

Usable == reply # None /\ reply.confirmed /\ reply.age_ms <= TargetStale

Plausible(d) == d <= MaxPlausible

JumpOk(d) == accepted.have => Gap(d, accepted.distance) <= MaxJump

(* Mutation of Accepted: the reference follows every plausible reading.     *)
AcceptedUnlessOutOfRange(found, d) ==
  IF Usable /\ Plausible(d) THEN [have |-> TRUE, distance |-> d] ELSE accepted

Accepted(found, d) ==
  IF found THEN [have |-> TRUE, distance |-> d] ELSE accepted

(* Mutation of NextRound: the wait for ALTITUDE is not given a new deadline. *)
SameDeadline == pc' = "receive" /\ UNCHANGED spent

NextRound == pc' = "receive" /\ spent' = 0

(* The packet is computed, from the pixels of the answer and the altitude   *)
(* this program knows, and sent.                                            *)
SendPacket ==
  \E d \in IF Usable THEN Distances ELSE {0} :
   LET found == Usable /\ Plausible(d) /\ JumpOk(d) IN
    /\ inbox' = [altitude_valid |-> altitude.fresh,
                 found |-> found,
                 valid |-> altitude.fresh /\ found,
                 measured |-> altitude.measured,
                 seen |-> IF found THEN reply.seen ELSE 0]
    /\ accepted' = Accepted(found, d)
    /\ shown' = IF found THEN [have |-> TRUE, distance |-> d] ELSE shown
    /\ NextRound
    /\ reply' = None
    /\ UNCHANGED <<altitude, unread, next_altitude, detection, reader>>

(* Reading from the flight controller has thrown: the program ends. *)
ReceiveThrows ==
  /\ pc = "receive"
  /\ pc' = "ended" /\ spent' = 0
  /\ UNCHANGED <<altitude, accepted, unread, next_altitude, detection, reply,
                 inbox, reader, shown>>

(* The answer is read, or http_get() has thrown: a refused connection, a    *)
(* malformed answer, a timeout.                                             *)
Answered == pc = "request" /\ reply # None /\ SendPacket
RequestFails == pc = "request" /\ reply = None /\ SendPacket

(***************************************************************************)
(* The reader: TargetRangeReceiver::poll() and the tests of control.cpp.   *)
(***************************************************************************)
Poll ==
  /\ waited > 0
  /\ IF inbox = None THEN UNCHANGED <<last, link_age>>
                     ELSE last' = inbox /\ link_age' = 0
  /\ inbox' = None
  /\ waited' = 0
  /\ UNCHANGED <<loop, unread, next_altitude, detection, reply, shown>>

PacketLater(p) ==
  IF p = None THEN None
  ELSE [p EXCEPT !.measured = Older(@), !.seen = IF p.found THEN Older(@) ELSE 0]

Tick ==
  /\ next_altitude > 0
  /\ pc = "receive" => unread = <<>> /\ spent < Cycle
  /\ pc = "request" => spent < MaxHttp
  /\ waited < MaxPass
  /\ spent' = IF pc = "ended" THEN spent ELSE spent + 1
  /\ waited' = waited + 1
  /\ next_altitude' = next_altitude - 1
  /\ unread' = [i \in DOMAIN unread |-> Older(unread[i])]
  /\ altitude' = [altitude EXCEPT !.age = IF @ > AltitudeStale THEN @ ELSE @ + 1,
                                  !.measured = Older(@)]
  /\ detection' = [detection EXCEPT !.age = Older(@)]
  /\ reply' = IF reply = None THEN None ELSE [reply EXCEPT !.seen = Older(@)]
  /\ inbox' = PacketLater(inbox)
  /\ last' = PacketLater(last)
  /\ link_age' = IF link_age > LinkStale THEN link_age ELSE link_age + 1
  /\ UNCHANGED <<pc, accepted, shown>>

Init ==
  /\ pc = "receive" /\ spent = 0
  /\ unread = <<>> /\ next_altitude = AltitudePeriod
  /\ altitude = [have |-> FALSE, age |-> 0, measured |-> 0, fresh |-> FALSE]
  /\ accepted = [have |-> FALSE, distance |-> 0]
  /\ detection = [confirmed |-> FALSE, age |-> 0]
  /\ reply = None /\ inbox = None /\ last = None
  /\ link_age = LinkStale + 1
  /\ waited = 0
  /\ shown = [have |-> FALSE, distance |-> 0]

Next == AltitudeArrives \/ Inference \/ Answer \/ ReceiveAltitude
        \/ ReceiveNothing \/ ReceiveThrows \/ Answered \/ RequestFails
        \/ Poll \/ Tick

Spec == Init /\ [][Next]_vars

-----------------------------------------------------------------------------
Age == 0..Oldest
Reading == [have : BOOLEAN, distance : Distances \cup {0}]
RangePacket == [altitude_valid : BOOLEAN, found : BOOLEAN, valid : BOOLEAN,
                measured : Age, seen : Age]

(* Every variable holds a value of its kind; the unread messages are in the *)
(* order in which they came.                                                *)
TypeOK ==
  /\ pc \in {"receive", "request", "ended"}
  /\ spent \in 0..(IF pc = "receive" THEN Cycle ELSE MaxHttp)
  /\ unread \in Seq(Age) /\ Len(unread) <= MaxUnread
  /\ \A i, j \in DOMAIN unread : i < j => unread[i] >= unread[j]
  /\ next_altitude \in 0..AltitudePeriod
  /\ altitude \in [have : BOOLEAN, age : 0..AltitudeStale + 1, measured : Age,
                   fresh : BOOLEAN]
  /\ accepted \in Reading /\ shown \in Reading
  /\ detection \in [confirmed : BOOLEAN, age : Age]
  /\ reply = None \/ reply \in [confirmed : BOOLEAN, age_ms : Age, seen : Age]
  /\ inbox = None \/ inbox \in RangePacket
  /\ last = None \/ last \in RangePacket
  /\ link_age \in 0..LinkStale + 1
  /\ waited \in 0..MaxPass

(* control.cpp moves the vehicle on what it calls a tracked target.         *)
Tracked == last # None /\ link_age <= LinkStale /\ last.valid /\ last.found

(* The delays add up to no more than the settings say: a target control.cpp *)
(* moves towards was seen by an inference that ended at most target_stale,  *)
(* one request, one pass and link_stale ago.                                *)
DetectionIsRecent ==
  Tracked => last.seen <= TargetStale + MaxHttp + MaxPass + LinkStale

(* A round reads one message and asks yolo_live once: while a request takes *)
(* longer than the flight controller's period messages queue up, and each   *)
(* is taken for new when its turn comes.  The altitude of a packet that     *)
(* calls it valid is never further behind than a full socket's messages,    *)
(* a request each, then altitude_stale_ms without another, and the request  *)
(* before the packet goes out.                                              *)
AltitudeLagBounded ==
  [][pc = "request" /\ pc' = "receive" /\ inbox'.altitude_valid =>
       inbox'.measured <= AltitudeStale + (MaxUnread + 1) * MaxHttp]_vars

(* target_link.hpp: altitude_m is the last known reading, "but only trust   *)
(* it as current when this is 1".  A packet that has it set would then      *)
(* carry an altitude measured at most altitude_stale_ms and two requests    *)
(* ago: one during which the message waited to be read, one before the      *)
(* packet went out.  The queue makes it older: the code violates this, with *)
(* the constants of TargetSensing.cfg as well as with the shipped ones.     *)
AltitudeIsCurrent ==
  [][pc = "request" /\ pc' = "receive" /\ inbox'.altitude_valid =>
       inbox'.measured <= AltitudeStale + 2 * MaxHttp]_vars

(* The distances control.cpp is given move by at most max_distance_jump_m   *)
(* from one packet with a target to the next, however many packets without  *)
(* one are in between.                                                      *)
NoJumpGetsThrough ==
  [][shown.have => Gap(shown'.distance, shown.distance) <= MaxJump]_vars
=============================================================================
