---------------------------- MODULE FecDecoder ----------------------------
(***************************************************************************)
(* FecDecoder of gcs/tools/fec_core.py.  One Poll is one call of poll():   *)
(* it takes at most one packet from the socket, then sweeps every open     *)
(* group, delivering and closing the ones that are complete or have timed  *)
(* out.  "groups" holds the groups that are open, "out" the payloads that  *)
(* the last call returned.                                                 *)
(*                                                                         *)
(* A group keeps its age instead of first_seen.  An age stops growing past *)
(* any a group can reach while poll() is called in time.                   *)
(***************************************************************************)
EXTENDS FecPacket

CONSTANTS
  GroupTimeout,   (* GROUP_TIMEOUT_S                                         *)
  PollTimeout     (* poll_timeout: how long poll() waits for a packet        *)

ASSUME DecoderAssumption ==
  GroupTimeout \in Nat /\ PollTimeout \in Nat \ {0}

LongestWait == GroupTimeout + PollTimeout

VARIABLES
  groups,       (* key -> Group, for the keys that have one                  *)
  high_water,   (* lane -> the highest group closed in it, -1 at first       *)
  stats,        (* delivered, recovered, lost                                *)
  out

decoder == <<groups, high_water, stats, out>>

NoPacket == [type |-> "NONE"]
NewGroup == [data |-> [i \in Slot |-> {}], parity |-> {}, age |-> 0]

DecoderIdle == UNCHANGED <<groups, high_water, stats>> /\ out' = {}

DecoderInit ==
  /\ groups = << >>
  /\ high_water = [l \in Lane |-> -1]
  /\ stats = [delivered |-> 0, recovered |-> 0, lost |-> 0]
  /\ out = {}

(* Mutation of Stale: a closed group can be opened again.                   *)
NeverStale(p) == FALSE

(* A packet of a group that is not open and not above the watermark.        *)
Stale(p) == p.key \notin DOMAIN groups /\ p.key[2] <= high_water[p.key[1]]

(* Mutation of GroupOf: every packet opens its group anew.                  *)
AlwaysNew(k) == NewGroup

GroupOf(k) == IF k \in DOMAIN groups THEN groups[k] ELSE NewGroup

(* add_data() and add_parity(). *)
Added(g, p) ==
  IF p.type = "DATA" THEN [g EXCEPT !.data[p.group_seq] = p.payload]
                     ELSE [g EXCEPT !.parity = p.payload]

(* The open groups once the packet has been taken in. *)
Absorbed(p) ==
  IF p = NoPacket \/ Stale(p)
  THEN groups
  ELSE [k \in DOMAIN groups \cup {p.key} |->
          IF k = p.key THEN Added(GroupOf(k), p) ELSE groups[k]]

(***************************************************************************)
(* try_recover() and the sweep.                                            *)
(***************************************************************************)
Present(g) == {i \in Slot : g.data[i] # {}}
Missing(g) == Slot \ Present(g)

(* No message is in two slots, so XOR over the slots is their union.        *)
Recovered(g) == Xor(g.parity, UNION {g.data[i] : i \in Slot})

Whole(g)       == Missing(g) = {}
(* Mutation of Recoverable: parity alone is taken to be enough.             *)
RecoverableByParity(g) == Missing(g) # {} /\ g.parity # {}
Recoverable(g) == g.parity # {} /\ \E i \in Slot : Missing(g) = {i}
Complete(g)    == Whole(g) \/ Recoverable(g)

TimedOut(g) == g.age > GroupTimeout

Delivered(g) ==
  {g.data[i] : i \in Present(g)}
  \cup (IF Recoverable(g) THEN {Recovered(g)} ELSE {})

Closing(gs) == {k \in DOMAIN gs : Complete(gs[k]) \/ TimedOut(gs[k])}

ClosedIn(l, closed) == {k[2] : k \in {j \in closed : j[1] = l}}

(* Mutation of HighWaterAfter: the watermark follows the groups closed last, *)
(* down as well as up.                                                      *)
LastClosed(closed) ==
  [l \in Lane |-> IF ClosedIn(l, closed) = {} THEN high_water[l]
                  ELSE Max(ClosedIn(l, closed))]

HighWaterAfter(closed) ==
  [l \in Lane |-> Max({high_water[l]} \cup ClosedIn(l, closed))]

(* What the sweep adds to the counters. *)
SlotsOf(gs, ks) == {s \in ks \X Slot : gs[s[1]].data[s[2]] # {}}

Counted(gs, closed) ==
  [delivered |-> stats.delivered + Cardinality(SlotsOf(gs, closed)),
   recovered |-> stats.recovered
                   + Cardinality({k \in closed : Recoverable(gs[k])}),
   lost      |-> stats.lost
                   + Cardinality({s \in closed \X Slot :
                                    /\ ~Complete(gs[s[1]])
                                    /\ gs[s[1]].data[s[2]] = {}})]

(* What is left once the sweep has closed these groups. *)
Closes(gs, closed) ==
  /\ groups' = [k \in DOMAIN gs \ closed |-> gs[k]]
  /\ high_water' = HighWaterAfter(closed)
  /\ stats' = Counted(gs, closed)

Sweep(gs) ==
  /\ Closes(gs, Closing(gs))
  /\ out' = UNION {Delivered(gs[k]) : k \in Closing(gs)}

Poll(p) == Sweep(Absorbed(p))

(* A recovery that mixes the groups of two runs of the sender can raise an  *)
(* IndexError, when a payload is longer than the parity.  Any of the other  *)
(* groups may have been closed before that one in the same sweep; what they *)
(* gave is not returned, and the exception ends the thread that calls       *)
(* poll().                                                                  *)
Garbled(g) == Recoverable(g) /\ Cardinality(Recovered(g)) # 1

PollRaises(p) ==
  LET gs == Absorbed(p) IN
    \E k \in Closing(gs), done \in SUBSET Closing(gs) :
      /\ Garbled(gs[k]) /\ k \notin done
      /\ Closes(gs, done)
      /\ out' = {}

Aged ==
  [k \in DOMAIN groups |->
     [groups[k] EXCEPT !.age = IF @ > LongestWait THEN @ ELSE @ + 1]]

GroupRecord ==
  [data : [Slot -> SUBSET Message], parity : SUBSET Message,
   age : 0..LongestWait + 1]

DecoderTypeOK ==
  /\ DOMAIN groups \subseteq Key
  /\ \A k \in DOMAIN groups : groups[k] \in GroupRecord
  /\ high_water \in [Lane -> -1..GroupWrap - 1]
  /\ stats \in [delivered : Nat, recovered : Nat, lost : Nat]
  /\ out \subseteq SUBSET Message
===========================================================================
