----------------------------- MODULE MCFecLink -----------------------------
(***************************************************************************)
(* The worlds in which TLC checks FecLink: one long run of the sender over *)
(* a network that loses, duplicates and reorders what it likes, and a      *)
(* sender that is restarted over a network that loses little.  And one in  *)
(* which one datagram is lost while the first group of each lane is sent,  *)
(* for OneLossRecovered at the shipped rates.                              *)
(***************************************************************************)
EXTENDS FecLink

TwoWorlds ==
  {[runs |-> 1, messages |-> 7, losses |-> 12, duplicates |-> TRUE,
    stall |-> 0],
   [runs |-> 2, messages |-> 3, losses |-> 1, duplicates |-> FALSE,
    stall |-> 1]}

OneLossOnly ==
  {[runs |-> 1, messages |-> 11, losses |-> 1, duplicates |-> FALSE,
    stall |-> 0]}
============================================================================
