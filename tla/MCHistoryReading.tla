-------------------------- MODULE MCHistoryReading --------------------------
(***************************************************************************)
(* A small instance of HistoryReading: one fact that is promoted and then  *)
(* superseded together with another, while its history is being read.      *)
(***************************************************************************)
EXTENDS HistoryReading

Request1(k, o, old, r) ==
    [key |-> k, op |-> o, facts |-> old, space |-> "domain",
     about |-> r, verdict |-> "approved", expected |-> 1]

MCKey == 1..6

MCRequest ==
    {Request1(1, "create", {}, 1), Request1(2, "create", {}, 2),
     Request1(3, "create", {1, 2}, 3), Request1(4, "propose", {1}, 4),
     Request1(5, "decide", {}, 4), Request1(6, "invalidate", {1}, 6)}
=============================================================================
