----------------------------- MODULE MCFactStore ----------------------------
(***************************************************************************)
(* Small instances of FactStore: two facts, and the requests whose races   *)
(* matter about them.                                                      *)
(***************************************************************************)
EXTENDS FactStore

Add(k, old, s) == [key |-> k, op |-> "create", facts |-> old, space |-> s,
                   about |-> k, verdict |-> "approved", expected |-> 1]
Drop(k, f) == [key |-> k, op |-> "invalidate", facts |-> {f}, space |-> "domain",
               about |-> k, verdict |-> "approved", expected |-> 1]
Offer(k, f) == [key |-> k, op |-> "propose", facts |-> {f}, space |-> "domain",
                about |-> k, verdict |-> "approved", expected |-> 1]
Judge(k, r, v, x) == [key |-> k, op |-> "decide", facts |-> {}, space |-> "domain",
                      about |-> r, verdict |-> v, expected |-> x]

MCKey == 1..10

\* Two facts; two requests that replace both and one that drops the first; the
\* first proposed twice and judged in both ways (the rejection reuses the key of
\* the drop), and once for a revision it was not proposed at.
MCRequest ==
    {Add(1, {}, "domain"), Add(2, {}, "shared"),
     Add(3, {1, 2}, "domain"), Add(4, {1, 2}, "shared"), Drop(5, 1),
     Offer(6, 1), Offer(7, 1),
     Judge(8, 6, "approved", 1), Judge(5, 6, "rejected", 1), Judge(10, 7, "approved", 1),
     Judge(9, 6, "approved", 2)}
=============================================================================
