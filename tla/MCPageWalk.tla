------------------------------ MODULE MCPageWalk ------------------------------
(* PageWalk for TLC: collections of up to four records, one of which has   *)
(* no id, in two orders.                                                   *)
EXTENDS PageWalk

CONSTANTS a, b, c, d, e

Records(names) == [i \in DOMAIN names |-> <<names[i], 0>>]

MCTenants ==
    {SubSeq(Records(names), 1, n) : names \in {<<a, b, c, d>>, <<e, a, b, c>>}, n \in 0..4}

=============================================================================
