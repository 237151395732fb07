-------------------------------- MODULE MCLive --------------------------------
(* What a terminal shows during a live read and the read itself, for TLC:  *)
(* neither looks at the other, so a run takes one of them.                 *)
EXTENDS Spinner, LiveAccess

Setup(auth, product, customer, gov) ==
    [auth |-> auth, product |-> product, customer |-> customer, gov |-> gov]
MCSetups ==
    {Setup("oneapi", "zia", FALSE, FALSE), Setup("legacy", "zia", FALSE, FALSE),
     Setup("oneapi", "zpa", FALSE, TRUE), Setup("oneapi", "zidentity", TRUE, TRUE),
     Setup("legacy", "zpa", TRUE, FALSE), Setup("legacy", "zdx", FALSE, FALSE)}

MCSearchFailures == {<<401, "session">>, <<0, "timeout">>}

-------------------------------------------------------------------------------
VARIABLE part      \* "spinner" or "read"

MCInit ==
    \/ part = "spinner" /\ Init /\ LiveInit /\ home = 0 /\ setup.product = "zdx"
    \/ part = "read" /\ Init /\ ~active /\ LiveInit

MCNext ==
    /\ UNCHANGED part
    /\ \/ part = "spinner" /\ Next /\ UNCHANGED live
       \/ part = "read" /\ LiveNext /\ UNCHANGED vars

MCSpec ==
    /\ MCInit
    /\ [][MCNext]_<<part, vars, live>>
    /\ \A a \in Actor : WF_vars(Going(a))
    /\ SF_vars(Exit)
    /\ WF_live(LiveStep)

===============================================================================
