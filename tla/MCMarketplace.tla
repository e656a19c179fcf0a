---------------------------- MODULE MCMarketplace ----------------------------
(* Two requests meet on the second leg of one journey, which can carry     *)
(* only one of them; the second request may travel on another journey.     *)
EXTENDS Marketplace, TLC

MCRequests == {"r1", "r2"}
MCJourneys == {"j1", "j2"}
MCCandidates == {<<"r1", "j1">>, <<"r2", "j1">>, <<"r2", "j2">>}
MCLegs == {"l1", "l2", "l3"}
MCCovered == (<<"r1", "j1">> :> {"l1", "l2"}) @@ (<<"r2", "j1">> :> {"l2"})
                @@ (<<"r2", "j2">> :> {"l3"})
MCWeight == [r \in MCRequests |-> IF r = "r1" THEN 2 ELSE 1]
MCCapacity == [l \in MCLegs |-> IF l = "l3" THEN 1 ELSE 2]
=============================================================================
