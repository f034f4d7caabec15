----------------------------- MODULE MCGoldBuild -----------------------------
(* Small instances of GoldBuild for TLC: two orders of one customer for the  *)
(* builder, one of them for what the gate and the tests see.                 *)
EXTENDS GoldBuild, TLC

CONSTANTS o1, o2, c1

MCOrders == {o1, o2}

MCOneOrder == {o1}

MCCustomers == {c1}

MCCustomerOf == [o \in Orders |-> c1]

MCOrderSymmetry == Permutations(MCOrders)
=============================================================================
