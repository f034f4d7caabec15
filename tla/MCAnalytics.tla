----------------------------- MODULE MCAnalytics -----------------------------
(* A small instance of Analytics for TLC.  Windows are two long and the      *)
(* delay is one: 2 is flagged after 4, but still counted; after 6 its window *)
(* is closed.  The topic starts with the snapshot of three orders, two of    *)
(* them in the first window.                                                 *)
EXTENDS Analytics

MCTimes == {2, 4, 6}

MCSnapshot == [i \in 1 .. 3 |-> [op |-> "r", time |-> <<2, 2, 4>>[i]]]

MCInventory == <<TRUE>>
=============================================================================
