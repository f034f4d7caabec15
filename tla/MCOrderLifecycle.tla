-------------------------- MODULE MCOrderLifecycle --------------------------
(* A small instance of OrderLifecycle for TLC.                             *)
EXTENDS OrderLifecycle

CONSTANTS w1, w2

MCWarehouses == {w1}
=============================================================================
